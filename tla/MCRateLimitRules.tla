-------------------------- MODULE MCRateLimitRules ---------------------------
(* Instances of RateLimitRules for TLC; handlers are interchangeable, and  *)
(* so are requests.                                                        *)
EXTENDS RateLimitRules, TLC

Symmetry == Permutations(Admins) \cup Permutations(Requests)

==============================================================================
