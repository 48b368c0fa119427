----------------------------- MODULE MCSettings ------------------------------
(* Instances of Settings for TLC: requests that name a key, a password,    *)
(* both or neither, with and without a limit.                              *)
EXTENDS Settings

CONSTANTS k1, k2, secret

Asks(l, k, p) == [limits |-> l, key |-> k, password |-> p]
FourRequests ==
  {Asks(5, k1, Unset), Asks(NoLimit, Unset, secret), Asks(5, Unset, Unset),
   Asks(NoLimit, k2, BuiltIn)}

==============================================================================
