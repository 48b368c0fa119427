--------------------------- MODULE MCAttribution -----------------------------
(* Instances of Attribution for TLC: a household behind one address, where *)
(* a signed-in player, a named progress report and a bare media stream     *)
(* share some of their keys.                                               *)
EXTENDS Attribution, TLC

CONSTANTS u1, u2, t, device, ip, item

SignedIn == [named |-> NoOne, token |-> t, keys |-> <<device, ip>>, item |-> item]
Named    == [named |-> u2, token |-> NoToken, keys |-> <<ip>>, item |-> NoItem]
Stream   == [named |-> NoOne, token |-> NoToken, keys |-> <<ip>>, item |-> item]

Household == {SignedIn, Named, Stream}
Symmetry == Permutations(Requests)

==============================================================================
