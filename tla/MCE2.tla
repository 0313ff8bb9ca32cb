-------------------------------- MODULE MCE2 --------------------------------
\* Instances of E2Term: a node with two associations, one after the other or
\* side by side.
EXTENDS E2Term, TLC

CONSTANTS c1, c2, n1

TwoOfOneNode == c1 :> n1 @@ c2 :> n1
ListenerSymmetry == Permutations(Listeners)
=============================================================================
