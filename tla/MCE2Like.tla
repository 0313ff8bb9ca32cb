------------------------------ MODULE MCE2Like ------------------------------
\* Instances of E2LikeServer: two associations, a buffer of two messages.
EXTENDS E2LikeServer, TLC

CONSTANTS a1, a2

\* A number of samples, half a sample more, and one with a marker in the I/Q data.
ThreeMessages == {[len |-> 2, bad |-> FALSE], [len |-> 3, bad |-> FALSE],
                  [len |-> 2, bad |-> TRUE]}
ThreeAndTwo == a1 :> 3 @@ a2 :> 2
=============================================================================
