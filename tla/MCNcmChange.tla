---------------------------- MODULE MCNcmChange ----------------------------
EXTENDS NcmChange, TLC

CONSTANTS s1, s2, v1, v2

InitialNone == [s \in Settings |-> Absent]
InitialMixed == (s1 :> v1 @@ s2 :> Absent)

\* one setting: a value or its removal; two: a removal, an addition, both, and a
\* value that may be one of the refused lines
ChangesOne == [Settings -> Values \cup {Absent}]
ChangesTwo == {(s1 :> Absent), (s2 :> v1), (s1 :> Absent @@ s2 :> v1), (s1 :> v2)}

Symmetry == Permutations(Threads) \cup Permutations(Admins)
=============================================================================
