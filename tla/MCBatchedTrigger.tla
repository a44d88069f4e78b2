-------------------------- MODULE MCBatchedTrigger --------------------------
(***************************************************************************)
(* Values for the constants of BatchedTrigger that a .cfg cannot write.    *)
(***************************************************************************)
EXTENDS BatchedTrigger, TLC

CONSTANTS o1, o2, p1, p2, s1, s2, reg

MCChunks == [d \in Depths |-> 2 ^ d]

ExternalOne == {<<s1, 0>>}
ExternalTwo == {<<s1, 0>>, <<s1, 1>>}
=============================================================================
