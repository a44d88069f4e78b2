-------------------------- MODULE MCVolumeRegistry --------------------------
(***************************************************************************)
(* Values for the constants of VolumeRegistry that a .cfg cannot write.    *)
(***************************************************************************)
EXTENDS VolumeRegistry, TLC

CONSTANTS o1, o2, p1, p2, s1, s2, reg

MCChunks == [d \in Depths |-> 2 ^ d]

(* Owners, and payers, are interchangeable: no definition names one.       *)
Swapped == Permutations({o1, o2}) \cup Permutations({p1, p2})

ExternalNone == {}
ExternalOne  == {<<s1, 0>>}
ExternalTwo  == {<<s1, 0>>, <<s1, 1>>}
=============================================================================
