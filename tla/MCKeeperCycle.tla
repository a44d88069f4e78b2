--------------------------- MODULE MCKeeperCycle ---------------------------
(***************************************************************************)
(* Values for the constants of KeeperCycle that a .cfg cannot write.       *)
(***************************************************************************)
EXTENDS KeeperCycle, TLC

CONSTANTS v1, v2, v3

SelectOne == <<v1>>
SelectTwo == <<v1, v2>>
=============================================================================
