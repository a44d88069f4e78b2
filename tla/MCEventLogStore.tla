-------------------------- MODULE MCEventLogStore --------------------------
(***************************************************************************)
(* EventLogStore on a chain of a few blocks, with one file for the events  *)
(* of the registry and one for the fee leg.                                *)
(***************************************************************************)
EXTENDS EventLogStore, TLC

CONSTANTS registryEvent, bzzTransfer, first, second

ASSUME registryEvent # bzzTransfer
=============================================================================
