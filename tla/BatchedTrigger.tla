--------------------------- MODULE BatchedTrigger ---------------------------
(***************************************************************************)
(* trigger(bytes32[]): a keeper's transaction that runs _triggerOne on a   *)
(* list of volumes, one after the other.  Between its steps nothing else   *)
(* runs.  A step that reverts undoes the whole transaction: every volume   *)
(* retired and every payment made before it in the list.                   *)
(***************************************************************************)
EXTENDS VolumeRegistry

CONSTANT MaxBatch       \* bound: the longest list a keeper passes

ASSUME BatchAssumption == MaxBatch \in Nat

VARIABLES
    ids,      \* volumeIds, the argument of the running transaction, or << >>
    at,       \* i, counted from 1
    saved     \* what a revert restores

txVars == <<ids, at, saved>>
bvars  == <<vars, txVars>>

Running == ids # << >>

(* The part of the state that _triggerOne can change.                      *)
Snap == [volumes |-> volumes, activeVolumeIds |-> activeVolumeIds,
         batches |-> batches, balance |-> balance, allowance |-> allowance]

NoTx == <<>>

BInit == Init /\ ids = << >> /\ at = 0 /\ saved = NoTx

Lists == UNION {[1 .. n -> VolumeIds] : n \in 1 .. MaxBatch}

BeginBatch(list) ==
    /\ ~Running
    /\ ids' = list
    /\ at' = 1
    /\ saved' = Snap
    /\ UNCHANGED vars

EndTx == ids' = << >> /\ at' = 0 /\ saved' = NoTx

BatchStep ==
    /\ Running
    /\ Trigger(ids[at])
    /\ IF at = Len(ids) THEN EndTx
       ELSE at' = at + 1 /\ UNCHANGED <<ids, saved>>

(* _triggerOne gets as far as the payment and the payment reverts.         *)
TriggerReverts(id) ==
    LET v == volumes[id]
    IN  /\ TriggerOutcome(v) = "ToppedUp"
        /\ ~(/\ TopUpOK(v.batchId, Deficit(v))
             /\ TransferFromOK(Payer(v), Amount(v))
             /\ Drawn(v.batchId, Deficit(v)) <= Amount(v))

BatchReverts ==
    /\ Running
    /\ TriggerReverts(ids[at])
    /\ volumes' = saved.volumes
    /\ activeVolumeIds' = saved.activeVolumeIds
    /\ batches' = saved.batches
    /\ balance' = saved.balance
    /\ allowance' = saved.allowance
    /\ EndTx
    /\ UNCHANGED <<now, expirations, bzzPaused, lastPrice, outPayment, paused,
                   minValidity, designated, accounts, nextNonce>>

BNext ==
    \/ ~Running /\ Next /\ UNCHANGED txVars
    \/ \E list \in Lists : BeginBatch(list)
    \/ BatchStep
    \/ BatchReverts

BSpec == BInit /\ [][BNext]_bvars

-----------------------------------------------------------------------------
(* Properties.                                                             *)

(* A list may name a volume twice, and its volumes may share batches and   *)
(* payers: no volume the transaction has been through has anything left to *)
(* pay, so none is charged twice (I5).                                     *)
BatchPaysOnce == \A i \in 1 .. at - 1 : Settled(ids[i])

(* ADR-0007: the loop needs no isolation, because a list reverts only on a *)
(* paused Postage or token, on a floor raised above graceBlocks or on a    *)
(* charge beyond a word (more BZZ than exists), and not on anything an     *)
(* earlier item of the list did.                                           *)
BatchRevertsOnlyOnFaults ==
    LET v == volumes[ids[at]]
    IN  Running /\ TriggerReverts(ids[at]) =>
            \/ paused \/ bzzPaused
            \/ minValidity > GraceBlocks
            \/ Total(Deficit(v), v.depth) >= Word
=============================================================================
