------------------------ MODULE BatchedTriggerProofs ------------------------
(***************************************************************************)
(* trigger(bytes32[]) for lists of any length, with repeated volumes,      *)
(* shared batches and shared payers.                                       *)
(*                                                                         *)
(* A revert brings back the state before the transaction, so the inductive *)
(* invariant also says that what is saved is a good state of the registry. *)
(***************************************************************************)
EXTENDS BatchedTrigger, PaymentProofs

(* The state a revert brings back is good: Inv and DepthsAllowed hold of   *)
(* it, the rest of the state being as it is now.                           *)
SavedOK ==
    /\ saved.balance \in [Holders -> Nat]
    /\ saved.allowance \in [Holders -> Nat]
    /\ saved.batches \in [BatchIds -> Batch]
    /\ \A b \in BatchIds :
          saved.batches[b].owner # Zero => saved.batches[b].depth \in Depths
    /\ saved.volumes \in [VolumeIds -> Volume]
    /\ saved.activeVolumeIds \in Seq(VolumeIds)
    /\ \A id \in VolumeIds : saved.volumes[id].status # "None" =>
          /\ saved.volumes[id].owner \in Owners
          /\ saved.volumes[id].batchId \in BatchIds
          /\ saved.volumes[id].depth \in Depths
          /\ saved.volumes[id].depth > MinBucketDepth

(* The transaction is at an item of its list, or there is none.            *)
CursorOK ==
    \/ ids = << >> /\ at = 0
    \/ /\ ids \in Seq(VolumeIds)
       /\ at \in 1 .. Len(ids)
       /\ SavedOK

BatchInv == Inv /\ DepthsAllowed /\ CursorOK

(* Outside a transaction the registry makes its own steps.                 *)
LEMMA OutsideStep ==
    ASSUME BatchInv, Next, UNCHANGED txVars
    PROVE  BatchInv'
  <1>1. Inv' /\ DepthsAllowed'
    BY StepInv, DepthsAllowedStep DEF BatchInv
  <1>2. CursorOK'
    BY DEF BatchInv, CursorOK, SavedOK, txVars
  <1> QED
    BY <1>1, <1>2 DEF BatchInv

(* A transaction begins in a good state, which is what it saves.           *)
LEMMA BeginStep ==
    ASSUME BatchInv, NEW list \in Lists, BeginBatch(list)
    PROVE  BatchInv' /\ at' = 1
  <1>1. /\ UNCHANGED vars /\ ids' = list /\ at' = 1
        /\ saved' = [volumes |-> volumes, activeVolumeIds |-> activeVolumeIds,
                     batches |-> batches, balance |-> balance,
                     allowance |-> allowance]
    BY DEF BeginBatch, Snap
  <1>2. Inv' /\ DepthsAllowed'
    BY <1>1, StepInv, DepthsAllowedStep DEF BatchInv
  <1>3. list \in Seq(VolumeIds) /\ 1 \in 1 .. Len(list)
    <2>1. PICK n \in 1 .. MaxBatch : list \in [1 .. n -> VolumeIds]
      BY DEF Lists
    <2> QED
      BY <2>1, BatchAssumption
  <1>4. SavedOK'
    BY <1>1
    DEF SavedOK, BatchInv, Inv, DepthsAllowed, BzzTypeOK, PostageTypeOK,
        BatchesComplete, Exists, VolumesOK, RecordsComplete
  <1> QED
    BY <1>1, <1>2, <1>3, <1>4 DEF BatchInv, CursorOK

(* An item that does not revert is a trigger of the registry.              *)
LEMMA ItemStep ==
    ASSUME BatchInv, BatchStep
    PROVE  /\ ids[at] \in VolumeIds /\ Trigger(ids[at])
           /\ BatchInv'
  <1>1. /\ ids \in Seq(VolumeIds) /\ at \in 1 .. Len(ids) /\ SavedOK
        /\ Trigger(ids[at])
    BY DEF BatchInv, CursorOK, BatchStep, Running
  <1>2. ids[at] \in VolumeIds
    BY <1>1
  <1>3. Next
    BY <1>1, <1>2 DEF Next, KeeperNext
  <1>4. Inv' /\ DepthsAllowed'
    BY <1>3, StepInv, DepthsAllowedStep DEF BatchInv
  <1>5. CASE at = Len(ids)
    BY <1>1, <1>2, <1>4, <1>5 DEF BatchStep, EndTx, BatchInv, CursorOK
  <1>6. CASE at # Len(ids)
    <2>1. at' = at + 1 /\ ids' = ids /\ saved' = saved
      BY <1>6 DEF BatchStep
    <2>2. SavedOK'
      BY <1>1, <2>1 DEF SavedOK
    <2>3. at' \in 1 .. Len(ids')
      BY <1>1, <1>6, <2>1
    <2> QED
      BY <1>1, <1>2, <1>4, <2>1, <2>2, <2>3 DEF BatchInv, CursorOK
  <1> QED
    BY <1>1, <1>2, <1>5, <1>6

(* A revert leaves the state it saved.                                     *)
LEMMA RevertStep ==
    ASSUME BatchInv, BatchReverts
    PROVE  BatchInv' /\ at' = 0
  <1>1. SavedOK /\ ids' = << >> /\ at' = 0
    BY DEF BatchInv, CursorOK, BatchReverts, Running, EndTx
  <1>2. BzzTypeOK'
    BY <1>1 DEF BatchInv, Inv, BzzTypeOK, BatchReverts, SavedOK
  <1>3. PostageTypeOK' /\ BatchesComplete'
    BY <1>1
    DEF BatchInv, Inv, PostageTypeOK, BatchesComplete, Exists, BatchReverts, SavedOK
  <1>4. VolumesOK' /\ DepthsAllowed'
    BY <1>1
    DEF VolumesOK, RecordsComplete, DepthsAllowed, BatchReverts, SavedOK
  <1>5. AccountsOK' /\ nextNonce' \in 0 .. MaxMint
    BY DEF BatchInv, Inv, AccountsOK, BatchReverts
  <1> QED
    BY <1>1, <1>2, <1>3, <1>4, <1>5 DEF BatchInv, Inv, CursorOK

LEMMA BatchInit == BInit => BatchInv /\ BatchPaysOnce
  <1> SUFFICES ASSUME BInit
               PROVE  BatchInv /\ BatchPaysOnce
    OBVIOUS
  <1>1. Inv /\ DepthsAllowed
    BY InitInv DEF BInit, Init, NoVolume, DepthsAllowed
  <1> QED
    BY <1>1 DEF BInit, BatchInv, CursorOK, BatchPaysOnce

(* Each step keeps what the transaction has settled: an item settles its   *)
(* own volume and leaves the others' settled (TriggerSettles), and no call *)
(* of anyone comes in between.                                             *)
LEMMA BatchInvStep ==
    ASSUME BatchInv, BatchPaysOnce, [BNext]_bvars
    PROVE  BatchInv' /\ BatchPaysOnce'
  <1>1. CASE ~Running /\ Next /\ UNCHANGED txVars
    <2>1. at' = 0
      BY <1>1 DEF Running, BatchInv, CursorOK, txVars
    <2> QED
      BY <1>1, <2>1, OutsideStep DEF BatchPaysOnce
  <1>2. ASSUME NEW list \in Lists, BeginBatch(list)
        PROVE  BatchInv' /\ BatchPaysOnce'
    BY <1>2, BeginStep DEF BatchPaysOnce
  <1>3. CASE BatchStep
    <2>1. /\ ids[at] \in VolumeIds /\ Trigger(ids[at]) /\ Inv
          /\ BatchInv'
      BY <1>3, ItemStep DEF BatchInv
    <2>2. CASE at = Len(ids)
      BY <1>3, <2>1, <2>2 DEF BatchStep, EndTx, BatchPaysOnce
    <2>3. CASE at # Len(ids)
      <3>1. /\ ids' = ids /\ at' = at + 1
            /\ ids \in Seq(VolumeIds) /\ at \in 1 .. Len(ids)
        BY <1>3, <2>3 DEF BatchStep, Running, BatchInv, CursorOK
      <3>2. ASSUME NEW i \in 1 .. at
            PROVE  Settled(ids[i])'
        <4>1. PICK id \in VolumeIds : id = ids[i]
          BY <3>1
        <4>2. id = ids[at] \/ Settled(id)
          BY <3>1, <4>1 DEF BatchPaysOnce
        <4>3. Settled(id)'
          BY <2>1, <4>2, TriggerSettles
        <4> QED
          BY <3>1, <4>1, <4>3 DEF Settled
      <3> QED
        BY <2>1, <3>1, <3>2 DEF BatchPaysOnce
    <2> QED
      BY <2>2, <2>3
  <1>4. CASE BatchReverts
    BY <1>4, RevertStep DEF BatchPaysOnce
  <1>5. CASE UNCHANGED bvars
    <2>1. UNCHANGED vars /\ UNCHANGED txVars
      BY <1>5 DEF bvars
    <2>2. BatchInv'
      <3>1. Inv' /\ DepthsAllowed'
        BY <2>1, StepInv, DepthsAllowedStep DEF BatchInv
      <3> QED
        BY <2>1, <3>1 DEF BatchInv, CursorOK, SavedOK, txVars
    <2>3. ASSUME NEW id
          PROVE  Settled(id)' = Settled(id)
      BY <2>1
      DEF vars, registryVars, bzzVars, postageVars, Settled,
          TriggerOutcome, Live, Exists, TtlPassed, Remaining, Target, CanPull, Payer,
          Amount, Deficit, ShiftedBy
    <2>4. ids' = ids /\ at' = at
      BY <2>1 DEF txVars
    <2>5. ASSUME NEW i \in 1 .. at - 1
          PROVE  Settled(ids[i])'
      <3>1. PICK id : id = ids[i]
        OBVIOUS
      <3>2. Settled(id)'
        BY <2>3, <3>1 DEF BatchPaysOnce
      <3> QED
        BY <2>4, <3>1, <3>2 DEF Settled
    <2> QED
      BY <2>2, <2>4, <2>5 DEF BatchPaysOnce
  <1> QED
    BY <1>1, <1>2, <1>3, <1>4, <1>5 DEF BNext

(* I5 for a list: the loop of trigger(bytes32[]) charges no payer twice    *)
(* for one volume, however often the list names it and whatever the other  *)
(* items do.                                                               *)
THEOREM BatchPaysOnceTheorem == BSpec => []BatchPaysOnce
  <1>1. (BatchInv /\ BatchPaysOnce) /\ [BNext]_bvars => (BatchInv /\ BatchPaysOnce)'
    BY BatchInvStep
  <1> QED
    BY <1>1, BatchInit, PTL DEF BSpec

(* ADR-0007 for a list: no volume, account or payer makes the loop revert, *)
(* whatever its earlier items did; so it needs no isolation.               *)
THEOREM BatchRevertsTheorem == BSpec => []BatchRevertsOnlyOnFaults
  <1>1. BatchInv => BatchRevertsOnlyOnFaults
    <2> SUFFICES ASSUME BatchInv, Running, TriggerReverts(ids[at])
                 PROVE  LET v == volumes[ids[at]]
                        IN  \/ paused \/ bzzPaused \/ minValidity > GraceBlocks
                            \/ Total(Deficit(v), v.depth) >= Word
      BY DEF BatchRevertsOnlyOnFaults
    <2>1. PICK id \in VolumeIds : id = ids[at]
      BY DEF BatchInv, CursorOK, Running
    <2> DEFINE v == volumes[id]
    <2>2. /\ TriggerOutcome(v) = "ToppedUp"
          /\ ~(/\ TopUpOK(v.batchId, Deficit(v))
               /\ TransferFromOK(Payer(v), Amount(v))
               /\ Drawn(v.batchId, Deficit(v)) <= Amount(v))
      BY <2>1 DEF TriggerReverts
    <2>3. /\ v.owner \in Owners /\ v.batchId \in BatchIds /\ v.depth \in Depths
          /\ Inv
      BY <2>2, ToppedUpFacts DEF BatchInv, Inv, VolumesOK, RecordsComplete
    <2>4. Amount(v) <= Amount(v)
      <3>1. Amount(v) \in Int
        BY <2>2, <2>3, DeficitFacts, InvParts
      <3> QED
        BY <3>1
    <2>5. TriggerRevertsOnlyOnFaults
      BY ChecksSuffice DEF BatchInv
    <2> QED
      BY <2>1, <2>2, <2>4, <2>5 DEF TriggerRevertsOnlyOnFaults
  <1>2. (BatchInv /\ BatchPaysOnce) /\ [BNext]_bvars => (BatchInv /\ BatchPaysOnce)'
    BY BatchInvStep
  <1> QED
    BY <1>1, <1>2, BatchInit, PTL DEF BSpec
=============================================================================
