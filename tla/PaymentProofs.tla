--------------------------- MODULE PaymentProofs ----------------------------
(***************************************************************************)
(* Theorems about what the registry takes and passes on, what it buys with *)
(* it, what trigger decides and when it can revert, on top of the          *)
(* invariant of VolumeRegistryProofs.                                      *)
(***************************************************************************)
EXTENDS VolumeRegistryProofs

-----------------------------------------------------------------------------
(* What the registry holds.                                                *)

(* A payment whose whole amount PostageStamp draws leaves the registry     *)
(* with what it had.                                                       *)
LEMMA PayThroughExact ==
    ASSUME BzzTypeOK, RegistryHoldsNothing, NEW p \in Payers, NEW amount \in Nat,
           PayThrough(p, amount, amount)
    PROVE  RegistryHoldsNothing'
  <1>1. p # Registry /\ p \in Holders /\ Registry \in Holders
    BY TokenAssumption DEF Holders
  <1>2. balance[Registry] + amount - amount = 0 /\ amount - amount = 0
    BY DEF RegistryHoldsNothing
  <1>3. balance'[Registry] = balance[Registry] + amount - amount
    BY <1>1 DEF PayThrough, BzzTypeOK
  <1>4. allowance'[Registry] = amount - amount
    BY <1>1 DEF PayThrough, BzzTypeOK
  <1> QED
    BY <1>2, <1>3, <1>4 DEF RegistryHoldsNothing

(* So does a topup, whose amount PostageStamp draws in full.               *)
LEMMA PayTopUpExact ==
    ASSUME Inv, RegistryHoldsNothing, NEW v,
           v.owner \in Owners, v.batchId \in BatchIds, v.depth \in Depths,
           TriggerOutcome(v) = "ToppedUp", PayTopUp(v)
    PROVE  RegistryHoldsNothing'
  <1>1. /\ Amount(v) \in Nat
        /\ Drawn(v.batchId, Deficit(v)) = Amount(v)
    BY DeficitFacts, InvParts DEF PayTopUp
  <1>2. Payer(v) \in Payers
    BY ToppedUpFacts DEF Inv, AccountsOK, Account, Payer
  <1>3. PayThrough(Payer(v), Amount(v), Amount(v))
    BY <1>1 DEF PayTopUp
  <1> QED
    BY <1>1, <1>2, <1>3, PayThroughExact DEF Inv

(* No call of anyone leaves BZZ or an allowance behind in the registry:    *)
(* for every depth, price and grace period, the shift the registry         *)
(* computes and the product PostageStamp draws agree whenever the payment  *)
(* goes through (I8).                                                      *)
THEOREM RegistryHoldsNothingTheorem == Spec => []RegistryHoldsNothing
  <1>1. Init => RegistryHoldsNothing
    BY DEF Init, BzzInit, RegistryHoldsNothing, Holders
  <1>2. Inv /\ RegistryHoldsNothing /\ [Next]_vars => RegistryHoldsNothing'
    <2> SUFFICES ASSUME Inv, RegistryHoldsNothing, [Next]_vars
                 PROVE  RegistryHoldsNothing'
      OBVIOUS
    <2>1. CASE UNCHANGED bzzVars
      BY <2>1 DEF bzzVars, RegistryHoldsNothing
    <2>2. ASSUME NEW id \in VolumeIds, TriggerTopsUp(id)
          PROVE  RegistryHoldsNothing'
      <3>1. TriggerOutcome(volumes[id]) = "ToppedUp" /\ PayTopUp(volumes[id])
        BY <2>2 DEF TriggerTopsUp
      <3>2. /\ volumes[id].owner \in Owners
            /\ volumes[id].batchId \in BatchIds
            /\ volumes[id].depth \in Depths
        BY <3>1, ToppedUpFacts DEF Inv, VolumesOK, RecordsComplete
      <3> QED
        BY <3>1, <3>2, PayTopUpExact
    <2>3. ASSUME NEW o \in Owners, NEW signer \in Signers \cup {Zero}, NEW depth \in Depths,
                 NEW ttl \in Ttls, CreateVolume(o, signer, depth, ttl)
          PROVE  RegistryHoldsNothing'
      <3>1. /\ accounts[o].active
            /\ PayThrough(accounts[o].payer, ShiftedBy(Target, depth), Total(Target, depth))
            /\ Total(Target, depth) < Word
        BY <2>3 DEF CreateVolume, CreateBatchOK
      <3>2. Target \in Nat
        BY TargetNat DEF Inv
      <3>3. ShiftedBy(Target, depth) = Total(Target, depth) /\ Total(Target, depth) \in Nat
        BY <3>1, <3>2, ShiftExact
      <3>4. accounts[o].payer \in Payers
        BY <3>1 DEF Inv, AccountsOK, Account
      <3> QED
        BY <3>1, <3>3, <3>4, PayThroughExact DEF Inv
    <2>4. ASSUME NEW o \in Owners, NEW b \in BatchIds, NEW ttl \in Ttls,
                 ImportVolume(o, b, ttl), ~UNCHANGED bzzVars
          PROVE  RegistryHoldsNothing'
      <3> DEFINE v == Snapshot(o, b, ttl)
      <3>1. /\ RegisterBatch(o, b, ttl) /\ UNCHANGED designated
            /\ TriggerOutcome(v) = "ToppedUp" /\ PayTopUp(v)
        BY <2>4 DEF ImportVolume
      <3>2. v.owner \in Owners /\ v.batchId \in BatchIds /\ v.depth \in Depths
        BY <3>1, RegisterBatchType
      <3> HIDE DEF v
      <3> QED
        BY <3>1, <3>2, PayTopUpExact
    <2>5. ASSUME BzzNext
          PROVE  RegistryHoldsNothing'
      <3>1. /\ Registry \in Holders /\ \A p \in Payers : p # Registry
            /\ balance \in [Holders -> Nat] /\ allowance \in [Holders -> Nat]
        BY TokenAssumption DEF Holders, Inv, BzzTypeOK
      <3>2. ASSUME NEW p \in Payers, NEW amount, Approve(p, amount) \/ Permit(p, amount)
            PROVE  RegistryHoldsNothing'
        BY <3>1, <3>2 DEF Approve, Permit, RegistryHoldsNothing
      <3>3. ASSUME NEW p \in Payers, NEW amount, Deposit(p, amount)
            PROVE  RegistryHoldsNothing'
        BY <3>1, <3>3 DEF Deposit, RegistryHoldsNothing
      <3>4. ASSUME NEW b, SetBzzPaused(b)
            PROVE  RegistryHoldsNothing'
        BY <3>4 DEF SetBzzPaused, RegistryHoldsNothing
      <3> QED
        BY <2>5, <3>2, <3>3, <3>4 DEF BzzNext
    <2>6. CASE KeeperNext
      <3>1. ASSUME NEW id \in VolumeIds, Trigger(id) \/ Reap(id)
            PROVE  TriggerTopsUp(id) \/ UNCHANGED bzzVars
        BY <3>1 DEF Trigger, TriggerRetires, TriggerDoesNothing, Reap, vars
      <3> QED
        BY <2>1, <2>2, <2>6, <3>1 DEF KeeperNext
    <2>7. CASE UserNext
      <3>1. ASSUME NEW o \in Owners,
                   \/ \E p \in Payers \cup {Zero} : DesignateFundingWallet(o, p)
                   \/ \E p \in Payers : ConfirmAuth(p, o)
                   \/ \E caller \in Owners \cup Payers : Revoke(caller, o)
                   \/ \E b \in BatchIds, ttl \in Ttls : RegisterVolume(o, b, ttl)
                   \/ \E id \in VolumeIds : DeleteVolume(o, id)
            PROVE  UNCHANGED bzzVars
        BY <3>1 DEF DesignateFundingWallet, ConfirmAuth, Revoke, RegisterVolume, DeleteVolume
      <3> QED
        BY <2>1, <2>3, <2>4, <2>7, <3>1 DEF UserNext
    <2>8. CASE WorldNext \/ UNCHANGED vars
      BY <2>1, <2>5, <2>8 DEF WorldNext, vars
    <2> QED
      BY <2>6, <2>7, <2>8 DEF Next
  <1> QED
    BY <1>1, <1>2, Invariance, PTL DEF Spec

-----------------------------------------------------------------------------
(* When trigger reverts.                                                   *)

(* No volume records a depth PostageStamp's topUp refuses.                 *)
DepthsAllowed ==
    \A id \in VolumeIds :
        volumes[id].status # "None" => volumes[id].depth > MinBucketDepth

(* Every creation refuses such a depth, and no call changes one.           *)
LEMMA DepthsAllowedStep ==
    ASSUME Inv, DepthsAllowed, [Next]_vars
    PROVE  DepthsAllowed'
  <1>1. ASSUME NEW o \in Owners, NEW v, v.depth > MinBucketDepth, RecordVolume(o, v)
        PROVE  DepthsAllowed'
    BY <1>1 DEF RecordVolume, DepthsAllowed, Inv, VolumesOK
  <1>2. ASSUME NEW o \in Owners, NEW signer \in Signers \cup {Zero}, NEW depth \in Depths,
               NEW ttl \in Ttls, CreateVolume(o, signer, depth, ttl)
        PROVE  DepthsAllowed'
    <2> DEFINE v == Record(o, Minted(nextNonce), signer, depth, ttl)
    <2>1. v.depth > MinBucketDepth /\ RecordVolume(o, v)
      BY <1>2 DEF CreateVolume, CreateBatchOK, Record
    <2> HIDE DEF v
    <2> QED
      BY <1>1, <2>1
  <1>3. ASSUME NEW o \in Owners, NEW b \in BatchIds, NEW ttl \in Ttls,
               RegisterVolume(o, b, ttl) \/ ImportVolume(o, b, ttl)
        PROVE  DepthsAllowed'
    <2> DEFINE v == Snapshot(o, b, ttl)
    <2>1. RegisterBatch(o, b, ttl)
      BY <1>3 DEF RegisterVolume, ImportVolume
    <2>2. v.depth > MinBucketDepth /\ RecordVolume(o, v)
      BY <2>1 DEF RegisterBatch, Snapshot, Record
    <2> HIDE DEF v
    <2> QED
      BY <1>1, <2>2
  <1>4. ASSUME NEW id \in VolumeIds, volumes[id].status # "None", Retire(id)
        PROVE  DepthsAllowed'
    <2>1. \A j \in VolumeIds : Identity(volumes'[j]) = Identity(volumes[j])
      BY <1>4, RetireRecords DEF Inv
    <2>2. \A j \in VolumeIds : volumes'[j].depth = volumes[j].depth
      BY <2>1 DEF Identity
    <2>3. \A j \in VolumeIds : volumes'[j].status # "None" => volumes[j].status # "None"
      BY <1>4, RetireRecords DEF Inv
    <2> QED
      BY <2>2, <2>3 DEF DepthsAllowed
  <1>5. CASE UNCHANGED volumes
    BY <1>5 DEF DepthsAllowed
  <1>6. CASE KeeperNext
    <2>1. ASSUME NEW id \in VolumeIds, Trigger(id) \/ Reap(id)
          PROVE  (volumes[id].status # "None" /\ Retire(id)) \/ UNCHANGED volumes
      BY <2>1, RetiringFacts
      DEF Trigger, TriggerRetires, TriggerTopsUp, TriggerDoesNothing, Reap, vars, registryVars
    <2> QED
      BY <1>4, <1>5, <1>6, <2>1 DEF KeeperNext
  <1>7. CASE UserNext
    <2>1. ASSUME NEW o \in Owners,
                 \/ \E p \in Payers \cup {Zero} : DesignateFundingWallet(o, p)
                 \/ \E p \in Payers : ConfirmAuth(p, o)
                 \/ \E caller \in Owners \cup Payers : Revoke(caller, o)
          PROVE  UNCHANGED volumes
      BY <2>1 DEF DesignateFundingWallet, ConfirmAuth, Revoke
    <2>2. ASSUME NEW o \in Owners, NEW id \in VolumeIds, DeleteVolume(o, id)
          PROVE  volumes[id].status # "None" /\ Retire(id)
      BY <2>2 DEF DeleteVolume
    <2> QED
      BY <1>2, <1>3, <1>4, <1>5, <1>7, <2>1, <2>2 DEF UserNext
  <1>8. CASE WorldNext \/ UNCHANGED vars
    BY <1>5, <1>8 DEF WorldNext, vars, registryVars
  <1> QED
    BY <1>6, <1>7, <1>8 DEF Next

(* No volume has a depth at or below PostageStamp's minimum bucket depth.  *)
LEMMA DepthsAllowedInvariance == Spec => []DepthsAllowed
  <1>1. Init => DepthsAllowed
    BY DEF Init, NoVolume, DepthsAllowed
  <1>2. Inv /\ DepthsAllowed /\ [Next]_vars => DepthsAllowed'
    BY DepthsAllowedStep
  <1> QED
    BY <1>1, <1>2, Invariance, PTL DEF Spec

(* What the precheck of the payer's state promises about transferFrom.     *)
LEMMA CanPullSuffices ==
    ASSUME NEW p, NEW amount, CanPull(p, amount), ~bzzPaused, now \in Nat,
           expirations[p] \in Nat
    PROVE  TransferFromOK(p, amount)
  BY RegistryAssumption DEF CanPull, TransferFromOK

(* Once the checks of _triggerOne have passed, the pull and the topup      *)
(* succeed and agree, unless Postage or the token is paused, the validity  *)
(* floor was raised above graceBlocks, or the charge does not fit a word.  *)
LEMMA ChecksSuffice ==
    ASSUME Inv, DepthsAllowed
    PROVE  TriggerRevertsOnlyOnFaults
  <1> SUFFICES ASSUME Inv, DepthsAllowed, NEW id \in VolumeIds,
                      TriggerOutcome(volumes[id]) = "ToppedUp",
                      ~paused, ~bzzPaused, ~(minValidity > GraceBlocks),
                      ~(Total(Deficit(volumes[id]), volumes[id].depth) >= Word)
               PROVE  /\ TopUpOK(volumes[id].batchId, Deficit(volumes[id]))
                      /\ TransferFromOK(Payer(volumes[id]), Amount(volumes[id]))
                      /\ Drawn(volumes[id].batchId, Deficit(volumes[id]))
                            = Amount(volumes[id])
    BY DEF TriggerRevertsOnlyOnFaults
  <1> DEFINE v == volumes[id]
  <1>1. /\ v.owner \in Owners /\ v.batchId \in BatchIds /\ v.depth \in Depths
        /\ v.depth > MinBucketDepth
    BY ToppedUpFacts DEF Inv, VolumesOK, RecordsComplete, DepthsAllowed
  <1> HIDE DEF v
  <1>2. /\ TriggerOutcome(v) = "ToppedUp"
        /\ Live(v.batchId) /\ batches[v.batchId].depth = v.depth
        /\ accounts[v.owner].active
        /\ CanPull(Payer(v), Amount(v))
    BY ToppedUpFacts DEF v
  <1>3. Deficit(v) \in Nat /\ Remaining(v.batchId) + Deficit(v) = Target
    <2>1. Remaining(v.batchId) \in Int /\ Target \in Nat
      BY <1>1, TargetNat DEF Inv, PostageTypeOK, Batch, Remaining
    <2> QED
      BY <1>1, <1>2, <2>1, DeficitFacts, InvParts DEF Deficit
  <1>4. Target >= MinimumBalance
    <2>1. ASSUME NEW a \in Nat, NEW b \in Nat, NEW c \in Nat, a <= b
          PROVE  c * b >= a * c
      BY <2>1, SMT
    <2> QED
      BY <2>1, PostageAssumption, RegistryAssumption
      DEF Inv, PostageTypeOK, Target, MinimumBalance
  <1>5. TopUpOK(v.batchId, Deficit(v))
    <2>1. Total(Deficit(v), v.depth) \in Nat /\ Total(Deficit(v), v.depth) < Word
      BY <1>1, <1>3, ShiftExact, TokenAssumption DEF v
    <2> QED
      BY <1>1, <1>2, <1>3, <1>4, <2>1 DEF TopUpOK
  <1>6. TransferFromOK(Payer(v), Amount(v))
    <2>1. Payer(v) \in Payers
      BY <1>1, <1>2 DEF Inv, AccountsOK, Account, Payer
    <2> QED
      BY <1>2, <2>1, CanPullSuffices DEF Inv, BzzTypeOK
  <1>7. Drawn(v.batchId, Deficit(v)) = Amount(v)
    BY <1>1, <1>2, <1>5, DeficitFacts, InvParts
  <1> QED
    BY <1>5, <1>6, <1>7 DEF v

(* ADR-0007, for every value of the constants: a trigger reverts on faults *)
(* of the contracts it calls and on nothing else.                          *)
THEOREM TriggerRevertsTheorem == Spec => []TriggerRevertsOnlyOnFaults
  <1>1. Inv /\ DepthsAllowed => TriggerRevertsOnlyOnFaults
    BY ChecksSuffice
  <1> QED
    BY <1>1, Invariance, DepthsAllowedInvariance, PTL

-----------------------------------------------------------------------------
(* Calls of the registry, by what they do to tokens and batches.           *)

(* A volume, recorded or about to be, whose batch the step tops up.        *)
ToppingUp(v) ==
    /\ v.owner \in Owners /\ v.batchId \in BatchIds /\ v.depth \in Depths
    /\ TriggerOutcome(v) = "ToppedUp"
    /\ PayTopUp(v)

Topup == \E v \in Volume : ToppingUp(v)

Purchase ==
    \E o \in Owners, signer \in Signers, depth \in Depths, ttl \in Ttls :
        CreateVolume(o, signer, depth, ttl)

(* importVolume tops up the volume it records, or no batch at all.         *)
LEMMA ImportSteps ==
    ASSUME Inv, NEW o \in Owners, NEW b \in BatchIds, NEW ttl \in Ttls,
           ImportVolume(o, b, ttl)
    PROVE  \/ /\ TriggerOutcome(Snapshot(o, b, ttl)) = "NoDeficit"
              /\ UNCHANGED <<bzzVars, postageVars>>
           \/ /\ Snapshot(o, b, ttl) \in Volume
              /\ ToppingUp(Snapshot(o, b, ttl))
  <1> DEFINE v == Snapshot(o, b, ttl)
  <1>1. /\ RegisterBatch(o, b, ttl) /\ UNCHANGED designated
        /\ \/ TriggerOutcome(v) = "ToppedUp" /\ PayTopUp(v)
           \/ TriggerOutcome(v) = "NoDeficit" /\ UNCHANGED <<bzzVars, postageVars>>
    BY DEF ImportVolume
  <1>2. v.owner = o /\ v.batchId = b /\ v.depth \in Depths
    BY <1>1, RegisterBatchType
  <1>3. v \in Volume
    <2>1. batches[b].owner \in Signers /\ batches[b].depth \in Depths
      BY <1>1 DEF RegisterBatch, Live, Exists, Inv, PostageTypeOK, Batch, BatchesComplete
    <2> QED
      BY <2>1, RecordType DEF Snapshot, Inv
  <1> HIDE DEF v
  <1> QED
    BY <1>1, <1>2, <1>3 DEF ToppingUp, v

(* trigger tops up the batch of its volume, or no batch at all.            *)
LEMMA TriggerSteps ==
    ASSUME Inv, NEW id \in VolumeIds, Trigger(id)
    PROVE  \/ UNCHANGED <<bzzVars, postageVars>>
           \/ /\ TriggerTopsUp(id)
              /\ volumes[id] \in Volume
              /\ ToppingUp(volumes[id])
  <1>1. CASE TriggerTopsUp(id)
    <2>1. TriggerOutcome(volumes[id]) = "ToppedUp" /\ PayTopUp(volumes[id])
      BY <1>1 DEF TriggerTopsUp
    <2>2. /\ volumes[id] \in Volume
          /\ volumes[id].owner \in Owners
          /\ volumes[id].batchId \in BatchIds
          /\ volumes[id].depth \in Depths
      BY <2>1, ToppedUpFacts DEF Inv, VolumesOK, RecordsComplete
    <2> QED
      BY <1>1, <2>1, <2>2 DEF ToppingUp
  <1>2. CASE TriggerRetires(id) \/ TriggerDoesNothing(id)
    BY <1>2 DEF TriggerRetires, TriggerDoesNothing, vars
  <1> QED
    BY <1>1, <1>2 DEF Trigger

(* The calls that touch a batch or a balance are topups and createVolume.  *)
LEMMA CallSteps ==
    ASSUME Inv, KeeperNext \/ UserNext
    PROVE  Topup \/ Purchase \/ UNCHANGED <<bzzVars, postageVars>>
  <1>1. ASSUME NEW id \in VolumeIds, Trigger(id) \/ Reap(id)
        PROVE  Topup \/ UNCHANGED <<bzzVars, postageVars>>
    BY <1>1, TriggerSteps DEF Topup, Reap
  <1>2. ASSUME NEW o \in Owners, NEW b \in BatchIds, NEW ttl \in Ttls,
               RegisterVolume(o, b, ttl) \/ ImportVolume(o, b, ttl)
        PROVE  Topup \/ UNCHANGED <<bzzVars, postageVars>>
    BY <1>2, ImportSteps DEF Topup, RegisterVolume
  <1>3. ASSUME NEW o \in Owners, NEW signer \in Signers \cup {Zero}, NEW depth \in Depths,
               NEW ttl \in Ttls, CreateVolume(o, signer, depth, ttl)
        PROVE  Purchase
    <2>1. signer \in Signers
      BY <1>3 DEF CreateVolume
    <2> QED
      BY <1>3, <2>1 DEF Purchase
  <1>4. ASSUME NEW o \in Owners,
               \/ \E p \in Payers \cup {Zero} : DesignateFundingWallet(o, p)
               \/ \E p \in Payers : ConfirmAuth(p, o)
               \/ \E caller \in Owners \cup Payers : Revoke(caller, o)
               \/ \E id \in VolumeIds : DeleteVolume(o, id)
        PROVE  UNCHANGED <<bzzVars, postageVars>>
    BY <1>4 DEF DesignateFundingWallet, ConfirmAuth, Revoke, DeleteVolume
  <1> QED
    BY <1>1, <1>2, <1>3, <1>4 DEF KeeperNext, UserNext

(* What a topup does: the batch reaches exactly the target, and its payer  *)
(* alone pays what the batch lacked for each of its chunks.                *)
LEMMA TopupEffect ==
    ASSUME Inv, NEW v, ToppingUp(v)
    PROVE  /\ Payer(v) \in Payers /\ accounts[v.owner].active
           /\ Live(v.batchId)
           /\ batches' = [batches EXCEPT ![v.batchId].norm = @ + Deficit(v)]
           /\ Deficit(v) \in Nat \ {0}
           /\ batches'[v.batchId].norm - outPayment = Target
           /\ batches'[v.batchId].depth = batches[v.batchId].depth
           /\ Amount(v) = (Target - Remaining(v.batchId)) * Chunks[batches[v.batchId].depth]
           /\ balance'[Payer(v)] = balance[Payer(v)] - Amount(v) /\ Amount(v) \in Nat
           /\ \A p \in Payers \ {Payer(v)} : balance'[p] = balance[p]
           /\ UNCHANGED <<lastPrice, outPayment, paused, minValidity, expirations, bzzPaused>>
  <1>1. /\ v.owner \in Owners /\ v.batchId \in BatchIds /\ v.depth \in Depths
        /\ TriggerOutcome(v) = "ToppedUp" /\ PayTopUp(v)
    BY DEF ToppingUp
  <1>2. /\ accounts[v.owner].active /\ Live(v.batchId)
        /\ Deficit(v) \in Nat \ {0} /\ Amount(v) \in Nat
        /\ Drawn(v.batchId, Deficit(v)) = Amount(v)
    BY <1>1, ToppedUpFacts, DeficitFacts, InvParts DEF PayTopUp
  <1>3. Payer(v) \in Payers
    BY <1>1, <1>2 DEF Inv, AccountsOK, Account, Payer
  <1>4. /\ batches' = [batches EXCEPT ![v.batchId].norm = @ + Deficit(v)]
        /\ UNCHANGED <<lastPrice, outPayment, paused, minValidity>>
        /\ PayThrough(Payer(v), Amount(v), Amount(v))
    BY <1>1, <1>2 DEF PayTopUp, BatchesToppedUp
  <1>5. batches[v.batchId].norm \in Nat /\ outPayment \in Nat /\ Target \in Nat
    BY <1>1, TargetNat DEF Inv, PostageTypeOK, Batch
  <1>6. /\ batches'[v.batchId].norm = batches[v.batchId].norm + Deficit(v)
        /\ batches'[v.batchId].depth = batches[v.batchId].depth
    BY <1>1, <1>4 DEF Inv, PostageTypeOK, Batch
  <1>7. batches'[v.batchId].norm - outPayment = Target
    BY <1>2, <1>5, <1>6 DEF Deficit, Remaining
  <1>8. Amount(v) = (Target - Remaining(v.batchId)) * Chunks[batches[v.batchId].depth]
    BY <1>2 DEF Drawn, Total, Deficit
  <1>9. /\ balance'[Payer(v)] = balance[Payer(v)] - Amount(v)
        /\ \A p \in Payers \ {Payer(v)} : balance'[p] = balance[p]
        /\ UNCHANGED <<expirations, bzzPaused>>
    <2>1. /\ Payer(v) \in Holders /\ Registry \in Holders /\ Payer(v) # Registry
          /\ \A p \in Payers : p \in Holders /\ p # Registry
          /\ balance \in [Holders -> Nat]
      BY <1>3, TokenAssumption DEF Holders, Inv, BzzTypeOK
    <2> QED
      BY <1>4, <2>1 DEF PayThrough
  <1> QED
    BY <1>2, <1>3, <1>4, <1>6, <1>7, <1>8, <1>9

(* What createVolume does: a batch that did not exist starts with the      *)
(* target, and the owner's payer alone pays it for each chunk.             *)
LEMMA PurchaseEffect ==
    ASSUME Inv, NEW o \in Owners, NEW signer \in Signers, NEW depth \in Depths,
           NEW ttl \in Ttls, CreateVolume(o, signer, depth, ttl)
    PROVE  LET b == Minted(nextNonce)
               p == accounts[o].payer
           IN  /\ p \in Payers /\ accounts[o].active
               /\ b \in BatchIds /\ ~Exists(b)
               /\ batches' = BatchesWith(b, signer, depth, Target)
               /\ batches'[b].norm - outPayment = Target
               /\ batches'[b].depth = depth
               /\ balance'[p] = balance[p] - Target * Chunks[depth]
               /\ Target * Chunks[depth] \in Nat
               /\ \A q \in Payers \ {p} : balance'[q] = balance[q]
               /\ UNCHANGED <<lastPrice, outPayment, paused, minValidity>>
  <1> DEFINE b == Minted(nextNonce)
             p == accounts[o].payer
             amount == Target * Chunks[depth]
  <1>1. /\ accounts[o].active /\ nextNonce < MaxMint /\ ~Exists(b)
        /\ PayThrough(p, ShiftedBy(Target, depth), Total(Target, depth))
        /\ batches' = BatchesWith(b, signer, depth, Target)
        /\ Total(Target, depth) < Word
        /\ UNCHANGED <<lastPrice, outPayment, paused, minValidity>>
    BY DEF CreateVolume, CreateBatchOK
  <1>2. p \in Payers /\ b \in BatchIds
    BY <1>1, PostageAssumption DEF Inv, AccountsOK, Account, BatchIds
  <1>3. /\ Target \in Nat /\ outPayment \in Nat
        /\ amount \in Nat /\ ShiftedBy(Target, depth) = amount
        /\ Total(Target, depth) = amount
    BY <1>1, TargetNat, ShiftExact DEF Inv, PostageTypeOK, Total
  <1>4. batches'[b] = [owner |-> signer, depth |-> depth, norm |-> outPayment + Target]
    BY <1>1, <1>2 DEF BatchesWith, Expired
  <1>5. PayThrough(p, amount, amount)
    BY <1>1, <1>3
  <1>6. /\ p \in Holders /\ Registry \in Holders /\ p # Registry
        /\ \A q \in Payers : q \in Holders /\ q # Registry
        /\ balance \in [Holders -> Nat]
    BY <1>2, TokenAssumption DEF Holders, Inv, BzzTypeOK
  <1> HIDE DEF p, b, amount
  <1>7. /\ balance'[p] = balance[p] - amount
        /\ \A q \in Payers \ {p} : balance'[q] = balance[q]
    BY <1>5, <1>6 DEF PayThrough
  <1>8. outPayment + Target - outPayment = Target
    BY <1>3
  <1> QED
    BY <1>1, <1>2, <1>3, <1>4, <1>7, <1>8 DEF p, b, amount

(* I8 as a step: whoever pays pays for one batch, what that batch lacked   *)
(* of graceBlocks of runway, for each of its chunks, and nothing else.     *)
THEOREM ChargeTheorem == Spec => ChargeBuysRunway
  <1> DEFINE Charge(p) ==
          \E b \in BatchIds :
             /\ batches'[b].norm - outPayment = Target
             /\ balance[p] - balance'[p] =
                  (Target - (IF Live(b) THEN Remaining(b) ELSE 0))
                     * Chunks[batches'[b].depth]
  <1>1. Inv /\ [Next]_vars => \A p \in Payers : balance'[p] < balance[p] => Charge(p)
    <2> SUFFICES ASSUME Inv, [Next]_vars, NEW p \in Payers, balance'[p] < balance[p]
                 PROVE  Charge(p)
      OBVIOUS
    <2>1. balance \in [Holders -> Nat] /\ p \in Holders
      BY DEF Inv, BzzTypeOK, Holders
    <2>2. /\ ~UNCHANGED bzzVars
          /\ \A x \in Nat : balance'[p] = balance[p] - x => balance[p] - balance'[p] = x
      BY <2>1 DEF bzzVars
    <2>3. CASE Topup
      <3> PICK v \in Volume : ToppingUp(v)
        BY <2>3 DEF Topup
      <3>1. \A q \in Payers \ {Payer(v)} : balance'[q] = balance[q]
        BY TopupEffect
      <3>2. p = Payer(v)
        BY <2>1, <3>1
      <3> QED
        BY <2>2, <3>2, TopupEffect DEF ToppingUp
    <2>4. CASE Purchase
      <3> PICK o \in Owners, signer \in Signers, depth \in Depths, ttl \in Ttls :
              CreateVolume(o, signer, depth, ttl)
        BY <2>4 DEF Purchase
      <3>1. /\ Minted(nextNonce) \in BatchIds /\ ~Live(Minted(nextNonce))
            /\ p = accounts[o].payer
        BY <2>1, PurchaseEffect DEF Live
      <3>2. Target - 0 = Target
        BY TargetNat DEF Inv
      <3> QED
        BY <2>2, <3>1, <3>2, PurchaseEffect
    <2>5. ~WorldNext
      <3>1. ASSUME NEW q \in Payers, NEW amount \in Deposits, Deposit(q, amount)
            PROVE  ~(balance'[p] < balance[p])
        <4>1. amount \in Nat /\ balance[p] \in Nat
          BY <2>1, TokenAssumption
        <4> QED
          BY <2>1, <3>1, <4>1 DEF Deposit
      <3>2. BzzNext => ~(balance'[p] < balance[p])
        BY <2>1, <3>1 DEF BzzNext, Approve, Permit, SetBzzPaused
      <3> QED
        BY <2>2, <3>2 DEF WorldNext
    <2> QED
      BY <2>2, <2>3, <2>4, <2>5, CallSteps DEF Next, vars
  <1> QED
    BY <1>1, Invariance, PTL DEF Spec, ChargeBuysRunway

(* I13: whatever was registered before, an import that goes through leaves *)
(* an Active volume and a batch with graceBlocks of runway.                *)
THEOREM ImportTheorem == Spec => ImportLeavesRunway
  <1> DEFINE Full(o, b) ==
          /\ volumes'[NextId(o)].status = "Active"
          /\ batches'[b].norm - outPayment >= Target
  <1>1. Inv => \A o \in Owners, b \in BatchIds, ttl \in Ttls :
                   ImportVolume(o, b, ttl) => Full(o, b)
    <2> SUFFICES ASSUME Inv, NEW o \in Owners, NEW b \in BatchIds, NEW ttl \in Ttls,
                        ImportVolume(o, b, ttl)
                 PROVE  Full(o, b)
      OBVIOUS
    <2> DEFINE v == Snapshot(o, b, ttl)
    <2>1. /\ RecordVolume(o, v)
          /\ v.status = "Active" /\ v.batchId = b
      BY DEF ImportVolume, RegisterBatch, Snapshot, Record
    <2>2. volumes'[NextId(o)].status = "Active"
      <3>1. NextId(o) \in VolumeIds
        BY <2>1, NextIdType DEF RecordVolume, Inv
      <3> QED
        BY <2>1, <3>1 DEF RecordVolume, Inv, VolumesOK
    <2>3. Target \in Nat /\ batches[b].norm \in Nat /\ outPayment \in Nat
      BY TargetNat DEF Inv, PostageTypeOK, Batch
    <2>4. CASE ToppingUp(v)
      <3> HIDE DEF v
      <3>1. batches'[b].norm - outPayment = Target
        BY <2>1, <2>4, TopupEffect
      <3> QED
        BY <2>2, <2>3, <3>1
    <2>5. CASE TriggerOutcome(v) = "NoDeficit" /\ UNCHANGED postageVars
      <3>1. Remaining(v.batchId) >= Target
        BY <2>5 DEF TriggerOutcome
      <3> QED
        BY <2>1, <2>2, <2>5, <3>1 DEF postageVars, Remaining
    <2> QED
      BY <2>4, <2>5, ImportSteps
  <1> QED
    BY <1>1, Invariance, PTL DEF Spec, ImportLeavesRunway

-----------------------------------------------------------------------------
(* What a trigger decides.                                                 *)

(* The order of the checks in _triggerOne: an Active volume gets past the  *)
(* retiring ones exactly if its batch backs it and its time is not up,     *)
(* whatever its account and its payer are like.                            *)
LEMMA RetiringOutcomes ==
    ASSUME NEW v, v.status = "Active", v.batchId # Zero
    PROVE  TriggerOutcome(v) \in Retiring <=> ~Backed(v) \/ TtlPassed(v)
  BY DEF TriggerOutcome, Retiring, Backed

(* A trigger retires its volume for cause and for nothing else, and moves  *)
(* no BZZ when it does: neither a revoked account nor a payer without      *)
(* funds retires a volume or keeps one that should go.                     *)
THEOREM CauseTheorem == Spec => TriggerRetiresForCause
  <1> DEFINE ForCause(id) ==
          LET cause == ~Backed(volumes[id]) \/ TtlPassed(volumes[id])
          IN  /\ volumes'[id].status = "Retired" <=> cause
              /\ cause => UNCHANGED <<balance, batches>>
  <1>1. Inv => \A id \in VolumeIds :
                   volumes[id].status = "Active" /\ Trigger(id) => ForCause(id)
    <2> SUFFICES ASSUME Inv, NEW id \in VolumeIds, volumes[id].status = "Active",
                        Trigger(id)
                 PROVE  ForCause(id)
      OBVIOUS
    <2> DEFINE cause == ~Backed(volumes[id]) \/ TtlPassed(volumes[id])
    <2>1. TriggerOutcome(volumes[id]) \in Retiring <=> cause
      <3>1. volumes[id].batchId # Zero
        BY PostageAssumption DEF Inv, VolumesOK, RecordsComplete
      <3> QED
        BY <3>1, RetiringOutcomes
    <2>2. CASE TriggerRetires(id)
      <3>1. volumes'[id].status = "Retired"
        BY <2>2, RetireRecords DEF TriggerRetires, Inv
      <3>2. cause /\ UNCHANGED <<balance, batches>>
        BY <2>1, <2>2 DEF TriggerRetires, bzzVars, postageVars
      <3> QED
        BY <3>1, <3>2
    <2>3. CASE TriggerTopsUp(id) \/ TriggerDoesNothing(id)
      <3>1. UNCHANGED volumes
        BY <2>3 DEF TriggerTopsUp, TriggerDoesNothing, vars, registryVars
      <3>2. ~cause
        BY <2>1, <2>3 DEF TriggerTopsUp, TriggerDoesNothing, Skipping, Retiring
      <3> QED
        BY <3>1, <3>2
    <2> QED
      BY <2>2, <2>3 DEF Trigger
  <1> QED
    BY <1>1, Invariance, PTL DEF Spec, TriggerRetiresForCause

(* The outcome of a settled volume depends on its status, its batch, its   *)
(* account and its payer only.                                             *)
LEMMA SettledMeans ==
    ASSUME Inv, NEW id \in VolumeIds
    PROVE  LET v == volumes[id]
           IN  Settled(id) <=>
                  \/ v.status # "Active"
                  \/ /\ Live(v.batchId)
                     /\ batches[v.batchId].owner = v.chunkSigner
                     /\ batches[v.batchId].depth = v.depth
                     /\ ~TtlPassed(v)
                     /\ \/ ~accounts[v.owner].active
                        \/ Remaining(v.batchId) >= Target
                        \/ ~CanPull(Payer(v), Amount(v))
  <1>1. volumes[id].status \in {"None", "Active", "Retired"}
    BY DEF Inv, VolumesOK, Volume
  <1> QED
    BY <1>1 DEF Settled, TriggerOutcome, Skipping

(* A payment makes no payer able to pay that was not.                      *)
LEMMA StillUnable ==
    ASSUME BzzTypeOK, NEW p \in Payers, NEW amount \in Nat, NEW q \in Payers,
           NEW price \in Nat, PayThrough(p, amount, amount), now' = now,
           CanPull(q, price)'
    PROVE  CanPull(q, price)
  <1>1. /\ p \in Holders /\ q \in Holders /\ p # Registry /\ q # Registry
        /\ balance \in [Holders -> Nat] /\ allowance \in [Holders -> Nat]
    BY TokenAssumption DEF Holders, BzzTypeOK
  <1>2. /\ balance'[q] = IF q = p THEN balance[p] - amount ELSE balance[q]
        /\ allowance'[q] = IF q = p /\ allowance[p] # Unlimited
                            THEN allowance[p] - amount ELSE allowance[q]
        /\ expirations' = expirations
    BY <1>1 DEF PayThrough
  <1>3. balance'[q] >= price /\ allowance'[q] >= price
    BY DEF CanPull
  <1>4. balance[q] >= price /\ allowance[q] >= price
    BY <1>1, <1>2, <1>3
  <1>5. allowance[q] = Unlimited => allowance'[q] = Unlimited
    BY <1>2
  <1> QED
    BY <1>2, <1>4, <1>5 DEF CanPull

(* I5: a trigger settles its own volume, and one that pays does not        *)
(* unsettle another, whether or not they share a batch or a payer.         *)
LEMMA TriggerSettles ==
    ASSUME Inv, NEW j \in VolumeIds, Trigger(j), NEW id \in VolumeIds,
           id = j \/ Settled(id)
    PROVE  Settled(id)'
  <1>1. Inv'
    BY TriggerInv
  <1>2. CASE TriggerRetires(j)
    <2>1. /\ Retire(j)
          /\ UNCHANGED <<now, bzzVars, postageVars, designated, accounts, nextNonce>>
      BY <1>2 DEF TriggerRetires
    <2>2. CASE id = j
      <3>1. volumes'[id].status = "Retired"
        BY <2>1, <2>2, RetireRecords DEF Inv
      <3> QED
        BY <3>1 DEF Settled, TriggerOutcome, Skipping
    <2>3. CASE id # j
      <3>1. /\ Identity(volumes'[id]) = Identity(volumes[id])
            /\ volumes'[id].status = volumes[id].status
        BY <2>1, <2>3, RetireRecords DEF Inv
      <3>2. /\ volumes'[id].owner = volumes[id].owner
            /\ volumes'[id].chunkSigner = volumes[id].chunkSigner
            /\ volumes'[id].batchId = volumes[id].batchId
            /\ volumes'[id].ttlExpiry = volumes[id].ttlExpiry
            /\ volumes'[id].depth = volumes[id].depth
        BY <3>1 DEF Identity
      <3>3. TriggerOutcome(volumes[id])' = TriggerOutcome(volumes[id])
        BY <2>1, <3>1, <3>2
        DEF TriggerOutcome, Live, Exists, TtlPassed, Remaining, Target, CanPull, Payer,
            Amount, Deficit, ShiftedBy, bzzVars, postageVars
      <3> QED
        BY <2>3, <3>3 DEF Settled
    <2> QED
      BY <2>2, <2>3
  <1>3. CASE TriggerTopsUp(j)
    <2> DEFINE w == volumes[j]
               v == volumes[id]
    <2>1. /\ ToppingUp(w) /\ UNCHANGED <<now, volumes, accounts>>
          /\ TriggerOutcome(w) = "ToppedUp" /\ PayTopUp(w)
      <3>1. ToppingUp(w)
        BY <1>3, TriggerSteps, ToppedUpFacts
        DEF TriggerTopsUp, ToppingUp, Inv, VolumesOK, RecordsComplete
      <3> QED
        BY <1>3, <3>1 DEF TriggerTopsUp, registryVars
    <2>2. /\ w.batchId \in BatchIds
          /\ Deficit(w) \in Nat \ {0}
          /\ batches' = [batches EXCEPT ![w.batchId].norm = @ + Deficit(w)]
          /\ batches'[w.batchId].norm - outPayment = Target
          /\ Payer(w) \in Payers /\ Amount(w) \in Nat
          /\ lastPrice' = lastPrice /\ outPayment' = outPayment
      BY <2>1, TopupEffect DEF ToppingUp
    <2>3. /\ batches \in [BatchIds -> Batch] /\ outPayment \in Nat /\ Target \in Nat
          /\ \A b \in BatchIds : batches[b].norm \in Nat
      BY TargetNat DEF Inv, PostageTypeOK, Batch
    <2>4. ASSUME NEW b \in BatchIds
          PROVE  /\ batches'[b].owner = batches[b].owner
                 /\ batches'[b].depth = batches[b].depth
                 /\ b # w.batchId => batches'[b] = batches[b]
                 /\ batches'[b].norm >= batches[b].norm
                 /\ batches'[b].norm \in Nat
      <3>1. CASE b = w.batchId
        <4>1. /\ batches'[b].norm = batches[b].norm + Deficit(w)
              /\ batches'[b].owner = batches[b].owner
              /\ batches'[b].depth = batches[b].depth
          BY <2>2, <2>3, <3>1 DEF Batch
        <4> QED
          BY <2>2, <2>3, <3>1, <4>1
      <3>2. CASE b # w.batchId
        BY <2>2, <2>3, <3>2
      <3> QED
        BY <3>1, <3>2
    <2>5. Live(w.batchId) /\ w.status = "Active" /\ ~TtlPassed(w)
          /\ batches[w.batchId].owner = w.chunkSigner
          /\ batches[w.batchId].depth = w.depth
      <3>1. w.status \in {"None", "Active", "Retired"}
        BY DEF Inv, VolumesOK, Volume
      <3> QED
        BY <2>1, <3>1 DEF TriggerOutcome
    <2>6. Target' = Target
      BY <2>2 DEF Target
    <2>7. PayThrough(Payer(w), Amount(w), Amount(w))
      BY <2>1, DeficitFacts, InvParts DEF ToppingUp, PayTopUp
    <2>8. \A x : TtlPassed(x)' = TtlPassed(x) /\ Payer(x)' = Payer(x)
      <3>1. \A x : TtlPassed(x) = (x.ttlExpiry # 0 /\ now >= x.ttlExpiry)
        BY DEF TtlPassed
      <3> QED
        BY <2>1 DEF TtlPassed, Payer
    <2>9. CASE v.status # "Active"
      <3>1. volumes'[id].status \in {"None", "Retired"}
        BY <2>1, <2>9 DEF Inv, VolumesOK, Volume
      <3> QED
        BY <3>1 DEF Settled, TriggerOutcome, Skipping
    <2>10. CASE v.status = "Active"
      <3>1. /\ Live(v.batchId) /\ ~TtlPassed(v)
            /\ batches[v.batchId].owner = v.chunkSigner
            /\ batches[v.batchId].depth = v.depth
        BY <2>5, <2>10, SettledMeans
      <3>2. v.batchId \in BatchIds /\ v.owner \in Owners /\ v.depth \in Depths
        BY <2>10 DEF Inv, VolumesOK, RecordsComplete
      <3>3. /\ volumes' = volumes /\ volumes'[id].status = "Active"
            /\ ~(TtlPassed(volumes[id])')
            /\ Live(v.batchId)'
            /\ batches'[v.batchId].owner = v.chunkSigner
            /\ batches'[v.batchId].depth = v.depth
        <4>1. volumes' = volumes /\ volumes'[id].status = "Active"
          BY <2>1, <2>10
        <4>2. ~(TtlPassed(volumes[id])')
          BY <2>1, <3>1 DEF TtlPassed
        <4> HIDE DEF v, w
        <4>3. batches'[v.batchId].owner = v.chunkSigner
              /\ batches'[v.batchId].depth = v.depth
          BY <2>4, <3>1, <3>2
        <4>4. Live(v.batchId)'
          <5>1. batches'[v.batchId].norm >= batches[v.batchId].norm
                /\ batches'[v.batchId].norm \in Nat
            BY <2>4, <3>2
          <5>2. batches[v.batchId].norm \in Nat
            BY <2>3, <3>2
          <5>3. Exists(v.batchId) /\ batches[v.batchId].norm > outPayment
            BY <3>1 DEF Live
          <5>4. outPayment' = outPayment /\ outPayment \in Nat
            BY <2>2, <2>3
          <5>5. batches'[v.batchId].owner # Zero
            BY <2>4, <3>2, <5>3 DEF Exists
          <5>6. batches'[v.batchId].norm > outPayment
            BY <5>1, <5>2, <5>3, <5>4
          <5>7. v' = v
            BY <4>1 DEF v
          <5> QED
            BY <5>4, <5>5, <5>6, <5>7 DEF Live, Exists
        <4> QED
          BY <4>1, <4>2, <4>3, <4>4
      <3>4. SUFFICES \/ ~accounts[v.owner].active
                     \/ Remaining(v.batchId)' >= Target
                     \/ ~(CanPull(Payer(v), Amount(v))')
        BY <2>1, <2>6, <3>3 DEF Settled, TriggerOutcome, Skipping
      <3>5. CASE v.batchId = w.batchId
        <4>1. Remaining(v.batchId)' = Target
          BY <2>1, <2>2, <3>5 DEF Remaining
        <4> QED
          BY <2>3, <4>1
      <3>6. CASE v.batchId # w.batchId
        <4>1. Remaining(v.batchId)' = Remaining(v.batchId)
          BY <2>1, <2>2, <2>4, <3>2, <3>6 DEF Remaining
        <4>2. \/ ~accounts[v.owner].active
              \/ Remaining(v.batchId) >= Target
              \/ /\ accounts[v.owner].active
                 /\ ~(Remaining(v.batchId) >= Target)
                 /\ ~CanPull(Payer(v), Amount(v))
          BY <2>10, <3>6, SettledMeans
        <4>3. ASSUME accounts[v.owner].active, ~(Remaining(v.batchId) >= Target),
                     CanPull(Payer(v), Amount(v))'
              PROVE  CanPull(Payer(v), Amount(v))
          <5>1. Payer(v) \in Payers /\ Payer(v)' = Payer(v)
            BY <2>1, <3>2, <4>3 DEF Payer, Inv, AccountsOK, Account
          <5>2. Amount(v) \in Nat /\ Amount(v)' = Amount(v)
            <6>1. Deficit(v)' = Deficit(v)
              BY <2>1, <2>6, <4>1 DEF Deficit
            <6>2. Deficit(v) \in Nat
              <7>1. Remaining(v.batchId) \in Int
                BY <2>3, <3>2 DEF Remaining
              <7> QED
                BY <2>3, <4>3, <7>1 DEF Deficit
            <6> QED
              BY <2>1, <3>2, <6>1, <6>2, ShiftExact DEF Amount, ShiftedBy
          <5> HIDE DEF v, w
          <5>3. PICK q \in Payers, price \in Nat : q = Payer(v) /\ price = Amount(v)
            BY <5>1, <5>2
          <5>4. CanPull(q, price)'
            BY <4>3, <5>1, <5>2, <5>3 DEF CanPull
          <5>5. CanPull(q, price)
            BY <2>1, <2>2, <2>7, <5>4, StillUnable DEF Inv
          <5> QED
            BY <5>3, <5>5
        <4> QED
          BY <4>1, <4>2, <4>3
      <3> QED
        BY <3>5, <3>6
    <2> QED
      BY <2>9, <2>10
  <1>4. CASE TriggerDoesNothing(j)
    <2>1. Settled(id)
      BY <1>4 DEF TriggerDoesNothing, Settled
    <2> QED
      BY <1>4, <2>1
      DEF TriggerDoesNothing, vars, registryVars, bzzVars, postageVars, Settled,
          TriggerOutcome, Live, Exists, TtlPassed, Remaining, Target, CanPull, Payer,
          Amount, Deficit, ShiftedBy
  <1> QED
    BY <1>2, <1>3, <1>4 DEF Trigger

(* I5, for any number of volumes, batches and payers they share: after a   *)
(* trigger its volume has nothing left to pay, and no trigger of another   *)
(* gives it anything to pay.                                               *)
THEOREM SettleTheorem == Spec => TriggersSettle
  <1>1. Inv => \A j \in VolumeIds : Trigger(j) =>
                   \A id \in VolumeIds : id = j \/ Settled(id) => Settled(id)'
    BY TriggerSettles
  <1> QED
    BY <1>1, Invariance, PTL DEF Spec, TriggersSettle
=============================================================================
