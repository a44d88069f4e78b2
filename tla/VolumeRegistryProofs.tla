------------------------ MODULE VolumeRegistryProofs ------------------------
(***************************************************************************)
(* Theorems about VolumeRegistry, for every number of owners, payers,      *)
(* volumes and batches and every value of the bounds.                      *)
(*                                                                         *)
(* The inductive invariant is Inv: the types, and what the types of the    *)
(* records cannot say, that a record that exists is filled in.  The other  *)
(* theorems take Inv as given and are inductive on top of it.              *)
(***************************************************************************)
EXTENDS VolumeRegistry, TLAPS

(* A volume that was ever created names an owner, a batch and a depth.     *)
RecordsComplete ==
    \A id \in VolumeIds : volumes[id].status # "None" =>
        /\ volumes[id].owner \in Owners
        /\ volumes[id].batchId \in BatchIds
        /\ volumes[id].depth \in Depths

(* A batch that exists has a depth for which Chunks is defined.            *)
BatchesComplete == \A b \in BatchIds : Exists(b) => batches[b].depth \in Depths

VolumesOK ==
    /\ volumes \in [VolumeIds -> Volume]
    /\ activeVolumeIds \in Seq(VolumeIds)
    /\ RecordsComplete

AccountsOK ==
    /\ designated \in [Owners -> Payers \cup {Zero}]
    /\ accounts \in [Owners -> Account]
    /\ \A o \in Owners : accounts[o].active => accounts[o].payer # Zero

Inv ==
    /\ BzzTypeOK
    /\ PostageTypeOK
    /\ BatchesComplete
    /\ VolumesOK
    /\ AccountsOK
    /\ nextNonce \in 0 .. MaxMint

-----------------------------------------------------------------------------
(* Arithmetic.                                                             *)

(* A quotient by a positive number is a natural.                           *)
LEMMA QuotientNat ==
    ASSUME NEW a \in Nat, NEW b \in Nat \ {0}
    PROVE  a \div b \in Nat
  BY SMT

(* Products of naturals are naturals.                                      *)
LEMMA ProductNat ==
    ASSUME NEW a \in Nat, NEW b \in Nat
    PROVE  a * b \in Nat
  BY SMT

(* The shift of a natural is a natural, and loses nothing if the product   *)
(* fits a word.                                                            *)
LEMMA ShiftExact ==
    ASSUME NEW x \in Nat, NEW d \in Depths
    PROVE  /\ ShiftedBy(x, d) \in Nat
           /\ Total(x, d) \in Nat
           /\ Total(x, d) < Word => ShiftedBy(x, d) = Total(x, d)
  <1>1. x * Chunks[d] \in Nat
    BY ProductNat, PostageAssumption
  <1>2. ASSUME NEW m \in Nat
        PROVE  m % Word \in Nat /\ (m < Word => m % Word = m)
    BY SMT, TokenAssumption
  <1> QED
    BY <1>1, <1>2 DEF ShiftedBy, Total

(* What graceBlocks of runway cost at the current price is a natural.      *)
LEMMA TargetNat ==
    ASSUME PostageTypeOK
    PROVE  Target \in Nat
  <1>1. lastPrice \in Nat /\ GraceBlocks \in Nat
    BY PostageAssumption, RegistryAssumption DEF PostageTypeOK
  <1> QED
    BY <1>1, ProductNat DEF Target

-----------------------------------------------------------------------------
(* The token.                                                              *)

(* A payment through the registry keeps every balance and allowance a      *)
(* natural: PayThrough's guards rule out every underflow.                  *)
LEMMA PayThroughType ==
    ASSUME BzzTypeOK, NEW p \in Payers, NEW amount \in Nat, NEW drawn \in Nat,
           PayThrough(p, amount, drawn), now' = now
    PROVE  BzzTypeOK'
  <1>1. /\ balance[p] >= amount
        /\ allowance[p] >= amount
        /\ drawn <= amount
    BY DEF PayThrough, TransferFromOK
  <1>2. /\ p \in Holders /\ Registry \in Holders /\ p # Registry
        /\ balance[p] \in Nat /\ balance[Registry] \in Nat /\ allowance[p] \in Nat
    BY TokenAssumption DEF BzzTypeOK, Holders
  <1>3. balance' \in [Holders -> Nat]
    <2>1. balance[p] - amount \in Nat /\ balance[Registry] + amount - drawn \in Nat
      BY <1>1, <1>2
    <2> QED
      BY <1>2, <2>1 DEF PayThrough, BzzTypeOK
  <1>4. allowance' \in [Holders -> Nat]
    <2>1. allowance[p] - amount \in Nat /\ amount - drawn \in Nat
      BY <1>1, <1>2
    <2> QED
      BY <1>2, <2>1 DEF PayThrough, BzzTypeOK
  <1> QED
    BY <1>3, <1>4 DEF PayThrough, BzzTypeOK

(* The token's other users keep every balance and allowance a natural.     *)
LEMMA BzzNextType ==
    ASSUME BzzTypeOK, BzzNext, now' = now
    PROVE  BzzTypeOK'
  <1>1. ASSUME NEW p \in Payers, NEW amount \in Grants, Approve(p, amount)
        PROVE  BzzTypeOK'
    <2>1. amount \in Nat
      BY TokenAssumption
    <2> QED
      BY <1>1, <2>1 DEF Approve, BzzTypeOK
  <1>2. ASSUME NEW p \in Payers, NEW expiry \in PermitExpiries, Permit(p, expiry)
        PROVE  BzzTypeOK'
    <2>1. expiry \in Nat /\ Unlimited \in Nat
      BY TokenAssumption DEF Unlimited
    <2> QED
      BY <1>2, <2>1 DEF Permit, BzzTypeOK
  <1>3. ASSUME NEW p \in Payers, NEW amount \in Deposits, Deposit(p, amount)
        PROVE  BzzTypeOK'
    <2>1. p \in Holders /\ balance[p] + amount \in Nat
      BY TokenAssumption DEF BzzTypeOK, Holders
    <2> QED
      BY <1>3, <2>1 DEF Deposit, BzzTypeOK
  <1>4. ASSUME NEW b \in BzzPauses, SetBzzPaused(b)
        PROVE  BzzTypeOK'
    BY <1>4, TokenAssumption DEF SetBzzPaused, BzzTypeOK
  <1> QED
    BY <1>1, <1>2, <1>3, <1>4 DEF BzzNext

-----------------------------------------------------------------------------
(* Postage.                                                                *)

PostageOK == PostageTypeOK /\ BatchesComplete

(* Deleting dead batches keeps the type.                                   *)
LEMMA ExpiredType ==
    ASSUME PostageOK
    PROVE  /\ Expired \in [BatchIds -> Batch]
           /\ \A b \in BatchIds : Expired[b].owner # Zero => Expired[b].depth \in Depths
  <1>1. Missing \in Batch
    BY DEF Missing, Batch
  <1> QED
    BY <1>1 DEF PostageOK, PostageTypeOK, BatchesComplete, Expired, Missing, Live, Exists

(* Creating a batch keeps the batches well typed.                          *)
LEMMA BatchesWithType ==
    ASSUME PostageOK, NEW b \in BatchIds, NEW owner \in Signers,
           NEW depth \in Depths, NEW perChunk \in Nat,
           batches' = BatchesWith(b, owner, depth, perChunk),
           UNCHANGED <<lastPrice, outPayment, paused, minValidity>>
    PROVE  PostageOK'
  <1> DEFINE r == [owner |-> owner, depth |-> depth, norm |-> outPayment + perChunk]
  <1>1. r \in Batch /\ r.depth \in Depths
    BY DEF Batch, PostageOK, PostageTypeOK
  <1>2. batches' = [Expired EXCEPT ![b] = r]
    BY DEF BatchesWith
  <1> HIDE DEF r
  <1>3. batches' \in [BatchIds -> Batch] /\ BatchesComplete'
    BY <1>1, <1>2, ExpiredType DEF BatchesComplete, Exists
  <1> QED
    BY <1>3 DEF PostageOK, PostageTypeOK

(* So does topping one up.                                                 *)
LEMMA ToppedUpType ==
    ASSUME PostageOK, NEW b \in BatchIds, NEW perChunk \in Nat,
           batches' = BatchesToppedUp(b, perChunk),
           UNCHANGED <<lastPrice, outPayment, paused, minValidity>>
    PROVE  PostageOK'
  <1>1. batches' \in [BatchIds -> Batch] /\ BatchesComplete'
    BY DEF PostageOK, PostageTypeOK, BatchesComplete, Exists, Batch, BatchesToppedUp
  <1> QED
    BY <1>1 DEF PostageOK, PostageTypeOK

(* So does the passing of a block, whatever the price.                     *)
LEMMA TickType ==
    ASSUME PostageOK, BzzTypeOK, Tick, UNCHANGED bzzVars
    PROVE  PostageOK' /\ BzzTypeOK'
  <1>1. now' \in Nat /\ outPayment' \in Nat
    BY PostageAssumption DEF Tick, PostageOK, PostageTypeOK, BzzTypeOK
  <1> QED
    BY <1>1 DEF Tick, PostageOK, PostageTypeOK, BatchesComplete, Exists, BzzTypeOK, bzzVars

(* So does everything else the rest of the world does to PostageStamp.     *)
LEMMA PostageNextType ==
    ASSUME PostageOK, PostageNext
    PROVE  PostageOK'
  <1> USE DEF PostageOK
  <1>1. ASSUME NEW price \in Prices, SetPrice(price)
        PROVE  PostageOK'
    BY <1>1 DEF SetPrice, PostageTypeOK, BatchesComplete, Exists
  <1>2. ASSUME NEW b \in Pauses, SetPaused(b)
        PROVE  PostageOK'
    BY <1>2, PostageAssumption DEF SetPaused, PostageTypeOK, BatchesComplete, Exists
  <1>3. ASSUME NEW blocks \in Validities, SetMinimumValidity(blocks)
        PROVE  PostageOK'
    BY <1>3, PostageAssumption DEF SetMinimumValidity, PostageTypeOK, BatchesComplete, Exists
  <1>4. ASSUME ExpireBatches
        PROVE  PostageOK'
    BY <1>4, ExpiredType DEF ExpireBatches, PostageTypeOK, BatchesComplete, Exists
  <1>5. ASSUME NEW b \in ExternalIds, NEW owner \in Signers, NEW depth \in Depths,
               NEW perChunk \in ExternalFunds,
               CreateExternally(b, owner, depth, perChunk)
                  \/ CopyBatch(b, owner, depth, perChunk)
        PROVE  PostageOK'
    <2>1. b \in BatchIds /\ perChunk \in Nat
      BY PostageAssumption DEF BatchIds
    <2> QED
      BY <1>5, <2>1, BatchesWithType DEF CreateExternally, CopyBatch
  <1>6. ASSUME NEW b \in BatchIds, NEW perChunk \in ExternalFunds,
               TopUpExternally(b, perChunk)
        PROVE  PostageOK'
    <2>1. perChunk \in Nat
      BY PostageAssumption
    <2> QED
      BY <1>6, <2>1, ToppedUpType DEF TopUpExternally
  <1>7. ASSUME NEW b \in BatchIds, NEW depth \in Depths, IncreaseDepth(b, depth)
        PROVE  PostageOK'
    <2> DEFINE diluted ==
            (Remaining(b) * Chunks[batches[b].depth]) \div Chunks[depth]
    <2>1. Remaining(b) \in Nat /\ batches[b].depth \in Depths
      BY <1>7 DEF IncreaseDepth, Live, Remaining, PostageTypeOK, Batch, BatchesComplete
    <2>2. diluted \in Nat
      BY <2>1, ProductNat, QuotientNat, PostageAssumption
    <2>3. /\ batches' = [batches EXCEPT ![b].depth = depth,
                                        ![b].norm = outPayment + diluted]
          /\ UNCHANGED <<lastPrice, outPayment, paused, minValidity>>
      BY <1>7 DEF IncreaseDepth
    <2>4. outPayment + diluted \in Nat
      BY <2>2 DEF PostageTypeOK
    <2> HIDE DEF diluted
    <2>5. batches' \in [BatchIds -> Batch] /\ BatchesComplete'
      BY <2>3, <2>4 DEF PostageTypeOK, Batch, BatchesComplete, Exists
    <2> QED
      BY <2>3, <2>5 DEF PostageTypeOK
  <1> QED
    BY <1>1, <1>2, <1>3, <1>4, <1>5, <1>6, <1>7 DEF PostageNext

-----------------------------------------------------------------------------
(* The active set.                                                         *)

(* What _retire writes into one record keeps its type and its identity.    *)
LEMMA RecordMoved ==
    ASSUME NEW r \in Volume, NEW n \in Nat
    PROVE  LET moved == [r EXCEPT !.activeIndex = n]
           IN  /\ moved \in Volume
               /\ Identity(moved) = Identity(r)
               /\ moved.status = r.status
               /\ moved.activeIndex = n
  BY DEF Volume, Identity

(* Setting status to Retired keeps the type and the identity of a record.  *)
LEMMA RecordRetired ==
    ASSUME NEW r \in Volume
    PROVE  LET gone == [r EXCEPT !.status = "Retired", !.activeIndex = 0]
           IN  /\ gone \in Volume
               /\ Identity(gone) = Identity(r)
               /\ gone.status = "Retired"
  BY DEF Volume, Identity

(* What Retire does to each record: the retired one changes status, the    *)
(* one at the end of the list changes place, every other one is kept.      *)
LEMMA RetireRecords ==
    ASSUME VolumesOK, NEW id \in VolumeIds, Retire(id)
    PROVE  /\ volumes' \in [VolumeIds -> Volume]
           /\ volumes'[id].status = "Retired"
           /\ \A j \in VolumeIds :
                 /\ Identity(volumes'[j]) = Identity(volumes[j])
                 /\ j # id => volumes'[j].status = volumes[j].status
                 /\ j # id => volumes'[j].activeIndex =
                       IF j = activeVolumeIds[Len(activeVolumeIds)]
                       THEN volumes[id].activeIndex ELSE volumes[j].activeIndex
  <1> DEFINE idx      == volumes[id].activeIndex
             lastId   == activeVolumeIds[Len(activeVolumeIds) - 1 + 1]
             Moved(r) == [r EXCEPT !.activeIndex = idx]
             Gone(r)  == [r EXCEPT !.status = "Retired", !.activeIndex = 0]
             moved    == [j \in VolumeIds |-> IF j = lastId THEN Moved(volumes[j])
                                                           ELSE volumes[j]]
  <1>1. volumes \in [VolumeIds -> Volume] /\ idx \in Nat
    BY DEF VolumesOK, Volume
  <1>2. volumes' = [j \in VolumeIds |-> IF j = id THEN Gone(moved[j]) ELSE moved[j]]
    BY <1>1 DEF Retire
  <1>3. \A j \in VolumeIds :
            /\ moved[j] \in Volume
            /\ Identity(moved[j]) = Identity(volumes[j])
            /\ moved[j].status = volumes[j].status
            /\ moved[j].activeIndex = IF j = lastId THEN idx ELSE volumes[j].activeIndex
    BY <1>1, RecordMoved
  <1> HIDE DEF moved
  <1>4. \A j \in VolumeIds :
            /\ Gone(moved[j]) \in Volume
            /\ Identity(Gone(moved[j])) = Identity(volumes[j])
            /\ Gone(moved[j]).status = "Retired"
    BY <1>3, RecordRetired
  <1> HIDE DEF Gone, Moved
  <1>5. \A j \in VolumeIds :
            /\ volumes'[j] = IF j = id THEN Gone(moved[j]) ELSE moved[j]
            /\ volumes'[j] \in Volume
    BY <1>2, <1>3, <1>4
  <1>6. volumes' \in [VolumeIds -> Volume]
    BY <1>2, <1>5
  <1>7. Len(activeVolumeIds) - 1 + 1 = Len(activeVolumeIds)
    BY DEF VolumesOK
  <1> QED
    BY <1>3, <1>4, <1>5, <1>6, <1>7

(* Retiring a volume keeps list and records well typed and complete.       *)
LEMMA RetireType ==
    ASSUME VolumesOK, NEW id \in VolumeIds, volumes[id].status # "None", Retire(id)
    PROVE  VolumesOK'
  <1> DEFINE idx    == volumes[id].activeIndex
             last   == Len(activeVolumeIds) - 1
             lastId == activeVolumeIds[last + 1]
  <1>1. activeVolumeIds' = [i \in 1 .. last |->
              IF i = idx + 1 THEN lastId ELSE activeVolumeIds[i]]
    BY DEF Retire
  <1>2. /\ last \in Int /\ last + 1 = Len(activeVolumeIds)
        /\ \A i \in 1 .. last + 1 : activeVolumeIds[i] \in VolumeIds
    BY DEF VolumesOK
  <1>3. last \in Nat => lastId \in VolumeIds
    BY <1>2
  <1> HIDE DEF idx, last, lastId
  <1>4. activeVolumeIds' \in Seq(VolumeIds)
    <2>1. CASE last \in Nat
      <3>1. \A i \in 1 .. last :
                (IF i = idx + 1 THEN lastId ELSE activeVolumeIds[i]) \in VolumeIds
        BY <1>2, <1>3, <2>1
      <3> QED
        BY <1>1, <2>1, <3>1
    <2>2. CASE last \notin Nat
      <3>1. 1 .. last = {} /\ 1 .. 0 = {}
        BY <1>2, <2>2
      <3>2. activeVolumeIds' = [i \in 1 .. 0 |-> id]
        BY <1>1, <3>1
      <3> QED
        BY <3>2
    <2> QED
      BY <2>1, <2>2
  <1>5. /\ volumes' \in [VolumeIds -> Volume]
        /\ \A j \in VolumeIds :
              /\ Identity(volumes'[j]) = Identity(volumes[j])
              /\ volumes[j].status = "None" => volumes'[j].status = "None"
    BY RetireRecords DEF VolumesOK
  <1>6. \A j \in VolumeIds : /\ volumes'[j].owner = volumes[j].owner
                             /\ volumes'[j].batchId = volumes[j].batchId
                             /\ volumes'[j].depth = volumes[j].depth
    BY <1>5 DEF Identity
  <1>7. RecordsComplete'
    BY <1>5, <1>6 DEF VolumesOK, RecordsComplete
  <1> QED
    BY <1>4, <1>5, <1>7 DEF VolumesOK

(* The owner's nonce moves on and nothing else of its account does.        *)
LEMMA NonceType ==
    ASSUME AccountsOK, NEW o \in Owners, accounts[o].nonce < MaxNonce,
           accounts' = [accounts EXCEPT ![o].nonce = @ + 1], UNCHANGED designated
    PROVE  AccountsOK'
  <1> DEFINE r == [accounts[o] EXCEPT !.nonce = @ + 1]
  <1>1. r \in Account /\ r.active = accounts[o].active /\ r.payer = accounts[o].payer
    BY RegistryAssumption DEF AccountsOK, Account
  <1>2. accounts' = [accounts EXCEPT ![o] = r]
    OBVIOUS
  <1> HIDE DEF r
  <1> QED
    BY <1>1, <1>2 DEF AccountsOK

(* An owner's next ID is one of VolumeIds while it has calls left.         *)
LEMMA NextIdType ==
    ASSUME AccountsOK, NEW o \in Owners, accounts[o].nonce < MaxNonce
    PROVE  NextId(o) \in VolumeIds
  <1>1. accounts[o].nonce \in 0 .. MaxNonce - 1
    BY RegistryAssumption DEF AccountsOK, Account
  <1> QED
    BY <1>1 DEF NextId, VolumeIds

(* Recording a filled-in volume keeps the records complete.                *)
LEMMA RecordVolumeType ==
    ASSUME VolumesOK, AccountsOK, NEW o \in Owners, NEW v \in Volume,
           v.owner \in Owners, v.batchId \in BatchIds, v.depth \in Depths,
           RecordVolume(o, v), UNCHANGED designated
    PROVE  VolumesOK' /\ AccountsOK'
  <1>1. NextId(o) \in VolumeIds /\ AccountsOK'
    BY NextIdType, NonceType DEF RecordVolume
  <1>2. volumes' \in [VolumeIds -> Volume]
    BY DEF RecordVolume, VolumesOK
  <1>3. activeVolumeIds' \in Seq(VolumeIds)
    BY <1>1 DEF RecordVolume, VolumesOK
  <1>4. RecordsComplete'
    BY DEF RecordVolume, VolumesOK, RecordsComplete
  <1> QED
    BY <1>1, <1>2, <1>3, <1>4 DEF VolumesOK

-----------------------------------------------------------------------------
(* The actions of the contract.                                            *)

(* Inv in the terms of the lemmas above.                                   *)
LEMMA InvParts ==
    Inv <=> /\ BzzTypeOK /\ PostageOK /\ VolumesOK /\ AccountsOK
            /\ nextNonce \in 0 .. MaxMint
  BY DEF Inv, PostageOK

(* When a volume gets as far as the payment, it is Active and its batch    *)
(* is live, has the recorded depth and lacks something.                    *)
LEMMA ToppedUpFacts ==
    ASSUME NEW v, TriggerOutcome(v) = "ToppedUp"
    PROVE  /\ v.status # "None" /\ v.status # "Retired"
           /\ Live(v.batchId)
           /\ batches[v.batchId].depth = v.depth
           /\ accounts[v.owner].active
           /\ ~(Remaining(v.batchId) >= Target)
           /\ CanPull(Payer(v), Amount(v))
  BY DEF TriggerOutcome

(* A volume that trigger retires exists and is not Retired already.        *)
LEMMA RetiringFacts ==
    ASSUME NEW v, TriggerOutcome(v) \in Retiring
    PROVE  v.status # "None" /\ v.status # "Retired"
  BY DEF TriggerOutcome, Retiring

(* The deficit of a volume that is topped up is positive, and the payer is *)
(* charged what PostageStamp draws.                                        *)
LEMMA DeficitFacts ==
    ASSUME PostageOK, NEW v, v.batchId \in BatchIds, v.depth \in Depths,
           TriggerOutcome(v) = "ToppedUp"
    PROVE  /\ Deficit(v) \in Nat \ {0}
           /\ Amount(v) \in Nat
           /\ Drawn(v.batchId, Deficit(v)) \in Nat
           /\ TopUpOK(v.batchId, Deficit(v)) => Drawn(v.batchId, Deficit(v)) = Amount(v)
  <1>1. Remaining(v.batchId) \in Nat /\ Target \in Nat
    BY ToppedUpFacts, TargetNat DEF PostageOK, PostageTypeOK, Live, Remaining, Batch
  <1>2. Deficit(v) \in Nat \ {0}
    BY <1>1, ToppedUpFacts DEF Deficit
  <1>3. batches[v.batchId].depth = v.depth
    BY ToppedUpFacts
  <1> QED
    BY <1>2, <1>3, ShiftExact DEF Amount, Drawn, TopUpOK

(* A topup keeps tokens and batches well typed.                            *)
LEMMA PayTopUpType ==
    ASSUME BzzTypeOK, PostageOK, AccountsOK, NEW v,
           v.owner \in Owners, v.batchId \in BatchIds, v.depth \in Depths,
           TriggerOutcome(v) = "ToppedUp", PayTopUp(v), now' = now
    PROVE  BzzTypeOK' /\ PostageOK'
  <1>1. /\ Deficit(v) \in Nat /\ Amount(v) \in Nat
        /\ Drawn(v.batchId, Deficit(v)) \in Nat
    BY DeficitFacts
  <1>2. Payer(v) \in Payers
    BY ToppedUpFacts DEF AccountsOK, Account, Payer
  <1>3. BzzTypeOK'
    BY <1>1, <1>2, PayThroughType DEF PayTopUp
  <1>4. PostageOK'
    BY <1>1, ToppedUpType DEF PayTopUp
  <1> QED
    BY <1>3, <1>4

(* The parts of Inv that a step leaves alone.                              *)
LEMMA UnchangedParts ==
    /\ BzzTypeOK /\ UNCHANGED <<now, bzzVars>> => BzzTypeOK'
    /\ PostageOK /\ UNCHANGED postageVars => PostageOK'
    /\ VolumesOK /\ UNCHANGED <<volumes, activeVolumeIds>> => VolumesOK'
    /\ AccountsOK /\ UNCHANGED <<designated, accounts>> => AccountsOK'
  <1>1. BzzTypeOK /\ UNCHANGED <<now, bzzVars>> => BzzTypeOK'
    BY DEF BzzTypeOK, bzzVars
  <1>2. PostageOK /\ UNCHANGED postageVars => PostageOK'
    BY DEF PostageOK, PostageTypeOK, BatchesComplete, Exists, postageVars
  <1>3. VolumesOK /\ UNCHANGED <<volumes, activeVolumeIds>> => VolumesOK'
    BY DEF VolumesOK, RecordsComplete
  <1>4. AccountsOK /\ UNCHANGED <<designated, accounts>> => AccountsOK'
    BY DEF AccountsOK
  <1> QED
    BY <1>1, <1>2, <1>3, <1>4

(* The state the constructor leaves satisfies Inv.                         *)
LEMMA InitInv == Init => Inv
  <1> SUFFICES ASSUME Init PROVE Inv
    OBVIOUS
  <1> USE DEF Init
  <1>1. BzzTypeOK
    <2>1. balance \in [Holders -> Nat]
      <3>1. balance \in [Holders -> Deposits \cup {0}]
        BY DEF BzzInit
      <3>2. Deposits \cup {0} \subseteq Nat
        BY TokenAssumption
      <3> QED
        BY <3>1, <3>2
    <2> QED
      BY <2>1 DEF BzzInit, BzzTypeOK
  <1>2. PostageOK
    <2>1. Missing \in Batch /\ Missing.owner = Zero
      BY DEF Missing, Batch
    <2> QED
      BY <2>1, PostageAssumption
      DEF PostageInit, PostageOK, PostageTypeOK, BatchesComplete, Exists
  <1>3. VolumesOK
    <2>1. NoVolume \in Volume /\ NoVolume.status = "None"
      BY DEF NoVolume, Volume
    <2> QED
      BY <2>1 DEF VolumesOK, RecordsComplete
  <1>4. AccountsOK
    <2>1. NoAccount \in Account /\ ~NoAccount.active
      BY RegistryAssumption DEF NoAccount, Account
    <2> QED
      BY <2>1 DEF AccountsOK
  <1>5. nextNonce \in 0 .. MaxMint
    BY PostageAssumption
  <1> QED
    BY <1>1, <1>2, <1>3, <1>4, <1>5, InvParts

(* trigger, reap and deleteVolume retire one volume and change nothing     *)
(* else.                                                                   *)
LEMMA RetireInv ==
    ASSUME Inv, NEW id \in VolumeIds, volumes[id].status # "None", Retire(id),
           UNCHANGED <<now, bzzVars, postageVars, designated, accounts, nextNonce>>
    PROVE  Inv'
  <1>1. BzzTypeOK' /\ PostageOK' /\ AccountsOK'
    BY InvParts, UnchangedParts
  <1>2. VolumesOK'
    BY InvParts, RetireType
  <1>3. nextNonce' \in 0 .. MaxMint
    BY InvParts
  <1> QED
    BY <1>1, <1>2, <1>3 DEF Inv, PostageOK

(* trigger keeps Inv, whichever way it ends.                               *)
LEMMA TriggerInv ==
    ASSUME Inv, NEW id \in VolumeIds, Trigger(id)
    PROVE  Inv'
  <1>1. CASE TriggerRetires(id)
    BY <1>1, RetireInv, RetiringFacts DEF TriggerRetires
  <1>2. CASE TriggerTopsUp(id)
    <2>1. TriggerOutcome(volumes[id]) = "ToppedUp" /\ PayTopUp(volumes[id])
          /\ UNCHANGED <<now, registryVars>>
      BY <1>2 DEF TriggerTopsUp
    <2>2. /\ volumes[id].owner \in Owners
          /\ volumes[id].batchId \in BatchIds
          /\ volumes[id].depth \in Depths
      BY <2>1, ToppedUpFacts DEF Inv, VolumesOK, RecordsComplete
    <2>3. BzzTypeOK' /\ PostageOK'
      BY <2>1, <2>2, PayTopUpType, InvParts
    <2>4. VolumesOK' /\ AccountsOK' /\ nextNonce' \in 0 .. MaxMint
      BY <2>1, InvParts, UnchangedParts DEF registryVars
    <2> QED
      BY <2>3, <2>4 DEF Inv, PostageOK
  <1>3. CASE TriggerDoesNothing(id)
    <2>1. UNCHANGED vars
      BY <1>3 DEF TriggerDoesNothing
    <2> QED
      BY <2>1, InvParts, UnchangedParts DEF vars, registryVars, Inv, PostageOK
  <1> QED
    BY <1>1, <1>2, <1>3 DEF Trigger

(* designateFundingWallet, confirmAuth and revoke keep Inv.                *)
LEMMA AccountInv ==
    ASSUME Inv, NEW o \in Owners,
           \/ \E p \in Payers \cup {Zero} : DesignateFundingWallet(o, p)
           \/ \E p \in Payers : ConfirmAuth(p, o)
           \/ \E caller \in Owners \cup Payers : Revoke(caller, o)
    PROVE  Inv'
  <1>1. /\ UNCHANGED <<now, bzzVars, postageVars>>
        /\ UNCHANGED <<volumes, activeVolumeIds, nextNonce>>
    BY DEF DesignateFundingWallet, ConfirmAuth, Revoke
  <1>2. BzzTypeOK' /\ PostageOK' /\ VolumesOK' /\ nextNonce' \in 0 .. MaxMint
    BY <1>1, InvParts, UnchangedParts
  <1>3. AccountsOK'
    <2>1. ASSUME NEW p \in Payers \cup {Zero}, DesignateFundingWallet(o, p)
          PROVE  AccountsOK'
      BY <2>1 DEF DesignateFundingWallet, Inv, AccountsOK
    <2>2. ASSUME NEW p \in Payers, ConfirmAuth(p, o)
          PROVE  AccountsOK'
      <3> DEFINE a == [accounts[o] EXCEPT !.payer = p, !.active = TRUE]
      <3>1. /\ designated' = designated
            /\ accounts' = [accounts EXCEPT ![o] = a]
            /\ accounts \in [Owners -> Account]
        BY <2>2 DEF ConfirmAuth, Inv, AccountsOK
      <3>2. a \in Account /\ a.payer = p
        BY <3>1 DEF Account
      <3>3. p # Zero
        BY PostageAssumption
      <3> HIDE DEF a
      <3> QED
        BY <3>1, <3>2, <3>3 DEF Inv, AccountsOK
    <2>3. ASSUME NEW caller \in Owners \cup Payers, Revoke(caller, o)
          PROVE  AccountsOK'
      BY <2>3 DEF Revoke, Inv, AccountsOK, Account
    <2> QED
      BY <2>1, <2>2, <2>3
  <1> QED
    BY <1>2, <1>3, InvParts DEF Inv, PostageOK

(* A record written by Record is filled in.                                *)
LEMMA RecordType ==
    ASSUME VolumesOK, NEW o \in Owners, NEW b \in BatchIds, NEW signer \in Signers,
           NEW depth \in Depths, NEW ttl \in Ttls
    PROVE  LET v == Record(o, b, signer, depth, ttl)
           IN  /\ v \in Volume /\ v.owner = o /\ v.batchId = b /\ v.depth = depth
               /\ v.chunkSigner = signer /\ v.ttlExpiry = ttl /\ v.status = "Active"
               /\ v.activeIndex = Len(activeVolumeIds)
  <1>1. Len(activeVolumeIds) \in Nat /\ ttl \in Nat
    BY RegistryAssumption DEF VolumesOK
  <1> QED
    BY <1>1 DEF Record, Volume

(* createVolume keeps Inv.                                                 *)
LEMMA CreateVolumeInv ==
    ASSUME Inv, NEW o \in Owners, NEW signer \in Signers \cup {Zero}, NEW depth \in Depths,
           NEW ttl \in Ttls, CreateVolume(o, signer, depth, ttl)
    PROVE  Inv'
  <1> DEFINE b == Minted(nextNonce)
             v == Record(o, b, signer, depth, ttl)
  <1>1. /\ accounts[o].active /\ signer \in Signers /\ nextNonce < MaxMint
        /\ PayThrough(accounts[o].payer, ShiftedBy(Target, depth), Total(Target, depth))
        /\ batches' = BatchesWith(b, signer, depth, Target)
        /\ nextNonce' = nextNonce + 1
        /\ RecordVolume(o, v)
        /\ UNCHANGED <<now, lastPrice, outPayment, paused, minValidity, designated>>
    BY DEF CreateVolume
  <1>2. b \in BatchIds /\ nextNonce' \in 0 .. MaxMint
    BY <1>1, PostageAssumption DEF Inv, BatchIds
  <1>3. accounts[o].payer \in Payers
    BY <1>1 DEF Inv, AccountsOK, Account
  <1>4. Target \in Nat /\ ShiftedBy(Target, depth) \in Nat /\ Total(Target, depth) \in Nat
    BY TargetNat, ShiftExact DEF Inv
  <1>5. BzzTypeOK'
    BY <1>1, <1>3, <1>4, PayThroughType DEF Inv
  <1> HIDE DEF b
  <1>6. PostageOK'
    BY <1>1, <1>2, <1>4, BatchesWithType, InvParts
  <1>7. VolumesOK' /\ AccountsOK'
    BY <1>1, <1>2, RecordType, RecordVolumeType, InvParts
  <1> QED
    BY <1>2, <1>5, <1>6, <1>7 DEF Inv, PostageOK

(* Registering a live batch, as both registerVolume and importVolume do.   *)
LEMMA RegisterBatchType ==
    ASSUME Inv, NEW o \in Owners, NEW b \in BatchIds, NEW ttl \in Ttls,
           RegisterBatch(o, b, ttl), UNCHANGED designated
    PROVE  /\ VolumesOK' /\ AccountsOK'
           /\ LET v == Snapshot(o, b, ttl)
              IN  v.owner = o /\ v.batchId = b /\ v.depth \in Depths
  <1>1. batches[b].owner \in Signers /\ batches[b].depth \in Depths
    BY DEF RegisterBatch, Live, Exists, Inv, PostageTypeOK, Batch, BatchesComplete
  <1> DEFINE v == Snapshot(o, b, ttl)
  <1>2. v \in Volume /\ v.owner = o /\ v.batchId = b /\ v.depth \in Depths
    BY <1>1, RecordType DEF Snapshot, Inv
  <1>3. RecordVolume(o, v)
    BY DEF RegisterBatch
  <1> HIDE DEF v
  <1>4. VolumesOK' /\ AccountsOK'
    BY <1>2, <1>3, RecordVolumeType DEF Inv
  <1> QED
    BY <1>2, <1>4 DEF v

(* registerVolume keeps Inv.                                               *)
LEMMA RegisterVolumeInv ==
    ASSUME Inv, NEW o \in Owners, NEW b \in BatchIds, NEW ttl \in Ttls,
           RegisterVolume(o, b, ttl)
    PROVE  Inv'
  <1>1. /\ RegisterBatch(o, b, ttl)
        /\ UNCHANGED <<now, bzzVars, postageVars, designated, nextNonce>>
    BY DEF RegisterVolume
  <1>2. VolumesOK' /\ AccountsOK'
    BY <1>1, RegisterBatchType
  <1>3. BzzTypeOK' /\ PostageOK' /\ nextNonce' \in 0 .. MaxMint
    BY <1>1, InvParts, UnchangedParts
  <1> QED
    BY <1>2, <1>3 DEF Inv, PostageOK

(* importVolume keeps Inv.                                                 *)
LEMMA ImportVolumeInv ==
    ASSUME Inv, NEW o \in Owners, NEW b \in BatchIds, NEW ttl \in Ttls,
           ImportVolume(o, b, ttl)
    PROVE  Inv'
  <1> DEFINE v == Snapshot(o, b, ttl)
  <1>1. /\ RegisterBatch(o, b, ttl)
        /\ \/ TriggerOutcome(v) = "ToppedUp" /\ PayTopUp(v)
           \/ UNCHANGED <<bzzVars, postageVars>>
        /\ UNCHANGED <<now, designated, nextNonce>>
    BY DEF ImportVolume
  <1>2. /\ VolumesOK' /\ AccountsOK'
        /\ v.owner = o /\ v.batchId = b /\ v.depth \in Depths
    BY <1>1, RegisterBatchType
  <1> HIDE DEF v
  <1>3. BzzTypeOK' /\ PostageOK'
    <2>1. CASE TriggerOutcome(v) = "ToppedUp" /\ PayTopUp(v)
      BY <1>1, <1>2, <2>1, PayTopUpType, InvParts
    <2>2. CASE UNCHANGED <<bzzVars, postageVars>>
      BY <1>1, <2>2, UnchangedParts, InvParts
    <2> QED
      BY <1>1, <2>1, <2>2
  <1>4. nextNonce' \in 0 .. MaxMint
    BY <1>1 DEF Inv
  <1> QED
    BY <1>2, <1>3, <1>4 DEF Inv, PostageOK

(* What Postage, the token and their other users do keeps Inv.             *)
LEMMA WorldInv ==
    ASSUME Inv, WorldNext
    PROVE  Inv'
  <1>1. CASE Tick /\ UNCHANGED <<bzzVars, registryVars>>
    BY <1>1, TickType, InvParts, UnchangedParts DEF registryVars, Inv, PostageOK
  <1>2. CASE PostageNext /\ UNCHANGED <<now, bzzVars, registryVars>>
    BY <1>2, PostageNextType, InvParts, UnchangedParts DEF registryVars, Inv, PostageOK
  <1>3. CASE BzzNext /\ UNCHANGED <<now, postageVars, registryVars>>
    BY <1>3, BzzNextType, InvParts, UnchangedParts DEF registryVars, Inv, PostageOK
  <1> QED
    BY <1>1, <1>2, <1>3 DEF WorldNext

(* Every step keeps Inv.                                                   *)
LEMMA StepInv ==
    ASSUME Inv, [Next]_vars
    PROVE  Inv'
  <1>1. CASE KeeperNext
    <2>1. ASSUME NEW id \in VolumeIds, Reap(id)
          PROVE  Inv'
      BY <2>1, RetireInv DEF Reap
    <2> QED
      BY <1>1, <2>1, TriggerInv DEF KeeperNext
  <1>2. CASE UserNext
    <2>1. ASSUME NEW o \in Owners, NEW id \in VolumeIds, DeleteVolume(o, id)
          PROVE  Inv'
      BY <2>1, RetireInv DEF DeleteVolume
    <2> QED
      BY <1>2, <2>1, AccountInv, CreateVolumeInv, RegisterVolumeInv, ImportVolumeInv
      DEF UserNext
  <1>3. CASE WorldNext
    BY <1>3, WorldInv
  <1>4. CASE UNCHANGED vars
    BY <1>4, InvParts, UnchangedParts DEF vars, registryVars, Inv, PostageOK
  <1> QED
    BY <1>1, <1>2, <1>3, <1>4 DEF Next

(* Inv, the inductive invariant, holds in every state of every behaviour:  *)
(* the types, and no Active volume or existing batch without its data.     *)
THEOREM Invariance == Spec => []Inv
  BY InitInv, StepInv, PTL DEF Spec

(* Every variable keeps its type: no balance, allowance, deficit or        *)
(* quotient underflows, whatever the calls and their order.                *)
THEOREM TypeCorrect == Spec => []TypeOK
  <1>1. Inv => TypeOK
    BY DEF Inv, TypeOK, VolumesOK, AccountsOK
  <1> QED
    BY <1>1, Invariance, PTL

-----------------------------------------------------------------------------
(* The active set and the IDs.                                             *)

(* What a step may do to the records: nothing, one retirement of an Active *)
(* volume, or one new record under its owner's next ID.                    *)
Retirement ==
    \E id \in VolumeIds :
        volumes[id].status = "Active" /\ Retire(id) /\ UNCHANGED accounts

Creation ==
    \E o \in Owners, b \in BatchIds, signer \in Signers, depth \in Depths, ttl \in Ttls :
        RecordVolume(o, Record(o, b, signer, depth, ttl))

NoneOfIt ==
    /\ UNCHANGED <<volumes, activeVolumeIds>>
    /\ \A o \in Owners : accounts'[o].nonce = accounts[o].nonce

(* A step does one of three things to the volumes: it retires an Active    *)
(* one, it records one under the next ID of its owner, or it touches none. *)
LEMMA VolumeSteps ==
    ASSUME Inv, [Next]_vars
    PROVE  Retirement \/ Creation \/ NoneOfIt
  <1>1. ASSUME NEW id \in VolumeIds, Trigger(id)
        PROVE  Retirement \/ NoneOfIt
    <2>1. CASE TriggerRetires(id)
      <3>1. volumes[id].status = "Active"
        BY <2>1, RetiringFacts DEF TriggerRetires, Inv, VolumesOK, Volume
      <3> QED
        BY <2>1, <3>1 DEF TriggerRetires, Retirement
    <2>2. CASE TriggerTopsUp(id) \/ TriggerDoesNothing(id)
      BY <2>2 DEF TriggerTopsUp, TriggerDoesNothing, vars, registryVars, NoneOfIt
    <2> QED
      BY <1>1, <2>1, <2>2 DEF Trigger
  <1>2. ASSUME NEW id \in VolumeIds,
               Reap(id) \/ \E o \in Owners : DeleteVolume(o, id)
        PROVE  Retirement
    BY <1>2 DEF Reap, DeleteVolume, Retirement
  <1>3. ASSUME NEW o \in Owners,
               \/ \E p \in Payers \cup {Zero} : DesignateFundingWallet(o, p)
               \/ \E p \in Payers : ConfirmAuth(p, o)
               \/ \E caller \in Owners \cup Payers : Revoke(caller, o)
        PROVE  NoneOfIt
    <2>1. UNCHANGED <<volumes, activeVolumeIds>>
      BY <1>3 DEF DesignateFundingWallet, ConfirmAuth, Revoke
    <2>2. \A a \in Account : \A p : /\ [a EXCEPT !.active = FALSE].nonce = a.nonce
                                    /\ [a EXCEPT !.payer = p, !.active = TRUE].nonce = a.nonce
      BY DEF Account
    <2>3. accounts \in [Owners -> Account]
      BY DEF Inv, AccountsOK
    <2>4. ASSUME NEW x \in Owners
          PROVE  accounts'[x].nonce = accounts[x].nonce
      <3>1. CASE \E p \in Payers \cup {Zero} : DesignateFundingWallet(o, p)
        BY <3>1 DEF DesignateFundingWallet
      <3>2. CASE \E p \in Payers : ConfirmAuth(p, o)
        BY <2>2, <2>3, <3>2 DEF ConfirmAuth
      <3>3. CASE \E caller \in Owners \cup Payers : Revoke(caller, o)
        BY <2>2, <2>3, <3>3 DEF Revoke
      <3> QED
        BY <1>3, <3>1, <3>2, <3>3
    <2> QED
      BY <2>1, <2>4 DEF NoneOfIt
  <1>4. ASSUME NEW o \in Owners, NEW signer \in Signers \cup {Zero}, NEW depth \in Depths,
               NEW ttl \in Ttls, CreateVolume(o, signer, depth, ttl)
        PROVE  Creation
    <2>1. signer \in Signers /\ Minted(nextNonce) \in BatchIds
      BY <1>4, PostageAssumption DEF CreateVolume, Inv, BatchIds
    <2> QED
      BY <1>4, <2>1 DEF CreateVolume, Creation
  <1>5. ASSUME NEW o \in Owners, NEW b \in BatchIds, NEW ttl \in Ttls,
               RegisterVolume(o, b, ttl) \/ ImportVolume(o, b, ttl)
        PROVE  Creation
    <2>1. RegisterBatch(o, b, ttl)
      BY <1>5 DEF RegisterVolume, ImportVolume
    <2>2. batches[b].owner \in Signers /\ batches[b].depth \in Depths
      BY <2>1 DEF RegisterBatch, Live, Exists, Inv, PostageTypeOK, Batch, BatchesComplete
    <2> QED
      BY <2>1, <2>2 DEF RegisterBatch, Snapshot, Creation
  <1>6. CASE WorldNext \/ UNCHANGED vars
    BY <1>6 DEF WorldNext, vars, registryVars, NoneOfIt
  <1> QED
    BY <1>1, <1>2, <1>3, <1>4, <1>5, <1>6 DEF Next, KeeperNext, UserNext

(* Swap-and-pop keeps list and records in step.                            *)
LEMMA RetireActiveSet ==
    ASSUME VolumesOK, ActiveSetConsistent, NEW id \in VolumeIds,
           volumes[id].status = "Active", Retire(id)
    PROVE  ActiveSetConsistent'
  <1> DEFINE n      == Len(activeVolumeIds)
             idx    == volumes[id].activeIndex
             lastId == activeVolumeIds[n]
  <1>1. /\ n \in Nat \ {0} /\ idx \in 0 .. n - 1 /\ activeVolumeIds[idx + 1] = id
        /\ \A i \in 1 .. n : activeVolumeIds[i] \in VolumeIds
    BY DEF VolumesOK, Volume, ActiveSetConsistent
  <1>2. /\ \A i \in 1 .. n - 1 :
               activeVolumeIds'[i] = IF i = idx + 1 THEN lastId ELSE activeVolumeIds[i]
        /\ Len(activeVolumeIds') = n - 1
    <2>1. activeVolumeIds' = [i \in 1 .. n - 1 |->
              IF i = idx + 1 THEN activeVolumeIds[n - 1 + 1] ELSE activeVolumeIds[i]]
      BY DEF Retire
    <2>2. n - 1 + 1 = n /\ n - 1 \in Nat
      BY <1>1
    <2>3. activeVolumeIds' \in Seq(VolumeIds)
      BY RetireType DEF VolumesOK
    <2> HIDE DEF n, idx
    <2>4. \A i \in 1 .. n - 1 :
              activeVolumeIds'[i] = IF i = idx + 1 THEN activeVolumeIds[n]
                                                   ELSE activeVolumeIds[i]
      BY <2>1, <2>2
    <2>5. Len(activeVolumeIds') = n - 1
      BY <2>1, <2>2, <2>3
    <2> QED
      BY <2>4, <2>5
  <1>3. \A j \in VolumeIds \ {id} :
            /\ volumes'[j].status = volumes[j].status
            /\ volumes'[j].activeIndex = IF j = lastId THEN idx ELSE volumes[j].activeIndex
    BY RetireRecords
  <1>4. volumes'[id].status = "Retired"
    BY RetireRecords
  <1>5. \A i \in 1 .. n : /\ volumes[activeVolumeIds[i]].status = "Active"
                          /\ volumes[activeVolumeIds[i]].activeIndex = i - 1
    BY DEF ActiveSetConsistent
  <1>6. \A j \in VolumeIds : volumes[j].status = "Active" =>
            /\ volumes[j].activeIndex \in 0 .. n - 1
            /\ activeVolumeIds[volumes[j].activeIndex + 1] = j
    BY DEF ActiveSetConsistent, VolumesOK, Volume
  <1>7. idx = volumes[id].activeIndex
    OBVIOUS
  <1> HIDE DEF n, idx, lastId
  <1>8. ASSUME NEW i \in 1 .. n - 1
        PROVE  /\ volumes'[activeVolumeIds'[i]].status = "Active"
               /\ volumes'[activeVolumeIds'[i]].activeIndex = i - 1
    <2>1. CASE i = idx + 1
      <3>1. /\ lastId \in VolumeIds /\ volumes[lastId].status = "Active"
            /\ volumes[lastId].activeIndex = n - 1
        BY <1>1, <1>5 DEF lastId
      <3>2. lastId # id
        BY <1>1, <1>7, <2>1, <3>1
      <3> QED
        BY <1>1, <1>2, <1>3, <2>1, <3>1, <3>2
    <2>2. CASE i # idx + 1
      <3> DEFINE j == activeVolumeIds[i]
      <3>1. /\ j \in VolumeIds /\ volumes[j].status = "Active"
            /\ volumes[j].activeIndex = i - 1
        BY <1>1, <1>5
      <3>2. j # id
        BY <1>1, <1>7, <2>2, <3>1
      <3>3. j # lastId
        <4>1. volumes[lastId].activeIndex = n - 1
          BY <1>1, <1>5 DEF lastId
        <4> QED
          BY <1>1, <3>1, <4>1
      <3>4. activeVolumeIds'[i] = j
        BY <1>2, <2>2
      <3> QED
        BY <1>3, <3>1, <3>2, <3>3, <3>4
    <2> QED
      BY <2>1, <2>2
  <1>9. ASSUME NEW j \in VolumeIds, volumes'[j].status = "Active"
        PROVE  /\ volumes'[j].activeIndex < n - 1
               /\ activeVolumeIds'[volumes'[j].activeIndex + 1] = j
    <2> DEFINE k == volumes[j].activeIndex
    <2>1. j # id /\ volumes[j].status = "Active"
      BY <1>3, <1>4, <1>9
    <2>2. k \in 0 .. n - 1 /\ activeVolumeIds[k + 1] = j
      BY <1>6, <2>1
    <2>3. CASE j = lastId
      <3>1. idx # n - 1
        BY <1>1, <2>1, <2>3 DEF lastId
      <3>2. volumes'[j].activeIndex = idx /\ idx + 1 \in 1 .. n - 1
        BY <1>1, <1>3, <2>1, <2>3, <3>1
      <3> QED
        BY <1>1, <1>2, <2>3, <3>2
    <2>4. CASE j # lastId
      <3>1. k # n - 1 /\ k # idx
        BY <1>1, <2>1, <2>2, <2>4 DEF lastId
      <3>2. volumes'[j].activeIndex = k /\ k + 1 \in 1 .. n - 1 /\ k + 1 # idx + 1
        BY <1>1, <1>3, <2>1, <2>2, <2>4, <3>1
      <3> QED
        BY <1>1, <1>2, <2>2, <3>2
    <2> QED
      BY <2>3, <2>4
  <1> QED
    BY <1>2, <1>8, <1>9 DEF ActiveSetConsistent

(* A new record goes to the end of the list.                               *)
LEMMA CreationActiveSet ==
    ASSUME Inv, ActiveSetConsistent, Creation
    PROVE  ActiveSetConsistent'
  <1> PICK o \in Owners, b \in BatchIds, signer \in Signers, depth \in Depths,
           ttl \in Ttls : RecordVolume(o, Record(o, b, signer, depth, ttl))
    BY DEF Creation
  <1> DEFINE v  == Record(o, b, signer, depth, ttl)
             id == NextId(o)
             n  == Len(activeVolumeIds)
  <1>1. v.status = "Active" /\ v.activeIndex = n
    BY RecordType DEF Inv
  <1>2. id \in VolumeIds /\ volumes[id].status = "None"
    BY NextIdType DEF RecordVolume, Inv
  <1>3. /\ volumes' = [volumes EXCEPT ![id] = v]
        /\ activeVolumeIds' = Append(activeVolumeIds, id)
    BY DEF RecordVolume
  <1>4. volumes \in [VolumeIds -> Volume] /\ activeVolumeIds \in Seq(VolumeIds) /\ n \in Nat
    BY DEF Inv, VolumesOK
  <1> HIDE DEF v, id
  <1>5. /\ Len(activeVolumeIds') = n + 1
        /\ activeVolumeIds'[n + 1] = id
        /\ \A i \in 1 .. n : /\ activeVolumeIds'[i] = activeVolumeIds[i]
                             /\ activeVolumeIds[i] \in VolumeIds
    BY <1>2, <1>3, <1>4
  <1>6. volumes'[id] = v /\ \A j \in VolumeIds \ {id} : volumes'[j] = volumes[j]
    BY <1>2, <1>3, <1>4
  <1>7. ASSUME NEW i \in 1 .. n + 1
        PROVE  /\ volumes'[activeVolumeIds'[i]].status = "Active"
               /\ volumes'[activeVolumeIds'[i]].activeIndex = i - 1
    <2>1. CASE i = n + 1
      BY <1>1, <1>4, <1>5, <1>6, <2>1
    <2>2. CASE i \in 1 .. n
      <3>1. /\ volumes[activeVolumeIds[i]].status = "Active"
            /\ volumes[activeVolumeIds[i]].activeIndex = i - 1
        BY <2>2 DEF ActiveSetConsistent
      <3>2. activeVolumeIds[i] # id
        BY <1>2, <3>1
      <3> QED
        BY <1>5, <1>6, <2>2, <3>1, <3>2
    <2> QED
      BY <1>4, <2>1, <2>2
  <1>8. ASSUME NEW j \in VolumeIds, volumes'[j].status = "Active"
        PROVE  /\ volumes'[j].activeIndex < n + 1
               /\ activeVolumeIds'[volumes'[j].activeIndex + 1] = j
    <2>1. CASE j = id
      BY <1>1, <1>4, <1>5, <1>6, <2>1
    <2>2. CASE j # id
      <3>1. volumes'[j] = volumes[j] /\ volumes[j].activeIndex \in Nat
        BY <1>4, <1>6, <2>2 DEF Volume
      <3>2. volumes[j].activeIndex < n /\ activeVolumeIds[volumes[j].activeIndex + 1] = j
        BY <1>8, <3>1 DEF ActiveSetConsistent
      <3>3. volumes[j].activeIndex + 1 \in 1 .. n
        BY <1>4, <3>1, <3>2
      <3> QED
        BY <1>4, <1>5, <3>1, <3>2, <3>3
    <2> QED
      BY <2>1, <2>2
  <1> HIDE DEF n
  <1> QED
    BY <1>5, <1>7, <1>8 DEF ActiveSetConsistent

(* The keepers' enumeration: the active list and the records never         *)
(* disagree, for any number of volumes and any sequence of creations and   *)
(* retirements.                                                            *)
THEOREM ActiveSetTheorem == Spec => []ActiveSetConsistent
  <1>1. Init => ActiveSetConsistent
    <2>1. ASSUME NEW id \in VolumeIds, volumes = [j \in VolumeIds |-> NoVolume]
          PROVE  volumes[id].status # "Active"
      BY <2>1 DEF NoVolume
    <2> QED
      BY <2>1 DEF Init, ActiveSetConsistent
  <1>2. Inv /\ ActiveSetConsistent /\ [Next]_vars => ActiveSetConsistent'
    <2> SUFFICES ASSUME Inv, ActiveSetConsistent, [Next]_vars
                 PROVE  ActiveSetConsistent'
      OBVIOUS
    <2>1. CASE Retirement
      BY <2>1, RetireActiveSet DEF Retirement, Inv
    <2>2. CASE Creation
      BY <2>2, CreationActiveSet
    <2>3. CASE NoneOfIt
      BY <2>3 DEF NoneOfIt, ActiveSetConsistent
    <2> QED
      BY <2>1, <2>2, <2>3, VolumeSteps
  <1> QED
    BY <1>1, <1>2, Invariance, PTL DEF Spec

(* The two halves of NextIdsAreFree: volume IDs and minted batch IDs.      *)
UsedIds ==
    \A id \in VolumeIds : volumes[id].status = "None" <=> id[2] >= accounts[id[1]].nonce

UnusedSalts == \A n \in nextNonce .. MaxMint - 1 : ~Exists(Minted(n))

(* A step keeps an owner's nonce in line with the IDs it has used.         *)
LEMMA UsedIdsStep ==
    ASSUME Inv, UsedIds, [Next]_vars
    PROVE  UsedIds'
  <1>1. CASE Retirement
    <2> PICK id \in VolumeIds :
            volumes[id].status = "Active" /\ Retire(id) /\ UNCHANGED accounts
      BY <1>1 DEF Retirement
    <2>1. \A j \in VolumeIds : volumes'[j].status = "None" <=> volumes[j].status = "None"
      BY RetireRecords DEF Inv
    <2> QED
      BY <2>1 DEF UsedIds
  <1>2. CASE Creation
    <2> PICK o \in Owners, b \in BatchIds, signer \in Signers, depth \in Depths,
             ttl \in Ttls : RecordVolume(o, Record(o, b, signer, depth, ttl))
      BY <1>2 DEF Creation
    <2> DEFINE v == Record(o, b, signer, depth, ttl)
    <2>1. v.status = "Active"
      BY DEF Record
    <2> HIDE DEF v
    <2>2. /\ volumes' = [volumes EXCEPT ![NextId(o)] = v]
          /\ accounts' = [accounts EXCEPT ![o].nonce = @ + 1]
          /\ NextId(o) \in VolumeIds
      BY NextIdType DEF RecordVolume, Inv, v
    <2>3. /\ volumes \in [VolumeIds -> Volume]
          /\ accounts \in [Owners -> Account]
      BY DEF Inv, VolumesOK, AccountsOK
    <2>4. /\ accounts[o].nonce \in Nat
          /\ accounts'[o].nonce = accounts[o].nonce + 1
          /\ \A x \in Owners \ {o} : accounts'[x] = accounts[x]
      BY <2>2, <2>3, RegistryAssumption DEF Account
    <2>5. ASSUME NEW id \in VolumeIds
          PROVE  volumes'[id].status = "None" <=> id[2] >= accounts'[id[1]].nonce
      <3>1. id[1] \in Owners /\ id[2] \in Nat /\ id = <<id[1], id[2]>>
        BY RegistryAssumption DEF VolumeIds
      <3>2. CASE id = NextId(o)
        BY <2>1, <2>2, <2>3, <2>4, <3>1, <3>2 DEF NextId
      <3>3. CASE id # NextId(o)
        <4>1. volumes'[id] = volumes[id]
          BY <2>2, <2>3, <3>3
        <4>2. CASE id[1] = o
          <5>1. id[2] # accounts[o].nonce
            BY <3>1, <3>3, <4>2 DEF NextId
          <5> QED
            BY <2>4, <3>1, <4>1, <4>2, <5>1 DEF UsedIds
        <4>3. CASE id[1] # o
          BY <2>4, <3>1, <4>1, <4>3 DEF UsedIds
        <4> QED
          BY <4>2, <4>3
      <3> QED
        BY <3>2, <3>3
    <2> QED
      BY <2>5 DEF UsedIds
  <1>3. CASE NoneOfIt
    <2>1. \A id \in VolumeIds : id[1] \in Owners
      BY DEF VolumeIds
    <2> QED
      BY <1>3, <2>1 DEF NoneOfIt, UsedIds
  <1> QED
    BY <1>1, <1>2, <1>3, VolumeSteps

(* What a step may do to the set of batches that exist: make one that the  *)
(* registry does not mint, or the one under the next salt.                 *)
LEMMA UnusedSaltsStep ==
    ASSUME Inv, UnusedSalts, [Next]_vars
    PROVE  UnusedSalts'
  <1>1. nextNonce \in 0 .. MaxMint /\ batches \in [BatchIds -> Batch] /\ MaxMint \in Nat
    BY PostageAssumption DEF Inv, PostageTypeOK
  <1>2. \A n \in 0 .. MaxMint - 1 : Minted(n) \in BatchIds \ ExternalIds
    BY PostageAssumption DEF Minted, BatchIds
  <1>3. \A b \in BatchIds : Expired[b].owner # Zero => Exists(b)
    BY DEF Expired, Missing, Live, Exists
  <1>4. CASE UNCHANGED <<batches, nextNonce>>
    BY <1>4 DEF UnusedSalts, Exists
  <1>5. ASSUME NEW b \in BatchIds, Exists(b), UNCHANGED nextNonce,
               \A c \in BatchIds \ {b} : batches'[c] = batches[c]
        PROVE  UnusedSalts'
    BY <1>1, <1>2, <1>5 DEF UnusedSalts, Exists
  <1>6. ASSUME NEW v, v.batchId \in BatchIds, PayTopUp(v), UNCHANGED nextNonce
        PROVE  UnusedSalts'
    <2>1. Exists(v.batchId)
      BY <1>6 DEF PayTopUp, TopUpOK, Live
    <2>2. batches' = [batches EXCEPT ![v.batchId].norm = @ + Deficit(v)]
      BY <1>6 DEF PayTopUp, BatchesToppedUp
    <2> QED
      BY <1>1, <1>5, <1>6, <2>1, <2>2
  <1>7. CASE KeeperNext
    <2>1. ASSUME NEW id \in VolumeIds, TriggerTopsUp(id)
          PROVE  UnusedSalts'
      <3>1. volumes[id].batchId \in BatchIds
        BY <2>1, ToppedUpFacts DEF TriggerTopsUp, Inv, VolumesOK, RecordsComplete
      <3> QED
        BY <1>6, <2>1, <3>1 DEF TriggerTopsUp, registryVars
    <2>2. ASSUME NEW id \in VolumeIds, Trigger(id) \/ Reap(id), ~TriggerTopsUp(id)
          PROVE  UNCHANGED <<batches, nextNonce>>
      BY <2>2 DEF Trigger, TriggerRetires, TriggerDoesNothing, Reap, vars, registryVars,
                  postageVars
    <2> QED
      BY <1>4, <1>7, <2>1, <2>2 DEF KeeperNext
  <1>8. CASE UserNext
    <2>1. ASSUME NEW o \in Owners, NEW signer \in Signers \cup {Zero}, NEW depth \in Depths,
                 NEW ttl \in Ttls, CreateVolume(o, signer, depth, ttl)
          PROVE  UnusedSalts'
      <3>1. /\ nextNonce' = nextNonce + 1
            /\ batches' = BatchesWith(Minted(nextNonce), signer, depth, Target)
        BY <2>1 DEF CreateVolume
      <3>2. \A n \in nextNonce' .. MaxMint - 1 :
               Minted(n) # Minted(nextNonce) /\ Minted(n) \in BatchIds /\ ~Exists(Minted(n))
        BY <1>1, <1>2, <3>1 DEF Minted, UnusedSalts
      <3>3. \A n \in nextNonce' .. MaxMint - 1 : batches'[Minted(n)] = Expired[Minted(n)]
        BY <3>1, <3>2 DEF BatchesWith, Expired
      <3> QED
        BY <1>3, <3>2, <3>3 DEF UnusedSalts, Exists
    <2>2. ASSUME NEW o \in Owners, NEW b \in BatchIds, NEW ttl \in Ttls,
                 ImportVolume(o, b, ttl)
          PROVE  UnusedSalts'
      <3> DEFINE v == Snapshot(o, b, ttl)
      <3>1. PayTopUp(v) \/ UNCHANGED postageVars
        BY <2>2 DEF ImportVolume
      <3>2. v.batchId \in BatchIds /\ UNCHANGED nextNonce
        BY <2>2 DEF Snapshot, Record, ImportVolume
      <3> HIDE DEF v
      <3> QED
        BY <1>4, <1>6, <3>1, <3>2 DEF postageVars
    <2>3. ASSUME NEW o \in Owners,
                 \/ \E p \in Payers \cup {Zero} : DesignateFundingWallet(o, p)
                 \/ \E p \in Payers : ConfirmAuth(p, o)
                 \/ \E caller \in Owners \cup Payers : Revoke(caller, o)
                 \/ \E b \in BatchIds, ttl \in Ttls : RegisterVolume(o, b, ttl)
                 \/ \E id \in VolumeIds : DeleteVolume(o, id)
          PROVE  UNCHANGED <<batches, nextNonce>>
      BY <2>3 DEF DesignateFundingWallet, ConfirmAuth, Revoke, RegisterVolume, DeleteVolume,
                  postageVars
    <2> QED
      BY <1>4, <1>8, <2>1, <2>2, <2>3 DEF UserNext
  <1>9. CASE PostageNext /\ UNCHANGED nextNonce
    <2>1. ASSUME NEW b \in ExternalIds, NEW owner, NEW depth, NEW perChunk,
                 batches' = BatchesWith(b, owner, depth, perChunk)
          PROVE  UnusedSalts'
      <3>1. \A n \in 0 .. MaxMint - 1 : batches'[Minted(n)] = Expired[Minted(n)]
        BY <1>2, <2>1 DEF BatchesWith, Expired
      <3> QED
        BY <1>1, <1>2, <1>3, <1>9, <3>1 DEF UnusedSalts, Exists
    <2>2. CASE ExpireBatches
      BY <1>1, <1>2, <1>3, <1>9, <2>2 DEF ExpireBatches, UnusedSalts, Exists
    <2>3. ASSUME NEW b \in BatchIds,
                 \/ \E perChunk \in ExternalFunds : TopUpExternally(b, perChunk)
                 \/ \E depth \in Depths : IncreaseDepth(b, depth)
          PROVE  UnusedSalts'
      <3>1. Exists(b)
        BY <2>3 DEF TopUpExternally, TopUpOK, IncreaseDepth, Live
      <3>2. \A c \in BatchIds \ {b} : batches'[c] = batches[c]
        BY <1>1, <2>3 DEF TopUpExternally, BatchesToppedUp, IncreaseDepth
      <3> QED
        BY <1>5, <1>9, <3>1, <3>2
    <2>4. CASE \/ \E price \in Prices : SetPrice(price)
               \/ \E b \in Pauses : SetPaused(b)
               \/ \E blocks \in Validities : SetMinimumValidity(blocks)
      BY <1>4, <1>9, <2>4 DEF SetPrice, SetPaused, SetMinimumValidity
    <2> QED
      BY <1>9, <2>1, <2>2, <2>3, <2>4 DEF PostageNext, CreateExternally, CopyBatch
  <1>10. CASE WorldNext \/ UNCHANGED vars
    BY <1>4, <1>9, <1>10 DEF WorldNext, Tick, vars, registryVars, postageVars
  <1> QED
    BY <1>7, <1>8, <1>10 DEF Next

(* I11 and I14: no creating call is ever blocked by an ID already used, of *)
(* a volume or of a batch, whatever happened before it.                    *)
THEOREM NextIdsTheorem == Spec => []NextIdsAreFree
  <1>1. Init => UsedIds /\ UnusedSalts
    <2> SUFFICES ASSUME Init PROVE UsedIds /\ UnusedSalts
      OBVIOUS
    <2>1. \A id \in VolumeIds : id[1] \in Owners /\ id[2] >= 0
      BY RegistryAssumption DEF VolumeIds
    <2>2. UsedIds
      BY <2>1 DEF Init, UsedIds, NoVolume, NoAccount
    <2>3. \A n \in 0 .. MaxMint - 1 : Minted(n) \in BatchIds
      BY DEF BatchIds
    <2>4. UnusedSalts
      BY <2>3 DEF Init, PostageInit, UnusedSalts, Exists, Missing
    <2> QED
      BY <2>2, <2>4
  <1>2. UsedIds /\ UnusedSalts => NextIdsAreFree
    BY DEF UsedIds, UnusedSalts, NextIdsAreFree
  <1> QED
    BY <1>1, <1>2, UsedIdsStep, UnusedSaltsStep, Invariance, PTL DEF Spec
=============================================================================
