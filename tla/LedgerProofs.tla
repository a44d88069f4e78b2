---------------------------- MODULE LedgerProofs ----------------------------
(***************************************************************************)
(* What no step of anyone may do to a volume, a batch or a payer, and that *)
(* VolumeRegistry implements VolumeLedger.                                 *)
(***************************************************************************)
EXTENDS PaymentProofs

-----------------------------------------------------------------------------
(* Nothing that exists is rewritten.                                       *)

(* Swap-and-pop moves an Active record or none: no Retired one changes.    *)
LEMMA RetireKeepsRetired ==
    ASSUME VolumesOK, ActiveSetConsistent, NEW id \in VolumeIds,
           volumes[id].status = "Active", Retire(id),
           NEW j \in VolumeIds, volumes[j].status = "Retired"
    PROVE  volumes'[j] = volumes[j]
  <1> DEFINE n      == Len(activeVolumeIds)
             lastId == activeVolumeIds[n]
  <1>1. /\ n \in Nat \ {0} /\ n - 1 + 1 = n
        /\ volumes \in [VolumeIds -> Volume]
    <2>1. volumes \in [VolumeIds -> Volume] /\ activeVolumeIds \in Seq(VolumeIds)
      BY DEF VolumesOK
    <2>2. /\ n \in Nat
          /\ volumes[id].activeIndex \in Nat /\ volumes[id].activeIndex < n
      BY <2>1 DEF Volume, ActiveSetConsistent
    <2> QED
      BY <2>1, <2>2
  <1>2. volumes[lastId].status = "Active"
    BY <1>1 DEF ActiveSetConsistent
  <1>3. j # id /\ j # lastId
    BY <1>2
  <1>4. volumes' = [volumes EXCEPT ![activeVolumeIds[n - 1 + 1]].activeIndex =
                                      volumes[id].activeIndex,
                                   ![id].status = "Retired",
                                   ![id].activeIndex = 0]
    BY DEF Retire
  <1> HIDE DEF n
  <1> QED
    BY <1>1, <1>3, <1>4

(* What a step may do to the records.                                      *)
RecordsKept ==
    /\ \A id \in VolumeIds : volumes[id].status # "None" =>
          /\ Identity(volumes'[id]) = Identity(volumes[id])
          /\ volumes[id].status = "Retired" => volumes'[id] = volumes[id]
    /\ \A id, j \in VolumeIds :
          /\ volumes[id].status # volumes'[id].status
          /\ volumes[j].status # volumes'[j].status
          => id = j

(* I7, I12: a step rewrites no record, revives no volume and changes the   *)
(* status of one at most.                                                  *)
LEMMA RecordsStep ==
    ASSUME Inv, ActiveSetConsistent, [Next]_vars
    PROVE  RecordsKept
  <1>1. CASE Retirement
    <2> PICK id \in VolumeIds : volumes[id].status = "Active" /\ Retire(id)
      BY <1>1 DEF Retirement
    <2>1. \A j \in VolumeIds :
              /\ Identity(volumes'[j]) = Identity(volumes[j])
              /\ j # id => volumes'[j].status = volumes[j].status
      BY RetireRecords DEF Inv
    <2>2. \A j \in VolumeIds :
              volumes[j].status = "Retired" => volumes'[j] = volumes[j]
      BY RetireKeepsRetired DEF Inv
    <2> QED
      BY <2>1, <2>2 DEF RecordsKept
  <1>2. CASE Creation
    <2> PICK o \in Owners, b \in BatchIds, signer \in Signers, depth \in Depths,
             ttl \in Ttls : RecordVolume(o, Record(o, b, signer, depth, ttl))
      BY <1>2 DEF Creation
    <2>1. /\ NextId(o) \in VolumeIds /\ volumes[NextId(o)].status = "None"
          /\ \A j \in VolumeIds \ {NextId(o)} : volumes'[j] = volumes[j]
      BY NextIdType DEF RecordVolume, Inv, VolumesOK
    <2> QED
      BY <2>1 DEF RecordsKept
  <1>3. CASE NoneOfIt
    BY <1>3 DEF NoneOfIt, RecordsKept
  <1> QED
    BY <1>1, <1>2, <1>3, VolumeSteps

(* What a call of the registry may do to a live batch.                     *)
LiveBatchesKept ==
    \A b \in BatchIds : Live(b) =>
        /\ batches'[b].owner = batches[b].owner
        /\ batches'[b].depth = batches[b].depth
        /\ batches'[b].norm >= batches[b].norm

(* I10: no call of the registry takes anything from a live batch, its own  *)
(* or another's; createVolume deletes dead ones only.                      *)
LEMMA BatchesStep ==
    ASSUME Inv, KeeperNext \/ UserNext
    PROVE  LiveBatchesKept
  <1>1. /\ batches \in [BatchIds -> Batch]
        /\ \A b \in BatchIds : batches[b].norm \in Nat
    BY DEF Inv, PostageTypeOK, Batch
  <1>2. CASE Topup
    <2> PICK v \in Volume : ToppingUp(v)
      BY <1>2 DEF Topup
    <2>1. /\ v.batchId \in BatchIds /\ Deficit(v) \in Nat
          /\ batches' = [batches EXCEPT ![v.batchId].norm = @ + Deficit(v)]
      BY TopupEffect DEF ToppingUp
    <2>2. ASSUME NEW b \in BatchIds
          PROVE  /\ batches'[b].owner = batches[b].owner
                 /\ batches'[b].depth = batches[b].depth
                 /\ batches'[b].norm >= batches[b].norm
      <3>1. /\ batches'[b].owner = batches[b].owner
            /\ batches'[b].depth = batches[b].depth
            /\ batches'[b].norm = IF b = v.batchId THEN batches[b].norm + Deficit(v)
                                                   ELSE batches[b].norm
        BY <1>1, <2>1 DEF Batch
      <3> QED
        BY <1>1, <2>1, <3>1
    <2> QED
      BY <2>2 DEF LiveBatchesKept
  <1>3. CASE Purchase
    <2> PICK o \in Owners, signer \in Signers, depth \in Depths, ttl \in Ttls :
            CreateVolume(o, signer, depth, ttl)
      BY <1>3 DEF Purchase
    <2>1. /\ ~Exists(Minted(nextNonce))
          /\ batches' = BatchesWith(Minted(nextNonce), signer, depth, Target)
      BY PurchaseEffect
    <2>2. \A b \in BatchIds : Live(b) => batches'[b] = batches[b]
      BY <2>1 DEF BatchesWith, Expired, Live
    <2> QED
      BY <1>1, <2>2 DEF LiveBatchesKept
  <1>4. CASE UNCHANGED <<bzzVars, postageVars>>
    BY <1>1, <1>4 DEF postageVars, LiveBatchesKept
  <1> QED
    BY <1>2, <1>3, <1>4, CallSteps

(* I7, I10, I12 for any number of volumes and batches: retirement is final *)
(* and one at a time, records are written once, and no call to the         *)
(* registry harms a live batch.                                            *)
THEOREM NonInterferenceTheorem == Spec => NonInterference
  <1>1. Inv /\ ActiveSetConsistent /\ [Next]_vars =>
            RecordsKept /\ (KeeperNext \/ UserNext => LiveBatchesKept)
    BY RecordsStep, BatchesStep
  <1> QED
    BY <1>1, Invariance, ActiveSetTheorem, PTL
    DEF Spec, NonInterference, RecordsKept, LiveBatchesKept

-----------------------------------------------------------------------------
(* The refinement of VolumeLedger.                                         *)

(* A record names the owner under whose nonce its ID was made.             *)
OwnersMatch ==
    \A id \in VolumeIds : volumes[id].status # "None" => volumes[id].owner = id[1]

(* A volume's owner is the one in its ID.                                  *)
LEMMA OwnersMatchInvariance == Spec => []OwnersMatch
  <1>1. Init => OwnersMatch
    BY DEF Init, NoVolume, OwnersMatch
  <1>2. Inv /\ OwnersMatch /\ [Next]_vars => OwnersMatch'
    <2> SUFFICES ASSUME Inv, OwnersMatch, [Next]_vars
                 PROVE  OwnersMatch'
      OBVIOUS
    <2>1. CASE Retirement
      <3> PICK id \in VolumeIds : volumes[id].status = "Active" /\ Retire(id)
        BY <2>1 DEF Retirement
      <3>1. \A j \in VolumeIds :
                /\ Identity(volumes'[j]) = Identity(volumes[j])
                /\ volumes[j].status = "None" => volumes'[j].status = "None"
        BY RetireRecords DEF Inv
      <3>2. \A j \in VolumeIds : volumes'[j].owner = volumes[j].owner
        BY <3>1 DEF Identity
      <3> QED
        BY <3>1, <3>2 DEF OwnersMatch
    <2>2. CASE Creation
      <3> PICK o \in Owners, b \in BatchIds, signer \in Signers, depth \in Depths,
               ttl \in Ttls : RecordVolume(o, Record(o, b, signer, depth, ttl))
        BY <2>2 DEF Creation
      <3> DEFINE v == Record(o, b, signer, depth, ttl)
      <3>1. v.owner = o /\ RecordVolume(o, v)
        BY DEF Record
      <3> HIDE DEF v
      <3>2. NextId(o)[1] = o
        BY DEF NextId
      <3>3. volumes \in [VolumeIds -> Volume]
            /\ volumes' = [volumes EXCEPT ![NextId(o)] = v]
        BY <3>1 DEF RecordVolume, Inv, VolumesOK
      <3>4. ASSUME NEW j \in VolumeIds, volumes'[j].status # "None"
            PROVE  volumes'[j].owner = j[1]
        <4>1. CASE j = NextId(o)
          BY <3>1, <3>2, <3>3, <4>1
        <4>2. CASE j # NextId(o)
          <5>1. volumes'[j] = volumes[j]
            BY <3>3, <4>2
          <5> QED
            BY <3>4, <5>1 DEF OwnersMatch
        <4> QED
          BY <4>1, <4>2
      <3> QED
        BY <3>4 DEF OwnersMatch
    <2>3. CASE NoneOfIt
      BY <2>3 DEF NoneOfIt, OwnersMatch
    <2> QED
      BY <2>1, <2>2, <2>3, VolumeSteps
  <1> QED
    BY <1>1, <1>2, Invariance, PTL DEF Spec

(* The ledger's variables, as the refinement mapping has them.             *)
Mandates == [o \in Owners |-> Mandate(o)]
Used     == [o \in Owners |-> accounts[o].nonce]
Opened   == {id \in VolumeIds : volumes[id].status = "Active"}
Balances == [p \in Payers |-> balance[p]]

(* A step that touches no account, no status and no payer's balance is a   *)
(* stutter of the ledger.                                                  *)
LEMMA LedgerStutter ==
    ASSUME UNCHANGED <<volumes, designated, accounts, balance>>
    PROVE  UNCHANGED Ledger!vars
  BY DEF Ledger!vars, Mandate

(* Only payers in S pay, and nobody receives.                              *)
OnlyCharged(S) ==
    \A p \in Payers : balance'[p] # balance[p] => p \in S /\ balance'[p] < balance[p]

(* A topup charges the payer its volume's owner confirmed, and no other.   *)
LEMMA TopupCharges ==
    ASSUME Inv, NEW v, ToppingUp(v), NEW S, Mandates[v.owner] \in S
    PROVE  OnlyCharged(S)
  <1>1. /\ v.owner \in Owners /\ accounts[v.owner].active
        /\ Payer(v) \in Payers
        /\ balance'[Payer(v)] = balance[Payer(v)] - Amount(v) /\ Amount(v) \in Nat
        /\ \A p \in Payers \ {Payer(v)} : balance'[p] = balance[p]
    BY TopupEffect DEF ToppingUp
  <1>2. Payer(v) \in S
    BY <1>1 DEF Mandates, Mandate, Payer
  <1>3. balance[Payer(v)] \in Nat
    BY <1>1 DEF Inv, BzzTypeOK, Holders
  <1>4. balance'[Payer(v)] # balance[Payer(v)] => balance'[Payer(v)] < balance[Payer(v)]
    BY <1>1, <1>3
  <1> QED
    BY <1>1, <1>2, <1>4 DEF OnlyCharged
(* Retiring a volume maintains the ledger: it closes one and charges none. *)
LEMMA RetireMaintains ==
    ASSUME Inv, NEW id \in VolumeIds, volumes[id].status = "Active", Retire(id),
           UNCHANGED <<designated, accounts, balance>>
    PROVE  Ledger!Next
  <1>1. \A j \in VolumeIds : volumes'[j].status = "Active" => volumes[j].status = "Active"
    BY RetireRecords DEF Inv
  <1>2. PICK kept : kept = Opened'
    OBVIOUS
  <1>3. kept \in SUBSET Opened
    BY <1>1, <1>2 DEF Opened
  <1>4. Ledger!Maintain(kept)
    BY <1>2, <1>3 DEF Ledger!Maintain, Ledger!OnlyChargeable, Opened, Mandate
  <1> QED
    BY <1>3, <1>4 DEF Ledger!Next, Opened

(* So does topping up the batch of an Active volume: the payer charged is  *)
(* the one its owner has a mandate with.                                   *)
LEMMA TopupMaintains ==
    ASSUME Inv, OwnersMatch, NEW id \in VolumeIds, TriggerTopsUp(id)
    PROVE  Ledger!Next
  <1>1. /\ ToppingUp(volumes[id]) /\ UNCHANGED <<volumes, designated, accounts>>
        /\ TriggerOutcome(volumes[id]) = "ToppedUp"
    BY TriggerSteps, ToppedUpFacts
    DEF TriggerTopsUp, ToppingUp, Inv, VolumesOK, RecordsComplete, registryVars
  <1>2. id \in Opened /\ volumes[id].owner = id[1] /\ id[1] \in Owners
    <2>1. volumes[id].status \in {"None", "Active", "Retired"}
      BY DEF Inv, VolumesOK, Volume
    <2> QED
      BY <1>1, <2>1, ToppedUpFacts DEF Opened, OwnersMatch, VolumeIds
  <1>3. PICK S : S = {Mandates[j[1]] : j \in Opened}
    OBVIOUS
  <1>4. OnlyCharged(S)
    <2>1. Mandates[volumes[id].owner] \in S
      BY <1>2, <1>3
    <2> QED
      BY <1>1, <2>1, TopupCharges
  <1>5. PICK kept : kept = Opened
    OBVIOUS
  <1>6. Ledger!Maintain(kept)
    BY <1>1, <1>3, <1>4, <1>5
    DEF Ledger!Maintain, Ledger!OnlyChargeable, OnlyCharged, Opened, Mandates, Mandate
  <1> QED
    BY <1>5, <1>6 DEF Ledger!Next, Opened

(* Recording a volume opens it under the owner's own count, provided the   *)
(* step charges nobody but the owner's payer.                              *)
LEMMA RecordOpens ==
    ASSUME Inv, NEW o \in Owners, NEW v, v.status = "Active", RecordVolume(o, v),
           accounts[o].active, UNCHANGED designated,
           OnlyCharged({Mandates[o]})
    PROVE  Ledger!Next
  <1>1. /\ volumes \in [VolumeIds -> Volume] /\ accounts \in [Owners -> Account]
        /\ accounts[o].payer # Zero /\ NextId(o) \in VolumeIds
        /\ accounts[o].nonce < MaxNonce
    BY NextIdType DEF Inv, VolumesOK, AccountsOK, RecordVolume
  <1>2. Opened' = Opened \cup {<<o, Used[o]>>}
    BY <1>1 DEF Opened, Used, NextId, RecordVolume
  <1>3. Used' = [Used EXCEPT ![o] = @ + 1]
    BY <1>1 DEF Used, RecordVolume, Account
  <1>4. Mandates' = Mandates
    <2>1. \A x \in Owners : accounts'[x].payer = accounts[x].payer
                           /\ accounts'[x].active = accounts[x].active
      BY <1>1 DEF RecordVolume, Account
    <2> QED
      BY <2>1 DEF Mandates, Mandate
  <1>5. Mandates[o] # Zero /\ Used[o] < MaxNonce
    BY <1>1 DEF Mandates, Mandate, Used
  <1>6. Ledger!Open(o)
    BY <1>2, <1>3, <1>4, <1>5
    DEF Ledger!Open, Ledger!OnlyChargeable, OnlyCharged, Opened, Used, Mandates
  <1> QED
    BY <1>6 DEF Ledger!Next

(* createVolume opens a volume at the cost of the owner's payer.           *)
LEMMA CreateOpens ==
    ASSUME Inv, NEW o \in Owners, NEW signer \in Signers \cup {Zero}, NEW depth \in Depths,
           NEW ttl \in Ttls, CreateVolume(o, signer, depth, ttl)
    PROVE  Ledger!Next
  <1> DEFINE v      == Record(o, Minted(nextNonce), signer, depth, ttl)
             p      == accounts[o].payer
             amount == Target * Chunks[depth]
  <1>1. /\ signer \in Signers /\ accounts[o].active /\ UNCHANGED designated
        /\ RecordVolume(o, v) /\ v.status = "Active"
    BY DEF CreateVolume, Record
  <1>2. /\ p \in Payers /\ balance'[p] = balance[p] - amount /\ amount \in Nat
        /\ \A q \in Payers \ {p} : balance'[q] = balance[q]
    BY <1>1, PurchaseEffect
  <1>3. balance[p] \in Nat
    BY <1>2 DEF Inv, BzzTypeOK, Holders
  <1>4. Mandates[o] = p
    BY <1>1 DEF Mandates, Mandate
  <1> HIDE DEF v, p, amount
  <1>5. OnlyCharged({Mandates[o]})
    BY <1>2, <1>3, <1>4 DEF OnlyCharged
  <1> QED
    BY <1>1, <1>5, RecordOpens

(* So do registerVolume and importVolume, for nothing or for a topup.      *)
LEMMA RegisterOpens ==
    ASSUME Inv, NEW o \in Owners, NEW b \in BatchIds, NEW ttl \in Ttls,
           RegisterVolume(o, b, ttl) \/ ImportVolume(o, b, ttl)
    PROVE  Ledger!Next
  <1> DEFINE v == Snapshot(o, b, ttl)
  <1>1. /\ accounts[o].active /\ RecordVolume(o, v) /\ UNCHANGED designated
        /\ v.status = "Active" /\ v.owner = o
    BY DEF RegisterVolume, ImportVolume, RegisterBatch, Snapshot, Record
  <1>2. UNCHANGED balance \/ ToppingUp(v)
    BY ImportSteps DEF RegisterVolume, bzzVars
  <1> HIDE DEF v
  <1>3. CASE UNCHANGED balance
    BY <1>1, <1>3, RecordOpens DEF OnlyCharged
  <1>4. CASE ToppingUp(v)
    <2>1. PICK S : S = {Mandates[o]}
      OBVIOUS
    <2>2. OnlyCharged(S)
      BY <1>1, <1>4, <2>1, TopupCharges
    <2> QED
      BY <1>1, <2>1, <2>2, RecordOpens DEF OnlyCharged
  <1> QED
    BY <1>2, <1>3, <1>4

(* Every change of an account is an offer, an agreement or a withdrawal.   *)
LEMMA AccountSteps ==
    ASSUME Inv, NEW o \in Owners,
           \/ \E p \in Payers \cup {Zero} : DesignateFundingWallet(o, p)
           \/ \E p \in Payers : ConfirmAuth(p, o)
           \/ \E caller \in Owners \cup Payers : Revoke(caller, o)
    PROVE  Ledger!Next
  <1>1. /\ accounts \in [Owners -> Account] /\ Zero \notin Payers
        /\ UNCHANGED <<volumes, balance>>
    BY PostageAssumption
    DEF Inv, AccountsOK, DesignateFundingWallet, ConfirmAuth, Revoke, bzzVars
  <1>2. ASSUME NEW p \in Payers \cup {Zero}, DesignateFundingWallet(o, p)
        PROVE  Ledger!Offer(o, p)
    BY <1>1, <1>2 DEF DesignateFundingWallet, Ledger!Offer, Mandate
  <1>3. ASSUME NEW a \in Account, NEW p
        PROVE  /\ [a EXCEPT !.payer = p, !.active = TRUE].payer = p
               /\ [a EXCEPT !.payer = p, !.active = TRUE].active = TRUE
               /\ [a EXCEPT !.payer = p, !.active = TRUE].nonce = a.nonce
               /\ [a EXCEPT !.active = FALSE].active = FALSE
               /\ [a EXCEPT !.active = FALSE].nonce = a.nonce
    BY DEF Account
  <1>4. ASSUME NEW p \in Payers, ConfirmAuth(p, o)
        PROVE  Ledger!Agree(o, p)
    <2>1. /\ accounts' = [accounts EXCEPT ![o] =
                             [accounts[o] EXCEPT !.payer = p, !.active = TRUE]]
          /\ designated[o] = p /\ UNCHANGED designated
      BY <1>1, <1>4 DEF ConfirmAuth
    <2>2. /\ accounts'[o].payer = p /\ accounts'[o].active = TRUE
          /\ accounts'[o].nonce = accounts[o].nonce
          /\ \A x \in Owners \ {o} : accounts'[x] = accounts[x]
      BY <1>1, <1>3, <2>1
    <2>3. Mandates' = [Mandates EXCEPT ![o] = p] /\ Used' = Used
      BY <2>2 DEF Mandates, Mandate, Used
    <2> QED
      BY <1>1, <2>1, <2>3 DEF Ledger!Agree, Mandates, Used
  <1>5. ASSUME NEW caller \in Owners \cup Payers, Revoke(caller, o)
        PROVE  Ledger!Withdraw(o)
    <2>1. /\ accounts' = [accounts EXCEPT ![o] = [accounts[o] EXCEPT !.active = FALSE]]
          /\ UNCHANGED designated
      BY <1>1, <1>5 DEF Revoke
    <2>2. /\ accounts'[o].active = FALSE
          /\ accounts'[o].nonce = accounts[o].nonce
          /\ \A x \in Owners \ {o} : accounts'[x] = accounts[x]
      BY <1>1, <1>3, <2>1
    <2>3. Mandates' = [Mandates EXCEPT ![o] = Zero] /\ Used' = Used
      BY <2>2 DEF Mandates, Mandate, Used
    <2> QED
      BY <1>1, <2>1, <2>3 DEF Ledger!Withdraw, Mandates, Used
  <1> QED
    BY <1>2, <1>4, <1>5 DEF Ledger!Next

(* What happens outside the registry is a stutter, or a payer receiving.   *)
LEMMA WorldSteps ==
    ASSUME Inv, WorldNext
    PROVE  Ledger!Next \/ UNCHANGED Ledger!vars
  <1>1. CASE UNCHANGED balance
    <2>1. UNCHANGED <<volumes, designated, accounts>>
      BY DEF WorldNext, registryVars
    <2> QED
      BY <1>1, <2>1, LedgerStutter
  <1>2. ASSUME NEW p \in Payers, NEW amount \in Deposits, Deposit(p, amount),
               UNCHANGED registryVars
        PROVE  Ledger!Receive(p)
    <2>1. /\ balance \in [Holders -> Nat] /\ Payers \subseteq Holders /\ amount \in Nat
      BY TokenAssumption DEF Inv, BzzTypeOK, Holders
    <2>2. /\ balance'[p] = balance[p] + amount /\ amount > 0 /\ balance[p] \in Nat
          /\ \A q \in Payers \ {p} : balance'[q] = balance[q]
      BY <1>2, <2>1 DEF Deposit
    <2>3. balance'[p] > balance[p]
      BY <2>1, <2>2
    <2> QED
      BY <1>2, <2>2, <2>3 DEF Ledger!Receive, registryVars, Mandate
  <1>3. CASE BzzNext /\ UNCHANGED registryVars
    BY <1>1, <1>2, <1>3 DEF BzzNext, Approve, Permit, SetBzzPaused, Ledger!Next
  <1>4. CASE UNCHANGED bzzVars
    BY <1>1, <1>4 DEF bzzVars
  <1> QED
    BY <1>3, <1>4 DEF WorldNext

(* The constructor's state is an empty ledger.                             *)
LEMMA LedgerInit == Init => Ledger!Init
  <1> SUFFICES ASSUME Init PROVE Ledger!Init
    OBVIOUS
  <1>1. balance \in [Holders -> Nat]
    BY InitInv DEF Inv, BzzTypeOK
  <1>2. Balances \in [Payers -> Nat]
    BY <1>1 DEF Balances, Holders
  <1>3. Mandates = [o \in Owners |-> Zero] /\ Used = [o \in Owners |-> 0] /\ Opened = {}
    BY DEF Init, Mandates, Mandate, Used, Opened, NoAccount, NoVolume
  <1> QED
    BY <1>2, <1>3 DEF Init, Ledger!Init, Balances, Mandates, Used, Opened

(* Every step of the registry and of its world is a step of the ledger or  *)
(* a stutter.                                                              *)
LEMMA LedgerStep ==
    ASSUME Inv, OwnersMatch, [Next]_vars
    PROVE  [Ledger!Next]_(Ledger!vars)
  <1>1. ASSUME NEW id \in VolumeIds, volumes[id].status = "Active", Retire(id),
               UNCHANGED <<now, bzzVars, postageVars, designated, accounts, nextNonce>>
        PROVE  Ledger!Next
    BY <1>1, RetireMaintains DEF bzzVars
  <1>2. CASE KeeperNext
    <2>1. ASSUME NEW id \in VolumeIds, TriggerRetires(id)
          PROVE  Ledger!Next
      <3>1. volumes[id].status = "Active"
        BY <2>1, RetiringFacts DEF TriggerRetires, Inv, VolumesOK, Volume
      <3> QED
        BY <1>1, <2>1, <3>1 DEF TriggerRetires
    <2>2. ASSUME NEW id \in VolumeIds, TriggerDoesNothing(id)
          PROVE  UNCHANGED Ledger!vars
      BY <2>2, LedgerStutter DEF TriggerDoesNothing, vars, registryVars, bzzVars
    <2>3. ASSUME NEW id \in VolumeIds, Reap(id)
          PROVE  Ledger!Next
      BY <1>1, <2>3 DEF Reap
    <2> QED
      BY <1>2, <2>1, <2>2, <2>3, TopupMaintains DEF KeeperNext, Trigger
  <1>3. CASE UserNext
    <2>1. ASSUME NEW o \in Owners, NEW id \in VolumeIds, DeleteVolume(o, id)
          PROVE  Ledger!Next
      BY <1>1, <2>1 DEF DeleteVolume
    <2> QED
      BY <1>3, <2>1, AccountSteps, CreateOpens, RegisterOpens DEF UserNext
  <1>4. CASE WorldNext
    BY <1>4, WorldSteps
  <1>5. CASE UNCHANGED vars
    BY <1>5, LedgerStutter DEF vars, registryVars, bzzVars
  <1> QED
    BY <1>2, <1>3, <1>4, <1>5 DEF Next

(* I3, I4, I7, I9, I11 for every instance: the contract, with its arrays,  *)
(* batches and prices, does nothing that the ledger of offers, mandates,   *)
(* opened volumes and funds does not allow.                                *)
THEOREM RefinementTheorem == Spec => ImplementsLedger
  BY LedgerInit, LedgerStep, Invariance, OwnersMatchInvariance, PTL
  DEF Spec, ImplementsLedger, Ledger!Spec
=============================================================================
