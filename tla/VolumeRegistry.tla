--------------------------- MODULE VolumeRegistry ---------------------------
(***************************************************************************)
(* The VolumeRegistry contract: accounts, volumes, the active set and the  *)
(* paymaster.  Every external function is one action, because a            *)
(* transaction is atomic.  A call that reverts changes nothing, so the     *)
(* conditions under which a function does not revert are its guard.        *)
(*                                                                         *)
(* Events are not part of the state (the contract never reads them), nor   *)
(* is createdAt, which only the views return.                              *)
(***************************************************************************)
EXTENDS PostageStamp, Sequences

CONSTANTS
    Owners,            \* addresses that may own volumes
    GraceBlocks,       \* graceBlocks: the runway, in blocks, a topup restores
    BzzPermitExpiry,   \* bzzPermitExpiry: the token has `expirations`
    Ttls,              \* expiry times an owner may ask for, 0 = none
    MaxNonce           \* bound: creating calls per owner

VolumeIds == Owners \X (0 .. MaxNonce - 1)  \* keccak256(abi.encode(owner, nonce))

(* The constructor refuses bzzPermitExpiry on a token without expirations; *)
(* the deployment profiles set it on every token that has them.            *)
ASSUME RegistryAssumption ==
    /\ Zero \notin Owners
    /\ GraceBlocks \in Nat
    /\ BzzPermitExpiry = HasPermit
    /\ Ttls \subseteq Nat
    /\ MaxNonce \in Nat

VARIABLES
    volumes,           \* _volumes
    activeVolumeIds,   \* _activeVolumeIds, counted from 1
    designated,        \* owner -> chosen payer, before it confirms
    accounts,          \* _accounts
    nextNonce          \* salts createBatch

registryVars == <<volumes, activeVolumeIds, designated, accounts, nextNonce>>
vars == <<now, bzzVars, postageVars, registryVars>>

Volume == [owner : Owners \cup {Zero}, chunkSigner : Signers \cup {Zero},
           batchId : BatchIds \cup {Zero}, ttlExpiry : Nat,
           depth : Depths \cup {0}, status : {"None", "Active", "Retired"},
           activeIndex : Nat]

Account == [payer : Payers \cup {Zero}, active : BOOLEAN, nonce : 0 .. MaxNonce]

(* What a mapping holds at a key nobody wrote.                             *)
NoVolume == [owner |-> Zero, chunkSigner |-> Zero, batchId |-> Zero,
             ttlExpiry |-> 0, depth |-> 0, status |-> "None", activeIndex |-> 0]
NoAccount == [payer |-> Zero, active |-> FALSE, nonce |-> 0]

(* The constructor: it refuses a grace period below Postage's floor.       *)
Init ==
    /\ now = 0
    /\ BzzInit
    /\ PostageInit
    /\ minValidity <= GraceBlocks
    /\ volumes = [id \in VolumeIds |-> NoVolume]
    /\ activeVolumeIds = << >>
    /\ designated = [o \in Owners |-> Zero]
    /\ accounts = [o \in Owners |-> NoAccount]
    /\ nextNonce = 0

-----------------------------------------------------------------------------
(* Accounts.                                                               *)

DesignateFundingWallet(o, p) ==
    /\ designated' = [designated EXCEPT ![o] = p]
    /\ UNCHANGED <<now, bzzVars, postageVars>>
    /\ UNCHANGED <<volumes, activeVolumeIds, accounts, nextNonce>>

(* Mutants of ConfirmAuth: the account written as a fresh struct, and the  *)
(* owner's designation not asked for.                                      *)
ConfirmAuthFresh(p, o) ==
    /\ designated[o] = p
    /\ accounts' = [accounts EXCEPT ![o] = [payer |-> p, active |-> TRUE, nonce |-> 0]]
    /\ UNCHANGED <<now, bzzVars, postageVars>>
    /\ UNCHANGED <<volumes, activeVolumeIds, designated, nextNonce>>

ConfirmAuthUnasked(p, o) ==
    /\ accounts' = [accounts EXCEPT ![o].payer = p, ![o].active = TRUE]
    /\ UNCHANGED <<now, bzzVars, postageVars>>
    /\ UNCHANGED <<volumes, activeVolumeIds, designated, nextNonce>>

(* Called by p.  The owner's nonce is kept.                                *)
ConfirmAuth(p, o) ==
    /\ designated[o] = p
    /\ accounts' = [accounts EXCEPT ![o].payer = p, ![o].active = TRUE]
    /\ UNCHANGED <<now, bzzVars, postageVars>>
    /\ UNCHANGED <<volumes, activeVolumeIds, designated, nextNonce>>

(* Mutant of Revoke: the wrong field is cleared.                           *)
RevokeClearsPayer(caller, o) ==
    /\ caller \in {o, accounts[o].payer}
    /\ accounts' = [accounts EXCEPT ![o].payer = Zero]
    /\ UNCHANGED <<now, bzzVars, postageVars>>
    /\ UNCHANGED <<volumes, activeVolumeIds, designated, nextNonce>>

Revoke(caller, o) ==
    /\ caller \in {o, accounts[o].payer}
    /\ accounts' = [accounts EXCEPT ![o].active = FALSE]
    /\ UNCHANGED <<now, bzzVars, postageVars>>
    /\ UNCHANGED <<volumes, activeVolumeIds, designated, nextNonce>>

-----------------------------------------------------------------------------
(* The active set.                                                         *)

NextId(o) == <<o, accounts[o].nonce>>

Record(o, b, signer, depth, ttl) ==
    [owner |-> o, chunkSigner |-> signer, batchId |-> b, ttlExpiry |-> ttl,
     depth |-> depth, status |-> "Active", activeIndex |-> Len(activeVolumeIds)]

(* _recordVolume *)
RecordVolume(o, v) ==
    /\ accounts[o].nonce < MaxNonce
    /\ volumes[NextId(o)].status = "None"
    /\ accounts' = [accounts EXCEPT ![o].nonce = @ + 1]
    /\ volumes' = [volumes EXCEPT ![NextId(o)] = v]
    /\ activeVolumeIds' = Append(activeVolumeIds, NextId(o))

(* Mutants of Retire: the moved volume's record keeps its old index, and   *)
(* the retired record is deleted.                                          *)
RetireLeavesIndex(id) ==
    LET idx  == volumes[id].activeIndex
        last == Len(activeVolumeIds) - 1
    IN  /\ activeVolumeIds' =
               [i \in 1 .. last |-> IF i = idx + 1 THEN activeVolumeIds[last + 1]
                                                  ELSE activeVolumeIds[i]]
        /\ volumes' = [volumes EXCEPT ![id].status = "Retired",
                                      ![id].activeIndex = 0]

RetireErases(id) ==
    /\ activeVolumeIds' = SelectSeq(activeVolumeIds, LAMBDA other : other # id)
    /\ volumes' = [volumes EXCEPT ![id] = NoVolume]

(* _retire: the last entry of the active list takes the vacated place.     *)
Retire(id) ==
    LET idx    == volumes[id].activeIndex
        last   == Len(activeVolumeIds) - 1
        lastId == activeVolumeIds[last + 1]
    IN  /\ activeVolumeIds' =
               [i \in 1 .. last |->
                   IF i = idx + 1 THEN lastId ELSE activeVolumeIds[i]]
        /\ volumes' = [volumes EXCEPT ![lastId].activeIndex = idx,
                                      ![id].status = "Retired",
                                      ![id].activeIndex = 0]

-----------------------------------------------------------------------------
(* The paymaster.                                                          *)

(* A uint256 shifted left by a depth: high bits are lost.                  *)
ShiftedBy(x, depth) == (x * Chunks[depth]) % Word

(* Mutant of Target: one block short.                                      *)
TargetShort == lastPrice * (GraceBlocks - 1)

Target == lastPrice * GraceBlocks

(* Mutants of Deficit: what is left is forgotten, and one unit is missing. *)
DeficitWhole(v) == Target
DeficitShort(v) == Target - Remaining(v.batchId) - 1

Deficit(v) == Target - Remaining(v.batchId)

(* Mutant of Amount: the whole target is pulled, the deficit forwarded.    *)
AmountOfTarget(v) == ShiftedBy(Target, v.depth)

Amount(v) == ShiftedBy(Deficit(v), v.depth)

Payer(v) == accounts[v.owner].payer

(* Mutant of TtlPassed: looked at only once the account is known active.   *)
TtlPassedIfActive(v) ==
    v.ttlExpiry # 0 /\ now >= v.ttlExpiry /\ accounts[v.owner].active

TtlPassed(v) == v.ttlExpiry # 0 /\ now >= v.ttlExpiry

(* Mutants of CanPull: the permit's expiry, and the allowance, not read.   *)
CanPullUnexpired(p, amount) == balance[p] >= amount /\ allowance[p] >= amount
CanPullBalance(p, amount) == balance[p] >= amount

(* _canPull *)
CanPull(p, amount) ==
    /\ balance[p] >= amount
    /\ allowance[p] >= amount
    /\ BzzPermitExpiry /\ allowance[p] = Unlimited
         => ~(expirations[p] # 0 /\ expirations[p] < now)

(* The checks of _triggerOne, in their order, on the record of a volume.   *)
TriggerOutcome(v) ==
    IF v.status = "None"                                THEN "NotFound"
    ELSE IF v.status = "Retired"                        THEN "NotActive"
    ELSE IF ~Live(v.batchId)                            THEN "BatchDied"
    ELSE IF batches[v.batchId].owner # v.chunkSigner    THEN "BatchOwnerMismatch"
    ELSE IF batches[v.batchId].depth # v.depth          THEN "DepthChanged"
    ELSE IF TtlPassed(v)                                THEN "VolumeExpired"
    ELSE IF ~accounts[v.owner].active                   THEN "NoAuth"
    ELSE IF Remaining(v.batchId) >= Target              THEN "NoDeficit"
    ELSE IF ~CanPull(Payer(v), Amount(v))               THEN "PaymentFailed"
    ELSE "ToppedUp"

(* Mutants of Retiring: an unpaid volume retires, and a deepened batch     *)
(* does not count.                                                         *)
RetiringUnpaid   == {"BatchDied", "BatchOwnerMismatch", "DepthChanged",
                     "VolumeExpired", "PaymentFailed"}
RetiringShallow  == {"BatchDied", "BatchOwnerMismatch", "VolumeExpired"}

Retiring == {"BatchDied", "BatchOwnerMismatch", "DepthChanged", "VolumeExpired"}
Skipping == {"NotFound", "NotActive", "NoAuth", "PaymentFailed"}

(* What a topup of perChunk costs PostageStamp's caller.                   *)
Drawn(b, perChunk) == Total(perChunk, batches[b].depth)

(* Steps 7 and 8: pull from the payer, approve PostageStamp, top up.       *)
PayTopUp(v) ==
    /\ TopUpOK(v.batchId, Deficit(v))
    /\ PayThrough(Payer(v), Amount(v), Drawn(v.batchId, Deficit(v)))
    /\ batches' = BatchesToppedUp(v.batchId, Deficit(v))
    /\ UNCHANGED <<lastPrice, outPayment, paused, minValidity>>

(* trigger(id), callable by anyone.                                        *)
TriggerRetires(id) ==
    /\ TriggerOutcome(volumes[id]) \in Retiring
    /\ Retire(id)
    /\ UNCHANGED <<now, bzzVars, postageVars, designated, accounts, nextNonce>>

TriggerTopsUp(id) ==
    /\ TriggerOutcome(volumes[id]) = "ToppedUp"
    /\ PayTopUp(volumes[id])
    /\ UNCHANGED <<now, registryVars>>

TriggerDoesNothing(id) ==
    /\ TriggerOutcome(volumes[id]) \in Skipping \cup {"NoDeficit"}
    /\ UNCHANGED vars

Trigger(id) == TriggerRetires(id) \/ TriggerTopsUp(id) \/ TriggerDoesNothing(id)

Reap(id) ==
    /\ volumes[id].status = "Active"
    /\ TtlPassed(volumes[id])
    /\ Retire(id)
    /\ UNCHANGED <<now, bzzVars, postageVars, designated, accounts, nextNonce>>

-----------------------------------------------------------------------------
(* The volume lifecycle.                                                   *)

CreateVolume(o, signer, depth, ttl) ==
    LET b     == Minted(nextNonce)
        payer == accounts[o].payer
    IN  /\ accounts[o].active
        /\ signer # Zero
        /\ nextNonce < MaxMint
        /\ PayThrough(payer, ShiftedBy(Target, depth), Total(Target, depth))
        /\ CreateBatchOK(b, depth, Target)
        /\ batches' = BatchesWith(b, signer, depth, Target)
        /\ nextNonce' = nextNonce + 1
        /\ RecordVolume(o, Record(o, b, signer, depth, ttl))
        /\ UNCHANGED <<now, lastPrice, outPayment, paused, minValidity, designated>>

(* The record _registerVolume writes: owner and depth as Postage has them. *)
Snapshot(o, b, ttl) == Record(o, b, batches[b].owner, batches[b].depth, ttl)

(* _registerVolume: any live batch, whoever owns it.                       *)
RegisterBatch(o, b, ttl) ==
    /\ accounts[o].active
    /\ Live(b)
    /\ batches[b].depth > MinBucketDepth
    /\ RecordVolume(o, Snapshot(o, b, ttl))

RegisterVolume(o, b, ttl) ==
    /\ RegisterBatch(o, b, ttl)
    /\ UNCHANGED <<now, bzzVars, postageVars, designated, nextNonce>>

(* importVolume: registration, then the trigger steps on the new volume;   *)
(* an outcome that leaves the batch below target reverts both.             *)
ImportVolume(o, b, ttl) ==
    /\ RegisterBatch(o, b, ttl)
    /\ LET v == Snapshot(o, b, ttl)
       IN  \/ /\ TriggerOutcome(v) = "ToppedUp"
              /\ PayTopUp(v)
           \/ /\ TriggerOutcome(v) = "NoDeficit"
              /\ UNCHANGED <<bzzVars, postageVars>>
    /\ UNCHANGED <<now, designated, nextNonce>>

DeleteVolume(o, id) ==
    /\ volumes[id].owner = o
    /\ volumes[id].status = "Active"
    /\ Retire(id)
    /\ UNCHANGED <<now, bzzVars, postageVars, designated, accounts, nextNonce>>

-----------------------------------------------------------------------------
(* A keeper calls trigger, or anyone calls reap.                           *)
KeeperNext == \E id \in VolumeIds : Trigger(id) \/ Reap(id)

UserNext ==
    \/ \E o \in Owners, p \in Payers \cup {Zero} : DesignateFundingWallet(o, p)
    \/ \E o \in Owners, p \in Payers : ConfirmAuth(p, o)
    \/ \E o \in Owners, caller \in Owners \cup Payers : Revoke(caller, o)
    \/ \E o \in Owners, signer \in Signers \cup {Zero}, depth \in Depths, ttl \in Ttls :
          CreateVolume(o, signer, depth, ttl)
    \/ \E o \in Owners, b \in BatchIds, ttl \in Ttls :
          RegisterVolume(o, b, ttl) \/ ImportVolume(o, b, ttl)
    \/ \E o \in Owners, id \in VolumeIds : DeleteVolume(o, id)

WorldNext ==
    \/ Tick /\ UNCHANGED <<bzzVars, registryVars>>
    \/ PostageNext /\ UNCHANGED <<now, bzzVars, registryVars>>
    \/ BzzNext /\ UNCHANGED <<now, postageVars, registryVars>>

Next == KeeperNext \/ UserNext \/ WorldNext

Spec == Init /\ [][Next]_vars

(* Keepers trigger every volume again and again, and blocks keep coming.   *)
Fairness ==
    /\ WF_vars(Tick /\ UNCHANGED <<bzzVars, registryVars>>)
    /\ \A id \in VolumeIds : WF_vars(Trigger(id))

FairSpec == Spec /\ Fairness

-----------------------------------------------------------------------------
(* Properties.                                                             *)

(* Every variable has its type; an active account has a payer.             *)
TypeOK ==
    /\ BzzTypeOK
    /\ PostageTypeOK
    /\ volumes \in [VolumeIds -> Volume]
    /\ activeVolumeIds \in Seq(VolumeIds)
    /\ designated \in [Owners -> Payers \cup {Zero}]
    /\ accounts \in [Owners -> Account]
    /\ \A o \in Owners : accounts[o].active => accounts[o].payer # Zero
    /\ nextNonce \in 0 .. MaxMint

(* The active list holds exactly the Active volumes, each once, at the     *)
(* place its record says: swap-and-pop in _retire keeps list and records   *)
(* in step, so no retirement removes another volume from the keepers'      *)
(* enumeration.                                                            *)
ActiveSetConsistent ==
    /\ \A i \in 1 .. Len(activeVolumeIds) :
          /\ volumes[activeVolumeIds[i]].status = "Active"
          /\ volumes[activeVolumeIds[i]].activeIndex = i - 1
    /\ \A id \in VolumeIds : volumes[id].status = "Active" =>
          /\ volumes[id].activeIndex < Len(activeVolumeIds)
          /\ activeVolumeIds[volumes[id].activeIndex + 1] = id

(* The IDs an owner has used are those below its nonce, and no batch       *)
(* exists under a salt the registry has yet to use: whatever account       *)
(* changes and foreign calls come in between, neither VOLUMEID_COLLISION   *)
(* nor Postage's BatchExists can block a creating call (I11, I14).         *)
NextIdsAreFree ==
    /\ \A id \in VolumeIds :
          volumes[id].status = "None" <=> id[2] >= accounts[id[1]].nonce
    /\ \A n \in nextNonce .. MaxMint - 1 : ~Exists(Minted(n))

(* Between transactions the registry holds no BZZ and leaves PostageStamp  *)
(* no allowance: what it pulled from a payer for the recorded depth is     *)
(* what PostageStamp drew for the batch's depth (I8).                      *)
RegistryHoldsNothing == balance[Registry] = 0 /\ allowance[Registry] = 0

(* A batch that backs the volume is live and as the record describes it.   *)
Backed(v) ==
    /\ v.batchId # Zero
    /\ Live(v.batchId)
    /\ batches[v.batchId].owner = v.chunkSigner
    /\ batches[v.batchId].depth = v.depth

(* ADR-0007: no state of a volume, an account or a payer makes trigger     *)
(* revert.  Once its prechecks pass, the pull and the topup succeed,       *)
(* unless Postage or BZZ is paused, the validity floor was raised above    *)
(* graceBlocks, or the charge exceeds a word (more BZZ than exists).       *)
TriggerRevertsOnlyOnFaults ==
    \A id \in VolumeIds :
        LET v == volumes[id]
        IN  TriggerOutcome(v) = "ToppedUp" =>
              \/ /\ TopUpOK(v.batchId, Deficit(v))
                 /\ TransferFromOK(Payer(v), Amount(v))
                 /\ Drawn(v.batchId, Deficit(v)) = Amount(v)
              \/ paused \/ bzzPaused
              \/ minValidity > GraceBlocks
              \/ Total(Deficit(v), v.depth) >= Word

(* I8: when a payer pays, some batch ends the step at exactly graceBlocks  *)
(* of runway, and the payment is what that batch lacked, for every chunk.  *)
ChargeBuysRunway ==
    [][\A p \in Payers : balance'[p] < balance[p] =>
          \E b \in BatchIds :
             /\ batches'[b].norm - outPayment = Target
             /\ balance[p] - balance'[p] =
                  (Target - (IF Live(b) THEN Remaining(b) ELSE 0))
                     * Chunks[batches'[b].depth]]_vars

(* A trigger of the volume would neither pay nor retire.                   *)
Settled(id) == TriggerOutcome(volumes[id]) \in Skipping \cup {"NoDeficit"}

(* I5, for all volumes that share batches and payers: a trigger leaves its *)
(* volume settled, and no trigger of another volume unsettles it, so in    *)
(* one block at one price every volume pays or retires at most once.       *)
TriggersSettle ==
    [][\A j \in VolumeIds : Trigger(j) =>
          \A id \in VolumeIds : id = j \/ Settled(id) => Settled(id)']_vars

Identity(v) == [owner |-> v.owner, chunkSigner |-> v.chunkSigner,
                batchId |-> v.batchId, ttlExpiry |-> v.ttlExpiry, depth |-> v.depth]

(* I7, I10, I12: a step retires at most one volume, never revives one and  *)
(* never rewrites what a record says of owner, batch, depth and expiry;    *)
(* and no call to the registry takes anything from a live batch.           *)
NonInterference ==
    [][/\ \A id \in VolumeIds : volumes[id].status # "None" =>
             /\ Identity(volumes'[id]) = Identity(volumes[id])
             /\ volumes[id].status = "Retired" => volumes'[id] = volumes[id]
       /\ \A id, j \in VolumeIds :
             /\ volumes[id].status # volumes'[id].status
             /\ volumes[j].status # volumes'[j].status
             => id = j
       /\ KeeperNext \/ UserNext =>
             \A b \in BatchIds : Live(b) =>
                /\ batches'[b].owner = batches[b].owner
                /\ batches'[b].depth = batches[b].depth
                /\ batches'[b].norm >= batches[b].norm]_vars

(* A trigger retires its volume exactly when the batch no longer backs it  *)
(* or its time is up, and then moves no BZZ: a revoked account or a payer  *)
(* that cannot pay neither costs a volume its place nor keeps it there.    *)
TriggerRetiresForCause ==
    [][\A id \in VolumeIds : volumes[id].status = "Active" /\ Trigger(id) =>
          LET cause == ~Backed(volumes[id]) \/ TtlPassed(volumes[id])
          IN  /\ volumes'[id].status = "Retired" <=> cause
              /\ cause => UNCHANGED <<balance, batches>>]_vars

(* I13: an import that goes through leaves a volume with its full runway.  *)
ImportLeavesRunway ==
    [][\A o \in Owners, b \in BatchIds, ttl \in Ttls : ImportVolume(o, b, ttl) =>
          /\ volumes'[NextId(o)].status = "Active"
          /\ batches'[b].norm - outPayment >= Target]_vars

(* A volume whose time is up is retired in the end, whether or not its     *)
(* account is active, its payer able, or Postage paused: nothing that only *)
(* stops payments stops retirement (section 8, the order of the checks).   *)
ExpiredVolumesRetire ==
    \A id \in VolumeIds :
        volumes[id].status = "Active" /\ volumes[id].ttlExpiry \in 1 .. now
            ~> volumes[id].status = "Retired"

(* A volume whose batch died or changed leaves the active set in the end,  *)
(* unless the batch comes back as the record describes it.                 *)
UnbackedVolumesRetire ==
    \A id \in VolumeIds :
        volumes[id].status = "Active" /\ ~Backed(volumes[id])
            ~> volumes[id].status = "Retired" \/ Backed(volumes[id])

CanTopUp == ~paused /\ ~bzzPaused /\ minValidity <= GraceBlocks

(* An active volume whose account stays active and whose payer stays able  *)
(* to pay has its full runway again and again.                             *)
AbleVolumesAreFunded ==
    \A id \in VolumeIds :
        LET outcome == TriggerOutcome(volumes[id])
        IN  <>[](CanTopUp /\ outcome \in {"ToppedUp", "NoDeficit"})
               => []<>(outcome = "NoDeficit")

-----------------------------------------------------------------------------
(* The abstract specification this one implements.                         *)

Mandate(o) == IF accounts[o].active THEN accounts[o].payer ELSE Zero

Ledger == INSTANCE VolumeLedger WITH
    Nobody  <- Zero,
    offer   <- designated,
    mandate <- [o \in Owners |-> Mandate(o)],
    used    <- [o \in Owners |-> accounts[o].nonce],
    open    <- {id \in VolumeIds : volumes[id].status = "Active"},
    funds   <- [p \in Payers |-> balance[p]]

(* I3, I4, I9: a payer's funds fall only while it holds a mandate that the *)
(* owner offered and it confirmed, from an owner that opens a volume or    *)
(* has an open one; I7, I11: volumes open one by one under the owner's own *)
(* count and never reopen.                                                 *)
ImplementsLedger == Ledger!Spec
=============================================================================
