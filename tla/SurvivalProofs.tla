--------------------------- MODULE SurvivalProofs ---------------------------
(***************************************************************************)
(* I6 for every instance: a batch the registry funded lives for            *)
(* graceBlocks more blocks with no further call of anyone.                 *)
(*                                                                         *)
(* PromisesAreCovered is inductive relative to Inv; PromisesAreKept is not *)
(* (a batch may be alive with one unit left and several blocks promised)   *)
(* and follows from it.                                                    *)
(***************************************************************************)
EXTENDS Survival, LedgerProofs

(* A promise names a block.                                                *)
UntilOK == until \in [BatchIds -> Nat]

(* Survival takes the steps of VolumeRegistry and no others.               *)
LEMMA SurvivalSteps == [SNext]_svars => [Next]_vars
  BY DEF SNext, svars

(* So it keeps the invariant of VolumeRegistry.                            *)
LEMMA SurvivalInvariance == SSpec => []Inv
  <1>1. SInit => Inv
    BY InitInv DEF SInit
  <1>2. Inv /\ [SNext]_svars => Inv'
    BY StepInv, SurvivalSteps
  <1> QED
    BY <1>1, <1>2, PTL DEF SSpec

(* Multiplication keeps the order of naturals.                             *)
LEMMA ProductMonotonic ==
    ASSUME NEW k \in Nat, NEW a \in Nat, NEW b \in Nat, a <= b
    PROVE  k * a <= k * b
  BY SMT

(* k blocks at a price cost the price and what k - 1 blocks cost.          *)
LEMMA OneBlockLess ==
    ASSUME NEW k \in Nat \ {0}, NEW a \in Nat
    PROVE  k * a = (k - 1) * a + a
  BY SMT

(* The state that promises depend on is well typed.                        *)
LEMMA PromiseTypes ==
    ASSUME Inv, NEW b \in BatchIds
    PROVE  /\ now \in Nat /\ outPayment \in Nat
           /\ lastPrice \in Nat \ {0}
           /\ batches[b].norm \in Nat
           /\ Remaining(b) \in Int
  BY PostageAssumption DEF Inv, BzzTypeOK, PostageTypeOK, Batch, Remaining

(* A promised batch is alive: it can pay for at least one more block.      *)
LEMMA CoveredIsLive ==
    ASSUME Inv, UntilOK, PromisesAreCovered, NEW b \in BatchIds, now < until[b]
    PROVE  Live(b)
  <1>1. /\ until[b] - now \in Nat \ {0}
        /\ lastPrice \in Nat \ {0} /\ outPayment \in Nat
        /\ batches[b].norm \in Nat
    BY PromiseTypes DEF UntilOK
  <1>2. (until[b] - now) * lastPrice = (until[b] - now - 1) * lastPrice + lastPrice
    BY <1>1, OneBlockLess
  <1>3. (until[b] - now - 1) * lastPrice \in Nat
    BY <1>1, ProductNat
  <1>4. Exists(b) /\ Remaining(b) >= (until[b] - now) * lastPrice
    BY DEF PromisesAreCovered
  <1> QED
    BY <1>1, <1>2, <1>3, <1>4 DEF Live, Remaining

(* A call of the registry moves neither the clock, nor the price, nor the  *)
(* out-payment.                                                            *)
LEMMA CallsKeepTime ==
    ASSUME Inv, KeeperNext \/ UserNext
    PROVE  UNCHANGED <<now, lastPrice, outPayment>>
  <1>1. UNCHANGED now
    BY DEF KeeperNext, UserNext, Trigger, TriggerRetires, TriggerTopsUp,
           TriggerDoesNothing, Reap, DesignateFundingWallet, ConfirmAuth, Revoke,
           CreateVolume, RegisterVolume, ImportVolume, DeleteVolume, vars
  <1>2. UNCHANGED <<lastPrice, outPayment>>
    <2>1. CASE Topup
      BY <2>1, TopupEffect DEF Topup
    <2>2. CASE Purchase
      BY <2>2, PurchaseEffect DEF Purchase
    <2>3. CASE UNCHANGED <<bzzVars, postageVars>>
      BY <2>3 DEF postageVars
    <2> QED
      BY <2>1, <2>2, <2>3, CallSteps
  <1> QED
    BY <1>1, <1>2

(* Of what others do only a passing block moves them.                      *)
LEMMA OthersKeepTime ==
    ASSUME WorldNext
    PROVE  Tick \/ UNCHANGED <<now, outPayment>>
  BY DEF WorldNext, PostageNext, SetPrice, SetPaused, SetMinimumValidity, ExpireBatches,
         CreateExternally, CopyBatch, TopUpExternally, IncreaseDepth, postageVars

(* Only createVolume takes a salt.                                         *)
LEMMA NonceSteps ==
    ASSUME [Next]_vars, nextNonce' # nextNonce
    PROVE  Purchase
  <1>1. ASSUME NEW o \in Owners, NEW signer \in Signers \cup {Zero}, NEW depth \in Depths,
               NEW ttl \in Ttls, CreateVolume(o, signer, depth, ttl)
        PROVE  Purchase
    <2>1. signer \in Signers
      BY <1>1 DEF CreateVolume
    <2> QED
      BY <1>1, <2>1 DEF Purchase
  <1> QED
    BY <1>1 DEF Next, KeeperNext, UserNext, WorldNext, Trigger, TriggerRetires,
        TriggerTopsUp, TriggerDoesNothing, Reap, DesignateFundingWallet, ConfirmAuth,
        Revoke, RegisterVolume, ImportVolume, DeleteVolume, vars, registryVars

(* Of what others do to a live batch, only its owner's increaseDepth takes *)
(* anything from it, and that shows in its depth.                          *)
LEMMA OthersKeepLiveBatches ==
    ASSUME Inv, WorldNext, NEW b \in BatchIds, Live(b),
           batches'[b].depth = batches[b].depth
    PROVE  /\ batches'[b].owner = batches[b].owner
           /\ batches'[b].norm >= batches[b].norm
  <1>1. /\ batches \in [BatchIds -> Batch]
        /\ \A c \in BatchIds : batches[c].norm \in Nat /\ batches[c].depth \in Nat
    <2>1. batches \in [BatchIds -> Batch]
      BY DEF Inv, PostageTypeOK
    <2>2. Depths \cup {0} \subseteq Nat
      BY PostageAssumption
    <2>3. \A r \in Batch : r.norm \in Nat /\ r.depth \in Depths \cup {0}
      BY DEF Batch
    <2> QED
      BY <2>1, <2>2, <2>3
  <1>2. ASSUME batches'[b] = batches[b]
        PROVE  /\ batches'[b].owner = batches[b].owner
               /\ batches'[b].norm >= batches[b].norm
    BY <1>1, <1>2
  <1>3. CASE PostageNext
    <2>1. CASE \/ \E price \in Prices : SetPrice(price)
               \/ \E p \in Pauses : SetPaused(p)
               \/ \E blocks \in Validities : SetMinimumValidity(blocks)
      BY <1>2, <2>1 DEF SetPrice, SetPaused, SetMinimumValidity
    <2>2. CASE ExpireBatches
      BY <1>2, <2>2 DEF ExpireBatches, Expired
    <2>3. ASSUME NEW c \in ExternalIds, NEW owner \in Signers, NEW depth \in Depths,
                 NEW perChunk \in ExternalFunds,
                 CreateExternally(c, owner, depth, perChunk)
                    \/ CopyBatch(c, owner, depth, perChunk)
          PROVE  batches'[b] = batches[b]
      <3>1. ~Exists(c) /\ batches' = BatchesWith(c, owner, depth, perChunk)
        BY <2>3 DEF CreateExternally, CreateBatchOK, CopyBatch
      <3>2. b # c
        BY <3>1 DEF Live
      <3> QED
        BY <3>1, <3>2 DEF BatchesWith, Expired
    <2>4. ASSUME NEW c \in BatchIds, NEW perChunk \in ExternalFunds,
                 TopUpExternally(c, perChunk)
          PROVE  /\ batches'[b].owner = batches[b].owner
                 /\ batches'[b].norm >= batches[b].norm
      <3>1. perChunk \in Nat
        BY PostageAssumption
      <3>2. /\ batches'[b].owner = batches[b].owner
            /\ batches'[b].norm = IF b = c THEN batches[b].norm + perChunk
                                           ELSE batches[b].norm
        BY <1>1, <2>4 DEF TopUpExternally, BatchesToppedUp, Batch
      <3> QED
        BY <1>1, <3>1, <3>2
    <2>5. ASSUME NEW c \in BatchIds, NEW depth \in Depths, IncreaseDepth(c, depth)
          PROVE  batches'[b] = batches[b]
      <3> DEFINE norm == outPayment +
              ((Remaining(c) * Chunks[batches[c].depth]) \div Chunks[depth])
      <3>1. /\ depth > batches[c].depth
            /\ batches' = [batches EXCEPT ![c].depth = depth, ![c].norm = norm]
        BY <2>5 DEF IncreaseDepth
      <3> HIDE DEF norm
      <3>2. depth \in Nat
        BY PostageAssumption
      <3>3. b # c
        <4>1. b = c => batches'[b].depth = depth
          BY <1>1, <3>1 DEF Batch
        <4> QED
          BY <1>1, <3>1, <3>2, <4>1
      <3> QED
        BY <1>1, <3>1, <3>3
    <2> QED
      BY <1>2, <1>3, <2>1, <2>2, <2>3, <2>4, <2>5 DEF PostageNext
  <1>4. CASE Tick \/ UNCHANGED postageVars
    BY <1>2, <1>4 DEF Tick, postageVars
  <1> QED
    BY <1>3, <1>4 DEF WorldNext

(* The calls that fund a batch leave it with the full runway.              *)
LEMMA FundedBatches ==
    ASSUME Inv, [Next]_vars, NEW b \in BatchIds, Funds(b)
    PROVE  /\ batches'[b].owner # Zero
           /\ batches'[b].norm - outPayment' >= Target
           /\ UNCHANGED <<now, lastPrice>>
  <1>1. Target \in Nat
    BY TargetNat DEF Inv
  <1>2. ASSUME NEW v, ToppingUp(v), v.batchId = b
        PROVE  /\ batches'[b].owner # Zero
               /\ batches'[b].norm - outPayment' >= Target
               /\ UNCHANGED lastPrice
    <2>1. /\ Exists(b)
          /\ batches' = [batches EXCEPT ![b].norm = @ + Deficit(v)]
          /\ batches'[b].norm - outPayment = Target
          /\ UNCHANGED <<lastPrice, outPayment>>
      BY <1>2, TopupEffect DEF Live
    <2>2. batches'[b].owner = batches[b].owner
      BY <2>1 DEF Inv, PostageTypeOK, Batch
    <2> QED
      BY <1>1, <2>1, <2>2 DEF Exists
  <1>3. ASSUME NEW id \in VolumeIds, volumes[id].batchId = b, TriggerTopsUp(id)
        PROVE  /\ batches'[b].owner # Zero
               /\ batches'[b].norm - outPayment' >= Target
               /\ UNCHANGED <<now, lastPrice>>
    <2>1. ToppingUp(volumes[id])
      BY <1>3, TriggerSteps, ToppedUpFacts
      DEF TriggerTopsUp, ToppingUp, Inv, VolumesOK, RecordsComplete
    <2> QED
      BY <1>2, <1>3, <2>1 DEF TriggerTopsUp
  <1>4. ASSUME NEW o \in Owners, NEW ttl \in Ttls, ImportVolume(o, b, ttl)
        PROVE  /\ batches'[b].owner # Zero
               /\ batches'[b].norm - outPayment' >= Target
               /\ UNCHANGED <<now, lastPrice>>
    <2> DEFINE v == Snapshot(o, b, ttl)
    <2>1. v.batchId = b /\ Live(b) /\ UNCHANGED now
      BY <1>4 DEF ImportVolume, RegisterBatch, Snapshot, Record
    <2>2. CASE ToppingUp(v)
      BY <1>2, <2>1, <2>2
    <2>3. CASE TriggerOutcome(v) = "NoDeficit" /\ UNCHANGED postageVars
      <3>1. Remaining(v.batchId) >= Target
        BY <2>3 DEF TriggerOutcome
      <3> QED
        BY <2>1, <2>3, <3>1 DEF postageVars, Remaining, Live, Exists
    <2> QED
      BY <1>4, <2>1, <2>2, <2>3, ImportSteps
  <1>5. ASSUME nextNonce' # nextNonce, b = Minted(nextNonce)
        PROVE  /\ batches'[b].owner # Zero
               /\ batches'[b].norm - outPayment' >= Target
               /\ UNCHANGED <<now, lastPrice>>
    <2>1. Purchase
      BY <1>5, NonceSteps
    <2> PICK o \in Owners, signer \in Signers, depth \in Depths, ttl \in Ttls :
            CreateVolume(o, signer, depth, ttl)
      BY <2>1 DEF Purchase
    <2> DEFINE n == Minted(nextNonce)
    <2>2. /\ batches' = BatchesWith(n, signer, depth, Target)
          /\ n \in BatchIds
          /\ batches'[n].norm - outPayment = Target
          /\ UNCHANGED <<lastPrice, outPayment>>
      BY PurchaseEffect
    <2>3. signer # Zero /\ UNCHANGED now
      BY DEF CreateVolume
    <2> HIDE DEF n
    <2>4. batches'[n].owner = signer
      BY <2>2 DEF BatchesWith, Expired
    <2>5. b = n
      BY <1>5 DEF n
    <2> QED
      BY <1>1, <2>2, <2>3, <2>4, <2>5
  <1> QED
    BY <1>3, <1>4, <1>5 DEF Funds

(* Every step keeps promises covered: it funds the batch anew, it voids    *)
(* the promise, or what it takes from the batch it also takes from what is *)
(* still promised.                                                         *)
LEMMA CoveredStep ==
    ASSUME Inv, UntilOK, PromisesAreCovered, [SNext]_svars
    PROVE  UntilOK' /\ PromisesAreCovered'
  <1>1. Inv' /\ [Next]_vars
    BY StepInv, SurvivalSteps
  <1>2. CASE UNCHANGED svars
    BY <1>2
    DEF svars, vars, postageVars, UntilOK, PromisesAreCovered, Exists, Remaining
  <1>3. CASE SNext
    <2> DEFINE F(b) == IF Funds(b) THEN now + GraceBlocks
                       ELSE IF Voids(b) THEN 0 ELSE until[b]
    <2>1. until' = [b \in BatchIds |-> F(b)]
      BY <1>3 DEF SNext
    <2>2. now \in Nat /\ GraceBlocks \in Nat
      BY RegistryAssumption DEF Inv, BzzTypeOK
    <2>3. UntilOK'
      <3>1. \A b \in BatchIds : F(b) \in Nat
        BY <2>2 DEF UntilOK
      <3> HIDE DEF F
      <3> QED
        BY <2>1, <3>1 DEF UntilOK
    <2>4. ASSUME NEW b \in BatchIds, now' < until'[b]
          PROVE  /\ batches'[b].owner # Zero
                 /\ batches'[b].norm - outPayment' >= (until'[b] - now') * lastPrice'
      <3>1. CASE Funds(b)
        <4>1. /\ batches'[b].owner # Zero /\ batches'[b].norm - outPayment' >= Target
              /\ now' = now /\ lastPrice' = lastPrice
          BY <1>1, <3>1, FundedBatches
        <4>2. until'[b] - now' = GraceBlocks
          BY <2>1, <2>2, <3>1, <4>1
        <4>3. GraceBlocks * lastPrice = lastPrice * GraceBlocks
          BY <2>2, PromiseTypes
        <4> QED
          BY <4>1, <4>2, <4>3 DEF Target
      <3>2. CASE ~Funds(b) /\ Voids(b)
        <4>1. until'[b] = 0 /\ now' \in Nat
          BY <1>1, <2>1, <3>2 DEF Inv, BzzTypeOK
        <4> QED
          BY <2>4, <4>1
      <3>3. CASE ~Funds(b) /\ ~Voids(b)
        <4>1. until'[b] = until[b] /\ until[b] \in Nat
          BY <2>1, <3>3 DEF UntilOK
        <4>2. /\ now' \in Nat /\ lastPrice' \in Nat /\ outPayment' \in Nat
              /\ batches'[b].norm \in Nat
          BY <1>1, PostageAssumption DEF Inv, BzzTypeOK, PostageTypeOK, Batch
        <4>3. /\ now \in Nat /\ lastPrice \in Nat \ {0} /\ outPayment \in Nat
              /\ batches[b].norm \in Nat
          BY PromiseTypes
        <4>4. now' = now \/ now' = now + 1
          BY <1>3, CallsKeepTime DEF SNext, Next, WorldNext, Tick
        <4>5. now < until[b]
          BY <2>4, <4>1, <4>2, <4>3, <4>4
        <4>6. Live(b) /\ Remaining(b) >= (until[b] - now) * lastPrice
          BY <4>5, CoveredIsLive DEF PromisesAreCovered
        <4>7. batches'[b].depth = batches[b].depth /\ lastPrice' <= lastPrice
          BY <3>3, <4>2, <4>3, <4>6 DEF Voids
        <4>8. batches'[b].owner = batches[b].owner /\ batches'[b].norm >= batches[b].norm
          BY <1>3, <4>6, <4>7, BatchesStep, OthersKeepLiveBatches
          DEF SNext, Next, LiveBatchesKept
        <4>9. batches'[b].owner # Zero
          BY <4>6, <4>8 DEF Live, Exists
        <4>10. CASE now' = now /\ outPayment' = outPayment
          <5>1. until[b] - now \in Nat
            BY <4>1, <4>3, <4>5
          <5>2. (until[b] - now) * lastPrice' <= (until[b] - now) * lastPrice
            BY <4>2, <4>3, <4>7, <5>1, ProductMonotonic
          <5>3. /\ (until[b] - now) * lastPrice' \in Nat
                /\ (until[b] - now) * lastPrice \in Nat
            BY <4>2, <4>3, <5>1, ProductNat
          <5>4. batches'[b].norm - outPayment' >= Remaining(b)
            BY <4>2, <4>3, <4>8, <4>10 DEF Remaining
          <5> QED
            BY <4>1, <4>2, <4>3, <4>6, <4>9, <4>10, <5>2, <5>3, <5>4 DEF Remaining
        <4>11. CASE Tick
          <5>1. /\ now' = now + 1 /\ outPayment' = outPayment + lastPrice
                /\ batches' = batches /\ lastPrice' = lastPrice
            BY <4>11 DEF Tick
          <5>2. until[b] - now \in Nat \ {0} /\ until[b] - now' = until[b] - now - 1
            BY <4>1, <4>3, <4>5, <5>1
          <5>3. (until[b] - now) * lastPrice
                   = (until[b] - now - 1) * lastPrice + lastPrice
            BY <4>3, <5>2, OneBlockLess
          <5>4. (until[b] - now - 1) * lastPrice \in Nat
            BY <4>3, <5>2, ProductNat
          <5>5. batches'[b].norm - outPayment' = Remaining(b) - lastPrice /\ Remaining(b) \in Int
            BY <4>3, <5>1 DEF Remaining
          <5> QED
            BY <4>1, <4>3, <4>6, <4>9, <5>1, <5>2, <5>3, <5>4, <5>5
        <4>12. Tick \/ (now' = now /\ outPayment' = outPayment)
          BY <1>3, CallsKeepTime, OthersKeepTime DEF SNext, Next
        <4> QED
          BY <4>10, <4>11, <4>12
      <3> QED
        BY <3>1, <3>2, <3>3
    <2> QED
      BY <2>3, <2>4 DEF PromisesAreCovered, Exists, Remaining
  <1> QED
    BY <1>2, <1>3

(* No promise is made before the first call.                               *)
LEMMA CoveredInit == SInit => UntilOK /\ PromisesAreCovered
  BY DEF SInit, Init, BzzInit, UntilOK, PromisesAreCovered

(* I6, the reason: what createVolume, registerVolume, importVolume and     *)
(* trigger put into a batch pays for every promised block at the current   *)
(* price, whoever acts in between.                                         *)
THEOREM CoveredTheorem == SSpec => []PromisesAreCovered
  <1>1. Inv /\ (UntilOK /\ PromisesAreCovered) /\ [SNext]_svars
          => (UntilOK /\ PromisesAreCovered)'
    BY CoveredStep
  <1> QED
    BY <1>1, CoveredInit, SurvivalInvariance, PTL DEF SSpec

(* I6: no batch the registry funded dies before the block it was promised  *)
(* to reach, unless the price rose or its owner diluted it.                *)
THEOREM KeptTheorem == SSpec => []PromisesAreKept
  <1>1. Inv /\ (UntilOK /\ PromisesAreCovered) /\ [SNext]_svars
          => (UntilOK /\ PromisesAreCovered)'
    BY CoveredStep
  <1>2. Inv /\ UntilOK /\ PromisesAreCovered => PromisesAreKept
    BY CoveredIsLive DEF PromisesAreKept
  <1> QED
    BY <1>1, <1>2, CoveredInit, SurvivalInvariance, PTL DEF SSpec
=============================================================================
