---------------------------- MODULE PostageStamp ----------------------------
(***************************************************************************)
(* Swarm's PostageStamp contract, as far as VolumeRegistry depends on it.  *)
(* It is deployed elsewhere (ethersphere/storage-incentives): this module  *)
(* models the calls declared in IPostageStampLike, their revert conditions *)
(* as ADR-0007 and DESIGN section 14 enumerate them, and what the rest of  *)
(* the world does to batches, to the price and to the contract's settings. *)
(*                                                                         *)
(* A batch ID is the pair it is hashed from: the account that called       *)
(* createBatch (one of Signers, or the registry) and its salt.  An expired *)
(* batch is deleted, and its ID may then be created again, possibly for    *)
(* another owner.                                                          *)
(***************************************************************************)
EXTENDS BzzToken

CONSTANTS
    Signers,         \* addresses that may own a batch (chunk signers)
    Zero,            \* address(0) and bytes32(0)
    ExternalIds,     \* batch IDs of callers other than the registry
    MaxMint,         \* bound: batches the registry may mint
    Depths,          \* batch depths
    Chunks,          \* Chunks[d] = 1 << d, the chunks in a batch of depth d
    MinBucketDepth,  \* minimumBucketDepth
    Prices,          \* prices the oracle may set
    Validities,      \* values minimumValidityBlocks may take
    ExternalFunds,   \* per-chunk amounts others create or top up with
    MaxRemaining,    \* bound: others fund no batch beyond this
    Pauses           \* the values PostageStamp's pause flag may take

Minted(n) == <<Registry, n>>      \* keccak256(abi.encode(registry, n))
BatchIds  == ExternalIds \cup {Minted(n) : n \in 0 .. MaxMint - 1}

ASSUME PostageAssumption ==
    /\ Zero \notin Signers \cup Payers \cup {Registry}
    /\ Registry \notin Signers
    /\ ExternalIds \subseteq Signers \X Nat
    /\ Zero \notin BatchIds                  \* no hash is zero
    /\ MaxMint \in Nat
    /\ Depths \subseteq Nat
    /\ Chunks \in [Depths -> Nat \ {0}]
    /\ \A d, e \in Depths : d < e => Chunks[d] < Chunks[e]
    /\ MinBucketDepth \in Nat
    /\ Prices \subseteq Nat \ {0}
    /\ Validities \subseteq Nat
    /\ ExternalFunds \subseteq Nat
    /\ MaxRemaining \in Nat
    /\ Pauses \subseteq BOOLEAN

VARIABLES
    batches,       \* owner, depth and normalisedBalance of each batch
    lastPrice,     \* price per chunk and block
    outPayment,    \* currentTotalOutPayment: grows by lastPrice every block
    paused,
    minValidity    \* minimumValidityBlocks

postageVars == <<batches, lastPrice, outPayment, paused, minValidity>>

Batch == [owner : Signers \cup {Zero}, depth : Depths \cup {0}, norm : Nat]

(* What batches() returns for an ID that does not exist.                   *)
Missing == [owner |-> Zero, depth |-> 0, norm |-> 0]

PostageTypeOK ==
    /\ batches \in [BatchIds -> Batch]
    /\ lastPrice \in Prices
    /\ outPayment \in Nat
    /\ paused \in BOOLEAN
    /\ minValidity \in Nat

PostageInit ==
    /\ batches = [b \in BatchIds |-> Missing]
    /\ lastPrice \in Prices
    /\ outPayment = 0
    /\ paused = FALSE
    /\ minValidity \in Validities

-----------------------------------------------------------------------------
(* Views.                                                                  *)

Exists(b)    == batches[b].owner # Zero
Live(b)      == Exists(b) /\ batches[b].norm > outPayment
Remaining(b) == batches[b].norm - outPayment

(* minimumInitialBalancePerChunk *)
MinimumBalance == minValidity * lastPrice

(* Batches after expireLimited: the dead ones are deleted.                 *)
Expired == [b \in BatchIds |-> IF Live(b) THEN batches[b] ELSE Missing]

-----------------------------------------------------------------------------
(* Calls the registry makes.  Totals are computed with checked arithmetic: *)
(* one that does not fit a word reverts.                                   *)

Total(perChunk, depth) == perChunk * Chunks[depth]

(* createBatch succeeds for some bucket depth: one exists iff the depth is *)
(* above the minimum.                                                      *)
CreateBatchOK(b, depth, perChunk) ==
    /\ ~paused
    /\ depth > MinBucketDepth
    /\ ~Exists(b)
    /\ perChunk >= MinimumBalance
    /\ Total(perChunk, depth) < Word
    /\ outPayment + perChunk > 0

BatchesWith(b, owner, depth, perChunk) ==
    [Expired EXCEPT ![b] = [owner |-> owner, depth |-> depth,
                            norm |-> outPayment + perChunk]]

TopUpOK(b, perChunk) ==
    /\ ~paused
    /\ Live(b)
    /\ batches[b].depth > MinBucketDepth
    /\ Remaining(b) + perChunk >= MinimumBalance
    /\ Total(perChunk, batches[b].depth) < Word

BatchesToppedUp(b, perChunk) == [batches EXCEPT ![b].norm = @ + perChunk]

-----------------------------------------------------------------------------
(* What the rest of the world does.                                        *)

(* A block passes: every batch is charged the price once.                  *)
Tick ==
    /\ now < MaxNow
    /\ now' = now + 1
    /\ outPayment' = outPayment + lastPrice
    /\ UNCHANGED <<batches, lastPrice, paused, minValidity>>

SetPrice(price) ==
    /\ lastPrice' = price
    /\ UNCHANGED <<batches, outPayment, paused, minValidity>>

SetPaused(b) ==
    /\ paused' = b
    /\ UNCHANGED <<batches, lastPrice, outPayment, minValidity>>

SetMinimumValidity(blocks) ==
    /\ minValidity' = blocks
    /\ UNCHANGED <<batches, lastPrice, outPayment, paused>>

(* Anyone calls expireLimited.                                             *)
ExpireBatches ==
    /\ batches' = Expired
    /\ UNCHANGED <<lastPrice, outPayment, paused, minValidity>>

(* Another account calls createBatch for itself.                           *)
CreateExternally(b, owner, depth, perChunk) ==
    /\ CreateBatchOK(b, depth, perChunk)
    /\ batches' = BatchesWith(b, owner, depth, perChunk)
    /\ UNCHANGED <<lastPrice, outPayment, paused, minValidity>>

(* The administrator migrates a batch; no depth or balance floor applies.  *)
CopyBatch(b, owner, depth, perChunk) ==
    /\ ~paused
    /\ ~Exists(b)
    /\ Total(perChunk, depth) < Word
    /\ outPayment + perChunk > 0
    /\ batches' = BatchesWith(b, owner, depth, perChunk)
    /\ UNCHANGED <<lastPrice, outPayment, paused, minValidity>>

(* Anyone tops a batch up from their own funds.                            *)
TopUpExternally(b, perChunk) ==
    /\ TopUpOK(b, perChunk)
    /\ Remaining(b) + perChunk <= MaxRemaining
    /\ batches' = BatchesToppedUp(b, perChunk)
    /\ UNCHANGED <<lastPrice, outPayment, paused, minValidity>>

(* The batch owner deepens its batch, spreading what remains over the      *)
(* larger number of chunks.                                                *)
IncreaseDepth(b, depth) ==
    LET diluted == (Remaining(b) * Chunks[batches[b].depth]) \div Chunks[depth]
    IN  /\ ~paused
        /\ Live(b)
        /\ depth > batches[b].depth
        /\ depth > MinBucketDepth
        /\ diluted >= MinimumBalance
        /\ batches' = [batches EXCEPT ![b].depth = depth,
                                      ![b].norm = outPayment + diluted]
        /\ UNCHANGED <<lastPrice, outPayment, paused, minValidity>>

(* Everything but the passing of a block.                                  *)
PostageNext ==
    \/ \E price \in Prices : SetPrice(price)
    \/ \E b \in Pauses : SetPaused(b)
    \/ \E blocks \in Validities : SetMinimumValidity(blocks)
    \/ ExpireBatches
    \/ \E b \in ExternalIds, owner \in Signers, depth \in Depths,
          perChunk \in ExternalFunds :
            \/ CreateExternally(b, owner, depth, perChunk)
            \/ CopyBatch(b, owner, depth, perChunk)
    \/ \E b \in BatchIds, perChunk \in ExternalFunds :
            TopUpExternally(b, perChunk)
    \/ \E b \in BatchIds, depth \in Depths : IncreaseDepth(b, depth)
=============================================================================
