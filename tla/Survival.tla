------------------------------ MODULE Survival ------------------------------
(***************************************************************************)
(* The promise a volume buys (DESIGN section 5, I6): when the registry     *)
(* creates, imports or tops up a volume, its batch lives for graceBlocks   *)
(* more blocks even if no keeper ever calls again, as long as the price    *)
(* does not rise and the batch owner does not dilute the batch.            *)
(***************************************************************************)
EXTENDS VolumeRegistry

VARIABLE until    \* history: the block before which a batch was promised to live

svars == <<vars, until>>

SInit == Init /\ until = [b \in BatchIds |-> 0]

(* The step is a call that leaves batch b with the full runway.            *)
Funds(b) ==
    \/ \E id \in VolumeIds : volumes[id].batchId = b /\ TriggerTopsUp(id)
    \/ \E o \in Owners, ttl \in Ttls : ImportVolume(o, b, ttl)
    \/ /\ nextNonce < MaxMint
       /\ b = Minted(nextNonce)
       /\ nextNonce' # nextNonce

(* The price rises, or the owner of b increases its depth.                 *)
Voids(b) ==
    \/ lastPrice' > lastPrice
    \/ Live(b) /\ batches'[b].depth # batches[b].depth

SNext ==
    /\ Next
    /\ until' = [b \in BatchIds |->
                    IF Funds(b) THEN now + GraceBlocks
                    ELSE IF Voids(b) THEN 0
                    ELSE until[b]]

SSpec == SInit /\ [][SNext]_svars

(* I6 at a flat or falling price: no batch dies before the block it was    *)
(* promised to reach.                                                      *)
PromisesAreKept == \A b \in BatchIds : now < until[b] => Live(b)

(* Why: what a promised batch has left pays for every block still promised *)
(* at the current price.                                                   *)
PromisesAreCovered ==
    \A b \in BatchIds : now < until[b] =>
        /\ Exists(b)
        /\ Remaining(b) >= (until[b] - now) * lastPrice
=============================================================================
