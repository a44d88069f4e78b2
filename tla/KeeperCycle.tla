---------------------------- MODULE KeeperCycle ----------------------------
(***************************************************************************)
(* One keeper: the scheduled run that lists the active volumes at a pinned *)
(* block, rotates the list, sends one trigger transaction per volume from  *)
(* its wallet and reports what came of it.  Runs do not overlap.  Between  *)
(* any two requests the registry and the mempool move on: other callers    *)
(* create, fund and retire volumes, transactions that a run gave up on are *)
(* mined late, or are evicted and never mined.                             *)
(*                                                                         *)
(* The registry is reduced to its active list and to what _triggerOne      *)
(* would find of each volume.  Nonces are counted from the wallet's next   *)
(* one on the chain, so that mining one lowers all the others.             *)
(***************************************************************************)
EXTENDS Integers, FiniteSets, SequencesExt

CONSTANTS
    Volumes,
    Selected,      \* VOLUME_IDS: the list of mode "selected"
    PageSize,
    Limits,        \* values of maxVolumesPerCycle
    MaxPool,       \* bound: nonces ahead of the chain
    Forgets,       \* TRUE: the network may mine what the keeper's node evicted
    NoNonce

Needs == {"healthy", "deficit", "unpaid", "dying"}

ASSUME KeeperAssumption ==
    /\ Selected \in Seq(Volumes)
    /\ PageSize \in Nat \ {0}
    /\ Limits \subseteq Nat \ {0}
    /\ MaxPool \in Nat
    /\ Forgets \in BOOLEAN
    /\ NoNonce \notin Int

VARIABLES
    active,    \* _activeVolumeIds
    state,     \* volume -> what a trigger finds, or "none" or "retired"
    pool,      \* pending transactions of the wallet that the node knows
    lost,      \* pending transactions it forgot
    config,    \* the deployment's mode and maxVolumesPerCycle
    run,       \* the local state of the run
    report,    \* of the last run, until the next one begins
    served,    \* history: volumes found or made healthy during the run
    calm       \* from now on no request fails and nothing is evicted

chainVars == <<active, state>>
vars == <<chainVars, pool, lost, config, run, report, served, calm>>

Idle == [pc |-> "idle", pinned |-> << >>, page |-> 0, ids |-> << >>,
         plan |-> << >>, i |-> 1, nonce |-> NoNonce, own |-> NoNonce,
         receipt |-> "none", warned |-> FALSE, failed |-> FALSE]

NoReport == [status |-> "none", maintained |-> FALSE]

Init ==
    /\ active = << >>
    /\ state = [v \in Volumes |-> "none"]
    /\ pool = {} /\ lost = {}
    /\ config \in [mode : {"all", "selected"}, limit : Limits]
    /\ run = Idle
    /\ report = NoReport
    /\ served = {}
    /\ calm = FALSE

-----------------------------------------------------------------------------
(* The registry.                                                           *)

(* What the receipt of a trigger says of a volume in each state.           *)
Answer == [healthy |-> "noop", deficit |-> "toppedUp", unpaid |-> "topupSkipped",
           dying |-> "retired", retired |-> "topupSkipped"]

(* _retire                                                                 *)
SwapAndPop(v) ==
    LET last == Len(active)
    IN  [i \in 1 .. last - 1 |-> IF active[i] = v THEN active[last] ELSE active[i]]

(* A trigger of v is executed.                                             *)
Execute(v) ==
    /\ state' = [state EXCEPT ![v] = CASE @ = "deficit" -> "healthy"
                                       [] @ = "dying"   -> "retired"
                                       [] OTHER         -> @]
    /\ active' = IF state[v] = "dying" THEN SwapAndPop(v) ELSE active
    /\ served' = IF run.pc # "idle" /\ state[v] \in {"healthy", "deficit"}
                 THEN served \cup {v} ELSE served

Create(v) ==
    /\ state[v] = "none"
    /\ active' = Append(active, v)
    /\ \E need \in Needs : state' = [state EXCEPT ![v] = need]
    /\ UNCHANGED <<pool, lost, config, run, report, served, calm>>

(* Blocks pass, prices and payers change, other keepers top up.            *)
Change(v) ==
    /\ state[v] \in Needs
    /\ \E need \in Needs \ {state[v]} : state' = [state EXCEPT ![v] = need]
    /\ UNCHANGED <<active, pool, lost, config, run, report, served, calm>>

(* The owner deletes the volume, or another keeper's trigger retires it.   *)
RetiredByOthers(v) ==
    /\ state[v] \in Needs
    /\ state' = [state EXCEPT ![v] = "retired"]
    /\ active' = SwapAndPop(v)
    /\ UNCHANGED <<pool, lost, config, run, report, served, calm>>

-----------------------------------------------------------------------------
(* The wallet's transactions.                                              *)

Down(n) == IF n = NoNonce \/ n < 0 THEN n ELSE n - 1
Shifted(txs) == {[tx EXCEPT !.nonce = @ - 1] : tx \in {t \in txs : t.nonce > 0}}

(* The volume the run is at.                                               *)
Current == run.plan[run.i]

(* What the run reads once its nonce is used: a receipt of its own trigger *)
(* or of the transaction that took its place, in which no event names the  *)
(* volume.                                                                 *)
ReceiptOf(tx, reverts) ==
    IF reverts THEN "reverted"
    ELSE IF tx.vol = Current THEN Answer[state[tx.vol]]
    ELSE "noop"

(* A transaction with the next nonce is mined; another one with that nonce *)
(* never will be.                                                          *)
Mine(tx, reverts) ==
    /\ tx \in pool \cup lost
    /\ tx.nonce = 0
    /\ pool' = Shifted(pool)
    /\ lost' = Shifted(lost)
    /\ IF reverts THEN UNCHANGED <<chainVars, served>> ELSE Execute(tx.vol)
    /\ run' = [run EXCEPT
                  !.nonce = Down(@),
                  !.own = IF @ = 0 THEN NoNonce ELSE Down(@),
                  !.receipt = IF run.own = 0 THEN ReceiptOf(tx, reverts) ELSE @]
    /\ UNCHANGED <<config, report, calm>>

(* The node forgets a pending transaction.                                 *)
Evict(tx) ==
    /\ ~calm
    /\ tx \in pool
    /\ pool' = pool \ {tx}
    /\ lost' = IF Forgets THEN lost \cup {tx} ELSE lost
    /\ UNCHANGED <<chainVars, config, run, report, served, calm>>

(* getTransactionCount(pending): the first nonce the node has not seen.    *)
PendingNonce ==
    CHOOSE n \in 0 .. MaxPool :
        /\ \A tx \in pool : tx.nonce # n
        /\ \A k \in 0 .. n - 1 : \E tx \in pool : tx.nonce = k

-----------------------------------------------------------------------------
(* The run.                                                                *)

(* The list is read at one block: getBlockNumber.                          *)
Begin ==
    /\ run.pc = "idle"
    /\ run' = [Idle EXCEPT !.pc = "listing", !.pinned = active]
    /\ report' = NoReport
    /\ UNCHANGED <<chainVars, pool, lost, config, served, calm>>

(* The pages of the list, or the selected volumes' records.                *)
Pages == IF config.mode = "all" THEN (Len(run.pinned) + PageSize - 1) \div PageSize
                                ELSE Len(Selected)

(* getActiveVolumes(p * PageSize, PageSize)                                *)
PageOf(list, p) == SubSeq(list, p * PageSize + 1, Min({(p + 1) * PageSize, Len(list)}))

(* Mutant of ReadPage: each page is read at the latest block.              *)
ReadPageLatest ==
    /\ run.pc = "listing" /\ config.mode = "all"
    /\ run.page < Pages
    /\ run' = [run EXCEPT !.page = @ + 1,
                          !.ids = @ \o PageOf(active, run.page)]
    /\ UNCHANGED <<chainVars, pool, lost, config, report, served, calm>>

(* One page of collectActiveVolumes.                                       *)
ReadPage ==
    /\ run.pc = "listing" /\ config.mode = "all"
    /\ run.page < Pages
    /\ run' = [run EXCEPT !.page = @ + 1,
                          !.ids = @ \o PageOf(run.pinned, run.page)]
    /\ UNCHANGED <<chainVars, pool, lost, config, report, served, calm>>

(* The record of a selected volume, as of the pinned block, so that it     *)
(* matters not when it is read; one that is not Active is warned about.    *)
ReadSelected ==
    /\ run.pc = "listing" /\ config.mode = "selected"
    /\ run.page < Pages
    /\ LET v == Selected[run.page + 1]
       IN  run' = IF v \in ToSet(run.pinned)
                  THEN [run EXCEPT !.page = @ + 1, !.ids = Append(@, v)]
                  ELSE [run EXCEPT !.page = @ + 1, !.warned = TRUE]
    /\ UNCHANGED <<chainVars, pool, lost, config, report, served, calm>>

(* The volumes a run is responsible for.                                   *)
Listed == ToSet(IF config.mode = "all" THEN run.pinned ELSE Selected)

(* The report of a run that ended in r; maintained is a history variable.  *)
Finish(r) ==
    /\ report' = [status |-> IF r.failed THEN "failure"
                             ELSE IF r.warned THEN "warning" ELSE "ok",
                  maintained |-> Listed \subseteq served]
    /\ run' = Idle
    /\ served' = {}
    /\ UNCHANGED <<chainVars, pool, lost, config, calm>>

ReadFails ==
    /\ ~calm
    /\ run.pc = "listing"
    /\ Finish([run EXCEPT !.failed = TRUE])

(* Mutants of Rotated: the list as it was read, and one entry repeated.    *)
RotatedNot(list, start) == list
RotatedOverlap(list, start) == SubSeq(list, start + 1, Len(list)) \o SubSeq(list, 1, start + 1)

(* rotateVolumes: start is a hash of the block, modulo the length.         *)
Rotated(list, start) == SubSeq(list, start + 1, Len(list)) \o SubSeq(list, 1, start)

Cut(list) == SubSeq(list, 1, Min({config.limit, Len(list)}))

(* The first of the rotated list; a list cut at the limit is warned about. *)
Plan(start) ==
    /\ run.pc = "listing" /\ run.page = Pages
    /\ start < Len(run.ids)
    /\ run' = [run EXCEPT !.pc = "next", !.ids = << >>, !.page = 0,
                          !.plan = Cut(Rotated(run.ids, start)),
                          !.warned = @ \/ config.limit < Len(run.ids)]
    /\ UNCHANGED <<chainVars, pool, lost, config, report, served, calm>>

NothingToDo ==
    /\ run.pc = "listing" /\ run.page = Pages
    /\ run.ids = << >>
    /\ Finish(run)

Done == run.pc = "next" /\ run.i > Len(run.plan) /\ Finish(run)

(* cycleTimeout is up; the first volume is always tried.                   *)
Deadline ==
    /\ run.pc = "next"
    /\ run.i \in 2 .. Len(run.plan)
    /\ Finish([run EXCEPT !.warned = TRUE])

(* readSending, once per run and after every failure.                      *)
ReadSending ==
    /\ run.pc = "next" /\ run.i <= Len(run.plan)
    /\ run.nonce = NoNonce
    /\ PendingNonce < MaxPool
    /\ run' = [run EXCEPT !.pc = "send", !.nonce = PendingNonce]
    /\ UNCHANGED <<chainVars, pool, lost, config, report, served, calm>>

Sending == run.pc \in {"next", "send"} /\ run.i <= Len(run.plan) /\ run.nonce # NoNonce

(* sendOne gives up on a volume: nonce and fees are read again.            *)
Failed(r) == [r EXCEPT !.pc = "next", !.i = @ + 1, !.failed = TRUE, !.nonce = NoNonce,
                       !.own = NoNonce, !.receipt = "none"]

(* The node takes a transaction whose nonce is not used; a pending one     *)
(* with that nonce is replaced.                                            *)
Broadcast ==
    LET replaced == {tx \in pool : tx.nonce = run.nonce}
    IN  /\ run.nonce \in 0 .. MaxPool - 1
        /\ pool' = (pool \ replaced) \cup {[nonce |-> run.nonce, vol |-> Current]}
        /\ lost' = IF Forgets THEN lost \cup replaced ELSE lost

(* Estimation and sending succeed.                                         *)
Send ==
    /\ Sending
    /\ Broadcast
    /\ run' = [run EXCEPT !.pc = "wait", !.own = run.nonce, !.nonce = @ + 1]
    /\ UNCHANGED <<chainVars, config, report, served, calm>>

(* The request fails, although the transaction was sent.                   *)
SendThrows ==
    /\ ~calm
    /\ Sending
    /\ Broadcast
    /\ run' = Failed(run)
    /\ UNCHANGED <<chainVars, config, report, served, calm>>

(* Estimation, or a request before it, fails, or the node refuses: the     *)
(* nonce is used already, or the fees do not suffice to replace.           *)
SendFails ==
    /\ run.pc \in {"next", "send"} /\ run.i <= Len(run.plan)
    /\ \/ ~calm
       \/ run.nonce = -1
       \/ \E tx \in pool : tx.nonce = run.nonce
    /\ run' = Failed(run)
    /\ UNCHANGED <<chainVars, pool, lost, config, report, served, calm>>

(* waitForTransactionReceipt                                               *)
Receipt ==
    /\ run.pc = "wait" /\ run.receipt # "none"
    /\ run' = [run EXCEPT !.pc = "next", !.i = @ + 1, !.receipt = "none",
                          !.warned = @ \/ run.receipt \in {"retired", "topupSkipped"},
                          !.failed = @ \/ run.receipt = "reverted"]
    /\ UNCHANGED <<chainVars, pool, lost, config, report, served, calm>>

(* receiptTimeout, whether or not the transaction is mined later.          *)
Timeout ==
    /\ run.pc = "wait"
    /\ run' = Failed(run)
    /\ UNCHANGED <<chainVars, pool, lost, config, report, served, calm>>

-----------------------------------------------------------------------------
RunStep ==
    \/ Begin \/ ReadPage \/ ReadSelected \/ ReadFails
    \/ \E start \in 0 .. Len(run.ids) - 1 : Plan(start)
    \/ NothingToDo \/ Done \/ Deadline
    \/ ReadSending \/ Send \/ SendThrows \/ SendFails \/ Receipt \/ Timeout

(* The platform stops the run: it leaves no report, only what it sent.     *)
Killed ==
    /\ ~calm
    /\ run.pc # "idle"
    /\ run' = Idle
    /\ served' = {}
    /\ UNCHANGED <<chainVars, pool, lost, config, report, calm>>

Quiet ==
    /\ calm' = TRUE
    /\ UNCHANGED <<chainVars, pool, lost, config, run, report, served>>

WorldNext ==
    \/ \E v \in Volumes : Create(v) \/ Change(v) \/ RetiredByOthers(v)
    \/ \E tx \in pool \cup lost :
          Mine(tx, FALSE) \/ (~calm /\ Mine(tx, TRUE)) \/ Evict(tx)
    \/ Killed
    \/ Quiet

Next == RunStep \/ WorldNext

Spec == Init /\ [][Next]_vars

(* Runs start and go on; what is pending is mined; and the hash of the     *)
(* block gives every start of the list again and again.                    *)
FairSpec ==
    /\ Spec
    /\ WF_vars(RunStep)
    /\ WF_vars(\E tx \in pool \cup lost : Mine(tx, FALSE))
    /\ \A start \in 0 .. Cardinality(Volumes) - 1 : SF_vars(Plan(start))

-----------------------------------------------------------------------------
(* Properties.                                                             *)

Run == [pc : {"idle", "listing", "next", "send", "wait"},
        pinned : Seq(Volumes), page : Nat, ids : Seq(Volumes), plan : Seq(Volumes),
        i : Nat \ {0}, nonce : -1 .. MaxPool \cup {NoNonce},
        own : 0 .. MaxPool \cup {NoNonce},
        receipt : {"none", "reverted", "noop", "toppedUp", "topupSkipped", "retired"},
        warned : BOOLEAN, failed : BOOLEAN]

(* Every variable has its type; a run that lists all volumes plans none    *)
(* twice, and the node never holds two transactions with one nonce.        *)
KeeperTypeOK ==
    /\ active \in Seq(Volumes) /\ IsInjective(active)
    /\ \A v \in Volumes : state[v] \in Needs <=> v \in ToSet(active)
    /\ pool \cup lost \subseteq [nonce : 0 .. MaxPool - 1, vol : Volumes]
    /\ \A t, u \in pool : t.nonce = u.nonce => t = u
    /\ run \in Run
    /\ config.mode = "all" => IsInjective(run.plan)
    /\ run.pc = "send" \/ run.pc = "wait" => run.i <= Len(run.plan)
    /\ report.status \in {"none", "ok", "warning", "failure"}
    /\ served \subseteq Volumes

(* KEEPERS.md: monitoring answers "did the latest scheduled keeper run     *)
(* maintain its volumes?".  A run that reports neither a failure nor a     *)
(* warning has seen every volume it lists, at the pinned block Active, to  *)
(* be healthy or made it so by a transaction mined since it began.         *)
OkMeansMaintained == report.status = "ok" => report.maintained

(* rotateVolumes: "Starting each cycle at a different place moves the      *)
(* deferred set around".  When the pages are read, each volume of the      *)
(* pinned list has for each place of the plan a start that puts it there,  *)
(* wherever the pages were cut: as many starts as the limit plan it, and   *)
(* no volume is in a tail that every run defers.                           *)
NoTailIsStarved ==
    config.mode = "all" /\ run.pc = "listing" /\ run.page = Pages =>
        \A v \in ToSet(run.pinned) :
            \A place \in 1 .. Min({config.limit, Len(run.pinned)}) :
                \E start \in 0 .. Len(run.ids) - 1 :
                    LET plan == Cut(Rotated(run.ids, start))
                    IN  place <= Len(plan) /\ plan[place] = v

(* Once requests go through, a volume that needs something gets it, in     *)
(* whatever place of the list it is and however early each run is cut:     *)
(* rotation leaves no tail to starve, and neither does an evicted or late  *)
(* transaction, or one that left a gap in the wallet's nonces.             *)
DueVolumesAreReached ==
    config.mode = "all" => \A v \in Volumes :
        (calm /\ state[v] \in {"deficit", "dying"})
            ~> state[v] \notin {"deficit", "dying"}
=============================================================================
