---------------------------- MODULE KeeperWorker ----------------------------
(***************************************************************************)
(* The scheduled runs of one deployment of the keeper, in time: its cron   *)
(* fires every Interval whether or not the previous run has ended.  A run  *)
(* checks its configuration, probes the endpoints, runs a keeper cycle     *)
(* against timeouts, reads the balance, reports and alerts.                *)
(*                                                                         *)
(* A phase that waits takes any time up to the timeouts of the requests it *)
(* makes; Request is the most that one request costs at one endpoint, its  *)
(* retries included.  What a cycle does to the registry is in KeeperCycle. *)
(***************************************************************************)
EXTENDS KeeperReport

CONSTANTS
    Deployments,    \* [on, unset, malformed, limit, size]: the bindings of each
    Interval,       \* of the cron
    ProbeTimeout,   \* PROBE_TIMEOUT_MS
    Request,        \* REQUEST_TIMEOUT_MS, for every attempt of a request
    CycleTimeout,   \* CYCLE_TIMEOUT_MS
    ReceiptTimeout, \* RECEIPT_TIMEOUT_MS
    AlertTimeout,   \* of the request to Telegram
    KeepsFailovers  \* TRUE: runs keep the history variable fellBack

Required == {"DEPLOYMENT_NAME", "CHAIN_ID", "REGISTRY_ADDRESS", "PRIVATE_KEY", "RPC_URL",
             "TELEGRAM_BOT_TOKEN", "TELEGRAM_CHAT_ID", "MIN_BALANCE_WEI",
             "MAX_VOLUMES_PER_CYCLE", "CYCLE_TIMEOUT_MS", "RECEIPT_TIMEOUT_MS"}

(* The bindings, in the order readConfig looks at them.                    *)
KeyOrder == <<"DEPLOYMENT_NAME", "CHAIN_ID", "REGISTRY_ADDRESS", "PRIVATE_KEY", "RPC_URL",
              "TELEGRAM_BOT_TOKEN", "TELEGRAM_CHAT_ID", "VOLUME_IDS", "MIN_BALANCE_WEI",
              "NOTIFY_WARNINGS", "DRY_RUN", "MAX_VOLUMES_PER_CYCLE", "PAGE_SIZE",
              "CYCLE_TIMEOUT_MS", "RECEIPT_TIMEOUT_MS", "CONFIRMATIONS">>
Keys == Range(KeyOrder)

(* Bindings that turn something on: flags, a list of ids, a floor above 0. *)
Settings == {"NOTIFY_WARNINGS", "DRY_RUN", "VOLUME_IDS", "MIN_BALANCE_WEI"}

ASSUME WorkerAssumption ==
    /\ Deployments \subseteq [on : SUBSET Settings, unset : SUBSET Keys,
                              malformed : SUBSET (Keys \ {"DEPLOYMENT_NAME"}),
                              limit : Nat \ {0}, size : [Keys -> Nat]]
    /\ ProbeTimeout \in Nat /\ Request \in Nat /\ CycleTimeout \in Nat
    /\ ReceiptTimeout \in Nat /\ AlertTimeout \in Nat
    /\ Interval \in Nat \ {0}
    /\ KeepsFailovers \in BOOLEAN

VARIABLES
    env,    \* the bindings
    clock,  \* time since the cron last fired
    runs    \* the latest run, and the one before while it goes on

vars == <<env, clock, runs>>

Slots == {"earlier", "latest"}

NoRun == [pc |-> "idle", left |-> 0, usable |-> {}, began |-> 0, count |-> 0, gone |-> 0,
          vols |-> << >>, sending |-> FALSE, error |-> FALSE, balance |-> "unread",
          fellBack |-> FALSE, alert |-> "none"]

Init ==
    /\ env \in Deployments
    /\ clock = 0
    /\ runs = [w \in Slots |-> NoRun]

-----------------------------------------------------------------------------
(* Configuration.                                                          *)

Telegram == {"TELEGRAM_BOT_TOKEN", "TELEGRAM_CHAT_ID"}

(* Mutant of Problems: the chat is not checked.                            *)
ProblemsButChat == (env.malformed \cup (env.unset \cap Required)) \ {"TELEGRAM_CHAT_ID"}

(* readConfig names every binding that is malformed or missing.            *)
Problems == env.malformed \cup (env.unset \cap Required)

(* readTelegramConfig, whatever else is wrong.                             *)
CanAlert == Telegram \cap (env.malformed \cup env.unset) = {}

Dry == "DRY_RUN" \in env.on

NotifyWarnings == Problems = {} /\ "NOTIFY_WARNINGS" \in env.on

-----------------------------------------------------------------------------
(* Reports.                                                                *)

ConfigIssue(key) == When(key \in Problems, ProblemOf(env, key))

(* The report of a finished run: of an invalid configuration, of a run     *)
(* without an endpoint, or of its cycle.                                   *)
ReportOf(r) ==
    IF Problems # {} THEN AbortedReport(env, Each(ConfigIssue, KeyOrder))
    ELSE IF r.usable = {} THEN AbortedReport(env, NoEndpointProblems)
    ELSE CycleReport(r, env)

Alerts(r) == CanAlert /\ ShouldNotify(ReportOf(r), NotifyWarnings)

(* The run reports; it ends there, or after the request to Telegram.       *)
Conclude(r) ==
    IF Alerts(r) THEN [r EXCEPT !.pc = "alert", !.left = AlertTimeout]
    ELSE [r EXCEPT !.pc = "end", !.left = 0]

-----------------------------------------------------------------------------
(* Time.                                                                   *)

Running(r) == r.pc \notin {"idle", "end"}

Age(w) == IF w = "latest" THEN clock ELSE clock + Interval

(* Mutant of RequestTime: a failed walk of the endpoints is repeated once  *)
(* for each of them.                                                       *)
RequestTimeSquared(usable) == Cardinality(usable) * Cardinality(usable) * Request

(* The most a request may take: every endpoint hangs, one after the other. *)
RequestTime(usable) == Cardinality(usable) * Request

Enter(r, pc, time) == [r EXCEPT !.pc = pc, !.left = time]

(* Time passes while no run has used up its present phase.  A run that has *)
(* ended leaves nothing behind.                                            *)
Pass ==
    /\ clock < Interval
    /\ \A w \in Slots : Running(runs[w]) => runs[w].left > 0
    /\ clock' = clock + 1
    /\ runs' = [w \in Slots |-> IF Running(runs[w]) THEN [runs[w] EXCEPT !.left = @ - 1]
                                ELSE NoRun]
    /\ UNCHANGED env

(* The cron fires: scheduled, runScheduled and readConfig.  An invalid     *)
(* configuration is reported at once.                                      *)
Tick ==
    /\ clock = Interval
    /\ ~Running(runs["earlier"])
    /\ clock' = 0
    /\ runs' = [earlier |-> IF Running(runs["latest"]) THEN runs["latest"] ELSE NoRun,
                latest  |-> IF Problems = {} THEN Enter(NoRun, "probe", ProbeTimeout)
                            ELSE Conclude(NoRun)]
    /\ UNCHANGED env

-----------------------------------------------------------------------------
(* The steps of a run: each ends a phase and enters the next one.          *)

(* A request that the primary leaves to another usable endpoint.           *)
MayFallBack(r) == KeepsFailovers /\ 1 \in r.usable /\ r.usable # {1}

(* A run in phase pc goes on; the requests of the phase may have fallen    *)
(* back.                                                                   *)
Step(w, pc, next) ==
    /\ runs[w].pc = pc
    /\ \E f \in IF MayFallBack(runs[w]) THEN BOOLEAN ELSE {FALSE} :
          runs' = [runs EXCEPT ![w] = [next EXCEPT !.fellBack = @ \/ f]]
    /\ UNCHANGED <<env, clock>>

(* probeEndpoints, and runCycle up to runKeeperCycle, which may request a  *)
(* block number, a count, and the pages.                                   *)
Probed(w, usable) ==
    /\ runs[w].pc = "probe"
    /\ runs' = [runs EXCEPT ![w] =
                   IF usable = {} THEN Conclude(@)
                   ELSE [Enter(@, "list", 3 * RequestTime(usable))
                            EXCEPT !.usable = usable, !.began = Age(w)]]
    /\ UNCHANGED <<env, clock>>

(* After the cycle: what only it needed is gone.                           *)
ToBalance(r) ==
    [Enter(r, "balance", RequestTime(r.usable)) EXCEPT !.began = 0, !.sending = FALSE]

(* Mutant of DeadlinePassed: it is looked at before the first volume only. *)
DeadlinePassedOnce(r, age) == r.vols = << >> /\ age - r.began > CycleTimeout

DeadlinePassed(r, age) == r.vols # << >> /\ age - r.began > CycleTimeout

(* Mutant of AllTried: the limit is warned about, but not applied.         *)
AllTriedUnlimited(r) == Len(r.vols) = r.count

AllTried(r) == Len(r.vols) = Planned(r.count, env.limit)

(* The head of the loop over the volumes.  sendOne reads nonce, block and  *)
(* tip, the tip in up to two requests, unless it has them, and estimates.  *)
Proceed(r, age) ==
    IF AllTried(r) \/ DeadlinePassed(r, age) THEN ToBalance(r)
    ELSE IF Dry THEN Enter(r, "simulate", RequestTime(r.usable))
    ELSE Enter(r, "prepare", (IF r.sending THEN 1 ELSE 3) * RequestTime(r.usable))

(* The list is read.  VOLUME_IDS names MaxVolumes ids.                     *)
Listed(w, count) ==
    LET gone == IF "VOLUME_IDS" \in env.on THEN MaxVolumes - count ELSE 0
    IN  Step(w, "list", Proceed([runs[w] EXCEPT !.count = count, !.gone = gone], Age(w)))

ListFails(w) == Step(w, "list", ToBalance([runs[w] EXCEPT !.error = TRUE]))

(* A volume is done with; after a failure nonce and fees are read again.   *)
After(r, outcome, sending, age) ==
    Proceed([r EXCEPT !.vols = Append(@, outcome), !.sending = sending], age)

Simulated(w, outcome) ==
    Step(w, "simulate", After(runs[w], outcome, FALSE, Age(w)))

Prepared(w) ==
    Step(w, "prepare", [Enter(runs[w], "send", RequestTime(runs[w].usable))
                           EXCEPT !.sending = TRUE])

(* The estimate, or a request before it, fails.                            *)
PrepareFails(w) == Step(w, "prepare", After(runs[w], "unsent", FALSE, Age(w)))

Sent(w) == Step(w, "send", Enter(runs[w], "receipt", ReceiptTimeout))

(* The transaction may have been sent all the same.                        *)
SendFails(w) == Step(w, "send", After(runs[w], "unsent", FALSE, Age(w)))

(* A transaction is mined after it is sent.                                *)
Receipt(w, outcome) ==
    /\ runs[w].left < ReceiptTimeout
    /\ Step(w, "receipt", After(runs[w], outcome, TRUE, Age(w)))

(* No receipt within ReceiptTimeout, or the requests for it fail.          *)
Unconfirmed(w) == Step(w, "receipt", After(runs[w], "failed", FALSE, Age(w)))

BalanceRead(w, balance) ==
    /\ balance = "low" => "MIN_BALANCE_WEI" \in env.on
    /\ Step(w, "balance", Conclude([runs[w] EXCEPT !.balance = balance]))

(* What Telegram takes.                                                    *)
Deliverable(report) == FormatTelegramMessage(report).length <= MaxLength

(* sendTelegram: posted, or why not is logged.                             *)
Notified(w, alert) ==
    /\ runs[w].pc = "alert"
    /\ alert = "sent" => Deliverable(ReportOf(runs[w]))
    /\ runs' = [runs EXCEPT ![w] = [@ EXCEPT !.pc = "end", !.left = 0, !.alert = alert]]
    /\ UNCHANGED <<env, clock>>

RunStep(w) ==
    \/ \E usable \in SUBSET (1 .. Endpoints) : Probed(w, usable)
    \/ \E count \in 0 .. MaxVolumes : Listed(w, count)
    \/ ListFails(w)
    \/ \E outcome \in {"simulated", "unsent"} : Simulated(w, outcome)
    \/ Prepared(w) \/ PrepareFails(w)
    \/ Sent(w) \/ SendFails(w)
    \/ \E outcome \in {"kept", "declined", "failed"} : Receipt(w, outcome)
    \/ Unconfirmed(w)
    \/ \E balance \in {"low", "enough", "unread"} : BalanceRead(w, balance)
    \/ \E alert \in {"sent", "logged"} : Notified(w, alert)

Next == Tick \/ Pass \/ \E w \in Slots : RunStep(w)

Spec == Init /\ [][Next]_vars

-----------------------------------------------------------------------------
(* Properties.                                                             *)

Phases == {"idle", "probe", "list", "simulate", "prepare", "send", "receipt", "balance",
           "alert", "end"}

Run == [pc : Phases, left : Nat, usable : SUBSET (1 .. Endpoints), began : Nat,
        count : 0 .. MaxVolumes, gone : 0 .. MaxVolumes,
        vols : Seq({"kept", "declined", "failed", "unsent", "simulated"}),
        sending : BOOLEAN, error : BOOLEAN, balance : {"unread", "low", "enough"},
        fellBack : BOOLEAN, alert : {"none", "sent", "logged"}]

(* Every variable has its type, and a run attempts no more than it plans.  *)
WorkerTypeOK ==
    /\ env \in Deployments
    /\ clock \in 0 .. Interval
    /\ runs \in [Slots -> Run]
    /\ \A w \in Slots : Len(runs[w].vols) <= Planned(runs[w].count, env.limit)

(* runKeeperCycle.ts: the nonce is counted up locally because "nothing     *)
(* else spends from this wallet mid-cycle".  Runs do overlap, since the    *)
(* budget that config.test.ts checks leaves out most request timeouts; but *)
(* once the next run has started, the earlier one reads no nonce and sends *)
(* no transaction.                                                         *)
OneRunSends == runs["earlier"].pc \notin {"list", "prepare", "send"}

(* A request when every endpoint hangs, and the latest age at which a run  *)
(* turns to a volume.                                                      *)
SlowRequest == Endpoints * Request
LastStart == ProbeTimeout + Max({CycleTimeout, 3 * SlowRequest})
LastSend == LastStart + 4 * SlowRequest

(* However its requests hang, a run ends within the sum of its timeouts:   *)
(* the deadline stops the cycle but for the volume it is at, and nothing   *)
(* is retried without a bound.                                             *)
RunsEndInTime ==
    \A w \in Slots : Running(runs[w]) =>
        Age(w) <= LastSend + ReceiptTimeout + SlowRequest + AlertTimeout

Concluded(r) == r.pc \in {"alert", "end"}

(* A run that reports ok found every endpoint usable, every volume it      *)
(* listed or was asked for, in its one pass, and the wallet's balance:     *)
(* nothing an operator should know is dropped on the way to the report.    *)
QuietRunsAreClean ==
    \A w \in Slots : LET r == runs[w] IN
        (Concluded(r) /\ ReportOf(r).status = "ok") =>
            /\ r.usable = 1 .. Endpoints
            /\ ~r.error /\ r.gone = 0
            /\ r.vols = [i \in 1 .. r.count |-> "kept"]
            /\ r.balance = "enough"

(* How many volumes the warnings about deferrals speak for.                *)
Deferrals(warnings) ==
    Sums([k \in DOMAIN warnings |->
             IF warnings[k].about \in {"limit", "deadline"} THEN warnings[k].n ELSE 0])
        [Len(warnings)]

(* Every volume a cycle listed and did not attempt is counted by a         *)
(* deferral warning, once.                                                 *)
DeferredVolumesAreCounted ==
    \A w \in Slots : LET r == runs[w] IN
        (Concluded(r) /\ Problems = {} /\ r.usable # {}) =>
            r.count - Len(r.vols) = Deferrals(ReportOf(r).warnings)

(* keeper/README.md: "Failures and warnings go to Telegram", warnings      *)
(* where NOTIFY_WARNINGS says so.  An ended run that owed an alert posted  *)
(* it or logged that it could not; if the Telegram bindings themselves are *)
(* at fault, the run is a failure, which fails the invocation.             *)
NoAlertIsLost ==
    \A w \in Slots : LET r == runs[w] report == ReportOf(r) IN
        (r.pc = "end"
            /\ (report.status = "failure"
                  \/ (report.status = "warning" /\ "NOTIFY_WARNINGS" \in env.on))) =>
            r.alert # "none" \/ (~CanAlert /\ report.status = "failure")

(* A message is too long only if its header alone leaves no room for the   *)
(* tail, which a run with a valid configuration and a name of a usual      *)
(* length never meets; and the issues it shows and those it says it left   *)
(* out are all there are.                                                  *)
AlertsFit ==
    \A w \in Slots : runs[w].pc = "alert" =>
        LET report  == ReportOf(runs[w])
            message == FormatTelegramMessage(report)
        IN  /\ message.shown + message.omitted = Len(report.failures) + Len(report.warnings)
            /\ HeaderOf(report) + TailLines <= MaxLength => message.length <= MaxLength
            /\ Problems = {} =>
                  HeaderOf(report) <= HeaderLines + 2 * env.size["DEPLOYMENT_NAME"] + 1

(* telegram.test.ts: a report of whatever length is cut to a message of at *)
(* most TELEGRAM_MAX_LENGTH, "Telegram's hard limit on one message's text" *)
(* (telegram.ts); no alert of a broken deployment is refused for it.       *)
MessagesFit ==
    \A w \in Slots : runs[w].pc = "alert" => Deliverable(ReportOf(runs[w]))

(* KEEPERS.md: "Emit a warning whenever a fallback RPC was required."      *)
FailoverIsObservable ==
    \A w \in Slots : LET r == runs[w] IN
        (Concluded(r) /\ r.fellBack) => ReportOf(r).status # "ok"
=============================================================================
