------------------------- MODULE KeeperWorkerProofs -------------------------
(***************************************************************************)
(* Theorems about KeeperWorker, for every number of endpoints and volumes, *)
(* every deployment and every timeout.                                     *)
(*                                                                         *)
(* The inductive invariant bounds, in each phase, what the run may still   *)
(* spend in it: its age and the time left to the phase together.  The      *)
(* bound of a phase follows from that of the phase before and from the     *)
(* deadline, which the run looks at before every volume but the first.     *)
(* A second invariant bounds what a run can have found by its bindings.    *)
(* What a report then says follows from lemmas about its lists, by         *)
(* induction over the sums and concatenations they are made of.            *)
(***************************************************************************)
EXTENDS KeeperWorker, FiniteSetTheorems, SequenceTheorems, WellFoundedInduction, TLAPS

(* The age at which a run has left each phase.                             *)
PhaseEnd ==
    [probe    |-> ProbeTimeout,
     list     |-> ProbeTimeout + 3 * SlowRequest,
     simulate |-> LastStart + SlowRequest,
     prepare  |-> LastStart + 3 * SlowRequest,
     send     |-> LastSend,
     receipt  |-> LastSend + ReceiptTimeout,
     balance  |-> LastSend + ReceiptTimeout + SlowRequest,
     alert    |-> LastSend + ReceiptTimeout + SlowRequest + AlertTimeout]

InTime(r, age) == Running(r) => age + r.left <= PhaseEnd[r.pc]

(* A run in a volume's phase has one more volume to attempt.               *)
InPlan(r) ==
    /\ Len(r.vols) <= Planned(r.count, env.limit)
    /\ r.pc \in {"idle", "probe", "list"} => r.vols = << >>
    /\ r.pc \in {"simulate", "prepare", "send", "receipt"} =>
          Len(r.vols) < Planned(r.count, env.limit)

(* A run that ended without an alert owed none.                            *)
AlertGiven(r) == r.pc = "end" => r.alert # "none" \/ ~Alerts(r)

GoodRun(r, age) ==
    /\ r \in Run
    /\ r.began <= ProbeTimeout
    /\ InTime(r, age)
    /\ InPlan(r)
    /\ AlertGiven(r)

Inv ==
    /\ env \in Deployments
    /\ clock \in 0 .. Interval
    /\ runs \in [Slots -> Run]
    /\ \A w \in Slots : GoodRun(runs[w], Age(w))

-----------------------------------------------------------------------------
(* Arithmetic of the constants.                                            *)

LEMMA MaxOfTwo ==
    ASSUME NEW a \in Nat, NEW b \in Nat
    PROVE  /\ Max({a, b}) \in {a, b}
           /\ Max({a, b}) >= a
           /\ Max({a, b}) >= b
  <1>1. \E m \in {a, b} : \A y \in {a, b} : m >= y
    <2>1. CASE a >= b
      BY <2>1
    <2>2. CASE b >= a
      BY <2>2
    <2> QED
      BY <2>1, <2>2
  <1> QED
    BY <1>1 DEF Max

LEMMA MinOfTwo ==
    ASSUME NEW a \in Nat, NEW b \in Nat
    PROVE  /\ Min({a, b}) \in {a, b}
           /\ Min({a, b}) <= a
           /\ Min({a, b}) <= b
  <1>1. \E m \in {a, b} : \A y \in {a, b} : m <= y
    <2>1. CASE a <= b
      BY <2>1
    <2>2. CASE b <= a
      BY <2>2
    <2> QED
      BY <2>1, <2>2
  <1> QED
    BY <1>1 DEF Min

LEMMA PlannedNat ==
    ASSUME NEW count \in Nat, env \in Deployments
    PROVE  Planned(count, env.limit) \in Nat
  <1>1. env.limit \in Nat
    BY WorkerAssumption
  <1> QED
    BY <1>1, MinOfTwo DEF Planned

(* The timeouts are naturals, and in order.                                *)
LEMMA Bounds ==
    /\ SlowRequest \in Nat
    /\ LastStart \in Nat /\ LastSend \in Nat
    /\ ProbeTimeout + 3 * SlowRequest <= LastStart
    /\ ProbeTimeout + CycleTimeout <= LastStart
    /\ LastSend = LastStart + 4 * SlowRequest
  <1>1. SlowRequest \in Nat
    BY ReportAssumption, WorkerAssumption DEF SlowRequest
  <1>2. 3 * SlowRequest \in Nat /\ CycleTimeout \in Nat /\ ProbeTimeout \in Nat
    BY <1>1, WorkerAssumption
  <1> DEFINE longest == Max({CycleTimeout, 3 * SlowRequest})
  <1>3. longest \in {CycleTimeout, 3 * SlowRequest}
        /\ longest >= CycleTimeout /\ longest >= 3 * SlowRequest
    BY <1>2, MaxOfTwo
  <1>4. LastStart = ProbeTimeout + longest
    BY DEF LastStart
  <1> HIDE DEF longest
  <1> QED
    BY <1>1, <1>2, <1>3, <1>4 DEF LastSend

(* No more endpoints are usable than there are.                            *)
LEMMA RequestBounded ==
    ASSUME NEW usable \in SUBSET (1 .. Endpoints)
    PROVE  /\ RequestTime(usable) \in Nat
           /\ RequestTime(usable) <= SlowRequest
  <1>1. IsFiniteSet(1 .. Endpoints) /\ Cardinality(1 .. Endpoints) = Endpoints
    BY FS_Interval, ReportAssumption
  <1>2. IsFiniteSet(usable) /\ Cardinality(usable) <= Endpoints
    BY <1>1, FS_Subset
  <1> DEFINE c == Cardinality(usable)
  <1>3. c \in Nat /\ c <= Endpoints
    BY <1>2, FS_CardinalityType
  <1> HIDE DEF c
  <1>4. Endpoints \in Nat /\ Request \in Nat
    BY ReportAssumption, WorkerAssumption
  <1>5. c * Request \in Nat /\ c * Request <= Endpoints * Request
    BY <1>3, <1>4
  <1> QED
    BY <1>5 DEF RequestTime, SlowRequest, c

-----------------------------------------------------------------------------
(* The operators that build the next state of a run.                       *)

(* A report does not depend on the phase of its run, or on the alert.      *)
LEMMA ReportSame ==
    ASSUME NEW r \in Run, NEW s \in Run,
           s.usable = r.usable, s.error = r.error, s.vols = r.vols,
           s.balance = r.balance, s.count = r.count, s.gone = r.gone
    PROVE  ReportOf(s) = ReportOf(r)
  <1>1. CycleWarnings(s, env.limit) = CycleWarnings(r, env.limit)
    BY DEF CycleWarnings
  <1>2. CycleReport(s, env) = CycleReport(r, env)
    BY <1>1 DEF CycleReport
  <1> QED
    BY <1>2 DEF ReportOf

LEMMA EnterType ==
    ASSUME NEW r \in Run, NEW pc \in Phases, NEW time \in Nat
    PROVE  /\ Enter(r, pc, time) \in Run
           /\ Enter(r, pc, time).pc = pc
           /\ Enter(r, pc, time).left = time
           /\ Enter(r, pc, time).began = r.began
           /\ Enter(r, pc, time).count = r.count
           /\ Enter(r, pc, time).vols = r.vols
           /\ Enter(r, pc, time).usable = r.usable
  BY DEF Enter, Run

(* A run may turn to the balance until its last receipt is due.            *)
LEMMA ToBalanceGood ==
    ASSUME env \in Deployments, NEW r \in Run, NEW age \in Nat,
           Len(r.vols) <= Planned(r.count, env.limit),
           age <= LastSend + ReceiptTimeout
    PROVE  GoodRun(ToBalance(r), age)
  <1> DEFINE s    == ToBalance(r)
             time == RequestTime(r.usable)
  <1>1. time \in Nat /\ time <= SlowRequest
    BY RequestBounded DEF Run
  <1>2. ReceiptTimeout \in Nat /\ ProbeTimeout \in Nat
    BY WorkerAssumption
  <1> HIDE DEF time
  <1>3. s \in Run /\ s.pc = "balance" /\ s.left = time /\ s.began = 0
        /\ s.vols = r.vols /\ s.count = r.count
    BY <1>1 DEF ToBalance, Enter, Run, Phases, time
  <1> HIDE DEF s
  <1>4. InTime(s, age)
    BY <1>1, <1>2, <1>3, Bounds DEF InTime, PhaseEnd
  <1>5. InPlan(s) /\ AlertGiven(s) /\ s.began <= ProbeTimeout
    BY <1>2, <1>3 DEF InPlan, AlertGiven
  <1> QED
    BY <1>3, <1>4, <1>5 DEF GoodRun, s

(* A run that turns to its next volume, or to the balance, is in time.     *)
LEMMA ProceedGood ==
    ASSUME env \in Deployments, NEW r \in Run, NEW age \in Nat,
           r.began <= ProbeTimeout,
           Len(r.vols) <= Planned(r.count, env.limit),
           age <= LastSend + ReceiptTimeout,
           r.vols = << >> => age <= LastStart
    PROVE  GoodRun(Proceed(r, age), age)
  <1> DEFINE time  == RequestTime(r.usable)
             plan  == Planned(r.count, env.limit)
             fresh == (IF r.sending THEN 1 ELSE 3) * time
  <1>1. time \in Nat /\ time <= SlowRequest
    BY RequestBounded DEF Run
  <1>2. plan \in Nat
    BY PlannedNat DEF Run
  <1>3. Len(r.vols) \in Nat /\ r.began \in Nat
    BY DEF Run
  <1>4. fresh \in Nat /\ fresh <= 3 * SlowRequest
    <2> HIDE DEF time
    <2> QED
      BY <1>1, Bounds
  <1>5. ReceiptTimeout \in Nat /\ CycleTimeout \in Nat /\ ProbeTimeout \in Nat
    BY WorkerAssumption
  <1> HIDE DEF time, plan, fresh
  <1>6. CASE AllTried(r) \/ DeadlinePassed(r, age)
    <2>1. Proceed(r, age) = ToBalance(r)
      BY <1>6 DEF Proceed
    <2> QED
      BY <2>1, ToBalanceGood
  <1>7. CASE ~AllTried(r) /\ ~DeadlinePassed(r, age)
    <2>1. Len(r.vols) < plan
      BY <1>2, <1>3, <1>7 DEF AllTried, plan
    <2>2. age <= LastStart
      BY <1>3, <1>5, <1>7, Bounds DEF DeadlinePassed
    <2>3. CASE Dry
      <3> DEFINE s == Enter(r, "simulate", time)
      <3>1. Proceed(r, age) = s
        BY <1>7, <2>3 DEF Proceed, time
      <3>2. s \in Run /\ s.pc = "simulate" /\ s.left = time
            /\ s.began = r.began /\ s.vols = r.vols /\ s.count = r.count
        BY <1>1, EnterType DEF Phases
      <3> HIDE DEF s
      <3>3. InTime(s, age)
        BY <1>1, <2>2, <3>2, Bounds DEF InTime, PhaseEnd
      <3>4. InPlan(s) /\ AlertGiven(s)
        BY <2>1, <3>2 DEF InPlan, AlertGiven, plan
      <3> QED
        BY <3>1, <3>2, <3>3, <3>4 DEF GoodRun
    <2>4. CASE ~Dry
      <3> DEFINE s == Enter(r, "prepare", fresh)
      <3>1. Proceed(r, age) = s
        BY <1>7, <2>4 DEF Proceed, time, fresh
      <3>2. s \in Run /\ s.pc = "prepare" /\ s.left = fresh
            /\ s.began = r.began /\ s.vols = r.vols /\ s.count = r.count
        BY <1>4, EnterType DEF Phases
      <3> HIDE DEF s
      <3>3. InTime(s, age)
        BY <1>4, <2>2, <3>2, Bounds DEF InTime, PhaseEnd
      <3>4. InPlan(s) /\ AlertGiven(s)
        BY <2>1, <3>2 DEF InPlan, AlertGiven, plan
      <3> QED
        BY <3>1, <3>2, <3>3, <3>4 DEF GoodRun
    <2> QED
      BY <2>3, <2>4
  <1> QED
    BY <1>6, <1>7

(* A run that concludes alerts within AlertTimeout, if it owes an alert.   *)
LEMMA ConcludeGood ==
    ASSUME env \in Deployments, NEW r \in Run, NEW age \in Nat,
           r.began <= ProbeTimeout,
           Len(r.vols) <= Planned(r.count, env.limit),
           age <= LastSend + ReceiptTimeout + SlowRequest
    PROVE  GoodRun(Conclude(r), age)
  <1> DEFINE s == Conclude(r)
  <1>1. AlertTimeout \in Nat /\ ReceiptTimeout \in Nat
    BY WorkerAssumption
  <1>2. CASE Alerts(r)
    <2>1. s \in Run /\ s.pc = "alert" /\ s.left = AlertTimeout
          /\ s.began = r.began /\ s.vols = r.vols /\ s.count = r.count
      BY <1>1, <1>2 DEF Conclude, Run, Phases
    <2> HIDE DEF s
    <2>2. InTime(s, age)
      BY <1>1, <2>1, Bounds DEF InTime, PhaseEnd
    <2> QED
      BY <2>1, <2>2 DEF GoodRun, InPlan, AlertGiven, s
  <1>3. CASE ~Alerts(r)
    <2>1. s \in Run /\ s.pc = "end" /\ s.usable = r.usable /\ s.error = r.error
          /\ s.balance = r.balance /\ s.gone = r.gone
          /\ s.began = r.began /\ s.vols = r.vols /\ s.count = r.count
      BY <1>3 DEF Conclude, Run, Phases
    <2> HIDE DEF s
    <2>2. ReportOf(s) = ReportOf(r)
      BY <2>1, ReportSame
    <2>3. ~Alerts(s)
      BY <1>3, <2>2 DEF Alerts
    <2> QED
      BY <2>1, <2>3 DEF GoodRun, InTime, InPlan, AlertGiven, Running, s
  <1> QED
    BY <1>2, <1>3

-----------------------------------------------------------------------------
(* Steps.                                                                  *)

(* What is good of a run stays good while the bindings are the same.       *)
LEMMA GoodRunSame ==
    ASSUME NEW r, NEW age, env' = env, GoodRun(r, age)
    PROVE  GoodRun(r, age)'
  <1>1. Problems' = Problems
    BY DEF Problems
  <1>2. Each(ConfigIssue, KeyOrder)' = Each(ConfigIssue, KeyOrder)
    BY <1>1 DEF Each, ConfigIssue
  <1> QED
    BY <1>1, <1>2 DEF GoodRun, InPlan, AlertGiven, Alerts, CanAlert, NotifyWarnings, ReportOf

LEMMA NoRunGood == ASSUME env \in Deployments, NEW age \in Nat PROVE GoodRun(NoRun, age)
  <1>1. NoRun \in Run /\ NoRun.pc = "idle" /\ NoRun.began = 0 /\ NoRun.count = 0
        /\ NoRun.vols = << >> /\ NoRun.left = 0
    <2>1. 0 \in 0 .. MaxVolumes
      BY ReportAssumption
    <2> QED
      BY <2>1 DEF NoRun, Run, Phases
  <1>2. Planned(0, env.limit) \in Nat
    BY PlannedNat
  <1>3. InPlan(NoRun)
    BY <1>1, <1>2 DEF InPlan
  <1> QED
    BY <1>1, <1>3, WorkerAssumption DEF GoodRun, InTime, AlertGiven, Running

(* The history of failovers is in no report.                               *)
LEMMA FellBackGood ==
    ASSUME NEW r \in Run, NEW age \in Nat, NEW f \in BOOLEAN, GoodRun(r, age)
    PROVE  GoodRun([r EXCEPT !.fellBack = @ \/ f], age)
  <1> DEFINE s == [r EXCEPT !.fellBack = @ \/ f]
  <1>1. s \in Run /\ s.pc = r.pc /\ s.left = r.left /\ s.began = r.began
        /\ s.vols = r.vols /\ s.count = r.count /\ s.usable = r.usable
        /\ s.error = r.error /\ s.balance = r.balance /\ s.gone = r.gone
        /\ s.alert = r.alert
    BY DEF Run
  <1> HIDE DEF s
  <1>2. ReportOf(s) = ReportOf(r)
    BY <1>1, ReportSame
  <1>3. Alerts(s) = Alerts(r)
    BY <1>2 DEF Alerts
  <1>4. GoodRun(s, age)
    BY <1>1, <1>3 DEF GoodRun, InTime, InPlan, AlertGiven, Running
  <1> QED
    BY <1>4 DEF s

LEMMA AgeNat == ASSUME clock \in 0 .. Interval, NEW w \in Slots PROVE Age(w) \in Nat
  BY WorkerAssumption DEF Age

(* A step that leaves one run good leaves the invariant.                   *)
LEMMA RunGood ==
    ASSUME Inv, NEW w \in Slots, NEW r, GoodRun(r, Age(w)),
           runs' = [runs EXCEPT ![w] = r], UNCHANGED <<env, clock>>
    PROVE  Inv'
  <1>1. r \in Run
    BY DEF GoodRun
  <1>2. runs' \in [Slots -> Run]
    BY <1>1 DEF Inv
  <1>3. ASSUME NEW v \in Slots PROVE GoodRun(runs[v], Age(v))'
    <2>1. Age(v)' = Age(v)
      BY DEF Age
    <2>2. CASE v = w
      <3>1. runs'[v] = r
        BY <2>2 DEF Inv
      <3> QED
        BY <2>1, <2>2, <3>1, GoodRunSame
    <2>3. CASE v # w
      <3>1. runs'[v] = runs[v] /\ GoodRun(runs[v], Age(v))
        BY <2>3 DEF Inv
      <3> QED
        BY <2>1, <3>1, GoodRunSame
    <2> QED
      BY <2>2, <2>3
  <1> QED
    BY <1>2, <1>3 DEF Inv

LEMMA StepGood ==
    ASSUME Inv, NEW w \in Slots, NEW pc, NEW next, Step(w, pc, next), GoodRun(next, Age(w))
    PROVE  Inv'
  <1>1. PICK f \in BOOLEAN : runs' = [runs EXCEPT ![w] = [next EXCEPT !.fellBack = @ \/ f]]
    BY DEF Step
  <1>2. Age(w) \in Nat
    BY AgeNat DEF Inv
  <1>3. GoodRun([next EXCEPT !.fellBack = @ \/ f], Age(w))
    BY <1>2, FellBackGood DEF GoodRun
  <1>4. UNCHANGED <<env, clock>>
    BY DEF Step
  <1> HIDE DEF Inv
  <1> QED
    BY <1>1, <1>3, <1>4, RunGood

(* A volume is done with.                                                  *)
LEMMA AfterGood ==
    ASSUME env \in Deployments, NEW r \in Run, NEW age \in Nat, GoodRun(r, age),
           r.pc \in {"simulate", "prepare", "send", "receipt"},
           NEW outcome \in {"kept", "declined", "failed", "unsent", "simulated"},
           NEW sending \in BOOLEAN
    PROVE  GoodRun(After(r, outcome, sending, age), age)
  <1> DEFINE vols == Append(r.vols, outcome)
             s    == [r EXCEPT !.vols = vols, !.sending = sending]
  <1>0. vols \in Seq({"kept", "declined", "failed", "unsent", "simulated"})
        /\ Len(vols) = Len(r.vols) + 1
    BY DEF Run
  <1> HIDE DEF vols
  <1>1. s \in Run /\ s.vols = vols /\ s.began = r.began /\ s.count = r.count
    BY <1>0 DEF Run
  <1>2. Planned(r.count, env.limit) \in Nat /\ Len(r.vols) \in Nat
    BY PlannedNat DEF Run
  <1>3. Len(r.vols) < Planned(r.count, env.limit)
    BY DEF GoodRun, InPlan
  <1>4. Len(s.vols) = Len(r.vols) + 1
    BY <1>0, <1>1
  <1> HIDE DEF s
  <1>5. Len(s.vols) <= Planned(s.count, env.limit) /\ s.vols # << >>
    BY <1>1, <1>2, <1>3, <1>4
  <1>6. ReceiptTimeout \in Nat /\ r.left \in Nat
    BY WorkerAssumption DEF Run
  <1>7. age <= LastSend + ReceiptTimeout
    BY <1>6, Bounds DEF GoodRun, InTime, PhaseEnd, Running
  <1>8. s.began <= ProbeTimeout
    BY <1>1 DEF GoodRun
  <1>9. GoodRun(Proceed(s, age), age)
    BY <1>1, <1>5, <1>7, <1>8, ProceedGood
  <1> QED
    BY <1>9 DEF After, s, vols

(* Time passes: a run has as much less left as it is older.                *)
LEMMA PassGood == Inv /\ Pass => Inv'
  <1> SUFFICES ASSUME Inv, Pass PROVE Inv'
    OBVIOUS
  <1>1. clock \in 0 .. Interval /\ clock' = clock + 1 /\ clock' \in 0 .. Interval /\ env' = env
    BY WorkerAssumption DEF Inv, Pass
  <1>2. ASSUME NEW w \in Slots PROVE runs'[w] \in Run /\ GoodRun(runs[w], Age(w))'
    <2> DEFINE r == runs[w]
    <2>1. GoodRun(r, Age(w)) /\ r \in Run
      BY DEF Inv
    <2>2. Age(w) \in Nat /\ Age(w)' = Age(w) + 1
      BY <1>1, AgeNat, WorkerAssumption DEF Age
    <2>3. CASE Running(r)
      <3> DEFINE s == [r EXCEPT !.left = @ - 1]
      <3>1. runs'[w] = s /\ r.left > 0
        BY <2>3 DEF Pass
      <3>2. s \in Run /\ s.left = r.left - 1 /\ s.pc = r.pc /\ s.began = r.began
            /\ s.vols = r.vols /\ s.count = r.count /\ r.left \in Nat
        <4>1. r.left \in Nat \ {0} /\ r.left - 1 \in Nat
          BY <2>1, <3>1 DEF Run
        <4>2. s \in Run
          BY <2>1, <4>1 DEF Run
        <4>3. s.left = r.left - 1 /\ s.pc = r.pc /\ s.began = r.began
              /\ s.vols = r.vols /\ s.count = r.count
          BY <2>1 DEF Run
        <4> QED
          BY <4>1, <4>2, <4>3
      <3> HIDE DEF s
      <3>3. InTime(s, Age(w) + 1)
        BY <2>1, <2>2, <2>3, <3>2 DEF GoodRun, InTime, Running
      <3>4. InPlan(s) /\ AlertGiven(s) /\ s.began <= ProbeTimeout
        BY <2>1, <2>3, <3>2 DEF GoodRun, InPlan, AlertGiven, Running
      <3>5. GoodRun(s, Age(w) + 1)
        BY <3>2, <3>3, <3>4 DEF GoodRun
      <3> QED
        BY <1>1, <2>2, <3>1, <3>2, <3>5, GoodRunSame
    <2>4. CASE ~Running(r)
      <3>1. runs'[w] = NoRun
        BY <2>4 DEF Pass
      <3>2. GoodRun(NoRun, Age(w) + 1)
        BY <2>2, NoRunGood DEF Inv
      <3>3. NoRun \in Run
        BY <3>2 DEF GoodRun
      <3> QED
        BY <1>1, <2>2, <3>1, <3>2, <3>3, GoodRunSame
    <2> QED
      BY <2>3, <2>4
  <1>3. runs' \in [Slots -> Run]
    BY <1>2 DEF Pass
  <1> QED
    BY <1>1, <1>2, <1>3 DEF Inv

(* The next run starts; the latest one, if it still runs, is the earlier.  *)
LEMMA TickGood == Inv /\ Tick => Inv'
  <1> SUFFICES ASSUME Inv, Tick PROVE Inv'
    OBVIOUS
  <1> DEFINE late == IF Running(runs["latest"]) THEN runs["latest"] ELSE NoRun
             new  == IF Problems = {} THEN Enter(NoRun, "probe", ProbeTimeout) ELSE Conclude(NoRun)
  <1>1. clock = Interval /\ clock' = 0 /\ env' = env /\ env \in Deployments
        /\ Interval \in Nat /\ ProbeTimeout \in Nat
    BY WorkerAssumption DEF Inv, Tick
  <1>2. runs' = [earlier |-> late, latest |-> new]
    BY DEF Tick
  <1>3. Age("earlier")' = Interval /\ Age("latest") = Interval /\ Age("latest")' = 0
    BY <1>1 DEF Age
  <1>4. GoodRun(NoRun, Interval) /\ GoodRun(NoRun, 0)
    BY <1>1, NoRunGood
  <1>5. GoodRun(late, Interval)
    BY <1>3, <1>4 DEF Inv, Slots
  <1>6. GoodRun(new, 0)
    <2>1. NoRun \in Run /\ NoRun.began <= ProbeTimeout /\ NoRun.vols = << >>
          /\ Len(NoRun.vols) <= Planned(NoRun.count, env.limit)
      BY <1>4 DEF GoodRun, InPlan, NoRun
    <2>2. CASE Problems = {}
      <3> DEFINE s == Enter(NoRun, "probe", ProbeTimeout)
      <3>0. "probe" \in Phases /\ ProbeTimeout \in Nat
        BY <1>1 DEF Phases
      <3>1. s \in Run /\ s.pc = "probe" /\ s.left = ProbeTimeout /\ s.began = NoRun.began
            /\ s.count = NoRun.count /\ s.vols = NoRun.vols
        BY <2>1, <3>0, EnterType
      <3> HIDE DEF s
      <3>2. GoodRun(s, 0)
        BY <1>1, <2>1, <3>1 DEF GoodRun, InTime, InPlan, AlertGiven, PhaseEnd
      <3> QED
        BY <2>2, <3>2 DEF s
    <2>3. CASE Problems # {}
      <3>1. ReceiptTimeout \in Nat
        BY WorkerAssumption
      <3>2. 0 <= LastSend + ReceiptTimeout + SlowRequest
        BY <3>1, Bounds
      <3>3. GoodRun(Conclude(NoRun), 0)
        BY <1>1, <2>1, <3>2, ConcludeGood
      <3> QED
        BY <2>3, <3>3
    <2> QED
      BY <2>2, <2>3
  <1> HIDE DEF late, new
  <1>7. runs'["earlier"] = late /\ runs'["latest"] = new
    BY <1>2
  <1>8. \A w \in Slots : GoodRun(runs[w], Age(w))'
    BY <1>1, <1>3, <1>5, <1>6, <1>7, GoodRunSame DEF Slots
  <1>9. runs' \in [Slots -> Run]
    BY <1>2, <1>5, <1>6 DEF GoodRun, Slots
  <1> QED
    BY <1>1, <1>8, <1>9 DEF Inv

LEMMA RunStepGood == ASSUME Inv, NEW w \in Slots, RunStep(w) PROVE Inv'
  <1> DEFINE r    == runs[w]
             age  == Age(w)
             time == RequestTime(r.usable)
  <1>1. env \in Deployments /\ r \in Run /\ GoodRun(r, age) /\ age \in Nat
    BY AgeNat DEF Inv
  <1>2. time \in Nat /\ time <= SlowRequest
    BY <1>1, RequestBounded DEF Run
  <1>3. ProbeTimeout \in Nat /\ ReceiptTimeout \in Nat /\ AlertTimeout \in Nat
    BY WorkerAssumption
  <1>4. r.left \in Nat /\ r.began <= ProbeTimeout /\ Len(r.vols) \in Nat
        /\ Len(r.vols) <= Planned(r.count, env.limit)
    BY <1>1 DEF Run, GoodRun, InPlan
  <1>5. Running(r) => age <= PhaseEnd[r.pc]
    <2>0. \A pc \in Phases \ {"idle", "end"} : PhaseEnd[pc] \in Int
      BY <1>3, Bounds DEF PhaseEnd, Phases
    <2>1. Running(r) => PhaseEnd[r.pc] \in Int
      BY <1>1, <2>0 DEF Run, Running
    <2> QED
      BY <1>1, <1>4, <2>1 DEF GoodRun, InTime
  <1>6. ASSUME NEW usable \in SUBSET (1 .. Endpoints), Probed(w, usable) PROVE Inv'
    <2>1. r.pc = "probe" /\ age <= ProbeTimeout /\ r.vols = << >>
      BY <1>1, <1>5, <1>6 DEF Probed, Running, PhaseEnd, GoodRun, InPlan
    <2>2. CASE usable = {}
      <3>1. GoodRun(Conclude(r), age)
        BY <1>1, <1>3, <1>4, <2>1, ConcludeGood, Bounds
      <3> QED
        BY <1>6, <2>2, <3>1, RunGood DEF Probed
    <2>3. CASE usable # {}
      <3> DEFINE budget == 3 * RequestTime(usable)
                 s == [Enter(r, "list", budget) EXCEPT !.usable = usable, !.began = age]
      <3>1. budget \in Nat /\ budget <= 3 * SlowRequest
        BY RequestBounded, Bounds
      <3> HIDE DEF budget, age
      <3>2. s \in Run /\ s.pc = "list" /\ s.left = budget /\ s.began = age
            /\ s.vols = r.vols /\ s.count = r.count
        BY <1>1, <3>1 DEF Enter, Run, Phases
      <3> HIDE DEF s
      <3>3. InTime(s, age)
        BY <1>1, <1>3, <2>1, <3>1, <3>2, Bounds DEF InTime, PhaseEnd
      <3>4. GoodRun(s, age)
        BY <1>4, <2>1, <3>2, <3>3 DEF GoodRun, InPlan, AlertGiven
      <3>5. runs' = [runs EXCEPT ![w] = s] /\ UNCHANGED <<env, clock>>
        BY <1>6, <2>3 DEF Probed, s, budget, age
      <3> QED
        BY <3>4, <3>5, RunGood DEF age
    <2> QED
      BY <2>2, <2>3
  <1>7. ASSUME NEW count \in 0 .. MaxVolumes, Listed(w, count) PROVE Inv'
    <2> DEFINE gone == IF "VOLUME_IDS" \in env.on THEN MaxVolumes - count ELSE 0
               s    == [r EXCEPT !.count = count, !.gone = gone]
    <2>1. r.pc = "list" /\ age <= ProbeTimeout + 3 * SlowRequest /\ r.vols = << >>
      BY <1>1, <1>5, <1>7 DEF Listed, Step, Running, PhaseEnd, GoodRun, InPlan
    <2>2. gone \in 0 .. MaxVolumes
      BY ReportAssumption
    <2> HIDE DEF gone
    <2>3. s \in Run /\ s.vols = << >> /\ s.count = count /\ s.began = r.began
      BY <1>1, <2>1, <2>2 DEF Run
    <2> HIDE DEF s
    <2>4. Len(s.vols) <= Planned(s.count, env.limit)
      BY <1>1, <2>3, PlannedNat
    <2>5. age <= LastStart /\ age <= LastSend + ReceiptTimeout
      BY <1>1, <1>3, <2>1, Bounds
    <2>6. GoodRun(Proceed(s, age), age)
      BY <1>1, <1>4, <2>3, <2>4, <2>5, ProceedGood
    <2>7. Step(w, "list", Proceed(s, age))
      BY <1>7 DEF Listed, s, gone
    <2> QED
      BY <2>6, <2>7, StepGood
  <1>8. ASSUME ListFails(w) PROVE Inv'
    <2> DEFINE s == [r EXCEPT !.error = TRUE]
    <2>1. r.pc = "list" /\ age <= ProbeTimeout + 3 * SlowRequest
      BY <1>5, <1>8 DEF ListFails, Step, Running, PhaseEnd
    <2>2. s \in Run /\ s.vols = r.vols /\ s.count = r.count
      BY <1>1 DEF Run
    <2> HIDE DEF s
    <2>3. age <= LastSend + ReceiptTimeout
      BY <1>1, <1>3, <2>1, Bounds
    <2>4. GoodRun(ToBalance(s), age)
      BY <1>1, <1>4, <2>2, <2>3, ToBalanceGood
    <2>5. Step(w, "list", ToBalance(s))
      BY <1>8 DEF ListFails, s
    <2> QED
      BY <2>4, <2>5, StepGood
  <1>9. ASSUME NEW pc \in {"simulate", "prepare", "send", "receipt"},
               NEW outcome \in {"kept", "declined", "failed", "unsent", "simulated"},
               NEW sending \in BOOLEAN,
               Step(w, pc, After(r, outcome, sending, age))
        PROVE  Inv'
    <2>1. r.pc = pc
      BY <1>9 DEF Step
    <2>2. GoodRun(After(r, outcome, sending, age), age)
      BY <1>1, <2>1, AfterGood
    <2> QED
      BY <1>9, <2>2, StepGood
  <1>10. ASSUME Prepared(w) PROVE Inv'
    <2> DEFINE s == [Enter(r, "send", time) EXCEPT !.sending = TRUE]
    <2>1. r.pc = "prepare" /\ age <= LastStart + 3 * SlowRequest
      BY <1>5, <1>10 DEF Prepared, Step, Running, PhaseEnd
    <2>2. Step(w, "prepare", s)
      BY <1>10 DEF Prepared
    <2> HIDE DEF time, age
    <2>3. s \in Run /\ s.pc = "send" /\ s.left = time /\ s.began = r.began
          /\ s.vols = r.vols /\ s.count = r.count
      BY <1>1, <1>2 DEF Enter, Run, Phases
    <2> HIDE DEF s
    <2>4. InTime(s, age)
      BY <1>1, <1>2, <2>1, <2>3, Bounds DEF InTime, PhaseEnd
    <2>5. GoodRun(s, age)
      BY <1>1, <1>4, <2>1, <2>3, <2>4 DEF GoodRun, InPlan, AlertGiven
    <2> QED
      BY <2>2, <2>5, StepGood DEF age
  <1>11. ASSUME Sent(w) PROVE Inv'
    <2> DEFINE s == Enter(r, "receipt", ReceiptTimeout)
    <2>1. r.pc = "send" /\ age <= LastSend
      BY <1>5, <1>11 DEF Sent, Step, Running, PhaseEnd
    <2>2. Step(w, "send", s)
      BY <1>11 DEF Sent
    <2> HIDE DEF time, age
    <2>3. s \in Run /\ s.pc = "receipt" /\ s.left = ReceiptTimeout /\ s.began = r.began
          /\ s.vols = r.vols /\ s.count = r.count
      BY <1>1, <1>3 DEF Enter, Run, Phases
    <2> HIDE DEF s
    <2>4. InTime(s, age)
      BY <1>1, <1>3, <2>1, <2>3, Bounds DEF InTime, PhaseEnd
    <2>5. GoodRun(s, age)
      BY <1>1, <1>4, <2>1, <2>3, <2>4 DEF GoodRun, InPlan, AlertGiven
    <2> QED
      BY <2>2, <2>5, StepGood DEF age
  <1>12. ASSUME NEW balance \in {"low", "enough", "unread"}, BalanceRead(w, balance)
         PROVE  Inv'
    <2> DEFINE s == [r EXCEPT !.balance = balance]
    <2>1. r.pc = "balance" /\ age <= LastSend + ReceiptTimeout + SlowRequest
      BY <1>5, <1>12 DEF BalanceRead, Step, Running, PhaseEnd
    <2>2. s \in Run /\ s.vols = r.vols /\ s.count = r.count /\ s.began = r.began
      BY <1>1 DEF Run
    <2>3. Step(w, "balance", Conclude(s))
      BY <1>12 DEF BalanceRead
    <2> HIDE DEF s
    <2>4. GoodRun(Conclude(s), age)
      BY <1>1, <1>4, <2>1, <2>2, ConcludeGood
    <2> QED
      BY <2>3, <2>4, StepGood
  <1>13. ASSUME NEW alert \in {"sent", "logged"}, Notified(w, alert) PROVE Inv'
    <2> DEFINE s == [r EXCEPT !.pc = "end", !.left = 0, !.alert = alert]
    <2>1. runs' = [runs EXCEPT ![w] = s] /\ UNCHANGED <<env, clock>>
      BY <1>13 DEF Notified
    <2>2. s \in Run /\ s.pc = "end" /\ s.began = r.began /\ s.alert # "none"
          /\ s.vols = r.vols /\ s.count = r.count
      BY <1>1 DEF Run, Phases
    <2> HIDE DEF s
    <2>3. GoodRun(s, age)
      BY <1>4, <2>2 DEF GoodRun, InTime, InPlan, AlertGiven, Running
    <2> QED
      BY <2>1, <2>3, RunGood
  <1> HIDE DEF r, age, time
  <1>14. CASE \/ \E outcome \in {"simulated", "unsent"} : Simulated(w, outcome)
              \/ PrepareFails(w) \/ SendFails(w) \/ Unconfirmed(w)
              \/ \E outcome \in {"kept", "declined", "failed"} : Receipt(w, outcome)
    BY <1>9, <1>14 DEF Simulated, PrepareFails, SendFails, Unconfirmed, Receipt, r, age
  <1> QED
    BY <1>6, <1>7, <1>8, <1>10, <1>11, <1>12, <1>13, <1>14 DEF RunStep

(* The inductive invariant.                                                *)
THEOREM Invariance == Spec => []Inv
  <1>1. Init => Inv
    <2> SUFFICES ASSUME Init PROVE Inv
      OBVIOUS
    <2>1. clock \in 0 .. Interval
      BY WorkerAssumption DEF Init
    <2>2. \A w \in Slots : runs[w] = NoRun /\ GoodRun(NoRun, Age(w))
      BY <2>1, AgeNat, NoRunGood DEF Init
    <2>3. runs \in [Slots -> Run]
      BY <2>2 DEF Init, GoodRun
    <2> QED
      BY <2>1, <2>2, <2>3 DEF Init, Inv
  <1>2. Inv /\ [Next]_vars => Inv'
    <2> SUFFICES ASSUME Inv, [Next]_vars PROVE Inv'
      OBVIOUS
    <2>1. CASE UNCHANGED vars
      <3>1. \A w \in Slots : Age(w)' = Age(w) /\ runs'[w] = runs[w] /\ GoodRun(runs[w], Age(w))
        BY <2>1 DEF vars, Age, Inv
      <3>2. \A w \in Slots : GoodRun(runs[w], Age(w))'
        BY <2>1, <3>1, GoodRunSame DEF vars
      <3> QED
        BY <2>1, <3>2 DEF vars, Inv
    <2> QED
      BY <2>1, PassGood, TickGood, RunStepGood DEF Next
  <1> QED
    BY <1>1, <1>2, PTL DEF Spec

-----------------------------------------------------------------------------
(* The properties.                                                         *)

(* Types, and no run attempts more volumes than it plans.                  *)
THEOREM WorkerTypeCorrect == Spec => []WorkerTypeOK
  <1>1. Inv => WorkerTypeOK
    BY DEF Inv, GoodRun, InPlan, WorkerTypeOK
  <1> QED
    BY <1>1, Invariance, PTL

(* A run ends within the sum of its timeouts, whatever they are.           *)
THEOREM RunsEndTheorem == Spec => []RunsEndInTime
  <1>1. Inv => RunsEndInTime
    <2> SUFFICES ASSUME Inv, NEW w \in Slots, Running(runs[w])
                 PROVE  Age(w) <= LastSend + ReceiptTimeout + SlowRequest + AlertTimeout
      BY DEF RunsEndInTime
    <2>1. runs[w] \in Run /\ InTime(runs[w], Age(w)) /\ Age(w) \in Nat
      BY AgeNat DEF Inv, GoodRun
    <2>2. runs[w].left \in Nat /\ runs[w].pc \in Phases \ {"idle", "end"}
      BY <2>1 DEF Run, Running
    <2>3. ProbeTimeout \in Nat /\ ReceiptTimeout \in Nat /\ AlertTimeout \in Nat
      BY WorkerAssumption
    <2>4. \A pc \in Phases \ {"idle", "end"} : PhaseEnd[pc] \in Int
            /\ PhaseEnd[pc] <= LastSend + ReceiptTimeout + SlowRequest + AlertTimeout
      BY <2>3, Bounds DEF PhaseEnd, Phases
    <2>5. Age(w) + runs[w].left <= PhaseEnd[runs[w].pc]
      BY <2>1 DEF InTime
    <2> HIDE DEF PhaseEnd
    <2>6. Age(w) <= PhaseEnd[runs[w].pc]
      BY <2>1, <2>2, <2>4, <2>5
    <2> QED
      BY <2>1, <2>2, <2>3, <2>4, <2>6, Bounds
  <1> QED
    BY <1>1, Invariance, PTL

(* If a volume's requests fit between the last start and the next tick,    *)
(* two overlapping runs never use the wallet's nonces at once.  For the    *)
(* timeouts of wrangler.jsonc this holds with up to three endpoints.       *)
THEOREM OneRunSendsTheorem == ASSUME LastSend < Interval PROVE Spec => []OneRunSends
  <1>1. Inv => OneRunSends
    <2> SUFFICES ASSUME Inv, runs["earlier"].pc \in {"list", "prepare", "send"} PROVE FALSE
      BY DEF OneRunSends
    <2> DEFINE r == runs["earlier"]
    <2>1. GoodRun(r, Age("earlier")) /\ Age("earlier") = clock + Interval
      BY DEF Inv, Age, Slots
    <2>2. clock \in Nat /\ Interval \in Nat /\ ProbeTimeout \in Nat /\ r.left \in Nat
      BY <2>1, WorkerAssumption DEF Inv, GoodRun, Run
    <2>3. clock + Interval + r.left <= PhaseEnd[r.pc]
      BY <2>1 DEF GoodRun, InTime, Running
    <2>4. PhaseEnd[r.pc] <= LastSend /\ PhaseEnd[r.pc] \in Int
      BY <2>2, Bounds DEF PhaseEnd
    <2> HIDE DEF r
    <2> QED
      BY <2>2, <2>3, <2>4, Bounds
  <1> QED
    BY <1>1, Invariance, PTL

-----------------------------------------------------------------------------
(* Recursion.  What a recursive definition computes is shown by induction, *)
(* which rests on the least number of a set: library theorems about        *)
(* induction take an operator, this one takes a set.                       *)

Less == {p \in Nat \X Nat : p[1] < p[2]}

(* Every set of naturals has a least one.                                  *)
LEMMA LeastNat ==
    ASSUME NEW S \in SUBSET Nat, S # {}
    PROVE  \E m \in S : \A k \in S : m <= k
  <1>1. OpToRel(<, Nat) = Less
    BY DEF Less, OpToRel
  <1>2. IsWellFoundedOn(Less, Nat)
    BY <1>1, NatLessThanWellFounded, Zenon
  <1>3. PICK m \in S : \A y \in S : ~ (<<y, m>> \in Less)
    BY <1>2, WFMin
  <1>4. ASSUME NEW k \in S
        PROVE  m <= k
    <2>1. ~(k < m)
      BY <1>3 DEF Less
    <2> QED
      BY <2>1
  <1> QED
    BY <1>4

(* Induction up to n: a set of naturals that holds 0 and, with a number    *)
(* below n, its successor, holds all numbers up to n.                      *)
LEMMA UpTo ==
    ASSUME NEW n \in Nat, NEW S, 0 \in S,
           \A i \in 0 .. n - 1 : i \in S => i + 1 \in S
    PROVE  \A i \in 0 .. n : i \in S
  <1> DEFINE bad == {i \in 0 .. n : i \notin S}
  <1> SUFFICES ASSUME bad # {}
               PROVE  FALSE
    OBVIOUS
  <1>1. bad \in SUBSET Nat
    OBVIOUS
  <1>2. PICK m \in bad : \A k \in bad : m <= k
    BY <1>1, LeastNat
  <1>3. m \in 1 .. n /\ m - 1 \in 0 .. n - 1 /\ m - 1 + 1 = m /\ ~(m <= m - 1)
    BY <1>2
  <1>4. m - 1 \in S
    BY <1>2, <1>3
  <1> QED
    BY <1>2, <1>3, <1>4

(* f is defined by recursion up to n.                                      *)
Recursion(f, n, base, step) ==
    f[0] = base /\ \A i \in 1 .. n : f[i] = step[<<f[i - 1], i>>]

(* A function may be defined by recursion on the numbers up to n.          *)
LEMMA RecursionExists ==
    ASSUME NEW n \in Nat, NEW S, NEW base \in S, NEW step \in [S \X (1 .. n) -> S]
    PROVE  \E f \in [0 .. n -> S] : Recursion(f, n, base, step)
  <1> DEFINE Upto(m, f) == /\ f \in [0 .. m -> S]
                           /\ f[0] = base
                           /\ \A i \in 1 .. m : f[i] = step[<<f[i - 1], i>>]
             good == {m \in 0 .. n : \E f : Upto(m, f)}
  <1>1. 0 \in good
    <2>1. Upto(0, [i \in 0 .. 0 |-> base])
      OBVIOUS
    <2>2. 0 \in 0 .. n
      OBVIOUS
    <2> HIDE DEF Upto
    <2> QED
      BY <2>1, <2>2, Zenon
  <1>2. ASSUME NEW m \in 0 .. n - 1, m \in good
        PROVE  m + 1 \in good
    <2>1. PICK f : Upto(m, f)
      BY <1>2
    <2> DEFINE g == [i \in 0 .. m + 1 |-> IF i = m + 1 THEN step[<<f[m], m + 1>>] ELSE f[i]]
    <2>2. m \in Nat /\ m + 1 \in 1 .. n /\ m \in 0 .. m
      OBVIOUS
    <2>3. step[<<f[m], m + 1>>] \in S
      BY <2>1, <2>2
    <2>4. g \in [0 .. m + 1 -> S]
      BY <2>1, <2>2, <2>3
    <2>5. g[0] = base
      BY <2>1, <2>2
    <2>6. ASSUME NEW i \in 1 .. m + 1
          PROVE  g[i] = step[<<g[i - 1], i>>]
      <3>1. g[i - 1] = f[i - 1]
        BY <2>2
      <3>2. CASE i = m + 1
        <4>1. i - 1 = m /\ g[i] = step[<<f[m], m + 1>>]
          BY <2>2, <3>2
        <4> HIDE DEF g
        <4> QED
          BY <3>1, <3>2, <4>1
      <3>3. CASE i # m + 1
        <4>1. i \in 1 .. m /\ g[i] = f[i]
          BY <2>2, <3>3
        <4> QED
          BY <2>1, <3>1, <4>1
      <3> QED
        BY <3>2, <3>3
    <2> HIDE DEF g
    <2>7. Upto(m + 1, g)
      BY <2>4, <2>5, <2>6
    <2> QED
      BY <2>2, <2>7
  <1> HIDE DEF good
  <1>3. n \in good
    BY <1>1, <1>2, UpTo
  <1> QED
    BY <1>3 DEF good, Recursion

(* The sums of a sequence of integers.                                     *)
LEMMA SumsFacts ==
    ASSUME NEW ns \in Seq(Int)
    PROVE  /\ Len(ns) \in Nat
           /\ Sums(ns)[0] = 0
           /\ \A i \in 1 .. Len(ns) : Sums(ns)[i] = Sums(ns)[i - 1] + ns[i]
           /\ \A i \in 0 .. Len(ns) : Sums(ns)[i] \in Int
  <1> DEFINE n    == Len(ns)
             step == [p \in Int \X (1 .. n) |-> p[1] + ns[p[2]]]
             Next0(f) == [i \in 0 .. n |-> IF i = 0 THEN 0 ELSE f[i - 1] + ns[i]]
  <1>1. n \in Nat /\ \A i \in 1 .. n : ns[i] \in Int
    BY LenProperties, ElementOfSeq
  <1> HIDE DEF n
  <1>2. step \in [Int \X (1 .. n) -> Int]
    BY <1>1
  <1>3. \A x \in Int, i \in 1 .. n : step[<<x, i>>] = x + ns[i]
    OBVIOUS
  <1> HIDE DEF step
  <1>0. 0 \in Int
    OBVIOUS
  <1>4. PICK f \in [0 .. n -> Int] : f[0] = 0 /\ \A i \in 1 .. n : f[i] = step[<<f[i - 1], i>>]
    <2>1. PICK S : S = Int
      OBVIOUS
    <2>2. PICK zero \in S : zero = 0
      BY <2>1
    <2>3. PICK stp : stp = step
      OBVIOUS
    <2>4. stp \in [S \X (1 .. n) -> S] /\ n \in Nat
      BY <1>1, <1>2, <2>1, <2>3
    <2>5. PICK f \in [0 .. n -> S] : Recursion(f, n, zero, stp)
      BY <2>4, RecursionExists
    <2> QED
      BY <2>1, <2>2, <2>3, <2>5 DEF Recursion
  <1>5. f = Next0(f)
    <2>1. \A i \in 0 .. n : f[i] = IF i = 0 THEN 0 ELSE f[i - 1] + ns[i]
      <3> SUFFICES ASSUME NEW i \in 0 .. n, i # 0
                   PROVE  f[i] = f[i - 1] + ns[i]
        BY <1>4
      <3>1. i \in 1 .. n /\ f[i - 1] \in Int
        BY <1>1
      <3> QED
        BY <1>3, <1>4, <3>1
    <2> QED
      BY <2>1
  <1>6. Sums(ns) = Next0(Sums(ns))
    BY <1>5 DEF Sums, n
  <1>7. /\ Sums(ns)[0] = 0
        /\ \A i \in 1 .. n : Sums(ns)[i] = Sums(ns)[i - 1] + ns[i]
    BY <1>1, <1>6
  <1>8. \A i \in 0 .. n : Sums(ns)[i] \in Int
    <2> DEFINE good == {i \in Nat : Sums(ns)[i] \in Int}
    <2>1. 0 \in good
      BY <1>7
    <2>2. ASSUME NEW i \in 0 .. n - 1, i \in good
          PROVE  i + 1 \in good
      <3>1. i + 1 \in 1 .. n /\ i + 1 - 1 = i
        BY <1>1
      <3>2. Sums(ns)[i + 1] = Sums(ns)[i] + ns[i + 1]
        BY <1>7, <3>1
      <3> QED
        BY <1>1, <2>2, <3>1, <3>2
    <2> HIDE DEF good
    <2>3. \A i \in 0 .. n : i \in good
      BY <1>1, <2>1, <2>2, UpTo
    <2> QED
      BY <2>3 DEF good
  <1> QED
    BY <1>1, <1>7, <1>8 DEF n

(* A flattened sequence has the members of its parts, and is empty only if *)
(* every part is.                                                          *)
LEMMA FlattenFacts ==
    ASSUME NEW S, NEW seqs \in Seq(Seq(S))
    PROVE  /\ FlattenSeq(seqs) \in Seq(S)
           /\ FlattenSeq(seqs) = << >> => \A k \in 1 .. Len(seqs) : seqs[k] = << >>
  <1> DEFINE n == Len(seqs)
  <1>1. n \in Nat /\ \A k \in 1 .. n : seqs[k] \in Seq(S)
    BY LenProperties, ElementOfSeq
  <1>2. CASE n = 0
    <2>1. FlattenSeq(seqs) = << >> /\ seqs = << >>
      BY <1>2 DEF FlattenSeq
    <2> QED
      BY <1>2, <2>1
  <1>3. CASE n # 0
    <2> DEFINE step    == [p \in Seq(S) \X (1 .. n - 1) |-> p[1] \o seqs[p[2] + 1]]
               Next0(f) == [i \in 1 .. n |-> IF i = 1 THEN seqs[i] ELSE f[i - 1] \o seqs[i]]
               flat    == CHOOSE f : f = Next0(f)
    <2>1. FlattenSeq(seqs) = flat[n]
      BY <1>3 DEF FlattenSeq
    <2> HIDE DEF n
    <2>2. n - 1 \in Nat /\ 1 \in 1 .. n
      BY <1>1, <1>3
    <2>3. \A x \in Seq(S), i \in 1 .. n - 1 :
             step[<<x, i>>] = x \o seqs[i + 1] /\ x \o seqs[i + 1] \in Seq(S)
      <3> SUFFICES ASSUME NEW x \in Seq(S), NEW i \in 1 .. n - 1
                   PROVE  step[<<x, i>>] = x \o seqs[i + 1] /\ x \o seqs[i + 1] \in Seq(S)
        OBVIOUS
      <3>1. i + 1 \in 1 .. n
        BY <1>1
      <3>2. x \o seqs[i + 1] \in Seq(S)
        BY <1>1, <3>1, ConcatProperties
      <3> QED
        BY <3>2
    <2>4. step \in [Seq(S) \X (1 .. n - 1) -> Seq(S)]
      BY <2>3
    <2> HIDE DEF step
    <2>5. PICK h \in [0 .. n - 1 -> Seq(S)] : Recursion(h, n - 1, seqs[1], step)
      BY <1>1, <2>2, <2>4, RecursionExists
    <2> DEFINE g == [i \in 1 .. n |-> h[i - 1]]
    <2>6. g = Next0(g)
      <3>1. ASSUME NEW i \in 1 .. n
            PROVE  g[i] = IF i = 1 THEN seqs[i] ELSE g[i - 1] \o seqs[i]
        <4>1. CASE i = 1
          BY <2>5, <4>1 DEF Recursion
        <4>2. CASE i # 1
          <5>1. i - 1 \in 1 .. n - 1 /\ i - 1 + 1 = i /\ i - 1 - 1 \in 0 .. n - 1
            BY <1>1, <4>2
          <5>2. h[i - 1] = h[i - 1 - 1] \o seqs[i]
            BY <2>3, <2>5, <5>1 DEF Recursion
          <5>3. g[i] = h[i - 1] /\ g[i - 1] = h[i - 1 - 1]
            BY <1>1, <5>1
          <5> HIDE DEF g
          <5> QED
            BY <4>2, <5>2, <5>3
        <4> QED
          BY <4>1, <4>2
      <3> QED
        BY <3>1
    <2> HIDE DEF g
    <2>7. flat = Next0(flat)
      BY <2>6
    <2> HIDE DEF flat
    <2>8. flat[1] = seqs[1] /\ \A i \in 1 .. n - 1 : flat[i + 1] = flat[i] \o seqs[i + 1]
      <3>1. \A i \in 1 .. n : flat[i] = IF i = 1 THEN seqs[i] ELSE flat[i - 1] \o seqs[i]
        BY <2>7
      <3>2. ASSUME NEW i \in 1 .. n - 1
            PROVE  flat[i + 1] = flat[i] \o seqs[i + 1]
        <4>1. PICK k \in 1 .. n : k = i + 1
          BY <1>1
        <4>2. k # 1 /\ k - 1 = i
          BY <4>1
        <4>3. flat[k] = flat[k - 1] \o seqs[k]
          BY <3>1, <4>2, Zenon
        <4> QED
          BY <4>1, <4>2, <4>3, Zenon
      <3>3. flat[1] = seqs[1]
        BY <2>2, <3>1, Zenon
      <3> QED
        BY <3>2, <3>3
    <2> HIDE DEF Next0
    <2> DEFINE good == {i \in Nat : /\ flat[i + 1] \in Seq(S)
                                    /\ flat[i + 1] = << >> =>
                                          \A k \in 1 .. i + 1 : seqs[k] = << >>}
    <2>9. 0 \in good
      BY <1>1, <2>2, <2>8
    <2>10. ASSUME NEW i \in 0 .. (n - 1) - 1, i \in good
           PROVE  i + 1 \in good
      <3>1. i + 1 \in 1 .. n - 1 /\ i + 1 + 1 \in 1 .. n
        BY <1>1
      <3> DEFINE s == flat[i + 1]
                 t == seqs[i + 1 + 1]
      <3>2. flat[i + 1 + 1] = s \o t /\ s \in Seq(S) /\ t \in Seq(S)
        BY <1>1, <2>8, <2>10, <3>1
      <3> HIDE DEF s, t
      <3>3. s \o t \in Seq(S) /\ (s \o t = << >> => s = << >> /\ t = << >>)
        BY <3>2, ConcatProperties, ConcatEqualIffEmpty
      <3>4. s = << >> => \A k \in 1 .. i + 1 : seqs[k] = << >>
        BY <2>10 DEF s
      <3>5. flat[i + 1 + 1] = << >> => \A k \in 1 .. i + 1 + 1 : seqs[k] = << >>
        BY <3>2, <3>3, <3>4 DEF t
      <3>6. i + 1 \in Nat /\ flat[i + 1 + 1] \in Seq(S)
        BY <3>2, <3>3
      <3> HIDE DEF s, t
      <3> QED
        BY <3>5, <3>6
    <2> HIDE DEF good
    <2>11. n - 1 \in good
      <3>1. PICK m \in Nat : m = n - 1
        BY <2>2
      <3>2. \A i \in 0 .. m - 1 : i \in good => i + 1 \in good
        BY <2>10, <3>1
      <3>3. \A i \in 0 .. m : i \in good
        BY <2>9, <3>2, UpTo
      <3> QED
        BY <3>1, <3>3
    <2> QED
      BY <2>1, <2>2, <2>11 DEF good, n
  <1> QED
    BY <1>2, <1>3

(* The sums of two sequences, one after the other, end with the sum of     *)
(* both.                                                                   *)
LEMMA SumsSplit ==
    ASSUME NEW ns \in Seq(Int), NEW ms \in Seq(Int)
    PROVE  Sums(ns \o ms)[Len(ns \o ms)] = Sums(ns)[Len(ns)] + Sums(ms)[Len(ms)]
  <1> DEFINE both == ns \o ms
             a    == Len(ns)
             b    == Len(ms)
  <1>1. /\ both \in Seq(Int) /\ a \in Nat /\ b \in Nat /\ Len(both) = a + b
        /\ \A i \in 1 .. a + b : both[i] = IF i <= a THEN ns[i] ELSE ms[i - a]
    BY ConcatProperties, LenProperties
  <1> HIDE DEF both
  <1> DEFINE f == Sums(ns)
             g == Sums(ms)
             h == Sums(both)
  <1>2. /\ f[0] = 0 /\ \A i \in 1 .. a : f[i] = f[i - 1] + ns[i]
        /\ \A i \in 0 .. a : f[i] \in Int
    BY SumsFacts
  <1>3. /\ g[0] = 0 /\ \A i \in 1 .. b : g[i] = g[i - 1] + ms[i]
        /\ \A i \in 0 .. b : g[i] \in Int
    BY SumsFacts
  <1>4. /\ h[0] = 0 /\ \A i \in 1 .. a + b : h[i] = h[i - 1] + both[i]
    BY <1>1, SumsFacts
  <1>5. \A i \in 1 .. a : ns[i] \in Int
    BY ElementOfSeq
  <1>6. \A i \in 1 .. b : ms[i] \in Int
    BY ElementOfSeq
  <1> HIDE DEF f, g, h, a, b
  <1> DEFINE first == {i \in Nat : h[i] = f[i]}
  <1>7. h[a] = f[a]
    <2>1. 0 \in first
      BY <1>2, <1>4
    <2>2. ASSUME NEW i \in 0 .. a - 1, i \in first
          PROVE  i + 1 \in first
      <3>1. PICK k \in 1 .. a : k = i + 1
        BY <1>1
      <3>2. k \in 1 .. a + b /\ k - 1 = i /\ k <= a /\ k \in Nat
        BY <1>1, <3>1
      <3>3. h[k] = h[k - 1] + both[k] /\ both[k] = ns[k]
        BY <1>1, <1>4, <3>2
      <3>4. f[k] = f[k - 1] + ns[k]
        BY <1>2, <3>1
      <3> QED
        BY <2>2, <3>1, <3>2, <3>3, <3>4
    <2> HIDE DEF first
    <2>3. \A i \in 0 .. a : i \in first
      BY <1>1, <2>1, <2>2, UpTo
    <2> QED
      BY <1>1, <2>3 DEF first
  <1> DEFINE second == {i \in Nat : h[a + i] = f[a] + g[i]}
  <1>8. h[a + b] = f[a] + g[b]
    <2>0. f[a] \in Int
      BY <1>1, <1>2
    <2>1. 0 \in second
      BY <1>1, <1>3, <1>7, <2>0
    <2>2. ASSUME NEW i \in 0 .. b - 1, i \in second
          PROVE  i + 1 \in second
      <3>1. PICK k \in 1 .. b : k = i + 1
        BY <1>1
      <3>2. PICK j \in 1 .. a + b : j = a + k
        BY <1>1
      <3>3. j - 1 = a + i /\ k - 1 = i /\ ~(j <= a) /\ j - a = k /\ i \in 0 .. b /\ k \in Nat
        BY <1>1, <3>1, <3>2
      <3>4. h[j] = h[j - 1] + both[j] /\ both[j] = ms[k]
        BY <1>1, <1>4, <3>3
      <3>5. g[k] = g[k - 1] + ms[k]
        BY <1>3, <3>1
      <3>6. h[a + i] = f[a] + g[i]
        BY <2>2
      <3>7. g[i] \in Int /\ ms[k] \in Int
        BY <1>3, <1>6, <3>3
      <3>8. h[j] = f[a] + g[k]
        BY <2>0, <3>3, <3>4, <3>5, <3>6, <3>7
      <3> QED
        BY <3>1, <3>2, <3>3, <3>8
    <2> HIDE DEF second
    <2>3. \A i \in 0 .. b : i \in second
      BY <1>1, <2>1, <2>2, UpTo
    <2> QED
      BY <1>1, <2>3 DEF second
  <1> QED
    BY <1>1, <1>8 DEF f, g, h, a, b, both

(* Nothing sums up to nothing.                                             *)
LEMMA SumsOfZeros ==
    ASSUME NEW ns \in Seq({0})
    PROVE  Sums(ns)[Len(ns)] = 0
  <1> DEFINE n == Len(ns)
             f == Sums(ns)
  <1>1. ns \in Seq(Int)
    BY SeqMonotonic
  <1>2. n \in Nat /\ f[0] = 0 /\ \A i \in 1 .. n : f[i] = f[i - 1] + ns[i]
    BY <1>1, SumsFacts
  <1>3. \A i \in 1 .. n : ns[i] = 0
    BY ElementOfSeq
  <1> HIDE DEF n, f
  <1> DEFINE zero == {i \in Nat : f[i] = 0}
  <1>4. 0 \in zero
    BY <1>2
  <1>5. ASSUME NEW i \in 0 .. n - 1, i \in zero
        PROVE  i + 1 \in zero
    <2>1. PICK k \in 1 .. n : k = i + 1
      BY <1>2
    <2>2. k \in Nat /\ k - 1 = i
      BY <2>1
    <2>3. f[k] = f[k - 1] + ns[k] /\ ns[k] = 0 /\ f[i] = 0
      BY <1>2, <1>3, <1>5
    <2> QED
      BY <2>1, <2>2, <2>3
  <1> HIDE DEF zero
  <1>6. \A i \in 0 .. n : i \in zero
    BY <1>2, <1>4, <1>5, UpTo
  <1> QED
    BY <1>2, <1>6 DEF zero, n, f

-----------------------------------------------------------------------------
(* The issues of a report.                                                 *)

(* The issues of a report, as opposed to the titles of a message.          *)
Abouts == {"problem", "no endpoint", "endpoint", "failover", "dry run", "balance", "cycle", "volume",
           "gone", "limit", "declined", "deadline"}
Issues == [about : Abouts, lines : Nat, n : Nat]

(* An issue that is no deferral.                                           *)
Plain == {i \in Issues : i.about \notin {"limit", "deadline"}}

(* An issue whose message takes one line, unless it names a volume.        *)
Brief == {i \in Plain : i.about = "volume" \/ i.lines = 1}

(* How many volumes an issue says are deferred.                            *)
Weight(i) == IF i.about \in {"limit", "deadline"} THEN i.n ELSE 0
Weights(s) == [k \in 1 .. Len(s) |-> Weight(s[k])]

(* Deferrals adds up the weights of the warnings.                          *)
LEMMA WeightsFacts ==
    ASSUME NEW s \in Seq(Issues)
    PROVE  /\ Weights(s) \in Seq(Int) /\ Len(Weights(s)) = Len(s)
           /\ \A k \in 1 .. Len(s) : Weights(s)[k] = Weight(s[k])
           /\ Deferrals(s) = Sums(Weights(s))[Len(Weights(s))]
  <1>1. Len(s) \in Nat /\ DOMAIN s = 1 .. Len(s) /\ \A k \in 1 .. Len(s) : s[k] \in Issues
    BY LenProperties, ElementOfSeq
  <1>2. \A k \in 1 .. Len(s) : Weight(s[k]) \in Int
    BY <1>1 DEF Weight, Issues
  <1>3. Weights(s) \in [1 .. Len(s) -> Int]
    BY <1>2 DEF Weights
  <1>4. Weights(s) \in Seq(Int) /\ Len(Weights(s)) = Len(s)
    BY <1>1, <1>3
  <1>5. Weights(s) = [k \in DOMAIN s |->
                        IF s[k].about \in {"limit", "deadline"} THEN s[k].n ELSE 0]
    BY <1>1 DEF Weights, Weight
  <1>6. Deferrals(s) = Sums(Weights(s))[Len(s)]
    BY <1>5, Zenon DEF Deferrals
  <1> QED
    BY <1>4, <1>6 DEF Weights

(* Lists of warnings defer what each of them does.                         *)
LEMMA DeferralsConcat ==
    ASSUME NEW s \in Seq(Issues), NEW t \in Seq(Issues)
    PROVE  /\ s \o t \in Seq(Issues)
           /\ Deferrals(s \o t) = Deferrals(s) + Deferrals(t)
           /\ Deferrals(s) \in Int
  <1>1. s \o t \in Seq(Issues)
    BY ConcatProperties
  <1> DEFINE a == Weights(s)
             b == Weights(t)
  <1>2. Weights(s \o t) = a \o b
    <2> DEFINE c == Weights(s \o t)
    <2>1. Len(c) = Len(s) + Len(t) /\ c \in Seq(Int)
          /\ \A k \in 1 .. Len(s) + Len(t) : c[k] = Weight((s \o t)[k])
      <3>1. Len(s \o t) = Len(s) + Len(t)
        BY ConcatProperties
      <3>2. PICK u \in Seq(Issues) : u = s \o t
        BY <1>1
      <3>3. Weights(u) \in Seq(Int) /\ Len(Weights(u)) = Len(u)
            /\ \A k \in 1 .. Len(u) : Weights(u)[k] = Weight(u[k])
        BY WeightsFacts
      <3> QED
        BY <3>1, <3>2, <3>3, Zenon
    <2>2. a \in Seq(Int) /\ b \in Seq(Int) /\ Len(a) = Len(s) /\ Len(b) = Len(t)
          /\ (\A k \in 1 .. Len(s) : a[k] = Weight(s[k]))
          /\ (\A k \in 1 .. Len(t) : b[k] = Weight(t[k]))
      BY WeightsFacts
    <2>3. Len(s) \in Nat /\ Len(t) \in Nat
      BY LenProperties
    <2> HIDE DEF a, b, c
    <2>4. a \o b \in Seq(Int) /\ Len(a \o b) = Len(s) + Len(t)
          /\ \A k \in 1 .. Len(s) + Len(t) :
                (a \o b)[k] = IF k <= Len(s) THEN a[k] ELSE b[k - Len(s)]
      <3>1. Len(a \o b) = Len(a) + Len(b) /\ a \o b \in Seq(Int)
            /\ \A k \in 1 .. Len(a) + Len(b) :
                  (a \o b)[k] = IF k <= Len(a) THEN a[k] ELSE b[k - Len(a)]
        <4>1. PICK S : S = Int
          OBVIOUS
        <4>2. PICK x \in Seq(S), y \in Seq(S) : x = a /\ y = b
          BY <2>2, <4>1
        <4>3. Len(x \o y) = Len(x) + Len(y) /\ x \o y \in Seq(S)
              /\ \A k \in 1 .. Len(x) + Len(y) :
                    (x \o y)[k] = IF k <= Len(x) THEN x[k] ELSE y[k - Len(x)]
          BY ConcatProperties
        <4> QED
          BY <4>1, <4>2, <4>3, Zenon
      <3> QED
        BY <2>2, <3>1, Zenon
    <2>5. \A k \in 1 .. Len(s) + Len(t) :
             (s \o t)[k] = IF k <= Len(s) THEN s[k] ELSE t[k - Len(s)]
      BY ConcatProperties
    <2>6. ASSUME NEW k \in 1 .. Len(s) + Len(t)
          PROVE  c[k] = (a \o b)[k]
      <3>1. CASE k <= Len(s)
        <4>1. k \in 1 .. Len(s)
          BY <2>3, <3>1
        <4> QED
          BY <2>1, <2>2, <2>4, <2>5, <3>1, <4>1
      <3>2. CASE ~(k <= Len(s))
        <4>1. k - Len(s) \in 1 .. Len(t)
          BY <2>3, <3>2
        <4> QED
          BY <2>1, <2>2, <2>4, <2>5, <3>2, <4>1
      <3> QED
        BY <3>1, <3>2
    <2>7. c = a \o b
      BY <2>1, <2>4, <2>6, SeqEqual
    <2> QED
      BY <2>7 DEF c
  <1>3. Deferrals(s) = Sums(a)[Len(a)] /\ Deferrals(t) = Sums(b)[Len(b)]
        /\ a \in Seq(Int) /\ b \in Seq(Int)
    BY WeightsFacts
  <1>4. Deferrals(s \o t) = Sums(a \o b)[Len(a \o b)]
    BY <1>1, <1>2, WeightsFacts
  <1> HIDE DEF a, b
  <1>5. Deferrals(s \o t) = Deferrals(s) + Deferrals(t)
    BY <1>3, <1>4, SumsSplit
  <1>6. Sums(a)[Len(a)] \in Int
    <2>1. Len(a) \in Nat /\ \A i \in 0 .. Len(a) : Sums(a)[i] \in Int
      BY <1>3, SumsFacts
    <2> QED
      BY <2>1
  <1> QED
    BY <1>1, <1>3, <1>5, <1>6

(* Warnings of other kinds defer nothing.                                  *)
LEMMA DeferralsNone ==
    ASSUME NEW s \in Seq(Plain)
    PROVE  s \in Seq(Issues) /\ Deferrals(s) = 0
  <1>1. s \in Seq(Issues)
    BY SeqMonotonic DEF Plain
  <1>2. Len(s) \in Nat /\ \A k \in 1 .. Len(s) : s[k] \in Plain
    BY LenProperties, ElementOfSeq
  <1>3. Weights(s) \in [1 .. Len(s) -> {0}]
    BY <1>2 DEF Weights, Weight, Plain
  <1>4. Weights(s) \in Seq({0})
    BY <1>2, <1>3
  <1> QED
    BY <1>1, <1>4, WeightsFacts, SumsOfZeros

(* One issue or none.                                                      *)
LEMMA WhenTyped ==
    ASSUME NEW S, NEW issue \in S, NEW condition
    PROVE  /\ When(condition, issue) \in Seq(S)
           /\ When(condition, issue) = << >> => ~condition
  BY DEF When

(* A deferral speaks for the volumes it names, if it is given.             *)
LEMMA DeferralsWhen ==
    ASSUME NEW condition, NEW about \in {"limit", "deadline"}, NEW n \in Nat
    PROVE  /\ When(condition, Issue(about, 1, n)) \in Seq(Issues)
           /\ Deferrals(When(condition, Issue(about, 1, n))) = IF condition THEN n ELSE 0
  <1> DEFINE issue == Issue(about, 1, n)
  <1>1. issue \in Issues /\ Weight(issue) = n
    BY DEF Issue, Issues, Abouts, Weight
  <1> HIDE DEF issue
  <1>2. When(condition, issue) \in Seq(Issues)
    BY <1>1, WhenTyped
  <1>3. CASE condition
    <2> DEFINE s == When(condition, issue)
               f == Sums(Weights(s))
    <2>1. s = <<issue>> /\ Len(s) = 1 /\ s[1] = issue
      BY <1>3 DEF When
    <2>2. Weights(s) \in Seq(Int) /\ Len(Weights(s)) = 1 /\ Weights(s)[1] = n
          /\ Deferrals(s) = f[1]
      <3>1. s \in Seq(Issues)
        BY <1>2
      <3> HIDE DEF s
      <3>2. /\ Weights(s) \in Seq(Int) /\ Len(Weights(s)) = Len(s)
            /\ \A k \in 1 .. Len(s) : Weights(s)[k] = Weight(s[k])
            /\ Deferrals(s) = Sums(Weights(s))[Len(Weights(s))]
        BY <3>1, WeightsFacts
      <3>3. 1 \in 1 .. Len(s)
        BY <2>1
      <3>4. Weights(s)[1] = n
        BY <1>1, <2>1, <3>2, <3>3, Zenon
      <3> QED
        BY <2>1, <3>2, <3>4, Zenon
    <2> HIDE DEF s
    <2>3. f[0] = 0 /\ f[1] = f[1 - 1] + Weights(s)[1]
      <3>1. PICK ns \in Seq(Int) : ns = Weights(s)
        BY <2>2
      <3>2. Sums(ns)[0] = 0 /\ \A i \in 1 .. Len(ns) : Sums(ns)[i] = Sums(ns)[i - 1] + ns[i]
        BY SumsFacts
      <3>3. 1 \in 1 .. Len(ns)
        BY <2>2, <3>1
      <3> QED
        BY <3>1, <3>2, <3>3, Zenon
    <2> HIDE DEF f
    <2>4. f[1] = n
      BY <2>2, <2>3
    <2> QED
      BY <1>2, <1>3, <2>2, <2>4 DEF s, issue
  <1>4. CASE ~condition
    <2>1. When(condition, issue) = << >> /\ << >> \in Seq(Plain)
      BY <1>4 DEF When
    <2> QED
      BY <1>2, <1>4, <2>1, DeferralsNone DEF issue
  <1> QED
    BY <1>3, <1>4 DEF issue

(* What becomes of a volume.                                               *)
Outcomes == {"kept", "declined", "failed", "unsent", "simulated"}

(* An empty concatenation has empty parts.                                 *)
LEMMA BothEmpty ==
    ASSUME NEW S, NEW s \in Seq(S), NEW t \in Seq(S)
    PROVE  s \o t \in Seq(S) /\ (s \o t = << >> => s = << >> /\ t = << >>)
  BY ConcatProperties, ConcatEqualIffEmpty

(* Without a failure no volume failed or was left unsent.                  *)
LEMMA VolumeIssues ==
    ASSUME NEW vols \in Seq(Outcomes)
    PROVE  /\ Each(VolumeIssue, vols) \in Seq(Brief)
           /\ Each(VolumeIssue, vols) = << >> =>
                 \A k \in 1 .. Len(vols) : vols[k] \notin {"failed", "unsent"}
  <1> DEFINE parts == [i \in DOMAIN vols |-> VolumeIssue(vols[i])]
  <1>1. /\ Len(vols) \in Nat /\ DOMAIN vols = 1 .. Len(vols)
        /\ \A k \in 1 .. Len(vols) : vols[k] \in Outcomes
    BY LenProperties, ElementOfSeq
  <1>2. \A o \in Outcomes : /\ VolumeIssue(o) \in Seq(Brief)
                            /\ VolumeIssue(o) = << >> => o \notin {"failed", "unsent"}
    <2>1. Issue("volume", 3, 1) \in Brief /\ Issue("volume", 2, 1) \in Brief
      BY DEF Issue, Brief, Plain, Issues, Abouts
    <2> QED
      BY <2>1 DEF VolumeIssue
  <1>3. parts \in [1 .. Len(vols) -> Seq(Brief)]
    BY <1>1, <1>2
  <1>4. parts \in Seq(Seq(Brief)) /\ Len(parts) = Len(vols)
        /\ \A k \in 1 .. Len(vols) : parts[k] = VolumeIssue(vols[k])
    BY <1>1, <1>3
  <1>5. Each(VolumeIssue, vols) = FlattenSeq(parts)
    BY DEF Each
  <1> HIDE DEF parts
  <1>6. FlattenSeq(parts) \in Seq(Brief)
        /\ (FlattenSeq(parts) = << >> => \A k \in 1 .. Len(parts) : parts[k] = << >>)
    BY <1>4, FlattenFacts
  <1> QED
    BY <1>1, <1>2, <1>4, <1>5, <1>6

(* Without a warning about it no volume was declined.                      *)
LEMMA DeclinedIssues ==
    ASSUME NEW vols \in Seq(Outcomes)
    PROVE  /\ Each(Declined, vols) \in Seq(Plain)
           /\ Each(Declined, vols) = << >> => \A k \in 1 .. Len(vols) : vols[k] # "declined"
  <1> DEFINE parts == [i \in DOMAIN vols |-> Declined(vols[i])]
  <1>1. /\ Len(vols) \in Nat /\ DOMAIN vols = 1 .. Len(vols)
        /\ \A k \in 1 .. Len(vols) : vols[k] \in Outcomes
    BY LenProperties, ElementOfSeq
  <1>2. \A o \in Outcomes : /\ Declined(o) \in Seq(Plain)
                            /\ Declined(o) = << >> => o # "declined"
    <2>1. Issue("declined", 3, 1) \in Plain
      BY DEF Issue, Plain, Issues, Abouts
    <2> QED
      BY <2>1, WhenTyped DEF Declined
  <1>3. parts \in [1 .. Len(vols) -> Seq(Plain)]
    BY <1>1, <1>2
  <1>4. parts \in Seq(Seq(Plain)) /\ Len(parts) = Len(vols)
        /\ \A k \in 1 .. Len(vols) : parts[k] = Declined(vols[k])
    BY <1>1, <1>3
  <1>5. Each(Declined, vols) = FlattenSeq(parts)
    BY DEF Each
  <1> HIDE DEF parts
  <1>6. FlattenSeq(parts) \in Seq(Plain)
        /\ (FlattenSeq(parts) = << >> => \A k \in 1 .. Len(parts) : parts[k] = << >>)
    BY <1>4, FlattenFacts
  <1> QED
    BY <1>1, <1>2, <1>4, <1>5, <1>6

(* Brief issues are issues.                                                *)
LEMMA BriefIssues ==
    ASSUME NEW s \in Seq(Brief)
    PROVE  s \in Seq(Plain) /\ s \in Seq(Issues)
  BY SeqMonotonic DEF Brief, Plain

(* So many times the same issue.                                           *)
LEMMA Repeated ==
    ASSUME NEW S, NEW issue \in S, NEW n \in Int
    PROVE  /\ [i \in 1 .. n |-> issue] \in Seq(S)
           /\ [i \in 1 .. n |-> issue] = << >> => n <= 0
           /\ Len([i \in 1 .. n |-> issue]) = IF n <= 0 THEN 0 ELSE n
  <1> DEFINE s == [i \in 1 .. n |-> issue]
  <1>1. CASE n \in Nat
    <2>1. s \in [1 .. n -> S]
      OBVIOUS
    <2>2. s \in Seq(S) /\ Len(s) = n
      BY <1>1, <2>1
    <2> HIDE DEF s
    <2>3. s = << >> => n = 0
      BY <2>2
    <2> QED
      BY <1>1, <2>2, <2>3 DEF s
  <1>2. CASE n \notin Nat
    <2>1. 1 .. n = {} /\ n <= 0
      BY <1>2
    <2>2. s = << >>
      BY <2>1
    <2>3. << >> \in Seq(S) /\ Len(<< >>) = 0
      BY EmptySeq
    <2> HIDE DEF s
    <2>4. s \in Seq(S) /\ Len(s) = 0
      BY <2>2, <2>3
    <2> QED
      BY <2>1, <2>4 DEF s
  <1> QED
    BY <1>1, <1>2

(* The endpoints that failed their probe are counted.                      *)
LEMMA UsableCount ==
    ASSUME NEW usable \in SUBSET (1 .. Endpoints)
    PROVE  /\ Cardinality(usable) \in Nat
           /\ Endpoints - Cardinality(usable) \in Nat
           /\ Endpoints - Cardinality(usable) <= 0 => usable = 1 .. Endpoints
  <1>1. IsFiniteSet(1 .. Endpoints) /\ Cardinality(1 .. Endpoints) = Endpoints
    BY FS_Interval, ReportAssumption
  <1>2. /\ IsFiniteSet(usable) /\ Cardinality(usable) <= Endpoints
        /\ Endpoints = Cardinality(usable) => usable = 1 .. Endpoints
    BY <1>1, FS_Subset
  <1> DEFINE c == Cardinality(usable)
  <1>3. c \in Nat /\ c <= Endpoints
    BY <1>2, FS_CardinalityType
  <1>4. (Endpoints = c => usable = 1 .. Endpoints) /\ Endpoints \in Nat
    BY <1>2, ReportAssumption
  <1> HIDE DEF c
  <1>5. c \in Nat /\ Endpoints - c \in Nat /\ (Endpoints - c <= 0 => Endpoints = c)
    BY <1>3, <1>4
  <1> QED
    BY <1>4, <1>5 DEF c

(* Without a warning about endpoints, all of them are usable.              *)
LEMMA EndpointIssues ==
    ASSUME NEW usable \in SUBSET (1 .. Endpoints)
    PROVE  /\ EndpointWarnings(usable) \in Seq(Brief)
           /\ EndpointWarnings(usable) = << >> => usable = 1 .. Endpoints
  <1> DEFINE n == Endpoints - Cardinality(usable)
             c == 1 \notin usable /\ usable # {}
             s == [i \in 1 .. n |-> Issue("endpoint", 1, 0)]
             t == When(c, Issue("failover", 1, 0))
  <1>1. Issue("endpoint", 1, 0) \in Brief /\ Issue("failover", 1, 0) \in Brief
    BY DEF Issue, Brief, Plain, Issues, Abouts
  <1>2. n \in Nat /\ (n <= 0 => usable = 1 .. Endpoints)
    BY UsableCount
  <1>3. EndpointWarnings(usable) = s \o t
    BY DEF EndpointWarnings
  <1> HIDE DEF n, c
  <1>4. s \in Seq(Brief) /\ (s = << >> => n <= 0)
    BY <1>1, <1>2, Repeated
  <1>5. t \in Seq(Brief)
    BY <1>1, WhenTyped
  <1> HIDE DEF s, t
  <1> QED
    BY <1>2, <1>3, <1>4, <1>5, BothEmpty

(* The warnings of a cycle: what they count, and what their absence says.  *)
LEMMA CycleIssues ==
    ASSUME env \in Deployments, NEW r \in Run, Len(r.vols) <= Planned(r.count, env.limit)
    PROVE  LET w == CycleWarnings(r, env.limit)
           IN  /\ w \in Seq(Issues)
               /\ Deferrals(w) = r.count - Len(r.vols)
               /\ w = << >> => /\ r.gone = 0
                               /\ Len(r.vols) = r.count
                               /\ \A k \in 1 .. Len(r.vols) : r.vols[k] # "declined"
  <1> DEFINE limit   == env.limit
             planned == Planned(r.count, limit)
             len     == Len(r.vols)
             left    == planned - len
             gone    == [i \in 1 .. r.gone |-> Issue("gone", 2, 1)]
             over    == When(limit < r.count, Issue("limit", 1, r.count - limit))
             decl    == Each(Declined, r.vols)
             late    == When(left > 0, Issue("deadline", 1, left))
             w       == CycleWarnings(r, limit)
  <1>1. r.count \in Nat /\ r.gone \in Nat /\ r.vols \in Seq(Outcomes) /\ limit \in Nat
    BY ReportAssumption, WorkerAssumption DEF Run, Outcomes
  <1>2. len \in Nat /\ len <= planned
    BY <1>1, LenProperties
  <1>3. planned = IF limit < r.count THEN limit ELSE r.count
    <2>1. planned \in {r.count, limit}
      BY <1>1, MinOfTwo DEF Planned
    <2>2. planned <= r.count /\ planned <= limit
      BY <1>1, MinOfTwo DEF Planned
    <2> QED
      BY <1>1, <2>1, <2>2
  <1>4. w = ((gone \o over) \o decl) \o late
    BY DEF CycleWarnings, LimitWarning
  <1> HIDE DEF planned, len, limit
  <1>5. left \in Nat
    BY <1>1, <1>2, <1>3
  <1>6. Issue("gone", 2, 1) \in Plain
    BY DEF Issue, Plain, Issues, Abouts
  <1>7. gone \in Seq(Plain) /\ (gone = << >> => r.gone = 0)
    BY <1>1, <1>6, Repeated
  <1>8. decl \in Seq(Plain) /\ (decl = << >> => \A k \in 1 .. len : r.vols[k] # "declined")
    BY <1>1, DeclinedIssues DEF len
  <1>9. /\ over \in Seq(Issues)
        /\ Deferrals(over) = IF limit < r.count THEN r.count - limit ELSE 0
        /\ over = << >> => ~(limit < r.count)
    <2>1. CASE limit < r.count
      <3>1. PICK n \in Nat : n = r.count - limit
        BY <1>1, <2>1
      <3>2. PICK c : c = (limit < r.count)
        OBVIOUS
      <3>3. When(c, Issue("limit", 1, n)) \in Seq(Issues)
            /\ Deferrals(When(c, Issue("limit", 1, n))) = IF c THEN n ELSE 0
        BY DeferralsWhen
      <3>4. over # << >>
        BY <2>1 DEF When
      <3> QED
        BY <3>1, <3>2, <3>3, <3>4, <2>1
    <2>2. CASE ~(limit < r.count)
      <3>1. over = << >> /\ over \in Seq(Plain)
        BY <2>2 DEF When
      <3> QED
        BY <2>2, <3>1, DeferralsNone
    <2> QED
      BY <2>1, <2>2
  <1>10. /\ late \in Seq(Issues)
         /\ Deferrals(late) = left
         /\ late = << >> => left = 0
    <2>1. PICK n \in Nat : n = left
      BY <1>5
    <2> HIDE DEF left
    <2>2. CASE left > 0
      <3>1. When(left > 0, Issue("deadline", 1, n)) \in Seq(Issues)
            /\ Deferrals(When(left > 0, Issue("deadline", 1, n))) = IF left > 0 THEN n ELSE 0
        BY DeferralsWhen
      <3>2. late # << >>
        BY <2>2 DEF When
      <3> QED
        BY <2>1, <2>2, <3>1, <3>2
    <2>3. CASE ~(left > 0)
      <3>1. late = << >> /\ late \in Seq(Plain)
        BY <2>3 DEF When
      <3>2. Deferrals(late) = 0 /\ late \in Seq(Issues)
        BY <3>1, DeferralsNone
      <3>3. left = 0
        BY <2>1, <2>3
      <3> QED
        BY <3>1, <3>2, <3>3
    <2> QED
      BY <2>2, <2>3
  <1> HIDE DEF gone, over, decl, late, left, w
  <1>11. gone \in Seq(Issues) /\ Deferrals(gone) = 0 /\ decl \in Seq(Issues) /\ Deferrals(decl) = 0
    BY <1>7, <1>8, DeferralsNone
  <1> DEFINE a == gone \o over
             b == a \o decl
  <1>12. a \in Seq(Issues) /\ Deferrals(a) = Deferrals(gone) + Deferrals(over)
         /\ (a = << >> => gone = << >> /\ over = << >>)
    BY <1>9, <1>11, DeferralsConcat, BothEmpty
  <1> HIDE DEF a
  <1>13. b \in Seq(Issues) /\ Deferrals(b) = Deferrals(a) + Deferrals(decl)
         /\ (b = << >> => a = << >> /\ decl = << >>)
    BY <1>11, <1>12, DeferralsConcat, BothEmpty
  <1> HIDE DEF b
  <1>14. w \in Seq(Issues) /\ Deferrals(w) = Deferrals(b) + Deferrals(late)
         /\ (w = << >> => b = << >> /\ late = << >>)
    BY <1>4, <1>10, <1>13, DeferralsConcat, BothEmpty DEF a, b
  <1>15. left = planned - len
    BY DEF left
  <1>16. Deferrals(w) = r.count - len
    BY <1>1, <1>2, <1>3, <1>9, <1>10, <1>11, <1>12, <1>13, <1>14, <1>15
  <1>17. w = << >> => len = r.count
    BY <1>1, <1>2, <1>3, <1>9, <1>10, <1>12, <1>13, <1>14, <1>15
  <1>18. w = << >> => r.gone = 0 /\ \A k \in 1 .. len : r.vols[k] # "declined"
    BY <1>7, <1>8, <1>12, <1>13, <1>14
  <1> QED
    BY <1>14, <1>16, <1>17, <1>18 DEF w, len, limit

(* The failures and warnings of a cycle's report.                          *)
LEMMA ReportParts ==
    ASSUME env \in Deployments, NEW r \in Run, Len(r.vols) <= Planned(r.count, env.limit)
    PROVE  LET report == CycleReport(r, env)
           IN  /\ report.failures \in Seq(Brief)
               /\ report.warnings \in Seq(Issues)
               /\ Deferrals(report.warnings) = r.count - Len(r.vols)
               /\ report.failures = << >> =>
                     /\ ~r.error
                     /\ \A k \in 1 .. Len(r.vols) : r.vols[k] \notin {"failed", "unsent"}
               /\ report.warnings = << >> =>
                     /\ r.usable = 1 .. Endpoints
                     /\ ~Dry
                     /\ r.balance # "unread"
                     /\ r.balance = "low" => "MIN_BALANCE_WEI" \notin env.on
                     /\ r.gone = 0
                     /\ Len(r.vols) = r.count
                     /\ \A k \in 1 .. Len(r.vols) : r.vols[k] # "declined"
  <1> DEFINE report  == CycleReport(r, env)
             error   == When(r.error, Issue("cycle", 1, 0))
             vols    == Each(VolumeIssue, r.vols)
             ends    == EndpointWarnings(r.usable)
             dry     == When("DRY_RUN" \in env.on, Issue("dry run", 1, 0))
             balance == BalanceWarning(r.balance, "MIN_BALANCE_WEI" \in env.on)
             cycle   == CycleWarnings(r, env.limit)
  <1>1. r.vols \in Seq(Outcomes) /\ r.usable \in SUBSET (1 .. Endpoints)
        /\ r.error \in BOOLEAN /\ r.balance \in {"unread", "low", "enough"}
    BY DEF Run, Outcomes
  <1>2. report.failures = error \o vols /\ report.warnings = ((ends \o dry) \o balance) \o cycle
    BY DEF CycleReport, NewReport
  <1>3. /\ Issue("cycle", 1, 0) \in Brief /\ Issue("dry run", 1, 0) \in Plain
        /\ Issue("balance", 1, 0) \in Plain
    BY DEF Issue, Brief, Plain, Issues, Abouts
  <1>4. error \in Seq(Brief) /\ (error = << >> => ~r.error)
    BY <1>3, WhenTyped
  <1>5. /\ vols \in Seq(Brief)
        /\ vols = << >> => \A k \in 1 .. Len(r.vols) : r.vols[k] \notin {"failed", "unsent"}
    BY <1>1, VolumeIssues
  <1>6. ends \in Seq(Plain) /\ (ends = << >> => r.usable = 1 .. Endpoints)
    BY <1>1, EndpointIssues, BriefIssues
  <1>7. dry \in Seq(Plain) /\ (dry = << >> => ~Dry)
    BY <1>3, WhenTyped DEF Dry
  <1>8. balance \in Seq(Plain)
        /\ (balance = << >> => r.balance # "unread"
                               /\ (r.balance = "low" => "MIN_BALANCE_WEI" \notin env.on))
    BY <1>3, WhenTyped DEF BalanceWarning
  <1>9. /\ cycle \in Seq(Issues)
        /\ Deferrals(cycle) = r.count - Len(r.vols)
        /\ cycle = << >> => /\ r.gone = 0
                            /\ Len(r.vols) = r.count
                            /\ \A k \in 1 .. Len(r.vols) : r.vols[k] # "declined"
    BY CycleIssues
  <1> HIDE DEF report, error, vols, ends, dry, balance, cycle
  <1>10. error \o vols \in Seq(Brief) /\ (error \o vols = << >> => error = << >> /\ vols = << >>)
    BY <1>4, <1>5, BothEmpty
  <1> DEFINE s == ends \o dry
             t == s \o balance
  <1>11. s \in Seq(Plain) /\ (s = << >> => ends = << >> /\ dry = << >>)
    BY <1>6, <1>7, BothEmpty
  <1> HIDE DEF s
  <1>12. t \in Seq(Plain) /\ (t = << >> => s = << >> /\ balance = << >>)
    BY <1>8, <1>11, BothEmpty
  <1>13. report.warnings = t \o cycle
    BY <1>2 DEF s, t
  <1> HIDE DEF t
  <1>14. t \in Seq(Issues) /\ Deferrals(t) = 0
    BY <1>12, DeferralsNone
  <1>15. /\ report.warnings \in Seq(Issues)
         /\ Deferrals(report.warnings) = Deferrals(t) + Deferrals(cycle)
         /\ Deferrals(cycle) \in Int
         /\ report.warnings = << >> => t = << >> /\ cycle = << >>
    BY <1>9, <1>13, <1>14, DeferralsConcat, BothEmpty
  <1>16. Deferrals(report.warnings) = r.count - Len(r.vols)
    BY <1>9, <1>14, <1>15
  <1>17. report.failures \in Seq(Brief)
         /\ (report.failures = << >> =>
                ~r.error /\ \A k \in 1 .. Len(r.vols) : r.vols[k] \notin {"failed", "unsent"})
    BY <1>2, <1>4, <1>5, <1>10
  <1>18. report.warnings = << >> =>
                     /\ r.usable = 1 .. Endpoints
                     /\ ~Dry
                     /\ r.balance # "unread"
                     /\ r.balance = "low" => "MIN_BALANCE_WEI" \notin env.on
                     /\ r.gone = 0
                     /\ Len(r.vols) = r.count
                     /\ \A k \in 1 .. Len(r.vols) : r.vols[k] # "declined"
    BY <1>6, <1>7, <1>8, <1>9, <1>11, <1>12, <1>15
  <1> QED
    BY <1>15, <1>16, <1>17, <1>18 DEF report

(* The bindings, and the order they are looked at.                         *)
LEMMA KeyFacts ==
    /\ Len(KeyOrder) = 16 /\ DOMAIN KeyOrder = 1 .. 16 /\ KeyOrder \in Seq(Keys)
    /\ \A key \in Keys : \E i \in 1 .. 16 : KeyOrder[i] = key
    /\ Required \subseteq Keys
  <1>1. Len(KeyOrder) = 16 /\ DOMAIN KeyOrder = 1 .. 16
    BY DEF KeyOrder
  <1>2. \A key \in Keys : \E i \in 1 .. 16 : KeyOrder[i] = key
    BY <1>1 DEF Keys, Range
  <1>3. KeyOrder \in Seq(Keys)
    <2>1. \A i \in 1 .. 16 : KeyOrder[i] \in Keys
      BY <1>1 DEF Keys, Range
    <2>2. KeyOrder \in [1 .. 16 -> Keys]
      <3>1. KeyOrder = [i \in 1 .. 16 |-> KeyOrder[i]]
        BY DEF KeyOrder
      <3> QED
        BY <2>1, <3>1
    <2>3. PICK n \in Nat : n = 16
      OBVIOUS
    <2>4. KeyOrder \in [1 .. n -> Keys]
      BY <2>2, <2>3
    <2> QED
      BY <2>4
  <1>4. Required \subseteq Keys
    <2>1. /\ KeyOrder[1] = "DEPLOYMENT_NAME"    /\ KeyOrder[2] = "CHAIN_ID"
          /\ KeyOrder[3] = "REGISTRY_ADDRESS"   /\ KeyOrder[4] = "PRIVATE_KEY"
          /\ KeyOrder[5] = "RPC_URL"            /\ KeyOrder[6] = "TELEGRAM_BOT_TOKEN"
          /\ KeyOrder[7] = "TELEGRAM_CHAT_ID"   /\ KeyOrder[9] = "MIN_BALANCE_WEI"
          /\ KeyOrder[12] = "MAX_VOLUMES_PER_CYCLE"
          /\ KeyOrder[14] = "CYCLE_TIMEOUT_MS"  /\ KeyOrder[15] = "RECEIPT_TIMEOUT_MS"
      BY DEF KeyOrder
    <2>2. \A i \in 1 .. 16 : KeyOrder[i] \in Keys
      BY <1>1 DEF Keys, Range
    <2> QED
      BY <2>1, <2>2 DEF Required
  <1> QED
    BY <1>1, <1>2, <1>3, <1>4

(* What a binding adds to a text.                                          *)
LEMMA EchoNat ==
    ASSUME env \in Deployments, NEW key \in Keys
    PROVE  /\ env.size[key] \in Nat /\ Echo(env, key) \in Nat
           /\ Problems = {} => Echo(env, key) = 0
  <1>1. env.size[key] \in Nat
    BY WorkerAssumption
  <1> QED
    BY <1>1 DEF Echo, Problems

(* An invalid configuration has a problem to report.                       *)
LEMMA ConfigIssues ==
    ASSUME env \in Deployments
    PROVE  /\ Each(ConfigIssue, KeyOrder) \in Seq(Issues)
           /\ Problems # {} => Each(ConfigIssue, KeyOrder) # << >>
  <1> DEFINE parts == [i \in DOMAIN KeyOrder |-> ConfigIssue(KeyOrder[i])]
  <1>1. \A i \in 1 .. 16 : KeyOrder[i] \in Keys
    BY KeyFacts, ElementOfSeq
  <1>2. ASSUME NEW key \in Keys
        PROVE  /\ ConfigIssue(key) \in Seq(Issues)
               /\ ConfigIssue(key) = << >> => key \notin Problems
    <2>1. ProblemOf(env, key) \in Issues
      BY EchoNat DEF ProblemOf, Issue, Issues, Abouts
    <2> QED
      BY <2>1, WhenTyped DEF ConfigIssue
  <1>3. parts \in [1 .. 16 -> Seq(Issues)]
    BY <1>1, <1>2, KeyFacts
  <1>4. parts \in Seq(Seq(Issues)) /\ Len(parts) = 16
        /\ \A i \in 1 .. 16 : parts[i] = ConfigIssue(KeyOrder[i])
    BY <1>3, KeyFacts
  <1>5. Each(ConfigIssue, KeyOrder) = FlattenSeq(parts)
    BY DEF Each
  <1> HIDE DEF parts
  <1>6. FlattenSeq(parts) \in Seq(Issues)
        /\ (FlattenSeq(parts) = << >> => \A i \in 1 .. Len(parts) : parts[i] = << >>)
    BY <1>4, FlattenFacts
  <1>7. ASSUME Problems # {} PROVE FlattenSeq(parts) # << >>
    <2>1. Problems \subseteq Keys
      BY WorkerAssumption DEF Problems
    <2>2. PICK i \in 1 .. 16 : KeyOrder[i] \in Problems
      BY <1>7, <2>1, KeyFacts
    <2>3. parts[i] # << >>
      BY <1>1, <1>2, <1>4, <2>2
    <2> QED
      BY <1>4, <1>6, <2>3
  <1> QED
    BY <1>5, <1>6, <1>7

(* The report of a run that never began its cycle is a failure.            *)
LEMMA AbortedParts ==
    ASSUME NEW problems \in Seq(Issues)
    PROVE  /\ AbortedReport(env, problems).failures = problems
           /\ AbortedReport(env, problems).warnings \in Seq(Issues)
           /\ problems # << >> => AbortedReport(env, problems).status = "failure"
  <1>1. << >> \in Seq(Issues)
    BY EmptySeq
  <1> QED
    BY <1>1 DEF AbortedReport, NewReport, StatusOf

(* Without a usable endpoint there is something to report.                 *)
LEMMA NoEndpoint == NoEndpointProblems \in Seq(Brief) /\ NoEndpointProblems # << >>
  <1> DEFINE first == Issue("no endpoint", 1, 0)
             none  == {}
  <1>1. first \in Brief
    BY DEF Issue, Brief, Plain, Issues, Abouts
  <1>2. EndpointWarnings(none) \in Seq(Brief)
    BY EndpointIssues
  <1>3. NoEndpointProblems = <<first>> \o EndpointWarnings(none)
    BY DEF NoEndpointProblems
  <1> HIDE DEF first, none
  <1>4. <<first>> \in Seq(Brief) /\ <<first>> # << >>
    BY <1>1
  <1> QED
    BY <1>2, <1>3, <1>4, BothEmpty

(* The report of a run is of one of three kinds.                           *)
LEMMA ReportKinds ==
    ASSUME env \in Deployments, NEW r \in Run
    PROVE  \/ Problems = {} /\ r.usable # {} /\ ReportOf(r) = CycleReport(r, env)
           \/ /\ Problems # {} \/ r.usable = {}
              /\ \E problems \in Seq(Issues) :
                    /\ ReportOf(r) = AbortedReport(env, problems)
                    /\ problems # << >>
                    /\ Problems = {} => problems \in Seq(Brief)
  <1>1. CASE Problems # {}
    <2>1. PICK problems : problems = Each(ConfigIssue, KeyOrder)
      OBVIOUS
    <2>2. problems \in Seq(Issues) /\ problems # << >>
      BY <1>1, <2>1, ConfigIssues
    <2>3. ReportOf(r) = AbortedReport(env, problems)
      BY <1>1, <2>1 DEF ReportOf
    <2> QED
      BY <1>1, <2>2, <2>3
  <1>2. CASE Problems = {} /\ r.usable = {}
    <2>1. PICK problems : problems = NoEndpointProblems
      OBVIOUS
    <2>2. problems \in Seq(Brief) /\ problems # << >>
      BY <2>1, NoEndpoint
    <2>3. problems \in Seq(Issues)
      BY <2>2, BriefIssues
    <2>4. ReportOf(r) = AbortedReport(env, problems)
      BY <1>2, <2>1 DEF ReportOf
    <2> QED
      BY <1>2, <2>2, <2>3, <2>4
  <1>3. CASE Problems = {} /\ r.usable # {}
    BY <1>3 DEF ReportOf
  <1> QED
    BY <1>1, <1>2, <1>3

(* No alert an operator is owed goes missing without a trace.              *)
THEOREM NoAlertIsLostTheorem == Spec => []NoAlertIsLost
  <1>1. Inv => NoAlertIsLost
    <2> SUFFICES ASSUME Inv, NEW w \in Slots, runs[w].pc = "end",
                        \/ ReportOf(runs[w]).status = "failure"
                        \/ /\ ReportOf(runs[w]).status = "warning"
                           /\ "NOTIFY_WARNINGS" \in env.on
                 PROVE  \/ runs[w].alert # "none"
                        \/ ~CanAlert /\ ReportOf(runs[w]).status = "failure"
      BY DEF NoAlertIsLost
    <2> DEFINE r == runs[w]
    <2>1. env \in Deployments /\ r \in Run /\ (r.alert # "none" \/ ~Alerts(r))
      BY DEF Inv, GoodRun, AlertGiven
    <2> HIDE DEF r
    <2>2. Problems # {} => ReportOf(r).status = "failure"
      BY <2>1, ReportKinds, AbortedParts
    <2>3. ~CanAlert => Problems # {}
      BY DEF CanAlert, Problems, Telegram, Required
    <2>4. ShouldNotify(ReportOf(r), NotifyWarnings)
      BY <2>2 DEF ShouldNotify, NotifyWarnings, r
    <2> QED
      BY <2>1, <2>2, <2>3, <2>4 DEF Alerts, r
  <1> QED
    BY <1>1, Invariance, PTL

-----------------------------------------------------------------------------
(* What a run has found.                                                   *)

(* What a run has found is what its bindings let it look for: it simulates *)
(* only if DRY_RUN is set, and a balance is low only below a floor.        *)
Tidy(r) ==
    /\ r.pc = "simulate" => Dry
    /\ \A k \in 1 .. Len(r.vols) : r.vols[k] = "simulated" => Dry
    /\ r.balance = "low" => "MIN_BALANCE_WEI" \in env.on

(* of both runs                                                            *)
TidyRuns == \A w \in Slots : Tidy(runs[w])

(* The bindings stay.                                                      *)
LEMMA TidySame ==
    ASSUME NEW r, env' = env, Tidy(r)
    PROVE  Tidy(r)'
  BY DEF Tidy, Dry

(* A step that leaves one run tidy leaves both.                            *)
LEMMA TidyStep ==
    ASSUME Inv, TidyRuns, NEW w \in Slots, NEW r, Tidy(r),
           runs' = [runs EXCEPT ![w] = r], UNCHANGED env
    PROVE  TidyRuns'
  <1>1. ASSUME NEW v \in Slots PROVE Tidy(runs[v])'
    <2>1. CASE v = w
      <3>1. runs'[v] = r
        BY <2>1 DEF Inv
      <3> QED
        BY <3>1, TidySame
    <2>2. CASE v # w
      <3>1. runs'[v] = runs[v] /\ Tidy(runs[v])
        BY <2>2 DEF Inv, TidyRuns
      <3> QED
        BY <3>1, TidySame
    <2> QED
      BY <2>1, <2>2
  <1> QED
    BY <1>1 DEF TidyRuns

(* A run of the same volumes and balance, in a phase that is not           *)
(* "simulate" or with DRY_RUN set.                                         *)
LEMMA TidyKept ==
    ASSUME NEW r, NEW s, Tidy(r), s.vols = r.vols, s.balance = r.balance,
           s.pc = "simulate" => Dry
    PROVE  Tidy(s)
  BY DEF Tidy

(* The head of the loop over the volumes.                                  *)
LEMMA TidyProceed ==
    ASSUME NEW r \in Run, Tidy(r), NEW age
    PROVE  Proceed(r, age) \in Run /\ Tidy(Proceed(r, age))
  <1> DEFINE time == RequestTime(r.usable)
             fresh == (IF r.sending THEN 1 ELSE 3) * time
             s == Enter(r, "simulate", time)
             p == Enter(r, "prepare", fresh)
             b == ToBalance(r)
  <1>0. time \in Nat /\ fresh \in Nat
    <2>1. time \in Nat
      BY RequestBounded DEF Run
    <2> HIDE DEF time
    <2> QED
      BY <2>1
  <1> HIDE DEF fresh
  <1>1. s \in Run /\ s.pc = "simulate" /\ s.vols = r.vols /\ s.balance = r.balance
    BY <1>0 DEF Enter, Run, Phases
  <1>2. p \in Run /\ p.pc = "prepare" /\ p.vols = r.vols /\ p.balance = r.balance
    BY <1>0 DEF Enter, Run, Phases
  <1>3. b \in Run /\ b.pc = "balance" /\ b.vols = r.vols /\ b.balance = r.balance
    BY <1>0 DEF Enter, ToBalance, Run, Phases
  <1>4. Proceed(r, age) \in {b, p} \/ (Dry /\ Proceed(r, age) = s)
    BY DEF Proceed, fresh
  <1> HIDE DEF s, p, b
  <1> QED
    BY <1>1, <1>2, <1>3, <1>4, TidyKept

(* The report.                                                             *)
LEMMA TidyConclude ==
    ASSUME NEW r \in Run, Tidy(r)
    PROVE  Conclude(r) \in Run /\ Tidy(Conclude(r))
  <1> DEFINE s == [r EXCEPT !.pc = "alert", !.left = AlertTimeout]
             t == [r EXCEPT !.pc = "end", !.left = 0]
  <1>1. s \in Run /\ s.pc = "alert" /\ s.vols = r.vols /\ s.balance = r.balance
    BY WorkerAssumption DEF Run, Phases
  <1>2. t \in Run /\ t.pc = "end" /\ t.vols = r.vols /\ t.balance = r.balance
    BY DEF Run, Phases
  <1>3. Conclude(r) = s \/ Conclude(r) = t
    BY DEF Conclude
  <1> HIDE DEF s, t
  <1> QED
    BY <1>1, <1>2, <1>3, TidyKept

(* A volume is done with.                                                  *)
LEMMA TidyAfter ==
    ASSUME NEW r \in Run, Tidy(r), NEW age, NEW sending \in BOOLEAN,
           NEW outcome \in Outcomes, outcome = "simulated" => Dry
    PROVE  After(r, outcome, sending, age) \in Run /\ Tidy(After(r, outcome, sending, age))
  <1> DEFINE vols == Append(r.vols, outcome)
             s    == [r EXCEPT !.vols = vols, !.sending = sending]
  <1>0. r.vols \in Seq(Outcomes)
    BY DEF Run, Outcomes
  <1>1. /\ vols \in Seq(Outcomes) /\ Len(vols) = Len(r.vols) + 1 /\ Len(r.vols) \in Nat
        /\ \A k \in 1 .. Len(r.vols) : vols[k] = r.vols[k]
        /\ vols[Len(r.vols) + 1] = outcome
    BY <1>0, AppendProperties
  <1>2. \A k \in 1 .. Len(vols) : vols[k] = "simulated" => Dry
    <2> SUFFICES ASSUME NEW k \in 1 .. Len(vols), vols[k] = "simulated" PROVE Dry
      OBVIOUS
    <2>1. k \in 1 .. Len(r.vols) \/ k = Len(r.vols) + 1
      BY <1>1
    <2> HIDE DEF vols
    <2> QED
      BY <1>1, <2>1 DEF Tidy
  <1> HIDE DEF vols
  <1>3. s \in Run /\ s.vols = vols /\ s.balance = r.balance /\ s.pc = r.pc
    BY <1>1 DEF Run, Outcomes
  <1> HIDE DEF s
  <1>4. Tidy(s)
    BY <1>2, <1>3 DEF Tidy
  <1>5. Proceed(s, age) \in Run /\ Tidy(Proceed(s, age))
    BY <1>3, <1>4, TidyProceed
  <1> QED
    BY <1>5 DEF After, s, vols

(* The end of a phase.                                                     *)
LEMMA TidyNext ==
    ASSUME Inv, TidyRuns, NEW w \in Slots, NEW pc, NEW next \in Run, Tidy(next),
           Step(w, pc, next)
    PROVE  TidyRuns'
  <1>1. PICK f \in BOOLEAN : runs' = [runs EXCEPT ![w] = [next EXCEPT !.fellBack = @ \/ f]]
    BY DEF Step
  <1> DEFINE s == [next EXCEPT !.fellBack = @ \/ f]
  <1>2. s.vols = next.vols /\ s.balance = next.balance /\ s.pc = next.pc
    BY DEF Run
  <1>3. runs' = [runs EXCEPT ![w] = s]
    BY <1>1
  <1> HIDE DEF s
  <1>4. Tidy(s)
    BY <1>2 DEF Tidy
  <1>5. UNCHANGED env
    BY DEF Step
  <1> QED
    BY <1>3, <1>4, <1>5, TidyStep

(* No run has found anything.                                              *)
LEMMA NoRunTidy == Tidy(NoRun)
  BY DEF Tidy, NoRun

(* Time passes, and the cron fires.                                        *)
LEMMA TidyTime == Inv /\ TidyRuns /\ (Pass \/ Tick) => TidyRuns'
  <1> SUFFICES ASSUME Inv, TidyRuns, Pass \/ Tick PROVE TidyRuns'
    OBVIOUS
  <1>1. env' = env
    BY DEF Pass, Tick
  <1>2. \A w \in Slots : runs[w] \in Run /\ Tidy(runs[w])
    BY DEF Inv, TidyRuns
  <1>3. NoRun \in Run
    <2>1. env \in Deployments
      BY DEF Inv
    <2>2. GoodRun(NoRun, 0)
      BY <2>1, NoRunGood
    <2> QED
      BY <2>2 DEF GoodRun
  <1>4. ASSUME NEW w \in Slots PROVE Tidy(runs'[w])
    <2>1. CASE Pass
      <3> DEFINE s == [runs[w] EXCEPT !.left = @ - 1]
      <3>1. runs'[w] \in {s, NoRun}
        BY <2>1 DEF Pass
      <3>2. s.pc = runs[w].pc /\ s.vols = runs[w].vols /\ s.balance = runs[w].balance
        BY <1>2 DEF Run
      <3> HIDE DEF s
      <3>3. Tidy(s)
        BY <1>2, <3>2 DEF Tidy
      <3> QED
        BY <3>1, <3>3, NoRunTidy
    <2>2. CASE Tick
      <3> DEFINE p == Enter(NoRun, "probe", ProbeTimeout)
      <3>1. runs'[w] \in {runs["latest"], NoRun, p, Conclude(NoRun)}
        BY <2>2 DEF Tick, Slots
      <3>2. p.pc = "probe" /\ p.vols = NoRun.vols /\ p.balance = NoRun.balance
        BY DEF Enter, NoRun
      <3> HIDE DEF p
      <3>3. Tidy(p) /\ Tidy(Conclude(NoRun)) /\ Tidy(runs["latest"])
        BY <1>2, <1>3, <3>2, NoRunTidy, TidyKept, TidyConclude DEF Slots
      <3> QED
        BY <3>1, <3>3, NoRunTidy
    <2> QED
      BY <2>1, <2>2
  <1>5. ASSUME NEW w \in Slots PROVE Tidy(runs[w])'
    <2>1. PICK r : r = runs'[w]
      OBVIOUS
    <2>2. Tidy(r)
      BY <1>4, <2>1
    <2> QED
      BY <1>1, <2>1, <2>2, TidySame
  <1> QED
    BY <1>5 DEF TidyRuns

(* The steps of a run.                                                     *)
LEMMA TidyRunStep == ASSUME Inv, TidyRuns, NEW w \in Slots, RunStep(w) PROVE TidyRuns'
  <1> DEFINE r   == runs[w]
             age == Age(w)
  <1>1. r \in Run /\ Tidy(r) /\ GoodRun(r, age)
    BY DEF Inv, TidyRuns
  <1>2. ASSUME NEW usable \in SUBSET (1 .. Endpoints), Probed(w, usable) PROVE TidyRuns'
    <2> DEFINE budget == 3 * RequestTime(usable)
               s == [Enter(r, "list", budget) EXCEPT !.usable = usable, !.began = age]
    <2>1. UNCHANGED env /\ (runs' = [runs EXCEPT ![w] = Conclude(r)]
                              \/ runs' = [runs EXCEPT ![w] = s])
      BY <1>2 DEF Probed
    <2>2. s.pc = "list" /\ s.vols = r.vols /\ s.balance = r.balance
      BY <1>1 DEF Enter, Run
    <2> HIDE DEF s
    <2>3. Tidy(s) /\ Tidy(Conclude(r))
      BY <1>1, <2>2, TidyKept, TidyConclude
    <2> QED
      BY <2>1, <2>3, TidyStep
  <1>3. ASSUME NEW count \in 0 .. MaxVolumes, Listed(w, count) PROVE TidyRuns'
    <2> DEFINE gone == IF "VOLUME_IDS" \in env.on THEN MaxVolumes - count ELSE 0
               s    == [r EXCEPT !.count = count, !.gone = gone]
    <2>1. gone \in 0 .. MaxVolumes
      BY ReportAssumption
    <2> HIDE DEF gone
    <2>2. s \in Run /\ s.vols = r.vols /\ s.balance = r.balance /\ s.pc = r.pc
      BY <1>1, <2>1 DEF Run
    <2>3. Step(w, "list", Proceed(s, age))
      BY <1>3 DEF Listed, gone
    <2> HIDE DEF s
    <2>4. Tidy(s)
      BY <1>1, <2>2 DEF Tidy
    <2>5. Proceed(s, age) \in Run /\ Tidy(Proceed(s, age))
      BY <2>2, <2>4, TidyProceed
    <2> QED
      BY <2>3, <2>5, TidyNext
  <1>4. ASSUME ListFails(w) PROVE TidyRuns'
    <2> DEFINE s == [r EXCEPT !.error = TRUE]
               b == ToBalance(s)
    <2>1. s \in Run /\ s.vols = r.vols /\ s.balance = r.balance
      BY <1>1 DEF Run
    <2>2. Step(w, "list", b)
      BY <1>4 DEF ListFails
    <2> HIDE DEF s
    <2>3. RequestTime(s.usable) \in Nat
      BY <2>1, RequestBounded DEF Run
    <2>4. b \in Run /\ b.pc = "balance" /\ b.vols = s.vols /\ b.balance = s.balance
      BY <2>1, <2>3 DEF ToBalance, Enter, Run, Phases
    <2> HIDE DEF b
    <2>5. Tidy(b)
      BY <1>1, <2>1, <2>4, TidyKept
    <2> QED
      BY <2>2, <2>4, <2>5, TidyNext
  <1>5. ASSUME NEW pc, NEW outcome \in Outcomes, NEW sending \in BOOLEAN,
               outcome = "simulated" => Dry,
               Step(w, pc, After(r, outcome, sending, age))
        PROVE  TidyRuns'
    <2>1. After(r, outcome, sending, age) \in Run /\ Tidy(After(r, outcome, sending, age))
      BY <1>1, <1>5, TidyAfter
    <2> QED
      BY <1>5, <2>1, TidyNext
  <1>6. ASSUME Prepared(w) PROVE TidyRuns'
    <2> DEFINE time == RequestTime(r.usable)
               s    == [Enter(r, "send", time) EXCEPT !.sending = TRUE]
    <2>1. time \in Nat
      BY <1>1, RequestBounded DEF Run
    <2>2. Step(w, "prepare", s)
      BY <1>6 DEF Prepared
    <2> HIDE DEF time
    <2>3. s \in Run /\ s.pc = "send" /\ s.vols = r.vols /\ s.balance = r.balance
      BY <1>1, <2>1 DEF Enter, Run, Phases
    <2> HIDE DEF s
    <2> QED
      BY <1>1, <2>2, <2>3, TidyKept, TidyNext
  <1>7. ASSUME Sent(w) PROVE TidyRuns'
    <2> DEFINE s == Enter(r, "receipt", ReceiptTimeout)
    <2>1. s \in Run /\ s.pc = "receipt" /\ s.vols = r.vols /\ s.balance = r.balance
      BY <1>1, WorkerAssumption DEF Enter, Run, Phases
    <2>2. Step(w, "send", s)
      BY <1>7 DEF Sent
    <2> HIDE DEF s
    <2> QED
      BY <1>1, <2>1, <2>2, TidyKept, TidyNext
  <1>8. ASSUME NEW balance \in {"low", "enough", "unread"}, BalanceRead(w, balance)
        PROVE  TidyRuns'
    <2> DEFINE s == [r EXCEPT !.balance = balance]
    <2>1. s \in Run /\ s.vols = r.vols /\ s.balance = balance /\ s.pc = r.pc
      BY <1>1 DEF Run
    <2>2. Step(w, "balance", Conclude(s)) /\ (balance = "low" => "MIN_BALANCE_WEI" \in env.on)
      BY <1>8 DEF BalanceRead
    <2> HIDE DEF s
    <2>3. Tidy(s)
      BY <1>1, <2>1, <2>2 DEF Tidy
    <2>4. Conclude(s) \in Run /\ Tidy(Conclude(s))
      BY <2>1, <2>3, TidyConclude
    <2> QED
      BY <2>2, <2>4, TidyNext
  <1>9. ASSUME NEW alert \in {"sent", "logged"}, Notified(w, alert) PROVE TidyRuns'
    <2> DEFINE s == [r EXCEPT !.pc = "end", !.left = 0, !.alert = alert]
    <2>1. runs' = [runs EXCEPT ![w] = s] /\ UNCHANGED env
      BY <1>9 DEF Notified
    <2>2. s.pc = "end" /\ s.vols = r.vols /\ s.balance = r.balance
      BY <1>1 DEF Run
    <2> HIDE DEF s
    <2>3. Tidy(s)
      BY <1>1, <2>2, TidyKept
    <2> QED
      BY <2>1, <2>3, TidyStep
  <1>10. ASSUME NEW outcome \in {"simulated", "unsent"}, Simulated(w, outcome)
         PROVE  TidyRuns'
    <2>1. r.pc = "simulate" /\ Step(w, "simulate", After(r, outcome, FALSE, age))
      BY <1>10 DEF Simulated, Step
    <2>2. Dry /\ outcome \in Outcomes
      BY <1>1, <2>1 DEF Tidy, Outcomes
    <2> HIDE DEF r, age
    <2> QED
      BY <1>5, <2>1, <2>2
  <1> HIDE DEF r, age
  <1>11. CASE \/ PrepareFails(w) \/ SendFails(w) \/ Unconfirmed(w)
              \/ \E outcome \in {"kept", "declined", "failed"} : Receipt(w, outcome)
    BY <1>5, <1>11 DEF PrepareFails, SendFails, Unconfirmed, Receipt, r, age, Outcomes
  <1> QED
    BY <1>2, <1>3, <1>4, <1>6, <1>7, <1>8, <1>9, <1>10, <1>11 DEF RunStep

(* The second inductive invariant, which rests on the first for types.     *)
LEMMA Tidiness == Spec => []TidyRuns
  <1>1. Init => TidyRuns
    BY NoRunTidy DEF Init, TidyRuns
  <1>2. Inv /\ TidyRuns /\ [Next]_vars => TidyRuns'
    <2> SUFFICES ASSUME Inv, TidyRuns, [Next]_vars PROVE TidyRuns'
      OBVIOUS
    <2>1. CASE UNCHANGED vars
      BY <2>1 DEF vars, TidyRuns, Tidy, Dry
    <2> QED
      BY <2>1, TidyTime, TidyRunStep DEF Next
  <1> QED
    BY <1>1, <1>2, Invariance, PTL DEF Spec

-----------------------------------------------------------------------------
(* What the reports say.                                                   *)

(* runKeeper reports ok only if nothing needs an operator: every endpoint  *)
(* answered, every listed or requested volume was kept in this run, and    *)
(* the balance was read and is high enough. An empty report has empty      *)
(* parts, and a tidy run has no other outcomes.                            *)
THEOREM QuietRunsTheorem == Spec => []QuietRunsAreClean
  <1>1. Inv /\ TidyRuns => QuietRunsAreClean
    <2> SUFFICES ASSUME Inv, TidyRuns, NEW w \in Slots, ReportOf(runs[w]).status = "ok"
                 PROVE  /\ runs[w].usable = 1 .. Endpoints
                        /\ ~runs[w].error /\ runs[w].gone = 0
                        /\ runs[w].vols = [i \in 1 .. runs[w].count |-> "kept"]
                        /\ runs[w].balance = "enough"
      BY DEF QuietRunsAreClean
    <2> DEFINE r      == runs[w]
               report == CycleReport(r, env)
    <2>1. env \in Deployments /\ r \in Run /\ Len(r.vols) <= Planned(r.count, env.limit)
          /\ Tidy(r)
      BY DEF Inv, GoodRun, InPlan, TidyRuns
    <2>2. r.vols \in Seq(Outcomes) /\ r.count \in Nat /\ r.balance \in {"unread", "low", "enough"}
      BY <2>1 DEF Run, Outcomes
    <2> HIDE DEF r
    <2>3. ReportOf(r).status = "ok"
      BY DEF r
    <2>4. ReportOf(r) = report
      BY <2>1, <2>3, ReportKinds, AbortedParts
    <2>5. report.failures = << >> /\ report.warnings = << >>
      <3>1. PICK f, v : report = NewReport(IdentityOf(env), f, v)
        BY DEF CycleReport
      <3> HIDE DEF report
      <3>2. StatusOf(f, v) = "ok" /\ report.failures = f /\ report.warnings = v
        BY <2>3, <2>4, <3>1 DEF NewReport
      <3> QED
        BY <3>2 DEF StatusOf
    <2> HIDE DEF report
    <2>6. /\ ~r.error
          /\ \A k \in 1 .. Len(r.vols) : r.vols[k] \notin {"failed", "unsent"}
          /\ r.usable = 1 .. Endpoints
          /\ ~Dry
          /\ r.balance # "unread"
          /\ r.balance = "low" => "MIN_BALANCE_WEI" \notin env.on
          /\ r.gone = 0
          /\ Len(r.vols) = r.count
          /\ \A k \in 1 .. Len(r.vols) : r.vols[k] # "declined"
      BY <2>1, <2>5, ReportParts DEF report
    <2>7. r.balance = "enough"
      BY <2>1, <2>2, <2>6 DEF Tidy
    <2>8. \A k \in 1 .. Len(r.vols) : r.vols[k] = "kept"
      <3> SUFFICES ASSUME NEW k \in 1 .. Len(r.vols) PROVE r.vols[k] = "kept"
        OBVIOUS
      <3>1. r.vols[k] \in Outcomes
        BY <2>2, ElementOfSeq
      <3>2. r.vols[k] # "simulated"
        BY <2>1, <2>6 DEF Tidy
      <3> QED
        BY <2>6, <3>1, <3>2 DEF Outcomes
    <2>9. r.vols = [i \in 1 .. r.count |-> "kept"]
      <3>1. r.vols \in [1 .. Len(r.vols) -> Outcomes]
        BY <2>2, LenProperties
      <3> QED
        BY <2>6, <2>8, <3>1
    <2> QED
      BY <2>6, <2>7, <2>9 DEF r
  <1> QED
    BY <1>1, Invariance, Tidiness, PTL

(* A volume that a cycle listed and did not attempt, for the limit or the  *)
(* deadline, is in the count of a warning, once: the counts of the         *)
(* warnings add up to the volumes left over.                               *)
THEOREM DeferredTheorem == Spec => []DeferredVolumesAreCounted
  <1>1. Inv => DeferredVolumesAreCounted
    <2> SUFFICES ASSUME Inv, NEW w \in Slots, Problems = {}, runs[w].usable # {}
                 PROVE  runs[w].count - Len(runs[w].vols) =
                           Deferrals(ReportOf(runs[w]).warnings)
      BY DEF DeferredVolumesAreCounted
    <2> DEFINE r == runs[w]
    <2>1. env \in Deployments /\ r \in Run /\ Len(r.vols) <= Planned(r.count, env.limit)
      BY DEF Inv, GoodRun, InPlan
    <2>2. ReportOf(r) = CycleReport(r, env)
      BY DEF ReportOf
    <2> HIDE DEF r
    <2>3. Deferrals(CycleReport(r, env).warnings) = r.count - Len(r.vols)
      BY <2>1, ReportParts
    <2> QED
      BY <2>2, <2>3 DEF r
  <1> QED
    BY <1>1, Invariance, PTL

-----------------------------------------------------------------------------
(* The message.                                                            *)

(* The blocks of a message: issues and titles.                             *)
Blocked == [about : Abouts \cup {"title"}, lines : Nat, n : Nat]

(* A title before the issues, if there are any.                            *)
LEMMA TitledFacts ==
    ASSUME NEW issues \in Seq(Issues)
    PROVE  /\ Titled(issues) \in Seq(Blocked)
           /\ Len(issues) \in Nat
           /\ Len(Titled(issues)) = IF Len(issues) = 0 THEN 0 ELSE Len(issues) + 1
           /\ \A k \in 1 .. Len(Titled(issues)) : Titled(issues)[k].about = "title" <=> k = 1
  <1>1. Len(issues) \in Nat /\ \A k \in 1 .. Len(issues) : issues[k] \in Issues
    BY LenProperties, ElementOfSeq
  <1>2. CASE issues = << >>
    <2>1. Titled(issues) = << >> /\ Len(issues) = 0 /\ << >> \in Seq(Blocked) /\ Len(<< >>) = 0
      BY <1>2, EmptySeq DEF Titled
    <2> QED
      BY <2>1
  <1>3. CASE issues # << >>
    <2> DEFINE title == Issue("title", 2, 0)
               t     == Titled(issues)
    <2>1. title \in Blocked /\ title.about = "title"
      BY DEF Blocked, Issue
    <2>2. t = <<title>> \o issues
      BY <1>3 DEF Titled
    <2> HIDE DEF title
    <2>3. issues \in Seq(Blocked)
      BY SeqMonotonic DEF Blocked, Issues
    <2>4. <<title>> \in Seq(Blocked) /\ Len(<<title>>) = 1 /\ <<title>>[1] = title
      BY <2>1
    <2>5. t \in Seq(Blocked) /\ Len(t) = 1 + Len(issues)
          /\ \A k \in 1 .. 1 + Len(issues) :
                t[k] = IF k <= 1 THEN <<title>>[k] ELSE issues[k - 1]
      BY <2>2, <2>3, <2>4, ConcatProperties
    <2>6. Len(issues) # 0
      BY <1>3, EmptySeq
    <2> HIDE DEF t
    <2>7. ASSUME NEW k \in 1 .. Len(t)
          PROVE  t[k].about = "title" <=> k = 1
      <3>1. CASE k = 1
        BY <1>1, <2>1, <2>4, <2>5, <3>1
      <3>2. CASE k # 1
        <4>1. k - 1 \in 1 .. Len(issues) /\ k \in 1 .. 1 + Len(issues) /\ ~(k <= 1)
          BY <1>1, <2>5, <3>2
        <4>2. t[k] \in Issues
          BY <1>1, <2>5, <4>1
        <4> QED
          BY <3>2, <4>2 DEF Issues, Abouts
      <3> QED
        BY <3>1, <3>2
    <2> QED
      BY <1>1, <2>5, <2>6, <2>7 DEF t
  <1> QED
    BY <1>2, <1>3

(* The first block that would overflow.                                    *)
LEMMA LeastOfSet ==
    ASSUME NEW S \in SUBSET Nat, S # {}
    PROVE  Min(S) \in S /\ \A k \in S : Min(S) <= k
  <1>1. \E m \in S : \A k \in S : m <= k
    BY LeastNat
  <1> QED
    BY <1>1 DEF Min

(* The blocks of a part and those of the rest make up all of them.         *)
LEMMA Counted ==
    ASSUME NEW blocks, NEW n \in Nat, NEW kept \in 0 .. n
    PROVE  IssuesIn(blocks, 1, kept) + IssuesIn(blocks, kept + 1, n) = IssuesIn(blocks, 1, n)
           /\ IssuesIn(blocks, 1, kept) \in Nat /\ IssuesIn(blocks, kept + 1, n) \in Nat
  <1> DEFINE T(i, j) == {k \in i .. j : blocks[k].about # "title"}
             A == T(1, kept)
             B == T(kept + 1, n)
  <1>1. IsFiniteSet(1 .. kept) /\ IsFiniteSet(kept + 1 .. n)
    BY FS_Interval
  <1>2. A \in SUBSET (1 .. kept) /\ B \in SUBSET (kept + 1 .. n)
    OBVIOUS
  <1>3. IsFiniteSet(A) /\ IsFiniteSet(B)
    BY <1>1, <1>2, FS_Subset
  <1>4. A \cap B = {} /\ A \cup B = T(1, n)
    <2>1. 1 .. kept \cap (kept + 1 .. n) = {} /\ 1 .. kept \cup (kept + 1 .. n) = 1 .. n
      OBVIOUS
    <2> QED
      BY <2>1
  <1> HIDE DEF A, B
  <1>5. Cardinality(A \cup B) = Cardinality(A) + Cardinality(B) - Cardinality({})
    BY <1>3, <1>4, FS_Union
  <1>6. Cardinality(A) \in Nat /\ Cardinality(B) \in Nat /\ Cardinality({}) = 0
    BY <1>3, FS_CardinalityType, FS_EmptySet
  <1>7. IssuesIn(blocks, 1, kept) = Cardinality(A) /\ IssuesIn(blocks, kept + 1, n) = Cardinality(B)
        /\ IssuesIn(blocks, 1, n) = Cardinality(A \cup B)
    BY <1>4 DEF IssuesIn, A, B
  <1> QED
    BY <1>5, <1>6, <1>7

(* A message is made of all issues of its report.                          *)
LEMMA BlocksFacts ==
    ASSUME NEW F \in Seq(Issues), NEW W \in Seq(Issues)
    PROVE  /\ Titled(F) \o Titled(W) \in Seq(Blocked)
           /\ LET blocks == Titled(F) \o Titled(W)
              IN  IssuesIn(blocks, 1, Len(blocks)) = Len(F) + Len(W)
  <1> DEFINE s      == Titled(F)
             t      == Titled(W)
             blocks == s \o t
             a      == Len(s)
             b      == Len(t)
             f      == Len(F)
             v      == Len(W)
  <1>1. /\ s \in Seq(Blocked) /\ f \in Nat /\ a = IF f = 0 THEN 0 ELSE f + 1
        /\ \A k \in 1 .. a : s[k].about = "title" <=> k = 1
    BY TitledFacts
  <1>2. /\ t \in Seq(Blocked) /\ v \in Nat /\ b = IF v = 0 THEN 0 ELSE v + 1
        /\ \A k \in 1 .. b : t[k].about = "title" <=> k = 1
    BY TitledFacts
  <1> HIDE DEF s, t
  <1>3. /\ blocks \in Seq(Blocked) /\ Len(blocks) = a + b
        /\ \A k \in 1 .. a + b : blocks[k] = IF k <= a THEN s[k] ELSE t[k - a]
    BY <1>1, <1>2, ConcatProperties
  <1> HIDE DEF blocks, a, b, f, v
  <1>4. a \in Nat /\ b \in Nat
    BY <1>1, <1>2
  <1>5. \A k \in 1 .. a + b : blocks[k].about = "title" <=> (k = 1 /\ a # 0) \/ k = a + 1
    <2> SUFFICES ASSUME NEW k \in 1 .. a + b
                 PROVE  blocks[k].about = "title" <=> (k = 1 /\ a # 0) \/ k = a + 1
      OBVIOUS
    <2>1. CASE k <= a
      <3>1. k \in 1 .. a /\ a # 0 /\ k # a + 1
        BY <1>4, <2>1
      <3>2. blocks[k] = s[k]
        BY <1>3, <2>1
      <3> QED
        BY <1>1, <3>1, <3>2
    <2>2. CASE ~(k <= a)
      <3>1. k - a \in 1 .. b /\ (k - a = 1 <=> k = a + 1) /\ (k = 1 => a = 0)
        BY <1>4, <2>2
      <3>2. blocks[k] = t[k - a]
        BY <1>3, <2>2
      <3> QED
        BY <1>2, <3>1, <3>2
    <2> QED
      BY <2>1, <2>2
  <1> DEFINE A == 2 .. a
             B == a + 2 .. a + b
  <1>6. {k \in 1 .. a + b : blocks[k].about # "title"} = A \cup B
    <2>1. ASSUME NEW k \in 1 .. a + b
          PROVE  ~((k = 1 /\ a # 0) \/ k = a + 1) <=> k \in A \cup B
      BY <1>4
    <2>2. A \cup B \subseteq 1 .. a + b
      BY <1>4
    <2> HIDE DEF A, B
    <2> QED
      BY <1>5, <2>1, <2>2
  <1>7. A \cap B = {}
    BY <1>4
  <1>8. /\ IsFiniteSet(A) /\ Cardinality(A) = IF 2 > a THEN 0 ELSE a - 2 + 1
        /\ IsFiniteSet(B) /\ Cardinality(B) = IF a + 2 > a + b THEN 0 ELSE a + b - (a + 2) + 1
    BY <1>4, FS_Interval
  <1> HIDE DEF A, B
  <1>9. Cardinality(A \cup B) = Cardinality(A) + Cardinality(B) - 0
    <2>1. IsFiniteSet(A) /\ IsFiniteSet(B)
      BY <1>8
    <2>2. Cardinality(A \cup B) = Cardinality(A) + Cardinality(B) - Cardinality(A \cap B)
      BY <2>1, FS_Union
    <2>3. Cardinality(A \cap B) = 0
      BY <1>7, FS_EmptySet
    <2> QED
      BY <2>2, <2>3
  <1>10. Cardinality(A) = f /\ Cardinality(B) = v
    BY <1>1, <1>2, <1>4, <1>8
  <1>11. IssuesIn(blocks, 1, Len(blocks)) = f + v
    <2>1. IssuesIn(blocks, 1, Len(blocks)) = Cardinality(A \cup B)
      BY <1>3, <1>6, Zenon DEF IssuesIn
    <2> QED
      BY <1>1, <1>2, <1>9, <1>10, <2>1
  <1> QED
    BY <1>3, <1>11 DEF blocks, s, t, f, v

(* The text without a block is the header.                                 *)
LEMMA TextFacts ==
    ASSUME NEW header \in Nat, NEW blocks \in Seq(Blocked)
    PROVE  /\ TextOf(header, blocks, 0) = header
           /\ \A i \in 0 .. Len(blocks) : TextOf(header, blocks, i) \in Int
  <1> DEFINE ns == [k \in DOMAIN blocks |-> blocks[k].lines]
  <1>1. Len(blocks) \in Nat /\ DOMAIN blocks = 1 .. Len(blocks)
        /\ \A k \in 1 .. Len(blocks) : blocks[k] \in Blocked
    BY LenProperties, ElementOfSeq
  <1>2. ns \in [1 .. Len(blocks) -> Int]
    BY <1>1 DEF Blocked
  <1>3. ns \in Seq(Int) /\ Len(ns) = Len(blocks)
    BY <1>1, <1>2
  <1>4. \A i : TextOf(header, blocks, i) = header + Sums(ns)[i]
    BY DEF TextOf
  <1> HIDE DEF ns
  <1>5. Sums(ns)[0] = 0 /\ \A i \in 0 .. Len(blocks) : Sums(ns)[i] \in Int
    BY <1>3, SumsFacts
  <1> QED
    BY <1>4, <1>5

(* If the header leaves room for the tail, the blocks that are kept fit,   *)
(* with the tail if there is one; every block is kept or left out.         *)
LEMMA FitFacts ==
    ASSUME NEW header \in Nat, NEW blocks \in Seq(Blocked)
    PROVE  /\ header + TailLines <= MaxLength => Fit(header, blocks).length <= MaxLength
           /\ Fit(header, blocks).shown + Fit(header, blocks).omitted =
                 IssuesIn(blocks, 1, Len(blocks))
  <1> DEFINE n    == Len(blocks)
             over == {i \in DOMAIN blocks : Overflows(header, blocks, i)}
             kept == IF over = {} THEN n ELSE Min(over) - 1
             tail == IF over = {} THEN 0 ELSE TailLines
             text == TextOf(header, blocks, kept)
  <1>1. n \in Nat /\ DOMAIN blocks = 1 .. n
    BY LenProperties
  <1>2. Fit(header, blocks) = [length  |-> text + tail,
                               shown   |-> IssuesIn(blocks, 1, kept),
                               omitted |-> IssuesIn(blocks, kept + 1, n)]
    BY DEF Fit
  <1> HIDE DEF n
  <1>3. TailLines \in Nat /\ MaxLength \in Nat
    BY ReportAssumption
  <1>4. /\ kept \in 0 .. n
        /\ kept \in 1 .. n => ~Overflows(header, blocks, kept)
    <2>1. CASE over = {}
      BY <1>1, <2>1
    <2>2. CASE over # {}
      <3>1. over \in SUBSET Nat /\ over \subseteq 1 .. n
        BY <1>1
      <3> HIDE DEF over
      <3>2. Min(over) \in over /\ \A k \in over : Min(over) <= k
        BY <2>2, <3>1, LeastOfSet
      <3>3. PICK m \in 1 .. n : m = Min(over)
        BY <3>1, <3>2
      <3>4. m - 1 \notin over
        BY <3>2, <3>3
      <3>5. kept = m - 1 /\ kept \in 0 .. n
        BY <1>1, <2>2, <3>3
      <3> HIDE DEF kept
      <3> QED
        BY <1>1, <3>4, <3>5 DEF over
    <2> QED
      BY <2>1, <2>2
  <1>5. tail \in {0, TailLines}
    OBVIOUS
  <1> HIDE DEF over, kept, tail
  <1>6. text \in Int
    BY <1>4, TextFacts DEF n
  <1>7. header + TailLines <= MaxLength => text + TailLines <= MaxLength
    <2>1. CASE kept = 0
      BY <1>3, <2>1, TextFacts
    <2>2. CASE kept # 0
      <3>1. kept \in 1 .. n
        BY <1>1, <1>4, <2>2
      <3> HIDE DEF text
      <3> QED
        BY <1>3, <1>4, <1>6, <3>1 DEF Overflows, text
    <2> QED
      BY <2>1, <2>2
  <1>8. IssuesIn(blocks, 1, kept) + IssuesIn(blocks, kept + 1, n) = IssuesIn(blocks, 1, n)
    BY <1>1, <1>4, Counted
  <1> HIDE DEF text
  <1>9. header + TailLines <= MaxLength => text + tail <= MaxLength
    BY <1>3, <1>5, <1>6, <1>7
  <1> QED
    BY <1>2, <1>8, <1>9 DEF n

(* A failure has a first issue; of a run with a valid configuration its    *)
(* message takes one line, unless it names a volume.                       *)
LEMMA SummaryFacts ==
    ASSUME NEW report, report.failures \in Seq(Issues),
           report.status = "failure" => report.failures # << >>
    PROVE  /\ SummaryLines(report) \in Nat
           /\ report.failures \in Seq(Brief) => SummaryLines(report) <= 1
  <1> DEFINE s == report.failures
  <1>1. s \in Seq(Issues) /\ Len(s) \in Nat /\ DOMAIN s = 1 .. Len(s)
        /\ \A k \in 1 .. Len(s) : s[k] \in Issues
    BY LenProperties, ElementOfSeq
  <1>2. s \in Seq(Brief) => \A k \in 1 .. Len(s) : s[k] \in Brief
    BY ElementOfSeq
  <1>3. s # << >> => 1 \in 1 .. Len(s) /\ Head(s) = s[1]
    BY <1>1, EmptySeq
  <1>4. SummaryLines(report) =
           IF report.status = "failure" /\ \A k \in DOMAIN s : s[k].about # "volume"
           THEN Head(s).lines ELSE 0
    BY DEF SummaryLines
  <1>5. report.status = "failure" => s # << >>
    OBVIOUS
  <1> HIDE DEF s
  <1>6. CASE report.status = "failure" /\ \A k \in DOMAIN s : s[k].about # "volume"
    <2>1. 1 \in 1 .. Len(s) /\ SummaryLines(report) = s[1].lines /\ s[1].about # "volume"
      BY <1>1, <1>3, <1>4, <1>5, <1>6
    <2>2. s[1].lines \in Nat
      BY <1>1, <2>1 DEF Issues
    <2>3. s \in Seq(Brief) => s[1].lines = 1
      BY <1>2, <2>1 DEF Brief
    <2> QED
      BY <2>1, <2>2, <2>3 DEF s
  <1>7. CASE ~(report.status = "failure" /\ \A k \in DOMAIN s : s[k].about # "volume")
    BY <1>4, <1>7
  <1> QED
    BY <1>6, <1>7

(* A report holds what the message is made of.                             *)
LEMMA ReportForm ==
    ASSUME NEW r
    PROVE  /\ ReportOf(r).identity = IdentityOf(env)
           /\ ReportOf(r).status = "failure" => ReportOf(r).failures # << >>
  <1>1. PICK f, v : ReportOf(r) = NewReport(IdentityOf(env), f, v)
    <2>1. \A problems : AbortedReport(env, problems) = NewReport(IdentityOf(env), problems, << >>)
      BY DEF AbortedReport
    <2>2. \E f, v : CycleReport(r, env) = NewReport(IdentityOf(env), f, v)
      BY DEF CycleReport
    <2> QED
      BY <2>1, <2>2 DEF ReportOf
  <1> QED
    BY <1>1 DEF NewReport, StatusOf

(* telegram.ts: formatTelegramMessage stays within TELEGRAM_MAX_LENGTH     *)
(* where the header leaves room for the tail, and the header of a run with *)
(* a valid configuration is bounded by the name of the deployment; every   *)
(* issue is shown or counted, whatever the report and the limit.           *)
THEOREM AlertsFitTheorem == Spec => []AlertsFit
  <1>1. Inv => AlertsFit
    <2> SUFFICES ASSUME Inv, NEW w \in Slots
                 PROVE  LET report  == ReportOf(runs[w])
                            message == FormatTelegramMessage(report)
                        IN  /\ message.shown + message.omitted =
                                  Len(report.failures) + Len(report.warnings)
                            /\ HeaderOf(report) + TailLines <= MaxLength =>
                                  message.length <= MaxLength
                            /\ Problems = {} =>
                                  HeaderOf(report)
                                     <= HeaderLines + 2 * env.size["DEPLOYMENT_NAME"] + 1
      BY DEF AlertsFit
    <2> DEFINE r      == runs[w]
               report == ReportOf(r)
               header == HeaderOf(report)
               name   == env.size["DEPLOYMENT_NAME"]
               blocks == Titled(report.failures) \o Titled(report.warnings)
    <2>1. env \in Deployments /\ r \in Run /\ Len(r.vols) <= Planned(r.count, env.limit)
      BY DEF Inv, GoodRun, InPlan
    <2> HIDE DEF r
    <2>2. /\ report.failures \in Seq(Issues) /\ report.warnings \in Seq(Issues)
          /\ Problems = {} => report.failures \in Seq(Brief)
      BY <2>1, ReportKinds, AbortedParts, ReportParts, BriefIssues
    <2>3. /\ report.identity = IdentityOf(env)
          /\ report.status = "failure" => report.failures # << >>
      BY ReportForm
    <2> HIDE DEF report
    <2>4. name \in Nat /\ Echo(env, "REGISTRY_ADDRESS") \in Nat
          /\ (Problems = {} => Echo(env, "REGISTRY_ADDRESS") = 0)
      <3>1. "DEPLOYMENT_NAME" \in Keys /\ "REGISTRY_ADDRESS" \in Keys
        BY KeyFacts DEF Required
      <3> QED
        BY <2>1, <3>1, EchoNat
    <2>5. IdentityOf(env) = 2 * name + Echo(env, "REGISTRY_ADDRESS")
      BY DEF IdentityOf
    <2>6. SummaryLines(report) \in Nat /\ (Problems = {} => SummaryLines(report) <= 1)
      BY <2>2, <2>3, SummaryFacts
    <2>7. header = HeaderLines + report.identity + SummaryLines(report) /\ HeaderLines \in Nat
      BY ReportAssumption DEF HeaderOf
    <2> HIDE DEF header, name
    <2>8. header \in Nat /\ (Problems = {} => header <= HeaderLines + 2 * name + 1)
      BY <2>3, <2>4, <2>5, <2>6, <2>7
    <2>9. blocks \in Seq(Blocked)
          /\ IssuesIn(blocks, 1, Len(blocks)) = Len(report.failures) + Len(report.warnings)
      BY <2>2, BlocksFacts
    <2>10. FormatTelegramMessage(report) = Fit(header, blocks)
      BY DEF FormatTelegramMessage, Blocks, header
    <2> HIDE DEF blocks
    <2>11. /\ header + TailLines <= MaxLength => Fit(header, blocks).length <= MaxLength
           /\ Fit(header, blocks).shown + Fit(header, blocks).omitted =
                 IssuesIn(blocks, 1, Len(blocks))
      BY <2>8, <2>9, FitFacts
    <2> QED
      BY <2>8, <2>9, <2>10, <2>11 DEF report, r, header, name
  <1> QED
    BY <1>1, Invariance, PTL
=============================================================================
