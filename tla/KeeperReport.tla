---------------------------- MODULE KeeperReport ----------------------------
(***************************************************************************)
(* What a scheduled run of the keeper reports: the failures and warnings   *)
(* of a finished run, its status, and the Telegram message made of them.   *)
(* Wording is left out: an issue is what it is about, how many volumes it  *)
(* speaks for, and how many lines it takes.  An issue of the configuration *)
(* takes more of them where it repeats the text of a binding.              *)
(***************************************************************************)
EXTENDS Integers, SequencesExt, FiniteSetsExt

CONSTANTS
    Endpoints,   \* number of RPC_URL entries; the first is the primary
    MaxVolumes,  \* bound: volumes found by one run, and ids in VOLUME_IDS
    HeaderLines, \* lines of a header without a problem's text or a long name
    TailLines,   \* lines of "... and n more"
    MaxLength    \* TELEGRAM_MAX_LENGTH, in lines

ASSUME ReportAssumption ==
    /\ Endpoints \in Nat \ {0} /\ MaxVolumes \in Nat \ {0}
    /\ HeaderLines \in Nat /\ TailLines \in Nat /\ MaxLength \in Nat

Issue(about, lines, n) == [about |-> about, lines |-> lines, n |-> n]

(* The sums of the first 0, 1, ... numbers of a sequence.                  *)
Sums(ns) ==
    LET sum[i \in 0 .. Len(ns)] == IF i = 0 THEN 0 ELSE sum[i - 1] + ns[i]
    IN  sum

(* One issue, or none.                                                     *)
When(condition, issue) == IF condition THEN <<issue>> ELSE << >>

StatusOf(failures, warnings) ==
    IF failures # << >> THEN "failure" ELSE IF warnings # << >> THEN "warning" ELSE "ok"

NewReport(identity, failures, warnings) ==
    [identity |-> identity,
     status   |-> StatusOf(failures, warnings),
     failures |-> failures,
     warnings |-> warnings]

(* Bindings whose text no problem repeats.                                 *)
NotEchoed == {"PRIVATE_KEY", "RPC_URL", "TELEGRAM_BOT_TOKEN"}

(* The lines that the text of a binding adds where it is repeated: none if *)
(* it is well-formed, any number if it is not.                             *)
Echo(env, key) == IF key \in env.malformed \ NotEchoed THEN env.size[key] ELSE 0

(* What the name of the deployment, which a header holds twice, and its    *)
(* registry add to the lines of a header.                                  *)
IdentityOf(env) == 2 * env.size["DEPLOYMENT_NAME"] + Echo(env, "REGISTRY_ADDRESS")

(* What readConfig says of a binding.                                      *)
ProblemOf(env, key) == Issue("problem", 1 + Echo(env, key), 0)

(* Mutant of EndpointWarnings: only a failover is worth a warning.         *)
EndpointWarningsPrimary(usable) ==
    When(1 \notin usable /\ usable # {}, Issue("failover", 1, 0))

(* One for every endpoint that failed its probe, and one if the first is   *)
(* among them and another one serves instead.                              *)
EndpointWarnings(usable) ==
    [i \in 1 .. Endpoints - Cardinality(usable) |-> Issue("endpoint", 1, 0)]
        \o When(1 \notin usable /\ usable # {}, Issue("failover", 1, 0))

(* A run that stopped before its cycle.                                    *)
AbortedReport(env, problems) == NewReport(IdentityOf(env), problems, << >>)

NoEndpointProblems == <<Issue("no endpoint", 1, 0)>> \o EndpointWarnings({})

(* How many volumes of a list a run attempts.                              *)
Planned(count, limit) == Min({count, limit})

(* Mutant of VolumeIssue: a failure without a transaction is passed over.  *)
VolumeIssueHashOnly(outcome) == IF outcome = "failed" THEN <<Issue("volume", 3, 1)>> ELSE << >>

(* The failure of a volume: reverted or unconfirmed, with its transaction, *)
(* or never sent.                                                          *)
VolumeIssue(outcome) ==
    CASE outcome = "failed" -> <<Issue("volume", 3, 1)>>
      [] outcome = "unsent" -> <<Issue("volume", 2, 1)>>
      [] OTHER              -> << >>

(* retired, or not funded                                                  *)
Declined(outcome) == When(outcome = "declined", Issue("declined", 3, 1))

Each(Op(_), vols) == FlattenSeq([i \in DOMAIN vols |-> Op(vols[i])])

(* Mutant of LimitWarning: it counts all volumes.                          *)
LimitWarningAll(count, limit) == When(limit < count, Issue("limit", 1, count))

LimitWarning(count, limit) == When(limit < count, Issue("limit", 1, count - limit))

(* The warnings a cycle leaves: requested ids that are not Active, volumes *)
(* beyond the limit, volumes not funded or retired, volumes that the       *)
(* deadline left for the next run.                                         *)
CycleWarnings(r, limit) ==
    LET left == Planned(r.count, limit) - Len(r.vols)
    IN  [i \in 1 .. r.gone |-> Issue("gone", 2, 1)]
            \o LimitWarning(r.count, limit)
            \o Each(Declined, r.vols)
            \o When(left > 0, Issue("deadline", 1, left))

(* Mutant of BalanceWarning: a balance that was not read is not low.       *)
BalanceWarningRead(balance, floor) ==
    When(balance = "low" /\ floor, Issue("balance", 1, 0))

BalanceWarning(balance, floor) ==
    When(balance = "unread" \/ (balance = "low" /\ floor), Issue("balance", 1, 0))

(* r is a finished run, env the bindings of its deployment.                *)
CycleReport(r, env) ==
    NewReport(
        IdentityOf(env),
        When(r.error, Issue("cycle", 1, 0)) \o Each(VolumeIssue, r.vols),
        EndpointWarnings(r.usable)
            \o When("DRY_RUN" \in env.on, Issue("dry run", 1, 0))
            \o BalanceWarning(r.balance, "MIN_BALANCE_WEI" \in env.on)
            \o CycleWarnings(r, env.limit))

-----------------------------------------------------------------------------
(* The message.                                                            *)

(* Failures always page, warnings where the deployment opts in.            *)
ShouldNotify(report, notifyWarnings) ==
    report.status = "failure" \/ (report.status = "warning" /\ notifyWarnings)

Titled(issues) ==
    IF issues = << >> THEN << >> ELSE <<Issue("title", 2, 0)>> \o issues

Blocks(report) == Titled(report.failures) \o Titled(report.warnings)

IssuesIn(blocks, from, to) == Cardinality({k \in from .. to : blocks[k].about # "title"})

(* The summary of a failure that names no volume holds its first message.  *)
SummaryLines(report) ==
    IF report.status = "failure"
       /\ \A i \in DOMAIN report.failures : report.failures[i].about # "volume"
    THEN Head(report.failures).lines
    ELSE 0

HeaderOf(report) == HeaderLines + report.identity + SummaryLines(report)

(* The header and the first i blocks.                                      *)
TextOf(header, blocks, i) == header + Sums([k \in DOMAIN blocks |-> blocks[k].lines])[i]

(* Mutant of Overflows: no room is kept for the tail.                      *)
OverflowsText(header, blocks, i) == TextOf(header, blocks, i) > MaxLength

Overflows(header, blocks, i) == TextOf(header, blocks, i) + TailLines > MaxLength

(* Whole blocks up to the first that would overflow; then how many issues  *)
(* are left out.                                                           *)
Fit(header, blocks) ==
    LET over == {i \in DOMAIN blocks : Overflows(header, blocks, i)}
        kept == IF over = {} THEN Len(blocks) ELSE Min(over) - 1
    IN  [length  |-> TextOf(header, blocks, kept) + (IF over = {} THEN 0 ELSE TailLines),
         shown   |-> IssuesIn(blocks, 1, kept),
         omitted |-> IssuesIn(blocks, kept + 1, Len(blocks))]

FormatTelegramMessage(report) == Fit(HeaderOf(report), Blocks(report))
=============================================================================
