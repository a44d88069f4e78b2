--------------------------- MODULE EventLogStore ---------------------------
(***************************************************************************)
(* The indexer's cache of one deployment and the `sync` that maintains it: *)
(* append-only files of decoded log rows, one per event type, a head       *)
(* marker, and the artifact entry projected from what was loaded and what  *)
(* was fetched.  A sync reads the files, then the head, then takes the     *)
(* blocks after the head in ranges; it writes the rows of a range file by  *)
(* file before it writes the head, writes the artifact last, and may be    *)
(* killed between any two writes or in the middle of one.                  *)
(*                                                                         *)
(* A row is its position in the chain, with at most one row of each type   *)
(* in a block; its payload plays no part here.                             *)
(***************************************************************************)
EXTENDS Naturals, FiniteSets, FiniteSetsExt

CONSTANTS
    Types,        \* event types: one file each
    Transfer,     \* the fee leg, fetched after the registry's events
    Procs,        \* processes that may run `sync`
    Genesis,      \* genesis_block
    MaxBlock,     \* bound: blocks that become final
    ChunkSize,    \* blocks of a range
    ToBlocks,     \* blocks an operator may pass as --to-block
    OnlyFinal,    \* TRUE: passes none of them before it is final
    MaxCrashes,   \* bound: syncs that are killed
    NoHead, Torn, NoEntry

Blocks == Genesis .. MaxBlock
Rows == Blocks \X Types

ASSUME StoreAssumption ==
    /\ Transfer \in Types
    /\ Genesis \in Nat \ {0} /\ MaxBlock \in Nat /\ Genesis <= MaxBlock
    /\ ChunkSize \in Nat \ {0}
    /\ ToBlocks \subseteq Blocks /\ OnlyFinal \in BOOLEAN
    /\ MaxCrashes \in Nat
    /\ NoHead \notin Nat /\ Torn \notin Nat /\ NoHead # Torn

VARIABLES
    chain,       \* the rows of the final blocks
    finalized,   \* the last finalized block
    lines,       \* how many lines of the files hold a row
    torn,        \* types whose file ends in part of a line
    headFile,    \* head.json
    entry,       \* the deployment's entry in the artifact, Torn if that has no end
    sync,        \* the local state of each process
    crashes

vars == <<chain, finalized, lines, torn, headFile, entry, sync, crashes>>

Within(rows, first, last) == {r \in rows : r[1] \in first .. last}

Idle == [pc |-> "idle", target |-> 0, prior |-> {}, from |-> 0, start |-> 0,
         end |-> 0, rows |-> {}, pend |-> {}, fresh |-> {}]

Init ==
    /\ chain \in SUBSET Within(Rows, Genesis, Genesis)
    /\ finalized = Genesis
    /\ lines = [r \in Rows |-> 0]
    /\ torn = {}
    /\ headFile = NoHead
    /\ entry = NoEntry
    /\ sync = [p \in Procs |-> Idle]
    /\ crashes = 0

-----------------------------------------------------------------------------
(* One run of `sync`.                                                      *)

(* load_event_log: each row once, however many lines hold it.  A file that *)
(* ends in part of a line is refused.                                      *)
LoadLog(p, target) ==
    /\ sync[p].pc = "idle"
    /\ torn = {}
    /\ sync' = [sync EXCEPT ![p] =
                  [Idle EXCEPT !.pc = "head", !.target = target,
                               !.prior = {r \in Rows : lines[r] > 0}]]
    /\ UNCHANGED <<chain, finalized, lines, torn, headFile, entry, crashes>>

(* Mutant of ResumeFrom: the head's own block is fetched again.            *)
ResumeAtHead == IF headFile = NoHead THEN Genesis ELSE headFile

ResumeFrom == IF headFile = NoHead THEN Genesis ELSE headFile + 1

(* load_head                                                               *)
LoadHead(p) ==
    /\ sync[p].pc = "head"
    /\ headFile # Torn
    /\ sync' = [sync EXCEPT ![p].pc = "range", ![p].from = ResumeFrom,
                            ![p].start = ResumeFrom]
    /\ UNCHANGED <<chain, finalized, lines, torn, headFile, entry, crashes>>

(* A head.json that another process truncated, or that a killed one left   *)
(* empty, ends the sync.                                                   *)
RefuseHead(p) ==
    /\ sync[p].pc = "head"
    /\ headFile = Torn
    /\ sync' = [sync EXCEPT ![p] = Idle]
    /\ UNCHANGED <<chain, finalized, lines, torn, headFile, entry, crashes>>

(* Mutant of RangeEnd: the range is not cut at the target.                 *)
RangeEndUncut(s) == s.start + ChunkSize - 1

RangeEnd(s) == Min({s.start + ChunkSize - 1, s.target})

(* What eth_getLogs may answer: the rows of the final blocks, and of the   *)
(* others any that a reorganization may still remove, or none where the    *)
(* chain has not got there.                                                *)
Answers(from, to) ==
    {Within(chain, from, to) \cup tip : tip \in SUBSET Within(Rows, finalized + 1, to)}

Fetched(p, end, rows) ==
    /\ sync' = [sync EXCEPT ![p].pc = "append", ![p].end = end,
                            ![p].rows = rows, ![p].pend = rows]
    /\ UNCHANGED <<chain, finalized, lines, torn, headFile, entry, crashes>>

(* Mutant of FetchRange: the target itself is not waited for.              *)
FetchRangeBefore(p) ==
    /\ sync[p].pc = "range"
    /\ sync[p].start < sync[p].target
    /\ LET end == RangeEnd(sync[p])
       IN  \E rows \in Answers(sync[p].start, end) : Fetched(p, end, rows)

(* iter_log_chunks: the rows of the next range.                            *)
FetchRange(p) ==
    /\ sync[p].pc = "range"
    /\ sync[p].start <= sync[p].target
    /\ LET end == RangeEnd(sync[p])
       IN  \E rows \in Answers(sync[p].start, end) : Fetched(p, end, rows)

(* The file append_rows opens next: those of the registry's events come    *)
(* first, because their logs do.                                           *)
Opens(p, t) ==
    /\ sync[p].pc = "append"
    /\ \E r \in sync[p].pend : r[2] = t
    /\ t = Transfer => \A r \in sync[p].pend : r[2] = Transfer

WithRows(rows) == [r \in Rows |-> IF r \in rows THEN lines[r] + 1 ELSE lines[r]]

AppendFile(p, t) ==
    /\ Opens(p, t)
    /\ LET rows == {r \in sync[p].pend : r[2] = t}
       IN  /\ lines' = WithRows(rows)
           /\ sync' = [sync EXCEPT ![p].pend = @ \ rows]
    /\ UNCHANGED <<chain, finalized, torn, headFile, entry, crashes>>

(* Mutant of TruncateHead: the head is written before the rows.            *)
TruncateHeadEarly(p) ==
    /\ sync[p].pc = "append"
    /\ headFile' = Torn
    /\ sync' = [sync EXCEPT ![p].pc = "save"]
    /\ UNCHANGED <<chain, finalized, lines, torn, entry, crashes>>

(* save_head opens head.json, which empties it, and then writes the block. *)
TruncateHead(p) ==
    /\ sync[p].pc = "append"
    /\ sync[p].pend = {}
    /\ headFile' = Torn
    /\ sync' = [sync EXCEPT ![p].pc = "save"]
    /\ UNCHANGED <<chain, finalized, lines, torn, entry, crashes>>

(* Mutant of WriteHead: the rows of the range do not reach the projector.  *)
WriteHeadForgets(p) ==
    /\ sync[p].pc = "save"
    /\ headFile' = sync[p].end
    /\ sync' = [sync EXCEPT ![p].pc = "range", ![p].start = sync[p].end + 1,
                            ![p].rows = {}]
    /\ UNCHANGED <<chain, finalized, lines, torn, entry, crashes>>

WriteHead(p) ==
    /\ sync[p].pc = "save"
    /\ headFile' = sync[p].end
    /\ sync' = [sync EXCEPT
                  ![p].pc = "range",
                  ![p].start = sync[p].end + 1,
                  ![p].rows = {},
                  ![p].fresh = @ \cup sync[p].rows]
    /\ UNCHANGED <<chain, finalized, lines, torn, entry, crashes>>

(* How often the projector sees a row: what was loaded and what was        *)
(* fetched are concatenated, and rows after as_of are cut.                 *)
Seen(s, r) ==
    IF r[1] > s.target THEN 0
    ELSE Cardinality({part \in {"prior", "fresh"} : r \in s[part]})

(* The entry that project_entry makes of what was loaded and fetched.      *)
Projected(s) == [asOf |-> s.target, from |-> s.from, seen |-> [r \in Rows |-> Seen(s, r)]]

(* Once the target is reached: a block that does not exist has no          *)
(* timestamp (node.block_timestamp), and an artifact that was truncated    *)
(* cannot be read (_load_existing).  Either ends the sync.                 *)
LoadArtifact(p) ==
    /\ sync[p].pc = "range"
    /\ sync[p].start > sync[p].target
    /\ \E exists \in {TRUE, sync[p].target <= finalized} :
          sync' = [sync EXCEPT ![p] = IF exists /\ entry # Torn
                                      THEN [@ EXCEPT !.pc = "merge"] ELSE Idle]
    /\ UNCHANGED <<chain, finalized, lines, torn, headFile, entry, crashes>>

(* write_text opens the artifact, which empties it, and then writes it.    *)
TruncateArtifact(p) ==
    /\ sync[p].pc = "merge"
    /\ entry' = Torn
    /\ sync' = [sync EXCEPT ![p].pc = "write"]
    /\ UNCHANGED <<chain, finalized, lines, torn, headFile, crashes>>

(* The new entry replaces the old one.  If another process has written     *)
(* since the truncation, the end of a longer text of its own may remain.   *)
WriteArtifact(p) ==
    /\ sync[p].pc = "write"
    /\ entry' \in {Projected(sync[p])} \cup (IF entry = Torn THEN {} ELSE {Torn})
    /\ sync' = [sync EXCEPT ![p] = Idle]
    /\ UNCHANGED <<chain, finalized, lines, torn, headFile, crashes>>

-----------------------------------------------------------------------------
(* Kills, failed requests, the chain, the operator.                        *)

Killed(p) ==
    /\ crashes < MaxCrashes
    /\ crashes' = crashes + 1
    /\ sync' = [sync EXCEPT ![p] = Idle]
    /\ UNCHANGED <<chain, finalized, headFile, entry>>

(* Between two writes.  A head or an artifact being written stays empty.   *)
Crash(p) ==
    /\ sync[p].pc # "idle"
    /\ Killed(p)
    /\ UNCHANGED <<lines, torn>>

(* While a file is written: its rows up to some block are in it, and       *)
(* perhaps part of the next line.                                          *)
CrashAppending(p, t) ==
    /\ Opens(p, t)
    /\ \E b \in Blocks, part \in SUBSET {t} :
          /\ lines' = WithRows({r \in sync[p].pend : r[2] = t /\ r[1] < b})
          /\ torn' = torn \cup part
    /\ Killed(p)

(* The next block is final, with whatever rows it has.                     *)
Finalize ==
    /\ finalized < MaxBlock
    /\ finalized' = finalized + 1
    /\ \E rows \in SUBSET ({finalized + 1} \X Types) : chain' = chain \cup rows
    /\ UNCHANGED <<lines, torn, headFile, entry, sync, crashes>>

(* The operator removes a store that cannot be read, between syncs; it is  *)
(* rebuilt from genesis.                                                   *)
Wipe ==
    /\ torn # {} \/ headFile = Torn
    /\ \A p \in Procs : sync[p].pc = "idle"
    /\ lines' = [r \in Rows |-> 0]
    /\ torn' = {}
    /\ headFile' = NoHead
    /\ UNCHANGED <<chain, finalized, entry, sync, crashes>>

(* The operator removes an artifact that cannot be read, between syncs.    *)
RemoveArtifact ==
    /\ entry = Torn
    /\ \A p \in Procs : sync[p].pc = "idle"
    /\ entry' = NoEntry
    /\ UNCHANGED <<chain, finalized, lines, torn, headFile, sync, crashes>>

SyncStep(p) ==
    \/ LoadHead(p) \/ RefuseHead(p) \/ FetchRange(p)
    \/ \E t \in Types : AppendFile(p, t)
    \/ TruncateHead(p) \/ WriteHead(p)
    \/ LoadArtifact(p) \/ TruncateArtifact(p) \/ WriteArtifact(p)

(* cmd_sync: to the finalized block, or to the block the operator passes.  *)
Start(p) ==
    \/ LoadLog(p, finalized)
    \/ \E b \in ToBlocks : (OnlyFinal => b <= finalized) /\ LoadLog(p, b)

Next ==
    \/ \E p \in Procs :
          \/ Start(p) \/ SyncStep(p) \/ Crash(p)
          \/ \E t \in Types : CrashAppending(p, t)
    \/ Finalize
    \/ Wipe \/ RemoveArtifact

Spec == Init /\ [][Next]_vars

(* The hourly `sync` to the finalized block is started again and again,    *)
(* whatever an operator starts in between, and one that runs goes on.      *)
FairSpec ==
    /\ Spec
    /\ WF_vars(Finalize)
    /\ \A p \in Procs : SF_vars(LoadLog(p, finalized)) /\ WF_vars(SyncStep(p))

-----------------------------------------------------------------------------
(* Properties.                                                             *)

SyncState == [pc : {"idle", "head", "range", "append", "save", "merge", "write"},
              target : 0 .. MaxBlock, prior : SUBSET Rows,
              from : 0 .. MaxBlock + 1, start : 0 .. MaxBlock + 1,
              end : 0 .. MaxBlock, rows : SUBSET Rows, pend : SUBSET Rows,
              fresh : SUBSET Rows]

(* The artifact can be read and has an entry of the deployment.            *)
HasEntry == entry \notin {NoEntry, Torn}

(* Every variable has its type; no range reaches past the target.          *)
StoreTypeOK ==
    /\ chain \subseteq Within(Rows, Genesis, finalized)
    /\ finalized \in Blocks
    /\ DOMAIN lines = Rows /\ \A r \in Rows : lines[r] \in Nat
    /\ torn \subseteq Types
    /\ headFile \in Blocks \cup {NoHead, Torn}
    /\ HasEntry => entry.asOf \in Blocks
    /\ \A p \in Procs : sync[p] \in SyncState /\ sync[p].end <= sync[p].target
    /\ crashes \in 0 .. MaxCrashes

Readable == torn = {} /\ headFile # Torn

(* A store that can be read holds every row up to its head and nothing the *)
(* chain does not have: whatever was killed, and whatever ran beside it,   *)
(* resuming after the head leaves no row behind.                           *)
StoreCoversHead ==
    /\ \A r \in Rows : lines[r] > 0 => r \in chain
    /\ Readable /\ headFile # NoHead =>
          \A r \in Within(chain, Genesis, headFile) : lines[r] > 0

(* The artifact's entry is the fold of the whole chain up to as_of: every  *)
(* row is in it and none past as_of, and the rows of blocks before the one *)
(* the sync resumed from count exactly once, however often they were       *)
(* appended.                                                               *)
EntryComplete ==
    HasEntry =>
        \A r \in Rows :
           /\ entry.seen[r] > 0 <=> r \in Within(chain, Genesis, entry.asOf)
           /\ r[1] < entry.from => entry.seen[r] <= 1

(* A row is appended again only by a sync that follows a killed one: what  *)
(* a completed range holds is never fetched twice.                         *)
CopiesNeedCrashes == \A r \in Rows : lines[r] <= 1 + crashes

(* If the store can be read from some point on, and the artifact again and *)
(* again, every final block reaches the artifact: a killed sync costs a    *)
(* restart, not the rows.                                                  *)
FinalBlocksAreIndexed ==
    <>[]Readable /\ []<>(entry # Torn) =>
        \A b \in Blocks :
           finalized >= b ~> (HasEntry /\ entry.asOf >= b)

(* event-log.md: the store is brought forward from its head, "yielding the *)
(* same `event_log` as a full genesis re-sync".  What it holds of the      *)
(* final blocks up to its head is what the chain has.                      *)
SameAsResync ==
    Readable /\ headFile # NoHead =>
        \A r \in Within(Rows, Genesis, Min({headFile, finalized})) :
            lines[r] > 0 <=> r \in chain

(* store.py, load_event_log: "loading is where that at-least-once write    *)
(* becomes exactly-once" - no row counts twice in the artifact.            *)
EntryCountsOnce == HasEntry => \A r \in Rows : entry.seen[r] <= 1
=============================================================================
