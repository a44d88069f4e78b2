------------------------ MODULE EventLogStoreProofs -------------------------
(***************************************************************************)
(* Theorems about the indexer's cache, for any number of blocks, of event  *)
(* types and of killed syncs: what the files hold up to the head for any   *)
(* number of processes, and what reaches the artifact when one sync runs   *)
(* at a time.  All but the type invariant are about syncs to final blocks. *)
(***************************************************************************)
EXTENDS EventLogStore, FiniteSetTheorems, TLAPS

(* The operators below take the chain's rows and the files' line counts as *)
(* parameters, so that they can be stated of a state and of the next.      *)
Held(rows, count) == \A r \in rows : count[r] > 0

(* A sync that resumed at a block finds every earlier row in the files; of *)
(* the range at hand it has appended what it no longer has pending.        *)
SyncOK(s, rows, count) ==
    /\ s \in SyncState /\ s.end <= s.target
    /\ s.pc # "idle" => s.target \in Blocks
    /\ s.pc \notin {"idle", "head"} =>
          /\ s.start \in Genesis .. MaxBlock + 1
          /\ Held(Within(rows, Genesis, s.start - 1), count)
    /\ s.pc \in {"append", "save"} =>
          /\ s.start <= s.end
          /\ s.rows = Within(rows, s.start, s.end)
          /\ s.pend \subseteq Within(rows, s.start, s.end)
          /\ Held(Within(rows, s.start, s.end) \ s.pend, count)
    /\ s.pc = "save" => s.pend = {}

(* What the head marks is in the files, readable or not; and a file holds  *)
(* nothing the chain does not have.                                        *)
HeadOK(head, rows, count) ==
    /\ \A r \in Rows : count[r] \in Nat /\ (count[r] > 0 => r \in rows)
    /\ head \in Blocks => Held(Within(rows, Genesis, head), count)

StoreInv ==
    /\ StoreTypeOK
    /\ sync \in [Procs -> SyncState]
    /\ HeadOK(headFile, chain, lines)
    /\ \A p \in Procs : SyncOK(sync[p], chain, lines)

(* Between loading the files and loading the head nobody appends; after    *)
(* that, what was loaded reaches to where the sync resumed and what was    *)
(* fetched from there to where it is.                                      *)
LoadedOK(s, rows, count) ==
    /\ s.pc = "head" => s.prior = {r \in Rows : count[r] > 0} /\ s.fresh = {}
    /\ s.pc \notin {"idle", "head"} =>
          /\ s.from \in Genesis .. s.start
          /\ s.prior \subseteq rows
          /\ Within(rows, Genesis, s.from - 1) \subseteq s.prior
          /\ s.fresh = Within(rows, s.from, s.start - 1)
    /\ s.pc \in {"merge", "write"} => s.start > s.target

EntryInv == EntryComplete /\ \A p \in Procs : LoadedOK(sync[p], chain, lines)

(* A row after the head has a line for every sync that was killed over it, *)
(* and one more only while the range it belongs to is being appended.      *)
After(head) == IF head = NoHead THEN Genesis ELSE head + 1

FrontOK(s, rows, head, count, kills) ==
    /\ s.pc \in {"range", "append"} => head # Torn /\ s.start = After(head)
    /\ s.pc = "save" => \A r \in Rows : r[1] > s.end => count[r] <= kills
    /\ head # Torn =>
          \A r \in Rows : r[1] >= After(head) =>
             \/ count[r] <= kills
             \/ s.pc = "append" /\ r \in Within(rows, s.start, s.end) \ s.pend

CopiesInv ==
    /\ CopiesNeedCrashes
    /\ \A p \in Procs : FrontOK(sync[p], chain, headFile, lines, crashes)

-----------------------------------------------------------------------------
(* Ranges and rows.                                                        *)

(* A range ends at the target or before it, and is not empty.              *)
LEMMA RangeEndBounds ==
    ASSUME NEW s \in SyncState, s.start <= s.target
    PROVE  RangeEnd(s) \in s.start .. s.target
  <1> DEFINE a == s.start + ChunkSize - 1
             b == s.target
  <1>1. a \in Nat /\ b \in Nat /\ s.start \in Nat /\ s.start <= a
    BY StoreAssumption DEF SyncState
  <1>2. \E m \in {a, b} : \A y \in {a, b} : m <= y
    <2>1. a <= b \/ b <= a
      BY <1>1
    <2> QED
      BY <1>1, <2>1
  <1>3. RangeEnd(s) \in {a, b} /\ RangeEnd(s) <= b
    BY <1>2 DEF RangeEnd, Min
  <1> QED
    BY <1>1, <1>3

(* The rows up to a block are those before a range and those of the range. *)
LEMMA RangesJoin ==
    ASSUME NEW rows \in SUBSET Rows, NEW first \in Nat, NEW b \in Nat,
           NEW e \in Nat, first <= b /\ b <= e + 1
    PROVE  Within(rows, first, e) = Within(rows, first, b - 1) \cup Within(rows, b, e)
  <1>1. \A r \in rows : r[1] \in Nat
    BY StoreAssumption DEF Rows, Blocks
  <1> QED
    BY <1>1 DEF Within

(* A block of the chain is a natural number no marker equals.              *)
LEMMA BlockFacts ==
    /\ \A b \in Blocks : b \in Nat \ {0} /\ b # NoHead /\ b # Torn
    /\ NoHead # Torn
    /\ Genesis \in Nat \ {0} /\ MaxBlock \in Nat /\ Genesis <= MaxBlock
    /\ \A r \in Rows : r[1] \in Blocks /\ r[2] \in Types
  BY StoreAssumption DEF Blocks, Rows

(* The fields of a sync's state.                                           *)
LEMMA Fields ==
    ASSUME NEW s \in SyncState
    PROVE  /\ s.target \in 0 .. MaxBlock /\ s.end \in 0 .. MaxBlock
           /\ s.from \in 0 .. MaxBlock + 1 /\ s.start \in 0 .. MaxBlock + 1
           /\ s.target \in Nat /\ s.end \in Nat /\ s.from \in Nat /\ s.start \in Nat
           /\ s.prior \in SUBSET Rows /\ s.pend \in SUBSET Rows
           /\ s.fresh \in SUBSET Rows /\ s.rows \in SUBSET Rows
  BY DEF SyncState

-----------------------------------------------------------------------------
(* How far the files can reach.                                            *)

(* The last block a sync may be started for.                               *)
Reach == IF OnlyFinal THEN finalized ELSE MaxBlock

(* A sync is of its type, and stays below its target, which it was given   *)
(* when that block was within reach.                                       *)
SyncTyped(s, top) ==
    /\ s \in SyncState /\ s.end <= s.target
    /\ s.pc # "idle" => s.target \in Genesis .. top
    /\ s.pc \notin {"idle", "head"} => s.start \in Genesis .. top + 1
    /\ s.pc \in {"append", "save"} => s.start <= s.end

TypeInv ==
    /\ StoreTypeOK
    /\ sync \in [Procs -> SyncState]
    /\ \A p \in Procs : SyncTyped(sync[p], Reach)
    /\ headFile \in Blocks => headFile <= Reach
    /\ HasEntry => entry.asOf <= Reach

LEMMA ReachFacts ==
    ASSUME TypeInv
    PROVE  /\ finalized \in Blocks /\ Reach \in Blocks /\ finalized <= Reach
           /\ Genesis .. Reach \subseteq Blocks
           /\ OnlyFinal => Reach = finalized
  <1>1. finalized \in Blocks
    BY DEF TypeInv, StoreTypeOK
  <1> QED
    BY <1>1, BlockFacts DEF Reach, Blocks

(* What TypeInv says of the sync that takes a step.                        *)
LEMMA TypeFacts ==
    ASSUME TypeInv, NEW p \in Procs
    PROVE  /\ sync \in [Procs -> SyncState] /\ SyncTyped(sync[p], Reach)
           /\ sync[p] \in SyncState /\ SyncTyped(Idle, Reach)
           /\ chain \in SUBSET Rows
           /\ DOMAIN lines = Rows /\ \A r \in Rows : lines[r] \in Nat
           /\ torn \in SUBSET Types /\ crashes \in 0 .. MaxCrashes
           /\ headFile \in (Genesis .. Reach) \cup {NoHead, Torn}
           /\ entry \notin {NoEntry, Torn} => entry.asOf \in Genesis .. Reach
  <1>1. Idle \in SyncState /\ Idle.pc = "idle" /\ Idle.end <= Idle.target
    BY BlockFacts DEF Idle, SyncState
  <1>2. SyncTyped(Idle, Reach)
    BY <1>1 DEF SyncTyped
  <1>3. chain \in SUBSET Rows
    BY DEF TypeInv, StoreTypeOK, Within
  <1>4. /\ headFile \in (Genesis .. Reach) \cup {NoHead, Torn}
        /\ entry \notin {NoEntry, Torn} => entry.asOf \in Genesis .. Reach
    BY ReachFacts, BlockFacts DEF TypeInv, StoreTypeOK, HasEntry, Blocks
  <1> QED
    BY <1>1, <1>2, <1>3, <1>4 DEF TypeInv, StoreTypeOK

(* A step of one sync keeps TypeInv if it leaves that sync of its type,    *)
(* and the head and the artifact within reach.                             *)
LEMMA OneSyncTypes ==
    ASSUME TypeInv, NEW p \in Procs,
           sync' = [sync EXCEPT ![p] = sync'[p]],
           UNCHANGED <<chain, finalized>>,
           SyncTyped(sync'[p], Reach),
           DOMAIN lines' = Rows, \A r \in Rows : lines'[r] \in Nat,
           headFile' \in (Genesis .. Reach) \cup {NoHead, Torn},
           torn' \in SUBSET Types,
           entry' \notin {NoEntry, Torn} => entry'.asOf \in Genesis .. Reach,
           crashes' \in 0 .. MaxCrashes
    PROVE  TypeInv'
  <1>1. Reach' = Reach
    BY DEF Reach
  <1>2. sync \in [Procs -> SyncState] /\ \A q \in Procs : SyncTyped(sync[q], Reach)
    BY DEF TypeInv
  <1>3. sync' \in [Procs -> SyncState]
    BY <1>2 DEF SyncTyped
  <1>4. ASSUME NEW q \in Procs PROVE SyncTyped(sync'[q], Reach')
    <2>1. CASE q = p
      BY <1>1, <2>1
    <2>2. CASE q # p
      <3>1. sync'[q] = sync[q]
        BY <1>2, <2>2
      <3> QED
        BY <1>1, <1>2, <3>1
    <2> QED
      BY <2>1, <2>2
  <1>5. /\ headFile' \in Blocks \cup {NoHead, Torn}
        /\ headFile' \in Blocks => headFile' <= Reach
        /\ entry' \notin {NoEntry, Torn} => entry'.asOf \in Blocks /\ entry'.asOf <= Reach
    BY ReachFacts, BlockFacts DEF Blocks
  <1>6. StoreTypeOK'
    BY <1>3, <1>4, <1>5 DEF TypeInv, StoreTypeOK, HasEntry, SyncTyped
  <1> QED
    BY <1>1, <1>3, <1>4, <1>5, <1>6 DEF TypeInv, HasEntry

LEMMA LoadLogTypes ==
    ASSUME TypeInv, NEW p \in Procs, NEW target \in Genesis .. Reach, LoadLog(p, target)
    PROVE  TypeInv'
  <1>1. /\ sync'[p] = [Idle EXCEPT !.pc = "head", !.target = target,
                                   !.prior = {r \in Rows : lines[r] > 0}]
        /\ sync' = [sync EXCEPT ![p] = sync'[p]]
        /\ UNCHANGED <<chain, finalized, lines, torn, headFile, entry, crashes>>
    BY TypeFacts DEF LoadLog
  <1>2. PICK prior \in SUBSET Rows : prior = {r \in Rows : lines[r] > 0}
    OBVIOUS
  <1>3. sync'[p] = [pc |-> "head", target |-> target, prior |-> prior, from |-> 0,
                    start |-> 0, end |-> 0, rows |-> {}, pend |-> {}, fresh |-> {}]
    BY <1>1, <1>2 DEF Idle
  <1>4. target \in 0 .. MaxBlock /\ 0 \in 0 .. MaxBlock /\ 0 \in 0 .. MaxBlock + 1
    BY ReachFacts, BlockFacts DEF Blocks
  <1>5. SyncTyped(sync'[p], Reach)
    BY <1>3, <1>4 DEF SyncTyped, SyncState
  <1> QED
    BY <1>1, <1>5, TypeFacts, OneSyncTypes

(* A sync resumes after the head, which is within reach.                   *)
LEMMA LoadHeadTypes ==
    ASSUME TypeInv, NEW p \in Procs, LoadHead(p)
    PROVE  TypeInv'
  <1>1. /\ sync'[p] = [sync[p] EXCEPT !.pc = "range", !.from = ResumeFrom,
                                      !.start = ResumeFrom]
        /\ sync' = [sync EXCEPT ![p] = sync'[p]]
        /\ sync[p].pc = "head" /\ headFile # Torn
        /\ UNCHANGED <<chain, finalized, lines, torn, headFile, entry, crashes>>
    BY TypeFacts DEF LoadHead
  <1>2. ResumeFrom \in Genesis .. Reach + 1 /\ ResumeFrom \in 0 .. MaxBlock + 1
    <2>1. headFile \in (Genesis .. Reach) \cup {NoHead}
      BY <1>1, TypeFacts
    <2> QED
      BY <2>1, ReachFacts, BlockFacts DEF ResumeFrom, Blocks
  <1>3. /\ sync'[p] \in SyncState /\ sync'[p].pc = "range"
        /\ sync'[p].start = ResumeFrom
        /\ sync'[p].target = sync[p].target /\ sync'[p].end = sync[p].end
    BY <1>1, <1>2, TypeFacts DEF SyncState
  <1>4. SyncTyped(sync'[p], Reach)
    BY <1>1, <1>2, <1>3, TypeFacts DEF SyncTyped
  <1> QED
    BY <1>1, <1>4, TypeFacts, OneSyncTypes

LEMMA FetchTypes ==
    ASSUME TypeInv, NEW p \in Procs, FetchRange(p)
    PROVE  TypeInv'
  <1> DEFINE end == RangeEnd(sync[p])
  <1>1. PICK rows \in Answers(sync[p].start, end) : Fetched(p, end, rows)
    BY DEF FetchRange
  <1>2. sync[p].pc = "range" /\ sync[p].start <= sync[p].target
    BY DEF FetchRange
  <1>3. end \in sync[p].start .. sync[p].target
    BY <1>2, TypeFacts, RangeEndBounds
  <1> HIDE DEF end
  <1>4. /\ sync'[p] = [sync[p] EXCEPT !.pc = "append", !.end = end, !.rows = rows,
                                      !.pend = rows]
        /\ sync' = [sync EXCEPT ![p] = sync'[p]]
        /\ UNCHANGED <<chain, finalized, lines, torn, headFile, entry, crashes>>
    BY <1>1, TypeFacts DEF Fetched
  <1>5. rows \in SUBSET Rows
    BY <1>1, TypeFacts DEF Answers, Within
  <1>6. /\ end \in 0 .. MaxBlock /\ sync[p].start <= end /\ end <= sync[p].target
    BY <1>2, <1>3, TypeFacts, Fields, ReachFacts, BlockFacts DEF SyncTyped, Blocks
  <1>7. /\ sync'[p] \in SyncState /\ sync'[p].pc = "append" /\ sync'[p].end = end
        /\ sync'[p].start = sync[p].start /\ sync'[p].target = sync[p].target
    BY <1>4, <1>5, <1>6, TypeFacts DEF SyncState
  <1>8. SyncTyped(sync'[p], Reach)
    BY <1>2, <1>6, <1>7, TypeFacts DEF SyncTyped
  <1> QED
    BY <1>4, <1>8, TypeFacts, OneSyncTypes

LEMMA WithRowsTyped ==
    ASSUME TypeInv, NEW p \in Procs, NEW rows, lines' = WithRows(rows)
    PROVE  DOMAIN lines' = Rows /\ \A r \in Rows : lines'[r] \in Nat
  BY TypeFacts DEF WithRows

(* The rows of a range go to their files, and then the head is opened.     *)
LEMMA AppendTypes ==
    ASSUME TypeInv, NEW p \in Procs,
           TruncateHead(p) \/ \E t \in Types : AppendFile(p, t)
    PROVE  TypeInv'
  <1>1. CASE TruncateHead(p)
    <2>1. /\ sync'[p] = [sync[p] EXCEPT !.pc = "save"]
          /\ sync' = [sync EXCEPT ![p] = sync'[p]]
          /\ sync[p].pc = "append" /\ headFile' = Torn
          /\ UNCHANGED <<chain, finalized, lines, torn, entry, crashes>>
      BY <1>1, TypeFacts DEF TruncateHead
    <2>2. /\ sync'[p] \in SyncState /\ sync'[p].pc = "save" /\ sync'[p].end = sync[p].end
          /\ sync'[p].start = sync[p].start /\ sync'[p].target = sync[p].target
      BY <2>1, TypeFacts DEF SyncState
    <2>3. SyncTyped(sync'[p], Reach)
      BY <2>1, <2>2, TypeFacts DEF SyncTyped
    <2> QED
      BY <2>1, <2>3, TypeFacts, OneSyncTypes
  <1>2. ASSUME NEW t \in Types, AppendFile(p, t)
        PROVE  TypeInv'
    <2>1. PICK rows : /\ sync'[p] = [sync[p] EXCEPT !.pend = @ \ rows]
                      /\ lines' = WithRows(rows)
      BY <1>2, TypeFacts DEF AppendFile
    <2>2. /\ sync' = [sync EXCEPT ![p] = sync'[p]]
          /\ sync[p].pc = "append"
          /\ UNCHANGED <<chain, finalized, torn, headFile, entry, crashes>>
      BY <1>2, TypeFacts DEF AppendFile, Opens
    <2>3. /\ sync'[p] \in SyncState /\ sync'[p].pc = "append" /\ sync'[p].end = sync[p].end
          /\ sync'[p].start = sync[p].start /\ sync'[p].target = sync[p].target
      BY <2>1, <2>2, TypeFacts DEF SyncState
    <2>4. SyncTyped(sync'[p], Reach)
      BY <2>2, <2>3, TypeFacts DEF SyncTyped
    <2> QED
      BY <2>1, <2>2, <2>4, WithRowsTyped, TypeFacts, OneSyncTypes
  <1> QED
    BY <1>1, <1>2

(* The head is a block of the range, and the range is within reach.        *)
LEMMA WriteHeadTypes ==
    ASSUME TypeInv, NEW p \in Procs, WriteHead(p)
    PROVE  TypeInv'
  <1>1. /\ sync'[p] = [sync[p] EXCEPT
               !.pc = "range", !.start = sync[p].end + 1, !.rows = {},
               !.fresh = @ \cup sync[p].rows]
        /\ sync' = [sync EXCEPT ![p] = sync'[p]]
        /\ sync[p].pc = "save" /\ headFile' = sync[p].end
        /\ UNCHANGED <<chain, finalized, lines, torn, entry, crashes>>
    BY TypeFacts DEF WriteHead
  <1>2. /\ sync[p].target \in Genesis .. Reach /\ sync[p].start \in Genesis .. Reach + 1
        /\ sync[p].start <= sync[p].end /\ sync[p].end <= sync[p].target
        /\ sync[p].end \in Nat
    BY <1>1, TypeFacts, Fields DEF SyncTyped
  <1>3. sync[p].end \in Genesis .. Reach /\ sync[p].end + 1 \in Genesis .. Reach + 1
        /\ sync[p].end + 1 \in 0 .. MaxBlock + 1
    BY <1>2, ReachFacts, BlockFacts DEF Blocks
  <1>4. /\ sync'[p] \in SyncState /\ sync'[p].pc = "range" /\ sync'[p].end = sync[p].end
        /\ sync'[p].start = sync[p].end + 1 /\ sync'[p].target = sync[p].target
    <2>1. PICK rows \in SUBSET Rows : rows = sync[p].fresh \cup sync[p].rows
      BY TypeFacts, Fields
    <2> QED
      BY <1>1, <1>3, <2>1, TypeFacts DEF SyncState
  <1>5. SyncTyped(sync'[p], Reach)
    BY <1>2, <1>3, <1>4 DEF SyncTyped
  <1> QED
    BY <1>1, <1>3, <1>5, TypeFacts, OneSyncTypes

(* The artifact, and a sync that ends.                                     *)
LEMMA ArtifactTypes ==
    ASSUME TypeInv, NEW p \in Procs,
           LoadArtifact(p) \/ TruncateArtifact(p) \/ WriteArtifact(p) \/ RefuseHead(p)
    PROVE  TypeInv'
  <1>1. /\ sync' = [sync EXCEPT ![p] = sync'[p]]
        /\ UNCHANGED <<chain, finalized, lines, torn, headFile, crashes>>
    BY TypeFacts DEF LoadArtifact, TruncateArtifact, WriteArtifact, RefuseHead
  <1>2. \/ sync'[p] = Idle
        \/ /\ sync[p].pc \in {"range", "merge"}
           /\ \/ sync'[p] = [sync[p] EXCEPT !.pc = "merge"]
              \/ sync'[p] = [sync[p] EXCEPT !.pc = "write"]
    BY TypeFacts DEF LoadArtifact, TruncateArtifact, WriteArtifact, RefuseHead
  <1>3. SyncTyped(sync'[p], Reach)
    <2>1. CASE sync'[p] = Idle
      BY <2>1, TypeFacts
    <2>2. CASE sync'[p] # Idle
      <3>1. /\ sync'[p] \in SyncState /\ sync'[p].pc \in {"merge", "write"}
            /\ sync'[p].start = sync[p].start /\ sync'[p].end = sync[p].end
            /\ sync'[p].target = sync[p].target
            /\ sync[p].pc \in {"range", "merge"}
        BY <1>2, <2>2, TypeFacts DEF SyncState
      <3> QED
        BY <3>1, TypeFacts DEF SyncTyped
    <2> QED
      BY <2>1, <2>2
  <1>4. entry' \notin {NoEntry, Torn} => entry'.asOf \in Genesis .. Reach
    <2>1. CASE UNCHANGED entry \/ entry' = Torn
      BY <2>1, TypeFacts
    <2>2. CASE WriteArtifact(p) /\ entry' # Torn
      <3>1. entry' = Projected(sync[p]) /\ sync[p].target \in Genesis .. Reach
        BY <2>2, TypeFacts DEF WriteArtifact, SyncTyped
      <3> QED
        BY <3>1 DEF Projected
    <2> QED
      BY <2>1, <2>2 DEF LoadArtifact, TruncateArtifact, RefuseHead
  <1> QED
    BY <1>1, <1>3, <1>4, TypeFacts, OneSyncTypes

LEMMA CrashTypes ==
    ASSUME TypeInv, NEW p \in Procs,
           Crash(p) \/ \E t \in Types : CrashAppending(p, t)
    PROVE  TypeInv'
  <1>1. /\ sync' = [sync EXCEPT ![p] = sync'[p]] /\ sync'[p] = Idle
        /\ UNCHANGED <<chain, finalized, headFile, entry>>
        /\ crashes' \in 0 .. MaxCrashes
    BY TypeFacts, StoreAssumption DEF Crash, CrashAppending, Killed
  <1>2. CASE Crash(p)
    BY <1>1, <1>2, TypeFacts, OneSyncTypes DEF Crash
  <1>3. ASSUME NEW t \in Types, CrashAppending(p, t)
        PROVE  TypeInv'
    <2>1. PICK b \in Blocks, part \in SUBSET {t} :
              /\ lines' = WithRows({r \in sync[p].pend : r[2] = t /\ r[1] < b})
              /\ torn' = torn \cup part
      BY <1>3 DEF CrashAppending
    <2>2. DOMAIN lines' = Rows /\ \A r \in Rows : lines'[r] \in Nat
      BY <2>1, WithRowsTyped
    <2>3. torn' \in SUBSET Types
      BY <2>1, TypeFacts
    <2> QED
      BY <1>1, <2>2, <2>3, TypeFacts, OneSyncTypes
  <1> QED
    BY <1>2, <1>3

(* The chain and the operator: a block that becomes final extends the      *)
(* reach.                                                                  *)
LEMMA OperatorTypes ==
    ASSUME TypeInv, Finalize \/ Wipe \/ RemoveArtifact
    PROVE  TypeInv'
  <1>1. CASE Finalize
    <2>1. /\ finalized' = finalized + 1 /\ finalized' \in Blocks
          /\ UNCHANGED <<lines, torn, headFile, entry, sync, crashes>>
      BY <1>1, ReachFacts, BlockFacts DEF Finalize, Blocks
    <2>2. Reach \in Nat /\ Reach' \in Nat /\ Reach <= Reach'
      BY <2>1, ReachFacts, BlockFacts DEF Reach, Blocks
    <2>3. chain' \subseteq Within(Rows, Genesis, finalized')
      <3>1. PICK rows \in SUBSET ({finalized + 1} \X Types) : chain' = chain \cup rows
        BY <1>1 DEF Finalize
      <3>2. rows \subseteq Within(Rows, Genesis, finalized')
        BY <2>1, <3>1, BlockFacts DEF Within, Rows, Blocks
      <3>3. chain \subseteq Within(Rows, Genesis, finalized')
        <4>1. chain \subseteq Within(Rows, Genesis, finalized)
          BY DEF TypeInv, StoreTypeOK
        <4> QED
          BY <2>1, <4>1, ReachFacts, BlockFacts DEF Within, Blocks
      <3> QED
        BY <3>1, <3>2, <3>3
    <2>4. ASSUME NEW p \in Procs PROVE SyncTyped(sync[p], Reach')
      <3>1. SyncTyped(sync[p], Reach)
        BY TypeFacts
      <3> QED
        BY <2>2, <3>1, BlockFacts DEF SyncTyped
    <2>5. /\ headFile \in Blocks => headFile <= Reach'
          /\ entry \notin {NoEntry, Torn} => entry.asOf <= Reach'
      BY <2>2, BlockFacts DEF TypeInv, StoreTypeOK, HasEntry
    <2>6. StoreTypeOK'
      BY <2>1, <2>3 DEF TypeInv, StoreTypeOK, HasEntry
    <2> QED
      BY <2>1, <2>4, <2>5, <2>6 DEF TypeInv, HasEntry
  <1>2. CASE Wipe \/ RemoveArtifact
    <2>1. /\ Reach' = Reach /\ UNCHANGED <<chain, finalized, sync, crashes>>
          /\ DOMAIN lines' = Rows /\ \A r \in Rows : lines'[r] \in Nat
          /\ torn' \subseteq Types
          /\ headFile' = headFile \/ headFile' = NoHead
          /\ entry' = entry \/ entry' = NoEntry
      BY <1>2 DEF Wipe, RemoveArtifact, TypeInv, StoreTypeOK, Reach
    <2> QED
      BY <2>1, BlockFacts DEF TypeInv, StoreTypeOK, HasEntry
  <1> QED
    BY <1>1, <1>2

LEMMA TypeInit == Init => TypeInv
  <1> SUFFICES ASSUME Init PROVE TypeInv
    OBVIOUS
  <1>1. /\ chain \in SUBSET Within(Rows, Genesis, Genesis) /\ finalized = Genesis
        /\ lines = [r \in Rows |-> 0] /\ torn = {} /\ headFile = NoHead
        /\ entry = NoEntry /\ crashes = 0 /\ sync = [p \in Procs |-> Idle]
    BY DEF Init
  <1>2. Idle \in SyncState /\ Idle.pc = "idle" /\ Idle.end <= Idle.target
    BY BlockFacts DEF Idle, SyncState
  <1>3. StoreTypeOK
    BY <1>1, <1>2, BlockFacts, StoreAssumption DEF StoreTypeOK, HasEntry, Blocks
  <1> QED
    BY <1>1, <1>2, <1>3, BlockFacts DEF TypeInv, SyncTyped, HasEntry

LEMMA TypeStep ==
    ASSUME TypeInv, [Next]_vars
    PROVE  TypeInv'
  <1>1. ASSUME NEW p \in Procs, Start(p)
        PROVE  TypeInv'
    <2>1. PICK b \in Blocks : LoadLog(p, b) /\ (b = finalized \/ (OnlyFinal => b <= finalized))
      BY <1>1, StoreAssumption, ReachFacts DEF Start
    <2>2. b \in Genesis .. Reach
      BY <2>1, ReachFacts, BlockFacts DEF Blocks, Reach
    <2> QED
      BY <2>1, <2>2, LoadLogTypes
  <1>2. ASSUME NEW p \in Procs, SyncStep(p)
        PROVE  TypeInv'
    BY <1>2, LoadHeadTypes, FetchTypes, AppendTypes, WriteHeadTypes, ArtifactTypes
    DEF SyncStep
  <1>3. CASE UNCHANGED vars
    BY <1>3 DEF vars, TypeInv, StoreTypeOK, HasEntry, Reach
  <1> QED
    BY <1>1, <1>2, <1>3, CrashTypes, OperatorTypes DEF Next

LEMMA TypeInvariance == Spec => []TypeInv
  <1>1. TypeInv /\ [Next]_vars => TypeInv'
    BY TypeStep
  <1> QED
    BY <1>1, TypeInit, PTL DEF Spec

(* Every variable has its type; no sync asks for a block past its target,  *)
(* whatever block it was started for.                                      *)
THEOREM StoreTypeCorrect == Spec => []StoreTypeOK
  BY TypeInvariance, PTL DEF TypeInv

-----------------------------------------------------------------------------
(* What the files hold.                                                    *)

(* A file that gains lines still holds what a sync relies on.              *)
LEMMA SyncKept ==
    ASSUME NEW s, NEW rows \in SUBSET Rows, NEW count, NEW more,
           SyncOK(s, rows, count),
           \A r \in Rows : /\ count[r] \in Nat /\ more[r] \in Nat
                           /\ more[r] >= count[r]
    PROVE  SyncOK(s, rows, more)
  <1>1. ASSUME NEW some \in SUBSET Rows, Held(some, count)
        PROVE  Held(some, more)
    BY <1>1 DEF Held
  <1>2. \A first, last : Within(rows, first, last) \in SUBSET Rows
    BY DEF Within
  <1>3. \A first, last : Within(rows, first, last) \ s.pend \in SUBSET Rows
    BY DEF Within
  <1> QED
    BY <1>1, <1>2, <1>3 DEF SyncOK

(* A step of one sync keeps StoreInv if it leaves that sync in order, the  *)
(* files no shorter and the head over rows they hold.                      *)
LEMMA OneSyncMoves ==
    ASSUME StoreInv, NEW p \in Procs,
           sync' = [sync EXCEPT ![p] = sync'[p]],
           UNCHANGED <<chain, finalized>>,
           SyncOK(sync'[p], chain, lines'),
           DOMAIN lines' = Rows,
           \A r \in Rows : lines'[r] \in Nat /\ lines'[r] >= lines[r],
           HeadOK(headFile', chain, lines'),
           headFile' \in Blocks \cup {NoHead, Torn},
           torn' \in SUBSET Types,
           entry' \notin {NoEntry, Torn} => entry'.asOf \in Blocks,
           crashes' \in 0 .. MaxCrashes
    PROVE  StoreInv'
  <1>1. /\ sync \in [Procs -> SyncState] /\ chain \in SUBSET Rows
        /\ \A r \in Rows : lines[r] \in Nat
        /\ \A q \in Procs : SyncOK(sync[q], chain, lines)
    BY DEF StoreInv, StoreTypeOK, Within
  <1>2. sync'[p] \in SyncState
    BY DEF SyncOK
  <1>3. sync' \in [Procs -> SyncState]
    BY <1>1, <1>2
  <1>4. ASSUME NEW q \in Procs
        PROVE  SyncOK(sync'[q], chain', lines')
    <2>1. CASE q = p
      BY <2>1
    <2>2. CASE q # p
      <3>1. PICK s, count, more : s = sync[q] /\ count = lines /\ more = lines'
        OBVIOUS
      <3>2. SyncOK(s, chain, more)
        BY <1>1, <3>1, SyncKept
      <3> QED
        BY <1>1, <2>2, <3>1, <3>2
    <2> QED
      BY <2>1, <2>2
  <1>5. StoreTypeOK'
    BY <1>4 DEF StoreInv, StoreTypeOK, HasEntry, SyncOK
  <1> QED
    BY <1>3, <1>4, <1>5 DEF StoreInv

(* The same where the files and the head stay as they are.                 *)
LEMMA OneSyncReads ==
    ASSUME StoreInv, NEW p \in Procs,
           sync' = [sync EXCEPT ![p] = sync'[p]],
           UNCHANGED <<chain, finalized, lines, torn, headFile>>,
           SyncOK(sync'[p], chain, lines),
           entry' \notin {NoEntry, Torn} => entry'.asOf \in Blocks,
           crashes' \in 0 .. MaxCrashes
    PROVE  StoreInv'
  <1>1. /\ DOMAIN lines' = Rows
        /\ \A r \in Rows : lines'[r] \in Nat /\ lines'[r] >= lines[r]
        /\ HeadOK(headFile', chain, lines')
        /\ headFile' \in Blocks \cup {NoHead, Torn}
        /\ torn' \in SUBSET Types
        /\ SyncOK(sync'[p], chain, lines')
    BY DEF StoreInv, StoreTypeOK
  <1> QED
    BY <1>1, OneSyncMoves

(* What a step that does not append leaves as it is.                       *)
LEMMA FilesSame ==
    ASSUME StoreInv, UNCHANGED lines
    PROVE  /\ DOMAIN lines' = Rows
           /\ \A r \in Rows : lines'[r] \in Nat /\ lines'[r] >= lines[r]
  BY DEF StoreInv, StoreTypeOK

(* What StoreInv says of the sync that takes a step.                       *)
LEMMA SyncFacts ==
    ASSUME StoreInv, NEW p \in Procs
    PROVE  /\ SyncOK(sync[p], chain, lines)
           /\ sync[p] \in SyncState /\ sync \in [Procs -> SyncState]
           /\ chain \in SUBSET Rows
           /\ \A r \in Rows : lines[r] \in Nat /\ (lines[r] > 0 => r \in chain)
           /\ HeadOK(headFile, chain, lines)
           /\ crashes \in 0 .. MaxCrashes
           /\ entry \notin {NoEntry, Torn} => entry.asOf \in Blocks
           /\ SyncOK(Idle, chain, lines)
  <1>1. Idle \in SyncState /\ Idle.pc = "idle" /\ Idle.end <= Idle.target
    BY BlockFacts DEF Idle, SyncState
  <1>2. SyncOK(Idle, chain, lines)
    BY <1>1 DEF SyncOK
  <1> QED
    BY <1>2 DEF StoreInv, StoreTypeOK, HeadOK, HasEntry, Within

-----------------------------------------------------------------------------
(* One sync's steps.                                                       *)

LEMMA LoadLogStep ==
    ASSUME StoreInv, NEW p \in Procs, NEW target \in Blocks, LoadLog(p, target)
    PROVE  StoreInv'
  <1>1. /\ sync'[p] = [Idle EXCEPT !.pc = "head", !.target = target,
                                   !.prior = {r \in Rows : lines[r] > 0}]
        /\ sync' = [sync EXCEPT ![p] = sync'[p]]
    BY SyncFacts DEF LoadLog
  <1>2. sync'[p] \in SyncState /\ sync'[p].pc = "head" /\ sync'[p].target = target
        /\ sync'[p].end <= target
    <2>1. PICK prior \in SUBSET Rows : prior = {r \in Rows : lines[r] > 0}
      OBVIOUS
    <2>2. sync'[p] = [pc |-> "head", target |-> target, prior |-> prior, from |-> 0,
                      start |-> 0, end |-> 0, rows |-> {}, pend |-> {}, fresh |-> {}]
      BY <1>1, <2>1 DEF Idle
    <2>3. target \in 0 .. MaxBlock /\ 0 \in 0 .. MaxBlock /\ 0 \in 0 .. MaxBlock + 1
      BY BlockFacts DEF Blocks
    <2> QED
      BY <2>2, <2>3 DEF SyncState
  <1>3. SyncOK(sync'[p], chain, lines)
    BY <1>2 DEF SyncOK
  <1> QED
    BY <1>1, <1>3, SyncFacts, OneSyncReads DEF LoadLog

LEMMA LoadHeadStep ==
    ASSUME StoreInv, NEW p \in Procs, LoadHead(p)
    PROVE  StoreInv'
  <1>1. /\ sync'[p] = [sync[p] EXCEPT !.pc = "range", !.from = ResumeFrom,
                                      !.start = ResumeFrom]
        /\ sync' = [sync EXCEPT ![p] = sync'[p]]
    BY SyncFacts DEF LoadHead
  <1>2. headFile \in Blocks \cup {NoHead}
    BY DEF LoadHead, StoreInv, StoreTypeOK
  <1>3. /\ ResumeFrom \in Genesis .. MaxBlock + 1
        /\ Held(Within(chain, Genesis, ResumeFrom - 1), lines)
    <2>1. CASE headFile = NoHead
      <3>1. Within(chain, Genesis, Genesis - 1) = {}
        BY SyncFacts, BlockFacts DEF Within
      <3> QED
        BY <2>1, <3>1, BlockFacts DEF ResumeFrom, Held
    <2>2. CASE headFile \in Blocks
      <3>1. ResumeFrom = headFile + 1 /\ ResumeFrom - 1 = headFile
        BY <2>2, BlockFacts DEF ResumeFrom
      <3>2. Held(Within(chain, Genesis, headFile), lines)
        BY <2>2, SyncFacts DEF HeadOK
      <3> QED
        BY <2>2, <3>1, <3>2, BlockFacts DEF Blocks
    <2> QED
      BY <1>2, <2>1, <2>2
  <1>4. /\ sync'[p] \in SyncState /\ sync'[p].pc = "range"
        /\ sync'[p].start = ResumeFrom
        /\ sync'[p].target = sync[p].target /\ sync'[p].end = sync[p].end
    <2>1. sync[p] \in SyncState
      BY SyncFacts
    <2>2. ResumeFrom \in 0 .. MaxBlock + 1
      BY <1>3, BlockFacts
    <2> QED
      BY <1>1, <2>1, <2>2 DEF SyncState
  <1>5. sync[p].pc = "head"
    BY DEF LoadHead
  <1>6. SyncOK(sync'[p], chain, lines)
    BY <1>3, <1>4, <1>5, SyncFacts DEF SyncOK
  <1> QED
    BY <1>1, <1>6, SyncFacts, OneSyncReads DEF LoadHead

(* Up to the target, a final block, the endpoint answers with the rows of  *)
(* the chain.                                                              *)
LEMMA AnswersFinal ==
    ASSUME OnlyFinal, TypeInv, NEW p \in Procs, sync[p].pc = "range",
           NEW end \in sync[p].start .. sync[p].target,
           NEW rows \in Answers(sync[p].start, end)
    PROVE  rows = Within(chain, sync[p].start, end)
  <1>1. end <= finalized /\ end \in Nat /\ finalized \in Nat
    BY TypeFacts, ReachFacts, BlockFacts DEF SyncTyped
  <1>2. Within(Rows, finalized + 1, end) = {}
    BY <1>1, BlockFacts DEF Within
  <1>3. PICK tip \in SUBSET Within(Rows, finalized + 1, end) :
            rows = Within(chain, sync[p].start, end) \cup tip
    BY DEF Answers
  <1> QED
    BY <1>2, <1>3

LEMMA FetchStep ==
    ASSUME OnlyFinal, TypeInv, StoreInv, NEW p \in Procs, FetchRange(p)
    PROVE  StoreInv'
  <1> DEFINE end == RangeEnd(sync[p])
  <1>0. sync[p].pc = "range" /\ sync[p].start <= sync[p].target
    BY DEF FetchRange
  <1>2. end \in sync[p].start .. sync[p].target
    BY <1>0, SyncFacts, RangeEndBounds
  <1>1. /\ sync'[p] = [sync[p] EXCEPT !.pc = "append", !.end = end,
                                      !.rows = Within(chain, sync[p].start, end),
                                      !.pend = Within(chain, sync[p].start, end)]
        /\ sync' = [sync EXCEPT ![p] = sync'[p]]
        /\ sync[p].pc = "range" /\ sync[p].start <= sync[p].target
        /\ UNCHANGED <<chain, finalized, lines, torn, headFile, entry, crashes>>
    <2>1. PICK rows \in Answers(sync[p].start, end) : Fetched(p, end, rows)
      BY DEF FetchRange
    <2>2. rows = Within(chain, sync[p].start, end)
      BY <1>0, <1>2, <2>1, AnswersFinal
    <2> HIDE DEF end
    <2> QED
      BY <1>0, <2>1, <2>2, SyncFacts DEF Fetched
  <1> HIDE DEF end
  <1>3. /\ sync[p].start \in Genesis .. MaxBlock + 1 /\ sync[p].target \in Blocks
        /\ Held(Within(chain, Genesis, sync[p].start - 1), lines)
    BY <1>1, SyncFacts DEF SyncOK
  <1>4. Within(chain, sync[p].start, end) \in SUBSET Rows
    BY SyncFacts DEF Within
  <1>5. end \in 0 .. MaxBlock /\ end <= sync[p].target /\ sync[p].start <= end
    BY <1>2, <1>3, BlockFacts DEF Blocks
  <1>6. /\ sync'[p] \in SyncState /\ sync'[p].pc = "append"
        /\ sync'[p].start = sync[p].start /\ sync'[p].end = end
        /\ sync'[p].target = sync[p].target
        /\ sync'[p].pend = Within(chain, sync[p].start, end)
        /\ sync'[p].rows = Within(chain, sync[p].start, end)
    BY <1>1, <1>4, <1>5, SyncFacts DEF SyncState
  <1>7. Held(Within(chain, sync[p].start, end) \ sync'[p].pend, lines)
    BY <1>6 DEF Held
  <1>8. SyncOK(sync'[p], chain, lines)
    BY <1>3, <1>5, <1>6, <1>7 DEF SyncOK
  <1> QED
    BY <1>1, <1>8, SyncFacts, OneSyncReads

(* Rows of the range at hand, written to their files.                      *)
LEMMA WithRowsFacts ==
    ASSUME StoreInv, NEW p \in Procs, sync[p].pc = "append",
           NEW some \in SUBSET sync[p].pend, lines' = WithRows(some)
    PROVE  /\ DOMAIN lines' = Rows
           /\ \A r \in Rows : /\ lines'[r] \in Nat /\ lines'[r] >= lines[r]
                              /\ lines'[r] > 0 => r \in chain
                              /\ lines'[r] = IF r \in some THEN lines[r] + 1
                                                           ELSE lines[r]
           /\ HeadOK(headFile, chain, lines')
           /\ some \in SUBSET chain
  <1>1. some \in SUBSET chain
    BY SyncFacts DEF SyncOK, Within
  <1>2. /\ DOMAIN lines' = Rows
        /\ \A r \in Rows : lines'[r] = IF r \in some THEN lines[r] + 1 ELSE lines[r]
    BY DEF WithRows
  <1>3. \A r \in Rows : /\ lines'[r] \in Nat /\ lines'[r] >= lines[r]
                        /\ lines'[r] > 0 => r \in chain
    BY <1>1, <1>2, SyncFacts
  <1>4. ASSUME headFile \in Blocks
        PROVE  Held(Within(chain, Genesis, headFile), lines')
    <2>1. Held(Within(chain, Genesis, headFile), lines)
      BY <1>4, SyncFacts DEF HeadOK
    <2>2. Within(chain, Genesis, headFile) \in SUBSET Rows
      BY SyncFacts DEF Within
    <2> QED
      BY <1>3, <2>1, <2>2, SyncFacts DEF Held
  <1> QED
    BY <1>1, <1>2, <1>3, <1>4 DEF HeadOK

LEMMA AppendStep ==
    ASSUME StoreInv, NEW p \in Procs, NEW t \in Types, AppendFile(p, t)
    PROVE  StoreInv'
  <1> DEFINE rows == {r \in sync[p].pend : r[2] = t}
  <1>1. /\ sync'[p] = [sync[p] EXCEPT !.pend = @ \ rows]
        /\ sync' = [sync EXCEPT ![p] = sync'[p]]
        /\ sync[p].pc = "append" /\ lines' = WithRows(rows)
    BY SyncFacts DEF AppendFile, Opens
  <1>2. rows \in SUBSET sync[p].pend
    OBVIOUS
  <1> HIDE DEF rows
  <1>3. /\ DOMAIN lines' = Rows /\ HeadOK(headFile, chain, lines')
        /\ \A r \in Rows : /\ lines'[r] \in Nat /\ lines'[r] >= lines[r]
                           /\ lines'[r] = IF r \in rows THEN lines[r] + 1 ELSE lines[r]
    BY <1>1, <1>2, WithRowsFacts
  <1>4. /\ sync'[p] \in SyncState /\ sync'[p].pend = sync[p].pend \ rows
        /\ sync'[p].pc = "append" /\ sync'[p].start = sync[p].start
        /\ sync'[p].end = sync[p].end /\ sync'[p].target = sync[p].target
        /\ sync'[p].rows = sync[p].rows
    BY <1>1, SyncFacts DEF SyncState
  <1>5. PICK s, more : s = sync[p] /\ more = lines'
    OBVIOUS
  <1>6. SyncOK(s, chain, more)
    <2>1. PICK count : count = lines
      OBVIOUS
    <2> QED
      BY <1>3, <1>5, <2>1, SyncFacts, SyncKept
  <1>7. Held(Within(chain, s.start, s.end) \ sync'[p].pend, more)
    <2>1. Held(Within(chain, s.start, s.end) \ s.pend, more)
      BY <1>1, <1>5, <1>6 DEF SyncOK
    <2>2. \A r \in rows : more[r] > 0
      BY <1>2, <1>3, <1>5, SyncFacts DEF SyncState
    <2> QED
      BY <1>4, <1>5, <2>1, <2>2 DEF Held
  <1>8. SyncOK(sync'[p], chain, more)
    BY <1>1, <1>4, <1>5, <1>6, <1>7 DEF SyncOK
  <1> QED
    BY <1>1, <1>3, <1>5, <1>8, SyncFacts, OneSyncMoves
    DEF AppendFile, StoreInv, StoreTypeOK

LEMMA TruncateHeadStep ==
    ASSUME StoreInv, NEW p \in Procs, TruncateHead(p)
    PROVE  StoreInv'
  <1>1. /\ sync'[p] = [sync[p] EXCEPT !.pc = "save"]
        /\ sync' = [sync EXCEPT ![p] = sync'[p]]
        /\ sync[p].pc = "append" /\ sync[p].pend = {} /\ headFile' = Torn
    BY SyncFacts DEF TruncateHead
  <1>2. /\ sync'[p] \in SyncState /\ sync'[p].pc = "save" /\ sync'[p].pend = {}
        /\ sync'[p].start = sync[p].start /\ sync'[p].end = sync[p].end
        /\ sync'[p].target = sync[p].target /\ sync'[p].rows = sync[p].rows
    BY <1>1, SyncFacts DEF SyncState
  <1>3. SyncOK(sync'[p], chain, lines)
    BY <1>1, <1>2, SyncFacts DEF SyncOK
  <1>4. HeadOK(headFile', chain, lines)
    BY <1>1, SyncFacts, BlockFacts DEF HeadOK
  <1> QED
    <2>1. /\ UNCHANGED <<chain, finalized, lines, torn, entry, crashes>>
          /\ torn \in SUBSET Types
      BY DEF TruncateHead, StoreInv, StoreTypeOK
    <2>2. headFile' \in Blocks \cup {NoHead, Torn}
      BY <1>1, <1>3, <1>4
    <2>3. SyncOK(sync'[p], chain, lines') /\ HeadOK(headFile', chain, lines')
      BY <1>1, <1>3, <1>4, <2>1
    <2> QED
      BY <1>1, <2>1, <2>2, <2>3, FilesSame, SyncFacts, OneSyncMoves

(* The head is written only over rows that the files hold.                 *)
LEMMA WriteHeadStep ==
    ASSUME StoreInv, NEW p \in Procs, WriteHead(p)
    PROVE  StoreInv'
  <1>1. /\ sync'[p] = [sync[p] EXCEPT
               !.pc = "range", !.start = sync[p].end + 1, !.rows = {},
               !.fresh = @ \cup sync[p].rows]
        /\ sync' = [sync EXCEPT ![p] = sync'[p]]
        /\ sync[p].pc = "save" /\ headFile' = sync[p].end
    BY SyncFacts DEF WriteHead
  <1>2. /\ sync[p].start \in Genesis .. MaxBlock + 1
        /\ sync[p].start <= sync[p].end /\ sync[p].end <= sync[p].target
        /\ sync[p].target \in Blocks /\ sync[p].end \in Nat
    BY <1>1, SyncFacts, Fields DEF SyncOK
  <1>3. sync[p].end \in Blocks
    BY <1>2, BlockFacts DEF Blocks
  <1>4. Held(Within(chain, Genesis, sync[p].end), lines)
    <2>1. /\ Held(Within(chain, Genesis, sync[p].start - 1), lines)
          /\ Held(Within(chain, sync[p].start, sync[p].end), lines)
      BY <1>1, SyncFacts DEF SyncOK, Held
    <2>2. Within(chain, Genesis, sync[p].end)
             = Within(chain, Genesis, sync[p].start - 1)
                  \cup Within(chain, sync[p].start, sync[p].end)
      <3>1. PICK b \in Nat, e \in Nat : b = sync[p].start /\ e = sync[p].end
        BY <1>2, BlockFacts
      <3>2. /\ Genesis \in Nat /\ (Genesis <= b /\ b <= e + 1)
            /\ chain \in SUBSET Rows
        BY <1>2, <3>1, SyncFacts, BlockFacts
      <3>3. Within(chain, Genesis, e)
               = Within(chain, Genesis, b - 1) \cup Within(chain, b, e)
        BY <3>2, RangesJoin
      <3> QED
        BY <3>1, <3>3
    <2> QED
      BY <2>1, <2>2 DEF Held
  <1>6. sync[p].end + 1 \in Genesis .. MaxBlock + 1 /\ sync[p].end + 1 - 1 = sync[p].end
    BY <1>3, BlockFacts DEF Blocks
  <1>7. /\ sync'[p] \in SyncState /\ sync'[p].pc = "range"
        /\ sync'[p].start = sync[p].end + 1 /\ sync'[p].end = sync[p].end
        /\ sync'[p].target = sync[p].target
    <2>1. PICK rows \in SUBSET Rows : rows = sync[p].rows
      BY SyncFacts, Fields
    <2>2. sync[p] \in SyncState /\ sync[p].end + 1 \in 0 .. MaxBlock + 1
      BY <1>6, SyncFacts, BlockFacts
    <2>3. sync[p].fresh \cup rows \in SUBSET Rows
      BY <2>2, Fields
    <2> QED
      BY <1>1, <2>1, <2>2, <2>3 DEF SyncState
  <1>8. SyncOK(sync'[p], chain, lines)
    BY <1>2, <1>4, <1>6, <1>7 DEF SyncOK
  <1>9. HeadOK(headFile', chain, lines)
    BY <1>1, <1>4, SyncFacts DEF HeadOK
  <1> QED
    <2>1. /\ UNCHANGED <<chain, finalized, lines, torn, entry, crashes>>
          /\ torn \in SUBSET Types
      BY DEF WriteHead, StoreInv, StoreTypeOK
    <2>2. headFile' \in Blocks \cup {NoHead, Torn}
      BY <1>1, <1>3, <1>8, <1>9
    <2>3. SyncOK(sync'[p], chain, lines') /\ HeadOK(headFile', chain, lines')
      BY <1>1, <1>3, <1>8, <1>9, <2>1
    <2> QED
      BY <1>1, <2>1, <2>2, <2>3, FilesSame, SyncFacts, OneSyncMoves

(* The artifact's turn, and a sync that ends before it or after it.        *)
LEMMA ArtifactStep ==
    ASSUME StoreInv, NEW p \in Procs,
           LoadArtifact(p) \/ TruncateArtifact(p) \/ WriteArtifact(p) \/ RefuseHead(p)
    PROVE  StoreInv'
  <1>1. sync' = [sync EXCEPT ![p] = sync'[p]]
    BY SyncFacts DEF LoadArtifact, TruncateArtifact, WriteArtifact, RefuseHead
  <1>2. \/ sync'[p] = Idle
        \/ /\ sync[p].pc \in {"range", "merge"}
           /\ \/ sync'[p] = [sync[p] EXCEPT !.pc = "merge"]
              \/ sync'[p] = [sync[p] EXCEPT !.pc = "write"]
    BY SyncFacts DEF LoadArtifact, TruncateArtifact, WriteArtifact, RefuseHead
  <1>3. SyncOK(sync'[p], chain, lines)
    <2>1. CASE sync'[p] = Idle
      BY <2>1, SyncFacts
    <2>2. CASE sync'[p] # Idle
      <3>1. /\ sync'[p] \in SyncState /\ sync'[p].pc \in {"merge", "write"}
            /\ sync'[p].start = sync[p].start /\ sync'[p].end = sync[p].end
            /\ sync'[p].target = sync[p].target
            /\ sync[p].pc \in {"range", "merge"}
        BY <1>2, <2>2, SyncFacts DEF SyncState
      <3> QED
        BY <3>1, SyncFacts DEF SyncOK
    <2> QED
      BY <2>1, <2>2
  <1>4. entry' \notin {NoEntry, Torn} => entry'.asOf \in Blocks
    <2>1. CASE UNCHANGED entry \/ entry' = Torn
      BY <2>1, SyncFacts
    <2>2. CASE WriteArtifact(p) /\ entry' # Torn
      <3>1. entry' = Projected(sync[p]) /\ sync[p].target \in Blocks
        BY <2>2, SyncFacts DEF WriteArtifact, SyncOK
      <3> QED
        BY <3>1 DEF Projected
    <2> QED
      BY <2>1, <2>2 DEF LoadArtifact, TruncateArtifact, RefuseHead
  <1>5. /\ UNCHANGED <<chain, finalized, lines, torn, headFile>>
        /\ crashes' \in 0 .. MaxCrashes
    BY SyncFacts DEF LoadArtifact, TruncateArtifact, WriteArtifact, RefuseHead
  <1> QED
    BY <1>1, <1>3, <1>4, <1>5, OneSyncReads

(* A killed sync leaves what it had written, and part of what it was       *)
(* writing.                                                                *)
LEMMA CrashStep ==
    ASSUME StoreInv, NEW p \in Procs,
           Crash(p) \/ \E t \in Types : CrashAppending(p, t)
    PROVE  StoreInv'
  <1>1. /\ sync' = [sync EXCEPT ![p] = sync'[p]] /\ sync'[p] = Idle
        /\ UNCHANGED <<chain, finalized, headFile, entry>>
        /\ crashes' \in 0 .. MaxCrashes
    BY SyncFacts, StoreAssumption DEF Crash, CrashAppending, Killed
  <1>2. CASE Crash(p)
    BY <1>1, <1>2, SyncFacts, OneSyncReads DEF Crash
  <1>3. ASSUME NEW t \in Types, CrashAppending(p, t)
        PROVE  StoreInv'
    <2>1. sync[p].pc = "append"
      BY <1>3 DEF CrashAppending, Opens
    <2>2. PICK b \in Blocks, part \in SUBSET {t} :
              /\ lines' = WithRows({r \in sync[p].pend : r[2] = t /\ r[1] < b})
              /\ torn' = torn \cup part
      BY <1>3 DEF CrashAppending
    <2>3. /\ DOMAIN lines' = Rows
          /\ \A r \in Rows : lines'[r] \in Nat /\ lines'[r] >= lines[r]
          /\ HeadOK(headFile, chain, lines')
      BY <2>1, <2>2, WithRowsFacts
    <2>4. torn' \in SUBSET Types
      BY <2>2 DEF StoreInv, StoreTypeOK
    <2>5. SyncOK(sync'[p], chain, lines')
      <3>1. Idle \in SyncState /\ Idle.pc = "idle" /\ Idle.end <= Idle.target
        BY BlockFacts DEF Idle, SyncState
      <3> QED
        BY <1>1, <3>1 DEF SyncOK
    <2> QED
      BY <1>1, <2>3, <2>4, <2>5, SyncFacts, OneSyncMoves DEF StoreInv, StoreTypeOK
  <1> QED
    BY <1>2, <1>3

(* A block that becomes final changes no row of the earlier ones.          *)
LEMMA FinalRows ==
    ASSUME TypeInv, Finalize
    PROVE  /\ chain \subseteq chain'
           /\ \A a, e \in Nat : e <= finalized => Within(chain', a, e) = Within(chain, a, e)
  <1>1. PICK rows \in SUBSET ({finalized + 1} \X Types) : chain' = chain \cup rows
    BY DEF Finalize
  <1>2. finalized \in Nat
    BY ReachFacts, BlockFacts
  <1>3. ASSUME NEW a \in Nat, NEW e \in Nat, e <= finalized
        PROVE  Within(chain', a, e) = Within(chain, a, e)
    <2>1. Within(rows, a, e) = {}
      BY <1>2, <1>3 DEF Within
    <2> QED
      BY <1>1, <2>1 DEF Within
  <1> QED
    BY <1>1, <1>3

(* The chain finalizes a block, or the operator removes what cannot be     *)
(* read, with no sync running.                                             *)
LEMMA OperatorStep ==
    ASSUME OnlyFinal, TypeInv, StoreInv, Finalize \/ Wipe \/ RemoveArtifact
    PROVE  StoreInv'
  <1>1. CASE RemoveArtifact
    BY <1>1 DEF RemoveArtifact, StoreInv, StoreTypeOK, HasEntry
  <1>3. CASE Finalize
    <2>1. TypeInv' /\ UNCHANGED <<lines, torn, headFile, entry, sync, crashes>>
      BY <1>3, OperatorTypes DEF Finalize
    <2>2. PICK final, rows, more :
              /\ final = finalized /\ rows = chain /\ more = chain' /\ rows \subseteq more
              /\ \A a, e \in Nat : e <= final => Within(more, a, e) = Within(rows, a, e)
      BY <1>3, FinalRows
    <2>3. ASSUME NEW p \in Procs PROVE SyncOK(sync[p], more, lines)
      <3>1. PICK s \in SyncState : s = sync[p]
        BY SyncFacts
      <3>2. SyncOK(s, rows, lines) /\ SyncTyped(s, final) /\ final \in Nat
        BY <2>2, <3>1, SyncFacts, TypeFacts, ReachFacts, BlockFacts
      <3>3. s.pc \notin {"idle", "head"} =>
               Within(more, Genesis, s.start - 1) = Within(rows, Genesis, s.start - 1)
        BY <2>2, <3>2, BlockFacts DEF SyncTyped
      <3>4. s.pc \in {"append", "save"} =>
               Within(more, s.start, s.end) = Within(rows, s.start, s.end)
        BY <2>2, <3>2, Fields, BlockFacts DEF SyncTyped
      <3> QED
        BY <3>1, <3>2, <3>3, <3>4 DEF SyncOK
    <2>4. HeadOK(headFile, more, lines)
      <3>1. headFile \in Blocks => Within(more, Genesis, headFile) = Within(rows, Genesis, headFile)
        BY <2>2, ReachFacts, BlockFacts DEF TypeInv
      <3>2. HeadOK(headFile, rows, lines)
        BY <2>2 DEF StoreInv
      <3> QED
        BY <2>2, <3>1, <3>2 DEF HeadOK
    <2> QED
      BY <2>1, <2>2, <2>3, <2>4 DEF TypeInv, StoreInv
  <1>2. CASE Wipe
    <2>1. /\ lines' = [r \in Rows |-> 0] /\ headFile' = NoHead /\ torn' = {}
          /\ UNCHANGED <<chain, finalized, entry, sync, crashes>>
          /\ \A p \in Procs : sync[p].pc = "idle"
      BY <1>2 DEF Wipe
    <2>2. HeadOK(headFile', chain, lines')
      BY <2>1, BlockFacts DEF HeadOK
    <2>3. \A p \in Procs : SyncOK(sync[p], chain, lines')
      BY <2>1 DEF StoreInv, SyncOK
    <2>4. StoreTypeOK'
      BY <2>1 DEF StoreInv, StoreTypeOK, HasEntry
    <2> QED
      BY <2>1, <2>2, <2>3, <2>4 DEF StoreInv
  <1> QED
    BY <1>1, <1>2, <1>3

LEMMA StoreInit == Init => StoreInv
  <1> SUFFICES ASSUME Init
               PROVE  StoreInv
    OBVIOUS
  <1>1. /\ finalized = Genesis /\ lines = [r \in Rows |-> 0]
        /\ torn = {} /\ headFile = NoHead /\ entry = NoEntry /\ crashes = 0
        /\ sync = [p \in Procs |-> Idle]
    BY DEF Init
  <1>2. Idle \in SyncState /\ Idle.pc = "idle" /\ Idle.end <= Idle.target
    BY BlockFacts DEF Idle, SyncState
  <1>3. \A p \in Procs : SyncOK(sync[p], chain, lines)
    BY <1>1, <1>2 DEF SyncOK
  <1>4. StoreTypeOK
    BY TypeInit DEF TypeInv
  <1>5. HeadOK(headFile, chain, lines)
    BY <1>1, BlockFacts DEF HeadOK
  <1> QED
    BY <1>1, <1>2, <1>3, <1>4, <1>5 DEF StoreInv

LEMMA StoreStep ==
    ASSUME OnlyFinal, TypeInv, StoreInv, [Next]_vars
    PROVE  StoreInv'
  <1>1. ASSUME NEW p \in Procs, Start(p)
        PROVE  StoreInv'
    <2>1. finalized \in Blocks /\ ToBlocks \subseteq Blocks
      BY StoreAssumption DEF StoreInv, StoreTypeOK
    <2> QED
      BY <1>1, <2>1, LoadLogStep DEF Start
  <1>2. ASSUME NEW p \in Procs, SyncStep(p)
        PROVE  StoreInv'
    BY <1>2, LoadHeadStep, FetchStep, AppendStep, TruncateHeadStep, WriteHeadStep,
       ArtifactStep DEF SyncStep
  <1>3. CASE UNCHANGED vars
    BY <1>3 DEF vars, StoreInv, StoreTypeOK, HasEntry
  <1> QED
    BY <1>1, <1>2, <1>3, CrashStep, OperatorStep DEF Next

LEMMA StoreInvariance ==
    ASSUME OnlyFinal
    PROVE  Spec => []StoreInv
  <1>1. TypeInv /\ StoreInv /\ [Next]_vars => StoreInv'
    BY StoreStep
  <1> QED
    BY <1>1, StoreInit, TypeInvariance, PTL DEF Spec

(* For any number of syncs at once, killed anywhere: what a readable head  *)
(* marks is in the files, so a sync that resumes after it skips nothing.   *)
THEOREM StoreCoversHeadTheorem ==
    ASSUME OnlyFinal
    PROVE  Spec => []StoreCoversHead
  <1>1. StoreInv => StoreCoversHead
    BY DEF StoreInv, StoreTypeOK, HeadOK, Held, StoreCoversHead, Readable
  <1> QED
    BY <1>1, StoreInvariance, PTL

-----------------------------------------------------------------------------
(* One sync at a time.                                                     *)

OneSync == \A p, q \in Procs : p = q

(* The projector counts a row once for having been loaded and once for     *)
(* having been fetched.                                                    *)
LEMMA SeenCounts ==
    ASSUME NEW s, NEW r
    PROVE  /\ r[1] > s.target => Seen(s, r) = 0
           /\ ~(r[1] > s.target) =>
                 Seen(s, r) = (IF r \in s.prior THEN 1 ELSE 0)
                                + (IF r \in s.fresh THEN 1 ELSE 0)
  <1> DEFINE parts == {part \in {"prior", "fresh"} : r \in s[part]}
  <1>1. /\ Cardinality({}) = 0 /\ IsFiniteSet({})
        /\ Cardinality({"prior"}) = 1 /\ Cardinality({"fresh"}) = 1
        /\ IsFiniteSet({"prior"})
    BY FS_EmptySet, FS_Singleton
  <1>2. Cardinality({"prior"} \cup {"fresh"}) = 2
    <2>1. "fresh" \notin {"prior"}
      OBVIOUS
    <2>2. Cardinality({"prior"} \cup {"fresh"}) = Cardinality({"prior"}) + 1
      BY <1>1, <2>1, FS_AddElement
    <2> QED
      BY <1>1, <2>2
  <1>3. CASE r \in s.prior /\ r \in s.fresh
    <2>1. parts = {"prior"} \cup {"fresh"}
      BY <1>3
    <2> QED
      BY <1>2, <1>3, <2>1 DEF Seen
  <1>4. CASE r \in s.prior /\ r \notin s.fresh
    <2>1. parts = {"prior"}
      BY <1>4
    <2> QED
      BY <1>1, <1>4, <2>1 DEF Seen
  <1>5. CASE r \notin s.prior /\ r \in s.fresh
    <2>1. parts = {"fresh"}
      BY <1>5
    <2> QED
      BY <1>1, <1>5, <2>1 DEF Seen
  <1>6. CASE r \notin s.prior /\ r \notin s.fresh
    <2>1. parts = {}
      BY <1>6
    <2> QED
      BY <1>1, <1>6, <2>1 DEF Seen
  <1> QED
    BY <1>3, <1>4, <1>5, <1>6

(* What a sync that reached its target projects is the chain up to there.  *)
LEMMA ProjectedComplete ==
    ASSUME NEW s, NEW rows \in SUBSET Rows, NEW count, SyncOK(s, rows, count),
           LoadedOK(s, rows, count), s.pc \in {"merge", "write"}
    PROVE  \A r \in Rows :
              /\ Projected(s).seen[r] > 0 <=> r \in Within(rows, Genesis, Projected(s).asOf)
              /\ r[1] < Projected(s).from => Projected(s).seen[r] <= 1
  <1> SUFFICES ASSUME NEW r \in Rows
               PROVE  /\ Seen(s, r) > 0 <=> r \in Within(rows, Genesis, s.target)
                      /\ r[1] < s.from => Seen(s, r) <= 1
    BY DEF Projected
  <1>1. /\ s.from \in Nat /\ s.start \in Nat /\ s.target \in Nat
        /\ s.from <= s.start /\ s.target < s.start /\ Genesis <= s.from
        /\ s.prior \subseteq rows /\ Within(rows, Genesis, s.from - 1) \subseteq s.prior
        /\ s.fresh = Within(rows, s.from, s.start - 1)
    <2>1. s.from \in Nat /\ s.start \in Nat /\ s.target \in Nat
      BY Fields DEF SyncOK
    <2> QED
      BY <2>1, BlockFacts DEF LoadedOK
  <1>2. r[1] \in Nat /\ Genesis <= r[1] /\ Genesis \in Nat
    BY BlockFacts DEF Blocks
  <1>3. /\ r \in s.fresh <=> r \in rows /\ s.from <= r[1] /\ r[1] <= s.start - 1
        /\ r \in rows /\ r[1] <= s.from - 1 => r \in s.prior
        /\ r \in s.prior => r \in rows
        /\ r \in Within(rows, Genesis, s.target) <=> r \in rows /\ r[1] <= s.target
    BY <1>1, <1>2 DEF Within
  <1>4. CASE r[1] > s.target
    BY <1>1, <1>2, <1>3, <1>4, SeenCounts
  <1>5. CASE ~(r[1] > s.target)
    <2>1. Seen(s, r) = (IF r \in s.prior THEN 1 ELSE 0) + (IF r \in s.fresh THEN 1 ELSE 0)
      BY <1>5, SeenCounts
    <2>2. r \in rows => r \in s.prior \/ r \in s.fresh
      BY <1>1, <1>2, <1>3, <1>5
    <2>3. r[1] < s.from => r \notin s.fresh
      BY <1>1, <1>2, <1>3
    <2>4. r \in s.fresh => r \in rows
      BY <1>3
    <2> QED
      BY <1>1, <1>2, <1>3, <1>5, <2>1, <2>2, <2>3, <2>4
  <1> QED
    BY <1>4, <1>5

(* A step of the one sync keeps EntryInv if it leaves that sync with what  *)
(* it loaded and fetched, and the artifact alone or emptied.               *)
LEMMA OneSyncLoads ==
    ASSUME OneSync, EntryInv, NEW p \in Procs, UNCHANGED chain,
           LoadedOK(sync'[p], chain, lines'),
           UNCHANGED entry \/ entry' = Torn
    PROVE  EntryInv'
  <1>1. \A q \in Procs : LoadedOK(sync'[q], chain', lines')
    <2>1. \A q \in Procs : q = p
      BY DEF OneSync
    <2> QED
      BY <2>1
  <1>2. EntryComplete'
    BY DEF EntryInv, EntryComplete, HasEntry
  <1> QED
    BY <1>1, <1>2 DEF EntryInv

LEMMA IdleLoaded == ASSUME NEW rows, NEW count PROVE LoadedOK(Idle, rows, count)
  BY DEF Idle, LoadedOK

(* A step that changes none of these fields keeps what was loaded.         *)
LEMMA LoadedSame ==
    ASSUME NEW s, NEW t, NEW rows, NEW count, NEW more, LoadedOK(s, rows, count),
           s.pc \notin {"idle", "head"}, t.pc \notin {"idle", "head"},
           t.from = s.from, t.start = s.start, t.prior = s.prior, t.fresh = s.fresh,
           t.pc \in {"merge", "write"} => t.start > t.target
    PROVE  LoadedOK(t, rows, more)
  BY DEF LoadedOK

LEMMA LoadLogEntry ==
    ASSUME OneSync, StoreInv, EntryInv, NEW p \in Procs, NEW target \in Blocks,
           LoadLog(p, target)
    PROVE  EntryInv'
  <1>1. /\ sync'[p] = [Idle EXCEPT !.pc = "head", !.target = target,
                                   !.prior = {r \in Rows : lines[r] > 0}]
        /\ UNCHANGED <<chain, lines, entry>>
    BY SyncFacts DEF LoadLog
  <1>2. /\ sync'[p].pc = "head" /\ sync'[p].fresh = {}
        /\ sync'[p].prior = {r \in Rows : lines[r] > 0}
    BY <1>1 DEF Idle
  <1>3. LoadedOK(sync'[p], chain, lines')
    BY <1>1, <1>2 DEF LoadedOK
  <1> QED
    BY <1>1, <1>3, OneSyncLoads

(* The files still hold what was loaded from them: no other sync runs.     *)
LEMMA LoadHeadEntry ==
    ASSUME OneSync, StoreInv, EntryInv, NEW p \in Procs, LoadHead(p)
    PROVE  EntryInv'
  <1>1. /\ sync'[p] = [sync[p] EXCEPT !.pc = "range", !.from = ResumeFrom,
                                      !.start = ResumeFrom]
        /\ sync[p].pc = "head" /\ sync[p] \in SyncState
        /\ UNCHANGED <<chain, lines, entry>>
    BY SyncFacts DEF LoadHead
  <1>2. /\ sync[p].prior = {r \in Rows : lines[r] > 0} /\ sync[p].fresh = {}
    BY <1>1 DEF EntryInv, LoadedOK
  <1>3. /\ sync'[p].pc = "range" /\ sync'[p].from = ResumeFrom
        /\ sync'[p].start = ResumeFrom
        /\ sync'[p].prior = {r \in Rows : lines[r] > 0} /\ sync'[p].fresh = {}
    BY <1>1, <1>2 DEF SyncState
  <1>4. SyncOK(sync'[p], chain, lines)
    <2>1. StoreInv'
      BY LoadHeadStep
    <2> QED
      BY <1>1, <2>1 DEF StoreInv
  <1>5. /\ ResumeFrom \in Genesis .. MaxBlock + 1
        /\ Held(Within(chain, Genesis, ResumeFrom - 1), lines)
    BY <1>3, <1>4 DEF SyncOK
  <1>6. ResumeFrom \in Nat /\ ResumeFrom \in Genesis .. ResumeFrom
    BY <1>5, BlockFacts
  <1>7. /\ chain \in SUBSET Rows
        /\ \A r \in Rows : lines[r] > 0 => r \in chain
    BY SyncFacts
  <1>8. Within(chain, ResumeFrom, ResumeFrom - 1) = {}
    BY <1>6, <1>7, BlockFacts DEF Within, Blocks
  <1>9. /\ sync'[p].prior \subseteq chain
        /\ Within(chain, Genesis, ResumeFrom - 1) \subseteq sync'[p].prior
    BY <1>3, <1>5, <1>7 DEF Held, Within
  <1>10. LoadedOK(sync'[p], chain, lines')
    BY <1>3, <1>6, <1>8, <1>9 DEF LoadedOK
  <1> QED
    BY <1>1, <1>10, OneSyncLoads

(* The steps that take a range from fetching to the head.                  *)
LEMMA RangeEntry ==
    ASSUME OneSync, StoreInv, EntryInv, NEW p \in Procs,
           \/ FetchRange(p) \/ TruncateHead(p)
           \/ \E t \in Types : AppendFile(p, t)
    PROVE  EntryInv'
  <1>1. /\ sync[p].pc \in {"range", "append"} /\ sync[p] \in SyncState
        /\ UNCHANGED <<chain, entry>>
    BY SyncFacts DEF FetchRange, Fetched, TruncateHead, AppendFile, Opens
  <1> DEFINE Kept == /\ sync'[p].pc \in {"append", "save"}
                     /\ sync'[p].from = sync[p].from
                     /\ sync'[p].start = sync[p].start
                     /\ sync'[p].prior = sync[p].prior
                     /\ sync'[p].fresh = sync[p].fresh
  <1>2. Kept
    <2>1. CASE FetchRange(p)
      <3>1. PICK rows : Fetched(p, RangeEnd(sync[p]), rows)
        BY <2>1 DEF FetchRange
      <3> QED
        BY <3>1, SyncFacts DEF Fetched, SyncState
    <2>2. CASE TruncateHead(p)
      BY <2>2, SyncFacts DEF TruncateHead, SyncState
    <2>3. ASSUME NEW t \in Types, AppendFile(p, t)
          PROVE  Kept
      <3>1. PICK rows : sync' = [sync EXCEPT ![p].pend = @ \ rows]
        BY <2>3 DEF AppendFile
      <3>2. sync[p].pc = "append"
        BY <2>3 DEF AppendFile, Opens
      <3> QED
        BY <3>1, <3>2, SyncFacts DEF SyncState
    <2> QED
      BY <2>1, <2>2, <2>3
  <1>3. PICK s, t, count, more : /\ s = sync[p] /\ t = sync'[p]
                                 /\ count = lines /\ more = lines'
    OBVIOUS
  <1>4. LoadedOK(s, chain, count)
    BY <1>3 DEF EntryInv
  <1>5. LoadedOK(t, chain, more)
    BY <1>1, <1>2, <1>3, <1>4, LoadedSame
  <1> QED
    BY <1>1, <1>3, <1>5, OneSyncLoads

(* What was fetched grows by the range, and the range starts where it      *)
(* ended.                                                                  *)
LEMMA WriteHeadEntry ==
    ASSUME OneSync, StoreInv, EntryInv, NEW p \in Procs, WriteHead(p)
    PROVE  EntryInv'
  <1>1. /\ sync'[p] = [sync[p] EXCEPT
               !.pc = "range", !.start = sync[p].end + 1, !.rows = {},
               !.fresh = @ \cup sync[p].rows]
        /\ sync[p].pc = "save" /\ sync[p] \in SyncState
        /\ UNCHANGED <<chain, lines, entry>>
    BY SyncFacts DEF WriteHead
  <1>2. /\ sync'[p].pc = "range" /\ sync'[p].start = sync[p].end + 1
        /\ sync'[p].fresh = sync[p].fresh \cup sync[p].rows
        /\ sync'[p].from = sync[p].from /\ sync'[p].prior = sync[p].prior
    BY <1>1 DEF SyncState
  <1>10. sync[p].rows = Within(chain, sync[p].start, sync[p].end)
    BY <1>1, SyncFacts DEF SyncOK
  <1>3. /\ sync[p].from \in Genesis .. sync[p].start
        /\ sync[p].prior \subseteq chain
        /\ Within(chain, Genesis, sync[p].from - 1) \subseteq sync[p].prior
        /\ sync[p].fresh = Within(chain, sync[p].from, sync[p].start - 1)
    BY <1>1 DEF EntryInv, LoadedOK
  <1>4. PICK a \in Nat, b \in Nat, e \in Nat :
            a = sync[p].from /\ b = sync[p].start /\ e = sync[p].end
    BY <1>1, Fields
  <1>5. a <= b /\ b <= e /\ chain \in SUBSET Rows /\ Genesis <= a /\ Genesis \in Nat
    <2>1. sync[p].start <= sync[p].end
      BY <1>1, SyncFacts DEF SyncOK
    <2> QED
      BY <1>3, <1>4, <2>1, SyncFacts, BlockFacts
  <1>6. Within(chain, a, e) = Within(chain, a, b - 1) \cup Within(chain, b, e)
    <2>1. a <= b /\ b <= e + 1
      BY <1>5
    <2> QED
      BY <1>5, <2>1, RangesJoin
  <1>7. sync'[p].fresh = Within(chain, a, e) /\ e + 1 - 1 = e
    BY <1>2, <1>3, <1>4, <1>6, <1>10
  <1>8. sync'[p].from \in Genesis .. sync'[p].start
    BY <1>2, <1>4, <1>5
  <1>9. LoadedOK(sync'[p], chain, lines')
    BY <1>2, <1>3, <1>4, <1>7, <1>8 DEF LoadedOK
  <1> QED
    BY <1>1, <1>9, OneSyncLoads

(* The artifact is taken up once the target is reached, and what is        *)
(* written to it then is complete.                                         *)
LEMMA ArtifactEntry ==
    ASSUME OneSync, StoreInv, EntryInv, NEW p \in Procs,
           LoadArtifact(p) \/ TruncateArtifact(p) \/ WriteArtifact(p)
    PROVE  EntryInv'
  <1>1. UNCHANGED <<chain, lines>>
    BY DEF LoadArtifact, TruncateArtifact, WriteArtifact
  <1>2. CASE LoadArtifact(p) \/ TruncateArtifact(p)
    <2>1. CASE sync'[p] = Idle
      BY <1>1, <1>2, <2>1, IdleLoaded, OneSyncLoads DEF LoadArtifact, TruncateArtifact
    <2>2. CASE sync'[p] # Idle
      <3>1. /\ \/ sync'[p] = [sync[p] EXCEPT !.pc = "merge"]
               \/ sync'[p] = [sync[p] EXCEPT !.pc = "write"]
            /\ \/ sync[p].pc = "range" /\ sync[p].start > sync[p].target
               \/ sync[p].pc = "merge"
        BY <1>2, <2>2, SyncFacts DEF LoadArtifact, TruncateArtifact
      <3>2. LoadedOK(sync[p], chain, lines) /\ sync[p] \in SyncState
        BY SyncFacts DEF EntryInv
      <3>3. /\ sync'[p].pc \in {"merge", "write"}
            /\ sync'[p].from = sync[p].from /\ sync'[p].start = sync[p].start
            /\ sync'[p].prior = sync[p].prior /\ sync'[p].fresh = sync[p].fresh
            /\ sync'[p].target = sync[p].target
        BY <3>1, <3>2 DEF SyncState
      <3>4. sync[p].pc \notin {"idle", "head"} /\ sync[p].start > sync[p].target
        BY <3>1, <3>2 DEF LoadedOK
      <3>5. PICK s, t, count : s = sync[p] /\ t = sync'[p] /\ count = lines
        OBVIOUS
      <3>6. LoadedOK(t, chain, count)
        BY <3>2, <3>3, <3>4, <3>5, LoadedSame
      <3>7. UNCHANGED entry \/ entry' = Torn
        BY <1>2 DEF LoadArtifact, TruncateArtifact
      <3>8. LoadedOK(sync'[p], chain, lines')
        BY <1>1, <3>5, <3>6
      <3> QED
        BY <1>1, <3>7, <3>8, OneSyncLoads
    <2> QED
      BY <2>1, <2>2
  <1>3. CASE WriteArtifact(p)
    <2>1. /\ sync'[p] = Idle /\ sync[p].pc = "write"
          /\ entry' = Projected(sync[p]) \/ entry' = Torn
      BY <1>3, SyncFacts DEF WriteArtifact
    <2>2. CASE entry' = Torn
      BY <1>1, <2>1, <2>2, IdleLoaded, OneSyncLoads
    <2>3. CASE entry' = Projected(sync[p])
      <3>1. PICK s, count : s = sync[p] /\ count = lines
        OBVIOUS
      <3>2. SyncOK(s, chain, count) /\ LoadedOK(s, chain, count) /\ s.pc = "write"
        BY <2>1, <3>1, SyncFacts DEF EntryInv
      <3>3. PICK made : made = Projected(s)
        OBVIOUS
      <3>4. \A r \in Rows :
               /\ made.seen[r] > 0 <=> r \in Within(chain, Genesis, made.asOf)
               /\ r[1] < made.from => made.seen[r] <= 1
        BY <3>2, <3>3, SyncFacts, ProjectedComplete
      <3>5. EntryComplete'
        BY <1>1, <2>3, <3>1, <3>3, <3>4 DEF EntryComplete
      <3>6. \A q \in Procs : LoadedOK(sync'[q], chain', lines')
        BY <2>1, IdleLoaded DEF OneSync
      <3> QED
        BY <3>5, <3>6 DEF EntryInv
    <2> QED
      BY <2>1, <2>2, <2>3
  <1> QED
    BY <1>2, <1>3

LEMMA EntryStep ==
    ASSUME OneSync, OnlyFinal, TypeInv, StoreInv, EntryInv, [Next]_vars
    PROVE  EntryInv'
  <1>1. ASSUME NEW p \in Procs, Start(p)
        PROVE  EntryInv'
    <2>1. finalized \in Blocks /\ ToBlocks \subseteq Blocks
      BY StoreAssumption DEF StoreInv, StoreTypeOK
    <2> QED
      BY <1>1, <2>1, LoadLogEntry DEF Start
  <1>2. ASSUME NEW p \in Procs,
               RefuseHead(p) \/ Crash(p) \/ \E t \in Types : CrashAppending(p, t)
        PROVE  EntryInv'
    <2>1. sync'[p] = Idle /\ UNCHANGED <<chain, entry>>
      BY <1>2, SyncFacts DEF RefuseHead, Crash, CrashAppending, Killed
    <2> QED
      BY <2>1, IdleLoaded, OneSyncLoads
  <1>3. ASSUME NEW p \in Procs, SyncStep(p)
        PROVE  EntryInv'
    BY <1>2, <1>3, LoadHeadEntry, RangeEntry, WriteHeadEntry, ArtifactEntry DEF SyncStep
  <1>4. CASE RemoveArtifact \/ UNCHANGED vars
    BY <1>4
    DEF RemoveArtifact, vars, EntryInv, EntryComplete, HasEntry
  <1>6. CASE Finalize
    <2>1. UNCHANGED <<lines, entry, sync>>
      BY <1>6 DEF Finalize
    <2>2. PICK final, rows, more :
              /\ final = finalized /\ rows = chain /\ more = chain' /\ rows \subseteq more
              /\ \A a, e \in Nat : e <= final => Within(more, a, e) = Within(rows, a, e)
      BY <1>6, FinalRows
    <2>3. ASSUME NEW p \in Procs PROVE LoadedOK(sync[p], more, lines)
      <3>1. PICK s \in SyncState : s = sync[p]
        BY SyncFacts
      <3>2. LoadedOK(s, rows, lines) /\ SyncTyped(s, final) /\ final \in Nat
        BY <2>2, <3>1, TypeFacts, ReachFacts, BlockFacts DEF EntryInv
      <3>3. s.pc \notin {"idle", "head"} =>
               /\ Within(more, Genesis, s.from - 1) = Within(rows, Genesis, s.from - 1)
               /\ Within(more, s.from, s.start - 1) = Within(rows, s.from, s.start - 1)
        <4> SUFFICES ASSUME s.pc \notin {"idle", "head"}
                     PROVE  /\ s.from \in Nat /\ Genesis \in Nat
                            /\ s.from - 1 \in Nat /\ s.from - 1 <= final
                            /\ s.start - 1 \in Nat /\ s.start - 1 <= final
          BY <2>2
        <4>1. s.from \in Genesis .. s.start /\ s.start \in Genesis .. final + 1
          BY <3>2 DEF LoadedOK, SyncTyped
        <4> QED
          BY <3>2, <4>1, BlockFacts
      <3> QED
        BY <2>2, <3>1, <3>2, <3>3 DEF LoadedOK
    <2>4. EntryComplete'
      <3>1. HasEntry => Within(more, Genesis, entry.asOf) = Within(rows, Genesis, entry.asOf)
        BY <2>2, TypeFacts, ReachFacts, BlockFacts DEF TypeInv, StoreTypeOK
      <3> QED
        BY <2>1, <2>2, <3>1 DEF EntryInv, EntryComplete, HasEntry
    <2> QED
      BY <2>1, <2>2, <2>3, <2>4 DEF EntryInv
  <1>5. CASE Wipe
    <2>1. \A p \in Procs : LoadedOK(sync'[p], chain', lines')
      BY <1>5 DEF Wipe, LoadedOK
    <2> QED
      BY <1>5, <2>1 DEF Wipe, EntryInv, EntryComplete, HasEntry
  <1> QED
    BY <1>1, <1>2, <1>3, <1>4, <1>5, <1>6 DEF Next

(* With one sync at a time, killed anywhere and as often as it is: the     *)
(* artifact's entry is the fold of the whole chain up to as_of, and a row  *)
(* of a block before the one the sync resumed from counts once, however    *)
(* many lines hold it.                                                     *)
THEOREM EntryCompleteTheorem ==
    ASSUME OneSync, OnlyFinal
    PROVE  Spec => []EntryComplete
  <1>1. Init => EntryInv
    BY IdleLoaded DEF Init, EntryInv, EntryComplete, HasEntry
  <1>2. TypeInv /\ StoreInv /\ EntryInv /\ [Next]_vars => EntryInv'
    BY EntryStep
  <1>3. EntryInv => EntryComplete
    BY DEF EntryInv
  <1> QED
    BY <1>1, <1>2, <1>3, TypeInvariance, StoreInvariance, PTL DEF Spec

(* A step of the one sync keeps CopiesInv if it leaves the rows after the  *)
(* head in order.                                                          *)
LEMMA OneSyncCopies ==
    ASSUME OneSync, NEW p \in Procs, UNCHANGED chain,
           \A r \in Rows : lines'[r] <= 1 + crashes',
           FrontOK(sync'[p], chain, headFile', lines', crashes')
    PROVE  CopiesInv'
  <1>1. \A q \in Procs : FrontOK(sync'[q], chain', headFile', lines', crashes')
    <2>1. \A q \in Procs : q = p
      BY DEF OneSync
    <2> QED
      BY <2>1
  <1> QED
    BY <1>1 DEF CopiesInv, CopiesNeedCrashes

(* A step that appends nothing and leaves the head keeps the rows after it *)
(* in order, as long as it does not begin a range elsewhere.               *)
LEMMA FrontSame ==
    ASSUME NEW s, NEW t, NEW rows, NEW head, NEW count, NEW kills,
           FrontOK(s, rows, head, count, kills), s.pc # "append",
           t.pc # "save",
           t.pc \in {"range", "append"} => head # Torn /\ t.start = After(head)
    PROVE  FrontOK(t, rows, head, count, kills)
  BY DEF FrontOK

(* Between ranges, and before and after them, a sync appends nothing.      *)
LEMMA ReadCopies ==
    ASSUME OneSync, StoreInv, CopiesInv, NEW p \in Procs,
           UNCHANGED <<chain, lines, headFile, crashes>>,
           sync[p].pc # "append", sync'[p].pc # "save",
           sync'[p].pc \in {"range", "append"} =>
               headFile # Torn /\ sync'[p].start = After(headFile)
    PROVE  CopiesInv'
  <1>1. PICK s, t, count, head, kills : /\ s = sync[p] /\ t = sync'[p] /\ count = lines
                                        /\ head = headFile /\ kills = crashes
    OBVIOUS
  <1>2. FrontOK(s, chain, head, count, kills)
    BY <1>1 DEF CopiesInv
  <1>3. FrontOK(t, chain, head, count, kills)
    BY <1>1, <1>2, FrontSame
  <1>4. FrontOK(sync'[p], chain, headFile', lines', crashes')
    BY <1>1, <1>3
  <1>5. \A r \in Rows : lines'[r] <= 1 + crashes'
    BY DEF CopiesInv, CopiesNeedCrashes
  <1> QED
    BY <1>4, <1>5, OneSyncCopies

LEMMA LoadCopies ==
    ASSUME OneSync, StoreInv, CopiesInv, NEW p \in Procs,
           \/ \E target \in Blocks : LoadLog(p, target)
           \/ LoadHead(p) \/ RefuseHead(p) \/ FetchRange(p)
           \/ LoadArtifact(p) \/ TruncateArtifact(p) \/ WriteArtifact(p)
    PROVE  CopiesInv'
  <1>1. /\ UNCHANGED <<chain, lines, headFile, crashes>>
        /\ sync[p].pc # "append" /\ sync[p] \in SyncState
    BY SyncFacts
    DEF LoadLog, LoadHead, RefuseHead, FetchRange, Fetched, LoadArtifact,
        TruncateArtifact, WriteArtifact
  <1>2. CASE \/ \E target \in Blocks : LoadLog(p, target)
             \/ RefuseHead(p) \/ LoadArtifact(p) \/ TruncateArtifact(p) \/ WriteArtifact(p)
    <2>1. sync'[p].pc \in {"idle", "head", "merge", "write"}
      <3>1. CASE \E target \in Blocks : LoadLog(p, target)
        BY <3>1, SyncFacts DEF LoadLog, Idle
      <3>2. CASE RefuseHead(p) \/ WriteArtifact(p)
        BY <3>2, SyncFacts DEF RefuseHead, WriteArtifact, Idle
      <3>3. CASE LoadArtifact(p)
        BY <1>1, <3>3, SyncFacts DEF LoadArtifact, Idle, SyncState
      <3>4. CASE TruncateArtifact(p)
        BY <1>1, <3>4, SyncFacts DEF TruncateArtifact, SyncState
      <3> QED
        BY <1>2, <3>1, <3>2, <3>3, <3>4
    <2> QED
      BY <1>1, <2>1, ReadCopies
  <1>3. CASE LoadHead(p)
    <2>1. sync'[p].pc = "range" /\ sync'[p].start = After(headFile) /\ headFile # Torn
      BY <1>1, <1>3, SyncFacts DEF LoadHead, ResumeFrom, After, SyncState
    <2> QED
      BY <1>1, <2>1, ReadCopies
  <1>4. CASE FetchRange(p)
    <2>1. /\ sync'[p].pc = "append" /\ sync'[p].start = sync[p].start
          /\ sync[p].pc = "range"
      <3>1. PICK rows : Fetched(p, RangeEnd(sync[p]), rows)
        BY <1>4 DEF FetchRange
      <3>2. sync[p].pc = "range"
        BY <1>4 DEF FetchRange
      <3> QED
        BY <1>1, <3>1, <3>2, SyncFacts DEF Fetched, SyncState
    <2>2. headFile # Torn /\ sync[p].start = After(headFile)
      BY <2>1 DEF CopiesInv, FrontOK
    <2> QED
      BY <1>1, <2>1, <2>2, ReadCopies
  <1> QED
    BY <1>2, <1>3, <1>4

(* What the rows of the range at hand are to the head.                     *)
LEMMA PendingFresh ==
    ASSUME StoreInv, CopiesInv, NEW p \in Procs, sync[p].pc = "append"
    PROVE  /\ headFile # Torn /\ sync[p].start = After(headFile)
           /\ crashes \in Nat /\ sync[p].start \in Nat /\ sync[p].end \in Nat
           /\ sync[p].start <= sync[p].end
           /\ \A r \in sync[p].pend : r \in Rows /\ lines[r] <= crashes
           /\ \A r \in Rows : r[1] \in Nat /\ lines[r] \in Nat /\ lines[r] <= 1 + crashes
           /\ \A r \in sync[p].pend : r \in Within(chain, sync[p].start, sync[p].end)
  <1>1. /\ sync[p].start \in Nat /\ sync[p].end \in Nat /\ crashes \in Nat
        /\ sync[p].pend \in SUBSET Rows
    BY SyncFacts, Fields, StoreAssumption
  <1>2. /\ sync[p].pend \subseteq Within(chain, sync[p].start, sync[p].end)
        /\ sync[p].start <= sync[p].end
    BY SyncFacts DEF SyncOK
  <1>3. FrontOK(sync[p], chain, headFile, lines, crashes)
    BY DEF CopiesInv
  <1>4. /\ headFile # Torn /\ sync[p].start = After(headFile)
        /\ \A r \in Rows : r[1] >= After(headFile) =>
              \/ lines[r] <= crashes
              \/ r \in Within(chain, sync[p].start, sync[p].end) \ sync[p].pend
    BY <1>3 DEF FrontOK
  <1>5. \A r \in Rows : r[1] \in Nat /\ lines[r] \in Nat /\ lines[r] <= 1 + crashes
    BY SyncFacts, BlockFacts DEF CopiesInv, CopiesNeedCrashes
  <1>6. ASSUME NEW r \in sync[p].pend
        PROVE  r \in Rows /\ lines[r] <= crashes
    <2>1. r \in Rows /\ r[1] >= After(headFile)
      BY <1>1, <1>2, <1>4 DEF Within
    <2> QED
      BY <1>4, <2>1
  <1> QED
    BY <1>1, <1>2, <1>4, <1>5, <1>6

LEMMA AppendCopies ==
    ASSUME OneSync, StoreInv, CopiesInv, NEW p \in Procs, NEW t \in Types,
           AppendFile(p, t)
    PROVE  CopiesInv'
  <1> DEFINE rows == {r \in sync[p].pend : r[2] = t}
  <1>1. /\ sync'[p] = [sync[p] EXCEPT !.pend = @ \ rows]
        /\ sync[p].pc = "append" /\ lines' = WithRows(rows)
        /\ UNCHANGED <<chain, headFile, crashes>>
    BY SyncFacts DEF AppendFile, Opens
  <1>2. rows \in SUBSET sync[p].pend
    OBVIOUS
  <1> HIDE DEF rows
  <1>3. \A r \in Rows : lines'[r] = IF r \in rows THEN lines[r] + 1 ELSE lines[r]
    BY <1>1, <1>2, WithRowsFacts
  <1>4. /\ sync'[p].pend = sync[p].pend \ rows
        /\ sync'[p].pc = "append" /\ sync'[p].start = sync[p].start
        /\ sync'[p].end = sync[p].end
    BY <1>1, SyncFacts DEF SyncState
  <1>5. \A r \in Rows : lines'[r] <= 1 + crashes'
    BY <1>1, <1>2, <1>3, PendingFresh
  <1>6. \A r \in Rows : r[1] >= After(headFile) =>
           \/ lines'[r] <= crashes
           \/ r \in Within(chain, sync[p].start, sync[p].end) \ sync'[p].pend
    <2> SUFFICES ASSUME NEW r \in Rows, r[1] >= After(headFile), ~(lines'[r] <= crashes)
                 PROVE  r \in Within(chain, sync[p].start, sync[p].end) \ sync'[p].pend
      OBVIOUS
    <2>1. CASE r \in rows
      BY <1>1, <1>2, <1>4, <2>1, PendingFresh
    <2>2. CASE r \notin rows
      <3>1. ~(lines[r] <= crashes)
        BY <1>3, <2>2
      <3>2. FrontOK(sync[p], chain, headFile, lines, crashes) /\ headFile # Torn
        BY <1>1, PendingFresh DEF CopiesInv
      <3> QED
        BY <1>4, <3>1, <3>2 DEF FrontOK
    <2> QED
      BY <2>1, <2>2
  <1>7. FrontOK(sync'[p], chain, headFile', lines', crashes')
    BY <1>1, <1>4, <1>6, PendingFresh DEF FrontOK
  <1> QED
    BY <1>1, <1>5, <1>7, OneSyncCopies

LEMMA TruncateCopies ==
    ASSUME OneSync, StoreInv, CopiesInv, NEW p \in Procs, TruncateHead(p)
    PROVE  CopiesInv'
  <1>1. /\ sync'[p] = [sync[p] EXCEPT !.pc = "save"]
        /\ sync[p].pc = "append" /\ headFile' = Torn
        /\ UNCHANGED <<chain, lines, crashes>>
    BY SyncFacts DEF TruncateHead
  <1>2. sync'[p].pc = "save" /\ sync'[p].end = sync[p].end
    BY <1>1, SyncFacts DEF SyncState
  <1>3. \A r \in Rows : r[1] > sync[p].end => lines[r] <= crashes
    <2> SUFFICES ASSUME NEW r \in Rows, r[1] > sync[p].end
                 PROVE  lines[r] <= crashes
      OBVIOUS
    <2>1. r \notin Within(chain, sync[p].start, sync[p].end) /\ r[1] >= sync[p].start
      BY <1>1, PendingFresh DEF Within
    <2>2. FrontOK(sync[p], chain, headFile, lines, crashes)
      BY DEF CopiesInv
    <2> QED
      BY <1>1, <2>1, <2>2, PendingFresh DEF FrontOK
  <1>4. FrontOK(sync'[p], chain, headFile', lines', crashes')
    BY <1>1, <1>2, <1>3 DEF FrontOK
  <1>5. \A r \in Rows : lines'[r] <= 1 + crashes'
    BY <1>1 DEF CopiesInv, CopiesNeedCrashes
  <1> QED
    BY <1>1, <1>4, <1>5, OneSyncCopies

LEMMA WriteHeadCopies ==
    ASSUME OneSync, StoreInv, CopiesInv, NEW p \in Procs, WriteHead(p)
    PROVE  CopiesInv'
  <1>1. /\ sync'[p] = [sync[p] EXCEPT
               !.pc = "range", !.start = sync[p].end + 1, !.rows = {},
               !.fresh = @ \cup sync[p].rows]
        /\ sync[p].pc = "save" /\ headFile' = sync[p].end
        /\ UNCHANGED <<chain, lines, crashes>>
    BY SyncFacts DEF WriteHead
  <1>2. sync'[p].pc = "range" /\ sync'[p].start = sync[p].end + 1
    BY <1>1, SyncFacts DEF SyncState
  <1>3. /\ sync[p].end \in Nat /\ sync[p].end # NoHead /\ sync[p].end # Torn
        /\ \A r \in Rows : r[1] \in Nat
    BY SyncFacts, Fields, BlockFacts, StoreAssumption
  <1>4. After(headFile') = sync[p].end + 1
    BY <1>1, <1>3 DEF After
  <1>5. \A r \in Rows : r[1] > sync[p].end => lines[r] <= crashes
    BY <1>1 DEF CopiesInv, FrontOK
  <1>6. \A r \in Rows : r[1] >= sync[p].end + 1 => lines[r] <= crashes
    BY <1>3, <1>5
  <1>7. FrontOK(sync'[p], chain, headFile', lines', crashes')
    BY <1>1, <1>2, <1>3, <1>4, <1>6 DEF FrontOK
  <1>8. \A r \in Rows : lines'[r] <= 1 + crashes'
    BY <1>1 DEF CopiesInv, CopiesNeedCrashes
  <1> QED
    BY <1>1, <1>7, <1>8, OneSyncCopies

(* A kill accounts for every line of the range that was being appended.    *)
LEMMA CrashCopies ==
    ASSUME OneSync, StoreInv, CopiesInv, NEW p \in Procs,
           Crash(p) \/ \E t \in Types : CrashAppending(p, t)
    PROVE  CopiesInv'
  <1>1. /\ sync'[p] = Idle /\ crashes' = crashes + 1 /\ crashes \in Nat
        /\ UNCHANGED <<chain, headFile>>
    BY SyncFacts, StoreAssumption DEF Crash, CrashAppending, Killed
  <1>2. \A r \in Rows : lines[r] \in Nat /\ lines[r] <= 1 + crashes
    BY SyncFacts DEF CopiesInv, CopiesNeedCrashes
  <1>3. \A r \in Rows : lines'[r] \in Nat /\ lines'[r] <= crashes'
    <2>1. CASE Crash(p)
      BY <1>1, <1>2, <2>1 DEF Crash
    <2>2. ASSUME NEW t \in Types, CrashAppending(p, t)
          PROVE  \A r \in Rows : lines'[r] \in Nat /\ lines'[r] <= crashes'
      <3>1. sync[p].pc = "append"
        BY <2>2 DEF CrashAppending, Opens
      <3>2. PICK b \in Blocks :
                lines' = WithRows({r \in sync[p].pend : r[2] = t /\ r[1] < b})
        BY <2>2 DEF CrashAppending
      <3>3. PICK some \in SUBSET sync[p].pend : lines' = WithRows(some)
        BY <3>2
      <3>4. \A r \in Rows : lines'[r] = IF r \in some THEN lines[r] + 1 ELSE lines[r]
        BY <3>1, <3>3, WithRowsFacts
      <3>5. \A r \in some : lines[r] <= crashes
        BY <3>1, PendingFresh
      <3> QED
        BY <1>1, <1>2, <3>4, <3>5
    <2> QED
      BY <2>1, <2>2
  <1>4. FrontOK(sync'[p], chain, headFile', lines', crashes')
    BY <1>1, <1>3 DEF FrontOK, Idle
  <1>5. \A r \in Rows : lines'[r] <= 1 + crashes'
    BY <1>1, <1>3
  <1> QED
    BY <1>1, <1>4, <1>5, OneSyncCopies

LEMMA CopiesStep ==
    ASSUME OneSync, OnlyFinal, TypeInv, StoreInv, CopiesInv, [Next]_vars
    PROVE  CopiesInv'
  <1>1. ASSUME NEW p \in Procs, Start(p)
        PROVE  CopiesInv'
    <2>1. finalized \in Blocks /\ ToBlocks \subseteq Blocks
      BY StoreAssumption DEF StoreInv, StoreTypeOK
    <2> QED
      BY <1>1, <2>1, LoadCopies DEF Start
  <1>2. ASSUME NEW p \in Procs, SyncStep(p)
        PROVE  CopiesInv'
    BY <1>2, LoadCopies, AppendCopies, TruncateCopies, WriteHeadCopies DEF SyncStep
  <1>3. CASE RemoveArtifact \/ UNCHANGED vars
    BY <1>3 DEF RemoveArtifact, vars, CopiesInv, CopiesNeedCrashes
  <1>5. CASE Finalize
    <2>1. UNCHANGED <<lines, headFile, sync, crashes>>
      BY <1>5 DEF Finalize
    <2>2. ASSUME NEW p \in Procs PROVE FrontOK(sync[p], chain', headFile, lines, crashes)
      <3>1. FrontOK(sync[p], chain, headFile, lines, crashes)
        BY DEF CopiesInv
      <3>2. chain \subseteq chain'
        BY <1>5, FinalRows
      <3> QED
        BY <3>1, <3>2 DEF FrontOK, Within
    <2> QED
      BY <2>1, <2>2 DEF CopiesInv, CopiesNeedCrashes
  <1>4. CASE Wipe
    <2>1. /\ \A r \in Rows : lines'[r] = 0
          /\ UNCHANGED <<chain, sync, crashes>> /\ crashes \in Nat
          /\ \A p \in Procs : sync[p].pc = "idle"
      BY <1>4, StoreAssumption DEF Wipe, StoreInv, StoreTypeOK
    <2>2. \A p \in Procs : FrontOK(sync'[p], chain', headFile', lines', crashes')
      BY <2>1 DEF FrontOK
    <2> QED
      BY <2>1, <2>2 DEF CopiesInv, CopiesNeedCrashes
  <1> QED
    BY <1>1, <1>2, <1>3, <1>4, <1>5, CrashCopies DEF Next

(* With one sync at a time: what a completed range appended is never       *)
(* appended again, so a row has at most one line more than there were      *)
(* kills.                                                                  *)
THEOREM CopiesTheorem ==
    ASSUME OneSync, OnlyFinal
    PROVE  Spec => []CopiesNeedCrashes
  <1>1. Init => CopiesInv
    BY DEF Init, Idle, CopiesInv, CopiesNeedCrashes, FrontOK
  <1>2. TypeInv /\ StoreInv /\ CopiesInv /\ [Next]_vars => CopiesInv'
    BY CopiesStep
  <1>3. CopiesInv => CopiesNeedCrashes
    BY DEF CopiesInv
  <1> QED
    BY <1>1, <1>2, <1>3, TypeInvariance, StoreInvariance, PTL DEF Spec
=============================================================================
