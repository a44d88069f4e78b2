-------------------------- MODULE KeeperCycleProofs --------------------------
(***************************************************************************)
(* Theorems about a keeper's run, for any number of volumes, any lists of  *)
(* selected ones, page sizes, limits and pending transactions: what the    *)
(* run knows stays in order, and an "ok" is true as long as the network    *)
(* does not mine what the keeper's node has forgotten.                     *)
(***************************************************************************)
EXTENDS KeeperCycle, SequenceTheorems, WellFoundedInduction, TLAPS

(* The operators below take a run and parts of the state as parameters, so *)
(* that they can be stated of a state and of the next.                     *)

(* The volumes that exist or existed.                                      *)
Created == {v \in Volumes : state[v] # "none"}

ChainOK ==
    /\ state \in [Volumes -> Needs \cup {"none", "retired"}]
    /\ active \in Seq(Volumes) /\ IsInjective(active)
    /\ \A v \in Volumes : state[v] \in Needs <=> v \in ToSet(active)

(* No two transactions that the node knows have one nonce, and only        *)
(* volumes that exist are triggered.                                       *)
WalletOK(known) ==
    /\ pool \cup lost \subseteq [nonce : 0 .. MaxPool - 1, vol : known]
    /\ \A t, u \in pool : t.nonce = u.nonce => t = u

(* What a run has read of the list: of all volumes, the pages it read; of  *)
(* the selected ones, those among the records it read that were Active.    *)
ListedOK(r, mode) ==
    /\ mode = "all" =>
          r.ids = SubSeq(r.pinned, 1, Min({r.page * PageSize, Len(r.pinned)}))
    /\ mode = "selected" /\ ~r.warned =>
          \A k \in 1 .. r.page : k \in 1 .. Len(Selected) => Selected[k] \in ToSet(r.ids)

RunOK(r, mode, known) ==
    /\ r \in Run
    /\ r.pinned \in Seq(known) /\ r.ids \in Seq(known) /\ r.plan \in Seq(known)
    /\ IsInjective(r.pinned)
    /\ mode = "all" => IsInjective(r.plan)
    /\ r.i <= Len(r.plan) + 1
    /\ r.pc \in {"send", "wait"} => r.i <= Len(r.plan)
    /\ r.pc \in {"idle", "listing"} => r.i = 1
    /\ r.pc = "listing" => ListedOK(r, mode)
    /\ r.pc # "wait" => r.own = NoNonce /\ r.receipt = "none"
    /\ r.pc = "wait" => (r.receipt = "none" <=> r.own # NoNonce)

Reports == [status : {"none", "ok", "warning", "failure"}, maintained : BOOLEAN]

KeeperInv ==
    /\ ChainOK
    /\ WalletOK(Created)
    /\ config \in [mode : {"all", "selected"}, limit : Limits]
    /\ RunOK(run, config.mode, Created)
    /\ report \in Reports
    /\ served \subseteq Volumes

(* The volumes a run answers for.                                          *)
DueOf(r, mode) == ToSet(IF mode = "all" THEN r.pinned ELSE Selected)

(* While a run has nothing to report, its plan leaves none of them out,    *)
(* those it is done with were maintained, the transaction it waits for is  *)
(* of the volume it is at, and a receipt it has seen is true.              *)
CoverOK(r, mode, pending, done) ==
    /\ r.pc \in {"next", "send", "wait"} /\ ~r.warned => DueOf(r, mode) \subseteq ToSet(r.plan)
    /\ ~r.failed /\ ~r.warned => \A k \in 1 .. r.i - 1 : r.plan[k] \in done
    /\ r.pc = "wait" =>
          /\ r.receipt = "none" =>
                \A tx \in pending : tx.nonce = r.own => tx.vol = r.plan[r.i]
          /\ r.receipt \in {"noop", "toppedUp"} => r.plan[r.i] \in done

CoverInv ==
    /\ OkMeansMaintained
    /\ lost = {}
    /\ CoverOK(run, config.mode, pool, served)

-----------------------------------------------------------------------------
(* Lemmas about the data.                                                  *)

Less == {p \in Nat \X Nat : p[1] < p[2]}

(* Every set of naturals has a least one.                                  *)
LEMMA LeastNat ==
    ASSUME NEW S \in SUBSET Nat, S # {}
    PROVE  \E m \in S : \A k \in S : m <= k
  <1>1. OpToRel(<, Nat) = Less
    BY DEF Less, OpToRel
  <1>2. IsWellFoundedOn(Less, Nat)
    BY <1>1, NatLessThanWellFounded, Zenon
  <1>3. PICK m \in S : \A y \in S : ~ (<<y, m>> \in Less)
    BY <1>2, WFMin
  <1>4. ASSUME NEW k \in S
        PROVE  m <= k
    <2>1. ~(k < m)
      BY <1>3 DEF Less
    <2> QED
      BY <2>1
  <1> QED
    BY <1>4

(* The smaller of two integers.                                            *)
LEMMA MinOfTwo ==
    ASSUME NEW a \in Int, NEW b \in Int
    PROVE  Min({a, b}) = IF a <= b THEN a ELSE b
  BY DEF Min

(* There always is a nonce the node has not seen.                          *)
LEMMA PendingNonceExists ==
    ASSUME NEW known, WalletOK(known)
    PROVE  PendingNonce \in 0 .. MaxPool
  <1> DEFINE free == {n \in 0 .. MaxPool : \A tx \in pool : tx.nonce # n}
  <1>1. MaxPool \in Nat
    BY KeeperAssumption
  <1>2. MaxPool \in free /\ free \in SUBSET Nat
    <2>1. \A tx \in pool : tx.nonce \in 0 .. MaxPool - 1
      BY DEF WalletOK
    <2> QED
      BY <1>1, <2>1
  <1>3. PICK m \in free : \A k \in free : m <= k
    BY <1>2, LeastNat
  <1>4. ASSUME NEW k \in 0 .. m - 1
        PROVE  \E tx \in pool : tx.nonce = k
    <2>1. k \in 0 .. MaxPool /\ ~(m <= k)
      BY <1>1, <1>3
    <2> QED
      BY <1>3, <2>1
  <1> QED
    BY <1>3, <1>4 DEF PendingNonce

(* The members of a sequence.                                              *)
LEMMA Members ==
    ASSUME NEW S, NEW s \in Seq(S)
    PROVE  /\ Len(s) \in Nat /\ DOMAIN s = 1 .. Len(s)
           /\ ToSet(s) = {s[k] : k \in 1 .. Len(s)}
           /\ \A k \in 1 .. Len(s) : s[k] \in S
           /\ ToSet(s) \subseteq S
  <1>1. Len(s) \in Nat /\ DOMAIN s = 1 .. Len(s) /\ \A k \in 1 .. Len(s) : s[k] \in S
    BY LenProperties, ElementOfSeq
  <1> QED
    BY <1>1 DEF ToSet

(* Where a page begins.                                                    *)
LEMMA ProductNat == ASSUME NEW a \in Nat, NEW b \in Nat PROVE a * b \in Nat
  BY SMT

(* As many pages as the code asks for hold the whole list, and a page it   *)
(* still asks for begins within it.                                        *)
LEMMA PagesSuffice ==
    ASSUME NEW n \in Nat, NEW size \in Nat \ {0}, NEW k \in Nat
    PROVE  /\ ((n + size - 1) \div size) * size >= n
           /\ k < (n + size - 1) \div size => k * size < n
           /\ (n + size - 1) \div size \in Nat
  <1> DEFINE m == n + size - 1
             q == m \div size
  <1>1. /\ m \in Nat /\ q \in Int
        /\ m = size * q + (m % size) /\ m % size \in 0 .. size - 1
    BY SMT
  <1>2. q * size = size * q /\ q * size \in Int
    BY <1>1, SMT
  <1>3. q * size >= n
    BY <1>1, <1>2
  <1> QED
    BY <1>1, <1>2, <1>3, SMT

(* Swap-and-pop takes one volume from the list and no other.               *)
LEMMA SwapAndPopFacts ==
    ASSUME active \in Seq(Volumes), IsInjective(active), NEW v \in ToSet(active)
    PROVE  /\ SwapAndPop(v) \in Seq(Volumes)
           /\ IsInjective(SwapAndPop(v))
           /\ ToSet(SwapAndPop(v)) = ToSet(active) \ {v}
  <1> DEFINE n == Len(active)
             t == SwapAndPop(v)
  <1>1. /\ n \in Nat /\ DOMAIN active = 1 .. n
        /\ ToSet(active) = {active[k] : k \in 1 .. n}
        /\ \A k \in 1 .. n : active[k] \in Volumes
    BY Members
  <1>2. PICK p \in 1 .. n : active[p] = v
    BY <1>1
  <1>3. \A j, k \in 1 .. n : active[j] = active[k] => j = k
    BY <1>1 DEF IsInjective
  <1>4. t = [k \in 1 .. n - 1 |-> IF k = p THEN active[n] ELSE active[k]]
    <2>1. \A k \in 1 .. n - 1 : active[k] = v <=> k = p
      BY <1>1, <1>2, <1>3
    <2> QED
      BY <2>1 DEF SwapAndPop
  <1>5. n - 1 \in Nat /\ n \in 1 .. n
    BY <1>1, <1>2
  <1> HIDE DEF n, t
  <1>6. /\ t \in Seq(Volumes) /\ DOMAIN t = 1 .. n - 1
        /\ \A k \in 1 .. n - 1 : t[k] = IF k = p THEN active[n] ELSE active[k]
    <2>1. t \in [1 .. n - 1 -> Volumes]
      BY <1>1, <1>4, <1>5
    <2>2. t \in Seq(Volumes)
      BY <1>5, <2>1
    <2> QED
      BY <1>4, <2>2
  <1>7. IsInjective(t)
    <2> DEFINE from(k) == IF k = p THEN n ELSE k
    <2>1. ASSUME NEW k \in 1 .. n - 1
          PROVE  from(k) \in 1 .. n /\ t[k] = active[from(k)]
      BY <1>5, <1>6
    <2>2. ASSUME NEW j \in 1 .. n - 1, NEW k \in 1 .. n - 1, t[j] = t[k]
          PROVE  j = k
      <3>1. from(j) = from(k)
        <4> HIDE DEF from
        <4> QED
          BY <1>3, <2>1, <2>2
      <3> QED
        BY <1>5, <3>1
    <2> QED
      BY <1>6, <2>2 DEF IsInjective
  <1>8. ToSet(t) = {t[k] : k \in 1 .. n - 1}
    BY <1>6 DEF ToSet
  <1>9. ASSUME NEW w \in ToSet(t)
        PROVE  w \in ToSet(active) \ {v}
    <2>1. PICK k \in 1 .. n - 1 : w = t[k]
      BY <1>8
    <2> QED
      BY <1>1, <1>2, <1>3, <1>5, <1>6, <2>1
  <1>10. ASSUME NEW w \in ToSet(active) \ {v}
         PROVE  w \in ToSet(t)
    <2>1. PICK k \in 1 .. n : w = active[k]
      BY <1>1
    <2>2. CASE k = n
      <3>1. p \in 1 .. n - 1 /\ t[p] = w
        BY <1>2, <1>5, <1>6, <2>1, <2>2
      <3> QED
        BY <1>8, <3>1
    <2>3. CASE k # n
      <3>1. k \in 1 .. n - 1 /\ k # p /\ t[k] = w
        BY <1>2, <1>5, <1>6, <2>1, <2>3
      <3> QED
        BY <1>8, <3>1
    <2> QED
      BY <2>2, <2>3
  <1> QED
    BY <1>6, <1>7, <1>9, <1>10 DEF t

(* Where rotateVolumes puts a volume.                                      *)
LEMMA RotatedPlaces ==
    ASSUME NEW S, NEW s \in Seq(S), NEW start \in 0 .. Len(s) - 1
    PROVE  /\ Rotated(s, start) \in Seq(S)
           /\ Len(Rotated(s, start)) = Len(s)
           /\ \A k \in 1 .. Len(s) :
                 Rotated(s, start)[k] = IF k <= Len(s) - start THEN s[start + k]
                                                              ELSE s[k - (Len(s) - start)]
  <1> DEFINE n == Len(s)
             a == SubSeq(s, start + 1, n)
             b == SubSeq(s, 1, start)
             t == Rotated(s, start)
  <1>1. /\ n \in Nat /\ DOMAIN s = 1 .. n
        /\ ToSet(s) = {s[k] : k \in 1 .. n}
        /\ \A k \in 1 .. n : s[k] \in S
    BY Members
  <1>2. /\ a \in Seq(S) /\ Len(a) = n - start
        /\ \A k \in 1 .. n - start : a[k] = s[start + k]
    <2>1. \A k \in start + 1 .. n : s[k] \in S
      BY <1>1
    <2>2. /\ a \in Seq(S)
          /\ Len(a) = IF start + 1 <= n THEN n - (start + 1) + 1 ELSE 0
          /\ \A k \in 1 .. n - (start + 1) + 1 : a[k] = s[(start + 1) + k - 1]
      BY <1>1, <2>1, SubSeqProperties
    <2> QED
      BY <1>1, <2>2
  <1>3. /\ b \in Seq(S) /\ Len(b) = start
        /\ \A k \in 1 .. start : b[k] = s[k]
    <2>1. \A k \in 1 .. start : s[k] \in S
      BY <1>1
    <2>2. /\ b \in Seq(S)
          /\ Len(b) = IF 1 <= start THEN start - 1 + 1 ELSE 0
          /\ \A k \in 1 .. start - 1 + 1 : b[k] = s[1 + k - 1]
      BY <1>1, <2>1, SubSeqProperties
    <2> QED
      BY <1>1, <2>2
  <1>4. t = a \o b
    BY DEF Rotated
  <1> HIDE DEF a, b, n, t
  <1>5. /\ t \in Seq(S) /\ Len(t) = n
        /\ \A k \in 1 .. n :
              t[k] = IF k <= n - start THEN s[start + k] ELSE s[k - (n - start)]
    <2>1. /\ t \in Seq(S) /\ Len(t) = Len(a) + Len(b)
          /\ \A k \in 1 .. Len(a) + Len(b) :
                t[k] = IF k <= Len(a) THEN a[k] ELSE b[k - Len(a)]
      <3>1. a \in Seq(S) /\ b \in Seq(S)
        BY <1>2, <1>3
      <3> QED
        BY <1>4, <3>1, ConcatProperties
    <2>2. start \in 0 .. n - 1
      BY DEF n
    <2>3. Len(a) + Len(b) = n /\ Len(a) = n - start
      BY <1>1, <1>2, <1>3, <2>2
    <2>4. ASSUME NEW k \in 1 .. n
          PROVE  t[k] = IF k <= n - start THEN s[start + k] ELSE s[k - (n - start)]
      <3>1. t[k] = IF k <= n - start THEN a[k] ELSE b[k - (n - start)]
        BY <2>1, <2>3
      <3>2. k <= n - start => a[k] = s[start + k]
        BY <1>1, <1>2, <2>2
      <3>3. ~(k <= n - start) => b[k - (n - start)] = s[k - (n - start)]
        BY <1>1, <1>3, <2>2
      <3> QED
        BY <3>1, <3>2, <3>3
    <2> QED
      BY <2>1, <2>3, <2>4
  <1> QED
    BY <1>5 DEF n, t

(* rotateVolumes neither drops nor repeats a volume.                       *)
LEMMA RotatedFacts ==
    ASSUME NEW S, NEW s \in Seq(S), NEW start \in 0 .. Len(s) - 1
    PROVE  /\ Rotated(s, start) \in Seq(S)
           /\ Len(Rotated(s, start)) = Len(s)
           /\ ToSet(Rotated(s, start)) = ToSet(s)
           /\ IsInjective(s) => IsInjective(Rotated(s, start))
  <1> DEFINE n == Len(s)
             t == Rotated(s, start)
  <1>1. /\ n \in Nat /\ DOMAIN s = 1 .. n
        /\ ToSet(s) = {s[k] : k \in 1 .. n}
        /\ \A k \in 1 .. n : s[k] \in S
    BY Members
  <1>2. /\ t \in Seq(S) /\ Len(t) = n
        /\ \A k \in 1 .. n :
              t[k] = IF k <= n - start THEN s[start + k] ELSE s[k - (n - start)]
    BY RotatedPlaces
  <1> HIDE DEF n, t
  <1>3. start \in 0 .. n - 1
    BY DEF n
  <1>4. DOMAIN t = 1 .. n /\ ToSet(t) = {t[k] : k \in 1 .. n}
    BY <1>2, Members
  <1>5. \A w : w \in ToSet(t) => w \in ToSet(s)
    <2> SUFFICES ASSUME NEW k \in 1 .. n
                 PROVE  t[k] \in ToSet(s)
      BY <1>4
    <2>1. \E j \in 1 .. n : t[k] = s[j]
      BY <1>1, <1>2, <1>3
    <2> QED
      BY <1>1, <2>1
  <1>6. \A w : w \in ToSet(s) => w \in ToSet(t)
    <2> SUFFICES ASSUME NEW k \in 1 .. n
                 PROVE  s[k] \in ToSet(t)
      BY <1>1
    <2> DEFINE j == IF k <= start THEN k + (n - start) ELSE k - start
    <2>1. j \in 1 .. n /\ t[j] = s[k]
      BY <1>1, <1>2, <1>3
    <2> QED
      BY <1>4, <2>1
  <1>7. IsInjective(s) => IsInjective(t)
    <2> SUFFICES ASSUME IsInjective(s), NEW j \in 1 .. n, NEW k \in 1 .. n, t[j] = t[k]
                 PROVE  j = k
      BY <1>4 DEF IsInjective
    <2> DEFINE from(m) == IF m <= n - start THEN start + m ELSE m - (n - start)
    <2>1. /\ from(j) \in 1 .. n /\ from(k) \in 1 .. n
          /\ from(j) = from(k) => j = k
      BY <1>1, <1>3
    <2>2. t[j] = s[from(j)] /\ t[k] = s[from(k)]
      BY <1>2
    <2> HIDE DEF from
    <2>3. from(j) = from(k)
      BY <1>1, <2>1, <2>2 DEF IsInjective
    <2> QED
      BY <2>1, <2>3
  <1> QED
    BY <1>2, <1>5, <1>6, <1>7 DEF n, t

(* The limit keeps the first volumes of a list.                            *)
LEMMA CutPlaces ==
    ASSUME NEW S, NEW s \in Seq(S), config.limit \in Nat
    PROVE  /\ Cut(s) \in Seq(S)
           /\ Len(Cut(s)) = Min({config.limit, Len(s)})
           /\ Min({config.limit, Len(s)}) \in 0 .. Len(s)
           /\ ~(config.limit < Len(s)) => Cut(s) = s
           /\ \A k \in 1 .. Len(Cut(s)) : Cut(s)[k] = s[k]
  <1> DEFINE n == Len(s)
             m == Min({config.limit, n})
             t == Cut(s)
  <1>1. /\ n \in Nat /\ DOMAIN s = 1 .. n
        /\ \A k \in 1 .. n : s[k] \in S
    BY Members
  <1>2. m = IF config.limit <= n THEN config.limit ELSE n
    BY <1>1, MinOfTwo
  <1> HIDE DEF m
  <1>3. m \in 0 .. n /\ (~(config.limit < n) => m = n)
    BY <1>1, <1>2
  <1>4. t = SubSeq(s, 1, m)
    BY DEF Cut, m
  <1> HIDE DEF t, n
  <1>5. /\ t \in Seq(S) /\ Len(t) = m
        /\ \A k \in 1 .. m : t[k] = s[k]
    <2>1. \A k \in 1 .. m : s[k] \in S
      BY <1>1, <1>3
    <2>2. /\ t \in Seq(S)
          /\ Len(t) = IF 1 <= m THEN m - 1 + 1 ELSE 0
          /\ \A k \in 1 .. m - 1 + 1 : t[k] = s[1 + k - 1]
      BY <1>1, <1>3, <1>4, <2>1, SubSeqProperties
    <2> QED
      BY <1>1, <1>3, <2>2
  <1>6. ~(config.limit < n) => t = s
    BY <1>3, <1>4, SubSeqFull DEF n
  <1> QED
    BY <1>3, <1>5, <1>6 DEF m, n, t

(* The first volumes of a list; all of them, if the limit allows it.       *)
LEMMA CutFacts ==
    ASSUME NEW S, NEW s \in Seq(S), config.limit \in Nat
    PROVE  /\ Cut(s) \in Seq(S)
           /\ IsInjective(s) => IsInjective(Cut(s))
           /\ ~(config.limit < Len(s)) => Cut(s) = s
  <1> DEFINE n == Len(s)
             t == Cut(s)
  <1>1. /\ t \in Seq(S) /\ Len(t) \in 0 .. n
        /\ ~(config.limit < n) => t = s
        /\ \A k \in 1 .. Len(t) : t[k] = s[k]
    BY CutPlaces
  <1>2. n \in Nat /\ DOMAIN s = 1 .. n /\ DOMAIN t = 1 .. Len(t)
    BY <1>1, Members
  <1> HIDE DEF t, n
  <1>3. IsInjective(s) => IsInjective(t)
    BY <1>1, <1>2 DEF IsInjective
  <1> QED
    BY <1>1, <1>3 DEF n, t

-----------------------------------------------------------------------------
(* What the run knows.                                                     *)

(* A sequence whose members are all in a set.                              *)
LEMMA SeqOver ==
    ASSUME NEW S, NEW s \in Seq(S), NEW T, \A k \in 1 .. Len(s) : s[k] \in T
    PROVE  s \in Seq(T)
  <1>1. Len(s) \in Nat /\ s \in [1 .. Len(s) -> S]
    BY LenProperties
  <1>2. s \in [1 .. Len(s) -> T]
    BY <1>1
  <1> QED
    BY <1>1, <1>2

(* What is listed or planned exists.                                       *)
LEMMA ActiveExists == ASSUME ChainOK PROVE active \in Seq(Created)
  <1>1. \A k \in 1 .. Len(active) : active[k] \in Created
    <2> SUFFICES ASSUME NEW k \in 1 .. Len(active)
                 PROVE  active[k] \in Created
      OBVIOUS
    <2>1. active[k] \in ToSet(active) /\ active[k] \in Volumes
      BY Members DEF ChainOK
    <2>2. state[active[k]] \in Needs
      BY <2>1 DEF ChainOK
    <2> QED
      BY <2>1, <2>2 DEF Created, Needs
  <1> QED
    BY <1>1, SeqOver DEF ChainOK

(* A run stays in order when volumes are created.                          *)
LEMMA MoreExist ==
    ASSUME NEW r, NEW mode, NEW known, NEW more, known \subseteq more,
           RunOK(r, mode, known)
    PROVE  RunOK(r, mode, more)
  <1>1. /\ r.pinned \in Seq(known) /\ r.ids \in Seq(known) /\ r.plan \in Seq(known)
    BY DEF RunOK
  <1>2. /\ r.pinned \in Seq(more) /\ r.ids \in Seq(more) /\ r.plan \in Seq(more)
    BY <1>1, SeqMonotonic
  <1> QED
    BY <1>2 DEF RunOK

(* The fields of a run.                                                    *)
LEMMA Fields ==
    ASSUME NEW r \in Run
    PROVE  /\ r.pc \in {"idle", "listing", "next", "send", "wait"}
           /\ r.pinned \in Seq(Volumes) /\ r.ids \in Seq(Volumes) /\ r.plan \in Seq(Volumes)
           /\ r.page \in Nat /\ r.i \in Nat \ {0}
           /\ r.nonce \in -1 .. MaxPool \cup {NoNonce}
           /\ r.own \in 0 .. MaxPool \cup {NoNonce}
           /\ r.receipt \in {"none", "reverted", "noop", "toppedUp", "topupSkipped", "retired"}
           /\ r.warned \in BOOLEAN /\ r.failed \in BOOLEAN
  BY DEF Run

(* A run that reads on.                                                    *)
LEMMA ReadOn ==
    ASSUME NEW r \in Run, NEW q \in Seq(Volumes)
    PROVE  /\ [r EXCEPT !.page = @ + 1, !.ids = q] \in Run
           /\ [r EXCEPT !.page = @ + 1, !.warned = TRUE] \in Run
  <1>1. r.page + 1 \in Nat
    BY Fields
  <1> QED
    BY <1>1 DEF Run

(* Between runs there is nothing to know.                                  *)
LEMMA IdleOK == ASSUME NEW mode, NEW known PROVE RunOK(Idle, mode, known)
  <1>1. << >> \in Seq(Volumes) /\ << >> \in Seq(known) /\ Len(<< >>) = 0
    BY EmptySeq
  <1>2. Idle \in Run
    BY <1>1 DEF Idle, Run
  <1>3. IsInjective(<< >>)
    BY DEF IsInjective
  <1> QED
    BY <1>1, <1>2, <1>3 DEF RunOK, Idle

(* The first step pins the list.                                           *)
LEMMA BeginOK ==
    ASSUME ChainOK, NEW mode, NEW t, t = [Idle EXCEPT !.pc = "listing", !.pinned = active]
    PROVE  RunOK(t, mode, Created)
  <1>1. << >> \in Seq(Volumes) /\ << >> \in Seq(Created) /\ Len(<< >>) = 0
    BY EmptySeq
  <1>2. /\ t.pc = "listing" /\ t.pinned = active /\ t.page = 0 /\ t.ids = << >>
        /\ t.plan = << >> /\ t.i = 1 /\ t.own = NoNonce /\ t.receipt = "none"
    BY DEF Idle
  <1>3. t \in Run
    <2>1. Idle \in Run
      BY IdleOK DEF RunOK
    <2>2. [Idle EXCEPT !.pc = "listing", !.pinned = active] \in Run
      BY <2>1 DEF Run, ChainOK
    <2> QED
      BY <2>2
  <1>4. IsInjective(<< >>)
    BY DEF IsInjective
  <1>5. ListedOK(t, mode)
    <2>1. 0 * PageSize = 0 /\ Len(active) \in Nat
      BY Members, KeeperAssumption DEF ChainOK
    <2>2. Min({0 * PageSize, Len(active)}) = 0
      BY <2>1, MinOfTwo
    <2>3. SubSeq(active, 1, 0) = << >>
      BY SubSeqEmpty
    <2>4. t.ids = SubSeq(t.pinned, 1, Min({t.page * PageSize, Len(t.pinned)}))
      BY <1>2, <2>2, <2>3
    <2>5. \A k \in 1 .. t.page : FALSE
      BY <1>2
    <2> QED
      BY <2>4, <2>5 DEF ListedOK
  <1>6. active \in Seq(Created)
    BY ActiveExists
  <1>7. IsInjective(active)
    BY DEF ChainOK
  <1>8. t.i <= Len(t.plan) + 1
    BY <1>1, <1>2
  <1> QED
    BY <1>1, <1>2, <1>3, <1>4, <1>5, <1>6, <1>7, <1>8 DEF RunOK

(* The pages of one block line up.                                         *)
LEMMA PageOK ==
    ASSUME NEW r, NEW known, RunOK(r, "all", known), r.pc = "listing",
           r.page < (Len(r.pinned) + PageSize - 1) \div PageSize,
           NEW t, t = [r EXCEPT !.page = @ + 1, !.ids = @ \o PageOf(r.pinned, r.page)]
    PROVE  RunOK(t, "all", known)
  <1> DEFINE n == Len(r.pinned)
             k == r.page * PageSize
             m == Min({(r.page + 1) * PageSize, n})
             page == PageOf(r.pinned, r.page)
  <1>1. /\ r \in Run /\ r.page \in Nat /\ PageSize \in Nat \ {0}
        /\ r.pinned \in Seq(known) /\ r.ids \in Seq(known)
        /\ r.pinned \in Seq(Volumes) /\ r.ids \in Seq(Volumes)
    BY Fields, KeeperAssumption DEF RunOK
  <1>2. n \in Nat
    BY <1>1, LenProperties
  <1>3. k \in Nat /\ k < n /\ (r.page + 1) * PageSize = k + PageSize
    <2>1. k < n
      BY <1>1, <1>2, PagesSuffice
    <2> QED
      BY <1>1, <2>1, SMT
  <1>4. m = Min({k + PageSize, n})
    BY <1>3
  <1>5. page = SubSeq(r.pinned, k + 1, m)
    BY DEF PageOf
  <1>6. r.ids = SubSeq(r.pinned, 1, Min({k, n}))
    BY DEF RunOK, ListedOK
  <1>14. t = [r EXCEPT !.page = @ + 1, !.ids = r.ids \o page]
    OBVIOUS
  <1> DEFINE hi == k + PageSize
  <1>15. hi \in Int /\ k <= hi /\ m = Min({hi, n})
    BY <1>1, <1>3, <1>4
  <1> HIDE DEF n, k, m, page, hi
  <1>13. m \in k .. n /\ Min({k, n}) = k
    <2>1. m = IF hi <= n THEN hi ELSE n
      BY <1>2, <1>15, MinOfTwo
    <2>2. Min({k, n}) = IF k <= n THEN k ELSE n
      BY <1>2, <1>3, MinOfTwo
    <2> QED
      BY <1>2, <1>3, <1>15, <2>1, <2>2
  <1>7. r.ids \o page = SubSeq(r.pinned, 1, m)
    <2>1. 1 \in 1 .. Len(r.pinned) + 1 /\ k \in 1 - 1 .. Len(r.pinned) /\ m \in k .. Len(r.pinned)
      BY <1>2, <1>3, <1>13 DEF n
    <2>2. r.pinned \in Seq(known)
      BY <1>1
    <2>3. SubSeq(r.pinned, 1, k) \o SubSeq(r.pinned, k + 1, m) = SubSeq(r.pinned, 1, m)
      BY <2>1, <2>2, ConcatAdjacentSubSeq
    <2> QED
      BY <1>5, <1>6, <1>13, <2>3
  <1>8. page \in Seq(known) /\ page \in Seq(Volumes)
    <2>1. \A j \in k + 1 .. m : r.pinned[j] \in known /\ r.pinned[j] \in Volumes
      <3> SUFFICES ASSUME NEW j \in k + 1 .. m
                   PROVE  r.pinned[j] \in known /\ r.pinned[j] \in Volumes
        OBVIOUS
      <3>1. j \in 1 .. Len(r.pinned)
        BY <1>2, <1>3, <1>13 DEF n
      <3> QED
        BY <1>1, <3>1, ElementOfSeq
    <2>2. k + 1 \in Int /\ m \in Int
      BY <1>2, <1>3, <1>13
    <2> QED
      BY <1>5, <2>1, <2>2, SubSeqProperties
  <1>9. r.ids \o page \in Seq(known) /\ r.ids \o page \in Seq(Volumes)
    BY <1>1, <1>8, ConcatProperties
  <1>10. /\ t.pc = r.pc /\ t.pinned = r.pinned /\ t.page = r.page + 1
         /\ t.ids = r.ids \o page /\ t.plan = r.plan /\ t.i = r.i
         /\ t.own = r.own /\ t.receipt = r.receipt
    BY <1>1, <1>14 DEF Run
  <1>11. t \in Run
    <2>1. PICK q \in Seq(Volumes) : q = r.ids \o page
      BY <1>9
    <2>2. [r EXCEPT !.page = @ + 1, !.ids = q] \in Run
      BY <1>1, ReadOn
    <2> QED
      BY <1>14, <2>1, <2>2
  <1>12. ListedOK(t, "all")
    BY <1>7, <1>10 DEF ListedOK, m, n
  <1> QED
    BY <1>9, <1>10, <1>11, <1>12 DEF RunOK

(* A record of a selected volume is listed or warned about.                *)
LEMMA SelectedOK ==
    ASSUME NEW r, NEW known, RunOK(r, "selected", known), r.pc = "listing",
           r.page < Len(Selected), NEW t,
           LET v == Selected[r.page + 1]
           IN  t = IF v \in ToSet(r.pinned)
                   THEN [r EXCEPT !.page = @ + 1, !.ids = Append(@, v)]
                   ELSE [r EXCEPT !.page = @ + 1, !.warned = TRUE]
    PROVE  RunOK(t, "selected", known)
  <1> DEFINE v == Selected[r.page + 1]
  <1>1. /\ r \in Run /\ r.page \in Nat
        /\ r.pinned \in Seq(known) /\ r.ids \in Seq(known) /\ r.ids \in Seq(Volumes)
        /\ r.pinned \in Seq(Volumes)
    BY Fields DEF RunOK
  <1>2. CASE v \in ToSet(r.pinned)
    <2>1. v \in known /\ v \in Volumes
      BY <1>1, <1>2, Members
    <2>2. t = [r EXCEPT !.page = @ + 1, !.ids = Append(r.ids, v)]
      BY <1>2
    <2> HIDE DEF v
    <2>3. /\ Append(r.ids, v) \in Seq(known) /\ Append(r.ids, v) \in Seq(Volumes)
          /\ Len(Append(r.ids, v)) = Len(r.ids) + 1
          /\ \A k \in 1 .. Len(r.ids) : Append(r.ids, v)[k] = r.ids[k]
          /\ Append(r.ids, v)[Len(r.ids) + 1] = v
      BY <1>1, <2>1, AppendProperties
    <2>4. /\ t.pc = r.pc /\ t.pinned = r.pinned /\ t.page = r.page + 1
          /\ t.ids = Append(r.ids, v) /\ t.plan = r.plan /\ t.i = r.i
          /\ t.own = r.own /\ t.receipt = r.receipt /\ t.warned = r.warned
      BY <1>1, <2>2 DEF Run
    <2>5. t \in Run
      <3>1. r \in Run /\ Append(r.ids, v) \in Seq(Volumes)
        BY <1>1, <2>3
      <3>2. [r EXCEPT !.page = @ + 1, !.ids = Append(r.ids, v)] \in Run
        BY <3>1, ReadOn
      <3> QED
        BY <2>2, <3>2
    <2>6. v \in ToSet(t.ids) /\ ToSet(r.ids) \subseteq ToSet(t.ids)
      <3>1. /\ ToSet(r.ids) = {r.ids[k] : k \in 1 .. Len(r.ids)} /\ Len(r.ids) \in Nat
            /\ ToSet(t.ids) = {t.ids[k] : k \in 1 .. Len(r.ids) + 1}
        <4>1. ToSet(r.ids) = {r.ids[k] : k \in 1 .. Len(r.ids)} /\ Len(r.ids) \in Nat
          BY <1>1, Members
        <4>2. t.ids \in Seq(Volumes) /\ Len(t.ids) = Len(r.ids) + 1
          BY <2>3, <2>4
        <4>3. ToSet(t.ids) = {t.ids[k] : k \in 1 .. Len(t.ids)}
          BY <4>2, Members
        <4> QED
          BY <4>1, <4>2, <4>3
      <3>2. Len(r.ids) + 1 \in 1 .. Len(r.ids) + 1
        BY <3>1
      <3> QED
        BY <2>3, <2>4, <3>1, <3>2
    <2>7. ListedOK(t, "selected")
      <3> SUFFICES ASSUME ~t.warned, NEW k \in 1 .. t.page, k \in 1 .. Len(Selected)
                   PROVE  Selected[k] \in ToSet(t.ids)
        BY DEF ListedOK
      <3>1. CASE k = r.page + 1
        BY <2>6, <3>1 DEF v
      <3>2. CASE k # r.page + 1
        <4>1. k \in 1 .. r.page
          BY <1>1, <2>4, <3>2
        <4> QED
          BY <2>4, <2>6, <4>1 DEF RunOK, ListedOK
      <3> QED
        BY <3>1, <3>2
    <2> QED
      BY <2>3, <2>4, <2>5, <2>7 DEF RunOK
  <1>3. CASE v \notin ToSet(r.pinned)
    <2>1. t = [r EXCEPT !.page = @ + 1, !.warned = TRUE]
      BY <1>3
    <2>2. /\ t.pc = r.pc /\ t.pinned = r.pinned /\ t.ids = r.ids /\ t.plan = r.plan
          /\ t.i = r.i /\ t.own = r.own /\ t.receipt = r.receipt /\ t.warned
      BY <1>1, <2>1 DEF Run
    <2>3. t \in Run
      BY <1>1, <2>1, EmptySeq, ReadOn
    <2>4. ListedOK(t, "selected")
      BY <2>2 DEF ListedOK
    <2> QED
      BY <2>2, <2>3, <2>4 DEF RunOK
  <1> QED
    BY <1>2, <1>3

(* All pages together are the pinned list.                                 *)
LEMMA ListedAll ==
    ASSUME NEW r, NEW known, RunOK(r, "all", known), r.pc = "listing",
           r.page = (Len(r.pinned) + PageSize - 1) \div PageSize
    PROVE  r.ids = r.pinned
  <1> DEFINE n == Len(r.pinned)
             k == r.page * PageSize
  <1>1. /\ r.page \in Nat /\ PageSize \in Nat \ {0}
        /\ r.pinned \in Seq(known)
    BY Fields, KeeperAssumption DEF RunOK
  <1>2. n \in Nat
    BY <1>1, LenProperties
  <1>3. k \in Int /\ n <= k
    <2>1. r.page * PageSize >= n
      BY <1>1, <1>2, PagesSuffice
    <2>2. r.page * PageSize \in Nat
      BY <1>1, ProductNat
    <2> QED
      BY <1>2, <2>1, <2>2
  <1>4. r.ids = SubSeq(r.pinned, 1, Min({k, n}))
    BY DEF RunOK, ListedOK
  <1> HIDE DEF k
  <1>5. Min({k, n}) = n
    <2>1. Min({k, n}) = IF k <= n THEN k ELSE n
      BY <1>2, <1>3, MinOfTwo
    <2> QED
      BY <1>2, <1>3, <2>1
  <1> QED
    BY <1>1, <1>4, <1>5, SubSeqFull

(* With the plan the list is complete: of the volumes that the run answers *)
(* for it has all, or it has warned.                                       *)
LEMMA ListedDue ==
    ASSUME NEW r, NEW mode \in {"all", "selected"}, NEW known,
           RunOK(r, mode, known), r.pc = "listing", ~r.warned,
           r.page = IF mode = "all" THEN (Len(r.pinned) + PageSize - 1) \div PageSize
                                    ELSE Len(Selected)
    PROVE  DueOf(r, mode) \subseteq ToSet(r.ids)
  <1>1. CASE mode = "all"
    <2>1. r.ids = r.pinned
      BY <1>1, ListedAll
    <2> QED
      BY <1>1, <2>1 DEF DueOf
  <1>2. CASE mode = "selected"
    <2>1. \A k \in 1 .. Len(Selected) : Selected[k] \in ToSet(r.ids)
      BY <1>2 DEF RunOK, ListedOK
    <2>2. ToSet(Selected) = {Selected[k] : k \in 1 .. Len(Selected)}
      BY Members, KeeperAssumption
    <2> QED
      BY <1>2, <2>1, <2>2 DEF DueOf
  <1> QED
    BY <1>1, <1>2

(* The run looks for a nonce.                                              *)
LEMMA ReadSendingOK ==
    ASSUME NEW r, NEW mode, NEW known, RunOK(r, mode, known), r.pc = "next",
           r.i <= Len(r.plan), NEW n \in 0 .. MaxPool,
           NEW t, t = [r EXCEPT !.pc = "send", !.nonce = n]
    PROVE  /\ RunOK(t, mode, known)
           /\ t.pc = "send" /\ t.i = r.i /\ t.plan = r.plan /\ t.pinned = r.pinned
           /\ t.warned = r.warned /\ t.failed = r.failed
  <1>1. r \in Run /\ MaxPool \in Nat
    BY KeeperAssumption DEF RunOK
  <1>2. n \in -1 .. MaxPool
    BY <1>1
  <1>3. t \in Run
    BY <1>1, <1>2 DEF Run
  <1>4. /\ t.pc = "send" /\ t.pinned = r.pinned /\ t.ids = r.ids /\ t.plan = r.plan
        /\ t.i = r.i /\ t.own = r.own /\ t.receipt = r.receipt
        /\ t.warned = r.warned /\ t.failed = r.failed
    BY <1>1 DEF Run
  <1> QED
    BY <1>3, <1>4 DEF RunOK

(* The run has sent a transaction and waits for it.                        *)
LEMMA SendOK ==
    ASSUME NEW r, NEW mode, NEW known, RunOK(r, mode, known),
           r.pc \in {"next", "send"}, r.i <= Len(r.plan), r.nonce \in 0 .. MaxPool - 1,
           NEW t, t = [r EXCEPT !.pc = "wait", !.own = r.nonce, !.nonce = @ + 1]
    PROVE  /\ RunOK(t, mode, known)
           /\ t.pc = "wait" /\ t.i = r.i /\ t.plan = r.plan /\ t.pinned = r.pinned
           /\ t.warned = r.warned /\ t.failed = r.failed
           /\ t.own = r.nonce /\ t.receipt = "none"
  <1>1. r \in Run /\ MaxPool \in Nat /\ NoNonce \notin Int
    BY KeeperAssumption DEF RunOK
  <1>2. r.nonce + 1 \in -1 .. MaxPool /\ r.nonce \in 0 .. MaxPool /\ r.nonce # NoNonce
    BY <1>1
  <1>3. t \in Run
    BY <1>1, <1>2 DEF Run
  <1>4. /\ t.pc = "wait" /\ t.pinned = r.pinned /\ t.ids = r.ids /\ t.plan = r.plan
        /\ t.i = r.i /\ t.own = r.nonce /\ t.receipt = r.receipt
        /\ t.warned = r.warned /\ t.failed = r.failed
    BY <1>1 DEF Run
  <1> QED
    BY <1>2, <1>3, <1>4 DEF RunOK

(* The run gives up on a volume.                                           *)
LEMMA FailedOK ==
    ASSUME NEW r, NEW mode, NEW known, RunOK(r, mode, known),
           r.pc \in {"next", "send", "wait"}, r.i <= Len(r.plan),
           NEW t, t = Failed(r)
    PROVE  /\ RunOK(t, mode, known)
           /\ t.pc = "next" /\ t.plan = r.plan /\ t.pinned = r.pinned
           /\ t.warned = r.warned /\ t.failed
  <1>1. r \in Run /\ r.i \in Nat \ {0} /\ Len(r.plan) \in Nat
    BY Fields, LenProperties DEF RunOK
  <1>2. r.i + 1 \in Nat \ {0} /\ r.i + 1 <= Len(r.plan) + 1
    BY <1>1
  <1>3. t \in Run
    BY <1>1, <1>2 DEF Run, Failed
  <1>4. /\ t.pc = "next" /\ t.pinned = r.pinned /\ t.ids = r.ids /\ t.plan = r.plan
        /\ t.i = r.i + 1 /\ t.own = NoNonce /\ t.receipt = "none"
        /\ t.warned = r.warned /\ t.failed
    BY <1>1 DEF Run, Failed
  <1> QED
    BY <1>2, <1>3, <1>4 DEF RunOK

-----------------------------------------------------------------------------
(* The chain and the wallet.                                               *)

(* An execution changes the list as the contract does and creates nothing. *)
LEMMA ExecuteChain ==
    ASSUME ChainOK, NEW v \in Created, Execute(v)
    PROVE  ChainOK' /\ Created' = Created
  <1>1. v \in Volumes /\ state[v] # "none"
    BY DEF Created
  <1>2. /\ state' = [state EXCEPT ![v] = CASE @ = "deficit" -> "healthy"
                                           [] @ = "dying"   -> "retired"
                                           [] OTHER         -> @]
        /\ active' = IF state[v] = "dying" THEN SwapAndPop(v) ELSE active
    BY DEF Execute
  <1>3. /\ state' \in [Volumes -> Needs \cup {"none", "retired"}]
        /\ \A w \in Volumes \ {v} : state'[w] = state[w]
        /\ state[v] = "dying" => state'[v] = "retired"
        /\ state[v] = "deficit" => state'[v] = "healthy"
        /\ state[v] \notin {"dying", "deficit"} => state'[v] = state[v]
    BY <1>1, <1>2 DEF ChainOK, Needs
  <1>4. Created' = Created
    BY <1>1, <1>3 DEF Created
  <1>5. CASE state[v] = "dying"
    <2>1. v \in ToSet(active)
      BY <1>1, <1>5 DEF ChainOK, Needs
    <2>2. /\ active' \in Seq(Volumes) /\ IsInjective(active')
          /\ ToSet(active') = ToSet(active) \ {v}
      BY <1>2, <1>5, <2>1, SwapAndPopFacts DEF ChainOK
    <2>3. \A w \in Volumes : state'[w] \in Needs <=> w \in ToSet(active')
      BY <1>1, <1>3, <1>5, <2>2 DEF ChainOK, Needs
    <2> QED
      BY <1>3, <1>4, <2>2, <2>3 DEF ChainOK
  <1>6. CASE state[v] # "dying"
    <2>1. active' = active
      BY <1>2, <1>6
    <2>2. \A w \in Volumes : state'[w] \in Needs <=> state[w] \in Needs
      BY <1>1, <1>3, <1>6 DEF Needs
    <2> QED
      BY <1>3, <1>4, <2>1, <2>2 DEF ChainOK
  <1> QED
    BY <1>5, <1>6

(* Others create, change and retire volumes; none ever ceases to exist.    *)
LEMMA OthersChain ==
    ASSUME ChainOK, NEW v \in Volumes, Create(v) \/ Change(v) \/ RetiredByOthers(v)
    PROVE  ChainOK' /\ Created \subseteq Created'
  <1>1. CASE Create(v)
    <2>1. PICK need \in Needs : state' = [state EXCEPT ![v] = need]
      BY <1>1 DEF Create
    <2>2. state[v] = "none" /\ active' = Append(active, v)
      BY <1>1 DEF Create
    <2>3. /\ state' \in [Volumes -> Needs \cup {"none", "retired"}]
          /\ state'[v] = need /\ \A w \in Volumes \ {v} : state'[w] = state[w]
      BY <2>1 DEF ChainOK
    <2>4. Created \subseteq Created'
      BY <2>3 DEF Created, Needs
    <2>5. PICK t : t = Append(active, v)
      OBVIOUS
    <2>6. /\ t \in Seq(Volumes) /\ Len(t) = Len(active) + 1 /\ Len(active) \in Nat
          /\ \A k \in 1 .. Len(active) : t[k] = active[k]
          /\ t[Len(active) + 1] = v
      BY <2>5, AppendProperties, LenProperties DEF ChainOK
    <2>7. v \notin ToSet(active)
      BY <2>2 DEF ChainOK, Needs
    <2>8. /\ ToSet(active) = {active[k] : k \in 1 .. Len(active)}
          /\ DOMAIN active = 1 .. Len(active)
      BY Members DEF ChainOK
    <2>9. DOMAIN t = 1 .. Len(active) + 1 /\ ToSet(t) = {t[k] : k \in 1 .. Len(active) + 1}
      <3>1. DOMAIN t = 1 .. Len(t) /\ ToSet(t) = {t[k] : k \in 1 .. Len(t)}
        BY <2>6, Members
      <3> QED
        BY <2>6, <3>1
    <2>10. IsInjective(t)
      BY <2>6, <2>7, <2>8, <2>9 DEF IsInjective, ChainOK
    <2>11. ToSet(t) = ToSet(active) \cup {v}
      BY <2>6, <2>8, <2>9
    <2>12. \A w \in Volumes : state'[w] \in Needs <=> w \in ToSet(t)
      BY <2>3, <2>11 DEF ChainOK
    <2> QED
      BY <2>2, <2>3, <2>4, <2>5, <2>6, <2>10, <2>12 DEF ChainOK
  <1>2. CASE Change(v)
    <2>1. PICK need \in Needs : state' = [state EXCEPT ![v] = need]
      BY <1>2 DEF Change
    <2>2. state[v] \in Needs /\ active' = active
      BY <1>2 DEF Change
    <2> QED
      BY <2>1, <2>2 DEF ChainOK, Created, Needs
  <1>3. CASE RetiredByOthers(v)
    <2>1. /\ state[v] \in Needs /\ state' = [state EXCEPT ![v] = "retired"]
          /\ active' = SwapAndPop(v)
      BY <1>3 DEF RetiredByOthers
    <2>2. /\ state' \in [Volumes -> Needs \cup {"none", "retired"}]
          /\ state'[v] = "retired" /\ \A w \in Volumes \ {v} : state'[w] = state[w]
      BY <2>1 DEF ChainOK
    <2>3. /\ active' \in Seq(Volumes) /\ IsInjective(active')
          /\ ToSet(active') = ToSet(active) \ {v}
      BY <2>1, SwapAndPopFacts DEF ChainOK
    <2>4. \A w \in Volumes : state'[w] \in Needs <=> w \in ToSet(active')
      BY <2>2, <2>3 DEF ChainOK, Needs
    <2>5. Created \subseteq Created'
      BY <2>2 DEF Created
    <2> QED
      BY <2>2, <2>3, <2>4, <2>5 DEF ChainOK
  <1> QED
    BY <1>1, <1>2, <1>3

(* Mining lowers the nonces of what remains pending.                       *)
LEMMA ShiftedFacts ==
    ASSUME NEW known, NEW txs, txs \subseteq [nonce : 0 .. MaxPool - 1, vol : known],
           NEW u \in Shifted(txs)
    PROVE  /\ u \in [nonce : 0 .. MaxPool - 1, vol : known]
           /\ [u EXCEPT !.nonce = @ + 1] \in txs
  <1>1. PICK tx \in txs : tx.nonce > 0 /\ u = [tx EXCEPT !.nonce = @ - 1]
    BY DEF Shifted
  <1>2. /\ tx \in [nonce : 0 .. MaxPool - 1, vol : known] /\ MaxPool \in Nat
        /\ tx.nonce \in 0 .. MaxPool - 1
    BY KeeperAssumption
  <1>3. tx.nonce - 1 \in 0 .. MaxPool - 1 /\ tx.nonce - 1 + 1 = tx.nonce
    BY <1>1, <1>2
  <1>4. u \in [nonce : 0 .. MaxPool - 1, vol : known] /\ u.nonce = tx.nonce - 1 /\ u.vol = tx.vol
    BY <1>1, <1>2, <1>3
  <1>5. [u EXCEPT !.nonce = @ + 1] = tx
    BY <1>2, <1>3, <1>4
  <1> QED
    BY <1>4, <1>5

(* Broadcasting replaces what had the nonce, and adds one of a volume that *)
(* exists.                                                                 *)
LEMMA BroadcastWallet ==
    ASSUME NEW known, WalletOK(known), Current \in known, Broadcast
    PROVE  /\ pool' \cup lost' \subseteq [nonce : 0 .. MaxPool - 1, vol : known]
           /\ \A t, u \in pool' : t.nonce = u.nonce => t = u
           /\ \A tx \in pool' : tx.nonce = run.nonce => tx.vol = Current
           /\ ~Forgets => lost' = lost
  <1> DEFINE replaced == {tx \in pool : tx.nonce = run.nonce}
             new      == [nonce |-> run.nonce, vol |-> Current]
  <1>1. /\ run.nonce \in 0 .. MaxPool - 1
        /\ pool' = (pool \ replaced) \cup {new}
        /\ lost' = IF Forgets THEN lost \cup replaced ELSE lost
    BY DEF Broadcast
  <1>2. /\ new \in [nonce : 0 .. MaxPool - 1, vol : known]
        /\ new.nonce = run.nonce /\ new.vol = Current
    BY <1>1
  <1>3. \A tx \in pool \ replaced : tx.nonce # run.nonce
    OBVIOUS
  <1> HIDE DEF new
  <1> QED
    BY <1>1, <1>2, <1>3 DEF WalletOK

-----------------------------------------------------------------------------
(* Types.                                                                  *)

(* A step of the run alone.                                                *)
LEMMA RunMoves ==
    ASSUME KeeperInv, UNCHANGED <<chainVars, pool, lost, config>>,
           RunOK(run', config.mode, Created), report' \in Reports, served' \subseteq Volumes
    PROVE  KeeperInv'
  <1>1. ChainOK' /\ Created' = Created
    BY DEF KeeperInv, ChainOK, Created, chainVars
  <1>2. WalletOK(Created)'
    BY <1>1 DEF KeeperInv, WalletOK
  <1>3. RunOK(run', config'.mode, Created')
    BY <1>1
  <1> QED
    BY <1>1, <1>2, <1>3 DEF KeeperInv

(* A run ends.                                                             *)
LEMMA FinishStep ==
    ASSUME KeeperInv, NEW r, Finish(r)
    PROVE  KeeperInv'
  <1> DEFINE done == Listed \subseteq served
  <1>1. /\ report' = [status |-> IF r.failed THEN "failure"
                                 ELSE IF r.warned THEN "warning" ELSE "ok",
                      maintained |-> done]
        /\ run' = Idle /\ served' = {}
        /\ UNCHANGED <<chainVars, pool, lost, config>>
    BY DEF Finish
  <1>2. done \in BOOLEAN
    OBVIOUS
  <1> HIDE DEF done
  <1>3. report' \in Reports
    BY <1>1, <1>2 DEF Reports
  <1>4. RunOK(run', config.mode, Created)
    BY <1>1, IdleOK
  <1> QED
    BY <1>1, <1>3, <1>4, RunMoves

(* Listing.                                                                *)
LEMMA ListingStep ==
    ASSUME KeeperInv, Begin \/ ReadPage \/ ReadSelected
    PROVE  KeeperInv'
  <1>1. /\ ChainOK /\ RunOK(run, config.mode, Created)
        /\ served \subseteq Volumes /\ report \in Reports
    BY DEF KeeperInv
  <1>2. CASE Begin
    <2>1. RunOK(run', config.mode, Created)
      BY <1>1, <1>2, BeginOK DEF Begin
    <2>2. NoReport \in Reports
      BY DEF NoReport, Reports
    <2> QED
      BY <1>1, <1>2, <2>1, <2>2, RunMoves DEF Begin
  <1>3. CASE ReadPage
    <2>1. /\ run.pc = "listing" /\ config.mode = "all"
          /\ run.page < (Len(run.pinned) + PageSize - 1) \div PageSize
          /\ run' = [run EXCEPT !.page = @ + 1, !.ids = @ \o PageOf(run.pinned, run.page)]
      BY <1>3 DEF ReadPage, Pages
    <2>2. RunOK(run', config.mode, Created)
      BY <1>1, <2>1, PageOK
    <2> QED
      BY <1>1, <1>3, <2>2, RunMoves DEF ReadPage
  <1>4. CASE ReadSelected
    <2>1. /\ run.pc = "listing" /\ config.mode = "selected" /\ run.page < Len(Selected)
          /\ LET v == Selected[run.page + 1]
             IN  run' = IF v \in ToSet(run.pinned)
                        THEN [run EXCEPT !.page = @ + 1, !.ids = Append(@, v)]
                        ELSE [run EXCEPT !.page = @ + 1, !.warned = TRUE]
      BY <1>4 DEF ReadSelected, Pages
    <2>2. RunOK(run, "selected", Created)
      BY <1>1, <2>1
    <2>3. RunOK(run', "selected", Created)
      BY <2>1, <2>2, SelectedOK
    <2>4. RunOK(run', config.mode, Created)
      BY <2>1, <2>3
    <2> QED
      BY <1>1, <1>4, <2>4, RunMoves DEF ReadSelected
  <1> QED
    BY <1>2, <1>3, <1>4

(* What planning does to the run.                                          *)
LEMMA PlanRun ==
    ASSUME KeeperInv, NEW start \in 0 .. Len(run.ids) - 1, Plan(start)
    PROVE  /\ RunOK(run', config.mode, Created)
           /\ run'.pc = "next" /\ run'.i = 1 /\ run'.pinned = run.pinned
           /\ ~run'.warned => ~run.warned /\ ToSet(run'.plan) = ToSet(run.ids)
           /\ run.pc = "listing"
           /\ run.page = IF config.mode = "all"
                         THEN (Len(run.pinned) + PageSize - 1) \div PageSize
                         ELSE Len(Selected)
  <1> DEFINE rot  == Rotated(run.ids, start)
             plan == Cut(rot)
  <1>1. /\ run.pc = "listing"
        /\ run.page = IF config.mode = "all"
                      THEN (Len(run.pinned) + PageSize - 1) \div PageSize
                      ELSE Len(Selected)
        /\ run' = [run EXCEPT !.pc = "next", !.ids = << >>, !.page = 0, !.plan = plan,
                              !.warned = @ \/ config.limit < Len(run.ids)]
    BY DEF Plan, Pages
  <1>2. /\ RunOK(run, config.mode, Created) /\ config.mode \in {"all", "selected"}
        /\ config.limit \in Nat
    BY KeeperAssumption DEF KeeperInv
  <1>3. /\ run \in Run /\ run.ids \in Seq(Created) /\ run.ids \in Seq(Volumes)
        /\ run.pinned \in Seq(Created) /\ IsInjective(run.pinned)
        /\ run.i = 1 /\ run.own = NoNonce /\ run.receipt = "none"
        /\ run.warned \in BOOLEAN
    BY <1>1, <1>2, Fields DEF RunOK
  <1>4. /\ rot \in Seq(Created) /\ rot \in Seq(Volumes)
        /\ Len(rot) = Len(run.ids) /\ ToSet(rot) = ToSet(run.ids)
        /\ IsInjective(run.ids) => IsInjective(rot)
    BY <1>3, RotatedFacts
  <1> HIDE DEF rot
  <1>5. /\ plan \in Seq(Created) /\ plan \in Seq(Volumes)
        /\ IsInjective(rot) => IsInjective(plan)
        /\ ~(config.limit < Len(rot)) => plan = rot
    BY <1>2, <1>4, CutFacts
  <1>6. config.mode = "all" => IsInjective(plan)
    BY <1>1, <1>2, <1>3, <1>4, <1>5, ListedAll
  <1>7. /\ << >> \in Seq(Created) /\ << >> \in Seq(Volumes)
        /\ Len(plan) \in Nat /\ 1 <= Len(plan) + 1
    BY <1>5, EmptySeq, LenProperties
  <1> HIDE DEF plan
  <1>8. PICK warn \in BOOLEAN :
           /\ warn <=> run.warned \/ config.limit < Len(run.ids)
           /\ run' = [run EXCEPT !.pc = "next", !.ids = << >>, !.page = 0,
                                 !.plan = plan, !.warned = warn]
    BY <1>1, Zenon
  <1>9. /\ run'.pc = "next" /\ run'.pinned = run.pinned /\ run'.ids = << >>
        /\ run'.plan = plan /\ run'.i = 1 /\ run'.own = NoNonce
        /\ run'.receipt = "none" /\ run'.warned = warn
    BY <1>3, <1>8 DEF Run
  <1>10. run' \in Run
    BY <1>3, <1>5, <1>7, <1>8 DEF Run
  <1>11. RunOK(run', config.mode, Created)
    BY <1>3, <1>5, <1>6, <1>7, <1>9, <1>10 DEF RunOK
  <1>12. ~run'.warned => ~run.warned /\ ToSet(run'.plan) = ToSet(run.ids)
    BY <1>4, <1>5, <1>8, <1>9
  <1> QED
    BY <1>1, <1>9, <1>11, <1>12

(* What a receipt does to the run.                                         *)
LEMMA ReceiptRun ==
    ASSUME KeeperInv, Receipt
    PROVE  /\ RunOK(run', config.mode, Created)
           /\ run'.pc = "next" /\ run'.i = run.i + 1
           /\ run'.plan = run.plan /\ run'.pinned = run.pinned
           /\ run'.warned <=> run.warned \/ run.receipt \in {"retired", "topupSkipped"}
           /\ run'.failed <=> run.failed \/ run.receipt = "reverted"
  <1>1. /\ run.pc = "wait" /\ run.receipt # "none"
        /\ run' = [run EXCEPT
                      !.pc = "next", !.i = @ + 1, !.receipt = "none",
                      !.warned = @ \/ run.receipt \in {"retired", "topupSkipped"},
                      !.failed = @ \/ run.receipt = "reverted"]
    BY Zenon DEF Receipt
  <1>2. PICK warn \in BOOLEAN, fail \in BOOLEAN :
           /\ warn <=> run.warned \/ run.receipt \in {"retired", "topupSkipped"}
           /\ fail <=> run.failed \/ run.receipt = "reverted"
           /\ run' = [run EXCEPT !.pc = "next", !.i = @ + 1, !.receipt = "none",
                                 !.warned = warn, !.failed = fail]
    BY <1>1, Zenon
  <1>3. RunOK(run, config.mode, Created)
    BY DEF KeeperInv
  <1>4. /\ run \in Run /\ run.i \in Nat \ {0} /\ Len(run.plan) \in Nat
        /\ run.own = NoNonce /\ run.i <= Len(run.plan)
    BY <1>1, <1>3, Fields, LenProperties DEF RunOK
  <1>5. run.i + 1 \in Nat \ {0} /\ run.i + 1 <= Len(run.plan) + 1
    BY <1>4
  <1>6. run' \in Run
    BY <1>2, <1>4, <1>5 DEF Run
  <1>7. /\ run'.pc = "next" /\ run'.pinned = run.pinned /\ run'.ids = run.ids
        /\ run'.plan = run.plan /\ run'.i = run.i + 1 /\ run'.own = NoNonce
        /\ run'.receipt = "none" /\ run'.warned = warn /\ run'.failed = fail
    BY <1>2, <1>4 DEF Run
  <1>8. RunOK(run', config.mode, Created)
    BY <1>3, <1>4, <1>5, <1>6, <1>7 DEF RunOK
  <1> QED
    BY <1>2, <1>7, <1>8

(* Planning, sending and waiting, as far as the run goes.                  *)
LEMMA WorkStep ==
    ASSUME KeeperInv,
           \/ \E start \in 0 .. Len(run.ids) - 1 : Plan(start)
           \/ ReadSending \/ SendFails \/ Receipt \/ Timeout
    PROVE  KeeperInv'
  <1>1. /\ RunOK(run, config.mode, Created) /\ WalletOK(Created)
        /\ served \subseteq Volumes /\ report \in Reports
    BY DEF KeeperInv
  <1>2. ASSUME NEW start \in 0 .. Len(run.ids) - 1, Plan(start)
        PROVE  KeeperInv'
    <2>1. RunOK(run', config.mode, Created)
      BY <1>2, PlanRun
    <2> QED
      BY <1>1, <1>2, <2>1, RunMoves DEF Plan
  <1>3. CASE ReadSending
    <2>1. PendingNonce \in 0 .. MaxPool
      BY <1>1, PendingNonceExists
    <2>2. RunOK(run', config.mode, Created)
      BY <1>1, <1>3, <2>1, ReadSendingOK DEF ReadSending
    <2> QED
      BY <1>1, <1>3, <2>2, RunMoves DEF ReadSending
  <1>4. CASE SendFails
    <2>1. RunOK(run', config.mode, Created)
      BY <1>1, <1>4, FailedOK DEF SendFails
    <2> QED
      BY <1>1, <1>4, <2>1, RunMoves DEF SendFails
  <1>5. CASE Receipt
    <2>1. RunOK(run', config.mode, Created)
      BY <1>5, ReceiptRun
    <2> QED
      BY <1>1, <1>5, <2>1, RunMoves DEF Receipt
  <1>6. CASE Timeout
    <2>1. run.pc = "wait" /\ run.i <= Len(run.plan)
      BY <1>1, <1>6 DEF Timeout, RunOK
    <2>2. RunOK(run', config.mode, Created)
      BY <1>1, <1>6, <2>1, FailedOK DEF Timeout
    <2> QED
      BY <1>1, <1>6, <2>2, RunMoves DEF Timeout
  <1> QED
    BY <1>2, <1>3, <1>4, <1>5, <1>6

(* A step of the run that also sends.                                      *)
LEMMA BroadcastStep ==
    ASSUME KeeperInv, Broadcast, run.i <= Len(run.plan),
           UNCHANGED <<chainVars, config, report, served>>,
           RunOK(run', config.mode, Created)
    PROVE  KeeperInv'
  <1>1. ChainOK' /\ Created' = Created
    BY DEF KeeperInv, ChainOK, Created, chainVars
  <1>2. Current \in Created
    <2>1. run.plan \in Seq(Created) /\ run.i \in 1 .. Len(run.plan)
      <3>1. run.plan \in Seq(Created) /\ run.i \in Nat \ {0}
        BY Fields DEF KeeperInv, RunOK
      <3> QED
        BY <3>1, LenProperties
    <2> QED
      BY <2>1, ElementOfSeq DEF Current
  <1>3. /\ pool' \cup lost' \subseteq [nonce : 0 .. MaxPool - 1, vol : Created]
        /\ \A t, u \in pool' : t.nonce = u.nonce => t = u
    BY <1>2, BroadcastWallet DEF KeeperInv
  <1>4. WalletOK(Created)'
    BY <1>1, <1>3 DEF WalletOK
  <1>5. RunOK(run', config'.mode, Created')
    BY <1>1
  <1> QED
    BY <1>1, <1>4, <1>5 DEF KeeperInv

(* A transaction is sent, whether or not the run learns of it.             *)
LEMMA SendStep ==
    ASSUME KeeperInv, Send \/ SendThrows
    PROVE  KeeperInv'
  <1>1. RunOK(run, config.mode, Created)
    BY DEF KeeperInv
  <1>2. /\ run.pc \in {"next", "send"} /\ run.i <= Len(run.plan) /\ Broadcast
        /\ UNCHANGED <<chainVars, config, report, served>>
    BY DEF Send, SendThrows, Sending
  <1>3. run.nonce \in 0 .. MaxPool - 1
    BY <1>2 DEF Broadcast
  <1>4. CASE Send
    <2>1. RunOK(run', config.mode, Created)
      BY <1>1, <1>2, <1>3, <1>4, SendOK DEF Send
    <2> QED
      BY <1>2, <2>1, BroadcastStep
  <1>5. CASE SendThrows
    <2>1. RunOK(run', config.mode, Created)
      BY <1>1, <1>2, <1>5, FailedOK DEF SendThrows
    <2> QED
      BY <1>2, <2>1, BroadcastStep
  <1> QED
    BY <1>4, <1>5

(* Nonces are counted from the next one on the chain.                      *)
LEMMA DownFacts ==
    ASSUME NEW n \in -1 .. MaxPool \cup {NoNonce}
    PROVE  /\ Down(n) \in -1 .. MaxPool \cup {NoNonce}
           /\ n \in Nat \ {0} => Down(n) = n - 1
           /\ Down(n) = NoNonce <=> n = NoNonce
  BY KeeperAssumption DEF Down

(* A receipt says what the transaction did.                                *)
LEMMA ReceiptOfFacts ==
    ASSUME ChainOK, NEW tx, tx.vol \in Created, NEW reverts \in BOOLEAN
    PROVE  /\ ReceiptOf(tx, reverts) \in {"reverted", "noop", "toppedUp", "topupSkipped", "retired"}
           /\ tx.vol = Current /\ ReceiptOf(tx, reverts) \in {"noop", "toppedUp"} =>
                 ~reverts /\ state[tx.vol] \in {"healthy", "deficit"}
  <1>1. state[tx.vol] \in {"healthy", "deficit", "unpaid", "dying", "retired"}
    BY DEF ChainOK, Created, Needs
  <1> QED
    BY <1>1 DEF ReceiptOf, Answer

(* What the run sees of a transaction that is mined.                       *)
LEMMA MineRun ==
    ASSUME KeeperInv, NEW tx \in pool \cup lost, NEW reverts \in BOOLEAN, Mine(tx, reverts)
    PROVE  /\ RunOK(run', config.mode, Created)
           /\ run'.pc = run.pc /\ run'.i = run.i /\ run'.plan = run.plan
           /\ run'.pinned = run.pinned /\ run'.warned = run.warned /\ run'.failed = run.failed
           /\ run'.own = IF run.own = 0 THEN NoNonce ELSE Down(run.own)
           /\ run'.receipt = IF run.own = 0 THEN ReceiptOf(tx, reverts) ELSE run.receipt
  <1>1. PICK n, o, a :
           /\ n = Down(run.nonce)
           /\ o = IF run.own = 0 THEN NoNonce ELSE Down(run.own)
           /\ a = IF run.own = 0 THEN ReceiptOf(tx, reverts) ELSE run.receipt
           /\ run' = [run EXCEPT !.nonce = n, !.own = o, !.receipt = a]
    BY DEF Mine
  <1>2. /\ ChainOK /\ RunOK(run, config.mode, Created)
        /\ tx.vol \in Created
    BY DEF KeeperInv, WalletOK
  <1>3. /\ run \in Run
        /\ run.nonce \in -1 .. MaxPool \cup {NoNonce}
        /\ run.own \in 0 .. MaxPool \cup {NoNonce}
        /\ run.receipt \in {"none", "reverted", "noop", "toppedUp", "topupSkipped", "retired"}
    BY <1>2, Fields DEF RunOK
  <1>4. n \in -1 .. MaxPool \cup {NoNonce}
    BY <1>1, <1>3, DownFacts
  <1>5. MaxPool \in Nat /\ NoNonce \notin Int
    BY KeeperAssumption
  <1>6. /\ o \in 0 .. MaxPool \cup {NoNonce}
        /\ run.own = 0 => o = NoNonce
        /\ run.own # 0 => (o = NoNonce <=> run.own = NoNonce)
    <2>1. CASE run.own = NoNonce \/ run.own = 0
      BY <1>1, <1>5, <2>1 DEF Down
    <2>2. CASE run.own # NoNonce /\ run.own # 0
      <3>1. run.own \in Nat \ {0} /\ run.own \in -1 .. MaxPool /\ run.own <= MaxPool
        BY <1>3, <1>5, <2>2
      <3>2. o = run.own - 1
        BY <1>1, <2>2, <3>1, DownFacts
      <3> QED
        BY <1>5, <2>2, <3>1, <3>2
    <2> QED
      BY <2>1, <2>2
  <1>7. /\ a \in {"none", "reverted", "noop", "toppedUp", "topupSkipped", "retired"}
        /\ run.own = 0 => a # "none"
        /\ run.own # 0 => a = run.receipt
    BY <1>1, <1>2, <1>3, ReceiptOfFacts
  <1>8. /\ run'.pc = run.pc /\ run'.pinned = run.pinned /\ run'.page = run.page
        /\ run'.ids = run.ids /\ run'.plan = run.plan /\ run'.i = run.i
        /\ run'.own = o /\ run'.receipt = a
        /\ run'.warned = run.warned /\ run'.failed = run.failed
    BY <1>1, <1>3 DEF Run
  <1>9. run' \in Run
    <2>1. /\ n \in -1 .. MaxPool \cup {NoNonce}
          /\ o \in 0 .. MaxPool \cup {NoNonce}
          /\ a \in {"none", "reverted", "noop", "toppedUp", "topupSkipped", "retired"}
          /\ run \in Run
      BY <1>3, <1>4, <1>6, <1>7
    <2>2. [run EXCEPT !.nonce = n, !.own = o, !.receipt = a] \in Run
      BY <2>1 DEF Run
    <2> QED
      BY <1>1, <2>2
  <1>10. ListedOK(run, config.mode) => ListedOK(run', config.mode)
    BY <1>8 DEF ListedOK
  <1>11. /\ run'.pc # "wait" => run'.own = NoNonce /\ run'.receipt = "none"
         /\ run'.pc = "wait" => (run'.receipt = "none" <=> run'.own # NoNonce)
    BY <1>2, <1>5, <1>6, <1>7, <1>8 DEF RunOK
  <1>12. RunOK(run', config.mode, Created)
    BY <1>2, <1>8, <1>9, <1>10, <1>11 DEF RunOK
  <1> QED
    BY <1>1, <1>8, <1>12

(* The transactions that remain pending.                                   *)
LEMMA ShiftedWallet ==
    ASSUME NEW known, WalletOK(known), pool' = Shifted(pool), lost' = Shifted(lost)
    PROVE  /\ pool' \cup lost' \subseteq [nonce : 0 .. MaxPool - 1, vol : known]
           /\ \A t, u \in pool' : t.nonce = u.nonce => t = u
  <1>1. /\ pool \subseteq [nonce : 0 .. MaxPool - 1, vol : known]
        /\ lost \subseteq [nonce : 0 .. MaxPool - 1, vol : known]
    BY DEF WalletOK
  <1>2. pool' \cup lost' \subseteq [nonce : 0 .. MaxPool - 1, vol : known]
    <2>1. \A u \in pool' : u \in [nonce : 0 .. MaxPool - 1, vol : known]
      BY <1>1, ShiftedFacts
    <2>2. \A u \in lost' : u \in [nonce : 0 .. MaxPool - 1, vol : known]
      BY <1>1, ShiftedFacts
    <2> QED
      BY <2>1, <2>2
  <1>3. ASSUME NEW t \in pool', NEW u \in pool', t.nonce = u.nonce
        PROVE  t = u
    <2>1. PICK x \in pool : x.nonce > 0 /\ t = [x EXCEPT !.nonce = @ - 1]
      BY DEF Shifted
    <2>2. PICK y \in pool : y.nonce > 0 /\ u = [y EXCEPT !.nonce = @ - 1]
      BY DEF Shifted
    <2>3. /\ x \in [nonce : 0 .. MaxPool - 1, vol : known] /\ x.nonce \in Int
          /\ y \in [nonce : 0 .. MaxPool - 1, vol : known] /\ y.nonce \in Int
      BY <1>1, KeeperAssumption
    <2>4. t.nonce = x.nonce - 1 /\ u.nonce = y.nonce - 1
      BY <2>1, <2>2, <2>3
    <2>5. x.nonce = y.nonce
      <3>1. x.nonce - 1 = y.nonce - 1
        BY <1>3, <2>4
      <3>2. x.nonce \in Int /\ y.nonce \in Int
        BY <2>3
      <3> QED
        BY <3>1, <3>2
    <2>6. x = y
      BY <2>5 DEF WalletOK
    <2> QED
      BY <2>1, <2>2, <2>6
  <1> QED
    BY <1>2, <1>3

(* A transaction is mined.                                                 *)
LEMMA MineStep ==
    ASSUME KeeperInv, NEW tx \in pool \cup lost, NEW reverts \in BOOLEAN, Mine(tx, reverts)
    PROVE  KeeperInv'
  <1>1. tx.vol \in Created /\ tx.vol \in Volumes
    BY DEF KeeperInv, WalletOK, Created
  <1>2. ChainOK' /\ Created' = Created
    <2>1. CASE reverts
      BY <2>1 DEF Mine, KeeperInv, ChainOK, Created, chainVars
    <2>2. CASE ~reverts
      <3>1. Execute(tx.vol)
        BY <2>2 DEF Mine
      <3> QED
        BY <1>1, <3>1, ExecuteChain DEF KeeperInv
    <2> QED
      BY <2>1, <2>2
  <1>3. WalletOK(Created)'
    BY <1>2, ShiftedWallet DEF Mine, KeeperInv, WalletOK
  <1>4. RunOK(run', config'.mode, Created')
    BY <1>2, MineRun DEF Mine
  <1>5. served' \subseteq Volumes
    BY <1>1 DEF Mine, Execute, KeeperInv
  <1> QED
    BY <1>2, <1>3, <1>4, <1>5 DEF Mine, KeeperInv

(* Transactions are evicted, runs stopped, and the rest of the world goes  *)
(* on.                                                                     *)
LEMMA WorldStep ==
    ASSUME KeeperInv,
           \/ \E v \in Volumes : Create(v) \/ Change(v) \/ RetiredByOthers(v)
           \/ \E tx \in pool \cup lost : Evict(tx)
           \/ Killed \/ Quiet
    PROVE  KeeperInv'
  <1>1. ASSUME NEW v \in Volumes, Create(v) \/ Change(v) \/ RetiredByOthers(v)
        PROVE  KeeperInv'
    <2>1. ChainOK' /\ Created \subseteq Created'
      BY <1>1, OthersChain DEF KeeperInv
    <2>2. UNCHANGED <<pool, lost, config, run, report, served>>
      BY <1>1 DEF Create, Change, RetiredByOthers
    <2>3. WalletOK(Created)'
      BY <2>1, <2>2 DEF KeeperInv, WalletOK
    <2>4. RunOK(run, config.mode, Created)
      BY DEF KeeperInv
    <2>5. PICK more : more = Created'
      OBVIOUS
    <2>6. RunOK(run, config.mode, more)
      BY <2>1, <2>4, <2>5, MoreExist
    <2>7. RunOK(run', config'.mode, Created')
      BY <2>2, <2>5, <2>6
    <2> QED
      BY <2>1, <2>2, <2>3, <2>7 DEF KeeperInv
  <1>2. ASSUME NEW tx \in pool \cup lost, Evict(tx)
        PROVE  KeeperInv'
    <2>1. ChainOK' /\ Created' = Created
      BY <1>2 DEF Evict, KeeperInv, ChainOK, Created, chainVars
    <2>2. WalletOK(Created)'
      BY <1>2, <2>1 DEF Evict, KeeperInv, WalletOK
    <2>3. RunOK(run', config'.mode, Created')
      BY <1>2, <2>1 DEF Evict, KeeperInv
    <2> QED
      BY <1>2, <2>1, <2>2, <2>3 DEF Evict, KeeperInv
  <1>3. CASE Killed
    <2>1. RunOK(run', config.mode, Created)
      BY <1>3, IdleOK DEF Killed
    <2> QED
      BY <1>3, <2>1, RunMoves DEF Killed, KeeperInv
  <1>4. CASE Quiet
    <2>1. RunOK(run', config.mode, Created)
      BY <1>4 DEF Quiet, KeeperInv
    <2> QED
      BY <1>4, <2>1, RunMoves DEF Quiet, KeeperInv
  <1> QED
    BY <1>1, <1>2, <1>3, <1>4

LEMMA KeeperStep == KeeperInv /\ [Next]_vars => KeeperInv'
  <1> SUFFICES ASSUME KeeperInv, [Next]_vars
               PROVE  KeeperInv'
    OBVIOUS
  <1>1. CASE Begin \/ ReadPage \/ ReadSelected
    BY <1>1, ListingStep
  <1>2. CASE ReadFails \/ NothingToDo \/ Done \/ Deadline
    <2>1. PICK r : Finish(r)
      BY <1>2 DEF ReadFails, NothingToDo, Done, Deadline
    <2> QED
      BY <2>1, FinishStep
  <1>3. CASE \/ \E start \in 0 .. Len(run.ids) - 1 : Plan(start)
             \/ ReadSending \/ SendFails \/ Receipt \/ Timeout
    BY <1>3, WorkStep
  <1>4. CASE Send \/ SendThrows
    BY <1>4, SendStep
  <1>5. ASSUME NEW tx \in pool \cup lost, Mine(tx, FALSE) \/ Mine(tx, TRUE)
        PROVE  KeeperInv'
    BY <1>5, MineStep
  <1>6. CASE \/ \E v \in Volumes : Create(v) \/ Change(v) \/ RetiredByOthers(v)
             \/ \E tx \in pool \cup lost : Evict(tx)
             \/ Killed \/ Quiet
    BY <1>6, WorldStep
  <1>7. CASE UNCHANGED vars
    <2>1. RunOK(run', config.mode, Created)
      BY <1>7 DEF vars, KeeperInv
    <2> QED
      BY <1>7, <2>1, RunMoves DEF vars, KeeperInv
  <1>8. CASE Next
    BY <1>1, <1>2, <1>3, <1>4, <1>5, <1>6, <1>8 DEF Next, RunStep, WorldNext
  <1> QED
    BY <1>7, <1>8

LEMMA KeeperInit == Init => KeeperInv
  <1> SUFFICES ASSUME Init
               PROVE  KeeperInv
    OBVIOUS
  <1>1. << >> \in Seq(Volumes) /\ Len(<< >>) = 0
    BY EmptySeq
  <1>2. IsInjective(<< >>) /\ ToSet(<< >>) = {}
    <2>1. IsInjective(<< >>)
      BY DEF IsInjective
    <2>2. ToSet(<< >>) = {}
      BY DEF ToSet
    <2> QED
      BY <2>1, <2>2
  <1>3. ChainOK
    BY <1>1, <1>2 DEF Init, ChainOK, Needs
  <1>4. WalletOK(Created)
    BY DEF Init, WalletOK
  <1>5. RunOK(run, config.mode, Created)
    BY IdleOK DEF Init
  <1>6. report \in Reports
    BY DEF Init, NoReport, Reports
  <1> QED
    BY <1>3, <1>4, <1>5, <1>6 DEF Init, KeeperInv

(* Every variable keeps its type, a run of all volumes plans none twice,   *)
(* and no two transactions the node knows have one nonce, whatever fails   *)
(* and in whatever order transactions are mined, replaced and evicted.     *)
THEOREM KeeperTypeCorrect == Spec => []KeeperTypeOK
  <1>1. KeeperInv => KeeperTypeOK
    <2> SUFFICES ASSUME KeeperInv
                 PROVE  KeeperTypeOK
      OBVIOUS
    <2>1. pool \cup lost \subseteq [nonce : 0 .. MaxPool - 1, vol : Volumes]
      <3>1. pool \cup lost \subseteq [nonce : 0 .. MaxPool - 1, vol : Created]
        BY DEF KeeperInv, WalletOK
      <3>2. Created \subseteq Volumes
        BY DEF Created
      <3> QED
        BY <3>1, <3>2
    <2>2. report.status \in {"none", "ok", "warning", "failure"}
      BY DEF KeeperInv, Reports
    <2> QED
      BY <2>1, <2>2 DEF KeeperInv, ChainOK, WalletOK, RunOK, KeeperTypeOK
  <1> QED
    BY <1>1, KeeperInit, KeeperStep, PTL DEF Spec

-----------------------------------------------------------------------------
(* Whose turn it is.                                                       *)

(* For any volume of a list and any place there is a rotation that puts    *)
(* the one at the other.                                                   *)
LEMMA RotationReaches ==
    ASSUME NEW S, NEW s \in Seq(S), NEW v \in ToSet(s), NEW place \in 1 .. Len(s)
    PROVE  \E start \in 0 .. Len(s) - 1 : Rotated(s, start)[place] = v
  <1> DEFINE n == Len(s)
  <1>1. n \in Nat /\ ToSet(s) = {s[k] : k \in 1 .. n}
    BY Members
  <1>2. PICK j \in 1 .. n : s[j] = v
    BY <1>1
  <1>3. CASE place <= j
    <2>1. j - place \in 0 .. n - 1 /\ place <= n - (j - place) /\ (j - place) + place = j
      BY <1>1, <1>3
    <2>2. Rotated(s, j - place)[place] = s[(j - place) + place]
      BY <2>1, RotatedPlaces
    <2> QED
      BY <1>2, <2>1, <2>2
  <1>4. CASE ~(place <= j)
    <2> DEFINE start == n - (place - j)
    <2>1. start \in 0 .. n - 1 /\ ~(place <= n - start) /\ place - (n - start) = j
      BY <1>1, <1>4
    <2> HIDE DEF start
    <2>2. Rotated(s, start)[place] = s[place - (n - start)]
      BY <2>1, RotatedPlaces
    <2> QED
      BY <1>2, <2>1, <2>2
  <1> QED
    BY <1>3, <1>4

(* However long the list and whatever the page size and the limit, no      *)
(* volume of the pinned block is in a tail that every run defers: for each *)
(* place of the plan one of the starts of rotateVolumes puts it there.     *)
THEOREM NoTailIsStarvedTheorem == Spec => []NoTailIsStarved
  <1>1. KeeperInv => NoTailIsStarved
    <2> DEFINE n == Len(run.pinned)
    <2> SUFFICES ASSUME KeeperInv, config.mode = "all", run.pc = "listing",
                        run.page = Pages, NEW v \in ToSet(run.pinned),
                        NEW place \in 1 .. Min({config.limit, n})
                 PROVE  \E start \in 0 .. Len(run.ids) - 1 :
                           LET plan == Cut(Rotated(run.ids, start))
                           IN  place <= Len(plan) /\ plan[place] = v
      BY DEF NoTailIsStarved
    <2>1. /\ RunOK(run, "all", Created) /\ run.pinned \in Seq(Created)
          /\ config.limit \in Nat
          /\ run.page = (Len(run.pinned) + PageSize - 1) \div PageSize
      BY KeeperAssumption DEF KeeperInv, RunOK, Pages
    <2>2. run.ids = run.pinned
      BY <2>1, ListedAll
    <2>3. n \in Nat /\ Min({config.limit, n}) \in 0 .. n
      BY <2>1, CutPlaces, LenProperties
    <2>4. place \in 1 .. n
      BY <2>3
    <2>5. PICK start \in 0 .. n - 1 : Rotated(run.pinned, start)[place] = v
      BY <2>1, <2>4, RotationReaches
    <2> DEFINE rot  == Rotated(run.pinned, start)
               plan == Cut(rot)
    <2>6. rot \in Seq(Created) /\ Len(rot) = n
      BY <2>1, RotatedPlaces
    <2>7. Len(plan) = Min({config.limit, n}) /\ \A k \in 1 .. Len(plan) : plan[k] = rot[k]
      <3> HIDE DEF rot
      <3> QED
        BY <2>1, <2>6, CutPlaces
    <2>8. place <= Len(plan) /\ plan[place] = rot[place]
      <3>1. PICK m \in 0 .. n : m = Min({config.limit, n})
        BY <2>3
      <3>2. place \in 1 .. m /\ Len(plan) = m
        BY <2>7, <3>1
      <3> HIDE DEF rot, plan, n
      <3>3. place <= Len(plan) /\ place \in 1 .. Len(plan)
        BY <3>2
      <3>4. plan[place] = rot[place]
        BY <2>7, <3>3
      <3> QED
        BY <3>3, <3>4
    <2>9. rot[place] = v
      BY <2>5
    <2> QED
      BY <2>2, <2>8, <2>9
  <1> QED
    BY <1>1, KeeperInit, KeeperStep, PTL DEF Spec

-----------------------------------------------------------------------------
(* What an "ok" means.                                                     *)

(* Maintained volumes stay so for the run, and mined or evicted            *)
(* transactions do not come back.                                          *)
LEMMA CoverGrows ==
    ASSUME NEW r, NEW mode, NEW pending, NEW done, CoverOK(r, mode, pending, done),
           NEW fewer, fewer \subseteq pending, NEW more, done \subseteq more
    PROVE  CoverOK(r, mode, fewer, more)
  BY DEF CoverOK

(* A run that has not planned is done with no volume.                      *)
LEMMA EarlyCover ==
    ASSUME NEW r, r.pc \in {"idle", "listing"}, r.i = 1,
           NEW mode, NEW pending, NEW done
    PROVE  CoverOK(r, mode, pending, done)
  BY DEF CoverOK

(* A step that ends no run.                                                *)
LEMMA CoverKeeps ==
    ASSUME CoverInv, report' = report \/ report' = NoReport, lost' = lost, config' = config,
           CoverOK(run', config.mode, pool', served')
    PROVE  CoverInv'
  BY DEF CoverInv, OkMeansMaintained, NoReport

(* A run that ends reports "ok" only if it maintained what it answers for. *)
LEMMA FinishCover ==
    ASSUME CoverInv, NEW r, Finish(r),
           r.failed \/ r.warned \/ DueOf(run, config.mode) \subseteq served
    PROVE  CoverInv'
  <1> DEFINE maintained == Listed \subseteq served
  <1>1. /\ report' = [status |-> IF r.failed THEN "failure"
                                 ELSE IF r.warned THEN "warning" ELSE "ok",
                      maintained |-> maintained]
        /\ run' = Idle /\ UNCHANGED <<lost, config>>
    BY DEF Finish
  <1>2. maintained <=> DueOf(run, config.mode) \subseteq served
    BY DEF Listed, DueOf
  <1> HIDE DEF maintained
  <1>3. /\ report'.status = IF r.failed THEN "failure" ELSE IF r.warned THEN "warning" ELSE "ok"
        /\ report'.maintained = maintained
    BY <1>1
  <1>4. report'.status = "ok" => report'.maintained
    BY <1>2, <1>3
  <1>5. CoverOK(run', config.mode, pool', served')
    BY <1>1, EarlyCover DEF Idle
  <1> QED
    BY <1>1, <1>4, <1>5 DEF CoverInv, OkMeansMaintained

(* How a run can end.                                                      *)
LEMMA EndCover ==
    ASSUME KeeperInv, CoverInv, ReadFails \/ NothingToDo \/ Done \/ Deadline
    PROVE  CoverInv'
  <1>1. /\ run \in Run /\ RunOK(run, config.mode, Created)
        /\ config.mode \in {"all", "selected"}
    BY DEF KeeperInv, RunOK
  <1>2. CASE ReadFails
    <2>1. [run EXCEPT !.failed = TRUE].failed
      BY <1>1 DEF Run
    <2> QED
      BY <1>2, <2>1, FinishCover DEF ReadFails
  <1>3. CASE Deadline
    <2>1. [run EXCEPT !.warned = TRUE].warned
      BY <1>1 DEF Run
    <2> QED
      BY <1>3, <2>1, FinishCover DEF Deadline
  <1>4. CASE NothingToDo
    <2>1. /\ run.pc = "listing" /\ run.ids = << >> /\ Finish(run)
          /\ run.page = IF config.mode = "all"
                        THEN (Len(run.pinned) + PageSize - 1) \div PageSize
                        ELSE Len(Selected)
      BY <1>4 DEF NothingToDo, Pages
    <2>2. ToSet(run.ids) = {}
      BY <2>1 DEF ToSet
    <2>3. ~run.warned => DueOf(run, config.mode) \subseteq ToSet(run.ids)
      BY <1>1, <2>1, ListedDue
    <2>4. run.warned \/ DueOf(run, config.mode) \subseteq served
      BY <2>2, <2>3
    <2> QED
      BY <2>1, <2>4, FinishCover
  <1>5. CASE Done
    <2>1. run.pc = "next" /\ run.i > Len(run.plan) /\ Finish(run)
      BY <1>5 DEF Done
    <2>2. /\ run.i \in Nat \ {0} /\ Len(run.plan) \in Nat
          /\ ToSet(run.plan) = {run.plan[k] : k \in 1 .. Len(run.plan)}
      BY <1>1, Fields, Members
    <2>3. ASSUME ~run.failed, ~run.warned
          PROVE  DueOf(run, config.mode) \subseteq served
      <3>1. DueOf(run, config.mode) \subseteq ToSet(run.plan)
        BY <2>1, <2>3 DEF CoverInv, CoverOK
      <3>2. \A k \in 1 .. run.i - 1 : run.plan[k] \in served
        BY <2>3 DEF CoverInv, CoverOK
      <3>3. \A k \in 1 .. Len(run.plan) : k \in 1 .. run.i - 1
        BY <2>1, <2>2
      <3> QED
        BY <2>2, <3>1, <3>2, <3>3
    <2> QED
      BY <2>1, <2>3, FinishCover
  <1> QED
    BY <1>2, <1>3, <1>4, <1>5

(* Until it plans, a run has promised nothing.                             *)
LEMMA ListingCover ==
    ASSUME KeeperInv, CoverInv, Begin \/ ReadPage \/ ReadSelected
    PROVE  CoverInv'
  <1>1. run \in Run /\ RunOK(run, config.mode, Created)
    BY DEF KeeperInv, RunOK
  <1>2. run'.pc = "listing" /\ run'.i = 1
    <2>1. CASE Begin
      BY <2>1 DEF Begin, Idle
    <2>2. CASE ReadPage \/ ReadSelected
      <3>1. run.pc = "listing" /\ run.i = 1
        BY <1>1, <2>2 DEF ReadPage, ReadSelected, RunOK
      <3>2. run'.pc = run.pc /\ run'.i = run.i
        BY <1>1, <2>2 DEF ReadPage, ReadSelected, Run
      <3> QED
        BY <3>1, <3>2
    <2> QED
      BY <2>1, <2>2
  <1>3. CoverOK(run', config.mode, pool', served')
    BY <1>2, EarlyCover
  <1> QED
    BY <1>3, CoverKeeps DEF Begin, ReadPage, ReadSelected

(* The plan leaves out no volume the run answers for, unless it says so.   *)
LEMMA PlanCover ==
    ASSUME KeeperInv, CoverInv, NEW start \in 0 .. Len(run.ids) - 1, Plan(start)
    PROVE  CoverInv'
  <1>1. RunOK(run, config.mode, Created) /\ config.mode \in {"all", "selected"}
    BY DEF KeeperInv
  <1>2. /\ run'.pc = "next" /\ run'.i = 1 /\ run'.pinned = run.pinned
        /\ ~run'.warned => ~run.warned /\ ToSet(run'.plan) = ToSet(run.ids)
        /\ run.pc = "listing"
        /\ run.page = IF config.mode = "all"
                      THEN (Len(run.pinned) + PageSize - 1) \div PageSize
                      ELSE Len(Selected)
    BY PlanRun
  <1>3. ~run.warned => DueOf(run, config.mode) \subseteq ToSet(run.ids)
    BY <1>1, <1>2, ListedDue
  <1>4. DueOf(run', config.mode) = DueOf(run, config.mode)
    BY <1>2 DEF DueOf
  <1>5. CoverOK(run', config.mode, pool', served')
    BY <1>2, <1>3, <1>4 DEF CoverOK
  <1> QED
    BY <1>5, CoverKeeps DEF Plan

(* A run that gives up on a volume has failed.                             *)
LEMMA FailedCover ==
    ASSUME KeeperInv, CoverInv, run.pc \in {"next", "send", "wait"}, run.i <= Len(run.plan),
           run' = Failed(run)
    PROVE  CoverOK(run', config.mode, pool', served')
  <1>1. RunOK(run, config.mode, Created)
    BY DEF KeeperInv
  <1>2. /\ run'.pc = "next" /\ run'.plan = run.plan /\ run'.pinned = run.pinned
        /\ run'.warned = run.warned /\ run'.failed
    BY <1>1, FailedOK
  <1>3. DueOf(run', config.mode) = DueOf(run, config.mode)
    BY <1>2 DEF DueOf
  <1> QED
    BY <1>2, <1>3 DEF CoverInv, CoverOK

(* Sending: the run knows which transaction it waits for.                  *)
LEMMA SendCover ==
    ASSUME KeeperInv, CoverInv, ~Forgets, ReadSending \/ Send \/ SendThrows \/ SendFails
    PROVE  CoverInv'
  <1>1. RunOK(run, config.mode, Created) /\ WalletOK(Created) /\ run \in Run
    BY DEF KeeperInv, RunOK
  <1>2. CASE ReadSending
    <2>1. /\ run.pc = "next"
          /\ run' = [run EXCEPT !.pc = "send", !.nonce = PendingNonce]
      BY <1>2 DEF ReadSending
    <2>2. /\ run'.pc = "send" /\ run'.i = run.i /\ run'.plan = run.plan
          /\ run'.pinned = run.pinned /\ run'.warned = run.warned
          /\ run'.failed = run.failed
      BY <1>1, <2>1 DEF Run
    <2>3. DueOf(run', config.mode) = DueOf(run, config.mode) /\ served' = served
      BY <1>2, <2>2 DEF DueOf, ReadSending
    <2>4. CoverOK(run', config.mode, pool', served')
      BY <2>1, <2>2, <2>3 DEF CoverInv, CoverOK
    <2> QED
      BY <1>2, <2>4, CoverKeeps DEF ReadSending
  <1>3. CASE Send
    <2>1. /\ run.pc \in {"next", "send"} /\ run.i <= Len(run.plan) /\ Broadcast
          /\ run.nonce \in 0 .. MaxPool - 1
          /\ run' = [run EXCEPT !.pc = "wait", !.own = run.nonce, !.nonce = @ + 1]
          /\ UNCHANGED <<config, report, served>>
      BY <1>3 DEF Send, Sending, Broadcast
    <2>2. /\ run'.pc = "wait" /\ run'.i = run.i /\ run'.plan = run.plan
          /\ run'.pinned = run.pinned /\ run'.warned = run.warned
          /\ run'.failed = run.failed /\ run'.own = run.nonce
          /\ run'.receipt = run.receipt
      BY <1>1, <2>1 DEF Run
    <2>3. Current \in Created
      <3>1. run.plan \in Seq(Created) /\ run.i \in 1 .. Len(run.plan)
        BY <1>1, <2>1, Fields, LenProperties DEF RunOK
      <3> QED
        BY <3>1, ElementOfSeq DEF Current
    <2>4. /\ \A tx \in pool' : tx.nonce = run'.own => tx.vol = run'.plan[run'.i]
          /\ lost' = lost
      BY <1>1, <2>1, <2>2, <2>3, BroadcastWallet DEF Current
    <2>5. DueOf(run', config.mode) = DueOf(run, config.mode)
      BY <2>2 DEF DueOf
    <2>6. run.receipt = "none"
      BY <1>1, <2>1 DEF RunOK
    <2>7. CoverOK(run', config.mode, pool', served')
      BY <2>1, <2>2, <2>4, <2>5, <2>6 DEF CoverInv, CoverOK
    <2> QED
      BY <2>1, <2>4, <2>7, CoverKeeps
  <1>4. CASE SendThrows \/ SendFails
    <2>1. CoverOK(run', config.mode, pool', served')
      BY <1>4, FailedCover DEF SendThrows, SendFails, Sending
    <2>2. lost' = lost
      BY <1>4 DEF SendThrows, SendFails, Broadcast
    <2> QED
      BY <1>4, <2>1, <2>2, CoverKeeps DEF SendThrows, SendFails
  <1> QED
    BY <1>2, <1>3, <1>4

(* A receipt that is neither warned about nor a failure names a volume     *)
(* that was maintained.                                                    *)
LEMMA WaitCover ==
    ASSUME KeeperInv, CoverInv, Receipt \/ Timeout
    PROVE  CoverInv'
  <1>1. RunOK(run, config.mode, Created) /\ run \in Run
    BY DEF KeeperInv, RunOK
  <1>2. CASE Receipt
    <2>1. /\ run.pc = "wait" /\ run.receipt # "none"
          /\ UNCHANGED <<pool, lost, config, report, served>>
      BY <1>2 DEF Receipt
    <2>2. /\ run'.pc = "next" /\ run'.i = run.i + 1
          /\ run'.plan = run.plan /\ run'.pinned = run.pinned
          /\ run'.warned <=> run.warned \/ run.receipt \in {"retired", "topupSkipped"}
          /\ run'.failed <=> run.failed \/ run.receipt = "reverted"
      BY <1>2, ReceiptRun
    <2>3. DueOf(run', config.mode) = DueOf(run, config.mode)
      BY <2>2 DEF DueOf
    <2>4. /\ run.i \in Nat \ {0}
          /\ run.receipt \in {"none", "reverted", "noop", "toppedUp", "topupSkipped", "retired"}
      BY <1>1, Fields
    <2>5. ASSUME ~run'.failed, ~run'.warned, NEW k \in 1 .. run'.i - 1
          PROVE  run'.plan[k] \in served'
      <3>1. run.receipt \in {"noop", "toppedUp"} /\ ~run.failed /\ ~run.warned
        BY <2>1, <2>2, <2>4, <2>5
      <3>2. CASE k = run.i
        BY <2>1, <2>2, <3>1, <3>2 DEF CoverInv, CoverOK
      <3>3. CASE k # run.i
        <4>1. k \in 1 .. run.i - 1
          BY <2>2, <2>4, <3>3
        <4> QED
          BY <2>1, <2>2, <3>1, <4>1 DEF CoverInv, CoverOK
      <3> QED
        BY <3>2, <3>3
    <2>6. run'.pc = "next" /\ ~run'.warned => DueOf(run', config.mode) \subseteq ToSet(run'.plan)
      BY <2>1, <2>2, <2>3 DEF CoverInv, CoverOK
    <2>7. CoverOK(run', config.mode, pool', served')
      BY <2>2, <2>5, <2>6 DEF CoverOK
    <2> QED
      BY <2>1, <2>7, CoverKeeps
  <1>3. CASE Timeout
    <2>1. run.pc = "wait" /\ run.i <= Len(run.plan) /\ run' = Failed(run)
      BY <1>1, <1>3 DEF Timeout, RunOK
    <2>2. CoverOK(run', config.mode, pool', served')
      BY <2>1, FailedCover
    <2> QED
      BY <1>3, <2>2, CoverKeeps DEF Timeout
  <1> QED
    BY <1>2, <1>3

(* A mined transaction either is the one the run waits for, and then its   *)
(* receipt says what became of the volume, or leaves that one pending.     *)
LEMMA MineCover ==
    ASSUME KeeperInv, CoverInv, NEW tx \in pool \cup lost, NEW reverts \in BOOLEAN,
           Mine(tx, reverts)
    PROVE  CoverInv'
  <1>1. /\ RunOK(run, config.mode, Created) /\ run \in Run /\ ChainOK
        /\ tx \in pool /\ tx.nonce = 0 /\ tx.vol \in Created
        /\ pool' = Shifted(pool) /\ lost' = lost /\ UNCHANGED <<config, report>>
        /\ pool \subseteq [nonce : 0 .. MaxPool - 1, vol : Created]
    BY DEF KeeperInv, RunOK, WalletOK, CoverInv, Mine, Shifted
  <1>2. /\ run'.pc = run.pc /\ run'.i = run.i /\ run'.plan = run.plan
        /\ run'.pinned = run.pinned /\ run'.warned = run.warned /\ run'.failed = run.failed
        /\ run'.own = IF run.own = 0 THEN NoNonce ELSE Down(run.own)
        /\ run'.receipt = IF run.own = 0 THEN ReceiptOf(tx, reverts) ELSE run.receipt
    BY MineRun
  <1>3. /\ served \subseteq served'
        /\ ~reverts /\ run.pc # "idle" /\ state[tx.vol] \in {"healthy", "deficit"} =>
              tx.vol \in served'
    BY DEF Mine, Execute
  <1>4. ReceiptOf(tx, reverts) \in {"reverted", "noop", "toppedUp", "topupSkipped", "retired"}
    BY <1>1, ReceiptOfFacts
  <1>5. DueOf(run', config.mode) = DueOf(run, config.mode)
    BY <1>2 DEF DueOf
  <1>6. MaxPool \in Nat /\ NoNonce \notin Int
    BY KeeperAssumption
  <1>7. ASSUME run.pc = "wait", run'.receipt = "none", NEW u \in pool', u.nonce = run'.own
        PROVE  u.vol = run.plan[run.i]
    <2>1. run.own # 0 /\ run.receipt = "none"
      BY <1>2, <1>4, <1>7
    <2>2. run.own # NoNonce
      BY <1>1, <1>7, <2>1 DEF RunOK
    <2>3. run.own \in Nat \ {0} /\ run.own \in -1 .. MaxPool \cup {NoNonce}
      BY <1>1, <1>6, <2>1, <2>2, Fields
    <2>4. run'.own = run.own - 1
      BY <1>2, <2>1, <2>3, DownFacts
    <2>5. PICK x \in pool : x.nonce > 0 /\ u = [x EXCEPT !.nonce = @ - 1]
      BY <1>1 DEF Shifted
    <2>6. x \in [nonce : 0 .. MaxPool - 1, vol : Created] /\ x.nonce \in Int
      BY <1>1, <1>6
    <2>7. u.nonce = x.nonce - 1 /\ u.vol = x.vol
      BY <2>5, <2>6
    <2>8. x.nonce = run.own
      <3>1. x.nonce - 1 = run.own - 1
        BY <1>7, <2>4, <2>7
      <3> QED
        BY <2>3, <2>6, <3>1
    <2> QED
      BY <1>7, <2>1, <2>7, <2>8 DEF CoverInv, CoverOK
  <1>8. ASSUME run.pc = "wait", run'.receipt \in {"noop", "toppedUp"}
        PROVE  run.plan[run.i] \in served'
    <2>1. CASE run.own # 0
      BY <1>2, <1>3, <1>8, <2>1 DEF CoverInv, CoverOK
    <2>2. CASE run.own = 0
      <3>1. run.receipt = "none"
        BY <1>1, <1>6, <1>8, <2>2 DEF RunOK
      <3>2. tx.vol = Current
        BY <1>1, <1>8, <2>2, <3>1 DEF CoverInv, CoverOK, Current
      <3>3. ReceiptOf(tx, reverts) \in {"noop", "toppedUp"}
        BY <1>2, <1>8, <2>2
      <3>4. ~reverts /\ state[tx.vol] \in {"healthy", "deficit"}
        BY <1>1, <3>2, <3>3, ReceiptOfFacts
      <3> QED
        BY <1>3, <1>8, <3>2, <3>4 DEF Current
    <2> QED
      BY <2>1, <2>2
  <1>9. CoverOK(run', config.mode, pool', served')
    <2>1. /\ run'.pc \in {"next", "send", "wait"} /\ ~run'.warned =>
                DueOf(run', config.mode) \subseteq ToSet(run'.plan)
          /\ ~run'.failed /\ ~run'.warned => \A k \in 1 .. run'.i - 1 : run'.plan[k] \in served'
      BY <1>2, <1>3, <1>5 DEF CoverInv, CoverOK
    <2>2. run'.pc = "wait" =>
             /\ run'.receipt = "none" =>
                   \A u \in pool' : u.nonce = run'.own => u.vol = run'.plan[run'.i]
             /\ run'.receipt \in {"noop", "toppedUp"} => run'.plan[run'.i] \in served'
      BY <1>2, <1>7, <1>8
    <2> QED
      BY <2>1, <2>2 DEF CoverOK
  <1> QED
    BY <1>1, <1>9, CoverKeeps

LEMMA CoverStep == ~Forgets /\ KeeperInv /\ CoverInv /\ [Next]_vars => CoverInv'
  <1> SUFFICES ASSUME ~Forgets, KeeperInv, CoverInv, [Next]_vars
               PROVE  CoverInv'
    OBVIOUS
  <1>1. CASE Begin \/ ReadPage \/ ReadSelected
    BY <1>1, ListingCover
  <1>2. CASE ReadFails \/ NothingToDo \/ Done \/ Deadline
    BY <1>2, EndCover
  <1>3. CASE \E start \in 0 .. Len(run.ids) - 1 : Plan(start)
    BY <1>3, PlanCover
  <1>4. CASE ReadSending \/ Send \/ SendThrows \/ SendFails
    BY <1>4, SendCover
  <1>5. CASE Receipt \/ Timeout
    BY <1>5, WaitCover
  <1>6. ASSUME NEW tx \in pool \cup lost, Mine(tx, FALSE) \/ Mine(tx, TRUE)
        PROVE  CoverInv'
    BY <1>6, MineCover
  <1>7. ASSUME /\ pool' \subseteq pool /\ served' = served /\ run' = run
               /\ UNCHANGED <<lost, config, report>>
        PROVE  CoverInv'
    <2>1. CoverOK(run, config.mode, pool', served')
      BY <1>7, CoverGrows DEF CoverInv
    <2> QED
      BY <1>7, <2>1, CoverKeeps
  <1>8. ASSUME NEW tx \in pool \cup lost, Evict(tx)
        PROVE  CoverInv'
    BY <1>7, <1>8 DEF Evict
  <1>9. CASE \E v \in Volumes : Create(v) \/ Change(v) \/ RetiredByOthers(v)
    BY <1>7, <1>9 DEF Create, Change, RetiredByOthers
  <1>10. CASE Killed
    <2>1. CoverOK(run', config.mode, pool', served')
      BY <1>10, EarlyCover DEF Killed, Idle
    <2> QED
      BY <1>10, <2>1, CoverKeeps DEF Killed
  <1>11. CASE Quiet \/ UNCHANGED vars
    BY <1>7, <1>11 DEF Quiet, vars
  <1> QED
    BY <1>1, <1>2, <1>3, <1>4, <1>5, <1>6, <1>8, <1>9, <1>10, <1>11
       DEF Next, RunStep, WorldNext

(* As long as the network mines no transaction that the keeper's node has  *)
(* evicted, a run that reports neither a failure nor a warning found every *)
(* volume it lists healthy or made it so, whatever the size of the list,   *)
(* of its pages and of the limit, and whatever others do meanwhile.        *)
THEOREM OkMeansMaintainedTheorem ==
    ASSUME ~Forgets
    PROVE  Spec => []OkMeansMaintained
  <1>1. Init => CoverInv
    <2> SUFFICES ASSUME Init
                 PROVE  CoverInv
      OBVIOUS
    <2>1. CoverOK(run, config.mode, pool, served)
      BY EarlyCover DEF Init, Idle
    <2> QED
      BY <2>1 DEF Init, CoverInv, OkMeansMaintained, NoReport
  <1>2. KeeperInv /\ CoverInv /\ [Next]_vars => CoverInv'
    BY CoverStep
  <1>3. CoverInv => OkMeansMaintained
    BY DEF CoverInv
  <1> QED
    BY <1>1, <1>2, <1>3, KeeperInit, KeeperStep, PTL DEF Spec

=============================================================================
