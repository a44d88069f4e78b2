# Verification of the Swarm volume registry

TLA+ models, TLC runs and TLAPS proofs for the volume registry: the
`VolumeRegistry` contract, the keeper that calls it on a schedule, and the
indexer that projects its events into an artifact. Modules translate the source;
where a document and the source differ, the model follows the source and the
difference is listed under [Findings](#findings).

    tlc -workers 2 -config Payments.cfg MCVolumeRegistry   # one run
    for m in *Proofs.tla; do tlapm $m; done                  # all proofs

Run and property names, the lines each definition stands for, hazards and
theorems are in `PROJECT.json`.

## 1. The system

| Part | State it keeps | Operations | Hard behaviour | What makes it correct |
|---|---|---|---|---|
| `VolumeRegistry` contract (`contracts/src`) | `_volumes`, `_activeVolumeIds`, `designated`, `_accounts`, `nextNonce` | `designateFundingWallet`, `confirmAuth`, `revoke`, `createVolume`, `registerVolume`, `importVolume`, `deleteVolume`, `trigger`, `trigger[]`, `reap` | calls of owners, payers and keepers in any order; batches and payers that change between calls; swap-and-pop; wrapping shifts | list and records agree; IDs are never reused; only a payer that agreed is charged, and no more than buys graceBlocks; triggers revert on faults only |
| PostageStamp, BZZ (external) | batches, price, pause, floor; balances, allowances, permit expiries | called by the registry, and by everybody else | expiry and re-creation of a batch, dilution, `copyBatch`, expired permits, pauses | assumed, as ADR-0007 and DESIGN section 14 enumerate it |
| Keeper: the cycle (`services/keeper/src/keeper`) | nothing between runs; during one the list, the nonce, the receipt it waits for. Its wallet's pending transactions live in the network | list, rotate, send one trigger per volume, wait | pages read while the list changes; receipts that time out and transactions mined later, replaced or forgotten; cuts by limit and deadline | an `ok` result means the volumes were maintained; no volume starves |
| Keeper: the scheduled run (`index.ts`, `client.ts`, `config.ts`, `reporting.ts`, `notifications/`) | none but the run's own | on every tick: read the bindings, probe the endpoints, run a cycle, read the balance, report, alert | requests that hang and are retried, a tick while the previous run goes on, endpoints that fail after the probe, a configuration that is broken where the alerts go | runs end, and do not send at once; what went wrong reaches the report, and the report the operator |
| Indexer cache and `sync` (`services/indexer`) | `<type>.jsonl`, `head.json`, the artifact | `sync` | kills between and inside writes, overlapping syncs, backfills with `--to-block` | the head never claims rows that are missing; the entry is the fold of the whole chain |
| Indexer projection | none | fold, `stat` | pairing of events, folds over merged files | not modelled, see section 6 |
| Deployment scripts, records | one JSON record per version, a latest pointer | `deploy`, `verify_deployment`, `export_deployment` | an export stopped half-way | not modelled, see section 6 |

They interact through the chain only. The keeper reads the active list and sends
`trigger`; the registry reads batches and the price from PostageStamp, pulls BZZ
from a payer and hands it on; the indexer reads the events. Nothing calls the
keeper or the indexer.

## 2. Modules

| Module | Models |
|---|---|
| `BzzToken` | external: the token, from the calls of `IERC20Like` and `IPermittableTokenLike` |
| `PostageStamp` | external: batches, price, out-payment, pause and validity floor, with what other accounts may do |
| `VolumeRegistry` | the contract: one action per external function. Extends `PostageStamp`, which extends `BzzToken`: a call that pays is one step of all three |
| `BatchedTrigger` | `trigger(bytes32[])` step by step on top of `VolumeRegistry`, with rollback |
| `Survival` | `VolumeRegistry` with a history variable: until which block a funded batch was promised to live |
| `VolumeLedger` | abstract: offers, mandates, opened volumes, funds. No batches, prices, arrays |
| `KeeperCycle` | one keeper's runs, its wallet's transactions, and a registry reduced to its list |
| `KeeperReport` | pure: what a run reports, its status, and the alert made of it |
| `KeeperWorker` | the scheduled runs of one deployment, in time. Extends `KeeperReport` |
| `EventLogStore` | the cache of one deployment, its artifact, and the syncs that maintain them |
| `MC*` | values for constants that a `.cfg` cannot write |
| `VolumeRegistryProofs`, `PaymentProofs` | theorems about `VolumeRegistry`: its state; what its calls pay, decide and revert on |
| `LedgerProofs` | nothing is rewritten, and `VolumeRegistry` implements `VolumeLedger` |
| `SurvivalProofs`, `BatchedTriggerProofs` | theorems about `Survival` and `BatchedTrigger` |
| `EventLogStoreProofs` | theorems about `EventLogStore` |
| `KeeperCycleProofs`, `KeeperWorkerProofs` | theorems about `KeeperCycle` and `KeeperWorker` |

### VolumeRegistry and the contracts it calls

A transaction is atomic, so every external function is one action. A call that
reverts changes nothing, so what must hold for a function not to revert is the
guard of its action. `_triggerOne` is split into `TriggerOutcome`, the name of
the branch it takes, with the checks in the order of the code, and the three
kinds of effect (`TriggerRetires`, `TriggerTopsUp`, `TriggerDoesNothing`);
`importVolume` reuses both on the record it has just written. `_retire` is
`Retire`, the swap-and-pop itself. The variables carry the names of the storage.

- A volume ID is the pair `<<owner, nonce>>` it is the hash of; a batch ID is
  `<<caller, salt>>`. Hashes do not collide.
- A word has `Word` values instead of 2^256. `x << depth` wraps (`ShiftedBy`);
  PostageStamp's multiplication is checked (`Total`, and the guard `< Word`).
- One tick is one block, one timestamp unit and one charge of the price.
- An allowance has one spender: a payer's is the registry's, the registry's is
  PostageStamp's.
- What a payer spends elsewhere is not an action. A run starts payers with any
  of the `Deposits`, allowances move freely among `Grants`, and a payer
  that runs short does so by paying for volumes.
- Left out: events, `createdAt`, `bucketDepth` and `immutableBatch` (one bucket
  depth that Postage accepts exists iff the depth is above its minimum).

`Mutant` definitions (`RetireLeavesIndex`, `DeficitShort`, ...) are not part of
the specification. Each is a plausible bug in the definition after it, and shows
that a property notices.

### KeeperCycle

`run` is the local state of `runKeeperCycle`: `listing` (pinned block, pages),
`next` (between two volumes), `send` (nonce and fees were just read), `wait` (for
a receipt). Every request is a step of its own, so that the chain moves between
any two. `pool` holds the wallet's pending transactions; nonces are counted from
the wallet's next one, which keeps the model finite: mining one lowers all
others, and a run's cached nonce with them, down to -1, "used already".

- The registry is its active list and, per volume, what a trigger would find
  (`healthy`, `deficit`, `unpaid`, `dying`, `retired`), which changes at any time.
- A transaction may be mined late, revert, be evicted, be replaced by one with
  its nonce, or be sent although the request failed. `Forgets` says whether the
  network may still mine what the keeper's node evicted or replaced.
- Mode `selected`: `VOLUME_IDS` in the order given, repeated ids included, which
  nothing rejects. Their records are those of the pinned block (one multicall in
  the code), so `ReadSelected` may read them one at a time.
- `waitForTransactionReceipt` is viem's and external: it resolves when the nonce
  is used, with the receipt of the transaction that used it.
- Runs do not overlap. That two of them never send at once is shown by
  `KeeperWorker`; the platform may stop a run (`Killed`).
- Left out: dry runs, gas and fee amounts. The report is that of the cycle;
  endpoints, balance and alerts are in `KeeperReport` and `KeeperWorker`.

### KeeperReport and KeeperWorker

`KeeperReport` translates `cycleReport`, `abortedReport`, `endpointWarnings`, the
warnings a cycle collects, `shouldNotify` and `formatTelegramMessage`. An issue is
what it is about, how many volumes it speaks for, and how many lines it takes; a
message is as long as its lines, and Telegram's limit is a number of lines. A problem
of the configuration is longer where it repeats the binding it is about (`Echo`;
`config.ts:125-193` repeats all but the secrets and `RPC_URL`, however long they
are). A header is `HeaderLines`, the name of the deployment, the registry as it is
given, and the summary, which repeats the first failure if none names a volume
(`HeaderOf`, `SummaryLines`).

`KeeperWorker` runs them in time. `runs` holds the latest run and the one before
as long as it goes on; a run's `pc` is the request it waits for and `left` how much
longer that may take. One step ends a phase with an outcome and enters the next, or
lets a unit of time pass.

| Phase | Code |
|---|---|
| `probe` | `probeEndpoints` (`client.ts:57-95`); without a usable endpoint the run aborts (`index.ts:102-112`) |
| `list` | the block, the count and the pages, or the named ids (`runKeeperCycle.ts:196-205`, `252-293`) |
| `simulate` | the dry run of a volume (`:320-337`) |
| `prepare` | nonce, block and tip, unless an earlier volume read them, and the estimate (`:300-316`, `339`, `trigger.ts:98-106`) |
| `send`, `receipt` | `writeContract`, `waitForTransactionReceipt` (`:340-353`) |
| `balance` | `getBalance` (`index.ts:126-128`) |
| `alert` | `sendTelegram`; a failed post is logged (`index.ts:84-95`) |

- `Request` is what one request may cost at one endpoint: three attempts
  (`retryCount: 2`) of `REQUEST_TIMEOUT_MS`. A phase of several requests, one after
  the other, has a multiple of it, times the usable endpoints.
- A deployment is the set of its settings that are on, which bindings are unset or
  malformed, how many extra lines the text of each takes, and its volume limit.
  `Problems` is what `readConfig` collects, `KeyOrder` the order in which it reports
  them, `CanAlert` what `readTelegramConfig` accepts; the first stops a run, the last
  decides whether the run can say so. Several malformed entries of one list count as
  one problem.
- Telegram takes no message longer than its limit: a `Notified` that sends is
  `Deliverable`, all others end in the log.
- `noRetry()`: only the cron starts a run. An invocation that ends leaves nothing.
  The model lets at most two runs be active, and `RunsEndTheorem` with the bounds
  below says that is all there can be; a tick waits for the earlier run.
- `fellBack` is a history variable: a request of the run was served by an endpoint
  behind the primary although the primary had passed its probe. Only
  `QuietFailover` keeps it.
- Left out: which volumes are which (in `KeeperCycle`), `GET /health`, what identity
  and summary of a report say, scrubbing and redaction of secrets, the log line.

### EventLogStore

A row is its position, block and type, with at most one row of a type in a block.
The files are one bag of rows (`lines`) and the set of types whose file ends in
part of a line; the head is a block, missing, or `Torn`: `write_text` truncates,
then writes, and both are steps; so is the artifact, of which only the deployment's
entry is kept. `sync` reads the files, then the head, fetches a
range, appends file by file in the order of the logs, then saves the head; at the
target it reads the artifact, truncates it and writes the new one. A kill
may come between any two steps, or inside a file with any prefix of its rows
written. A failed request ends a sync as a kill does.

- `chain` holds the rows of the final blocks, which no reorganization changes. Of
  later blocks `eth_getLogs` may answer anything that is gone when it is asked again,
  or nothing where the chain has not got there (`Answers`).
- The target is the finalized block or any `--to-block`, as in `cli.py:233`. With
  `OnlyFinal` the operator passes none before it is final; that is what the
  indexer's properties need, and `SyncAhead` shows what happens without it. A sync
  to a block that does not exist saves its head and then fails on the block's
  timestamp (`LoadArtifact`).
- A store that no load can parse is removed by the operator between syncs
  (`Wipe`), and so is an artifact (`RemoveArtifact`); nothing in the code repairs them.
- Two syncs that write the artifact at once may leave the end of the longer text
  behind the shorter one (`WriteArtifact`).
- A sync that reads a line another process is just writing fails and is started
  again; reading half a file is the same as reading before or after it here,
  because `load_event_log` keys rows by position.

## 3. Runs

Passing runs finish without an error. Deadlock is checked in all of them.

| Run | Question | Properties | Distinct states |
|---|---|---|---|
| `Payments` | what a trigger takes, when it reverts, what it retires | `TypeOK`, `RegistryHoldsNothing` (I8), `TriggerRevertsOnlyOnFaults` (ADR-0007), `TriggerRetiresForCause` | 1.2M |
| `SharedBatch` | who may be charged, with a batch two owners registered; do list, IDs and records stay in step | `ActiveSetConsistent`, `NextIdsAreFree` (I11, I14), `NonInterference` (I7, I10, I12), `ImplementsLedger` (I3, I4, I7, I9, I11), `TriggersSettle` (I5) | 369k up to symmetry |
| `Survival` | does a funded batch outlive graceBlocks alone | `PromisesAreKept` (I6), `PromisesAreCovered`, `ChargeBuysRunway` (I8), `ImportLeavesRunway` (I13) | 1.3M |
| `BatchedTrigger` | is a list as good as one call each | `BatchPaysOnce`, `BatchRevertsOnlyOnFaults` | 2.3M |
| `Keepers` | what fair keepers achieve in the end | `ExpiredVolumesRetire`, `UnbackedVolumesRetire`, `AbleVolumesAreFunded` | 406k |
| `Sync` | is the entry complete, does it catch up after kills | `StoreTypeOK`, `EntryComplete`, `CopiesNeedCrashes`, `FinalBlocksAreIndexed` | 345k |
| `SyncOverlap` | is the head truthful when two syncs run at once | `StoreCoversHead` | 8.3M |
| `KeeperCycle` | what `ok` means, does a volume starve | `KeeperTypeOK`, `OkMeansMaintained`, `NoTailIsStarved`, `DueVolumesAreReached` | 264k |
| `KeeperWorker` | do runs end, and send one at a time; does an operator hear what went wrong | `WorkerTypeOK`, `OneRunSends`, `RunsEndInTime`, `QuietRunsAreClean`, `DeferredVolumesAreCounted`, `NoAlertIsLost`, `AlertsFit` | 2.6M |
| `SyncExactlyOnce` | violated: `EntryCountsOnce` | finding 1 | |
| `QuietFailover` | violated: `FailoverIsObservable` | finding 2 | |
| `KeeperForgetful` | violated: `OkMeansMaintained` | finding 3 | |

Two more configurations show a difference each and are listed in `PROJECT.json` by their
hazards only: `LongProblem.cfg` (`MCKeeperWorker`; `MessagesFit` is violated, point 4 of
the findings) and `SyncAhead.cfg` (`MCEventLogStore`; `SameAsResync`, point 5).

### Bounds, and why they are enough

- `Payments`: one owner, one payer, a minted and a foreign batch; depths 1, 2 and 5
  in a word of 64 values and a grace period of 4, so that at depth 5 the shift of a
  deficit of 2 wraps to zero, that of 3 to a wrong amount a payer could pay, and that
  of 1 is exact; the minimum bucket depth is 1, so depth 1 is a batch Postage can
  copy but never serve; validity floors 1 and 5 around the grace period; a permit
  that expires at block 1 and a volume that expires at block 2, of 3.
- `SharedBatch`: two owners and two payers, hence every mismatch of owner, offer
  and payer, with one foreign batch that both owners may register and one that either
  may create. Owners are interchangeable, and so are payers (`SYMMETRY`; all of its
  properties are safety properties). With two volumes the retirement of the first
  moves the second; any number is `ActiveSetTheorem`'s. No volume has an expiry here,
  so `reap` is not enabled; `reap` beside the other calls is `ActiveSetTheorem`'s and
  `NonInterferenceTheorem`'s, and `Payments` has a volume that expires.
- `Survival`: two prices (a rise voids a promise, a fall must not), two depths
  (dilution), three blocks against a grace period of two, so that every promise is
  observed to its end. There is one volume; several on one batch are `ChargeTheorem`'s.
- `BatchedTrigger`: two volumes on two foreign batches, or both on one, with lists
  up to three, so that a volume comes twice with another between.
- `Keepers`: three blocks; batches die, are diluted and created again. Nothing is
  paused, so `AbleVolumesAreFunded` is checked for contracts that stay open.
- `Sync`: three blocks in ranges of two (a full range and a cut one), two files,
  two kills, and a backfill to block 1. `SyncOverlap`: two processes, two blocks
  in ranges of one, two kills. Both sync to final blocks only. `SyncAhead`: one
  process without kills, two blocks, and a sync to the second before it is final.
- `KeeperCycle`: two volumes in pages of one, all or both selected, limits 1 and 2,
  at most two nonces ahead of the chain. Two is enough for one late transaction beside the run's own,
  for a gap in the nonces and for a replaced transaction.

- `KeeperWorker`: two endpoints, so that one, the primary or both may fail the
  probe; three volumes, so that limit, deadline and failures fall before, between and
  after them; limits 1 and 2, so that one run may be cut by its limit and then by its
  deadline. The timeouts keep the order of the committed ones: a
  send ends at 15 of 16 at the latest and a run at 20, so that runs overlap and
  `OneRunSends` is about something. A message takes 14 lines, fewer than the longest
  report. Eight deployments: as `wrangler.jsonc` sets them, named ids, a dry run with
  a long name, three that are broken, two of them where alerts go, and two whose
  `VOLUME_IDS` is one long entry: the problem that names it comes first, and is then in
  the header too, or second. `LongProblem` has two volumes.

`MaxVolumes` (volumes of a run), `MaxNonce`, `MaxMint`, `MaxNow`, `MaxBalance`, `MaxRemaining`, `MaxPool`,
`MaxCrashes`, `MaxBlock` and `MaxBatch` are bounds of the models, not of the code.
Time ends at `MaxNow` but nothing stops there, so no safety property is spared.

### Fairness

- `VolumeRegistry!FairSpec`: `WF(Trigger(id))` for each volume and `WF(Tick)`.
  Keepers are triggered by cron, send a trigger for every active volume and start
  elsewhere in the list each time (`KeeperCycle` is the reason that this amounts
  to weak fairness). No fairness is assumed of owners, payers or prices;
  `AbleVolumesAreFunded` therefore says what follows if the payer stays able.
- `EventLogStore!FairSpec`: `SF` of starting a sync to the finalized block and
  `WF` of its steps: the hourly job is started again and again, whatever backfill
  is running at one of those times. Kills are bounded by `MaxCrashes`, the
  operator's `Wipe` is not fair, and `FinalBlocksAreIndexed` therefore assumes
  a store that can be read from some point on.
- `KeeperWorker` states no fairness: that runs end is a bound on their age
  (`RunsEndInTime`), since no phase outlasts its timeouts.
- `KeeperCycle!FairSpec`: `WF` of a run's steps and of mining, and `SF(Plan(s))`
  for each start `s`: the start is `keccak256(block) mod length`, so every start
  comes up again and again. `DueVolumesAreReached` speaks of the time after `calm`
  is set, from when no request fails and nothing is evicted; what happened before
  (late transactions, gaps in the nonces) remains and must be got over. Timeouts
  and deadlines still happen.

## 4. Proofs

TLC settles small instances. These theorems hold for every value of the constants
that satisfies the assumptions in `BzzToken` (`TokenAssumption`), `PostageStamp`
(`PostageAssumption`, which says among others that no batch ID is the zero word) and
`VolumeRegistry` (`RegistryAssumption`): any owners,
payers, batches, prices, depths, word size and bounds; those about the keeper
for any endpoints, deployments, timeouts and interval (`ReportAssumption`,
`WorkerAssumption`), and for any volumes, selected ids, page size, limits and number
of pending transactions (`KeeperAssumption`); those about the indexer for any blocks, event types, range
size, kills and, but for `OneSync`, processes (`StoreAssumption`). `OneSync`, `OnlyFinal`,
`~Forgets` and `LastSend < Interval` are hypotheses of the theorems that name them.

| Theorem | Says |
|---|---|
| `TypeCorrect` | `Spec => []TypeOK`: nothing underflows |
| `ActiveSetTheorem` | `Spec => []ActiveSetConsistent` |
| `NextIdsTheorem` | `Spec => []NextIdsAreFree` |
| `Invariance` | `Spec => []Inv`, which all others of the contract use |
| `RegistryHoldsNothingTheorem` | `Spec => []RegistryHoldsNothing` |
| `TriggerRevertsTheorem` | `Spec => []TriggerRevertsOnlyOnFaults` |
| `ChargeTheorem`, `ImportTheorem` | `Spec => ChargeBuysRunway`, `Spec => ImportLeavesRunway` |
| `CauseTheorem`, `SettleTheorem` | `Spec => TriggerRetiresForCause`, `Spec => TriggersSettle` |
| `NonInterferenceTheorem` | `Spec => NonInterference` |
| `RefinementTheorem` | `Spec => ImplementsLedger` |
| `CoveredTheorem`, `KeptTheorem` | `SSpec => []PromisesAreCovered`, `SSpec => []PromisesAreKept` |
| `BatchPaysOnceTheorem`, `BatchRevertsTheorem` | `BSpec => []BatchPaysOnce`, `BSpec => []BatchRevertsOnlyOnFaults` |
| `StoreTypeCorrect`, `StoreCoversHeadTheorem` | `Spec => []StoreTypeOK`; `OnlyFinal` implies `Spec => []StoreCoversHead`; for any number of syncs |
| `EntryCompleteTheorem`, `CopiesTheorem` | `OneSync` and `OnlyFinal` imply `Spec => []EntryComplete`, `Spec => []CopiesNeedCrashes` |
| `KeeperTypeCorrect` | `Spec => []KeeperTypeOK`, of the keeper's cycle |
| `NoTailIsStarvedTheorem` | `Spec => []NoTailIsStarved` |
| `OkMeansMaintainedTheorem` | `~Forgets` implies `Spec => []OkMeansMaintained` |
| `WorkerTypeCorrect` | `Spec => []WorkerTypeOK`, of the keeper's runs |
| `RunsEndTheorem` | `Spec => []RunsEndInTime` |
| `OneRunSendsTheorem` | `LastSend < Interval` implies `Spec => []OneRunSends` |
| `NoAlertIsLostTheorem` | `Spec => []NoAlertIsLost` |
| `QuietRunsTheorem` | `Spec => []QuietRunsAreClean` |
| `DeferredTheorem` | `Spec => []DeferredVolumesAreCounted` |
| `AlertsFitTheorem` | `Spec => []AlertsFit` |

**The inductive invariant.** `TypeOK` is not inductive: a topup shifts by the depth
of a record, and a retirement indexes the list with it, and the type of a record
allows the zero values of an empty one. `Inv` adds `RecordsComplete` (a record that
exists names an owner, a batch and a depth) and `BatchesComplete` (a batch that
exists has a depth). `StepInv` goes through `Next` with one lemma per action.

**The active set.** `VolumeSteps` reduces every step to one of three: a retirement
of an Active volume, a creation under the owner's next ID, or neither. On top of
`Inv`, `RetireActiveSet` proves swap-and-pop, including the retirement of the last
volume, where the moved record and the retired one are the same; `CreationActiveSet`
needs that the next ID is unused, which `NextIdsTheorem` also rests on
(`UsedIdsStep`, `UnusedSaltsStep`).

**Payments.** `DeficitFacts` and `ShiftExact` show that a shift that fits a word
equals the product PostageStamp draws, and one that does not never gets past its
checked multiplication, so a payment passes on all it took (`PayThroughExact`).
`TriggerRevertsTheorem` needs in addition that no Active volume's recorded depth is
one Postage refuses to top up (`DepthsAllowed`, invariant because registration
refuses those), and that `_canPull` implies every condition of `transferFrom`
(`CanPullSuffices`).

`ChargeTheorem` rests on one description of what a paying call does to the payer and
to the batch (`TopupEffect` for `_triggerOne`, `PurchaseEffect` for `createVolume`).
`CauseTheorem` is about the order of the checks: whether a volume gets past the
retiring ones does not depend on its account, its payer or a pause.

**A trigger settles.** `Settled` is not an invariant; `SettleTheorem` is about a pair
of states. The volume triggered is settled because the topup leaves it exactly the
target. For another one on the same batch a topup can only shrink the deficit
(`SettledMeans`); for another one on the same payer it only takes funds and allowance
away, and a payer that could pay after it could have paid before (`StillUnable`).

**Nothing is rewritten; the ledger.** `NonInterference` follows from `VolumeSteps` and
from what each call does to a live batch. The refinement maps an account to a mandate,
`nextNonce` to the count of opened volumes, the Active volumes to the open ones and
balances to funds. It needs `OwnersMatch` (the owner in a record is the one in its ID:
otherwise a topup would charge under a mandate that is not its volume's owner's).
`LedgerStep` has a lemma per kind of step: retirements and topups are `Maintain`,
creations `Open`, account calls `Offer`, `Agree` and `Withdraw`; what happens to
batches and prices is a stutter.

**Promises.** `PromisesAreKept` is not inductive: a batch with one unit left is alive
while several blocks are promised. `PromisesAreCovered` is, relative to `Inv`: a tick
takes one price off both sides (`OneBlockLess`), a topup or a foreign payment only
adds, and whatever raises the cost per block voids the promise.

**A list of triggers.** A revert brings back a saved state, so `BatchInv` says of the
saved state what `Inv` says of the current one (`SavedOK`, as far as it can be
restored), and of the cursor that it is within the list. With it an item of a list is a
single trigger, and `TriggerSettles` and `ChecksSuffice` apply to it.
`BatchRevertsOnlyOnFaults` names a charge beyond a word as a fault, as
`TriggerRevertsOnlyOnFaults` does: with a word of any size the hypothesis that there is
not that much BZZ is not implied.

**The cache.** `StoreCoversHead` alone is not inductive: a kill between truncating and
writing the head, or another process's older head, needs to know what a sync on its way
has established. `TypeInv` gives the types, and that a sync gets no further than its
target (`Reach`), whatever that target is; `OnlyFinal` adds that the target is final
(`ReachFacts`), and so that what a range was answered is what the chain keeps.
`StoreInv` says for every process what that leaves on disk: what precedes the block it
resumed at is in the files, and of its range all but what is still pending (`SyncOK`).
It uses `headFile` as written, torn files or not, and holds for any number of processes,
because files only grow and `Wipe` waits until nobody is syncing. `EntryComplete` and `CopiesNeedCrashes` need
`OneSync` (all members of `Procs` are equal), which the code does not enforce: there is
no lock around `sync`, only an hourly schedule (ADR-0002 of the indexer). Without
it the files and the head are read in two steps, and a sync that saves in between makes
the other resume past rows it never loaded. `EntryInv` ties what was
loaded to the block the sync resumed at; `CopiesInv` ties what lies behind the head to
the kills so far (`FrontOK`).

**A run of the keeper.** `OkMeansMaintained` speaks of a run's end; `CoverInv` says
what a run knows on the way there: a plan made without a warning leaves out no volume
the run answers for; while nothing failed, each volume it is done with was maintained;
the pending transaction with its nonce, if there is one, is of the volume it is at; and
a receipt that is neither a warning nor a failure is true. This needs `KeeperInv`,
and that in turn the lemmas about the data: `ceil(n / PageSize)` pages of one block
hold the whole list (`PagesSuffice`, `PageOK`, `ListedAll`), rotation neither drops nor
repeats a volume (`RotatedFacts`), and a cut that drops one is warned about
(`CutFacts`). `CoverInv` also contains `lost = {}`: the theorem assumes `~Forgets`,
which is the very hypothesis that finding 3 does without. Under it, a
transaction of another volume that has the run's nonce would have to be in the pool,
where sending replaced it (`BroadcastWallet`).

`NoTailIsStarved` is the part of `DueVolumesAreReached` that is about the list and not
about time. The liveness property assumes that the hash of the block gives each start
again and again, and TLC checks it for lists of two volumes; the theorem says what
those starts do for a list of any length, read in pages of any size and cut at any
limit: every volume of the pinned block is put at every place of the plan by one of
them (`RotationReaches`, from where `rotateVolumes` puts each volume,
`RotatedPlaces`). A plan of `k` places therefore has each volume in it from `k` of the
starts, and the first place, which no deadline cuts, from one.

**Scheduled runs.** `RunsEndInTime` and `OneRunSends` bound the age of a run, which
each step leaves alone while it grants the run more time. The inductive invariant
(`Inv` of `KeeperWorkerProofs`) therefore bounds age and remaining time together:
`age + left <= PhaseEnd[pc]`, with one end per phase, each at least as late as the
end of the phases before it plus the phase's own timeouts; and it says that a cycle
began by `ProbeTimeout`, so that the deadline is passed in time. With it, a run that
is still sending when the next one starts contradicts `LastSend < Interval`. For the
committed timeouts (5 s, 420 s, 4 s for three attempts; 600 s) that hypothesis holds with up to
three endpoints: 473, 521 and 569 s; with four it does not (617 s).

**Reports.** `QuietRunsAreClean`, `DeferredVolumesAreCounted` and `AlertsFit` are about
lists of any length that recursive definitions add up (`Sums`) or concatenate
(`FlattenSeq`). The library's induction theorems take an operator, which the provers
cannot instantiate; `LeastNat` takes a set (a violation would have a least index), and
`UpTo` and `RecursionExists` follow from it: what a recursive definition computes is
then shown by induction on a set of indices. `ReportParts` splits the report of a cycle
into its parts: no part is empty for the wrong reason, and only two of them defer
volumes. `QuietRunsAreClean` needs a second invariant, `TidyRuns`: without it a run
might have simulated though `DRY_RUN` is off, or have found the balance below a floor that is not
set, neither of which the report would show. `AlertsFit` counts titles: of the blocks
of a message all but at most two are issues (`BlocksFacts`), and the blocks before the
first that overflows leave room for the tail, unless the header leaves none
(`FitFacts`). Nothing is assumed of the header: it is made of what the bindings hold.
A message is too long only if its header is, and once the configuration is valid nothing
but the name of the deployment makes a header long (`ReportForm`, and `SummaryFacts`: the
first failure of a cycle takes one line if it names no volume, `reporting.ts:124`).

**Only model-checked**: the liveness properties (`ExpiredVolumesRetire`,
`UnbackedVolumesRetire`, `AbleVolumesAreFunded`, `DueVolumesAreReached`,
`FinalBlocksAreIndexed`); fairness and `ENABLED` are beyond the prover. Every
invariant and every action property of the passing runs is a theorem.

## 5. Findings

1. **A resumed sync counts a range twice** (`SyncExactlyOnce`).
   A sync killed between `append_rows` and `save_head` (`cli.py:136-137`) leaves a
   range in the cache that the next sync loads as prior history and fetches again as
   fresh. `EventLog.from_rows([*prior.merged(), *fresh])` (`cli.py:144`) does not
   deduplicate, and the daily fees count its transfers twice until a later sync.
   `store.py:145-148`: "loading is where that at-least-once write becomes
   exactly-once" - true of what is loaded, not of what is projected.
   `EntryComplete` (passing) bounds the damage to the range the sync resumed with.
2. **A failover after the probe is silent** (`QuietFailover`). Warnings about
   endpoints come from the probe (`reporting.ts:182-195`). A primary that answers it
   and hangs later is skipped by the fallback transport (`client.ts:119-122`), which
   reports nothing, and the run may be `ok`. `KEEPERS.md:86`: "Emit a warning
   whenever a fallback RPC was required"; `client.ts:30-34` says how often the
   primary hangs.
3. **A run may report ok for a volume it never triggered** (`KeeperForgetful`).
   It takes a transaction that a run gave up on and its node forgot, a next run that
   reads the same pending nonce for another volume, and the network mining the old
   one. The receipt that comes back is that of the replacing transaction; its hash is
   not compared with the one sent (`runKeeperCycle.ts:349-360`), no event names the
   volume, and the outcome is `noop`. With a network that never mines what the node
   forgot (`KeeperCycle`, `Forgets = FALSE`) `OkMeansMaintained` holds. That
   replaced receipts resolve the wait is viem's behaviour, assumed here.
4. **An alert about a long binding is never delivered** (`LongProblem`). A problem of
   the configuration repeats the binding it is about (`config.ts:125`, `133`, `160`,
   `165`, `172`, `184`, `193`), the summary of a run without failed volumes repeats its first failure
   (`reporting.ts:62-68`), and the header repeats the summary (`telegram.ts:34-35`).
   62 volume ids separated by newlines are one entry of `VOLUME_IDS` of more than 4096
   characters; `fit` never cuts the header (`telegram.ts:69-80`), Telegram refuses the
   message, and only the log has it. `telegram.test.ts:86` expects every text to be
   within the limit, `index.ts:80-81` a deployment with a broken configuration to
   report "that it is". `AlertsFit` (passing) says that with a valid configuration
   only the name of the deployment can do this.
5. **A sync past the finalized block is never repaired** (`SyncAhead`). `cli.py:233`
   takes any `--to-block` (`test_cli.py:4-7` uses it on a node whose `finalized` stays
   at 0) and `cli.py:137` saves it as the synced head. What the blocks hold in the
   end, after a reorganization or once they exist, is never fetched, because the next
   sync starts after the head. `event-log.md:36`: "yielding the same `event_log` as a
   full genesis re-sync - an invariant of the event-sourced, `finalized`-only design";
   `store.py:175` calls the head the "last-synced ``finalized`` head". With syncs to
   final blocks (`Sync`, `SyncOverlap`, `OnlyFinal = TRUE`) the log is complete.

Smaller differences met on the way, without a run:

- `trigger.ts:57-59` and `runKeeperCycle.ts:263-266` rely on the estimate reverting
  `VolumeNotActive` for a volume retired since the listing; `_triggerOne` emits
  `TopupSkipped(NotActive)` and returns (`VolumeRegistry.sol:257-263`), so the
  transaction is sent, paid for and reported as "not funded". Its reason reads
  "Unknown(4)": `abi.ts` names two of the reasons of `IVolumeRegistryViews.sol:46-52`.
- `README.md:55` of the keeper and `config.test.ts:311` hold that a run fits inside
  its interval; the budget leaves out the requests between the timeouts. With one
  endpoint whose every request hangs twice, a run takes up to 615 s of 600. Runs may
  overlap, but not while the earlier one sends (`OneRunSends`).
- `runKeeperCycle.ts:112-118`
describes a try/catch per item that the batched trigger no longer has (ADR-0007,
`VolumeRegistry.sol:227-235`).
- I1 of `DESIGN.md` (an Active volume has a live
batch) holds only up to the next trigger, which is what `UnbackedVolumesRetire`
says.
- `types.ts:46-48` calls a volume `failed` "never mined" although its transaction may be
mined after the receipt timed out.

## 6. Not modelled, and why

No behaviour to check: ABI and decoding tables, the formats of bindings, wording
and redaction of reports, `GET /health`, rendering of `stat`, wallet creation,
fixtures, read-only verification of a deployment.

- The projection (`project.py`) folds the events of the contract with their amounts.
  `VolumeRegistry` leaves events out, because the contract never reads them; a
  `Projection` would need them as a log with amounts, transaction and log order.
- The artifact's entries of other deployments: a sync of each that overlaps with
  the other loses one entry (`cli.py:257-278`). `EventLogStore` keeps one.
- Exports of deployment records, stopped between the record and the latest pointer
  (`export_deployment.py:406-432`).
- Gas: a trigger may revert at any time in `KeeperCycle`, which includes the
  reverts that the floor of `trigger.ts:48` is there to prevent.
- `KeeperCycle` runs on a registry reduced to its list, not on `VolumeRegistry`, and
  one keeper at a time.

