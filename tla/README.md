# comenq: TLA+ models and proofs

comenq accepts GitHub comments from local clients, queues them on disk and
posts them one at a time under a cooldown. This directory models the daemon and
its client where correctness depends on interleavings, crashes, timing, limits
or the order of file operations, checks the models with TLC and proves the
central properties with TLAPS.

## The system

| Part | Code | Modules |
| --- | --- | --- |
| Queue store: entries, `last_post`, `last_attempt`, completion journal, deletion markers | `comenqd/src/store.rs`, `store/scheduling.rs`, `store/completion.rs`, `store/await_deletions.rs` | `QueueStore`, `Delivery`; what it promises: `Outbox` |
| Queue limits | `store/bounds.rs` | `QueueBounds` |
| Order, posting times, identifiers | `store.rs`, `store/scheduling.rs` | `Schedule` |
| History log | `store/history.rs`, `store/history/` | `QueueStore` (append, attempt search), `AwaitLookup` (newest completion), `HistoryPages` (paging) |
| Shared queue: mutex, generation, change signal | `queue.rs`, `queue/` | `Delivery`, `AwaitLookup`, `Wakeup` |
| Worker task | `worker.rs` | `Delivery`, `Wakeup`, `Schedule` |
| Supervisor | `supervisor.rs` | `Supervisor`; `Delivery` (start-up order, restart of the worker) |
| Foreground await | `queue/await_lookup.rs`, `store/await_lookup.rs`, `listener/await_handler.rs` | `AwaitLookup` (answers), `Session` (permits, frames) |
| Listener, protocol, client | `listener.rs`, `listener/`, `src/protocol.rs`, `comenq/src/client.rs`, `comenq-transport` | `Session`, `HistoryPages`, `Supervisor` (accept loop) |

A client's request reaches the store through `SharedQueue`, which runs every
store operation under one mutex and publishes a generation when a mutating
operation succeeds; the handler then refreshes the gauges and signals the
worker. The worker claims the head entry, releases the mutex, posts, and
completes or releases the claim. The supervisor opens the store, then starts
the listener and the worker, and restarts either when it fails.

One model of all of this would be out of TLC's reach. Each module keeps the
whole control of its part and abstracts the others to what they can do to it:
`Delivery` lets the worker claim any queued entry, `Schedule` says which one and
when; `Wakeup` keeps of a post only how it ends, `Delivery` has its file
operations; `Session` lets an awaited entry settle at any time, `AwaitLookup`
says what a lookup then returns. `AwaitLookup` composes the waits with
`Delivery` itself.

## Modules

Definitions marked *Mutant* are wrong variants of the definition after them,
which show that a property depends on it. Ghost variables record what happened;
no guard reads them unless said so.

**QueueStore** holds the files as variables and one operator per file operation.
A *lifetime* of an identifier runs from the `put` that creates its entry file to
the file's removal; the persisted incarnation names it. One number stands for
the claim token, the attempt identifier and the second of the attempt: each
claim leads to at most one attempt, and the clock is assumed monotone. `unsynced`
remembers entry files removed since their directory was last synced.

**Delivery** adds the worker, the clients, GitHub and the faults. A client
operation is one action, because it runs under the mutex. An operation of the
worker that writes several files is one action per file; while `pc` is in
`LockedSteps` no client action is enabled. Each such action has an outcome `ok`:
with `ok = FALSE` it reports an error, its write done or not (for an append:
nothing, a torn line or the whole line). An error ends the worker task, or the
process when it happens in `open`.

| Action | Code |
| --- | --- |
| `Put`, `Reorder`, `Del`, `DelFails` | `put_with_eta`; `bump`, `bust`; `del` |
| `Claim` | `claim_next_due` with a due head |
| `Accept`, `PostOk`, `PostErr` | GitHub; the two ways `post_comment` returns |
| `RecordFailure`, `ReleaseClaim`, `ClearClaim`, `NothingToRelease`, `Cooled` | failure path of `run_worker`, `release_claim`, retry wait |
| `WriteCompletion`, `AppendCompletionHistory`, `ClearMarker`, `RemoveCompleted`, `WriteLastPost`, `RemoveCompletion` | `complete_claim_with_token`, `reconcile_completion` |
| `Open`, `RecoverWorkerState`, `ReclaimClaims`, `ReconcileAwaitDeletions` | `open`, `recover_worker_state` |
| `ReadFails`, `Respawn`, `Crash`, `PowerLoss` | read errors, `supervise_task`, end of the process |

Its ghosts are `claims`, `accepted`, `born`, `latest`, `acked` and `deleted`;
fresh UUIDs are drawn outside `born` and `claims`, and GitHub's answer depends
on `accepted`.

**Outbox** is the abstract specification: a comment is absent, queued, delivered
or withdrawn; it is delivered only when GitHub has created it, leaves the queue
only by delivery or its client's `del`, and only a loss of power brings
withdrawn comments back. **DeliveryOutbox** maps `Delivery` to it: the status of
a lifetime is read off its success line, else its entry file.

**AwaitLookup** adds waits. `QueueStep` runs a step of `Delivery` and tells every
waiter of a published generation. A lookup observes under the mutex, reads the
marker and the history without it, and observes again; `moved` and `seen` stand
for the generation counter as a lookup and a subscription compare it. `look`
bounds the worker's fruitless polls to one per change, since each publishes.

**QueueBounds** models admission in bytes. An entry is the width of its order
key, whether it carries a claim token, whether it is a legacy file without
incarnation, the bytes (`gap`) a rewrite adds for `not_before` and `claim_token`
when such a file lacks them, and the bytes of the rest. `Put`, `Reorder`, `Claim`,
`Release`, `Remove` check and write as `bounds.rs` does; `ValidateExistingLimits`,
`ReclaimOne` and `Opened` are `open`; `Damage` makes a file unreadable. Nothing in
the code reserves the gaps, so the three properties are about a store that is up
with room for them as well (`HasRoom`), from then on and through every restart.

**Schedule** has the clock, the entries' order keys, flutter and floors, the two
activity files and the worker's claims. `Put` resolves a salted identifier, `Bump`
and `Bust` saturate at the ends of the key range, `WorkerStep` claims, completes,
releases, cools down and recovers. `CompleteFails`, `ReleaseFails` and
`RecoverFails` end the worker at any of the writes of `complete`, `release_claim`
and `recover_worker_state`, the first included; `Restart` is a crash in any of
these states, with the recovery of the next start. The ghosts `lastEnd` and
`record` say when the last attempt ended and what remembers it: a file, the
worker's memory or, after an error or a crash before the first write, nothing.

**Wakeup** has tokio's `Notify` as a permit and a registered waiter. A client
changes the queue (`Mutate`) and signals in a later step (`MutationFinished`);
the worker looks at the queue, lets the mutex go and begins to listen in a later
step too. An entry put while an attempt is under way takes an identifier other
than the attempt's, so that presence in the queue stands for the comparison of
claim tokens. `MutateFails` is an operation that wrote and then failed, `Fails` and
`Respawn` an error of the worker, `Abort` the end of the supervisor's grace.

**HistoryPages** has the log as lines with byte offsets. `AppendRecord` and
`AppendTorn` repair a missing newline first; `Serve` reads one page under the
mutex and cuts it to the frame limit; `Receive` shows it and asks for the next.

**Session** has one connection per client: client and handler steps, the frames
in the socket, the awaiters' permits, an entry that changes, shutdown and exit.
A deadline is a step that may happen whenever its wait is pending. `bump`, `bust`
and `del` are one request, `reorder`; only `list` and `hist` have responses too
large for a frame, and a response that does not serialize is left out.

**Supervisor** has both supervisors (`TaskEnded`, `RespawnTask`, `SeesShutdown`,
`GraceOver`), their tasks, the accept loop with its own backoff, the shutdown
signal and the exit.

`MC*` modules hold constants and symmetry for TLC; `*Proofs` and
**DeliveryTypes** hold lemmas and theorems.

## Runs

| Run | Checks | Shows |
| --- | --- | --- |
| `delivery_crash` | `TypeOK`, `RecordedIsReal`, `RecordedOnce`, `RecordedNeverReposted`, `AnchorCoversRecorded`, `MarkerMatchesLatest`, `RemovedOnlyWhenDone`, `Delivered` | posts, history and markers agree through errors and crashes; after the faults every acknowledged comment is posted or deleted |
| `delivery_power` | `NothingLost`, `ReadyToClaim`, `ImplementsOutbox` | with loss of power, nothing acknowledged is lost and the store implements `Outbox` |
| `await` | `PostedIsSelected`, `RemovedIsAccounted`, `PostedIsLatest`, `UnknownIsUnposted`, `WaitEnds` | a wait answers for the right lifetime, and ends |
| `wakeup` | `NoMissedWakeup`, `RetryKeepsItsDeadline`, `QueuedIsAttempted` | no change is slept on, no change shortens a retry, entries are attempted |
| `schedule` | `ScheduleTypeOK`, `Paced`, `EtaOnlySlips`, `PutKeepsPromises`, `MovesOne` | recorded attempts pace the next, announced times only slip, order |
| `queue_bounds` | `NoEntryBlocksTheScan`, `MutationsFit`, `NeverRefusedAgain` | with room for what legacy files lack, entries can be mutated, scanned and reopened |
| `session` | `PermitsBalance`, `OneTerminalFrame`, `ReportsAreTrue`, `LabelsNameTheOutcome`, `GoneClientIsDropped`, `SettledWaitEnds` | permits, frames, reports and labels agree with what happened; no handler outlives its client or its entry |
| `history_pages` | `ShowsTheSnapshot`, `CursorsAreHonoured`, `HistEnds` | paging over a growing, torn and repaired log |
| `supervisor` | `OneInstance`, `RestartsSlowDown`, `ShutdownExits`, `FailedIsRestarted` | restarts and shutdown in every order |
| `delivery_post_reflected`, `await_cursor`, `queue_bounds_legacy` | `PostReflected`, `RemovedIsDeleted`, `BudgetCoversMutations`, violated | see findings |

Bounds.

- Delivery: two identifiers and two faults, for an error whose recovery fails as
  well. Two lifetimes let an identifier be reused, or two comments be queued, with
  liveness; a third lifetime, with loss of power and without liveness, lets one
  identifier be reused beside another comment. One identifier, two lifetimes and
  one fault for waits; the same properties were also checked with two faults
  (3.7 million states, too long for a regular run). The number of claims is
  bounded by lifetimes and faults.
- QueueBounds: widths as in the code (20-digit keys, 38-byte UUIDs), legacy files
  with and without `not_before`, a third identifier for an entry beyond the limit
  of two; limits of 242 and 503 bytes stand for the real ones and are met exactly
  by some sums of the two bodies, so that every comparison is hit on both sides.
- Schedule: three identifiers, keys from -2 to 1, so that three moves saturate,
  seconds 0 to 2 with a cooldown of 1, flutter 0 or 1, one request per second, put
  again under its identifier when it was deleted within the second. An attempt
  that ends at 0 or 1 can be followed too soon or in time; announced times reach
  beyond the last second.
- Wakeup: two entries, two clients, so that one signals while the other writes,
  one error, seconds 0 to 2.
- HistoryPages: four lines of sizes 1, 2 and 6 (too large for a frame of 8),
  pages of two, limits 0, 1, 3 and none.
- Session: two waits share one permit, and every kind of request runs beside a
  client that ends before it connects; connections share nothing but permits, the
  entry and shutdown. A socket holds one frame.
- Supervisor: delays 1 to 3 before jitter, a stable run of 2, three failures
  counted in a row.

Deadlock is not checked: in every model a bound on lifetimes, time or lines, an
answered client or an ended process may leave nothing to do. That nothing stops
too early is what the liveness properties say.

Fairness. tokio polls every ready task, timers fire, and the service manager
restarts the daemon; clients and faults owe nothing.

- `Delivery!FairSpec`: the worker's and start-up's successful steps and GitHub's
  answer to the request in flight. `FairAwaitSpec` adds each handler's lookup
  steps and its notification, not the heartbeat.
- `Wakeup`: the worker, the supervisor's abort, the clock, and the signal of a
  client that has changed the queue.
- `HistoryPages`: the daemon answers and the client reads; appends are not fair.
- `Session`: each handler, and each client that has not left. A handler blocked on
  a full socket has its write timeout as a step.
- `Supervisor`: supervisors, clock, the accept loop. `select!` picks at random
  among ready branches, so a shutdown that stays ready is seen: weak fairness of
  `SeesShutdown`.

## Findings

- **`PostReflected`.** `reconcile_completion` removes the entry without syncing
  `entries/` but syncs the removal of the journal. After a loss of power the
  entry may be back, without journal, and is posted again.
- **`RemovedIsDeleted`.** When `complete` fails after the history append and
  before the removal, a wait that begins then takes a boundary past the success;
  after recovery it ends with "comment was removed" although the comment was
  posted. `RemovedIsAccounted` shows that this is the only way.
- **`BudgetCoversMutations`.** A legacy file without `not_before` gains 19 bytes at
  its first rewrite, one without `claim_token` 23, and `entry_headroom` reserves
  only the incarnation. A nearly full directory of such files is validated, the
  reclaim of the first uses the room of the second, and the start is refused. The
  comment on `entry_headroom` says that "a later mutation cannot exceed the bytes
  already budgeted".

Further observations, which no run checks:

- `Paced` excepts an attempt whose end is `lost`. `release_claim` writes no
  `last_attempt` when the entry was deleted during the failing post, so that a
  restart forgets the attempt, although the design document says the file records
  the most recent failed attempt. An error before the first write of `complete` or
  `release_claim`, and a crash during a post, leave no record either, and the
  recovered worker may post at once.
- An ETA comes forward without a client's doing when a completion is cut short
  between the journal and `last_post`: recovery writes the second of the post.
- `QueuedIsAttempted` excepts `silent`: a `put` that wrote its entry and then
  failed signals nobody, and a drained worker sleeps on until the next signal.
- A request stored under a salted identifier is queued again when the entry it
  collided with was deleted in the same second (`ResolveSalt` tries the unsalted
  identifier first).
- An operation that changed the queue and then failed keeps the projection of
  ETAs that awaiters share; gauges are set outside the mutex, so an older snapshot
  can be published last. Neither is part of a model.
- The accept loop retries for ever, although `run_listener` is documented to
  return an error when accepting a connection "fails after retries".

## Proofs

Every theorem is about all values of the constants: any sets of identifiers,
lifetimes, clients and waits, any limits, delays and fault bounds. What a theorem
takes as a hypothesis beyond the constants' types is said here.

| Module | Theorem | States |
| --- | --- | --- |
| `DeliveryProofs`, on `DeliveryTypes` | `InvHolds` | `[]Inv` |
| | `TypeCorrect`, `AtLeastOnce`, `HistoryTruthful`, `NeverRecordedTwice`, `ClaimsStartClean` | `[]` of `TypeOK`, `NothingLost`, `RecordedIsReal`, `RecordedOnce`, `ReadyToClaim` |
| | `RemovalIsJustified` | `RemovedOnlyWhenDone` |
| | `OutboxImplemented` | `ImplementsOutbox` |
| `PostsProofs` | `NeverReposted`, `AnchorCovers`, `MarkersAgree`, if `~PowerFails` | `[]` of `RecordedNeverReposted`, `AnchorCoversRecorded`, `MarkerMatchesLatest` |
| `AwaitProofs` | `PostedAsSelected`, `RemovedAsAccounted` | `[]` of `PostedIsSelected`, `RemovedIsAccounted` |
| | `PostedAsLatest`, `UnknownAsUnposted`, if `~PowerFails` | `PostedIsLatest`, `UnknownIsUnposted` |
| `SessionProofs` | `PermitsComeBack`, `OneLastFrame`, `ReportsHold`, `LabelsHold` | `[]` of `PermitsBalance`, `OneTerminalFrame`, `ReportsAreTrue`, `LabelsNameTheOutcome` |
| `QueueBoundsProofs` | `NothingBlocksTheScan`, `ChangesAlwaysFit`, `AcceptedForGood` | `NoEntryBlocksTheScan`, `MutationsFit`, `NeverRefusedAgain` |
| | `ValidatedHasRoom` | without gaps, what `validate_existing_limits` accepts has room |
| `ScheduleProofs` | `OrderKeysSaturate`, `PostsArePaced` | `[]ScheduleTypeOK`, `Paced` |
| | `PutsKeepPromises`, `BumpAndBustMoveOne`, `AnnouncedTimesOnlySlip` | `PutKeepsPromises`, `MovesOne`, `EtaOnlySlips` |
| `DaemonProofs` | `NoWakeupIsMissed`, `RetryWaitsItOut` | `[]NoMissedWakeup`, `RetryKeepsItsDeadline` |
| | `NeverTwoInstances`, `RestartsGrowSlower`, `StaysUpUntilShutdown` | `[]OneInstance`, `RestartsSlowDown`; the daemon ends only after the shutdown signal |
| | `ListingsShowTheSnapshot`, `DaemonHonoursItsCursors` | `[]ShowsTheSnapshot`, `[]CursorsAreHonoured` |

Hypotheses. `~PowerFails` is needed: `PostReflected` shows what a loss of power
does, and a lookup that reads the newest lifetime rests on the markers, which a
loss of power may bring back. The assumptions on the constants are their types
and that `NoInc` is no lifetime; that `Ids` is finite in `QueueBounds`, where it is
summed over, that a new order key may have one digit, and that `Headroom` covers the growth of an order key and a claim
token, as the code's constant does; that identifiers and salts are numbers in
`Schedule`, which compares them; that `Supervisor`'s stable run and its bound on
the failures it counts, and the pages, records, permits and buffers of
`HistoryPages` and `Session`, are at least 1; and that the kinds of failure in `Session`
are the categories of `StoreError`.

None of these properties is inductive.

- `NothingLost` is disturbed by `RemoveCompleted`, which removes the entry that
  carries the journal's token. The removal is harmless because the journal's
  lifetime is recorded by then (`JournalPhase`) and because a token names one
  lifetime wherever it is stored (`TokensNameLifetimes`), so the entry with that
  token is that lifetime, whatever was deleted or put meanwhile. A power loss
  restores files; it cannot overwrite a newer entry, because writing an entry
  syncs the directory (`RemovedStayAbsent`). `RecordedOnce` needs that
  `append_once` looks far enough back (`LinesOfAttempt`), `RecordedIsReal` that
  only accepted attempts reach the journal (`PostedIsAccepted`), and
  `ReadyToClaim` that every path to `idle` has settled the one claim there can be
  (`ClaimPhase`).
- The refinement needs `OutboxInv` beside `Inv`: a lifetime is in one place
  (`OnePlace`), or removing its file would not withdraw it, and every lifetime in
  a file or a claim has been submitted. Each kind of step has its lemma: a
  created file is `Submit`, GitHub's answer `Post`, a success line `Deliver`, a
  removed file `Withdraw` or a stutter when it is delivered, a loss of power
  `Restore`.
- `PostsInv`: the attempt in progress and the journal are the newest claim
  (`NewestClaim`), a recorded lifetime still queued has its removal ahead of it
  (`RemovalAhead`), and a recorded success is in `last_post` or in the journal
  that will write it (`AnchorAhead`).
- `MarkerInv`: the newest lifetime of an identifier is the one in its files
  (`LatestIsOwn`); a marker that is missing or too many is put right by a step
  that is still to come (`MarkerAhead`, `MarkerCleared`).
- The waits. A step of `AwaitLookup` is a step of `Delivery` or a failed read, so
  the invariants above hold while clients wait. `FoundInv`: the line a scan found
  stays what it was while the history grows. `SelectionInv`: a selected lifetime is
  queued until it is deleted or recorded, so a lookup that misses the entry and
  finds no line can blame only a deletion or a line before its boundary; a lifetime
  never changes its identifier (`PlacesOwnClaims`). `NewestInv`, for a wait that
  selected nothing: successes stand in the history in the order of their claims
  (`SuccessesInOrder`), an older lifetime is not claimed after the newest
  (`ClaimsFollowLatest`), and as long as no generation overtakes the lookup, what
  it has read is about the newest lifetime (`NewestLookup`).
- `SessionInv` says of each connection how far handler and client are
  (`Phases`), which reply and labels are prepared (`Prepared`), which frames are
  under way (`InFlight`), what the handler has recorded (`Accounted`) and what the
  client may conclude (`Told`). Connections meet only in the permits and the entry;
  a step of one keeps the others' part (`OtherConnections`).
- `Kept` holds from the first state that is up and has room. Its part `HasRoom`
  says that the number of files, their bytes with the headroom reserved and the
  bytes they lack, and each entry by itself, fit the limits; `BoundsInv`, which
  always holds, that the files have their types and that a serving store has
  rewritten every file that lacks a field, so that a put finds none it could
  starve. A rewrite moves bytes between an entry's size, its headroom and what it
  lacks, and never adds to their sum (`Balance`, `LackingSplit`); the totals are
  split into the entry concerned and the others (`UsageSplits`). The library's
  sum over a set is a choice of an enumeration; that it is a sum at all is proved
  by a least counterexample among the subsets (`Smallest`, `SumsAgree`,
  `SumAdds`).
- `ScheduleInv`: what `schedule` shows is the projection of the state
  (`ScheduleIsCurrent`), and the end of the last attempt, unless it is lost, is
  kept where the next claim looks: in the activity files, in the journal while
  there is one, in the worker's cooldown, or it is a cooldown ago (`EndIsKept`).
  `Paced` then needs that the head of the queue posts a cooldown after the previous
  activity (`HeadWaits`). Sorting is stated by rank: the key order is total and transitive,
  so the ranks of the entries are exactly 0 to their number less one, and the
  sequence read off them is a permutation in key order (`RanksGrow`,
  `RanksAreTaken`, `OrderIsSorted`). That the recursive projection exists and
  unfolds is proved by a least counterexample too (`ProjectionExists`).
- Two queues are compared through what they have in common: a sequence that lists
  a set of entries in key order (`Arranged`) is the only one
  (`ArrangedIsUnique`). So the queue after a put is the old one with the new
  entry behind it (`PutAppends`), and the projection of a common beginning is the
  same (`PrefixProjects`); and a bump or a bust removes one entry from its place
  and puts it at an end, since the key it writes is beyond all others unless it
  saturates (`ReorderMoves`, `EndsBound`).
- `AttemptInv`, for `EtaOnlySlips`: no activity file is ahead of the clock, nor
  behind what the journal will write (`ActivityIsPast`), and a claimed entry is
  the worker's and was due when the attempt began (`ClaimIsDue`). A step that
  leaves the order alone then only delays (`Delays`): the survivors keep their
  order, floors and flutter, clock and activity do not go back, and an entry that
  left was due, so that `last_post` makes up for its place. Along the queue,
  each survivor waits for no less than before (`AwaitedSlips`), so none posts
  sooner; again by a least counterexample (`TimesSlip`).
- `WakeInv` extends `NoMissedWakeup` to the gap between the worker's look at the
  queue and its wait: what it saw is still so, or a signal is pending.
- `SupervisorInv`: an instance exists exactly while its task runs or is being
  aborted, and tasks return and supervisors end only on shutdown. `SlowInv`: what
  the backoff yields next has kept up with the failures in a row.
- `PagesInv`: what a listing has shown, the page under way and the records behind
  the cursor it will ask with make up what it wanted of the snapshot. Appends
  leave this alone, because the log only grows and a repair only ends a torn line:
  the lines below the snapshot's end, and their offsets, stay what they were.

Each proof has one lemma per conjunct, with one step per action that can disturb
it, and frame lemmas for the others.

The inductive invariants are proved preserved by every step, so no run repeats
them.

Only model-checked: liveness (`Delivered`, `WaitEnds`, `QueuedIsAttempted`,
`GoneClientIsDropped`, `SettledWaitEnds`, `HistEnds`, `ShutdownExits`,
`FailedIsRestarted`), which needs fairness and `ENABLED`. Every safety and action
property of the passing runs has a theorem.

`Schedule`, `Wakeup` and `HistoryPages` spell out the few helpers on sequences they
use: with the library's sequence module in scope the provers take several times
as long over every step.

## Not modelled

- Loss of power after a failed sync of marker, journal or history: such a write
  is taken as done or not done at once, so that `NothingLost` and
  `ImplementsOutbox` count on a history line that was read back. The removal of a
  marker or the journal and the sync after it are one step.
- A clock that steps back: attempts are ordered by claim, and seconds only grow.
- In `Delivery`, legacy entries and unreadable entry files, which `QueueBounds`
  has, and a failing start-up size check other than as an error of
  `ReclaimClaims`.
- Argument parsing, rendering, request validation by character and JSON encoding:
  functions of their input without state. Sizes, kinds and outcomes of requests
  are modelled, their text is not.
- Which token posts, and how the pool is put together: a function of the settings
  and the newest history record, on which no modelled part depends. Other settings
  are constants here.
- The socket's files (bind, chmod, rename) and the client's list of candidate
  sockets: `Supervisor` takes preparing the listener as a step that succeeds or
  fails. How the client's deadlines compare with the daemon's heartbeat, and the
  cadence of its countdown lines: `Session` has no clock.
- The projection of ETAs that awaiters share, and two requests with colliding
  identifiers in one second: their states multiply those of `Schedule` beyond what
  TLC covers in minutes.
- Logging, gauges, counters and histograms, which nothing reads, but for the
  labels of finished requests; creation and mode of the socket's directory.
- Vendored code, packaging, test support.
