------------------------------ MODULE Schedule ------------------------------
(***************************************************************************)
(* When and in which order queued comments are posted: the order keys, the *)
(* projection of posting times from the last activity, the worker's claims *)
(* against that projection.  Time is the Unix second the queue's clock     *)
(* shows.                                                                  *)
(***************************************************************************)
EXTENDS Integers, Sequences, FiniteSets, Functions

CONSTANTS
  Ids,        \* identifiers, as numbers: they are compared as strings
  Requests,   \* what comments say
  Hash,       \* Hash[r, t, s]: the identifier of request r at second t, salt s
  Salts,      \* 0..n, 0 for no salt
  Cooldown,   \* cooldown_period_seconds
  PutOptions, \* [flutter, immediate]: the flutter sampled, and --now
  MaxOrder,   \* i64::MAX
  MaxTime     \* bound: the clock stops here

ASSUME ScheduleAssumption ==
  /\ Ids \subseteq Nat /\ Salts \subseteq Nat
  /\ Hash \in [Requests \X (0..MaxTime) \X Salts -> Ids]
  /\ Cooldown \in Nat /\ PutOptions \subseteq [flutter : Nat, immediate : BOOLEAN]
  /\ MaxOrder \in Nat /\ MaxTime \in Nat

MinOrder == -MaxOrder - 1

NoTime == -1

VARIABLES
  now,          \* the clock
  entries,      \* entries[id]: the StoredEntry of id, or NoEntry
  lastPost, lastAttempt,  \* the two activity files, NoTime when absent
  worker,       \* [pc, id, time]: the worker task; the time is the retry deadline
                \* of a worker that cools, the journal's of one that failed
  lastEnd,      \* history: when the last attempt ended
  record,       \* history: what keeps that time: a "file" (last_post, last_attempt
                \* or the journal), the worker's "memory", or nothing, "lost"
  schedule      \* what QueueStore::schedule returns in this state, as
                \* [queue, at]: the entries in posting order, the second of each

files == <<entries, lastPost, lastAttempt>>

vars == <<now, files, worker, lastEnd, record, schedule>>

NoEntry == [request |-> "none"]

Pending(E) == {id \in Ids : E[id] # NoEntry}

Last(q) == q[Len(q)]

Latest(a, b) == IF a >= b THEN a ELSE b

Idle == [pc |-> "idle", id |-> 0, time |-> NoTime]

Init ==
  /\ now = 0
  /\ entries = [id \in Ids |-> NoEntry]
  /\ lastPost = NoTime
  /\ lastAttempt = NoTime
  /\ worker = Idle
  /\ lastEnd = NoTime
  /\ record = "file"
  /\ schedule = [queue |-> << >>, at |-> << >>]
-----------------------------------------------------------------------------
(* The projection.                                                         *)

\* The comparison entries_with_usage sorts by.
Before(E, a, b) ==
  \/ E[a].order < E[b].order
  \/ /\ E[a].order = E[b].order
     /\ \/ E[a].enqueuedAt < E[b].enqueuedAt
        \/ E[a].enqueuedAt = E[b].enqueuedAt /\ a < b

Rank(E, id) == Cardinality({x \in Pending(E) : Before(E, x, id)})

\* The entries in that order: k - 1 of them come before the k-th.
PostingOrder(E) ==
  [k \in 1..Cardinality(Pending(E)) |-> CHOOSE id \in Pending(E) : Rank(E, id) = k - 1]

PreviousActivity(post, attempt) == Latest(post, attempt)

\* The second in which an entry posts after the previous post or attempt.
PostAt(e, previous, t) ==
  LET due == IF previous = NoTime THEN t ELSE previous + Cooldown + e.flutter
  IN Latest(Latest(due, e.notBefore), t)

\* An entry waits for its predecessor, the first for the previous activity.
Projection(E, q, previous, t) ==
  LET at[k \in 1..Len(q)] == PostAt(E[q[k]], IF k = 1 THEN previous ELSE at[k-1], t)
  IN at

\* projected_schedule over the entries in sequence q: the second each posts.
ProjectedSchedule(E, q, previous, t) ==
  LET at == Projection(E, q, previous, t)
  IN [id \in Range(q) |-> at[CHOOSE k \in 1..Len(q) : q[k] = id]]

\* Every step leaves the schedule of the state it leads to.
Rescheduled ==
  \E q \in {PostingOrder(entries')} :
    schedule' = [queue |-> q,
                 at |-> ProjectedSchedule(entries', q,
                          PreviousActivity(lastPost', lastAttempt'), now')]
-----------------------------------------------------------------------------
(* Clients.                                                                *)

\* Mutant: the key grows past its range.
OrderOverflows(q) == IF q = << >> THEN 0 ELSE entries[Last(q)].order + 1

\* Mutant: new entries go to the front.
OrderAtHead(q) ==
  IF q = << >> THEN 0 ELSE Latest(entries[Head(q)].order - 1, MinOrder)

\* tail.order.saturating_add(1).
OrderAfterTail(q) ==
  IF q = << >> THEN 0
  ELSE IF entries[Last(q)].order = MaxOrder THEN MaxOrder
  ELSE entries[Last(q)].order + 1

\* Mutant: the head's own key, which leaves the order to the tie-break.
OrderOfHead(q) == entries[Head(q)].order

\* head.order.saturating_sub(1).
OrderBeforeHead(q) ==
  IF entries[Head(q)].order = MinOrder THEN MinOrder ELSE entries[Head(q)].order - 1

\* resolve_entry_id: the first salt whose identifier is free or already
\* holds this request.
ResolveSalt(r) ==
  LET free == {s \in Salts : entries[Hash[r, now, s]].request \in {r, NoEntry.request}}
  IN IF free = {} THEN {} ELSE {CHOOSE s \in free : \A u \in free : s <= u}

NewEntry(r, options) ==
  [request |-> r, order |-> OrderAfterTail(schedule.queue),
   flutter |-> options.flutter, enqueuedAt |-> now,
   notBefore |-> IF options.immediate THEN 0 ELSE now + Cooldown + options.flutter,
   claim |-> FALSE]

\* put_with_eta; a repeated request finds its entry and changes nothing.
Put(r, options) ==
  \E s \in ResolveSalt(r) :
    LET id == Hash[r, now, s] IN
    /\ entries' = IF entries[id] # NoEntry THEN entries
                  ELSE [entries EXCEPT ![id] = NewEntry(r, options)]
    /\ UNCHANGED <<now, lastPost, lastAttempt, worker, lastEnd, record>>
    /\ Rescheduled

Reorder(id, order) ==
  /\ entries[id] # NoEntry
  /\ entries' = [entries EXCEPT ![id].order = order]
  /\ UNCHANGED <<now, lastPost, lastAttempt, worker, lastEnd, record>>
  /\ Rescheduled

Bump(id) ==
  LET q == schedule.queue
  IN entries[id] # NoEntry
     /\ Reorder(id, IF Head(q) = id THEN entries[id].order ELSE OrderBeforeHead(q))

Bust(id) ==
  LET q == schedule.queue
  IN entries[id] # NoEntry
     /\ Reorder(id, IF Last(q) = id THEN entries[id].order ELSE OrderAfterTail(q))

Del(id) ==
  /\ entries[id] # NoEntry
  /\ entries' = [entries EXCEPT ![id] = NoEntry]
  /\ UNCHANGED <<now, lastPost, lastAttempt, worker, lastEnd, record>>
  /\ Rescheduled
-----------------------------------------------------------------------------
(* The worker.                                                             *)

\* claim_next_due: the head, when it is due and nothing is claimed.
Claim ==
  LET q == schedule.queue IN
  /\ worker.pc = "idle"
  /\ q # << >>
  /\ \A id \in Pending(entries) : ~entries[id].claim
  /\ schedule.at[Head(q)] = now
  /\ entries' = [entries EXCEPT ![Head(q)].claim = TRUE]
  /\ worker' = [pc |-> "posting", id |-> Head(q), time |-> NoTime]
  /\ UNCHANGED <<now, lastPost, lastAttempt, lastEnd, record>>
  /\ Rescheduled

HoldsClaim == entries[worker.id] # NoEntry /\ entries[worker.id].claim

\* The entry that still has the claim is removed, or loses the claim.
WithoutClaimed == IF HoldsClaim THEN [entries EXCEPT ![worker.id] = NoEntry] ELSE entries

Released == IF HoldsClaim THEN [entries EXCEPT ![worker.id].claim = FALSE] ELSE entries

\* complete: last_post is written whether or not the entry is still there.
Complete ==
  /\ worker.pc = "posting"
  /\ entries' = WithoutClaimed
  /\ lastPost' = now
  /\ worker' = Idle
  /\ lastEnd' = now
  /\ record' = "file"
  /\ UNCHANGED <<now, lastAttempt>>
  /\ Rescheduled

\* The error of a store operation ends run_worker; the journal may be left.
Fails(journal) == worker' = [pc |-> "failed", id |-> worker.id, time |-> journal]

\* complete fails at one of its writes: of the journal, before or after the
\* removal of the entry, or, last_post written, in removing the journal.
CompleteFails ==
  /\ worker.pc = "posting"
  /\ \/ Fails(NoTime) /\ UNCHANGED <<entries, lastPost>> /\ record' = "lost"
     \/ /\ Fails(now)
        /\ entries' \in {entries, WithoutClaimed}
        /\ UNCHANGED lastPost
        /\ record' = "file"
     \/ /\ Fails(now) \/ Fails(NoTime)
        /\ entries' = WithoutClaimed
        /\ lastPost' = now
        /\ record' = "file"
  /\ lastEnd' = now
  /\ UNCHANGED <<now, lastAttempt>>
  /\ Rescheduled

\* Mutant: only a success paces the next post.
ReleaseUnpaced ==
  /\ worker.pc = "posting"
  /\ entries' = Released
  /\ worker' = Idle
  /\ lastEnd' = now
  /\ record' = IF HoldsClaim THEN "file" ELSE "memory"
  /\ UNCHANGED <<now, lastPost, lastAttempt>>
  /\ Rescheduled

\* The post failed: release_claim records the attempt if the entry is still
\* claimed, and the worker waits out a cooldown either way.
Release ==
  /\ worker.pc = "posting"
  /\ entries' = Released
  /\ lastAttempt' = IF HoldsClaim THEN Latest(lastAttempt, now) ELSE lastAttempt
  /\ worker' = [pc |-> "cooling", id |-> worker.id, time |-> now + Cooldown]
  /\ lastEnd' = now
  /\ record' = IF HoldsClaim THEN "file" ELSE "memory"
  /\ UNCHANGED <<now, lastPost>>
  /\ Rescheduled

\* release_claim fails: to find the entry or to write last_attempt, or later,
\* with the claim still set or cleared.
ReleaseFails ==
  /\ worker.pc = "posting"
  /\ Fails(NoTime)
  /\ \/ UNCHANGED <<entries, lastAttempt>> /\ record' = "lost"
     \/ /\ HoldsClaim
        /\ lastAttempt' = Latest(lastAttempt, now)
        /\ entries' \in {entries, Released}
        /\ record' = "file"
  /\ lastEnd' = now
  /\ UNCHANGED <<now, lastPost>>
  /\ Rescheduled

\* wait_for_retry_deadline: changes of the queue do not shorten it.
Cooled ==
  /\ worker.pc = "cooling"
  /\ now >= worker.time
  /\ worker' = Idle
  /\ UNCHANGED <<now, entries, lastPost, lastAttempt, lastEnd, record>>
  /\ Rescheduled

\* Mutant: a reclaimed entry forgets when it may be posted.
UnclaimedAtOnce(E) ==
  [id \in Ids |-> IF E[id] = NoEntry THEN NoEntry
                 ELSE [E[id] EXCEPT !.claim = FALSE, !.notBefore = 0]]

Unclaimed(E) ==
  [id \in Ids |-> IF E[id] = NoEntry THEN NoEntry ELSE [E[id] EXCEPT !.claim = FALSE]]

\* The second in the completion journal, when there is one.
Journal == IF worker.pc = "failed" THEN worker.time ELSE NoTime

\* reconcile_completion finishes the completion the journal holds, then
\* reclaim_claims frees every claim.
Recovered ==
  /\ entries' = Unclaimed(IF Journal = NoTime THEN entries ELSE WithoutClaimed)
  /\ lastPost' = IF Journal = NoTime THEN lastPost ELSE Journal
  /\ worker' = Idle
  /\ UNCHANGED <<now, lastAttempt>>

\* recover_worker_state of the respawned worker.
Recover ==
  /\ worker.pc = "failed"
  /\ Recovered
  /\ UNCHANGED <<lastEnd, record>>
  /\ Rescheduled

\* recover_worker_state fails before it has freed the claims, having removed
\* the entry, written last_post or removed the journal by then.
RecoverFails ==
  /\ Journal # NoTime
  /\ entries' = WithoutClaimed
  /\ \/ Fails(Journal) /\ lastPost' \in {lastPost, Journal}
     \/ Fails(NoTime) /\ lastPost' = Journal
  /\ UNCHANGED <<now, lastAttempt, lastEnd, record>>
  /\ Rescheduled

\* The daemon stops, wherever its worker is, and is started again: an attempt
\* under way has ended, and a retry deadline is gone.
Restart ==
  /\ Recovered
  /\ lastEnd' = IF worker.pc = "posting" THEN now ELSE lastEnd
  /\ record' = IF worker.pc = "posting" \/ record = "memory" THEN "lost" ELSE record
  /\ Rescheduled

Tick ==
  /\ now < MaxTime
  /\ now' = now + 1
  /\ UNCHANGED <<entries, lastPost, lastAttempt, worker, lastEnd, record>>
  /\ Rescheduled

WorkerStep ==
  \/ Claim \/ Complete \/ CompleteFails \/ Release \/ ReleaseFails \/ Cooled
  \/ Recover \/ RecoverFails

Next ==
  \/ \E r \in Requests, options \in PutOptions : Put(r, options)
  \/ \E id \in Ids : Bump(id) \/ Bust(id) \/ Del(id)
  \/ WorkerStep
  \/ Restart
  \/ Tick

Spec == Init /\ [][Next]_vars
-----------------------------------------------------------------------------
(* Properties.                                                             *)

StoredEntry ==
  [request : Requests, order : MinOrder..MaxOrder, flutter : Nat,
   enqueuedAt : Nat, notBefore : Nat, claim : BOOLEAN]

\* Order keys stay in the range of i64 whatever is bumped and busted, and the
\* activity files and the worker have their types.
ScheduleTypeOK ==
  /\ now \in 0..MaxTime
  /\ entries \in [Ids -> StoredEntry \cup {NoEntry}]
  /\ {lastPost, lastAttempt, lastEnd} \subseteq Nat \cup {NoTime}
  /\ worker \in [pc : {"idle", "posting", "cooling", "failed"}, id : Ids \cup {0},
                 time : Nat \cup {NoTime}]
  /\ record \in {"file", "memory", "lost"}

\* Posts are paced: an attempt starts a full cooldown after the one before it
\* ended, whether that one succeeded, failed, lost its entry to a del or had
\* its bookkeeping cut short, and through recoveries and restarts, once its
\* end was written to last_post, last_attempt or the journal.  The end of a
\* failure whose entry was deleted is kept by the worker alone, until the
\* daemon stops; the end of an attempt that an error or a stop cuts off before
\* the first of these writes is lost, and the next attempt may come at once.
Paced ==
  [][worker.pc = "idle" /\ worker'.pc = "posting" =>
       lastEnd = NoTime \/ record = "lost" \/ now >= lastEnd + Cooldown]_vars

\* Every entry keeps its order key, and none leaves but the head, posted.
Undisturbed ==
  \A id \in Pending(entries) :
    IF entries'[id] # NoEntry THEN entries'[id].order = entries[id].order
    ELSE /\ entries[id].claim
         /\ id = Head(schedule.queue)
         /\ lastPost' = now

\* An announced posting time only slips: the clock, puts of others, claims,
\* completions, failures, errors and restarts never bring it forward.
\* Only del, bump and bust may, and a completion that an error interrupts
\* between the journal and last_post: the entries behind then wait from the
\* second of the post, which may be long past when the recovery writes it.
EtaOnlySlips ==
  [][Undisturbed =>
       \A id \in Pending(entries) \cap Pending(entries') :
         schedule'.at[id] >= schedule.at[id]]_vars

\* A put changes no posting time already announced, and the time it answers
\* with, computed before the write, is the one list shows after it; unless
\* the tail's order key cannot grow.
PutKeepsPromises ==
  [][\A id \in Pending(entries') \ Pending(entries) :
       LET q == schedule.queue IN
       q = << >> \/ entries[Last(q)].order < MaxOrder =>
         /\ schedule'.at = ProjectedSchedule(entries', Append(q, id),
                              PreviousActivity(lastPost, lastAttempt), now)
         /\ \A other \in Pending(entries) : schedule'.at[other] = schedule.at[other]]_vars

Without(q, id) ==
  LET at == CHOOSE k \in 1..Len(q) : q[k] = id
  IN SubSeq(q, 1, at - 1) \o SubSeq(q, at + 1, Len(q))

\* bump lowers a key to move its entry to the head, bust raises one to move
\* it to the tail, whatever keys earlier bumps and busts left, and neither
\* reorders the others.  At the ends of the key range the entry may fall
\* short of the end, no more.
MovesOne ==
  [][\A id \in Pending(entries) \cap Pending(entries') :
       entries'[id].order # entries[id].order =>
         LET q == schedule.queue
             moved == schedule'.queue
             rest == Without(q, id)
         IN /\ Without(moved, id) = rest
            /\ \/ moved = <<id>> \o rest
               \/ entries[Head(q)].order = MinOrder
               \/ entries'[id].order > entries[id].order
            /\ \/ moved = Append(rest, id)
               \/ entries[Last(q)].order = MaxOrder
               \/ entries'[id].order < entries[id].order]_vars
-----------------------------------------------------------------------------
(* The inductive invariants: ScheduleInv behind ScheduleTypeOK, Paced,     *)
(* PutKeepsPromises and MovesOne, AttemptInv behind EtaOnlySlips.          *)

\* What schedule stands for.
ScheduleIsCurrent ==
  LET q == PostingOrder(entries) IN
  schedule = [queue |-> q,
              at |-> ProjectedSchedule(entries, q,
                       PreviousActivity(lastPost, lastAttempt), now)]

\* The end of the last attempt paces the next post through the activity files,
\* the time the journal keeps, or the worker's own cooldown.
EndIsKept ==
  /\ record = "file" =>
       lastEnd <= IF Journal = NoTime THEN PreviousActivity(lastPost, lastAttempt) ELSE Journal
  /\ record = "memory" =>
       lastEnd + Cooldown <= IF worker.pc = "cooling" THEN worker.time ELSE now

ScheduleInv ==
  /\ ScheduleTypeOK
  /\ IsFiniteSet(Pending(entries))
  /\ ScheduleIsCurrent
  /\ EndIsKept

\* The activity files hold no time to come, and the journal none before
\* last_post.
ActivityIsPast ==
  /\ lastPost <= now /\ lastAttempt <= now
  /\ Journal # NoTime => lastPost <= Journal /\ Journal <= now

\* An entry has waited out its cooldown and flutter since last.
Waited(e, last) == last # NoTime => last + Cooldown + e.flutter <= now

\* id is the worker's, and was due when the attempt began.
Due(id) ==
  /\ worker.id = id /\ worker.pc \in {"posting", "failed"}
  /\ entries[id].notBefore <= now
  /\ Waited(entries[id], lastPost)
  /\ worker.pc = "posting" \/ Journal # NoTime => Waited(entries[id], lastAttempt)

ClaimIsDue == \A id \in Pending(entries) : entries[id].claim => Due(id)

AttemptInv == ScheduleInv /\ ActivityIsPast /\ ClaimIsDue
=============================================================================
