------------------------------- MODULE Wakeup -------------------------------
(***************************************************************************)
(* How a queue change reaches the worker.  The worker looks at the queue   *)
(* under the store's mutex, lets it go, and then waits: for any change     *)
(* when the queue is drained, for a change or the head's posting time, or  *)
(* out a retry cooldown.  A client's operation changes the queue under the *)
(* mutex and signals the worker later, after it has refreshed the gauges.  *)
(* Only the permit of tokio's Notify bridges the gaps.                     *)
(***************************************************************************)
EXTENDS Integers, Sequences, FiniteSets, Functions

CONSTANTS
  Ids,          \* entry identifiers
  Clients,      \* connection handlers that run a mutation
  Cooldown,
  MaxTime,      \* the clock's last second; no entry is scheduled after it
  Faults,       \* store errors that may happen, at most
  SilentPuts    \* whether a mutation may fail after its write

ASSUME WakeupAssumption ==
  /\ Cooldown \in Nat /\ MaxTime \in Nat /\ Faults \in Nat
  /\ SilentPuts \in BOOLEAN

VARIABLES
  now,
  queue,      \* the posting order
  notBefore,  \* notBefore[id]: earliest posting time of a queued entry
  floor,      \* last activity plus the cooldown
  permit,     \* the permit of SharedQueue::changed
  worker,     \* the worker task: pc, the entry it posts, the end of its wait
  clients,    \* clients[c]: "idle", or "wrote": changed but not signalled
  faults,     \* store errors so far
  silent,     \* a failed mutation changed the queue the worker last saw
  shutdown

vars == <<now, queue, notBefore, floor, permit, worker, clients, faults, silent, shutdown>>

env == <<now, clients, faults, shutdown>>

NoId == 0

At(pc) == [pc |-> pc, id |-> NoId, until |-> 0]

Queued == Range(queue)

Queues == UNION {[1..n -> Ids] : n \in 0..Cardinality(Ids)}

Without(q, id) == SelectSeq(q, LAMBDA x : x # id)

Later(a, b) == IF a >= b THEN a ELSE b

Earlier(a, b) == IF a <= b THEN a ELSE b

\* When the head is due: projected_schedule's first entry.
HeadDue == Later(notBefore[Head(queue)], floor)

\* The worker is registered with the Notify.
Registered == worker.pc \in {"drainedWait", "scheduledWait", "retryWait"}

Init ==
  /\ now = 0
  /\ queue = << >>
  /\ notBefore = [id \in Ids |-> 0]
  /\ floor = 0
  /\ permit = FALSE
  /\ worker = At("start")
  /\ clients = [c \in Clients |-> "idle"]
  /\ faults = 0
  /\ silent = FALSE
  /\ shutdown = FALSE
-----------------------------------------------------------------------------
(* Clients.                                                                *)

\* Mutant: only a worker that is already waiting hears of a change.
NotifyWaiters ==
  /\ worker' = IF Registered
               THEN [worker EXCEPT !.pc = IF @ = "retryWait" THEN "retry" ELSE "claim"]
               ELSE worker
  /\ UNCHANGED permit

\* Notify::notify_one: wakes the registered worker or leaves the permit.
NotifyOne ==
  \/ /\ Registered
     /\ worker' = [worker EXCEPT !.pc = IF @ = "retryWait" THEN "retry" ELSE "claim"]
     /\ UNCHANGED permit
  \/ /\ ~Registered
     /\ permit' = TRUE
     /\ UNCHANGED worker

\* put, bump, bust and del, as they change the posting order.  An entry put
\* during an attempt is not the one claimed, even under its identifier: here
\* it takes another, and the presence of the identifier stands for the
\* comparison of claim tokens.
Changed(q, at) ==
  \/ \E id \in Ids \ (Queued \cup {worker.id}), t \in now..MaxTime :
       q = Append(queue, id) /\ at = [notBefore EXCEPT ![id] = t]
  \/ /\ at = notBefore
     /\ \E id \in Queued :
          LET others == Without(queue, id)
          IN q \in {<<id>> \o others, Append(others, id), others}

\* The store operation returns Ok; mutation_finished has yet to signal.
Mutate(c) ==
  /\ clients[c] = "idle"
  /\ \E q \in Queues, at \in [Ids -> 0..MaxTime] :
       Changed(q, at) /\ queue' = q /\ notBefore' = at
  /\ clients' = [clients EXCEPT ![c] = "wrote"]
  /\ UNCHANGED <<now, floor, permit, worker, faults, silent, shutdown>>

\* The operation returns an error although the file was written: the sync of
\* the directory failed.  Nobody is signalled.
MutateFails ==
  /\ SilentPuts
  /\ faults < Faults
  /\ faults' = faults + 1
  /\ \E q \in Queues, at \in [Ids -> 0..MaxTime] :
       Changed(q, at) /\ queue' = q /\ notBefore' = at
  /\ silent' = TRUE
  /\ UNCHANGED <<now, floor, permit, worker, clients, shutdown>>

\* The gauges are refreshed; notify_one.
MutationFinished(c) ==
  /\ clients[c] = "wrote"
  /\ NotifyOne
  /\ clients' = [clients EXCEPT ![c] = "idle"]
  /\ UNCHANGED <<now, queue, notBefore, floor, faults, silent, shutdown>>
-----------------------------------------------------------------------------
(* The worker.                                                             *)

Goes(pc, id, until) == worker' = [pc |-> pc, id |-> id, until |-> until]

\* recover_worker_state.
RecoverWorkerState ==
  /\ worker.pc = "start"
  /\ Goes("claim", NoId, 0)
  /\ UNCHANGED <<queue, notBefore, floor, permit, silent, env>>

\* claim_next_due and the branch run_worker takes on its answer.
ClaimNextDue ==
  /\ worker.pc = "claim"
  /\ \/ queue = << >> /\ Goes("drained", NoId, 0)
     \/ queue # << >> /\ HeadDue > now /\ Goes("scheduled", NoId, HeadDue)
     \/ queue # << >> /\ HeadDue <= now /\ Goes("posting", Head(queue), 0)
  /\ silent' = FALSE
  /\ UNCHANGED <<queue, notBefore, floor, permit, env>>

\* Mutant: the drained worker does not take the permit of a change it missed.
ListenIgnoresPermit ==
  /\ worker.pc \in {"drained", "scheduled"}
  /\ worker' = [worker EXCEPT !.pc = IF @ = "drained" THEN "drainedWait" ELSE "scheduledWait"]
  /\ permit' = FALSE
  /\ UNCHANGED <<queue, notBefore, floor, silent, env>>

\* The worker starts to listen: queue.changed() when the queue is drained,
\* enable() of wait_for_scheduled_entry.  A permit ends the wait at once.
Listen ==
  /\ worker.pc \in {"drained", "scheduled"}
  /\ ~shutdown
  /\ worker' = IF permit THEN At("claim")
               ELSE [worker EXCEPT !.pc = IF @ = "drained" THEN "drainedWait" ELSE "scheduledWait"]
  /\ permit' = FALSE
  /\ UNCHANGED <<queue, notBefore, floor, silent, env>>

\* The sleep of wait_for_scheduled_entry ends.
SleepElapsed ==
  /\ worker.pc = "scheduledWait"
  /\ ~shutdown
  /\ now >= worker.until
  /\ Goes("claim", NoId, 0)
  /\ UNCHANGED <<queue, notBefore, floor, permit, silent, env>>

\* The post succeeded: complete removes the entry, if it is still there.
Complete ==
  /\ worker.pc = "posting"
  /\ queue' = IF worker.id \in Queued THEN Without(queue, worker.id) ELSE queue
  /\ floor' = Earlier(now + Cooldown, MaxTime)
  /\ Goes("claim", NoId, 0)
  /\ UNCHANGED <<notBefore, permit, silent, env>>

\* The post failed: release_claim, then the retry deadline.
Release ==
  /\ worker.pc = "posting"
  /\ floor' = IF worker.id \in Queued THEN Earlier(now + Cooldown, MaxTime) ELSE floor
  /\ Goes("retry", NoId, Earlier(now + Cooldown, MaxTime))
  /\ UNCHANGED <<queue, notBefore, permit, silent, env>>

\* Mutant: a queue change ends the retry wait like any other.
RetryTurnWoken ==
  /\ worker.pc = "retry"
  /\ worker' = IF permit \/ now >= worker.until THEN At("claim")
               ELSE [worker EXCEPT !.pc = "retryWait"]
  /\ permit' = FALSE
  /\ UNCHANGED <<queue, notBefore, floor, silent, env>>

\* One turn of wait_for_retry_deadline: past the deadline the wait is over;
\* a permit is consumed and the wait goes on.
RetryTurn ==
  /\ worker.pc = "retry"
  /\ \/ /\ now >= worker.until
        /\ Goes("claim", NoId, 0)
        /\ UNCHANGED permit
     \/ /\ now < worker.until
        /\ ~shutdown
        /\ worker' = IF permit THEN worker ELSE [worker EXCEPT !.pc = "retryWait"]
        /\ permit' = FALSE
  /\ UNCHANGED <<queue, notBefore, floor, silent, env>>

RetryElapsed ==
  /\ worker.pc = "retryWait"
  /\ ~shutdown
  /\ now >= worker.until
  /\ Goes("claim", NoId, 0)
  /\ UNCHANGED <<queue, notBefore, floor, permit, silent, env>>

\* A store error ends the task: in recover_worker_state, claim_next_due,
\* complete or release_claim.
Fails ==
  /\ worker.pc \in {"start", "claim", "posting"}
  /\ faults < Faults
  /\ faults' = faults + 1
  /\ Goes("down", NoId, 0)
  /\ UNCHANGED <<now, queue, notBefore, floor, permit, clients, silent, shutdown>>

\* supervise_task, after its backoff.
Respawn ==
  /\ worker.pc = "down"
  /\ ~shutdown
  /\ Goes("start", NoId, 0)
  /\ UNCHANGED <<queue, notBefore, floor, permit, silent, env>>

\* Every wait watches the shutdown signal first: run_worker returns.
StopWaiting ==
  /\ shutdown
  /\ worker.pc \in {"drained", "scheduled", "retry", "drainedWait", "scheduledWait", "retryWait"}
  /\ Goes("stopped", NoId, 0)
  /\ UNCHANGED <<queue, notBefore, floor, permit, silent, env>>

\* supervise_task aborts a task that has not returned when its grace is over,
\* and starts none.
Abort ==
  /\ shutdown
  /\ worker.pc # "stopped"
  /\ Goes("stopped", NoId, 0)
  /\ UNCHANGED <<queue, notBefore, floor, permit, silent, env>>

Tick ==
  /\ now < MaxTime
  /\ now' = now + 1
  /\ UNCHANGED <<queue, notBefore, floor, permit, worker, clients, faults, silent, shutdown>>

Shutdown ==
  /\ ~shutdown
  /\ shutdown' = TRUE
  /\ UNCHANGED <<now, queue, notBefore, floor, permit, worker, clients, faults, silent>>

WorkerStep ==
  \/ RecoverWorkerState \/ ClaimNextDue \/ Listen \/ SleepElapsed
  \/ Complete \/ Release \/ RetryTurn \/ RetryElapsed \/ Respawn \/ StopWaiting

Next ==
  \/ \E c \in Clients : Mutate(c) \/ MutationFinished(c)
  \/ MutateFails
  \/ WorkerStep
  \/ Fails
  \/ Abort
  \/ Tick
  \/ Shutdown

Spec == Init /\ [][Next]_vars

\* The runtime polls every ready task, and time passes: the clock and the
\* supervisor's grace.
Fairness ==
  /\ WF_vars(WorkerStep)
  /\ WF_vars(Abort)
  /\ WF_vars(Tick)
  /\ \A c \in Clients : WF_vars(MutationFinished(c))

LiveSpec == Spec /\ Fairness
-----------------------------------------------------------------------------
(* Properties.                                                             *)

\* Some client has changed the queue and is about to signal.
SignalPending == permit \/ \E c \in Clients : clients[c] = "wrote"

\* No wakeup is lost: a worker that sleeps on the change signal sleeps for
\* the right reason, the drained queue being empty and the awaited second
\* that of the head, unless a signal is on its way; this although it looked
\* at the queue before it began to listen.  (A mutation that failed after
\* its write signals nobody.)
NoMissedWakeup ==
  ~SignalPending /\ ~silent =>
    /\ worker.pc = "drainedWait" => queue = << >>
    /\ worker.pc = "scheduledWait" => queue # << >> /\ worker.until = HeadDue

\* A change of the queue never shortens a retry cooldown: the worker leaves
\* it at the deadline or because the daemon stops.
RetryKeepsItsDeadline ==
  [][worker.pc \in {"retry", "retryWait"} /\ worker'.pc \notin {"retry", "retryWait", "stopped"}
       => now >= worker.until]_vars

\* What is queued is attempted: while entries wait, the worker posts again
\* and again, whatever clients do in between and however the task fails and
\* is respawned.  Only a mutation that failed after its write, and woke
\* nobody, may leave an entry behind that the worker has not seen.
QueuedIsAttempted ==
  queue # << >> ~> worker.pc = "posting" \/ queue = << >> \/ shutdown \/ silent

-----------------------------------------------------------------------------
(* The inductive invariant behind NoMissedWakeup.                          *)

\* What the worker saw stays true from its look at the queue, through the gap
\* in which it does not listen yet, to the end of its wait, unless a signal is
\* on its way.
WakeInv ==
  /\ DOMAIN clients = Clients
  /\ worker = [pc |-> worker.pc, id |-> worker.id, until |-> worker.until]
  /\ ~SignalPending /\ ~silent =>
       /\ worker.pc \in {"drained", "drainedWait"} => queue = << >>
       /\ worker.pc \in {"scheduled", "scheduledWait"} =>
            queue # << >> /\ worker.until = HeadDue
=============================================================================
