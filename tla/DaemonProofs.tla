---------------------------- MODULE DaemonProofs ----------------------------
(***************************************************************************)
(* The daemon's tasks and its history listings.  No wakeup of the worker   *)
(* is lost, and none shortens a retry cooldown, for any number of clients, *)
(* entries and store errors and any cooldown.  There is never a second     *)
(* instance of a supervised task, the daemon exits only on shutdown, and   *)
(* failing tasks are restarted ever more slowly, for all delays and        *)
(* any number of failures.  A listing shows its snapshot of the log, and   *)
(* the daemon honours the cursors it gave, for any log, page size, frame   *)
(* size and limit.                                                         *)
(***************************************************************************)
EXTENDS Wakeup, Supervisor, HistoryPages,
        FiniteSetTheorems, SequenceTheorems, WellFoundedInduction, TLAPS
-----------------------------------------------------------------------------
(* The worker's wakeups.                                                   *)

\* The queue as the worker saw it: HeadDue, and whether there is a head.
Seen == <<queue, notBefore, floor>>

LEMMA SeenIsSame ==
  ASSUME UNCHANGED Seen
  PROVE  queue' = queue /\ HeadDue' = HeadDue
  BY Zenon DEF Seen, HeadDue, Later

\* The task record of a worker that moves on.
LEMMA TaskRecord ==
  ASSUME NEW pc, NEW id, NEW until, Goes(pc, id, until)
  PROVE  /\ worker' = [pc |-> worker'.pc, id |-> worker'.id, until |-> worker'.until]
         /\ worker'.pc = pc /\ worker'.id = id /\ worker'.until = until
  BY DEF Goes

LEMMA TaskUpdate ==
  ASSUME WakeInv, NEW pc, worker' = [worker EXCEPT !.pc = pc]
  PROVE  /\ worker' = [pc |-> worker'.pc, id |-> worker'.id, until |-> worker'.until]
         /\ worker'.pc = pc /\ worker'.until = worker.until
<1> DEFINE w == [pc |-> worker.pc, id |-> worker.id, until |-> worker.until]
<1>1. worker = w
  BY DEF WakeInv
<1>2. [w EXCEPT !.pc = pc] = [pc |-> pc, id |-> worker.id, until |-> worker.until]
  OBVIOUS
<1>3. worker' = [pc |-> pc, id |-> worker.id, until |-> worker.until]
  BY <1>1, <1>2
<1> QED
  BY Zenon, <1>3

\* A client that changed the queue signals later; one that signals wakes the
\* worker or leaves the permit.
LEMMA ClientsKeepWakeInv ==
  ASSUME WakeInv, NEW c \in Clients, Mutate(c) \/ MutationFinished(c)
  PROVE  WakeInv'
<1>1. CASE Mutate(c)
  <2>1. worker' = worker /\ clients' = [clients EXCEPT ![c] = "wrote"]
    BY <1>1 DEF Mutate
  <2>2. SignalPending' /\ DOMAIN clients' = Clients
    BY <2>1 DEF SignalPending, WakeInv
  <2> QED
    BY <2>1, <2>2 DEF WakeInv
<1>2. CASE MutationFinished(c)
  <2>0. DOMAIN clients' = Clients
    BY <1>2 DEF MutationFinished, WakeInv
  <2>1. CASE Registered
    <3>1. worker' = [worker EXCEPT !.pc = IF worker.pc = "retryWait" THEN "retry" ELSE "claim"]
      BY <1>2, <2>1 DEF MutationFinished, NotifyOne
    <3>2. /\ worker' = [pc |-> worker'.pc, id |-> worker'.id, until |-> worker'.until]
          /\ worker'.pc = IF worker.pc = "retryWait" THEN "retry" ELSE "claim"
      BY <3>1, TaskUpdate
    <3> QED
      BY <2>0, <3>2 DEF WakeInv
  <2>2. CASE ~Registered
    <3>1. permit' = TRUE /\ worker' = worker
      BY <1>2, <2>2 DEF MutationFinished, NotifyOne
    <3> QED
      BY <2>0, <3>1 DEF WakeInv, SignalPending
  <2> QED
    BY <2>1, <2>2
<1> QED
  BY <1>1, <1>2

\* A step after which the worker neither waits nor is about to.
LEMMA LeavesTheWaits ==
  ASSUME WakeInv, clients' = clients,
         worker' = [pc |-> worker'.pc, id |-> worker'.id, until |-> worker'.until],
         worker'.pc \notin {"drained", "drainedWait", "scheduled", "scheduledWait"}
  PROVE  WakeInv'
  BY DEF WakeInv

\* claim_next_due: the worker begins each wait with what it just saw.
LEMMA LookKeepsWakeInv ==
  ASSUME WakeInv, ClaimNextDue
  PROVE  WakeInv'
<1>1. queue' = queue /\ HeadDue' = HeadDue /\ clients' = clients
  BY SeenIsSame DEF ClaimNextDue, Seen, env
<1>2. CASE queue = << >> /\ Goes("drained", NoId, 0)
  BY <1>1, <1>2, TaskRecord DEF WakeInv
<1>3. CASE queue # << >> /\ Goes("scheduled", NoId, HeadDue)
  BY <1>1, <1>3, TaskRecord DEF WakeInv
<1>4. CASE Goes("posting", Head(queue), 0)
  BY <1>1, <1>4, TaskRecord, LeavesTheWaits
<1> QED
  BY <1>2, <1>3, <1>4 DEF ClaimNextDue

\* The worker starts to listen: a permit left meanwhile sends it back to look.
LEMMA ListenKeepsWakeInv ==
  ASSUME WakeInv, Listen
  PROVE  WakeInv'
<1>1. queue' = queue /\ HeadDue' = HeadDue /\ clients' = clients /\ silent' = silent
  BY SeenIsSame DEF Listen, Seen, env
<1>2. CASE permit
  <2>1. worker' = At("claim")
    BY <1>2 DEF Listen
  <2> QED
    BY <1>1, <2>1, LeavesTheWaits DEF At
<1>3. CASE ~permit
  <2>1. worker' = [worker EXCEPT !.pc = IF worker.pc = "drained" THEN "drainedWait"
                                                                ELSE "scheduledWait"]
    BY <1>3 DEF Listen
  <2>2. /\ worker' = [pc |-> worker'.pc, id |-> worker'.id, until |-> worker'.until]
        /\ worker'.pc = IF worker.pc = "drained" THEN "drainedWait" ELSE "scheduledWait"
        /\ worker'.until = worker.until
    BY <2>1, TaskUpdate
  <2>3. worker.pc \in {"drained", "scheduled"}
    BY DEF Listen
  <2>4. ~SignalPending' => ~SignalPending
    BY <1>1, <1>3 DEF SignalPending
  <2> QED
    BY <1>1, <2>2, <2>3, <2>4 DEF WakeInv
<1> QED
  BY <1>2, <1>3

\* The other steps of the worker and its supervisor lead out of the waits.
LEMMA OthersKeepWakeInv ==
  ASSUME WakeInv,
         \/ RecoverWorkerState \/ SleepElapsed \/ Complete \/ Release \/ RetryElapsed
         \/ Fails \/ Respawn \/ StopWaiting \/ Abort
  PROVE  WakeInv'
<1>1. clients' = clients
  BY Zenon DEF RecoverWorkerState, SleepElapsed, Complete, Release, RetryElapsed, Fails,
     Respawn, StopWaiting, Abort, env
<1>2. PICK pc, until : /\ pc \in {"claim", "retry", "down", "start", "stopped"}
                       /\ Goes(pc, NoId, until)
  BY DEF RecoverWorkerState, SleepElapsed, Complete, Release, RetryElapsed, Fails,
     Respawn, StopWaiting, Abort
<1>3. worker'.pc \notin {"drained", "drainedWait", "scheduled", "scheduledWait"}
  BY <1>2, TaskRecord
<1> QED
  BY <1>1, <1>2, <1>3, TaskRecord, LeavesTheWaits

\* A turn of wait_for_retry_deadline takes the permit, and stays in the retry.
LEMMA RetryKeepsWakeInv ==
  ASSUME WakeInv, RetryTurn
  PROVE  WakeInv'
<1>1. clients' = clients
  BY DEF RetryTurn, env
<1>2. CASE Goes("claim", NoId, 0)
  BY <1>1, <1>2, TaskRecord, LeavesTheWaits
<1>3. CASE worker' = worker
  BY <1>1, <1>3, LeavesTheWaits DEF RetryTurn, WakeInv
<1>4. CASE worker' = [worker EXCEPT !.pc = "retryWait"]
  BY <1>1, <1>4, TaskUpdate, LeavesTheWaits
<1> QED
  BY <1>2, <1>3, <1>4 DEF RetryTurn

LEMMA WakeInvStep ==
  ASSUME WakeInv, [Next]_vars
  PROVE  WakeInv'
<1>1. ASSUME UNCHANGED <<queue, notBefore, floor, worker, clients, permit, silent>>
      PROVE  WakeInv'
  <2>1. queue' = queue /\ HeadDue' = HeadDue
    BY <1>1, SeenIsSame DEF Seen
  <2>2. SignalPending' = SignalPending
    BY <1>1 DEF SignalPending
  <2> QED
    BY <1>1, <2>1, <2>2 DEF WakeInv
<1>2. CASE MutateFails
  BY <1>2 DEF MutateFails, WakeInv
<1>3. CASE Tick \/ Shutdown \/ UNCHANGED vars
  BY <1>1, <1>3 DEF Tick, Shutdown, vars
<1> QED
  BY <1>2, <1>3, ClientsKeepWakeInv, LookKeepsWakeInv, ListenKeepsWakeInv,
     OthersKeepWakeInv, RetryKeepsWakeInv DEF Next, WorkerStep

LEMMA WakeInvHolds == Spec => []WakeInv
<1>1. Init => WakeInv
  BY DEF Init, At, WakeInv
<1>2. WakeInv /\ [Next]_vars => WakeInv'
  BY WakeInvStep
<1> QED
  BY <1>1, <1>2, PTL DEF Spec

\* No wakeup is lost: whatever clients change between the worker's look at the
\* queue and its wait, and however late they signal, a worker that sleeps with
\* no signal on its way sleeps on the queue as it is.
THEOREM NoWakeupIsMissed == Spec => []NoMissedWakeup
<1>1. WakeInv => NoMissedWakeup
  BY DEF WakeInv, NoMissedWakeup
<1> QED
  BY <1>1, WakeInvHolds, PTL

\* The worker is outside the retry wait after the step, and not for shutdown.
RetryLeft == worker'.pc \notin {"retry", "retryWait", "stopped"}

\* The steps of the worker that start inside a retry wait.
LEMMA RetryStepKeepsDeadline ==
  ASSUME WakeInv, worker.pc \in {"retry", "retryWait"}, RetryLeft,
         WorkerStep \/ Fails \/ Abort
  PROVE  now >= worker.until
<1>1. CASE RetryTurn
  <2>1. \/ now >= worker.until
        \/ worker' = worker
        \/ worker' = [worker EXCEPT !.pc = "retryWait"]
    BY Zenon, <1>1 DEF RetryTurn
  <2>2. worker' = worker => ~RetryLeft
    BY DEF RetryLeft
  <2>3. worker' = [worker EXCEPT !.pc = "retryWait"] => ~RetryLeft
    BY TaskUpdate DEF RetryLeft
  <2> QED
    BY <2>1, <2>2, <2>3
<1>2. CASE RetryElapsed
  BY <1>2 DEF RetryElapsed
<1>3. CASE StopWaiting \/ Abort
  BY <1>3, TaskRecord DEF StopWaiting, Abort, RetryLeft
<1>4. ~(\/ RecoverWorkerState \/ ClaimNextDue \/ Listen \/ SleepElapsed
        \/ Complete \/ Release \/ Respawn \/ Fails)
  BY DEF RecoverWorkerState, ClaimNextDue, Listen, SleepElapsed, Complete, Release,
     Respawn, Fails
<1> QED
  BY <1>1, <1>2, <1>3, <1>4 DEF WorkerStep

\* A signal that reaches the worker in its retry wait leaves it there.
LEMMA SignalKeepsRetry ==
  ASSUME WakeInv, worker.pc \in {"retry", "retryWait"}, NEW c \in Clients,
         Mutate(c) \/ MutationFinished(c)
  PROVE  ~RetryLeft
<1>1. CASE worker' = worker
  BY <1>1 DEF RetryLeft
<1>2. CASE Registered /\ NotifyOne
  <2>1. worker' = [worker EXCEPT !.pc = "retry"]
    BY <1>2 DEF NotifyOne, Registered
  <2> QED
    BY <2>1, TaskUpdate DEF RetryLeft
<1> QED
  BY Zenon, <1>1, <1>2 DEF Mutate, MutationFinished, NotifyOne

\* wait_for_retry_deadline is left at its deadline or for shutdown, however
\* many changes of the queue signal the worker meanwhile.
THEOREM RetryWaitsItOut == Spec => RetryKeepsItsDeadline
<1>1. WakeInv /\ [Next]_vars /\ worker.pc \in {"retry", "retryWait"} /\ RetryLeft
        => now >= worker.until
  <2> SUFFICES ASSUME WakeInv, [Next]_vars, worker.pc \in {"retry", "retryWait"}, RetryLeft
               PROVE  now >= worker.until
    OBVIOUS
  <2>1. ~(MutateFails \/ Tick \/ Shutdown \/ UNCHANGED vars)
    BY DEF MutateFails, Tick, Shutdown, vars, RetryLeft
  <2> QED
    BY <2>1, RetryStepKeepsDeadline, SignalKeepsRetry DEF Next
<1> QED
  BY <1>1, WakeInvHolds, PTL DEF Spec, RetryKeepsItsDeadline, RetryLeft
-----------------------------------------------------------------------------
(* The supervisors.                                                        *)

\* A task that runs ends: it fails, or returns because of shutdown.
LEMMA EndsKeepsInv ==
  ASSUME SupervisorInv, NEW x \in Tasks, NEW how \in {"failed", "returned"},
         Ends(x, how), how = "returned" => stopping, UNCHANGED <<sup, stopping, exited>>
  PROVE  SupervisorInv'
  BY DEF SupervisorInv, Ends

\* The steps of the worker and of the listener.
LEMMA TasksKeepInv ==
  ASSUME SupervisorInv, WorkerFails \/ WorkerReturns \/ ListenerLoop \/ ListenerReturns
  PROVE  SupervisorInv'
<1>1. CASE WorkerFails
  BY <1>1, EndsKeepsInv DEF WorkerFails, Tasks
<1>2. CASE WorkerReturns
  BY <1>2, EndsKeepsInv DEF WorkerReturns, Tasks
<1>3. CASE ListenerFails
  BY <1>3, EndsKeepsInv DEF ListenerFails, Tasks
<1>4. CASE ListenerReturns
  BY <1>4, EndsKeepsInv DEF ListenerReturns, Tasks
<1>5. CASE ListenerBinds \/ Accept \/ AcceptError \/ AcceptAgain
  BY <1>5 DEF ListenerBinds, Accept, AcceptError, AcceptAgain, SupervisorInv
<1> QED
  BY <1>1, <1>2, <1>3, <1>4, <1>5 DEF ListenerLoop

\* The steps of supervise_task.
LEMMA SupervisorsKeepInv ==
  ASSUME SupervisorInv, NEW x \in Tasks,
         TaskEnded(x) \/ RespawnTask(x) \/ SeesShutdown(x) \/ GraceOver(x) \/ Aborted(x)
  PROVE  SupervisorInv'
<1> USE DEF SupervisorInv
<1>1. CASE TaskEnded(x)
  <2>1. sup[x] = "watching" /\ task[x] \in {"failed", "returned"}
    BY <1>1 DEF TaskEnded
  <2>2. sup' = [sup EXCEPT ![x] = IF task[x] = "returned" THEN "ended" ELSE "backoff"]
    BY Zenon, <1>1 DEF TaskEnded
  <2> QED
    BY Zenon, <1>1, <2>1, <2>2 DEF TaskEnded
<1>2. CASE RespawnTask(x)
  BY <1>2 DEF RespawnTask
<1>3. CASE SeesShutdown(x)
  BY <1>3 DEF SeesShutdown
<1>4. CASE GraceOver(x)
  BY <1>4 DEF GraceOver
<1>5. CASE Aborted(x)
  BY <1>5 DEF Aborted
<1> QED
  BY Zenon, <1>1, <1>2, <1>3, <1>4, <1>5

\* Shutdown, the end of the process and time.
LEMMA ProcessKeepsInv ==
  ASSUME SupervisorInv, ShutdownSignal \/ Exit \/ TimePasses \/ UNCHANGED supervision
  PROVE  SupervisorInv'
<1>1. CASE ShutdownSignal
  BY Zenon, <1>1 DEF ShutdownSignal, SupervisorInv
<1>2. CASE Exit
  <2>1. stopping
    BY <1>2 DEF Exit, SupervisorInv, Tasks
  <2> QED
    BY <1>2, <2>1 DEF Exit, SupervisorInv
<1>3. CASE TimePasses \/ UNCHANGED supervision
  BY <1>3 DEF TimePasses, supervision, SupervisorInv
<1> QED
  BY <1>1, <1>2, <1>3

\* SupervisorInv holds in every reachable state.
LEMMA SupervisorInvHolds == SupervisorSpec => []SupervisorInv
<1>1. SupervisorInit => SupervisorInv
  BY DEF SupervisorInit, SupervisorInv
<1>2. SupervisorInv /\ [SupervisorNext]_supervision => SupervisorInv'
  BY TasksKeepInv, SupervisorsKeepInv, ProcessKeepsInv DEF SupervisorNext
<1> QED
  BY <1>1, <1>2, PTL DEF SupervisorSpec

\* supervise_task never runs two instances of a task at once: not when one fails
\* while it is aborted, not when shutdown comes during a delay.
THEOREM NeverTwoInstances == SupervisorSpec => []OneInstance
<1>1. SupervisorInv => OneInstance
  BY DEF SupervisorInv, OneInstance
<1> QED
  BY <1>1, SupervisorInvHolds, PTL

\* run_with_tokens returns only after a shutdown signal.
THEOREM StaysUpUntilShutdown == SupervisorSpec => []ExitsOnlyOnShutdown
<1>1. SupervisorInv => ExitsOnlyOnShutdown
  BY DEF SupervisorInv, ExitsOnlyOnShutdown
<1> QED
  BY <1>1, SupervisorInvHolds, PTL
-----------------------------------------------------------------------------
(* The delays before a restart.                                            *)

\* Chains of comparisons between numbers.
LEMMA UpTo ==
  ASSUME NEW a \in Nat, NEW b \in Nat, NEW c \in Nat, a < b, b <= c
  PROVE  a <= c
  OBVIOUS

LEMMA Comparisons ==
  /\ \A a, b \in Nat : a < b \/ b < a \/ a = b
  /\ \A a, b \in Nat : a < b => ~(b <= a)
  /\ \A a, b, c, d \in Nat : a < b /\ b <= c /\ c < d => ~(d <= a)
  OBVIOUS

LEMMA LeastNumber ==
  ASSUME NEW T, T \subseteq Nat, T # {}
  PROVE  \E m \in T : \A k \in T : m <= k
<1> DEFINE N == Nat
           R == OpToRel(<, N)
<1>1. IsWellFoundedOn(R, N)
  BY Zenon, NatLessThanWellFounded
<1>2. R = {p \in Nat \X Nat : p[1] < p[2]}
  BY Zenon DEF OpToRel
<1>3. T \subseteq N
  OBVIOUS
<1> HIDE DEF N, R
<1>4. PICK m \in T : \A k \in T : ~(<<k, m>> \in R)
  BY Zenon, <1>1, <1>3, WFMin
<1>5. ASSUME NEW k \in T
      PROVE  m <= k
  <2>1. ~(<<k, m>> \in {p \in Nat \X Nat : p[1] < p[2]})
    BY Zenon, <1>2, <1>4
  <2>2. k \in Nat /\ m \in Nat
    OBVIOUS
  <2>3. <<k, m>> \in Nat \X Nat /\ <<k, m>>[1] = k /\ <<k, m>>[2] = m
    BY <2>2
  <2>4. ~(k < m)
    BY Zenon, <2>1, <2>3
  <2> QED
    BY <2>2, <2>4
<1> QED
  BY Zenon, <1>5

Doubles(f, k) == IF k = 0 THEN MinDelay ELSE 2 * f[k-1]

\* f is the recursion of Doublings up to n.
DoublesUpTo(n, f) == f = [k \in 0..n |-> Doubles(f, k)]

LEMMA DoublingsExist ==
  ASSUME NEW n \in Nat
  PROVE  \E f : DoublesUpTo(n, f)
<1> DEFINE Good(m) == \E f : DoublesUpTo(m, f)
           Bad == {m \in Nat : ~Good(m)}
<1>1. Good(0)
  <2> DEFINE f == [k \in 0..0 |-> MinDelay]
  <2>1. f = [k \in 0..0 |-> Doubles(f, k)]
    BY DEF Doubles
  <2> QED
    BY Zenon, <2>1 DEF DoublesUpTo
<1>2. ASSUME NEW m \in Nat, Good(m)
      PROVE  Good(m + 1)
  <2>1. PICK f : f = [k \in 0..m |-> Doubles(f, k)]
    BY Zenon, <1>2 DEF DoublesUpTo
  <2> DEFINE g == [k \in 0..(m + 1) |-> IF k = m + 1 THEN Doubles(f, k) ELSE f[k]]
  <2>2. ASSUME NEW k \in 0..(m + 1)
        PROVE  g[k] = Doubles(g, k)
    <3>1. k # 0 => g[k-1] = f[k-1]
      OBVIOUS
    <3>2. Doubles(g, k) = Doubles(f, k)
      <4> HIDE DEF g
      <4> QED
        BY Zenon, <3>1 DEF Doubles
    <3>3. CASE k = m + 1
      BY <3>2, <3>3
    <3>4. CASE k # m + 1
      <4>1. k \in 0..m /\ g[k] = f[k]
        BY <3>4
      <4>2. f[k] = Doubles(f, k)
        BY Zenon, <2>1, <4>1
      <4> QED
        BY Zenon, <3>2, <4>1, <4>2
    <3> QED
      BY Zenon, <3>3, <3>4
  <2>3. g = [k \in 0..(m + 1) |-> g[k]]
    OBVIOUS
  <2>4. g = [k \in 0..(m + 1) |-> Doubles(g, k)]
    BY Zenon, <2>2, <2>3
  <2> QED
    BY Zenon, <2>4 DEF DoublesUpTo
<1> HIDE DEF Good
<1>3. ASSUME Bad # {}
      PROVE  FALSE
  <2>1. PICK m \in Bad : \A k \in Bad : m <= k
    BY Zenon, <1>3, LeastNumber
  <2>2. m # 0 /\ m - 1 \in Nat /\ m - 1 \notin Bad
    BY <1>1, <2>1
  <2>3. Good(m - 1 + 1)
    BY <1>2, <2>2
  <2> QED
    BY <2>1, <2>3
<1>4. Good(n)
  BY Zenon, <1>3
<1> QED
  BY Zenon, <1>4 DEF Good

\* Doublings is the recursion it is written as.
LEMMA DoublingsUnfold ==
  ASSUME NEW n \in 0..MaxCount
  PROVE  Doublings[n] = IF n = 0 THEN MinDelay ELSE 2 * Doublings[n-1]
<1>1. Doublings = CHOOSE f : f = [k \in 0..MaxCount |-> IF k = 0 THEN MinDelay ELSE 2 * f[k-1]]
  BY DEF Doublings
<1>2. \E f : f = [k \in 0..MaxCount |-> IF k = 0 THEN MinDelay ELSE 2 * f[k-1]]
  <2>1. PICK f : DoublesUpTo(MaxCount, f)
    BY Zenon, DoublingsExist, SupervisorAssumption
  <2> QED
    BY Zenon, <2>1 DEF DoublesUpTo, Doubles
<1>3. Doublings = [k \in 0..MaxCount |-> IF k = 0 THEN MinDelay ELSE 2 * Doublings[k-1]]
  BY Zenon, <1>1, <1>2
<1> HIDE DEF Doublings
<1> QED
  BY Zenon, <1>3

LEMMA DoublingsGrow ==
  ASSUME NEW n \in 0..MaxCount
  PROVE  /\ Doublings[n] \in Nat
         /\ n = 0 => Doublings[n] = MinDelay
         /\ n # 0 => Doublings[n-1] \in Nat /\ Doublings[n] = 2 * Doublings[n-1]
<1> DEFINE Bad == {k \in 0..MaxCount : Doublings[k] \notin Nat}
<1>1. MaxCount \in Nat /\ MinDelay \in Nat
  BY SupervisorAssumption
<1>2. ASSUME Bad # {} PROVE FALSE
  <2>1. PICK m \in Bad : \A k \in Bad : m <= k
    <3>1. Bad \subseteq Nat
      BY <1>1
    <3> QED
      BY Zenon, <1>2, <3>1, LeastNumber
  <2>2. m \in 0..MaxCount /\ (m # 0 => m - 1 \in 0..MaxCount /\ ~(m <= m - 1))
    BY <1>1, <2>1
  <2>3. Doublings[m] = IF m = 0 THEN MinDelay ELSE 2 * Doublings[m-1]
    BY Zenon, <2>2, DoublingsUnfold
  <2>4. m # 0 => Doublings[m-1] \in Nat
    BY Zenon, <2>1, <2>2
  <2>5. Doublings[m] \in Nat
    BY <1>1, <2>3, <2>4
  <2> QED
    BY Zenon, <2>1, <2>5
<1>3. n # 0 => n - 1 \in 0..MaxCount
  BY <1>1
<1> QED
  BY Zenon, <1>2, <1>3, DoublingsUnfold

\* l keeps up with r failures in a row, and so does what follows it with one more.
KeepsUp(l, r) == l \in Nat /\ r \in 0..MaxCount /\ l >= Smaller(Doublings[r], Cap)

LEMMA KeepsUpNext ==
  ASSUME NEW l, NEW r, KeepsUp(l, r), NEW s, s = Smaller(r + 1, MaxCount)
  PROVE  /\ KeepsUp(Doubled(l), s)
         /\ Smaller(Doublings[s - 1], Cap) \in Nat /\ l >= Smaller(Doublings[s - 1], Cap)
<1>1. /\ MaxCount \in Nat \ {0} /\ Cap \in Nat /\ MinDelay \in Nat
      /\ l \in Nat /\ r \in 0..MaxCount /\ l >= Smaller(Doublings[r], Cap)
  BY SupervisorAssumption DEF KeepsUp
<1>2. /\ Doublings[r] \in Nat
      /\ r # 0 => Doublings[r-1] \in Nat /\ Doublings[r] = 2 * Doublings[r-1]
  BY Zenon, <1>1, DoublingsGrow
<1>3. CASE r = MaxCount
  <2>1. s = r /\ r # 0
    BY <1>1, <1>3 DEF Smaller
  <2>2. Doubled(l) \in Nat /\ Doubled(l) >= Smaller(Doublings[r], Cap)
    BY <1>1, <1>2 DEF Doubled, Smaller
  <2>3. Smaller(Doublings[r-1], Cap) \in Nat /\ l >= Smaller(Doublings[r-1], Cap)
    BY <1>1, <1>2, <2>1 DEF Smaller
  <2> QED
    BY Zenon, <1>1, <2>1, <2>2, <2>3 DEF KeepsUp
<1>4. CASE r # MaxCount
  <2>1. s = r + 1 /\ s \in 0..MaxCount /\ s # 0 /\ s - 1 = r
    BY <1>1, <1>4 DEF Smaller
  <2>2. Doublings[s] = 2 * Doublings[r]
    BY Zenon, <2>1, DoublingsGrow
  <2>3. /\ Doubled(l) \in Nat /\ Doubled(l) >= Smaller(2 * Doublings[r], Cap)
        /\ Smaller(Doublings[r], Cap) \in Nat
    BY <1>1, <1>2 DEF Doubled, Smaller
  <2> QED
    BY Zenon, <1>1, <2>1, <2>2, <2>3 DEF KeepsUp
<1> QED
  BY Zenon, <1>3, <1>4

\* A failure draws a delay as long as the failures before it call for.
LEMMA FailureSlowsDown ==
  ASSUME SlowInv, NEW x \in Tasks, TaskEnded(x), task[x] # "returned"
  PROVE  /\ KeepsUp(level'[x], row'[x])
         /\ delay'[x] >= Smaller(Doublings[row'[x] - 1], Cap)
         /\ DOMAIN row' = Tasks /\ DOMAIN level' = Tasks /\ DOMAIN delay' = Tasks
         /\ \A t \in Tasks \ {x} : row'[t] = row[t] /\ level'[t] = level[t]
<1>1. /\ DOMAIN row = Tasks /\ DOMAIN level = Tasks /\ DOMAIN delay = Tasks
      /\ KeepsUp(level[x], row[x])
  BY Zenon DEF SlowInv, KeepsUp
<1>2. PICK d \in Jittered(AfterRun(x)) :
        /\ level' = [level EXCEPT ![x] = Doubled(AfterRun(x))]
        /\ delay' = [delay EXCEPT ![x] = d]
        /\ row' = [row EXCEPT ![x] = IF uptime[x] >= Stable THEN 1
                                     ELSE Smaller(row[x] + 1, MaxCount)]
  BY Zenon DEF TaskEnded
<1>3. /\ level'[x] = Doubled(AfterRun(x)) /\ delay'[x] = d
      /\ row'[x] = IF uptime[x] >= Stable THEN 1 ELSE Smaller(row[x] + 1, MaxCount)
      /\ DOMAIN row' = Tasks /\ DOMAIN level' = Tasks /\ DOMAIN delay' = Tasks
      /\ \A t \in Tasks \ {x} : row'[t] = row[t] /\ level'[t] = level[t]
  BY <1>1, <1>2
<1>4. PICK r : KeepsUp(AfterRun(x), r) /\ row'[x] = Smaller(r + 1, MaxCount)
  <2>1. CASE uptime[x] >= Stable
    <3>1. AfterRun(x) = MinDelay /\ row'[x] = 1
      BY Zenon, <1>3, <2>1 DEF AfterRun
    <3>2. /\ MinDelay \in Nat /\ 0 \in 0..MaxCount /\ 1 = Smaller(0 + 1, MaxCount)
          /\ \A c \in Nat : MinDelay >= Smaller(MinDelay, c)
      BY SupervisorAssumption DEF Smaller
    <3>3. Doublings[0] = MinDelay /\ Cap \in Nat
      BY Zenon, <3>2, DoublingsGrow, SupervisorAssumption
    <3>4. KeepsUp(MinDelay, 0)
      BY Zenon, <3>2, <3>3 DEF KeepsUp
    <3> QED
      BY Zenon, <3>1, <3>2, <3>4
  <2>2. CASE ~(uptime[x] >= Stable)
    BY Zenon, <1>1, <1>3, <2>2 DEF AfterRun
  <2> QED
    BY Zenon, <2>1, <2>2
<1>5. /\ KeepsUp(level'[x], row'[x])
      /\ Smaller(Doublings[row'[x] - 1], Cap) \in Nat
      /\ AfterRun(x) >= Smaller(Doublings[row'[x] - 1], Cap)
  BY Zenon, <1>3, <1>4, KeepsUpNext
<1>6. d >= AfterRun(x) /\ d \in Int /\ AfterRun(x) \in Nat
  BY <1>2, <1>4 DEF Jittered, KeepsUp
<1>7. d >= Smaller(Doublings[row'[x] - 1], Cap)
  BY <1>5, <1>6
<1> QED
  BY Zenon, <1>3, <1>5, <1>7

LEMMA SameDelays ==
  ASSUME SlowInv, row' = row, level' = level, DOMAIN delay' = Tasks
  PROVE  SlowInv'
  BY Zenon DEF SlowInv

\* Nothing else touches the backoff, or begins one.
LEMMA OthersKeepDelays ==
  ASSUME SupervisorInv, SlowInv, [SupervisorNext]_supervision,
         \A x \in Tasks : ~(TaskEnded(x) /\ task[x] # "returned")
  PROVE  SlowInv' /\ \A t \in Tasks : sup[t] = "watching" => sup'[t] # "backoff"
<1>1. DOMAIN sup = Tasks /\ DOMAIN delay = Tasks
  BY Zenon DEF SupervisorInv, SlowInv
<1>2. CASE UNCHANGED <<sup, row, level, delay>>
  BY <1>1, <1>2, SameDelays
<1>3. ASSUME NEW x \in Tasks, UNCHANGED <<row, level, delay>>,
             NEW then, sup' = [sup EXCEPT ![x] = then], sup[x] = "watching" => then # "backoff"
      PROVE  SlowInv' /\ \A t \in Tasks : sup[t] = "watching" => sup'[t] # "backoff"
  <2>1. SlowInv'
    BY <1>1, <1>3, SameDelays
  <2>2. \A t \in Tasks : sup[t] = "watching" => sup'[t] # "backoff"
    BY <1>1, <1>3
  <2> QED
    BY Zenon, <2>1, <2>2
<1>4. CASE TimePasses
  <2>1. row' = row /\ level' = level /\ sup' = sup /\ DOMAIN delay' = Tasks
    BY <1>4 DEF TimePasses
  <2>2. \A t \in Tasks : sup[t] = "watching" => sup'[t] # "backoff"
    BY <2>1
  <2> QED
    BY Zenon, <2>1, <2>2, SameDelays
<1>5. ASSUME NEW x \in Tasks, TaskEnded(x) \/ RespawnTask(x) \/ SeesShutdown(x) \/ GraceOver(x)
      PROVE  SlowInv' /\ \A t \in Tasks : sup[t] = "watching" => sup'[t] # "backoff"
  <2>1. CASE TaskEnded(x)
    <3>1. task[x] = "returned"
      BY Zenon, <2>1
    <3>2. sup' = [sup EXCEPT ![x] = "ended"] /\ UNCHANGED <<row, level, delay>>
      BY <2>1, <3>1 DEF TaskEnded
    <3> QED
      BY Zenon, <1>3, <3>2
  <2>2. CASE RespawnTask(x)
    <3>1. sup' = [sup EXCEPT ![x] = "watching"] /\ UNCHANGED <<row, level, delay>>
      BY <2>2 DEF RespawnTask
    <3> QED
      BY Zenon, <1>3, <3>1
  <2>3. CASE SeesShutdown(x)
    <3>1. PICK then : /\ then = IF sup[x] = "watching" THEN "grace" ELSE "ended"
                     /\ sup' = [sup EXCEPT ![x] = then] /\ UNCHANGED <<row, level, delay>>
      BY Zenon, <2>3 DEF SeesShutdown
    <3>2. then # "backoff"
      BY <3>1
    <3> QED
      BY Zenon, <1>3, <3>1, <3>2
  <2>4. CASE GraceOver(x)
    <3>1. sup' = [sup EXCEPT ![x] = "ended"] /\ UNCHANGED <<row, level, delay>>
      BY <2>4 DEF GraceOver
    <3> QED
      BY Zenon, <1>3, <3>1
  <2> QED
    BY Zenon, <1>5, <2>1, <2>2, <2>3, <2>4
<1>6. WorkerFails \/ WorkerReturns \/ ListenerReturns \/ ListenerLoop
      => UNCHANGED <<sup, row, level, delay>>
  BY DEF WorkerFails, WorkerReturns, ListenerReturns, ListenerLoop, ListenerBinds,
         ListenerFails, Accept, AcceptError, AcceptAgain
<1>7. ShutdownSignal \/ Exit \/ UNCHANGED supervision \/ (\E x \in Tasks : Aborted(x))
      => UNCHANGED <<sup, row, level, delay>>
  BY DEF ShutdownSignal, Exit, Aborted, supervision
<1> QED
  BY Zenon, <1>2, <1>4, <1>5, <1>6, <1>7 DEF SupervisorNext

LEMMA SlowStep ==
  ASSUME SupervisorInv, SlowInv, [SupervisorNext]_supervision
  PROVE  /\ SlowInv'
         /\ \A t \in Tasks : sup[t] = "watching" /\ sup'[t] = "backoff" =>
              delay'[t] >= Smaller(Doublings[row'[t] - 1], Cap)
<1>1. ASSUME NEW x \in Tasks, TaskEnded(x), task[x] # "returned"
      PROVE  /\ SlowInv'
             /\ \A t \in Tasks : sup[t] = "watching" /\ sup'[t] = "backoff" =>
                  delay'[t] >= Smaller(Doublings[row'[t] - 1], Cap)
  <2>1. /\ KeepsUp(level'[x], row'[x])
        /\ delay'[x] >= Smaller(Doublings[row'[x] - 1], Cap)
        /\ DOMAIN row' = Tasks /\ DOMAIN level' = Tasks /\ DOMAIN delay' = Tasks
        /\ \A t \in Tasks \ {x} : row'[t] = row[t] /\ level'[t] = level[t]
    BY Zenon, <1>1, FailureSlowsDown
  <2>2. SlowInv'
    BY Zenon, <2>1 DEF SlowInv, KeepsUp
  <2>3. ASSUME NEW t \in Tasks \ {x}, sup[t] = "watching" PROVE sup'[t] # "backoff"
    <3>1. sup' = [sup EXCEPT ![x] = "backoff"]
      BY Zenon, <1>1 DEF TaskEnded
    <3>2. sup'[t] = sup[t]
      BY <3>1 DEF SupervisorInv
    <3> QED
      BY <2>3, <3>2
  <2> QED
    BY Zenon, <2>1, <2>2, <2>3
<1> QED
  BY Zenon, <1>1, OthersKeepDelays

LEMMA SlowInvHolds == SupervisorSpec => []SlowInv
<1>1. SupervisorInit => SlowInv
  <2>1. ASSUME SupervisorInit PROVE SlowInv
    <3>1. /\ MinDelay \in Nat /\ 0 \in 0..MaxCount
          /\ \A c \in Nat : MinDelay >= Smaller(MinDelay, c)
      BY SupervisorAssumption DEF Smaller
    <3>2. Doublings[0] = MinDelay /\ Cap \in Nat
      BY Zenon, <3>1, DoublingsGrow, SupervisorAssumption
    <3>3. /\ DOMAIN row = Tasks /\ DOMAIN level = Tasks /\ DOMAIN delay = Tasks
          /\ \A t \in Tasks : row[t] = 0 /\ level[t] = MinDelay
      BY <2>1 DEF SupervisorInit
    <3> QED
      BY Zenon, <3>1, <3>2, <3>3 DEF SlowInv
  <2> QED
    BY Zenon, <2>1
<1>2. SupervisorInv /\ SlowInv /\ [SupervisorNext]_supervision => SlowInv'
  BY Zenon, SlowStep
<1> QED
  BY <1>1, <1>2, SupervisorInvHolds, PTL DEF SupervisorSpec

\* The backoff of supervise_task, reset only after a stable run, doubles the
\* delay with every failure in a row, whatever the jitter, up to the cap.
THEOREM RestartsGrowSlower == SupervisorSpec => RestartsSlowDown
<1> DEFINE Step == \A t \in Tasks :
                     sup[t] = "watching" /\ sup'[t] = "backoff" =>
                       delay'[t] >= Smaller(Doublings[row'[t] - 1], Cap)
<1>1. SupervisorInv /\ SlowInv /\ [SupervisorNext]_supervision => [Step]_supervision
  BY Zenon, SlowStep
<1> QED
  BY <1>1, SupervisorInvHolds, SlowInvHolds, PTL DEF SupervisorSpec, RestartsSlowDown
-----------------------------------------------------------------------------
(* Lines in the order of the file.                                         *)

LEMMA GreatestNumber ==
  ASSUME NEW n \in Nat, NEW T, T \subseteq 0..n, T # {}
  PROVE  Max(T) \in T /\ \A k \in T : Max(T) >= k
<1> DEFINE U == {k \in Nat : n - k \in T}
<1>1. PICK t : t \in T
  BY Zenon
<1>2. n - t \in U
  BY <1>1
<1>3. PICK m \in U : \A k \in U : m <= k
  <2>1. U \subseteq Nat /\ U # {}
    BY Zenon, <1>2
  <2> QED
    BY Zenon, <2>1, LeastNumber
<1>4. n - m \in T /\ \A k \in T : n - m >= k
  <2>1. ASSUME NEW k \in T PROVE n - m >= k
    <3>1. k \in 0..n
      OBVIOUS
    <3>2. n - k \in Nat /\ n - (n - k) = k
      BY <3>1
    <3>3. n - k \in U
      BY Zenon, <3>2
    <3> QED
      BY <1>3, <3>1, <3>3
  <2> QED
    BY <1>3, <2>1
<1> QED
  BY Zenon, <1>4 DEF Max

LEMMA SmallerOfTwo ==
  ASSUME NEW a \in Nat, NEW b \in Nat
  PROVE  /\ Min({a, b}) \in Nat /\ Min({a, b}) <= a /\ Min({a, b}) <= b
         /\ Min({a, b}) = a \/ Min({a, b}) = b
<1>1. \E x \in {a, b} : \A y \in {a, b} : x <= y
  OBVIOUS
<1>2. Min({a, b}) \in {a, b} /\ \A y \in {a, b} : Min({a, b}) <= y
  BY Zenon, <1>1 DEF Min
<1> QED
  BY <1>2

\* q lists the lines of T, each once, in order.
Sorted(q, T) ==
  /\ q \in Seq(T)
  /\ \A i \in T : \E k \in 1..Len(q) : q[k] = i
  /\ \A j, k \in 1..Len(q) : j < k => q[j] < q[k]

Below(T, i) == {j \in T : j < i}

LEMMA InOrderSorts ==
  ASSUME NEW T, T \subseteq Nat, IsFiniteSet(T)
  PROVE  Sorted(InOrder(T), T)
<1> DEFINE n == Cardinality(T)
           Rank(i) == Cardinality(Below(T, i))
           f == [i \in T |-> Rank(i) + 1]
           q == InOrder(T)
<1>1. n \in Nat
  BY FS_CardinalityType
<1>2. ASSUME NEW i \in T
      PROVE  IsFiniteSet(Below(T, i)) /\ Rank(i) \in 0..(n - 1)
  <2>1. Below(T, i) \in SUBSET T /\ i \notin Below(T, i)
    BY DEF Below
  <2>2. IsFiniteSet(Below(T, i)) /\ Rank(i) <= n /\ (n = Rank(i) => T = Below(T, i))
    BY Zenon, <2>1, FS_Subset
  <2>3. Rank(i) \in Nat
    BY Zenon, <2>2, FS_CardinalityType
  <2>4. T # Below(T, i)
    BY Zenon, <2>1
  <2> QED
    BY <1>1, <2>2, <2>3, <2>4
<1>3. ASSUME NEW i \in T, NEW j \in T, i < j
      PROVE  Rank(i) < Rank(j)
  <2>1. Below(T, i) \in SUBSET Below(T, j) /\ i \in Below(T, j) /\ i \notin Below(T, i)
    <3>1. i \in Nat /\ j \in Nat /\ ~(i < i)
      OBVIOUS
    <3>2. ASSUME NEW x \in T, x < i PROVE x < j
      <4>1. x \in Nat
        OBVIOUS
      <4> QED
        BY <1>3, <3>1, <3>2, <4>1
    <3> QED
      BY Zenon, <1>3, <3>1, <3>2 DEF Below
  <2>2. /\ Rank(i) <= Rank(j)
        /\ Rank(j) = Rank(i) => Below(T, j) = Below(T, i)
    BY Zenon, <1>2, <2>1, FS_Subset
  <2>3. Rank(i) \in Int /\ Rank(j) \in Int
    BY <1>1, <1>2
  <2>4. Below(T, j) # Below(T, i)
    BY Zenon, <2>1
  <2> QED
    BY <2>2, <2>3, <2>4
<1> DEFINE Ranked(k) == CHOOSE i \in T : Rank(i) = k - 1
<1> HIDE DEF Rank, n
<1>4. f \in [T -> 1..n]
  BY <1>1, <1>2
<1>5. ASSUME NEW i \in T, NEW j \in T, Rank(i) = Rank(j)
      PROVE  i = j
  <2>1. i \in Nat /\ j \in Nat /\ Rank(i) \in Int
    BY <1>1, <1>2
  <2>2. ~(i < j) /\ ~(j < i)
    BY <1>3, <1>5, <2>1
  <2> QED
    BY <2>1, <2>2
<1>6. \A k \in 1..n : \E i \in T : Rank(i) = k - 1
  <2>1. f \in Injection(T, 1..n)
    <3>1. \A i, j \in T : f[i] = f[j] => i = j
      <4>1. ASSUME NEW i \in T, NEW j \in T, f[i] = f[j] PROVE i = j
        <5>1. Rank(i) = Rank(j)
          BY <1>1, <1>2, <4>1
        <5> QED
          BY Zenon, <1>5, <5>1
      <4> QED
        BY Zenon, <4>1
    <3> QED
      BY Zenon, <1>4, <3>1 DEF Injection, IsInjective
  <2>2. IsFiniteSet(1..n) /\ Cardinality(1..n) = n
    BY <1>1, FS_Interval
  <2>3. f \in Surjection(T, 1..n)
    BY Zenon, <2>1, <2>2, FS_Injection DEF n
  <2>4. ASSUME NEW k \in 1..n PROVE \E i \in T : Rank(i) = k - 1
    <3>1. PICK i \in T : f[i] = k
      BY Zenon, <2>3 DEF Surjection
    <3> QED
      BY <1>1, <1>2, <3>1
  <2> QED
    BY Zenon, <2>4
<1>7. ASSUME NEW k \in 1..n
      PROVE  q[k] \in T /\ Rank(q[k]) = k - 1
  <2>1. q[k] = CHOOSE i \in T : Rank(i) = k - 1
    BY Zenon DEF InOrder, Rank, Below, n
  <2> QED
    BY Zenon, <1>6, <2>1
<1>8. q = [k \in 1..n |-> Ranked(k)]
  BY Zenon DEF InOrder, Ranked, Rank, Below, n
<1> HIDE DEF q, f, Ranked
<1>9. q \in Seq(T) /\ Len(q) = n
  <2>1. \A k \in 1..n : Ranked(k) \in T
    BY Zenon, <1>7, <1>8
  <2> QED
    BY <1>1, <1>8, <2>1
<1>10. ASSUME NEW i \in T PROVE \E k \in 1..Len(q) : q[k] = i
  <2> DEFINE k == Rank(i) + 1
  <2>1. k \in 1..n /\ k - 1 = Rank(i)
    BY <1>1, <1>2
  <2> QED
    BY Zenon, <1>5, <1>7, <1>9, <2>1
<1>11. ASSUME NEW j \in 1..Len(q), NEW k \in 1..Len(q), j < k PROVE q[j] < q[k]
  <2>1. q[j] \in T /\ q[k] \in T /\ Rank(q[j]) = j - 1 /\ Rank(q[k]) = k - 1
    BY Zenon, <1>7, <1>9
  <2>2. q[j] \in Nat /\ q[k] \in Nat /\ q[j] # q[k] /\ ~(Rank(q[k]) < Rank(q[j]))
    <3>1. j - 1 # k - 1 /\ ~(k - 1 < j - 1)
      BY <1>1, <1>9, <1>11
    <3> QED
      BY Zenon, <2>1, <3>1
  <2>3. ~(q[k] < q[j])
    BY Zenon, <1>3, <2>1, <2>2
  <2> QED
    BY <2>2, <2>3
<1> QED
  BY Zenon, <1>9, <1>10, <1>11 DEF Sorted, q

LEMMA SortedLines ==
  ASSUME NEW T, T \subseteq Nat, NEW q, Sorted(q, T)
  PROVE  /\ q \in Seq(T) /\ q \in Seq(Nat) /\ Len(q) \in Nat
         /\ \A k \in 1..Len(q) : q[k] \in T /\ q[k] \in Nat
<1>1. q \in Seq(T)
  BY Zenon DEF Sorted
<1>2. \A k \in 1..Len(q) : q[k] \in T
  BY <1>1
<1>3. q \in Seq(Nat) /\ Len(q) \in Nat
  <2>1. q \in Seq(Nat)
    BY Zenon, <1>1, SeqMonotonic
  <2> QED
    BY <2>1
<1> QED
  BY Zenon, <1>1, <1>2, <1>3

\* Two such sequences do not part: the first place where they would has no
\* line to hold.
LEMMA SortedGoOn ==
  ASSUME NEW T, T \subseteq Nat, NEW a, NEW b, Sorted(a, T), Sorted(b, T),
         NEW m \in 1..Len(a), \A k \in 1..(m - 1) : k \in 1..Len(b) /\ b[k] = a[k],
         m \in 1..Len(b) => a[m] <= b[m]
  PROVE  m \in 1..Len(b) /\ b[m] = a[m]
<1>1. a[m] \in T /\ a[m] \in Nat /\ Len(a) \in Nat /\ Len(b) \in Nat
  BY Zenon, SortedLines
<1>2. PICK k \in 1..Len(b) : b[k] = a[m]
  BY Zenon, <1>1 DEF Sorted
<1>3. ~(k < m)
  <2>1. ASSUME k < m PROVE FALSE
    <3>1. k \in 1..(m - 1) /\ k \in 1..Len(a)
      BY <1>1, <2>1
    <3>2. a[k] = a[m] /\ a[k] < a[m]
      BY Zenon, <1>2, <2>1, <3>1 DEF Sorted
    <3> QED
      BY <1>1, <3>2
  <2> QED
    BY Zenon, <2>1
<1>4. m \in 1..Len(b)
  BY <1>1, <1>3
<1>5. m < k => b[m] < b[k]
  BY Zenon, <1>4 DEF Sorted
<1>6. b[m] \in Nat
  BY Zenon, <1>4, SortedLines
<1>7. m = k \/ m < k
  BY <1>1, <1>3
<1> QED
  BY <1>1, <1>2, <1>4, <1>5, <1>6, <1>7

\* There is one such sequence.
LEMMA SortedIsUnique ==
  ASSUME NEW T, T \subseteq Nat, NEW p, NEW q, Sorted(p, T), Sorted(q, T)
  PROVE  p = q
<1>1. /\ p \in Seq(Nat) /\ q \in Seq(Nat) /\ Len(p) \in Nat /\ Len(q) \in Nat
      /\ \A k \in 1..Len(p) : p[k] \in Nat
      /\ \A k \in 1..Len(q) : q[k] \in Nat
  BY Zenon, SortedLines
<1> DEFINE Bad == {k \in Nat \ {0} : /\ k \in 1..Len(p) \/ k \in 1..Len(q)
                                    /\ ~(k \in 1..Len(p) /\ k \in 1..Len(q) /\ p[k] = q[k])}
<1>3. ASSUME Bad # {} PROVE FALSE
  <2>1. PICK m \in Bad : \A k \in Bad : m <= k
    <3>1. Bad \subseteq Nat
      OBVIOUS
    <3> QED
      BY Zenon, <1>3, <3>1, LeastNumber
  <2>2. \A k \in 1..(m - 1) : k \in 1..Len(p) /\ k \in 1..Len(q) /\ p[k] = q[k]
    <3>1. ASSUME NEW k \in 1..(m - 1) PROVE k \in 1..Len(p) /\ k \in 1..Len(q) /\ p[k] = q[k]
      <4>1. k \in Nat \ {0} /\ ~(m <= k) /\ (k \in 1..Len(p) \/ k \in 1..Len(q))
        BY <1>1, <2>1
      <4> QED
        BY Zenon, <2>1, <4>1
    <3> QED
      BY Zenon, <3>1
  <2>3. CASE m \in 1..Len(p) /\ (m \in 1..Len(q) => p[m] <= q[m])
    <3>1. \A k \in 1..(m - 1) : k \in 1..Len(q) /\ q[k] = p[k]
      BY Zenon, <2>2
    <3>2. m \in 1..Len(q) /\ q[m] = p[m]
      BY Zenon, <2>3, <3>1, SortedGoOn
    <3> QED
      BY Zenon, <2>1, <2>3, <3>2
  <2>4. CASE m \in 1..Len(q) /\ (m \in 1..Len(p) => q[m] <= p[m])
    <3>1. \A k \in 1..(m - 1) : k \in 1..Len(p) /\ p[k] = q[k]
      BY Zenon, <2>2
    <3>2. m \in 1..Len(p) /\ p[m] = q[m]
      BY Zenon, <2>4, <3>1, SortedGoOn
    <3> QED
      BY Zenon, <2>1, <2>4, <3>2
  <2>5. m \in 1..Len(p) /\ m \in 1..Len(q) => p[m] <= q[m] \/ q[m] <= p[m]
    BY <1>1
  <2> QED
    BY Zenon, <2>1, <2>3, <2>4, <2>5
<1>4. \A k \in Nat \ {0} : k \in 1..Len(p) \/ k \in 1..Len(q) =>
          k \in 1..Len(p) /\ k \in 1..Len(q) /\ p[k] = q[k]
  BY Zenon, <1>3
<1>5. Len(p) = Len(q)
  BY <1>1, <1>4
<1>6. \A k \in 1..Len(p) : p[k] = q[k]
  BY <1>1, <1>4
<1> QED
  BY Zenon, <1>1, <1>5, <1>6, SeqEqual

LEMMA PrefixOf ==
  ASSUME NEW S, NEW q \in Seq(S), NEW n \in 0..Len(q)
  PROVE  /\ SubSeq(q, 1, n) \in Seq(S) /\ Len(SubSeq(q, 1, n)) = n
         /\ \A k \in 1..n : SubSeq(q, 1, n)[k] = q[k]
OBVIOUS

\* The first n lines of an order, then the later ones in order, are the whole
\* order.
Splits(q, T, n) == q = SubSeq(q, 1, n) \o InOrder({x \in T : q[n] < x})

LEMMA SortedSplits ==
  ASSUME NEW T, T \subseteq Nat, IsFiniteSet(T), NEW q, Sorted(q, T), NEW n \in 1..Len(q)
  PROVE  Splits(q, T, n)
<1> DEFINE U == {x \in T : q[n] < x}
<1> DEFINE w == InOrder(U)
<1> DEFINE h == SubSeq(q, 1, n)
<1> DEFINE c == h \o w
<1>1. U \subseteq T /\ U \subseteq Nat /\ IsFiniteSet(U)
  BY Zenon, FS_Subset
<1>2. Sorted(w, U)
  BY Zenon, <1>1, InOrderSorts
<1>3. /\ q \in Seq(T) /\ Len(q) \in Nat /\ n \in Nat
      /\ \A k \in 1..Len(q) : q[k] \in T /\ q[k] \in Nat
      /\ w \in Seq(U) /\ Len(w) \in Nat
      /\ \A k \in 1..Len(w) : w[k] \in U /\ w[k] \in Nat
  <2>1. q \in Seq(T) /\ Len(q) \in Nat /\ \A k \in 1..Len(q) : q[k] \in T /\ q[k] \in Nat
    BY Zenon, SortedLines
  <2>2. w \in Seq(U) /\ Len(w) \in Nat /\ \A k \in 1..Len(w) : w[k] \in U /\ w[k] \in Nat
    BY Zenon, <1>1, <1>2, SortedLines
  <2> HIDE DEF w
  <2>3. n \in Nat
    BY <2>1
  <2> QED
    BY Zenon, <2>1, <2>2, <2>3
<1> HIDE DEF w
<1>4. /\ h \in Seq(T) /\ Len(h) = n
      /\ \A k \in 1..n : h[k] = q[k]
  <2>1. n \in 0..Len(q)
    BY <1>3
  <2> QED
    BY Zenon, <1>3, <2>1, PrefixOf
<1> HIDE DEF h
<1>5. w \in Seq(T)
  BY Zenon, <1>1, <1>3, SeqMonotonic
<1>6. /\ c \in Seq(T) /\ Len(c) = n + Len(w)
      /\ \A k \in 1..n : c[k] = q[k]
      /\ \A k \in 1..Len(w) : c[n + k] = w[k]
  <2>1. /\ c \in Seq(T) /\ Len(c) = n + Len(w)
        /\ \A k \in 1..(n + Len(w)) : c[k] = IF k <= n THEN h[k] ELSE w[k - n]
    BY Zenon, <1>4, <1>5, ConcatProperties
  <2> HIDE DEF c
  <2>2. \A k \in 1..n : k \in 1..(n + Len(w)) /\ k <= n
    BY <1>3
  <2>3. \A k \in 1..Len(w) : n + k \in 1..(n + Len(w)) /\ ~(n + k <= n) /\ (n + k) - n = k
    BY <1>3
  <2>4. \A k \in 1..n : c[k] = q[k]
    BY Zenon, <1>4, <2>1, <2>2
  <2>5. \A k \in 1..Len(w) : c[n + k] = w[k]
    BY Zenon, <2>1, <2>3
  <2> QED
    BY Zenon, <2>1, <2>4, <2>5
<1> HIDE DEF c
<1>7. ASSUME NEW i \in T PROVE \E k \in 1..Len(c) : c[k] = i
  <2>1. CASE q[n] < i
    <3>1. PICK k \in 1..Len(w) : w[k] = i
      BY Zenon, <1>2, <2>1 DEF Sorted
    <3>2. n + k \in 1..Len(c)
      BY <1>3, <1>6
    <3> QED
      BY Zenon, <1>6, <3>1, <3>2
  <2>2. CASE ~(q[n] < i)
    <3>1. PICK k \in 1..Len(q) : q[k] = i
      BY Zenon DEF Sorted
    <3>2. ~(n < k)
      BY Zenon, <2>2, <3>1 DEF Sorted
    <3>3. k \in 1..n /\ k \in 1..Len(c)
      BY <1>3, <1>6, <3>2
    <3> QED
      BY Zenon, <1>6, <3>1, <3>3
  <2> QED
    BY Zenon, <2>1, <2>2
<1>8. ASSUME NEW j \in 1..Len(c), NEW k \in 1..Len(c), j < k PROVE c[j] < c[k]
  <2>1. CASE k \in 1..n
    <3>1. j \in 1..n /\ j \in 1..Len(q) /\ k \in 1..Len(q)
      BY <1>3, <1>6, <1>8, <2>1
    <3> QED
      BY Zenon, <1>6, <1>8, <2>1, <3>1 DEF Sorted
  <2>2. CASE j \in 1..n /\ k \notin 1..n
    <3>1. PICK b \in 1..Len(w) : k = n + b
      <4>1. k - n \in 1..Len(w) /\ k = n + (k - n)
        BY <1>3, <1>6, <2>2
      <4> QED
        BY Zenon, <4>1
    <3>2. w[b] \in Nat /\ q[n] < w[b] /\ c[k] = w[b] /\ c[j] = q[j]
      BY Zenon, <1>3, <1>6, <2>2, <3>1
    <3>3. j \in 1..Len(q) /\ (j = n \/ j < n)
      BY <1>3, <2>2
    <3>4. q[j] \in Nat /\ q[n] \in Nat /\ (q[j] = q[n] \/ q[j] < q[n])
      BY Zenon, <1>3, <3>3 DEF Sorted
    <3> QED
      BY <3>2, <3>4
  <2>3. CASE j \notin 1..n
    <3>1. PICK a \in 1..Len(w) : j = n + a
      <4>1. j - n \in 1..Len(w) /\ j = n + (j - n)
        BY <1>3, <1>6, <2>3
      <4> QED
        BY Zenon, <4>1
    <3>2. PICK b \in 1..Len(w) : k = n + b
      <4>1. k - n \in 1..Len(w) /\ k = n + (k - n)
        BY <1>3, <1>6, <1>8, <2>3
      <4> QED
        BY Zenon, <4>1
    <3>3. a < b
      BY <1>3, <1>8, <3>1, <3>2
    <3>4. c[j] = w[a] /\ c[k] = w[b]
      BY Zenon, <1>6, <3>1, <3>2
    <3> QED
      BY Zenon, <1>2, <3>3, <3>4 DEF Sorted
  <2> QED
    BY Zenon, <2>1, <2>2, <2>3
<1>9. Sorted(c, T)
  BY Zenon, <1>6, <1>7, <1>8 DEF Sorted
<1>10. q = c
  BY Zenon, <1>9, SortedIsUnique
<1> QED
  BY Zenon, <1>10 DEF c, h, w, Splits
-----------------------------------------------------------------------------
(* The log.                                                                *)

LEMMA LineFields ==
  ASSUME NEW line \in Line
  PROVE  /\ line.at \in Nat /\ line.size \in Nat \ {0}
         /\ line.record \in BOOLEAN /\ line.ended \in BOOLEAN
         /\ EndOf(line) \in Nat /\ line.at < EndOf(line)
<1>1. /\ line.at \in Nat /\ line.size \in Nat \ {0}
      /\ line.record \in BOOLEAN /\ line.ended \in BOOLEAN
  BY Zenon DEF Line
<1>2. EndOf(line) \in Nat /\ line.at < EndOf(line)
  BY <1>1 DEF EndOf
<1> QED
  BY Zenon, <1>1, <1>2

\* Where the lines of a log begin and end.
LEMMA LogLines ==
  ASSUME NEW l, IsLog(l)
  PROVE  /\ l \in Seq(Line) /\ Len(l) \in Nat /\ FileLen(l) \in Nat
         /\ \A i \in 1..Len(l) :
              /\ l[i] \in Line /\ l[i].at \in Nat /\ EndOf(l[i]) \in Nat /\ i \in Nat
              /\ l[i].at < EndOf(l[i]) /\ EndOf(l[i]) <= FileLen(l)
              /\ EndOf(l[i]) < FileLen(l) => l[i].ended
         /\ \A i, j \in 1..Len(l) : i < j => l[i].ended /\ EndOf(l[i]) <= l[j].at
<1>1. l \in Seq(Line) /\ \A i, j \in 1..Len(l) : i < j => l[i].ended /\ EndOf(l[i]) <= l[j].at
  BY Zenon DEF IsLog
<1>2. Len(l) \in Nat /\ \A i \in 1..Len(l) : l[i] \in Line /\ i \in Nat
  BY <1>1
<1>3. \A i \in 1..Len(l) : l[i].at \in Nat /\ EndOf(l[i]) \in Nat /\ l[i].at < EndOf(l[i])
  BY Zenon, <1>2, LineFields
<1>4. CASE l = << >>
  <2>1. FileLen(l) = 0
    BY Zenon, <1>4 DEF FileLen
  <2>2. 1..Len(l) = {} /\ 0 \in Nat
    BY <1>4
  <2> QED
    BY Zenon, <1>1, <1>2, <2>1, <2>2
<1>5. CASE l # << >>
  <2>1. FileLen(l) = EndOf(l[Len(l)])
    BY Zenon, <1>5 DEF FileLen
  <2>2. Len(l) \in 1..Len(l)
    BY <1>1, <1>5
  <2>3. ASSUME NEW i \in 1..Len(l)
        PROVE  EndOf(l[i]) <= FileLen(l) /\ (EndOf(l[i]) < FileLen(l) => l[i].ended)
    <3>1. i = Len(l) \/ i < Len(l)
      BY <1>2
    <3>2. CASE i = Len(l)
      <4>1. EndOf(l[i]) = FileLen(l) /\ EndOf(l[i]) \in Nat
        BY Zenon, <1>3, <2>1, <3>2
      <4> QED
        BY <4>1
    <3>3. CASE i < Len(l)
      <4>1. l[i].ended /\ EndOf(l[i]) <= l[Len(l)].at
        BY Zenon, <1>1, <2>2, <3>3
      <4>2. /\ EndOf(l[i]) \in Nat /\ l[Len(l)].at \in Nat /\ FileLen(l) \in Nat
            /\ l[Len(l)].at < FileLen(l)
        BY Zenon, <1>3, <2>1, <2>2
      <4> QED
        BY <4>1, <4>2
    <3> QED
      BY Zenon, <3>1, <3>2, <3>3
  <2>4. FileLen(l) \in Nat
    BY Zenon, <1>3, <2>1, <2>2
  <2> QED
    BY Zenon, <1>1, <1>2, <1>3, <2>3, <2>4
<1> QED
  BY Zenon, <1>4, <1>5

LEMMA RecordsOfLog ==
  ASSUME NEW l, IsLog(l)
  PROVE  /\ Records(l) \subseteq 1..Len(l) /\ Records(l) \subseteq Nat
         /\ IsFiniteSet(Records(l))
<1>1. Len(l) \in Nat
  BY Zenon, LogLines
<1>2. Records(l) \subseteq 1..Len(l)
  BY Zenon DEF Records
<1>3. IsFiniteSet(1..Len(l)) /\ 1..Len(l) \subseteq Nat
  BY <1>1, FS_Interval
<1> QED
  BY Zenon, <1>2, <1>3, FS_Subset

LEMMA VisibleRecords ==
  ASSUME NEW l, IsLog(l), NEW at
  PROVE  /\ Visible(l, at) \subseteq 1..Len(l) /\ Visible(l, at) \subseteq Nat
         /\ IsFiniteSet(Visible(l, at))
<1>1. Visible(l, at) \subseteq Records(l)
  BY Zenon DEF Visible
<1> QED
  BY Zenon, <1>1, RecordsOfLog, FS_Subset

\* A log after it was repaired or appended to: old lines stay where they are,
\* ended ones as they are, and new ones lie behind them.
Extends(l, m) ==
  /\ IsLog(l) /\ IsLog(m)
  /\ Len(l) <= Len(m) /\ FileLen(l) <= FileLen(m)
  /\ \A i \in 1..Len(l) :
       /\ m[i].at = l[i].at /\ m[i].record = l[i].record
       /\ l[i].ended => m[i].ended /\ EndOf(m[i]) = EndOf(l[i])
  /\ \A i \in (Len(l) + 1)..Len(m) : FileLen(l) <= m[i].at

LEMMA ExtendsAgain ==
  ASSUME NEW k, NEW l, NEW m, Extends(k, l), Extends(l, m)
  PROVE  Extends(k, m)
<1>1. IsLog(k) /\ IsLog(l) /\ IsLog(m)
  BY Zenon DEF Extends
<1>2. /\ Len(k) \in Nat /\ Len(l) \in Nat /\ Len(m) \in Nat
      /\ FileLen(k) \in Nat /\ FileLen(l) \in Nat /\ FileLen(m) \in Nat
      /\ \A i \in 1..Len(m) : m[i].at \in Nat
  BY Zenon, <1>1, LogLines
<1>3. Len(k) <= Len(l) /\ Len(l) <= Len(m) /\ FileLen(k) <= FileLen(l) /\ FileLen(l) <= FileLen(m)
  BY Zenon DEF Extends
<1>4. Len(k) <= Len(m) /\ FileLen(k) <= FileLen(m)
  BY <1>2, <1>3
<1>5. ASSUME NEW i \in 1..Len(k)
      PROVE  /\ m[i].at = k[i].at /\ m[i].record = k[i].record
             /\ k[i].ended => m[i].ended /\ EndOf(m[i]) = EndOf(k[i])
  <2>1. i \in 1..Len(l)
    BY <1>2, <1>3
  <2> QED
    BY Zenon, <2>1 DEF Extends
<1>6. ASSUME NEW i \in (Len(k) + 1)..Len(m) PROVE FileLen(k) <= m[i].at
  <2>1. /\ i \in 1..Len(m)
        /\ \/ i \in (Len(k) + 1)..Len(l) /\ i \in 1..Len(l)
           \/ i \in (Len(l) + 1)..Len(m)
    BY <1>2
  <2>2. CASE i \in (Len(k) + 1)..Len(l) /\ i \in 1..Len(l)
    BY Zenon, <2>2 DEF Extends
  <2>3. CASE i \in (Len(l) + 1)..Len(m)
    <3>1. FileLen(l) <= m[i].at /\ m[i].at \in Nat
      BY Zenon, <1>2, <2>1, <2>3 DEF Extends
    <3> QED
      BY <1>2, <1>3, <3>1
  <2> QED
    BY Zenon, <2>1, <2>2, <2>3
<1> QED
  BY Zenon, <1>1, <1>4, <1>5, <1>6 DEF Extends

\* append_line's repair ends every line.
LEMMA RepairExtends ==
  ASSUME NEW l, IsLog(l)
  PROVE  Extends(l, Repaired(l)) /\ \A i \in 1..Len(Repaired(l)) : Repaired(l)[i].ended
<1> DEFINE m == Repaired(l)
<1>1. /\ l \in Seq(Line) /\ Len(l) \in Nat /\ FileLen(l) \in Nat
      /\ \A i \in 1..Len(l) : l[i] \in Line /\ l[i].at \in Nat /\ EndOf(l[i]) \in Nat
      /\ \A i, j \in 1..Len(l) : i < j => l[i].ended /\ EndOf(l[i]) <= l[j].at
  BY Zenon, LogLines
<1>2. CASE l = << >>
  <2>1. m = l
    BY Zenon, <1>2 DEF Repaired
  <2>2. 1..Len(l) = {} /\ (Len(l) + 1)..Len(l) = {} /\ Len(l) <= Len(l) /\ FileLen(l) <= FileLen(l)
    BY <1>1, <1>2
  <2>3. Extends(l, l) /\ \A i \in 1..Len(l) : l[i].ended
    BY Zenon, <2>2 DEF Extends
  <2> QED
    BY Zenon, <2>1, <2>3
<1>3. CASE l # << >>
  <2> DEFINE n == Len(l)
  <2> DEFINE last == [l[n] EXCEPT !.ended = TRUE]
  <2>1. n \in 1..n
    BY <1>1, <1>3
  <2>2. m = [l EXCEPT ![n] = last]
    BY Zenon, <1>3 DEF Repaired
  <2>3. /\ last \in Line /\ last.at = l[n].at /\ last.record = l[n].record /\ last.ended
        /\ EndOf(l[n]) <= EndOf(last) /\ (l[n].ended => EndOf(last) = EndOf(l[n]))
    <3>1. l[n] \in Line
      BY Zenon, <1>1, <2>1
    <3> HIDE DEF n
    <3>2. /\ last \in Line /\ last.at = l[n].at /\ last.record = l[n].record /\ last.ended
          /\ last.size = l[n].size
      BY Zenon, <3>1 DEF Line
    <3> HIDE DEF last
    <3>3. last.ended = TRUE
      BY Zenon, <3>2 DEF Line
    <3>4. EndOf(l[n]) <= EndOf(last) /\ (l[n].ended => EndOf(last) = EndOf(l[n]))
      BY <3>1, <3>2, <3>3, LineFields DEF EndOf
    <3> QED
      BY Zenon, <3>2, <3>4
  <2> HIDE DEF last
  <2>4. /\ m \in Seq(Line) /\ Len(m) = n
        /\ \A j \in 1..n : m[j] = IF j = n THEN last ELSE l[j]
    <3>1. l \in Seq(Line) /\ last \in Line
      BY Zenon, <1>1, <2>3
    <3> HIDE DEF m
    <3> QED
      BY <2>1, <2>2, <3>1
  <2> HIDE DEF m
  <2>5. m # << >>
    BY <2>1, <2>4
  <2>6. FileLen(l) = EndOf(l[n]) /\ FileLen(m) = EndOf(m[n])
    BY Zenon, <1>3, <2>4, <2>5 DEF FileLen
  <2>7. FileLen(l) <= FileLen(m)
    BY Zenon, <2>1, <2>3, <2>4, <2>6
  <2>8. ASSUME NEW i \in 1..n
        PROVE  /\ m[i].at = l[i].at /\ m[i].record = l[i].record /\ m[i].ended
               /\ l[i].ended => m[i].ended /\ EndOf(m[i]) = EndOf(l[i])
    <3>1. i = n \/ i < n
      BY <1>1
    <3>2. i # n => l[i].ended
      BY Zenon, <1>1, <2>1, <3>1
    <3> QED
      BY Zenon, <2>3, <2>4, <3>2
  <2>9. ASSUME NEW i \in 1..n, NEW j \in 1..n, i < j
        PROVE  m[i].ended /\ EndOf(m[i]) <= m[j].at
    <3>1. l[i].ended /\ EndOf(l[i]) <= l[j].at
      BY Zenon, <1>1, <2>9
    <3> QED
      BY Zenon, <2>8, <3>1
  <2>10. IsLog(m)
    BY Zenon, <2>4, <2>9 DEF IsLog
  <2>11. Len(l) <= Len(m) /\ (Len(l) + 1)..Len(m) = {}
    BY <1>1, <2>4
  <2> QED
    BY Zenon, <2>4, <2>7, <2>8, <2>10, <2>11 DEF Extends, m
<1> QED
  BY Zenon, <1>2, <1>3

LEMMA LineBehind ==
  ASSUME NEW l, IsLog(l), \A i \in 1..Len(l) : l[i].ended,
         NEW line \in Line, line.at = FileLen(l)
  PROVE  Extends(l, Append(l, line))
<1> DEFINE m == Append(l, line)
<1>1. /\ l \in Seq(Line) /\ Len(l) \in Nat /\ FileLen(l) \in Nat
      /\ \A i \in 1..Len(l) : EndOf(l[i]) <= FileLen(l)
      /\ \A i, j \in 1..Len(l) : i < j => l[i].ended /\ EndOf(l[i]) <= l[j].at
  BY Zenon, LogLines
<1>2. /\ m \in Seq(Line) /\ m # << >> /\ Len(m) = Len(l) + 1
      /\ \A i \in 1..Len(l) : m[i] = l[i]
      /\ m[Len(l) + 1] = line
  <2>1. l \in Seq(Line)
    BY Zenon, <1>1
  <2> QED
    BY <2>1
<1> HIDE DEF m
<1>3. ASSUME NEW i \in 1..Len(m), NEW j \in 1..Len(m), i < j
      PROVE  m[i].ended /\ EndOf(m[i]) <= m[j].at
  <2>1. i \in 1..Len(l) /\ (j \in 1..Len(l) \/ j = Len(l) + 1)
    BY <1>1, <1>2, <1>3
  <2> QED
    BY Zenon, <1>1, <1>2, <1>3, <2>1
<1>4. IsLog(m)
  BY Zenon, <1>2, <1>3 DEF IsLog
<1>5. FileLen(l) <= FileLen(m)
  <2>1. FileLen(m) = EndOf(line)
    BY Zenon, <1>2 DEF FileLen
  <2>2. EndOf(line) \in Nat /\ line.at < EndOf(line)
    BY Zenon, LineFields
  <2> QED
    BY <1>1, <2>1, <2>2
<1>6. Len(l) <= Len(m) /\ FileLen(l) <= FileLen(l) /\ \A i \in (Len(l) + 1)..Len(m) : i = Len(l) + 1
  BY <1>1, <1>2
<1>7. \A i \in (Len(l) + 1)..Len(m) : FileLen(l) <= m[i].at
  BY Zenon, <1>2, <1>6
<1> QED
  BY Zenon, <1>2, <1>4, <1>5, <1>6, <1>7 DEF Extends, m

\* append, whole or torn, leaves what a reader may already stand on.
LEMMA AppendedExtends ==
  ASSUME NEW l, IsLog(l), NEW record \in BOOLEAN, NEW size \in Nat \ {0}, NEW ended \in BOOLEAN
  PROVE  Extends(l, Appended(l, record, size, ended))
<1> DEFINE m == Repaired(l)
<1> DEFINE line == [at |-> FileLen(m), record |-> record, size |-> size, ended |-> ended]
<1>1. Extends(l, m) /\ \A i \in 1..Len(m) : m[i].ended
  BY Zenon, RepairExtends
<1>2. IsLog(m) /\ FileLen(m) \in Nat
  <2>1. IsLog(m)
    BY Zenon, <1>1 DEF Extends
  <2> QED
    BY Zenon, <2>1, LogLines
<1> HIDE DEF m
<1>3. line \in Line /\ line.at = FileLen(m)
  BY <1>2 DEF Line
<1> HIDE DEF line
<1>4. Extends(m, Append(m, line))
  BY Zenon, <1>1, <1>2, <1>3, LineBehind
<1>5. Appended(l, record, size, ended) = Append(m, line)
  BY Zenon DEF Appended, m, line
<1> QED
  BY Zenon, <1>1, <1>4, <1>5, ExtendsAgain

\* What lies inside a snapshot stays what it was.
LEMMA VisibleStays ==
  ASSUME NEW l, NEW m, Extends(l, m), NEW at, at.end \in Nat, at.end <= FileLen(l)
  PROVE  Visible(m, at) = Visible(l, at)
<1>1. IsLog(l) /\ IsLog(m) /\ Len(l) <= Len(m)
  BY Zenon DEF Extends
<1>2. /\ Len(l) \in Nat /\ Len(m) \in Nat /\ FileLen(l) \in Nat
      /\ \A i \in 1..Len(m) : m[i].at \in Nat
  BY Zenon, <1>1, LogLines
<1>3. ASSUME NEW i \in 1..Len(m), i \notin 1..Len(l) PROVE ~(m[i].at < at.end)
  <2>1. i \in (Len(l) + 1)..Len(m)
    BY <1>2, <1>3
  <2>2. FileLen(l) <= m[i].at /\ m[i].at \in Nat
    BY Zenon, <1>2, <2>1 DEF Extends
  <2> QED
    BY <1>2, <2>2
<1>4. \A i \in 1..Len(l) : i \in 1..Len(m) /\ m[i].at = l[i].at /\ m[i].record = l[i].record
  <2>1. \A i \in 1..Len(l) : i \in 1..Len(m)
    BY <1>1, <1>2
  <2> QED
    BY Zenon, <2>1 DEF Extends
<1> QED
  BY Zenon, <1>3, <1>4 DEF Visible, Records

LEMMA PositionStays ==
  ASSUME NEW l, NEW m, Extends(l, m), NEW cursor, cursor.end_offset \in Nat,
         ValidPosition(l, cursor)
  PROVE  ValidPosition(m, cursor)
<1>1. IsLog(l) /\ IsLog(m) /\ Len(l) <= Len(m) /\ FileLen(l) <= FileLen(m)
  BY Zenon DEF Extends
<1>2. Len(l) \in Nat /\ Len(m) \in Nat /\ FileLen(l) \in Nat /\ FileLen(m) \in Nat
  BY Zenon, <1>1, LogLines
<1>3. cursor.offset <= cursor.end_offset /\ cursor.end_offset <= FileLen(l)
  BY Zenon DEF ValidPosition
<1>4. cursor.end_offset <= FileLen(m)
  BY <1>1, <1>2, <1>3
<1>5. \A i \in 1..Len(l) : i \in 1..Len(m)
  BY <1>1, <1>2
<1>6. ASSUME NEW i \in 1..Len(l), l[i].ended, EndOf(l[i]) = cursor.offset
      PROVE  m[i].ended /\ EndOf(m[i]) = cursor.offset
  BY Zenon, <1>6 DEF Extends
<1> QED
  BY Zenon, <1>3, <1>4, <1>5, <1>6 DEF ValidPosition
-----------------------------------------------------------------------------
(* A page and the response made of it.                                     *)

\* The records of a snapshot lie one behind the other inside it.
LEMMA SnapshotOrder ==
  ASSUME NEW l, IsLog(l), NEW at, at.offset \in Nat, at.end \in Nat,
         NEW q, q = InOrder(Visible(l, at))
  PROVE  /\ Sorted(q, Visible(l, at)) /\ q \in Seq(Nat) /\ Len(q) \in Nat
         /\ \A i \in 1..Len(q) :
              /\ q[i] \in Visible(l, at) /\ q[i] \in 1..Len(l) /\ q[i] \in Nat
              /\ EndOf(l[q[i]]) \in Nat /\ at.offset < EndOf(l[q[i]])
              /\ i < Len(q) => EndOf(l[q[i]]) < at.end
<1>1. /\ Visible(l, at) \subseteq 1..Len(l) /\ Visible(l, at) \subseteq Nat
      /\ IsFiniteSet(Visible(l, at))
  BY Zenon, VisibleRecords
<1>2. Sorted(q, Visible(l, at))
  BY Zenon, <1>1, InOrderSorts
<1>3. /\ q \in Seq(Nat) /\ Len(q) \in Nat
      /\ \A i \in 1..Len(q) : q[i] \in Visible(l, at) /\ q[i] \in Nat
  BY Zenon, <1>1, <1>2, SortedLines
<1>4. ASSUME NEW i \in Visible(l, at)
      PROVE  /\ l[i].at \in Nat /\ EndOf(l[i]) \in Nat /\ l[i].at < EndOf(l[i])
             /\ at.offset <= l[i].at /\ l[i].at < at.end
  <2>1. at.offset <= l[i].at /\ l[i].at < at.end
    BY Zenon DEF Visible
  <2> QED
    BY Zenon, <1>1, <2>1, LogLines
<1>5. ASSUME NEW i \in 1..Len(q)
      PROVE  /\ q[i] \in 1..Len(l)
             /\ EndOf(l[q[i]]) \in Nat /\ at.offset < EndOf(l[q[i]])
             /\ i < Len(q) => EndOf(l[q[i]]) < at.end
  <2>1. /\ l[q[i]].at \in Nat /\ EndOf(l[q[i]]) \in Nat /\ l[q[i]].at < EndOf(l[q[i]])
        /\ at.offset <= l[q[i]].at
    BY Zenon, <1>3, <1>4
  <2>2. at.offset < EndOf(l[q[i]])
    BY <2>1
  <2>3. ASSUME i < Len(q) PROVE EndOf(l[q[i]]) < at.end
    <3>1. Len(q) \in 1..Len(q)
      BY <1>3, <2>3
    <3>2. q[i] < q[Len(q)]
      BY Zenon, <1>2, <2>3, <3>1 DEF Sorted
    <3>3. q[i] \in 1..Len(l) /\ q[Len(q)] \in 1..Len(l)
      BY Zenon, <1>1, <1>3, <3>1
    <3>4. EndOf(l[q[i]]) <= l[q[Len(q)]].at
      BY Zenon, <3>2, <3>3, LogLines
    <3>5. l[q[Len(q)]].at \in Nat /\ l[q[Len(q)]].at < at.end
      BY Zenon, <1>3, <1>4, <3>1
    <3> QED
      BY <2>1, <3>4, <3>5
  <2>4. q[i] \in 1..Len(l)
    BY Zenon, <1>1, <1>3
  <2> QED
    BY Zenon, <2>1, <2>2, <2>3, <2>4
<1> QED
  BY Zenon, <1>2, <1>3, <1>5

\* read_records stops after PageSize records and leaves a cursor when more of
\* the snapshot may follow; without one the page ends it.
PageIs(page, q, l, at) ==
  /\ Len(page.records) \in Nat /\ Len(page.records) <= Len(q)
  /\ \A i \in 1..Len(page.records) :
       /\ page.records[i].line = q[i]
       /\ page.records[i].after = Min({EndOf(l[q[i]]), at.end})
  /\ page.next.some =>
       /\ Len(page.records) \in 1..Len(page.records)
       /\ page.records[Len(page.records)].after < at.end
  /\ ~page.next.some => page.next = NoCursor /\ Len(page.records) = Len(q)

LEMMA PageOfSnapshot ==
  ASSUME NEW l, IsLog(l), NEW at, at.offset \in Nat, at.end \in Nat,
         NEW q, q = InOrder(Visible(l, at)),
         NEW page, page = ReadSnapshotPage(l, at)
  PROVE  PageIs(page, q, l, at)
<1> DEFINE count == Len(page.records)
<1> DEFINE c == Min({PageSize, Len(q)})
<1> DEFINE r == SubSeq(q, 1, c)
<1> DEFINE After(i) == Min({EndOf(l[i]), at.end})
<1> DEFINE current == IF Len(r) = PageSize THEN After(r[Len(r)]) ELSE at.end
<1> DEFINE next == IF current < at.end THEN Cursor(current, at.end) ELSE NoCursor
<1> DEFINE Rec(i) == [line |-> r[i], after |-> After(r[i])]
<1> DEFINE recs == [i \in 1..Len(r) |-> Rec(i)]
<1>1. /\ q \in Seq(Nat) /\ Len(q) \in Nat
      /\ \A i \in 1..Len(q) :
           EndOf(l[q[i]]) \in Nat /\ (i < Len(q) => EndOf(l[q[i]]) < at.end)
  BY Zenon, SnapshotOrder
<1>2. PageSize \in Nat /\ PageSize > 0
  BY Zenon, HistoryAssumption
<1>3. c \in Nat /\ c <= PageSize /\ c <= Len(q) /\ (c = PageSize \/ c = Len(q))
  BY Zenon, <1>1, <1>2, SmallerOfTwo
<1>4. page = [records |-> recs, next |-> next]
  BY Zenon DEF ReadSnapshotPage
<1> HIDE DEF c, next, After, count
<1>5. page.records = recs /\ page.next = next
  <2> HIDE DEF recs
  <2> QED
    BY <1>4
<1>6. c \in 0..Len(q)
  BY <1>1, <1>3
<1>7. Len(r) = c /\ \A i \in 1..c : r[i] = q[i]
  BY Zenon, <1>1, <1>6, PrefixOf
<1> HIDE DEF r
<1>8. \A i : Rec(i).line = r[i] /\ Rec(i).after = After(r[i])
  OBVIOUS
<1> HIDE DEF Rec
<1>9. count = c /\ \A i \in 1..c : recs[i] = Rec(i)
  <2>1. recs = [i \in 1..c |-> Rec(i)]
    BY Zenon, <1>7
  <2> HIDE DEF recs
  <2>2. Len(recs) = c /\ \A i \in 1..c : recs[i] = Rec(i)
    BY <1>3, <2>1
  <2> QED
    BY Zenon, <1>5, <2>2 DEF count
<1> HIDE DEF recs
<1>10. \A i \in 1..count :
          page.records[i].line = q[i] /\ page.records[i].after = After(q[i])
  BY Zenon, <1>5, <1>7, <1>8, <1>9
<1>11. ASSUME page.next.some
       PROVE  count \in 1..count /\ page.records[count].after < at.end
  <2>1. ~NoCursor.some
    BY DEF NoCursor
  <2>2. current < at.end
    BY Zenon, <1>5, <1>11, <2>1 DEF next
  <2>3. ~(at.end < at.end)
    OBVIOUS
  <2>4. Len(r) = PageSize /\ After(r[Len(r)]) < at.end
    BY Zenon, <2>2, <2>3
  <2>5. c \in 1..c
    BY <1>2, <1>3, <1>7, <2>4
  <2>6. r[Len(r)] = q[c]
    BY Zenon, <1>7, <2>5
  <2> QED
    BY Zenon, <1>9, <1>10, <2>4, <2>5, <2>6
<1>12. ASSUME ~page.next.some PROVE page.next = NoCursor /\ count = Len(q)
  <2>1. Cursor(current, at.end).some
    BY DEF Cursor
  <2>2. ~(current < at.end) /\ page.next = NoCursor
    BY Zenon, <1>5, <1>12, <2>1 DEF next
  <2>3. ASSUME c # Len(q) PROVE FALSE
    <3>1. c = PageSize /\ c \in 1..c /\ c \in 1..Len(q) /\ c < Len(q)
      BY <1>1, <1>2, <1>3, <2>3
    <3>2. r[Len(r)] = q[c]
      BY Zenon, <1>7, <3>1
    <3>3. EndOf(l[q[c]]) \in Nat /\ EndOf(l[q[c]]) < at.end
      BY Zenon, <1>1, <3>1
    <3>4. After(q[c]) <= EndOf(l[q[c]]) /\ After(q[c]) \in Nat
      BY Zenon, <3>3, SmallerOfTwo DEF After
    <3>5. After(q[c]) < at.end
      BY <3>3, <3>4
    <3> QED
      BY Zenon, <1>7, <2>2, <3>1, <3>2, <3>5
  <2> QED
    BY Zenon, <1>9, <2>2, <2>3
<1> QED
  BY Zenon, <1>3, <1>9, <1>10, <1>11, <1>12 DEF After, count, PageIs

\* response_for_history answers with a first part of the snapshot and a cursor
\* just behind it, inside the snapshot; without a cursor the part is all of it.
Part(q, l, at, n, next) ==
  /\ n \in 0..Len(q)
  /\ \/ next = NoCursor /\ n = Len(q)
     \/ /\ n \in 1..Len(q)
        /\ next = Cursor(EndOf(l[q[n]]), at.end)
        /\ EndOf(l[q[n]]) < at.end

Answer(resp, history, next) == resp = [kind |-> "ok", history |-> history, next |-> next]

Refusal(resp) == resp = [kind |-> "error", why |-> "record too large"]

AnswersWith(resp, q, l, at) ==
  Refusal(resp) \/ \E n, next : Answer(resp, SubSeq(q, 1, n), next) /\ Part(q, l, at, n, next)

LEMMA ResponseOfPage ==
  ASSUME NEW l, IsLog(l), NEW at, at.offset \in Nat, at.end \in Nat,
         NEW q, q = InOrder(Visible(l, at)),
         NEW page, page = ReadSnapshotPage(l, at),
         NEW resp, resp = ResponseForHistory(l, page, at.end)
  PROVE  AnswersWith(resp, q, l, at)
<1> DEFINE count == Len(page.records)
<1> DEFINE bytes[i \in 0..count] ==
             IF i = 0 THEN 0
             ELSE bytes[i - 1] + l[page.records[i].line].size + (IF i > 1 THEN 1 ELSE 0)
<1> DEFINE more(i) == i < count \/ page.next.some
<1> DEFINE fits(i) == ResponseSize(bytes[i], more(i)) <= MaxResponse
<1> DEFINE n == Max({k \in 0..count : \A i \in 1..k : fits(i)})
<1> DEFINE history == [i \in 1..n |-> page.records[i].line]
<1> DEFINE next == IF n = 0 THEN page.next
                   ELSE IF more(n) THEN Cursor(page.records[n].after, at.end) ELSE NoCursor
<1>1. resp = IF count > 0 /\ n = 0 THEN [kind |-> "error", why |-> "record too large"]
             ELSE [kind |-> "ok", history |-> history, next |-> next]
  BY Zenon DEF ResponseForHistory
<1>2. /\ count \in Nat /\ count <= Len(q)
      /\ \A i \in 1..count :
           /\ page.records[i].line = q[i]
           /\ page.records[i].after = Min({EndOf(l[q[i]]), at.end})
      /\ page.next.some => count \in 1..count /\ page.records[count].after < at.end
      /\ ~page.next.some => page.next = NoCursor /\ count = Len(q)
  <2>1. PageIs(page, q, l, at)
    BY Zenon, PageOfSnapshot
  <2> QED
    BY Zenon, <2>1 DEF PageIs
<1>3. /\ q \in Seq(Nat) /\ Len(q) \in Nat
      /\ \A i \in 1..Len(q) :
           EndOf(l[q[i]]) \in Nat /\ (i < Len(q) => EndOf(l[q[i]]) < at.end)
  BY Zenon, SnapshotOrder
<1> HIDE DEF fits
<1>4. n \in 0..count
  <2> DEFINE K == {k \in 0..count : \A i \in 1..k : fits(i)}
  <2>1. 0 \in 0..count /\ 1..0 = {}
    BY <1>2
  <2>2. 0 \in K
    BY Zenon, <2>1
  <2>3. K \subseteq 0..count /\ K # {}
    BY Zenon, <2>2
  <2>4. Max(K) \in K
    BY Zenon, <1>2, <2>3, GreatestNumber
  <2> QED
    BY Zenon, <2>4
<1> HIDE DEF n
<1>5. n \in 0..Len(q) /\ \A i \in 1..n : i \in 1..count
  <2>1. count \in Nat /\ Len(q) \in Nat /\ count <= Len(q)
    BY Zenon, <1>2, <1>3
  <2> QED
    BY <1>4, <2>1
<1>6. history = SubSeq(q, 1, n)
  <2>1. /\ SubSeq(q, 1, n) \in Seq(Nat) /\ Len(SubSeq(q, 1, n)) = n
        /\ \A k \in 1..n : SubSeq(q, 1, n)[k] = q[k]
    BY Zenon, <1>3, <1>5, PrefixOf
  <2>2. SubSeq(q, 1, n) \in [1..n -> Nat]
    BY Zenon, <2>1, LenProperties
  <2>3. \A i \in 1..n : page.records[i].line = SubSeq(q, 1, n)[i]
    BY Zenon, <1>2, <1>5, <2>1
  <2> QED
    BY Zenon, <2>2, <2>3
<1>7. CASE n = 0
  <2>1. CASE count > 0
    BY Zenon, <1>1, <1>7, <2>1 DEF AnswersWith, Refusal
  <2>2. CASE ~(count > 0)
    <3>1. count = 0 /\ count \notin 1..count
      <4>1. count \in Nat
        BY Zenon, <1>2
      <4> QED
        BY <2>2, <4>1
    <3>2. next = NoCursor /\ n = Len(q)
      BY Zenon, <1>2, <1>7, <3>1
    <3>3. resp = [kind |-> "ok", history |-> SubSeq(q, 1, n), next |-> next]
      BY Zenon, <1>1, <1>6, <2>2
    <3> QED
      BY Zenon, <1>5, <3>2, <3>3 DEF AnswersWith, Answer, Part
  <2> QED
    BY Zenon, <2>1, <2>2
<1>8. CASE n # 0
  <2>1. n \in 1..count /\ n \in 1..Len(q) /\ (n < count => n < Len(q)) /\ (n < count \/ n = count)
    <3>1. count \in Nat /\ Len(q) \in Nat /\ count <= Len(q)
      BY Zenon, <1>2, <1>3
    <3> QED
      BY <1>4, <1>8, <3>1
  <2>2. resp = [kind |-> "ok", history |-> SubSeq(q, 1, n), next |-> next]
    BY Zenon, <1>1, <1>6, <1>8
  <2>3. CASE more(n)
    <3> DEFINE e == EndOf(l[q[n]])
    <3>1. /\ e \in Nat
          /\ Min({e, at.end}) = e \/ Min({e, at.end}) = at.end
          /\ Min({e, at.end}) <= e /\ Min({e, at.end}) <= at.end /\ Min({e, at.end}) \in Nat
      BY Zenon, <1>3, <2>1, SmallerOfTwo
    <3>2. page.records[n].after = Min({e, at.end})
      BY Zenon, <1>2, <2>1
    <3>3. e < at.end /\ Min({e, at.end}) = e
      <4>1. CASE n < count
        <5>1. e < at.end
          BY Zenon, <1>3, <2>1, <4>1
        <5> HIDE DEF e
        <5> QED
          BY <3>1, <5>1
      <4>2. CASE ~(n < count)
        <5>1. Min({e, at.end}) < at.end
          BY Zenon, <1>2, <2>1, <2>3, <3>2, <4>2
        <5> HIDE DEF e
        <5> QED
          BY <3>1, <5>1
      <4> QED
        BY Zenon, <4>1, <4>2
    <3>4. next = Cursor(e, at.end)
      BY Zenon, <1>8, <2>3, <3>2, <3>3
    <3> QED
      BY Zenon, <1>5, <2>1, <2>2, <3>3, <3>4 DEF AnswersWith, Answer, Part
  <2>4. CASE ~more(n)
    <3>1. next = NoCursor
      BY Zenon, <1>8, <2>4
    <3>2. n = Len(q)
      BY Zenon, <1>2, <2>1, <2>4
    <3> QED
      BY Zenon, <1>5, <2>2, <3>1, <3>2 DEF AnswersWith, Answer, Part
  <2> QED
    BY Zenon, <2>3, <2>4
<1> QED
  BY Zenon, <1>7, <1>8

\* Behind the cursor lies the rest of the snapshot, and nothing else.
GoesOn(q, l, at, n, next) ==
  /\ next \in Place /\ next.some
  /\ at.offset < next.offset /\ next.offset < next.end_offset
  /\ ValidPosition(l, next)
  /\ q = SubSeq(q, 1, n)
           \o InOrder(Visible(l, [offset |-> next.offset, end |-> next.end_offset]))

LEMMA CursorGoesOn ==
  ASSUME NEW l, IsLog(l), NEW at, at.offset \in Nat, at.end \in Nat, at.end <= FileLen(l),
         NEW q, q = InOrder(Visible(l, at)), NEW n \in 1..Len(q),
         NEW next, next = Cursor(EndOf(l[q[n]]), at.end), EndOf(l[q[n]]) < at.end
  PROVE  GoesOn(q, l, at, n, next)
<1> DEFINE e == EndOf(l[q[n]])
<1> DEFINE V == Visible(l, at)
<1> DEFINE rest == [offset |-> e, end |-> at.end]
<1>1. next.some /\ next.offset = e /\ next.end_offset = at.end
  BY Zenon DEF Cursor
<1>2. /\ Sorted(q, V) /\ q[n] \in 1..Len(l) /\ q[n] \in Nat /\ q[n] \in V
      /\ e \in Nat /\ at.offset < e
  BY Zenon, SnapshotOrder
<1>3. FileLen(l) \in Nat /\ e <= FileLen(l) /\ (e < FileLen(l) => l[q[n]].ended)
  BY Zenon, <1>2, LogLines
<1>4. e < FileLen(l) /\ e <= at.end
  BY <1>2, <1>3
<1>5. ValidPosition(l, next)
  BY Zenon, <1>1, <1>2, <1>3, <1>4 DEF ValidPosition
<1>6. rest.offset = e /\ rest.end = at.end
  BY Zenon
<1>7. ASSUME NEW x \in 1..Len(l)
      PROVE  /\ q[n] < x => e <= l[x].at /\ at.offset <= l[x].at
             /\ ~(q[n] < x) => ~(e <= l[x].at)
  <2> HIDE DEF e
  <2>1. x \in Nat /\ l[x].at \in Nat /\ EndOf(l[x]) \in Nat /\ l[x].at < EndOf(l[x])
    BY Zenon, LogLines
  <2>2. q[n] < x => e <= l[x].at
    BY Zenon, <1>2, LogLines DEF e
  <2>3. q[n] < x => at.offset <= l[x].at
    BY Zenon, <1>2, <2>1, <2>2, UpTo
  <2>4. x < q[n] => EndOf(l[x]) <= l[q[n]].at
    BY Zenon, <1>2, LogLines
  <2>5. l[q[n]].at \in Nat /\ l[q[n]].at < e
    BY Zenon, <1>2, LogLines DEF e
  <2>6. x < q[n] => ~(e <= l[x].at)
    BY Zenon, <1>2, <2>1, <2>4, <2>5, Comparisons
  <2>7. x = q[n] => ~(e <= l[x].at)
    BY Zenon, <1>2, <2>5, Comparisons
  <2>8. q[n] < x \/ x < q[n] \/ x = q[n]
    BY Zenon, <1>2, <2>1, Comparisons
  <2> QED
    BY Zenon, <2>2, <2>3, <2>6, <2>7, <2>8
<1>8. Visible(l, rest) = {x \in V : q[n] < x}
  <2>1. \A x : x \in V <=> x \in Records(l) /\ at.offset <= l[x].at /\ l[x].at < at.end
    BY Zenon DEF Visible
  <2>2. \A x : x \in Visible(l, rest) <=> x \in Records(l) /\ e <= l[x].at /\ l[x].at < at.end
    BY Zenon, <1>6 DEF Visible
  <2>3. \A x \in Records(l) : x \in 1..Len(l)
    BY Zenon DEF Records
  <2> QED
    BY Zenon, <1>7, <2>1, <2>2, <2>3
<1>9. V \subseteq Nat /\ IsFiniteSet(V)
  BY Zenon, VisibleRecords
<1>10. q = SubSeq(q, 1, n) \o InOrder(Visible(l, rest))
  <2> DEFINE U == Visible(l, rest)
  <2>1. Sorted(q, V)
    BY Zenon, <1>2
  <2> HIDE DEF U, V
  <2>2. U = {x \in V : q[n] < x}
    BY Zenon, <1>8 DEF U
  <2>3. Splits(q, V, n)
    BY Zenon, <1>9, <2>1, SortedSplits
  <2> QED
    BY Zenon, <2>2, <2>3 DEF U, Splits
<1>11. next \in Place
  BY Zenon, <1>2 DEF Cursor, Place
<1> QED
  BY Zenon, <1>1, <1>2, <1>5, <1>10, <1>11 DEF GoesOn
-----------------------------------------------------------------------------
(* The first page.                                                         *)

LEMMA LeastOf ==
  ASSUME NEW T, T \subseteq Nat, T # {}
  PROVE  Min(T) \in T /\ \A k \in T : Min(T) <= k
BY Zenon, LeastNumber DEF Min

\* recent_start finds where the newest records begin: the first page's
\* snapshot holds them and no other.
LEMMA FirstSnapshot ==
  ASSUME NEW l, IsLog(l), NEW limit, limit.limit \in Nat, NEW cursor, ~cursor.some,
         NEW at, at = PageOffsets(l, cursor, limit)
  PROVE  /\ at.offset \in Nat /\ at.end \in Nat /\ at.end <= FileLen(l)
         /\ Newest(l, limit) = InOrder(Visible(l, at))
<1> DEFINE R == Records(l)
<1> DEFINE Newer(i) == {j \in R : j > i}
<1> DEFINE W == {i \in R : Cardinality(Newer(i)) < limit.limit}
<1> DEFINE from == IF ~limit.some THEN 0 ELSE RecentStart(l, limit.limit)
<1>1. FileLen(l) \in Nat /\ R \subseteq 1..Len(l) /\ R \subseteq Nat /\ IsFiniteSet(R)
  BY Zenon, LogLines, RecordsOfLog
<1>2. at = [offset |-> from, end |-> FileLen(l)]
  BY Zenon DEF PageOffsets
<1>3. at.offset = from /\ at.end = FileLen(l)
  <2> HIDE DEF from
  <2> QED
    BY <1>2
<1>4. \A i \in R : l[i].at \in Nat /\ 0 <= l[i].at /\ l[i].at < FileLen(l)
  <2>1. ASSUME NEW i \in R PROVE l[i].at \in Nat /\ 0 <= l[i].at /\ l[i].at < FileLen(l)
    <3>1. /\ l[i].at \in Nat /\ EndOf(l[i]) \in Nat /\ l[i].at < EndOf(l[i])
          /\ EndOf(l[i]) <= FileLen(l)
      BY Zenon, <1>1, LogLines
    <3> QED
      BY <1>1, <3>1
  <2> QED
    BY Zenon, <2>1
<1>5. Visible(l, at) = {i \in R : from <= l[i].at}
  BY Zenon, <1>3, <1>4 DEF Visible
<1>6. at.end \in Nat /\ at.end <= FileLen(l)
  BY <1>1, <1>3
<1>7. CASE ~limit.some
  <2>1. from = 0 /\ 0 \in Nat
    BY Zenon, <1>7
  <2>2. {i \in R : from <= l[i].at} = R
    BY Zenon, <1>4, <2>1
  <2>3. Newest(l, limit) = InOrder(R)
    <3>1. {i \in R : limit.some => Cardinality(Newer(i)) < limit.limit} = R
      BY Zenon, <1>7
    <3> QED
      BY Zenon, <3>1 DEF Newest
  <2> QED
    BY Zenon, <1>3, <1>5, <1>6, <2>1, <2>2, <2>3
<1>8. CASE limit.some
  <2>1. Newest(l, limit) = InOrder(W)
    <3>1. {i \in R : limit.some => Cardinality(Newer(i)) < limit.limit} = W
      BY Zenon, <1>8
    <3> QED
      BY Zenon, <3>1 DEF Newest
  <2>2. from = IF W = {} THEN FileLen(l) ELSE l[Min(W)].at
    BY Zenon, <1>8 DEF RecentStart
  <2>3. CASE W = {}
    <3>1. from = FileLen(l) /\ from \in Nat
      BY Zenon, <1>1, <2>2, <2>3
    <3>2. \A i \in R : ~(from <= l[i].at)
      <4> HIDE DEF R, from
      <4> QED
        BY <1>1, <1>4, <3>1
    <3>3. {i \in R : from <= l[i].at} = W
      BY Zenon, <2>3, <3>2
    <3> QED
      BY Zenon, <1>3, <1>5, <1>6, <2>1, <3>1, <3>3
  <2>4. CASE W # {}
    <3> DEFINE m == Min(W)
    <3>1. W \subseteq R /\ W \subseteq Nat
      BY Zenon, <1>1
    <3>2. m \in W /\ \A k \in W : m <= k
      BY Zenon, <2>4, <3>1, LeastOf
    <3>3. from = l[m].at
      BY Zenon, <2>2, <2>4
    <3> HIDE DEF m, from
    <3>4. m \in R /\ m \in 1..Len(l) /\ m \in Nat /\ from \in Nat
      BY Zenon, <1>1, <1>4, <3>1, <3>2, <3>3
    <3>5. ASSUME NEW i \in W PROVE from <= l[i].at
      <4>1. i \in R /\ i \in 1..Len(l) /\ i \in Nat /\ l[i].at \in Nat
        BY Zenon, <1>1, <1>4, <3>1
      <4>2. m = i \/ m < i
        BY <3>2, <3>4, <4>1
      <4>3. CASE m = i
        BY <3>3, <3>4, <4>3
      <4>4. CASE m < i
        <5>1. EndOf(l[m]) <= l[i].at
          BY Zenon, <3>4, <4>1, <4>4, LogLines
        <5>2. EndOf(l[m]) \in Nat /\ from < EndOf(l[m])
          BY Zenon, <3>3, <3>4, LogLines
        <5> QED
          BY <3>4, <4>1, <5>1, <5>2
      <4> QED
        BY Zenon, <4>2, <4>3, <4>4
    <3>6. ASSUME NEW i \in R, from <= l[i].at PROVE i \in W
      <4>1. i \in 1..Len(l) /\ i \in Nat /\ l[i].at \in Nat
        BY Zenon, <1>1, <1>4
      <4>2. ~(i < m)
        <5>1. ASSUME i < m PROVE FALSE
          <6>1. EndOf(l[i]) <= l[m].at
            BY Zenon, <3>4, <4>1, <5>1, LogLines
          <6>2. EndOf(l[i]) \in Nat /\ l[i].at < EndOf(l[i])
            BY Zenon, <4>1, LogLines
          <6> QED
            BY <3>3, <3>4, <3>6, <4>1, <6>1, <6>2
        <5> QED
          BY Zenon, <5>1
      <4>3. Newer(i) \in SUBSET Newer(m)
        <5>1. ASSUME NEW j \in R, j > i PROVE j > m
          <6>1. j \in Nat
            BY Zenon, <1>1
          <6> QED
            BY <3>4, <4>1, <4>2, <5>1, <6>1
        <5> QED
          BY Zenon, <5>1
      <4>4. Newer(m) \in SUBSET R /\ Newer(i) \in SUBSET R
        BY Zenon
      <4>5. IsFiniteSet(Newer(m)) /\ IsFiniteSet(Newer(i))
        BY Zenon, <1>1, <4>4, FS_Subset
      <4>6. Cardinality(Newer(i)) <= Cardinality(Newer(m))
        BY Zenon, <4>3, <4>5, FS_Subset
      <4>7. Cardinality(Newer(i)) \in Nat /\ Cardinality(Newer(m)) \in Nat
        BY Zenon, <4>5, FS_CardinalityType
      <4>8. Cardinality(Newer(m)) < limit.limit
        BY Zenon, <3>2
      <4> HIDE DEF Newer
      <4>9. Cardinality(Newer(i)) < limit.limit
        BY <4>6, <4>7, <4>8
      <4> QED
        BY Zenon, <4>9 DEF Newer
    <3>7. {i \in R : from <= l[i].at} = W
      BY Zenon, <3>1, <3>5, <3>6
    <3> QED
      BY Zenon, <1>3, <1>5, <1>6, <2>1, <3>4, <3>7
  <2> QED
    BY Zenon, <2>3, <2>4
<1> QED
  BY Zenon, <1>7, <1>8
-----------------------------------------------------------------------------
(* The client and its pages.                                               *)

LEMMA ClientFields ==
  ASSUME NEW c \in Client
  PROVE  /\ c.pc \in Reading /\ c.limit.limit \in Nat /\ c.limit.some \in BOOLEAN
         /\ c.cursor \in Place /\ c.shown \in Seq(Nat)
BY Zenon DEF Client

LEMMA PlaceFields ==
  ASSUME NEW c \in Place
  PROVE  c.offset \in Nat /\ c.end_offset \in Nat /\ c.some \in BOOLEAN
BY Zenon DEF Place

LEMMA ClientMoves ==
  ASSUME NEW c \in Client, NEW pc \in Reading
  PROVE  LET d == [c EXCEPT !.pc = pc]
         IN d \in Client /\ d.pc = pc /\ d.cursor = c.cursor /\ d.shown = c.shown
BY Zenon DEF Client

LEMMA ClientStarts ==
  ASSUME NEW c \in Client, NEW limit \in [limit : Nat, some : BOOLEAN]
  PROVE  LET d == [c EXCEPT !.pc = "asked", !.limit = limit]
         IN d \in Client /\ d.pc = "asked" /\ d.cursor = c.cursor /\ d.shown = c.shown
BY Zenon DEF Client, Reading

Followed(d, c, shown, cursor, pc) == d = [c EXCEPT !.shown = shown, !.cursor = cursor, !.pc = pc]

ClientIs(d, shown, cursor, pc) ==
  d \in Client /\ d.pc = pc /\ d.cursor = cursor /\ d.shown = shown

LEMMA ClientGoesOn ==
  ASSUME NEW c \in Client, NEW shown \in Seq(Nat), NEW cursor \in Place, NEW pc \in Reading,
         NEW d, Followed(d, c, shown, cursor, pc)
  PROVE  ClientIs(d, shown, cursor, pc)
BY Zenon DEF Client, Followed, ClientIs

LEMMA NothingAsked == NoCursor \in Place /\ ~NoCursor.some
BY DEF NoCursor, Place

LEMMA AnswerFields ==
  ASSUME NEW r, NEW h, NEW n, Answer(r, h, n)
  PROVE  r.kind = "ok" /\ r.history = h /\ r.next = n /\ r # NoResponse
BY Zenon DEF Answer, NoResponse

LEMMA RefusalFields ==
  ASSUME NEW r, Refusal(r)
  PROVE  r.kind = "error" /\ r.why = "record too large" /\ r # NoResponse
BY Zenon DEF Refusal, NoResponse

\* Two ways to say that w is a, b and c put together.
Joined(w, a, b, c)  == w = (a \o b) \o c
Grouped(w, a, b, c) == w = a \o (b \o c)

LEMMA Regroup ==
  ASSUME NEW a \in Seq(Nat), NEW b \in Seq(Nat), NEW c \in Seq(Nat), NEW w
  PROVE  Joined(w, a, b, c) <=> Grouped(w, a, b, c)
<1>1. (a \o b) \o c = a \o (b \o c)
  BY SMTT(30), ConcatAssociative
<1> QED
  BY Zenon, <1>1 DEF Joined, Grouped

LEMMA IsPrefixOfConcat ==
  ASSUME NEW a \in Seq(Nat), NEW b \in Seq(Nat)
  PROVE  IsPrefix(a, a \o b)
<1>1. Len(a) <= Len(a \o b) /\ \A k \in 1..Len(a) : a[k] = (a \o b)[k]
  OBVIOUS
<1> QED
  BY Zenon, <1>1 DEF IsPrefix

LEMMA RestType ==
  ASSUME NEW l, IsLog(l), NEW c, Honest(l, c)
  PROVE  Rest(l, c) \in Seq(Nat)
<1>1. CASE ~c.some
  <2>1. Rest(l, c) = << >>
    BY Zenon, <1>1 DEF Rest
  <2> QED
    BY <2>1
<1>2. CASE c.some
  <2> DEFINE at == [offset |-> c.offset, end |-> c.end_offset]
  <2>1. Rest(l, c) = InOrder(Visible(l, at))
    BY Zenon, <1>2 DEF Rest
  <2>2. Visible(l, at) \subseteq Nat /\ IsFiniteSet(Visible(l, at))
    BY Zenon, VisibleRecords
  <2>3. Sorted(Rest(l, c), Visible(l, at))
    BY Zenon, <2>1, <2>2, InOrderSorts
  <2> QED
    BY Zenon, <2>2, <2>3, SortedLines
<1> QED
  BY Zenon, <1>1, <1>2

\* A cursor stays good, and leads to the same records, while the log grows.
LEMMA CursorStays ==
  ASSUME NEW l, NEW m, Extends(l, m), NEW c, Honest(l, c)
  PROVE  Honest(m, c) /\ Rest(m, c) = Rest(l, c)
<1>1. c.offset \in Nat /\ c.end_offset \in Nat
  BY Zenon, PlaceFields DEF Honest
<1>2. c.some => ValidPosition(m, c)
  BY Zenon, <1>1, PositionStays DEF Honest
<1>3. Honest(m, c)
  BY Zenon, <1>2 DEF Honest
<1>4. CASE c.some
  <2> DEFINE at == [offset |-> c.offset, end |-> c.end_offset]
  <2>1. at.end = c.end_offset
    OBVIOUS
  <2>2. c.end_offset <= FileLen(l)
    BY Zenon, <1>4 DEF Honest, ValidPosition
  <2>3. Visible(m, at) = Visible(l, at)
    <3>1. at.end \in Nat /\ at.end <= FileLen(l)
      BY Zenon, <1>1, <2>1, <2>2
    <3> HIDE DEF at
    <3> QED
      BY Zenon, <3>1, VisibleStays
  <2> QED
    BY Zenon, <1>3, <1>4, <2>3 DEF Rest
<1>5. CASE ~c.some
  BY Zenon, <1>3, <1>5 DEF Rest
<1> QED
  BY Zenon, <1>4, <1>5

LEMMA JoinedIsPrefix ==
  ASSUME NEW a \in Seq(Nat), NEW b \in Seq(Nat), NEW c \in Seq(Nat), NEW w, Joined(w, a, b, c)
  PROVE  IsPrefix(a, w)
<1>1. Grouped(w, a, b, c)
  BY Zenon, Regroup
<1>2. b \o c \in Seq(Nat)
  BY Zenon, ConcatProperties
<1>3. IsPrefix(a, a \o (b \o c))
  BY Zenon, <1>2, IsPrefixOfConcat
<1> QED
  BY Zenon, <1>1, <1>3 DEF Grouped

LEMMA AnsweredIsPrefix ==
  ASSUME IsLog(log), client.shown \in Seq(Nat), Answered
  PROVE  IsPrefix(client.shown, wanted)
<1>1. CASE IsPrefix(client.shown, wanted)
  BY Zenon, <1>1
<1>2. CASE /\ wire.history \in Seq(Nat) /\ Honest(log, wire.next)
           /\ wanted = (client.shown \o wire.history) \o Rest(log, wire.next)
  <2>1. Rest(log, wire.next) \in Seq(Nat) /\ wire.history \in Seq(Nat)
    BY Zenon, <1>2, RestType
  <2>2. Joined(wanted, client.shown, wire.history, Rest(log, wire.next))
    BY Zenon, <1>2 DEF Joined
  <2> QED
    BY Zenon, <2>1, <2>2, JoinedIsPrefix
<1> QED
  BY Zenon, <1>1, <1>2 DEF Answered

LEMMA PagesInvInit ==
  HistoryInit => PagesInv
<1> SUFFICES ASSUME HistoryInit PROVE PagesInv
  OBVIOUS
<1>1. /\ log = << >> /\ wire = NoResponse /\ wanted = << >>
      /\ client = [pc |-> "idle", limit |-> NoLimit, cursor |-> NoCursor, shown |-> << >>]
  BY Zenon DEF HistoryInit
<1>2. << >> \in Seq(Nat) /\ << >> \in Seq(Line) /\ 1..Len(<< >>) = {}
  OBVIOUS
<1>3. IsLog(log)
  BY Zenon, <1>1, <1>2 DEF IsLog
<1>4. NoCursor \in Place /\ ~NoCursor.some /\ NoLimit \in [limit : Nat, some : BOOLEAN]
  BY DEF NoCursor, NoLimit, Place
<1>5. client.pc = "idle" /\ client.cursor = NoCursor /\ client.shown = << >>
  BY <1>1
<1>6. client \in Client
  BY Zenon, <1>1, <1>2, <1>4 DEF Client, Reading
<1>7. Honest(log, client.cursor)
  BY Zenon, <1>4, <1>5 DEF Honest
<1>8. Asking
  BY Zenon, <1>1, <1>4, <1>5 DEF Asking
<1>9. "idle" \notin {"done", "closed", "record too large"}
  OBVIOUS
<1> QED
  BY Zenon, <1>1, <1>2, <1>3, <1>4, <1>5, <1>6, <1>7, <1>8, <1>9 DEF PagesInv

\* Appending, whole or torn, between any two steps of a client.
LEMMA LogGrows ==
  ASSUME PagesInv, Extends(log, log'), UNCHANGED <<client, wire, wanted>>
  PROVE  PagesInv'
<1>1. client' = client /\ wire' = wire /\ wanted' = wanted
  OBVIOUS
<1>2. IsLog(log')
  BY Zenon DEF Extends
<1>3. Honest(log', client.cursor) /\ Rest(log', client.cursor) = Rest(log, client.cursor)
  BY Zenon, CursorStays DEF PagesInv
<1>4. Honest(log, wire.next) =>
        Honest(log', wire.next) /\ Rest(log', wire.next) = Rest(log, wire.next)
  BY Zenon, CursorStays
<1>5. Asking => Asking'
  BY Zenon, <1>1, <1>3 DEF Asking
<1>6. Answered => Answered'
  BY Zenon, <1>1, <1>4 DEF Answered
<1> QED
  BY Zenon, <1>1, <1>2, <1>3, <1>5, <1>6 DEF PagesInv, NoResponse

LEMMA LogSteps ==
  ASSUME PagesInv, NEW size \in Sizes, AppendRecord(size) \/ AppendTorn(size)
  PROVE  PagesInv'
<1>1. IsLog(log) /\ size \in Nat \ {0} /\ TRUE \in BOOLEAN /\ FALSE \in BOOLEAN
  BY Zenon, HistoryAssumption DEF PagesInv
<1>2. CASE AppendRecord(size)
  <2>1. Extends(log, log')
    BY Zenon, <1>1, <1>2, AppendedExtends DEF AppendRecord
  <2> QED
    BY Zenon, <1>2, <2>1, LogGrows DEF AppendRecord
<1>3. CASE AppendTorn(size)
  <2>1. CASE log' = Repaired(log)
    <3>1. Extends(log, log')
      BY Zenon, <1>1, <2>1, RepairExtends
    <3> QED
      BY Zenon, <1>3, <3>1, LogGrows DEF AppendTorn
  <2>2. ASSUME NEW part \in 1..size, log' = Appended(log, part = size, part, FALSE)
        PROVE  PagesInv'
    <3>1. part \in Nat \ {0} /\ (part = size) \in BOOLEAN
      BY <1>1
    <3>2. Extends(log, log')
      BY Zenon, <1>1, <2>2, <3>1, AppendedExtends
    <3> QED
      BY Zenon, <1>3, <3>2, LogGrows DEF AppendTorn
  <2> QED
    BY Zenon, <1>3, <2>1, <2>2 DEF AppendTorn
<1> QED
  BY Zenon, <1>2, <1>3

LEMMA StartStep ==
  ASSUME PagesInv, NEW limit \in [limit : Nat, some : BOOLEAN], Start(limit)
  PROVE  PagesInv'
<1>1. /\ client.pc = "idle" /\ log' = log /\ wire' = wire /\ wanted' = wanted
      /\ client' = [client EXCEPT !.pc = "asked", !.limit = limit]
  BY Zenon DEF Start
<1>2. client \in Client
  BY Zenon DEF PagesInv
<1>3. client' \in Client /\ client'.pc = "asked" /\ client'.cursor = client.cursor
      /\ client'.shown = client.shown
  BY Zenon, <1>1, <1>2, ClientStarts
<1>4. "idle" # "asked" /\ "asked" \notin {"done", "closed", "record too large"} /\ "asked" # "idle"
  OBVIOUS
<1>5. wire = NoResponse
  BY Zenon, <1>1, <1>4 DEF PagesInv
<1>6. Asking'
  <2>1. Asking
    BY Zenon, <1>1, <1>5 DEF PagesInv
  <2> QED
    BY Zenon, <1>1, <1>3, <2>1 DEF Asking
<1>7. IsLog(log) /\ wanted \in Seq(Nat) /\ Honest(log, client.cursor)
  BY Zenon DEF PagesInv
<1> QED
  BY Zenon, <1>1, <1>3, <1>4, <1>5, <1>6, <1>7 DEF PagesInv, NoResponse

\* A response drawn from a snapshot q: it is a first part of q, with an honest
\* cursor to the rest, further on than the request's; or the refusal.
LEMMA ResponseGoesOn ==
  ASSUME IsLog(log), NEW at, at.offset \in Nat, at.end \in Nat, at.end <= FileLen(log),
         NEW q, q = InOrder(Visible(log, at)),
         NEW resp, resp = ResponseForHistory(log, ReadSnapshotPage(log, at), at.end)
  PROVE  /\ q \in Seq(Nat) /\ resp # NoResponse
         /\ \/ resp.kind = "error" /\ resp.why = "record too large"
            \/ /\ resp.kind = "ok" /\ resp.history \in Seq(Nat) /\ Honest(log, resp.next)
               /\ resp.next.some => at.offset < resp.next.offset
               /\ q = resp.history \o Rest(log, resp.next)
<1>1. q \in Seq(Nat) /\ Len(q) \in Nat
  BY Zenon, SnapshotOrder
<1>2. CASE Refusal(resp)
  <2>1. resp.kind = "error" /\ resp.why = "record too large" /\ resp # NoResponse
    BY Zenon, <1>2, RefusalFields
  <2> QED
    BY Zenon, <1>1, <2>1
<1>3. ASSUME NEW n, NEW next, Answer(resp, SubSeq(q, 1, n), next), Part(q, log, at, n, next)
      PROVE  /\ resp # NoResponse
             /\ resp.kind = "ok" /\ resp.history \in Seq(Nat) /\ Honest(log, resp.next)
             /\ resp.next.some => at.offset < resp.next.offset
             /\ q = resp.history \o Rest(log, resp.next)
  <2>1. resp.kind = "ok" /\ resp.history = SubSeq(q, 1, n) /\ resp.next = next /\ resp # NoResponse
    BY Zenon, <1>3, AnswerFields
  <2>2. SubSeq(q, 1, n) \in Seq(Nat)
    BY Zenon, <1>1, <1>3, PrefixOf DEF Part
  <2>3. CASE next = NoCursor /\ n = Len(q)
    <3>1. Honest(log, next) /\ ~next.some /\ Rest(log, next) = << >>
      BY Zenon, <2>3, NothingAsked DEF Honest, Rest
    <3>2. SubSeq(q, 1, n) = q
      BY Zenon, <1>1, <2>3, SubSeqFull
    <3>3. q \o << >> = q
      BY Zenon, <1>1, ConcatEmptySeq
    <3> QED
      BY Zenon, <1>1, <2>1, <3>1, <3>2, <3>3
  <2>4. CASE /\ n \in 1..Len(q)
             /\ next = Cursor(EndOf(log[q[n]]), at.end)
             /\ EndOf(log[q[n]]) < at.end
    <3>1. GoesOn(q, log, at, n, next)
      BY Zenon, <2>4, CursorGoesOn
    <3>2. next.some /\ at.offset < next.offset
      BY Zenon, <3>1 DEF GoesOn
    <3>3. Honest(log, next)
      BY Zenon, <3>1 DEF GoesOn, Honest
    <3>4. Rest(log, next) = InOrder(Visible(log, [offset |-> next.offset, end |-> next.end_offset]))
      BY Zenon, <3>2 DEF Rest
    <3>5. q = SubSeq(q, 1, n) \o Rest(log, next)
      BY Zenon, <3>1, <3>4 DEF GoesOn
    <3> QED
      BY Zenon, <2>1, <2>2, <3>2, <3>3, <3>5
  <2> QED
    BY Zenon, <1>3, <2>3, <2>4 DEF Part
<1>4. AnswersWith(resp, q, log, at)
  BY Zenon, ResponseOfPage
<1> QED
  BY Zenon, <1>1, <1>2, <1>3, <1>4 DEF AnswersWith

\* history_page and response_for_history, for a first and for a later request.
LEMMA ServeStep ==
  ASSUME PagesInv, Serve
  PROVE  PagesInv'
<1> DEFINE at == PageOffsets(log, client.cursor, client.limit)
<1> DEFINE resp == ResponseForHistory(log, ReadSnapshotPage(log, at), at.end)
<1> DEFINE q == InOrder(Visible(log, at))
<1>1. /\ client.pc = "asked" /\ wire = NoResponse /\ log' = log /\ client' = client
      /\ wire' = IF client.cursor.some /\ ~ValidPosition(log, client.cursor)
                 THEN [kind |-> "error", why |-> "history cursor is invalid"]
                 ELSE resp
      /\ wanted' = IF client.cursor.some THEN wanted ELSE Newest(log, client.limit)
  BY Zenon DEF Serve
<1>2. /\ IsLog(log) /\ client \in Client /\ wanted \in Seq(Nat)
      /\ Honest(log, client.cursor) /\ Asking
  BY Zenon, <1>1 DEF PagesInv
<1>3. /\ client.cursor.some \in BOOLEAN /\ client.cursor.offset \in Nat
      /\ client.cursor.end_offset \in Nat /\ client.shown \in Seq(Nat)
      /\ client.limit.limit \in Nat
  BY Zenon, <1>2, ClientFields, PlaceFields
<1>4. wire' = resp
  BY Zenon, <1>1, <1>2 DEF Honest
<1>5. /\ at.offset \in Nat /\ at.end \in Nat /\ at.end <= FileLen(log)
      /\ client.cursor.some => at.offset = client.cursor.offset
      /\ wanted' = client.shown \o q
  <2>1. CASE client.cursor.some
    <3>1. at = [offset |-> client.cursor.offset, end |-> client.cursor.end_offset]
      BY Zenon, <2>1 DEF PageOffsets
    <3> HIDE DEF at
    <3>2. at.offset = client.cursor.offset /\ at.end = client.cursor.end_offset
      BY <3>1
    <3>3. client.cursor.end_offset <= FileLen(log)
      BY Zenon, <1>2, <2>1 DEF Honest, ValidPosition
    <3>4. wanted' = client.shown \o q
      BY Zenon, <1>1, <1>2, <2>1, <3>1 DEF Asking, Rest
    <3> QED
      BY Zenon, <1>3, <3>2, <3>3, <3>4
  <2>2. CASE ~client.cursor.some
    <3>1. /\ at.offset \in Nat /\ at.end \in Nat /\ at.end <= FileLen(log)
          /\ Newest(log, client.limit) = q
      BY Zenon, <1>2, <1>3, <2>2, FirstSnapshot
    <3>2. client.shown = << >> /\ wanted' = q
      BY Zenon, <1>1, <1>2, <2>2, <3>1 DEF Asking
    <3>3. q \in Seq(Nat)
      BY Zenon, <1>2, <3>1, SnapshotOrder
    <3>4. << >> \o q = q
      BY Zenon, <3>3, ConcatEmptySeq
    <3> QED
      BY Zenon, <2>2, <3>1, <3>2, <3>4
  <2> QED
    BY Zenon, <2>1, <2>2
<1> HIDE DEF at
<1>6. /\ q \in Seq(Nat) /\ resp # NoResponse
      /\ \/ resp.kind = "error" /\ resp.why = "record too large"
         \/ /\ resp.kind = "ok" /\ resp.history \in Seq(Nat) /\ Honest(log, resp.next)
            /\ resp.next.some => at.offset < resp.next.offset
            /\ q = resp.history \o Rest(log, resp.next)
  BY Zenon, <1>2, <1>5, ResponseGoesOn
<1> HIDE DEF resp, q
<1>7. wanted' \in Seq(Nat)
  BY Zenon, <1>3, <1>5, <1>6, ConcatProperties
<1>8. Answered'
  <2>1. CASE resp.kind = "error" /\ resp.why = "record too large"
    <3>1. IsPrefix(client.shown, wanted')
      BY Zenon, <1>3, <1>5, <1>6, IsPrefixOfConcat
    <3> QED
      BY Zenon, <1>1, <1>4, <2>1, <3>1 DEF Answered
  <2>2. CASE /\ resp.kind = "ok" /\ resp.history \in Seq(Nat) /\ Honest(log, resp.next)
             /\ resp.next.some => at.offset < resp.next.offset
             /\ q = resp.history \o Rest(log, resp.next)
    <3>1. Rest(log, resp.next) \in Seq(Nat)
      BY Zenon, <1>2, <2>2, RestType
    <3>2. wanted' = (client.shown \o resp.history) \o Rest(log, resp.next)
      <4>1. Grouped(wanted', client.shown, resp.history, Rest(log, resp.next))
        BY Zenon, <1>5, <2>2 DEF Grouped
      <4>2. Joined(wanted', client.shown, resp.history, Rest(log, resp.next))
        BY Zenon, <1>3, <2>2, <3>1, <4>1, Regroup
      <4> QED
        BY Zenon, <4>2 DEF Joined
    <3>3. client.cursor.some => resp.next # client.cursor
      <4>1. ~(client.cursor.offset < client.cursor.offset)
        BY <1>3
      <4> QED
        BY Zenon, <1>5, <2>2, <4>1
    <3> QED
      BY Zenon, <1>1, <1>4, <2>2, <3>2, <3>3 DEF Answered
  <2> QED
    BY Zenon, <1>6, <2>1, <2>2
<1>9. wire' # NoResponse /\ "asked" \notin {"idle", "done", "closed", "record too large"}
  BY Zenon, <1>4, <1>6
<1> QED
  BY Zenon, <1>1, <1>2, <1>7, <1>8, <1>9 DEF PagesInv, NoResponse

\* run_history_pages takes a page and asks for the next, or is done.
LEMMA ReceiveStep ==
  ASSUME PagesInv, Receive
  PROVE  PagesInv'
<1>1. wire # NoResponse /\ wire' = NoResponse /\ log' = log /\ wanted' = wanted
  BY Zenon DEF Receive
<1>2. /\ IsLog(log) /\ client \in Client /\ wanted \in Seq(Nat)
      /\ Honest(log, client.cursor) /\ client.pc = "asked" /\ Answered
  BY Zenon, <1>1 DEF PagesInv
<1>3. client.shown \in Seq(Nat)
  BY Zenon, <1>2, ClientFields
<1>4. CASE wire.kind = "ok" /\ client' = AfterPage(wire)
  <2>1. /\ wire.history \in Seq(Nat) /\ Honest(log, wire.next)
        /\ client.cursor.some => wire.next # client.cursor
        /\ wanted = (client.shown \o wire.history) \o Rest(log, wire.next)
    <3>1. "ok" # "error"
      OBVIOUS
    <3> QED
      BY Zenon, <1>2, <1>4, <3>1 DEF Answered
  <2> DEFINE shown == client.shown \o wire.history
  <2> DEFINE pc == IF wire.next.some THEN "asked" ELSE "done"
  <2>2. Followed(client', client, shown, wire.next, pc)
    BY Zenon, <1>4, <2>1 DEF AfterPage, Followed
  <2>3. shown \in Seq(Nat) /\ wire.next \in Place
    BY Zenon, <1>3, <2>1, ConcatProperties DEF Honest
  <2>4. pc \in Reading
    BY Zenon DEF Reading
  <2> HIDE DEF shown, pc
  <2>5. client' \in Client /\ client'.pc = pc /\ client'.cursor = wire.next /\ client'.shown = shown
    <3>1. ClientIs(client', shown, wire.next, pc)
      BY Zenon, <1>2, <2>2, <2>3, <2>4, ClientGoesOn
    <3> QED
      BY Zenon, <3>1 DEF ClientIs
  <2>6. Honest(log, client'.cursor)
    BY Zenon, <2>1, <2>5
  <2>7. wire.next.some \in BOOLEAN
    BY Zenon, <2>3, PlaceFields
  <2>8. CASE wire.next.some
    <3>1. pc = "asked"
      BY Zenon, <2>8 DEF pc
    <3>2. Asking'
      BY Zenon, <1>1, <2>1, <2>5, <2>8 DEF Asking, shown
    <3>3. "asked" \notin {"idle", "done", "closed", "record too large"}
      OBVIOUS
    <3> QED
      BY Zenon, <1>1, <1>2, <2>5, <2>6, <3>1, <3>2, <3>3 DEF PagesInv, NoResponse
  <2>9. CASE ~wire.next.some
    <3>1. pc = "done"
      BY Zenon, <2>9 DEF pc
    <3>2. Rest(log, wire.next) = << >>
      BY Zenon, <2>9 DEF Rest
    <3>3. shown = wanted
      BY Zenon, <2>1, <2>3, <3>2, ConcatEmptySeq DEF shown
    <3>4. "done" \notin {"idle", "asked", "closed", "record too large"}
      OBVIOUS
    <3> QED
      BY Zenon, <1>1, <1>2, <2>5, <2>6, <3>1, <3>3, <3>4 DEF PagesInv, NoResponse
  <2> QED
    BY Zenon, <2>7, <2>8, <2>9
<1>5. CASE wire.kind = "error" /\ client' = [client EXCEPT !.pc = wire.why]
  <2>1. wire.why = "record too large" /\ IsPrefix(client.shown, wanted)
    <3>1. "ok" # "error"
      OBVIOUS
    <3> QED
      BY Zenon, <1>2, <1>5, <3>1 DEF Answered
  <2>2. wire.why \in Reading
    BY Zenon, <2>1 DEF Reading
  <2>3. client' \in Client /\ client'.pc = wire.why /\ client'.cursor = client.cursor
        /\ client'.shown = client.shown
    BY Zenon, <1>2, <1>5, <2>2, ClientMoves
  <2>4. "record too large" \notin {"idle", "asked", "done"}
    OBVIOUS
  <2> QED
    BY Zenon, <1>1, <1>2, <2>1, <2>3, <2>4 DEF PagesInv, NoResponse
<1> QED
  BY Zenon, <1>4, <1>5 DEF Receive

\* The output is closed: what was shown stays a first part of what was wanted.
LEMMA ReceiveClosedStep ==
  ASSUME PagesInv, ReceiveClosed
  PROVE  PagesInv'
<1>1. /\ wire # NoResponse /\ wire.kind = "ok" /\ wire' = NoResponse /\ log' = log
      /\ wanted' = wanted /\ client' = [client EXCEPT !.pc = "closed"]
  BY Zenon DEF ReceiveClosed
<1>2. /\ IsLog(log) /\ client \in Client /\ wanted \in Seq(Nat)
      /\ Honest(log, client.cursor) /\ Answered
  BY Zenon, <1>1 DEF PagesInv
<1>3. client.shown \in Seq(Nat)
  BY Zenon, <1>2, ClientFields
<1>4. IsPrefix(client.shown, wanted)
  BY Zenon, <1>2, <1>3, AnsweredIsPrefix
<1>5. client' \in Client /\ client'.pc = "closed" /\ client'.cursor = client.cursor
      /\ client'.shown = client.shown
  <2>1. "closed" \in Reading
    BY Zenon DEF Reading
  <2> QED
    BY Zenon, <1>1, <1>2, <2>1, ClientMoves
<1>6. "closed" \notin {"idle", "asked", "done"}
  OBVIOUS
<1> QED
  BY Zenon, <1>1, <1>2, <1>4, <1>5, <1>6 DEF PagesInv, NoResponse

LEMMA PagesInvStep ==
  ASSUME PagesInv, [HistoryNext]_pages
  PROVE  PagesInv'
<1>1. ASSUME NEW size \in Sizes, AppendRecord(size) \/ AppendTorn(size) PROVE PagesInv'
  BY Zenon, <1>1, LogSteps
<1>2. ASSUME NEW limit \in Limits, Start(Limit(limit)) PROVE PagesInv'
  <2>1. limit \in Nat
    BY Zenon, HistoryAssumption
  <2>2. Limit(limit) \in [limit : Nat, some : BOOLEAN]
    BY <2>1 DEF Limit
  <2> QED
    BY Zenon, <1>2, <2>2, StartStep
<1>3. CASE Start(NoLimit)
  <2>1. NoLimit \in [limit : Nat, some : BOOLEAN]
    BY DEF NoLimit
  <2> QED
    BY Zenon, <1>3, <2>1, StartStep
<1>4. CASE Serve
  BY Zenon, <1>4, ServeStep
<1>5. CASE Receive
  BY Zenon, <1>5, ReceiveStep
<1>6. CASE ReceiveClosed
  BY Zenon, <1>6, ReceiveClosedStep
<1>7. CASE UNCHANGED pages
  BY Zenon, <1>7 DEF PagesInv, pages, Asking, Answered, NoResponse
<1> QED
  BY Zenon, <1>1, <1>2, <1>3, <1>4, <1>5, <1>6, <1>7 DEF HistoryNext

LEMMA PagesInvHolds ==
  HistorySpec => []PagesInv
<1>1. HistoryInit => PagesInv
  BY PagesInvInit
<1>2. PagesInv /\ [HistoryNext]_pages => PagesInv'
  BY PagesInvStep
<1> QED
  BY <1>1, <1>2, PTL DEF HistorySpec

\* However many pages a listing takes and whatever run_history_pages, the
\* daemon's append and a torn line do in between, what the client has shown is
\* a prefix of the records it asked for, and all of them once it is done.
THEOREM ListingsShowTheSnapshot ==
  HistorySpec => []ShowsTheSnapshot
<1>1. PagesInv => ShowsTheSnapshot
  <2> SUFFICES ASSUME PagesInv PROVE ShowsTheSnapshot
    OBVIOUS
  <2>1. /\ IsLog(log) /\ client \in Client /\ wanted \in Seq(Nat)
        /\ Honest(log, client.cursor)
        /\ client.pc = "done" => client.shown = wanted
    BY Zenon DEF PagesInv
  <2>2. client.shown \in Seq(Nat) /\ client.pc \in Reading
    BY Zenon, <2>1, ClientFields
  <2>3. CASE wire # NoResponse
    BY Zenon, <2>1, <2>2, <2>3, AnsweredIsPrefix DEF PagesInv, ShowsTheSnapshot
  <2>4. CASE wire = NoResponse /\ client.pc \in {"idle", "asked"}
    <3>1. Asking
      BY Zenon, <2>4 DEF PagesInv
    <3>2. << >> \o << >> = << >> /\ << >> \in Seq(Nat)
      OBVIOUS
    <3>3. CASE client.cursor.some
      <4>1. Rest(log, client.cursor) \in Seq(Nat)
        BY Zenon, <2>1, RestType
      <4>2. wanted = client.shown \o Rest(log, client.cursor)
        BY Zenon, <3>1, <3>3 DEF Asking
      <4>3. IsPrefix(client.shown, wanted)
        BY Zenon, <2>2, <4>1, <4>2, IsPrefixOfConcat
      <4> QED
        BY Zenon, <2>1, <4>3 DEF ShowsTheSnapshot
    <3>4. CASE ~client.cursor.some
      <4>1. client.shown = << >> /\ wanted = << >>
        BY Zenon, <3>1, <3>4 DEF Asking
      <4>2. IsPrefix(client.shown, wanted)
        BY Zenon, <3>2, <4>1, IsPrefixOfConcat
      <4> QED
        BY Zenon, <2>1, <4>2 DEF ShowsTheSnapshot
    <3> QED
      BY Zenon, <3>3, <3>4
  <2>5. CASE client.pc = "done"
    <3>1. << >> \in Seq(Nat) /\ wanted \o << >> = wanted
      BY <2>1
    <3>2. IsPrefix(wanted, wanted)
      BY Zenon, <2>1, <3>1, IsPrefixOfConcat
    <3> QED
      BY Zenon, <2>1, <2>5, <3>2 DEF ShowsTheSnapshot
  <2>6. CASE client.pc \in {"closed", "record too large"}
    BY Zenon, <2>1, <2>6 DEF PagesInv, ShowsTheSnapshot
  <2> QED
    BY Zenon, <2>2, <2>3, <2>4, <2>5, <2>6 DEF Reading
<1> QED
  BY <1>1, PagesInvHolds, PTL

\* validate_position accepts every cursor the daemon has given, however the log
\* grew or was repaired since, and no cursor leads back to itself.
THEOREM DaemonHonoursItsCursors ==
  HistorySpec => []CursorsAreHonoured
<1>1. PagesInv => CursorsAreHonoured
  <2>1. PagesInv => client.pc \in Reading
    BY Zenon, ClientFields DEF PagesInv
  <2> QED
    BY Zenon, <2>1 DEF CursorsAreHonoured, Reading
<1> QED
  BY <1>1, PagesInvHolds, PTL
=============================================================================
