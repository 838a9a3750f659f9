----------------------------- MODULE Supervisor ----------------------------
(***************************************************************************)
(* The daemon's two supervised tasks.  Each supervisor waits for its task  *)
(* or for shutdown, restarts a failed task after a jittered exponential    *)
(* delay, and on shutdown gives the task a grace period before aborting    *)
(* it.  The listener's own accept loop, with its own backoff, is included. *)
(* Time passes in steps; remaining delays count down.                      *)
(***************************************************************************)
EXTENDS Integers, FiniteSets

CONSTANTS
  MinDelay,     \* restart_min_delay_ms
  Cap,          \* largest delay before jitter
  Stable,       \* STABLE_TASK_RUN
  MaxCount      \* bound on the failures counted in a row

ASSUME SupervisorAssumption ==
  /\ MinDelay \in Nat /\ Cap \in Nat
  /\ Stable \in Nat \ {0} /\ MaxCount \in Nat \ {0}

Tasks == {"listener", "worker"}

VARIABLES
  sup,        \* supervisor: "watching", "backoff", "grace", "ended"
  live,       \* live[t]: instances of the task that exist
  task,       \* the instance supervised: "running", "failed", "returned", "aborting"
  uptime,     \* time since the instance was started, up to Stable
  level,      \* what the backoff iterator yields next, before jitter
  delay,      \* time left to sleep
  row,        \* ghost: failures in a row of instances that were not stable
  loop,       \* listener: "binding", "accepting", "paused"
  accept,     \* what the accept backoff yields next
  stopping,   \* the shutdown signal
  exited

supervision == <<sup, live, task, uptime, level, delay, row, loop, accept,
                 stopping, exited>>

Smaller(a, b) == IF a <= b THEN a ELSE b

\* backoff: the minimum first, then doubling up to the cap, to which a larger
\* minimum falls; the jitter adds up to the same again.
Doubled(d) == Smaller(2 * d, Cap)
Jittered(d) == {d} \cup d .. 2 * d - 1
-----------------------------------------------------------------------------
SupervisorInit ==
  /\ sup = [t \in Tasks |-> "watching"]
  /\ live = [t \in Tasks |-> 1]
  /\ task = [t \in Tasks |-> "running"]
  /\ uptime = [t \in Tasks |-> 0]
  /\ level = [t \in Tasks |-> MinDelay]
  /\ delay = [t \in Tasks |-> 0]
  /\ row = [t \in Tasks |-> 0]
  /\ loop = "binding"
  /\ accept = MinDelay
  /\ stopping = FALSE
  /\ exited = FALSE

Ends(t, how) ==
  /\ live[t] = 1 /\ task[t] = "running"
  /\ task' = [task EXCEPT ![t] = how]
  /\ live' = [live EXCEPT ![t] = 0]

\* run_worker returns an error or panics.
WorkerFails ==
  /\ Ends("worker", "failed")
  /\ UNCHANGED <<sup, uptime, level, delay, row, loop, accept, stopping, exited>>

\* run_worker sees shutdown at one of its waits.
WorkerReturns ==
  /\ stopping
  /\ Ends("worker", "returned")
  /\ UNCHANGED <<sup, uptime, level, delay, row, loop, accept, stopping, exited>>

\* run_listener: prepare_listener succeeds or fails.
ListenerBinds ==
  /\ loop = "binding" /\ task["listener"] = "running"
  /\ loop' = "accepting"
  /\ accept' = MinDelay
  /\ UNCHANGED <<sup, live, task, uptime, level, delay, row, stopping, exited>>

ListenerFails ==
  /\ loop = "binding"
  /\ Ends("listener", "failed")
  /\ UNCHANGED <<sup, uptime, level, delay, row, loop, accept, stopping, exited>>

\* Accepting a connection resets the accept backoff.
Accept ==
  /\ loop = "accepting" /\ task["listener"] = "running"
  /\ accept' = MinDelay
  /\ UNCHANGED <<sup, live, task, uptime, level, delay, row, loop, stopping, exited>>

AcceptError ==
  /\ loop = "accepting" /\ task["listener"] = "running"
  /\ loop' = "paused"
  /\ accept' = Doubled(accept)
  /\ UNCHANGED <<sup, live, task, uptime, level, delay, row, stopping, exited>>

\* The pause after a failed accept is over.
AcceptAgain ==
  /\ loop = "paused" /\ task["listener"] = "running"
  /\ loop' = "accepting"
  /\ UNCHANGED <<sup, live, task, uptime, level, delay, row, accept, stopping, exited>>

ListenerReturns ==
  /\ stopping /\ loop # "binding"
  /\ Ends("listener", "returned")
  /\ UNCHANGED <<sup, uptime, level, delay, row, loop, accept, stopping, exited>>
-----------------------------------------------------------------------------
(* supervise_task.                                                         *)

\* Mutant: every failure starts the delays again.
AfterRunAlways(t) == MinDelay

\* reset_backoff_after_stable_run.
AfterRun(t) == IF uptime[t] >= Stable THEN MinDelay ELSE level[t]

\* Mutant: a failed task is not restarted.
TaskEndedStops(t) ==
  /\ sup[t] = "watching" /\ task[t] # "running"
  /\ sup' = [sup EXCEPT ![t] = "ended"]
  /\ UNCHANGED <<live, task, uptime, level, delay, row, loop, accept, stopping, exited>>

\* The task ended: normal completion stops the supervisor, a failure is
\* counted and a delay is drawn.
TaskEnded(t) ==
  /\ sup[t] = "watching" /\ task[t] # "running"
  /\ IF task[t] = "returned"
     THEN /\ sup' = [sup EXCEPT ![t] = "ended"]
          /\ UNCHANGED <<level, delay, row>>
     ELSE \E base \in {AfterRun(t)} : \E d \in Jittered(base) :
          /\ sup' = [sup EXCEPT ![t] = "backoff"]
          /\ level' = [level EXCEPT ![t] = Doubled(base)]
          /\ delay' = [delay EXCEPT ![t] = d]
          /\ row' = [row EXCEPT ![t] = IF uptime[t] >= Stable THEN 1
                                       ELSE Smaller(@ + 1, MaxCount)]
  /\ UNCHANGED <<live, task, uptime, loop, accept, stopping, exited>>

\* Mutant: the next instance does not wait for the failure of the last.
RespawnTaskAtOnce(t) ==
  /\ sup[t] \in {"watching", "backoff"} /\ task[t] # "returned"
  /\ sup' = [sup EXCEPT ![t] = "watching"]
  /\ live' = [live EXCEPT ![t] = @ + 1]
  /\ task' = [task EXCEPT ![t] = "running"]
  /\ uptime' = [uptime EXCEPT ![t] = 0]
  /\ loop' = IF t = "listener" THEN "binding" ELSE loop
  /\ UNCHANGED <<level, delay, row, accept, stopping, exited>>

\* The delay is over: spawn_listener or spawn_worker.
RespawnTask(t) ==
  /\ sup[t] = "backoff" /\ delay[t] = 0
  /\ sup' = [sup EXCEPT ![t] = "watching"]
  /\ live' = [live EXCEPT ![t] = @ + 1]
  /\ task' = [task EXCEPT ![t] = "running"]
  /\ uptime' = [uptime EXCEPT ![t] = 0]
  /\ loop' = IF t = "listener" THEN "binding" ELSE loop
  /\ UNCHANGED <<level, delay, row, accept, stopping, exited>>

\* Mutant: shutdown is not noticed during a delay.
SeesShutdownWatching(t) ==
  /\ stopping /\ sup[t] = "watching"
  /\ sup' = [sup EXCEPT ![t] = "grace"]
  /\ UNCHANGED <<live, task, uptime, level, delay, row, loop, accept, stopping, exited>>

\* shutdown.changed: beside the task it starts the grace period, during a
\* delay it ends the supervisor.
SeesShutdown(t) ==
  /\ stopping /\ sup[t] \in {"watching", "backoff"}
  /\ sup' = [sup EXCEPT ![t] = IF sup[t] = "watching" THEN "grace" ELSE "ended"]
  /\ UNCHANGED <<live, task, uptime, level, delay, row, loop, accept, stopping, exited>>

\* The grace period ends with the task, or with handle.abort.
GraceOver(t) ==
  /\ sup[t] = "grace"
  /\ sup' = [sup EXCEPT ![t] = "ended"]
  /\ task' = [task EXCEPT ![t] = IF @ = "running" THEN "aborting" ELSE @]
  /\ UNCHANGED <<live, uptime, level, delay, row, loop, accept, stopping, exited>>

\* An aborted task stops where it next yields.
Aborted(t) ==
  /\ task[t] = "aborting"
  /\ task' = [task EXCEPT ![t] = "returned"]
  /\ live' = [live EXCEPT ![t] = 0]
  /\ UNCHANGED <<sup, uptime, level, delay, row, loop, accept, stopping, exited>>

\* SIGINT or SIGTERM, or a handler for them that cannot be installed.
ShutdownSignal ==
  /\ ~stopping
  /\ stopping' = TRUE
  /\ UNCHANGED <<sup, live, task, uptime, level, delay, row, loop, accept, exited>>

\* tokio::join! of the two supervisors: run_with_tokens returns and the
\* runtime drops what is left.
Exit ==
  /\ ~exited /\ \A t \in Tasks : sup[t] = "ended"
  /\ exited' = TRUE
  /\ live' = [t \in Tasks |-> 0]
  /\ task' = [t \in Tasks |-> "returned"]
  /\ UNCHANGED <<sup, uptime, level, delay, row, loop, accept, stopping>>

\* A unit of time.
TimePasses ==
  /\ ~exited
  /\ uptime' = [t \in Tasks |-> IF task[t] = "running" THEN Smaller(uptime[t] + 1, Stable)
                                ELSE uptime[t]]
  /\ delay' = [t \in Tasks |-> IF delay[t] > 0 THEN delay[t] - 1 ELSE 0]
  /\ UNCHANGED <<sup, live, task, level, row, loop, accept, stopping, exited>>

ListenerLoop == ListenerBinds \/ ListenerFails \/ Accept \/ AcceptError \/ AcceptAgain

SupervisorNext ==
  \/ WorkerFails \/ WorkerReturns \/ ListenerLoop \/ ListenerReturns
  \/ \E t \in Tasks :
       TaskEnded(t) \/ RespawnTask(t) \/ SeesShutdown(t) \/ GraceOver(t) \/ Aborted(t)
  \/ ShutdownSignal \/ Exit \/ TimePasses

SupervisorSpec == SupervisorInit /\ [][SupervisorNext]_supervision

\* The runtime polls every supervisor; select! picks ready branches at
\* random, so a shutdown that stays ready is picked; time passes.
LiveSupervisorSpec ==
  /\ SupervisorSpec
  /\ WF_supervision(TimePasses) /\ WF_supervision(Exit)
  /\ WF_supervision(ListenerBinds) /\ WF_supervision(Accept \/ AcceptError)
  /\ WF_supervision(AcceptAgain)
  /\ \A t \in Tasks :
       /\ WF_supervision(TaskEnded(t)) /\ WF_supervision(RespawnTask(t))
       /\ WF_supervision(SeesShutdown(t)) /\ WF_supervision(GraceOver(t))
-----------------------------------------------------------------------------
(* Properties.                                                             *)

\* Two workers would post the same entry: across failures, restarts, grace
\* periods and aborts there is never a second instance of a task.
OneInstance == \A t \in Tasks : live[t] <= 1

\* MinDelay doubled n times.
Doublings[n \in 0..MaxCount] == IF n = 0 THEN MinDelay ELSE 2 * Doublings[n-1]

\* A task that keeps failing before it is stable is restarted ever more
\* slowly: after the n-th failure in a row the delay drawn is at least
\* MinDelay doubled n-1 times, up to the cap.
RestartsSlowDown ==
  [][\A t \in Tasks :
       sup[t] = "watching" /\ sup'[t] = "backoff" =>
         delay'[t] >= Smaller(Doublings[row'[t] - 1], Cap)]_supervision

\* The daemon leaves the supervision loops only on shutdown, never because
\* tasks fail or accepts fail.
ExitsOnlyOnShutdown == exited => stopping

\* Shutdown ends the daemon, from any state of both tasks, also while they
\* fail and restart.
ShutdownExits == stopping ~> exited

\* A failed task runs again, or shutdown has come.
FailedIsRestarted ==
  \A t \in Tasks : task[t] = "failed" ~> (task[t] = "running" \/ stopping)
-----------------------------------------------------------------------------
(* The inductive invariants: SupervisorInv behind OneInstance and          *)
(* ExitsOnlyOnShutdown, SlowInv behind RestartsSlowDown.                   *)

\* An instance exists exactly while its task runs or is being aborted; a
\* supervisor sleeps out a delay only after its task has failed; a task
\* returns, and a supervisor ends, only on shutdown.
SupervisorInv ==
  /\ DOMAIN sup = Tasks /\ DOMAIN live = Tasks /\ DOMAIN task = Tasks
  /\ \A t \in Tasks :
       /\ task[t] \in {"running", "failed", "returned", "aborting"}
       /\ live[t] = IF task[t] \in {"running", "aborting"} THEN 1 ELSE 0
       /\ sup[t] = "watching" => task[t] # "aborting"
       /\ sup[t] = "backoff" => task[t] = "failed"
       /\ sup[t] \in {"grace", "ended"} \/ task[t] \in {"returned", "aborting"} => stopping
  /\ exited => stopping

\* The backoff iterator has kept up with the failures in a row.
SlowInv ==
  /\ DOMAIN row = Tasks /\ DOMAIN level = Tasks /\ DOMAIN delay = Tasks
  /\ \A t \in Tasks :
       /\ row[t] \in 0..MaxCount /\ level[t] \in Nat
       /\ level[t] >= Smaller(Doublings[row[t]], Cap)
=============================================================================
