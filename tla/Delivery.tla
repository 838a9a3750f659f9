------------------------------ MODULE Delivery ------------------------------
(***************************************************************************)
(* Delivery of queued comments: the worker task over the store's files,    *)
(* the clients' put, bump, bust and del, GitHub, and the faults: an I/O    *)
(* error at any file operation, a failed post, a crash, a power loss.      *)
(*                                                                         *)
(* SharedQueue runs every store operation under one mutex, so an operation *)
(* of a client is one action.  The operations of the worker that touch     *)
(* several files (complete, release_claim, recover_worker_state, open) are *)
(* split into their file operations, because each may fail or be cut short *)
(* by a crash; while one of them holds the mutex no client action is       *)
(* enabled.  A graceful shutdown aborts the worker and ends the process,   *)
(* which for the files is a crash.                                         *)
(***************************************************************************)
EXTENDS QueueStore

CONSTANTS
  NoId,        \* "no identifier": the worker holds no entry
  MaxFaults,   \* bound: how many faults a behaviour contains
  PowerFails   \* whether the faults include loss of power

ASSUME MaxFaultsAssumption == MaxFaults \in Nat
ASSUME PowerFailsAssumption == PowerFails \in BOOLEAN

VARIABLES
  pc,        \* where the worker task, or the start-up that precedes it, is
  caller,    \* who runs reconcile_completion: "open", "recover", "complete"
  cur,       \* the StoredEntry the worker claimed: [id, incarnation, claim]
  faults,    \* faults so far
  \* What happened so far; no step of the program reads it.
  claims,    \* claims[n]: the entry the n-th claim was for
  accepted,  \* attempts whose comment GitHub created
  born,      \* lifetimes some put created
  latest,    \* latest[id]: the newest lifetime of id
  acked,     \* lifetimes whose put was answered with success
  deleted    \* lifetimes whose del removed their entry

worker == <<pc, caller, cur>>

ghosts == <<claims, accepted, born, latest, acked, deleted>>

vars == <<files, worker, faults, ghosts>>

\* The worker holds the mutex in these steps.
LockedSteps == {"append", "clear", "remove", "last_post", "unlink", "reclaim",
                "sweep", "clear_claim"}

\* The mutex is free and the listener serves clients in these.
UnlockedSteps == {"recover", "idle", "posting", "posted", "post_failed",
                  "releasing", "cooling", "task_failed"}

Steps == LockedSteps \cup UnlockedSteps \cup {"down"}

Serving == pc \in UnlockedSteps

NoCur == [id |-> NoId, incarnation |-> NoInc, claim |-> NoToken]

Fault ==
  /\ faults < MaxFaults
  /\ faults' = faults + 1

\* An error of a store operation ends the worker task; an error of open ends
\* the process.
Fails ==
  /\ Fault
  /\ pc' = IF caller = "open" THEN "down" ELSE "task_failed"

Goto(from, to) ==
  /\ pc = from
  /\ pc' = to

\* A step of the worker that file operations may cut short.
Step(from, to, ok) ==
  /\ pc = from
  /\ IF ok THEN pc' = to /\ UNCHANGED faults ELSE Fails

Init ==
  /\ StoreInit
  /\ pc = "down"
  /\ caller = "open"
  /\ cur = NoCur
  /\ faults = 0
  /\ claims = << >>
  /\ accepted = {}
  /\ born = {}
  /\ latest = [id \in Ids |-> NoInc]
  /\ acked = {}
  /\ deleted = {}

-----------------------------------------------------------------------------
(* Clients.                                                                *)

\* put of a request whose identifier has no entry.  When the directory sync
\* after the rename fails, the entry is there but the client gets an error.
Put(id, inc, ok) ==
  /\ Serving
  /\ ~Pending(id)
  /\ inc \notin born
  /\ WriteEntry(id, [incarnation |-> inc, claim |-> NoToken])
  /\ born' = born \cup {inc}
  /\ latest' = [latest EXCEPT ![id] = inc]
  /\ IF ok THEN acked' = acked \cup {inc} /\ UNCHANGED faults
           ELSE Fault /\ UNCHANGED acked
  /\ UNCHANGED <<deletions, lastPost, lastAttempt, completion, history,
                 worker, claims, accepted, deleted>>

\* bump and bust rewrite the entry with a new order key and the claim it has.
Reorder(id) ==
  /\ Serving
  /\ Pending(id)
  /\ WriteEntry(id, entries[id])
  /\ UNCHANGED <<deletions, lastPost, lastAttempt, completion, history,
                 worker, faults, ghosts>>

\* del: the deletion marker is written before the entry is removed.
Del(id) ==
  /\ Serving
  /\ Pending(id)
  /\ WriteAwaitDeletion(id)
  /\ RemoveEntry(id)
  /\ deleted' = deleted \cup {entries[id].incarnation}
  /\ UNCHANGED <<lastPost, lastAttempt, completion, history, worker, faults,
                 claims, accepted, born, latest, acked>>

\* del whose remove_file fails, or that a crash cuts short there.
DelFails(id) ==
  /\ Serving
  /\ Pending(id)
  /\ Fault
  /\ WriteAwaitDeletion(id)
  /\ UNCHANGED <<entries, unsynced, lastPost, lastAttempt, completion, history,
                 worker, ghosts>>
-----------------------------------------------------------------------------
(* The worker: claim, post, and the failure path.  With ok = FALSE a step    *)
(* reports an error, its last write done or not.                           *)

\* Mutant: the head is not checked to exist.
ClaimAbsent(id, ok) ==
  /\ Claimed = {}
  /\ Step("idle", "posting", ok)
  /\ WriteEntry(id, [entries[id] EXCEPT !.claim = Len(claims) + 1])
  /\ claims' = Append(claims, [id |-> id, incarnation |-> entries[id].incarnation])
  /\ cur' = [id |-> id, incarnation |-> entries[id].incarnation,
              claim |-> Len(claims) + 1]
  /\ UNCHANGED <<deletions, lastPost, lastAttempt, completion, history, caller,
                 accepted, born, latest, acked, deleted>>

\* claim_next_due with a due head.  Which entry is the head, and when it is
\* due, is abstracted: any entry may be it.
Claim(id, ok) ==
  LET token == Len(claims) + 1
      entry == [id |-> id, incarnation |-> entries[id].incarnation]
  IN
  /\ Claimed = {}
  /\ Pending(id)
  /\ Step("idle", "posting", ok)
  /\ \/ /\ WriteEntry(id, [entries[id] EXCEPT !.claim = token])
        /\ claims' = Append(claims, entry)
     \/ ~ok /\ UNCHANGED <<entries, unsynced, claims>>
  /\ cur' = IF ok THEN [id |-> id, incarnation |-> entries[id].incarnation,
                        claim |-> token]
                  ELSE NoCur
  /\ UNCHANGED <<deletions, lastPost, lastAttempt, completion, history, caller,
                 accepted, born, latest, acked, deleted>>

\* GitHub creates the comment: in time, after the daemon gave up waiting, or
\* after the daemon stopped.
Accept(n) ==
  /\ n \notin accepted
  /\ accepted' = accepted \cup {n}
  /\ UNCHANGED <<files, worker, faults, claims, born, latest, acked, deleted>>

\* post_comment returns Ok only with the answer to an accepted request.
PostOk ==
  /\ cur.claim \in accepted
  /\ Goto("posting", "posted")
  /\ UNCHANGED <<files, caller, cur, faults, ghosts>>

\* Mutant: a timed-out request counts as posted.
PostErrIsOk ==
  /\ Goto("posting", "posted")
  /\ Fault
  /\ UNCHANGED <<files, caller, cur, ghosts>>

\* post_comment returns an API error or the timeout, accepted or not.
PostErr ==
  /\ Goto("posting", "post_failed")
  /\ Fault
  /\ UNCHANGED <<files, caller, cur, ghosts>>

\* record_failure; its error is only logged.
RecordFailure(ok) ==
  /\ Goto("post_failed", "releasing")
  /\ IF ok
     THEN /\ history' = Append(history, Line(cur.id, cur.incarnation, cur.claim, "failure"))
          /\ UNCHANGED faults
     ELSE /\ AppendFails(cur.id, cur.incarnation, cur.claim, "failure")
          /\ Fault
  /\ UNCHANGED <<entries, unsynced, deletions, lastPost, lastAttempt, completion,
                 caller, cur, ghosts>>

HoldsClaim == entries[cur.id].claim = cur.claim

\* release_claim when the entry is gone or not claimed by this attempt.
NothingToRelease ==
  /\ Goto("releasing", "cooling")
  /\ ~HoldsClaim
  /\ UNCHANGED <<files, caller, cur, faults, ghosts>>

\* Mutant: the worker logs an error of release_claim and goes on.
ReleaseErrorIgnored(ok) ==
  /\ Goto("releasing", IF ok THEN "clear_claim" ELSE "cooling")
  /\ HoldsClaim
  /\ IF ok THEN UNCHANGED faults ELSE Fault
  /\ lastAttempt' = Later(lastAttempt, cur.claim)
  /\ UNCHANGED <<entries, unsynced, deletions, lastPost, completion, history,
                 caller, cur, ghosts>>

\* release_claim, first write: last_attempt.
ReleaseClaim(ok) ==
  /\ Step("releasing", "clear_claim", ok)
  /\ HoldsClaim
  /\ \/ lastAttempt' = Later(lastAttempt, cur.claim)
     \/ ~ok /\ UNCHANGED lastAttempt
  /\ UNCHANGED <<entries, unsynced, deletions, lastPost, completion, history,
                 caller, cur, ghosts>>

\* release_claim, second write: the entry without its claim.
ClearClaim(ok) ==
  /\ Step("clear_claim", "cooling", ok)
  /\ \/ WriteEntry(cur.id, [entries[cur.id] EXCEPT !.claim = NoToken])
     \/ ~ok /\ UNCHANGED <<entries, unsynced>>
  /\ UNCHANGED <<deletions, lastPost, lastAttempt, completion, history, caller,
                 cur, ghosts>>

\* claim_next_due or release_claim cannot read an entry.
ReadFails ==
  /\ pc \in {"idle", "releasing"}
  /\ Fails
  /\ UNCHANGED <<files, caller, cur, ghosts>>

\* The retry deadline passes; queue changes do not shorten it.
Cooled ==
  /\ Goto("cooling", "idle")
  /\ cur' = NoCur
  /\ UNCHANGED <<files, caller, faults, ghosts>>

-----------------------------------------------------------------------------
(* complete and reconcile_completion.                                      *)

\* Mutant: the entry is removed before the journal is safe.
RemoveBeforeJournal(ok) ==
  /\ Step("posted", "append", ok)
  /\ RemoveEntry(cur.id)
  /\ completion' = IF ok THEN {[id |-> cur.id, incarnation |-> cur.incarnation,
                                claim |-> cur.claim, offset |-> Len(history)]}
                         ELSE completion
  /\ caller' = "complete"
  /\ UNCHANGED <<deletions, lastPost, lastAttempt, history, cur, ghosts>>

\* complete_claim_with_token: the journal is written first.
WriteCompletion(ok) ==
  /\ Step("posted", "append", ok)
  /\ \/ completion' = {[id |-> cur.id, incarnation |-> cur.incarnation,
                         claim |-> cur.claim, offset |-> Len(history)]}
     \/ ~ok /\ UNCHANGED completion
  /\ caller' = "complete"
  /\ UNCHANGED <<entries, unsynced, deletions, lastPost, lastAttempt, history,
                 cur, ghosts>>

AppendCompletionHistory(r, ok) ==
  /\ Step("append", "clear", ok)
  /\ \/ AppendOnce(r)
     \/ /\ ~ok
        /\ ~ContainsAttempt(r.claim, r.offset)
        /\ AppendFails(r.id, r.incarnation, r.claim, "success")
  /\ UNCHANGED <<entries, unsynced, deletions, lastPost, lastAttempt, completion,
                 caller, cur, ghosts>>

ClearMarker(r, ok) ==
  /\ Step("clear", "remove", ok)
  /\ \/ ClearAwaitDeletion(r.id, r.incarnation)
     \/ ~ok /\ UNCHANGED deletions
  /\ UNCHANGED <<entries, unsynced, lastPost, lastAttempt, completion, history,
                 caller, cur, ghosts>>

\* Mutant: whatever entry has the identifier is removed.
RemoveById(r, ok) ==
  /\ Step("remove", "last_post", ok)
  /\ IF ok /\ Pending(r.id) THEN RemoveEntry(r.id)
                            ELSE UNCHANGED <<entries, unsynced>>
  /\ UNCHANGED <<deletions, lastPost, lastAttempt, completion, history, caller,
                 cur, ghosts>>

\* Only the entry that still carries the journal's claim token is removed.
RemoveCompleted(r, ok) ==
  /\ Step("remove", "last_post", ok)
  /\ IF ok /\ entries[r.id].claim = r.claim
     THEN RemoveEntry(r.id)
     ELSE UNCHANGED <<entries, unsynced>>
  /\ UNCHANGED <<deletions, lastPost, lastAttempt, completion, history, caller,
                 cur, ghosts>>

\* Mutant: only complete writes last_post, recovery does not.
WriteLastPostOnce(r, ok) ==
  /\ Step("last_post", "unlink", ok)
  /\ lastPost' = IF caller = "complete" /\ ok THEN r.claim ELSE lastPost
  /\ UNCHANGED <<entries, unsynced, deletions, lastAttempt, completion, history,
                 caller, cur, ghosts>>

WriteLastPost(r, ok) ==
  /\ Step("last_post", "unlink", ok)
  /\ \/ lastPost' = r.claim
     \/ ~ok /\ UNCHANGED lastPost
  /\ UNCHANGED <<entries, unsynced, deletions, lastAttempt, completion, history,
                 caller, cur, ghosts>>

\* complete goes on with the worker loop, recovery with the stale claims.
RemoveCompletion(ok) ==
  /\ Step("unlink", IF caller = "complete" THEN "idle" ELSE "reclaim", ok)
  /\ \/ completion' = {}
     \/ ~ok /\ UNCHANGED completion
  /\ cur' = NoCur
  /\ UNCHANGED <<entries, unsynced, deletions, lastPost, lastAttempt, history,
                 caller, ghosts>>
-----------------------------------------------------------------------------
(* Start-up, task restart and the end of the process.                      *)

\* Mutant: claims are reclaimed and the journal is left for later.
ReclaimFirst == "reclaim"

FirstRecoveryStep == IF completion = {} THEN "reclaim" ELSE "append"

\* The daemon starts: QueueStore::open, before the listener and the worker.
Open ==
  /\ Goto("down", FirstRecoveryStep)
  /\ caller' = "open"
  /\ UNCHANGED <<files, cur, faults, ghosts>>

\* run_worker begins with recover_worker_state.
RecoverWorkerState ==
  /\ Goto("recover", FirstRecoveryStep)
  /\ caller' = "recover"
  /\ UNCHANGED <<files, cur, faults, ghosts>>

\* reclaim_claims: one write per claimed entry, in turn; an error stops it
\* after some of them.
ReclaimClaims(S, ok) ==
  /\ Step("reclaim", IF caller = "open" THEN "sweep" ELSE "idle", ok)
  /\ S \subseteq Claimed
  /\ ok => S = Claimed
  /\ entries' = [id \in Ids |-> IF id \in S
                               THEN [entries[id] EXCEPT !.claim = NoToken]
                               ELSE entries[id]]
  /\ unsynced' = IF S = {} THEN unsynced ELSE AllSynced
  /\ UNCHANGED <<deletions, lastPost, lastAttempt, completion, history, caller,
                 cur, ghosts>>

\* reconcile_await_deletions: a marker beside a queued entry goes.  Then the
\* listener and the worker are spawned.
ReconcileAwaitDeletions(S, ok) ==
  LET superseded == {id \in Ids : Pending(id) /\ deletions[id] # NoInc} IN
  /\ Step("sweep", "recover", ok)
  /\ S \subseteq superseded
  /\ ok => S = superseded
  /\ deletions' = [id \in Ids |-> IF id \in S THEN NoInc ELSE deletions[id]]
  /\ caller' = "recover"
  /\ UNCHANGED <<entries, unsynced, lastPost, lastAttempt, completion, history,
                 cur, ghosts>>

\* Mutant: the new worker skips recover_worker_state.
RespawnUnrecovered ==
  /\ Goto("task_failed", "idle")
  /\ cur' = NoCur
  /\ UNCHANGED <<files, caller, faults, ghosts>>

\* supervise_task spawns the failed worker again after its backoff.
Respawn ==
  /\ Goto("task_failed", "recover")
  /\ cur' = NoCur
  /\ UNCHANGED <<files, caller, faults, ghosts>>

\* The process ends at any point: a crash, a kill, or a shutdown that aborts
\* the worker.
Crash ==
  /\ pc # "down"
  /\ Fault
  /\ pc' = "down"
  /\ cur' = NoCur
  /\ UNCHANGED <<files, caller, ghosts>>

\* Power fails: a removed entry file may be back when its directory was not
\* synced after the removal.  The other files are kept as they were last
\* written, also where the sync of that write failed.
PowerLoss(S) ==
  /\ PowerFails
  /\ Fault
  /\ pc' = "down"
  /\ cur' = NoCur
  /\ entries' = [id \in Ids |-> IF id \in S /\ unsynced[id] # NoEntry
                               THEN unsynced[id] ELSE entries[id]]
  /\ unsynced' = AllSynced
  /\ UNCHANGED <<deletions, lastPost, lastAttempt, completion, history, caller,
                 ghosts>>

-----------------------------------------------------------------------------

ReconcileCompletion(ok) ==
  \/ \E r \in completion : \/ AppendCompletionHistory(r, ok)
                            \/ ClearMarker(r, ok)
                            \/ RemoveCompleted(r, ok)
                            \/ WriteLastPost(r, ok)
  \/ RemoveCompletion(ok)

\* The steps of the worker task and of start-up, with the outcome ok.
WorkerStep(ok) ==
  \/ \E id \in Ids : Claim(id, ok)
  \/ RecordFailure(ok)
  \/ ReleaseClaim(ok)
  \/ ClearClaim(ok)
  \/ WriteCompletion(ok)
  \/ ReconcileCompletion(ok)
  \/ \E S \in SUBSET Ids : ReclaimClaims(S, ok)
  \/ \E S \in SUBSET Ids : ReconcileAwaitDeletions(S, ok)

\* The steps that take no file operation.
LocalStep == PostOk \/ NothingToRelease \/ Cooled \/ Open \/ RecoverWorkerState \/ Respawn

ClientStep ==
  \E id \in Ids :
    \/ \E inc \in Incarnations, ok \in BOOLEAN : Put(id, inc, ok)
    \/ Reorder(id)
    \/ Del(id)
    \/ DelFails(id)

Next ==
  \/ ClientStep
  \/ \E ok \in BOOLEAN : WorkerStep(ok)
  \/ LocalStep
  \/ PostErr
  \/ ReadFails
  \/ \E n \in 1..Len(claims) : Accept(n)
  \/ Crash
  \/ \E S \in SUBSET Ids : PowerLoss(S)

Spec == Init /\ [][Next]_vars
-----------------------------------------------------------------------------
(* Fairness: the runtime keeps running the tasks, systemd restarts the     *)
(* daemon and GitHub answers; clients and faults owe nothing.  Faults are  *)
(* finite in number, so a fault-free suffix is assumed as well.            *)

Progress ==
  \/ WorkerStep(TRUE)
  \/ LocalStep
  \/ cur.claim # NoToken /\ Accept(cur.claim)

FairSpec == Spec /\ WF_vars(Progress)

-----------------------------------------------------------------------------
(* Properties.                                                             *)

Recorded(inc) ==
  \E k \in 1..Len(history) :
    history[k].incarnation = inc /\ history[k].outcome = "success"

Queued(inc) == \E id \in Ids : entries[id].incarnation = inc

\* The files, the worker and the record of what happened have their types.
TypeOK ==
  /\ StoreTypeOK
  /\ pc \in Steps
  /\ caller \in {"open", "recover", "complete"}
  /\ cur \in [id : Ids \cup {NoId}, incarnation : Incarnations \cup {NoInc},
              claim : Nat]
  /\ faults \in Nat
  /\ claims \in Seq([id : Ids, incarnation : Incarnations])
  /\ accepted \subseteq Nat
  /\ born \subseteq Incarnations
  /\ latest \in [Ids -> Incarnations \cup {NoInc}]
  /\ acked \subseteq Incarnations
  /\ deleted \subseteq Incarnations

\* At-least-once: a comment whose put was answered with success stays queued
\* until a client deletes it or its success is in the history, through any
\* I/O error and crash, and a power loss that takes back only removals not yet
\* synced: a line in the history, a marker and a journal are taken to last,
\* the ones whose sync failed included.
NothingLost ==
  \A inc \in acked : Queued(inc) \/ inc \in deleted \/ Recorded(inc)

\* Every success in the history is a comment GitHub created, attributed to
\* the entry the attempt had claimed, whatever was deleted or replaced
\* under that identifier meanwhile.
RecordedIsReal ==
  \A k \in 1..Len(history) :
    LET line == history[k] IN
    line.outcome = "success" =>
      /\ line.attempt \in accepted
      /\ claims[line.attempt] = [id |-> line.id, incarnation |-> line.incarnation]

\* append_once: however often reconcile_completion is repeated after errors
\* and crashes, an attempt has at most one success line.
RecordedOnce ==
  \A j, k \in 1..Len(history) :
    /\ history[j].outcome = "success"
    /\ history[k].outcome = "success"
    /\ history[j].attempt = history[k].attempt
    => j = k

\* A comment whose success reached the history is never claimed for another
\* attempt: recovery reflects the post in the queue before a claim is freed.
RecordedNeverReposted ==
  \A k \in 1..Len(history), n \in 1..Len(claims) :
    /\ history[k].outcome = "success"
    /\ claims[n].incarnation = history[k].incarnation
    => n <= history[k].attempt

\* When the worker looks for the next entry, the journal is gone and no
\* claim is left: a stale claim would make next_due return None for ever,
\* and complete would overwrite an unfinished journal.
ReadyToClaim ==
  pc = "idle" => completion = {} /\ Claimed = {}

\* When the worker looks for the next entry, every recorded post is reflected
\* in the queue: its entry is gone.
PostReflected ==
  pc = "idle" => \A id \in Ids : Pending(id) => ~Recorded(entries[id].incarnation)

\* The cooldown anchor of the next claim covers every recorded success.
AnchorCoversRecorded ==
  pc = "idle" =>
    \A k \in 1..Len(history) :
      history[k].outcome = "success" => history[k].attempt <= lastPost

\* With no entry queued under an identifier, the deletion marker is there
\* exactly when the newest lifetime ended without a recorded post: the
\* no-cursor await lookup neither shows an older URL nor hides the newest.
MarkerMatchesLatest ==
  Serving /\ completion = {} =>
    \A id \in Ids :
      latest[id] # NoInc /\ ~Pending(id) =>
        (deletions[id] # NoInc <=> ~Recorded(latest[id]))

\* No step takes a lifetime out of the queue unless a client deletes it or
\* its success is already in the history.
RemovedOnlyWhenDone ==
  [][\A id \in Ids :
       Pending(id) /\ entries'[id].incarnation # entries[id].incarnation =>
         \/ entries[id].incarnation \in deleted'
         \/ Recorded(entries[id].incarnation)]_vars

\* Once faults stop, an acknowledged comment is posted and recorded, unless
\* it is deleted.
Delivered ==
  \A inc \in Incarnations :
    inc \in acked ~> inc \in deleted \/ Recorded(inc)
-----------------------------------------------------------------------------
(* The inductive invariant behind the safety properties.                   *)

Attempting == pc \in {"posting", "posted", "post_failed", "releasing", "clear_claim"}

IsClaim(n, id, inc) ==
  n \in 1..Len(claims) /\ claims[n] = [id |-> id, incarnation |-> inc]

\* A claim token names the claim of the very lifetime it is stored with: in an
\* entry file, in a removed one, in the worker's hands, in a history line.
TokensNameLifetimes ==
  /\ \A id \in Ids : entries[id].claim # NoToken =>
       IsClaim(entries[id].claim, id, entries[id].incarnation)
  /\ \A id \in Ids : unsynced[id].claim # NoToken =>
       IsClaim(unsynced[id].claim, id, unsynced[id].incarnation)
  /\ Attempting => IsClaim(cur.claim, cur.id, cur.incarnation)
  /\ \A k \in 1..Len(history) :
       IsClaim(history[k].attempt, history[k].id, history[k].incarnation)

\* A file can come back only while nothing has taken its place.
RemovedStayAbsent ==
  \A id \in Ids : unsynced[id] # NoEntry => ~Pending(id)

\* Only a comment GitHub created gets past "posting" and into the journal.
PostedIsAccepted ==
  /\ pc = "posted" => cur.claim \in accepted
  /\ \A r \in completion : r.claim \in accepted

\* The attempt in progress has no line yet; the journal's attempt has no
\* failure line, and a success line only where append_once looks.
LinesOfAttempt ==
  /\ pc \in {"posting", "posted", "post_failed"} =>
       \A k \in 1..Len(history) : history[k].attempt # cur.claim
  /\ \A r \in completion :
       /\ IsClaim(r.claim, r.id, r.incarnation)
       /\ r.offset <= Len(history)
       /\ \A k \in 1..Len(history) : history[k].attempt = r.claim =>
            history[k].outcome # "failure" /\ k > r.offset

\* When the journal exists, and what is recorded by then.
JournalPhase ==
  /\ \A r, s \in completion : r = s
  /\ Attempting \/ pc \in {"idle", "cooling", "reclaim"} => completion = {}
  /\ pc \in {"append", "clear", "remove", "last_post", "unlink"} => completion # {}
  /\ pc \in {"clear", "remove", "last_post", "unlink"} =>
       \A r \in completion : Recorded(r.incarnation)

\* Which entries may carry a claim.
ClaimPhase ==
  /\ pc \in {"idle", "cooling"} => Claimed = {}
  /\ Attempting => \A id \in Claimed : entries[id].claim = cur.claim
  /\ caller = "complete" /\ pc \in {"append", "clear", "remove"} =>
       \A id \in Claimed, r \in completion : entries[id].claim = r.claim
  /\ caller = "complete" /\ pc \in {"last_post", "unlink"} => Claimed = {}

\* The inductive invariant: TypeOK, NothingLost, RecordedIsReal, RecordedOnce
\* and what they rest on.  Every file operation, error and crash preserves it.
Inv ==
  /\ TypeOK
  /\ TokensNameLifetimes
  /\ RemovedStayAbsent
  /\ PostedIsAccepted
  /\ LinesOfAttempt
  /\ JournalPhase
  /\ ClaimPhase
  /\ RecordedIsReal
  /\ RecordedOnce
  /\ NothingLost
-----------------------------------------------------------------------------
(* The inductive invariant behind what holds while the power stays on: no  *)
(* recorded comment is posted again, and last_post covers it.              *)

\* The attempt in progress and the journal's attempt are the newest claim, and
\* their entry, while it is queued, carries its token.
NewestClaim ==
  /\ Attempting =>
       /\ cur.claim = Len(claims)
       /\ entries[cur.id].incarnation = cur.incarnation => HoldsClaim
  /\ \A r \in completion :
       /\ r.claim = Len(claims)
       /\ entries[r.id].incarnation = r.incarnation => entries[r.id].claim = r.claim

\* A queued lifetime is claimed under its own identifier only.
ClaimsNameIds ==
  \A n \in 1..Len(claims), id \in Ids :
    entries[id].incarnation = claims[n].incarnation => claims[n].id = id

\* A recorded lifetime is still queued only while the journal is to remove it.
RemovalAhead ==
  \A id \in Ids :
    Pending(id) /\ Recorded(entries[id].incarnation) =>
      /\ pc \notin {"last_post", "unlink"}
      /\ \E r \in completion : r.id = id /\ r.incarnation = entries[id].incarnation

\* A recorded success is in last_post, or the journal is to write it there.
AnchorAhead ==
  \A k \in 1..Len(history) :
    history[k].outcome = "success" =>
      \/ history[k].attempt <= lastPost
      \/ pc # "unlink" /\ \E r \in completion : history[k].attempt = r.claim

\* Inductive with Inv while the power stays on: a recorded success is never
\* claimed again, and last_post covers it.
PostsInv ==
  /\ NewestClaim
  /\ ClaimsNameIds
  /\ RemovalAhead
  /\ AnchorAhead
  /\ RecordedNeverReposted

\* Identifiers do not share lifetimes, and the newest lifetime of an identifier
\* is the one queued under it and the one its attempts claim.
LatestIsOwn ==
  \A id \in Ids :
    /\ latest[id] \in born \cup {NoInc}
    /\ entries[id].incarnation \in {NoInc, latest[id]}
    /\ \A x \in Ids : latest[id] = latest[x] /\ latest[id] # NoInc => id = x
    /\ \A n \in 1..Len(claims) : latest[id] = claims[n].incarnation => claims[n].id = id

\* The deletion marker of an identifier with no entry: it names the newest
\* lifetime when that was not posted, and when that was posted it is gone or
\* the journal is to remove it.
MarkerAhead ==
  \A id \in Ids :
    ~Pending(id) =>
      /\ deletions[id] \in {NoInc, latest[id]}
      /\ ~Recorded(latest[id]) => deletions[id] = latest[id]
      /\ Recorded(latest[id]) /\ deletions[id] # NoInc =>
           /\ pc \notin {"remove", "last_post", "unlink"}
           /\ \E r \in completion : r.id = id /\ r.incarnation = latest[id]

\* Past clear_await_deletion no marker is left of the posted lifetime, nor
\* under its entry.
MarkerCleared ==
  pc = "remove" =>
    \A r \in completion :
      /\ deletions[r.id] # r.incarnation
      /\ entries[r.id].incarnation = r.incarnation => deletions[r.id] = NoInc

\* Inductive with Inv while the power stays on: how deletion markers follow
\* put, del and completion, step by step.
MarkerInv == LatestIsOwn /\ MarkerAhead /\ MarkerCleared
=============================================================================
