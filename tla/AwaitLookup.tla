----------------------------- MODULE AwaitLookup -----------------------------
(***************************************************************************)
(* Foreground waits over Delivery: a client awaits an identifier and the   *)
(* handler streams until the comment is posted or gone.                    *)
(*                                                                         *)
(* A lookup reads the entry under the mutex, then the deletion marker and  *)
(* the history without it, then the entry again under the mutex; it counts *)
(* only if no store operation published a new generation in between.  Two  *)
(* bits stand for the generation counter: whether it moved since the       *)
(* lookup began, and whether the subscription has seen its last move.      *)
(***************************************************************************)
EXTENDS Delivery, Integers

CONSTANT Waiters   \* await connections, each one wait long

VARIABLES
  at,       \* where the handler of the wait is
  wid,      \* the awaited identifier
  cursor,   \* AwaitCursor: [offset, incarnation]
  found,    \* what the history scan returned
  moved,    \* a new generation since the lookup's first observation
  seen,     \* no new generation the subscription has not seen
  look      \* the idle worker has yet to look at the queue as it is

waits == <<at, wid, cursor, found, moved, seen>>

all == <<vars, waits, look>>

Lookups == {"observe", "marker", "scan", "recheck"}

Active == Lookups \cup {"wait"}

Ended == {"posted", "removed", "unknown", "failed", "gone"}

NoCursor == [offset |-> 0, incarnation |-> NoInc]

\* Results of the scan other than a line of the history.
Unknown == 0
ReadError == -1

AwaitInit ==
  /\ Init
  /\ at = [w \in Waiters |-> "off"]
  /\ wid = [w \in Waiters |-> NoId]
  /\ cursor = [w \in Waiters |-> NoCursor]
  /\ found = [w \in Waiters |-> Unknown]
  /\ moved = [w \in Waiters |-> FALSE]
  /\ seen = [w \in Waiters |-> TRUE]
  /\ look = FALSE

-----------------------------------------------------------------------------
(* The queue, as the waits see it.                                         *)

\* put, bump, bust and del as they notify the worker.
Mutates ==
  \E id \in Ids : \/ \E inc \in Incarnations : Put(id, inc, TRUE)
                  \/ Reorder(id)
                  \/ Del(id)

\* Mutant: release_claim and recover_worker_state publish, complete does not.
PublishesButComplete ==
  \/ Mutates
  \/ \E id \in Ids : Claim(id, TRUE)
  \/ ClearClaim(TRUE)
  \/ NothingToRelease
  \/ caller = "recover" /\ \E S \in SUBSET Ids : ReclaimClaims(S, TRUE)

\* is_state_mutation: the operations that publish a generation when they
\* return Ok.
Publishes ==
  \/ Mutates
  \/ \E id \in Ids : Claim(id, TRUE)
  \/ ClearClaim(TRUE)
  \/ NothingToRelease
  \/ caller = "complete" /\ RemoveCompletion(TRUE)
  \/ caller = "recover" /\ \E S \in SUBSET Ids : ReclaimClaims(S, TRUE)

\* Every waiter sees a generation published under the mutex.
Publish(published) ==
  /\ moved' = [w \in Waiters |-> moved[w] \/ published]
  /\ seen' = [w \in Waiters |-> seen[w] /\ ~published]

\* A step of Delivery.  The end of the process ends every wait.
QueueStep(A) ==
  /\ A
  /\ Publish(Publishes)
  /\ look' = (Mutates \/ (pc' = "idle" /\ (look \/ pc # "idle")))
  /\ at' = [w \in Waiters |->
              IF pc' = "down" /\ at[w] \in Active THEN "gone" ELSE at[w]]
  /\ UNCHANGED <<wid, cursor, found>>

\* put of a request that is queued already: it changes no file.
PutAgain(id) ==
  /\ Serving
  /\ Pending(id)
  /\ Publish(TRUE)
  /\ look' = TRUE
  /\ UNCHANGED <<vars, at, wid, cursor, found>>

\* claim_next_due finds no entry, or none due yet; the worker then sleeps.
NothingDue ==
  /\ pc = "idle"
  /\ look
  /\ look' = FALSE
  /\ Publish(TRUE)
  /\ UNCHANGED <<vars, at, wid, cursor, found>>

-----------------------------------------------------------------------------
(* A wait.                                                                 *)

\* await_entry subscribes before its first lookup.
Subscribe(w, id) ==
  /\ Serving
  /\ at[w] = "off"
  /\ at' = [at EXCEPT ![w] = "observe"]
  /\ wid' = [wid EXCEPT ![w] = id]
  /\ seen' = [seen EXCEPT ![w] = TRUE]
  /\ UNCHANGED <<vars, look, cursor, found, moved>>

\* resolve_await_pending_with_eta: the entry is queued, and is the selected
\* lifetime once one was selected.
MatchesPending(w) ==
  /\ Pending(wid[w])
  /\ cursor[w].incarnation \in {NoInc, entries[wid[w]].incarnation}

\* The first Pending selects the lifetime and the end of the history.
PendingAwaitState(w) ==
  /\ at' = [at EXCEPT ![w] = "wait"]
  /\ cursor' = IF cursor[w] = NoCursor
               THEN [cursor EXCEPT ![w] = [offset |-> Len(history),
                                           incarnation |-> entries[wid[w]].incarnation]]
               ELSE cursor

\* The terminal frame of a lookup that counts.
Outcome(w) ==
  IF found[w] = ReadError THEN "failed"
  ELSE IF found[w] > 0 THEN "posted"
  ELSE IF cursor[w] = NoCursor THEN "unknown"
  ELSE "removed"

\* observe_await_state before the scan.
Observe(w) ==
  /\ Serving
  /\ at[w] = "observe"
  /\ \/ /\ MatchesPending(w)
        /\ PendingAwaitState(w)
        /\ UNCHANGED moved
     \/ /\ ~MatchesPending(w)
        /\ at' = [at EXCEPT ![w] = "marker"]
        /\ moved' = [moved EXCEPT ![w] = FALSE]
        /\ UNCHANGED cursor
  /\ UNCHANGED <<vars, look, wid, found, seen>>

\* Without a cursor a deletion marker ends the scan.
ReadMarker(w) ==
  /\ at[w] = "marker"
  /\ IF cursor[w] = NoCursor /\ deletions[wid[w]] # NoInc
     THEN /\ at' = [at EXCEPT ![w] = "recheck"]
          /\ found' = [found EXCEPT ![w] = Unknown]
     ELSE /\ at' = [at EXCEPT ![w] = "scan"]
          /\ UNCHANGED found
  /\ UNCHANGED <<vars, look, wid, cursor, moved, seen>>

\* Mutant: the cursor's lifetime is not compared.
LatestOfId(id, c) ==
  {k \in 1..Len(history) :
     /\ k > c.offset
     /\ history[k].id = id
     /\ history[k].outcome = "success"}

\* latest_completion, as the set of lines it looks for.
Completions(id, c) ==
  {k \in 1..Len(history) :
     /\ k > c.offset
     /\ history[k].id = id
     /\ history[k].outcome = "success"
     /\ c.incarnation \in {NoInc, history[k].incarnation}}

ScanHistory(w) ==
  LET lines == Completions(wid[w], cursor[w]) IN
  /\ at[w] = "scan"
  /\ at' = [at EXCEPT ![w] = "recheck"]
  /\ \/ /\ lines = {}
        /\ found' = [found EXCEPT ![w] = Unknown]
     \/ \E k \in lines : /\ \A j \in lines : j <= k
                         /\ found' = [found EXCEPT ![w] = k]
  /\ UNCHANGED <<vars, look, wid, cursor, moved, seen>>

\* The marker or the history cannot be read.
ScanFails(w) ==
  /\ at[w] \in {"marker", "scan"}
  /\ Fault
  /\ at' = [at EXCEPT ![w] = "recheck"]
  /\ found' = [found EXCEPT ![w] = ReadError]
  /\ UNCHANGED <<files, worker, ghosts, look, wid, cursor, moved, seen>>

\* Mutant: the scan counts though a generation overtook it.
RecheckIgnoresGeneration(w) ==
  /\ Serving
  /\ at[w] = "recheck"
  /\ \/ MatchesPending(w) /\ PendingAwaitState(w)
     \/ /\ ~MatchesPending(w)
        /\ at' = [at EXCEPT ![w] = Outcome(w)]
        /\ UNCHANGED cursor
  /\ UNCHANGED <<vars, look, wid, found, moved, seen>>

\* observe_await_state after the scan: a lookup overtaken by a generation
\* starts again.
Recheck(w) ==
  /\ Serving
  /\ at[w] = "recheck"
  /\ \/ MatchesPending(w) /\ PendingAwaitState(w)
     \/ /\ ~MatchesPending(w)
        /\ at' = [at EXCEPT ![w] = IF moved[w] THEN "observe" ELSE Outcome(w)]
        /\ UNCHANGED cursor
  /\ UNCHANGED <<vars, look, wid, found, moved, seen>>

\* The entry cannot be read.
ObserveFails(w) ==
  /\ Serving
  /\ at[w] \in {"observe", "recheck"}
  /\ Fault
  /\ at' = [at EXCEPT ![w] = "failed"]
  /\ UNCHANGED <<files, worker, ghosts, look, wid, cursor, found, moved, seen>>

\* The subscription reports a generation.
Notified(w) ==
  /\ at[w] = "wait"
  /\ ~seen[w]
  /\ at' = [at EXCEPT ![w] = "observe"]
  /\ seen' = [seen EXCEPT ![w] = TRUE]
  /\ UNCHANGED <<vars, look, wid, cursor, found, moved>>

\* Nothing was published for AWAIT_HEARTBEAT_SECS.
Heartbeat(w) ==
  /\ at[w] = "wait"
  /\ seen[w]
  /\ at' = [at EXCEPT ![w] = "observe"]
  /\ UNCHANGED <<vars, look, wid, cursor, found, moved, seen>>

\* The waiting frame cannot be written: the client has left.
ClientGone(w) ==
  /\ at[w] = "wait"
  /\ at' = [at EXCEPT ![w] = "gone"]
  /\ UNCHANGED <<vars, look, wid, cursor, found, moved, seen>>

LookupStep(w) == Observe(w) \/ ReadMarker(w) \/ ScanHistory(w) \/ Recheck(w) \/ Notified(w)

AwaitNext ==
  \/ QueueStep(Next)
  \/ \E id \in Ids : PutAgain(id)
  \/ NothingDue
  \/ \E w \in Waiters : \/ \E id \in Ids : Subscribe(w, id)
                        \/ LookupStep(w)
                        \/ ScanFails(w)
                        \/ ObserveFails(w)
                        \/ Heartbeat(w)
                        \/ ClientGone(w)

AwaitSpec == AwaitInit /\ [][AwaitNext]_all

\* The handlers are polled; the heartbeat is not needed for progress.
FairAwaitSpec ==
  /\ AwaitSpec
  /\ WF_all(QueueStep(Progress))
  /\ \A w \in Waiters : WF_all(LookupStep(w))
-----------------------------------------------------------------------------
(* Properties.                                                             *)

\* A wait that selected a queued lifetime is answered with that lifetime's
\* comment, though the identifier was deleted and reused meanwhile.
PostedIsSelected ==
  \A w \in Waiters :
    at[w] = "posted" /\ cursor[w] # NoCursor =>
      /\ history[found[w]].incarnation = cursor[w].incarnation
      /\ history[found[w]].outcome = "success"

\* A wait that never saw its identifier queued is answered, at the moment it
\* is answered, with the comment of the identifier's newest lifetime: never
\* with the URL of an older one.
PostedIsLatest ==
  [][\A w \in Waiters :
       at[w] # "posted" /\ at'[w] = "posted" /\ cursor[w] = NoCursor =>
         history[found[w]].incarnation = latest[wid[w]]]_all

\* "unknown comment identifier" is not said of an identifier whose newest
\* lifetime is on record as posted, unless a client deleted that lifetime
\* while it was being posted.
UnknownIsUnposted ==
  [][\A w \in Waiters :
       at[w] # "unknown" /\ at'[w] = "unknown" =>
         ~Recorded(latest[wid[w]]) \/ latest[wid[w]] \in deleted]_all

\* "comment was removed" is said of a lifetime a client deleted, or of one
\* whose post is recorded before the boundary the wait selected.
RemovedIsAccounted ==
  \A w \in Waiters :
    at[w] = "removed" =>
      \/ cursor[w].incarnation \in deleted
      \/ \E k \in 1..cursor[w].offset :
           history[k].incarnation = cursor[w].incarnation /\ history[k].outcome = "success"

\* "comment was removed" is said only of a comment that was removed, never
\* of one that was posted.
RemovedIsDeleted ==
  \A w \in Waiters : at[w] = "removed" => cursor[w].incarnation \in deleted

\* Every wait ends, and the last generation of its comment wakes it: no wait
\* relies on the heartbeat.
WaitEnds ==
  \A w \in Waiters : at[w] \in Active ~> at[w] \in Ended
-----------------------------------------------------------------------------
(* The inductive invariants behind the safety properties.                  *)

Answering == {"marker", "scan", "recheck"}

WaitTypes ==
  /\ at \in [Waiters -> {"off"} \cup Active \cup Ended]
  /\ wid \in [Waiters -> Ids \cup {NoId}]
  /\ cursor \in [Waiters -> [offset : Nat, incarnation : Incarnations \cup {NoInc}]]
  /\ found \in [Waiters -> Nat \cup {ReadError}]
  /\ moved \in [Waiters -> BOOLEAN]
  /\ \A w \in Waiters :
       /\ at[w] # "off" => wid[w] \in Ids
       /\ at[w] = "off" \/ cursor[w].incarnation = NoInc => cursor[w] = NoCursor

\* A line the scan found stays what it was, however the history grows.
FoundLine(w) ==
  /\ at[w] = "posted" => found[w] > 0
  /\ at[w] \in {"recheck", "posted"} /\ found[w] > 0 =>
       /\ found[w] \in 1..Len(history)
       /\ history[found[w]].outcome = "success"
       /\ cursor[w].incarnation \in {NoInc, history[found[w]].incarnation}

\* Inductive with the type invariant of Delivery: what a posted answer shows.
FoundInv == WaitTypes /\ \A w \in Waiters : FoundLine(w)

RecordedBy(inc, boundary) ==
  \E k \in 1..boundary : history[k].incarnation = inc /\ history[k].outcome = "success"

\* Lifetime inc belongs to id: no file and no claim names it with another.
BelongsTo(inc, id) ==
  /\ \A x \in Ids : inc \in {entries[x].incarnation, unsynced[x].incarnation} => x = id
  /\ \A n \in 1..Len(claims) : claims[n].incarnation = inc => claims[n].id = id

\* The selected lifetime is queued until it is deleted or recorded; it is one of
\* these already when a lookup goes on to read the history, and an empty scan
\* leaves only a line before the boundary.
Selection(w) ==
  LET inc == cursor[w].incarnation IN
  inc # NoInc =>
    /\ inc \in born
    /\ cursor[w].offset <= Len(history)
    /\ BelongsTo(inc, wid[w])
    /\ \/ inc \in deleted \/ Recorded(inc)
       \/ at[w] \notin Answering /\ entries[wid[w]].incarnation = inc
    /\ (at[w] = "recheck" /\ found[w] = Unknown) \/ at[w] = "removed" =>
         inc \in deleted \/ RecordedBy(inc, cursor[w].offset)

\* Every queued or just removed lifetime is claimed under its identifier only.
PlacesOwnClaims ==
  \A n \in 1..Len(claims), id \in Ids :
    claims[n].incarnation \in {entries[id].incarnation, unsynced[id].incarnation} =>
      claims[n].id = id

\* Inductive with what the refinement needs: what a removed answer rests on.
SelectionInv ==
  /\ PlacesOwnClaims
  /\ \A w \in Waiters :
       Selection(w) /\ (at[w] = "removed" => cursor[w].incarnation # NoInc)

\* The order of the success lines is the order of their attempts.
SuccessesInOrder ==
  \A j, k \in 1..Len(history) :
    /\ j < k
    /\ history[j].outcome = "success" /\ history[k].outcome = "success"
    => history[j].attempt < history[k].attempt

\* A claimed identifier has a newest lifetime, and once that one is claimed, no
\* older one is.
ClaimsFollowLatest ==
  \A m \in 1..Len(claims) :
    /\ latest[claims[m].id] # NoInc
    /\ \A n \in 1..Len(claims) :
         /\ m < n
         /\ claims[m].id = claims[n].id
         /\ claims[m].incarnation = latest[claims[m].id]
         => claims[n].incarnation = latest[claims[m].id]

\* A marker beside no entry is of a lifetime a client deleted.
MarkersAreDeletions ==
  \A id \in Ids : ~Pending(id) /\ deletions[id] # NoInc => deletions[id] \in deleted

BeingPosted(inc) ==
  \/ Attempting /\ cur.incarnation = inc
  \/ \E r \in completion : r.incarnation = inc

\* A lookup without a selected lifetime that no generation has overtaken.  An
\* entry put meanwhile stays until a generation is published; without one, what
\* the lookup read so far is about the newest lifetime.
NewestLookup(w) ==
  at[w] \in Answering /\ cursor[w] = NoCursor /\ ~moved[w] =>
    IF Pending(wid[w]) THEN ~BeingPosted(entries[wid[w]].incarnation)
    ELSE /\ at[w] = "scan" =>
              latest[wid[w]] = NoInc \/ Recorded(latest[wid[w]])
         /\ at[w] = "recheck" /\ found[w] > 0 =>
              history[found[w]].incarnation = latest[wid[w]]
         /\ at[w] = "recheck" /\ found[w] = Unknown =>
              latest[wid[w]] \in deleted \cup {NoInc}

\* Inductive while the power stays on, with the invariants of Delivery: a lookup
\* without a cursor answers for the newest lifetime.
NewestInv ==
  /\ SuccessesInOrder
  /\ ClaimsFollowLatest
  /\ MarkersAreDeletions
  /\ \A w \in Waiters : NewestLookup(w)
=============================================================================
