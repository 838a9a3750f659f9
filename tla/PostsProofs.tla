---------------------------- MODULE PostsProofs -----------------------------
(***************************************************************************)
(* What holds of Delivery while the power stays on.  A recorded comment is *)
(* never claimed again, and last_post covers it whenever the worker looks  *)
(* for the next entry.  The deletion markers agree with the history: an    *)
(* identifier with no entry has a marker exactly when its newest lifetime  *)
(* was not posted.                                                         *)
(***************************************************************************)
EXTENDS DeliveryProofs

-----------------------------------------------------------------------------
(* Frames.                                                                 *)

\* A queued lifetime changes its claim only in a claim, a release or a reclaim.
LEMMA ClaimChange ==
  ASSUME Inv, [Next]_vars, ~PowerFails, NEW x \in Ids, Pending(x),
         entries'[x].incarnation = entries[x].incarnation,
         entries'[x].claim # entries[x].claim
  PROVE  \/ pc = "idle"
         \/ pc = "reclaim"
         \/ pc = "clear_claim" /\ ~Attempting'
<1> DEFINE Goal == \/ pc = "idle"
                   \/ pc = "reclaim"
                   \/ pc = "clear_claim" /\ ~Attempting'
<1> SUFFICES Goal
  OBVIOUS
<1>1. TypeOK /\ entries' # entries
  BY DEF Inv
<1>2. ASSUME NEW id \in Ids, NEW e, WriteEntry(id, e), e.claim = entries[id].claim
      PROVE  FALSE
  BY <1>1, <1>2, WriteEntryFacts
<1>3. ASSUME NEW id \in Ids, RemoveEntry(id)
      PROVE  FALSE
  BY <1>1, <1>3, RemoveEntryFacts DEF Pending, NoEntry
<1>4. CASE ClientStep
  <2>1. ASSUME NEW id \in Ids, NEW inc \in Incarnations, NEW ok \in BOOLEAN,
               Put(id, inc, ok)
        PROVE  FALSE
    <3>1. WriteEntry(id, [incarnation |-> inc, claim |-> NoToken]) /\ ~Pending(id)
      BY Zenon, <2>1 DEF Put
    <3> QED
      BY <1>1, <3>1, WriteEntryFacts
  <2>2. ASSUME NEW id \in Ids, Reorder(id)
        PROVE  FALSE
    BY <1>2, <2>2 DEF Reorder
  <2>3. ASSUME NEW id \in Ids, Del(id) \/ DelFails(id)
        PROVE  FALSE
    BY <1>1, <1>3, <2>3 DEF Del, DelFails
  <2> QED
    BY <1>4, <2>1, <2>2, <2>3 DEF ClientStep
<1>5. ASSUME NEW ok \in BOOLEAN, WorkerStep(ok)
      PROVE  Goal
  <2>1. ASSUME NEW id \in Ids, Claim(id, ok)
        PROVE  pc = "idle"
    BY Zenon, <2>1 DEF Claim, Step
  <2>2. ASSUME ClearClaim(ok)
        PROVE  pc = "clear_claim" /\ ~Attempting'
    BY <2>2 DEF ClearClaim, Step, Fails, Attempting
  <2>3. ASSUME NEW S \in SUBSET Ids, ReclaimClaims(S, ok)
        PROVE  pc = "reclaim"
    BY Zenon, <2>3 DEF ReclaimClaims, Step
  <2>4. ASSUME NEW r \in completion, RemoveCompleted(r, ok)
        PROVE  FALSE
    <3>1. r.id \in Ids
      BY LineTypes DEF Inv
    <3>2. RemoveEntry(r.id) \/ entries' = entries
      BY Zenon, <2>4 DEF RemoveCompleted
    <3> QED
      BY <1>1, <1>3, <3>1, <3>2
  <2>5. CASE \/ RecordFailure(ok) \/ ReleaseClaim(ok) \/ WriteCompletion(ok)
             \/ RemoveCompletion(ok)
             \/ \E r \in completion : \/ AppendCompletionHistory(r, ok)
                                      \/ ClearMarker(r, ok)
                                      \/ WriteLastPost(r, ok)
             \/ \E S \in SUBSET Ids : ReconcileAwaitDeletions(S, ok)
    <3>1. entries' = entries
      BY Zenon, <2>5 DEF RecordFailure, ReleaseClaim, WriteCompletion, RemoveCompletion,
         AppendCompletionHistory, ClearMarker, WriteLastPost, ReconcileAwaitDeletions
    <3> QED
      BY <1>1, <3>1
  <2> HIDE DEF Goal
  <2>6. ASSUME NEW id \in Ids, Claim(id, ok)  PROVE Goal
    BY <2>1, <2>6 DEF Goal
  <2>7. ASSUME NEW S \in SUBSET Ids, ReclaimClaims(S, ok)  PROVE Goal
    BY <2>3, <2>7 DEF Goal
  <2>8. CASE ClearClaim(ok)
    BY <2>2, <2>8 DEF Goal
  <2> QED
    BY <1>5, <2>4, <2>5, <2>6, <2>7, <2>8 DEF WorkerStep, ReconcileCompletion
<1>6. CASE LocalStep \/ PostErr \/ ReadFails \/ (\E n \in 1..Len(claims) : Accept(n))
           \/ Crash \/ (\E S \in SUBSET Ids : PowerLoss(S)) \/ UNCHANGED vars
  <2>1. entries' = entries
    BY Zenon, <1>6 DEF LocalStep, PostOk, NothingToRelease, Cooled, Open,
       RecoverWorkerState, Respawn, PostErr, ReadFails, Accept, Crash, PowerLoss, vars,
       files
  <2> QED
    BY <1>1, <2>1
<1> QED
  BY <1>4, <1>5, <1>6 DEF Next

\* A claim is made with the journal gone; otherwise the claims stay.
LEMMA ClaimsStay ==
  ASSUME TypeOK, [Next]_vars, pc # "idle"
  PROVE  claims' = claims
<1>1. ASSUME NEW id \in Ids, NEW ok \in BOOLEAN, Claim(id, ok)
      PROVE  pc = "idle"
  BY Zenon, <1>1 DEF Claim, Step
<1> QED
  BY Zenon, <1>1, ClaimsFrame

\* While the power stays on, a lifetime enters the queue only by its put.
LEMMA EntersByPut ==
  ASSUME Inv, OutboxInv, [Next]_vars, ~PowerFails, NEW x \in Ids,
         entries'[x].incarnation # NoInc,
         entries'[x].incarnation # entries[x].incarnation
  PROVE  entries'[x].incarnation \notin born
<1>1. Moves
  BY PlaceFrame
<1>2. ASSUME NEW id \in Ids, NEW inc \in Incarnations, Creates(id, inc)
      PROVE  entries'[x].incarnation \notin born
  BY <1>2 DEF Creates
<1> QED
  BY <1>1, <1>2 DEF Moves, NothingMoves, Same, TakesAway, BringsBack

\* The journal goes only in its last step.
LEMMA JournalStays ==
  ASSUME Inv, [Next]_vars, NEW r \in completion, pc # "unlink"
  PROVE  r \in completion'
<1>1. CASE ClientStep
  BY Zenon, <1>1 DEF ClientStep, Put, Reorder, Del, DelFails
<1>2. ASSUME NEW ok \in BOOLEAN, WorkerStep(ok)
      PROVE  r \in completion'
  <2>1. CASE WriteCompletion(ok)
    BY <2>1 DEF WriteCompletion, Step, Inv, JournalPhase, Attempting
  <2>2. CASE RemoveCompletion(ok)
    BY <2>2 DEF RemoveCompletion, Step
  <2>3. ASSUME ~WriteCompletion(ok), ~RemoveCompletion(ok)
        PROVE  completion' = completion
    BY Zenon, <1>2, <2>3 DEF WorkerStep, Claim, RecordFailure, ReleaseClaim, ClearClaim,
       ReconcileCompletion, AppendCompletionHistory, ClearMarker, RemoveCompleted,
       WriteLastPost, ReclaimClaims, ReconcileAwaitDeletions
  <2> QED
    BY <2>1, <2>2, <2>3
<1>3. CASE LocalStep \/ PostErr \/ ReadFails \/ (\E n \in 1..Len(claims) : Accept(n))
           \/ Crash \/ (\E S \in SUBSET Ids : PowerLoss(S)) \/ UNCHANGED vars
  BY Zenon, <1>3 DEF LocalStep, PostOk, NothingToRelease, Cooled, Open,
     RecoverWorkerState, Respawn, PostErr, ReadFails, Accept, Crash, PowerLoss, vars,
     files
<1> QED
  BY <1>1, <1>2, <1>3 DEF Next

\* How the last two steps of reconcile_completion are reached.
LEMMA LateSteps ==
  ASSUME [Next]_vars
  PROVE  /\ pc' = "last_post" =>
              \/ pc = "last_post"
              \/ \E r \in completion : RemoveCompleted(r, TRUE)
         /\ pc' = "unlink" =>
              \/ pc = "unlink"
              \/ \E r \in completion : WriteLastPost(r, TRUE)
<1> DEFINE Late(p) == /\ p = "last_post" => \/ pc = "last_post"
                                            \/ \E r \in completion : RemoveCompleted(r, TRUE)
                      /\ p = "unlink" => \/ pc = "unlink"
                                         \/ \E r \in completion : WriteLastPost(r, TRUE)
<1> SUFFICES Late(pc')
  BY Zenon
<1>1. ASSUME pc' \notin {"last_post", "unlink"} \/ pc' = pc
      PROVE  Late(pc')
  BY Zenon, <1>1
<1>2. CASE ClientStep
  <2>1. pc' = pc
    BY Zenon, <1>2 DEF ClientStep, Put, Reorder, Del, DelFails, worker
  <2> QED
    BY Zenon, <1>1, <2>1
<1>3. ASSUME NEW ok \in BOOLEAN, WorkerStep(ok)
      PROVE  Late(pc')
  <2>1. ASSUME NEW r \in completion, RemoveCompleted(r, ok), pc' = "last_post"
        PROVE  ok = TRUE
    BY <2>1 DEF RemoveCompleted, Step, Fails
  <2>2. ASSUME NEW r \in completion, RemoveCompleted(r, ok)
        PROVE  pc' # "unlink"
    BY <2>2 DEF RemoveCompleted, Step, Fails
  <2>3. ASSUME NEW r \in completion, WriteLastPost(r, ok), pc' = "unlink"
        PROVE  ok = TRUE
    BY <2>3 DEF WriteLastPost, Step, Fails
  <2>4. ASSUME NEW r \in completion, WriteLastPost(r, ok)
        PROVE  pc' # "last_post"
    BY <2>4 DEF WriteLastPost, Step, Fails
  <2>5. ASSUME \A r \in completion : ~RemoveCompleted(r, ok) /\ ~WriteLastPost(r, ok)
        PROVE  pc' \notin {"last_post", "unlink"}
    BY Zenon, <1>3, <2>5 DEF WorkerStep, Claim, RecordFailure, ReleaseClaim, ClearClaim,
       WriteCompletion, ReconcileCompletion, AppendCompletionHistory, ClearMarker,
       RemoveCompletion, ReclaimClaims, ReconcileAwaitDeletions, Step, Goto, Fails
  <2> QED
    BY Zenon, <1>1, <2>1, <2>2, <2>3, <2>4, <2>5
<1>4. CASE LocalStep \/ PostErr \/ ReadFails \/ (\E n \in 1..Len(claims) : Accept(n))
           \/ Crash \/ (\E S \in SUBSET Ids : PowerLoss(S)) \/ UNCHANGED vars
  <2>1. pc' \notin {"last_post", "unlink"} \/ pc' = pc
    BY <1>4 DEF LocalStep, PostOk, NothingToRelease, Cooled, Open, FirstRecoveryStep,
       RecoverWorkerState, Respawn, PostErr, ReadFails, Accept, Crash, PowerLoss, vars,
       worker, Goto, Fails
  <2> QED
    BY Zenon, <1>1, <2>1
<1> HIDE DEF Late
<1> QED
  BY <1>2, <1>3, <1>4 DEF Next

\* last_post changes only when reconcile_completion writes the journal's time.
LEMMA LastPostFrame ==
  ASSUME [Next]_vars, lastPost' # lastPost
  PROVE  \E r \in completion : lastPost' = r.claim
<1>1. CASE ClientStep
  BY Zenon, <1>1 DEF ClientStep, Put, Reorder, Del, DelFails
<1>2. ASSUME NEW ok \in BOOLEAN, WorkerStep(ok)
      PROVE  \E r \in completion : lastPost' = r.claim
  BY Zenon, <1>2 DEF WorkerStep, Claim, RecordFailure, ReleaseClaim, ClearClaim,
     WriteCompletion, ReconcileCompletion, AppendCompletionHistory, ClearMarker,
     RemoveCompleted, WriteLastPost, RemoveCompletion, ReclaimClaims,
     ReconcileAwaitDeletions
<1>3. CASE LocalStep \/ PostErr \/ ReadFails \/ (\E n \in 1..Len(claims) : Accept(n))
           \/ Crash \/ (\E S \in SUBSET Ids : PowerLoss(S)) \/ UNCHANGED vars
  BY Zenon, <1>3 DEF LocalStep, PostOk, NothingToRelease, Cooled, Open,
     RecoverWorkerState, Respawn, PostErr, ReadFails, Accept, Crash, PowerLoss, vars,
     files
<1> QED
  BY <1>1, <1>2, <1>3 DEF Next

-----------------------------------------------------------------------------
(* PostsInv is inductive, given Inv and OutboxInv.                         *)

\* A claimed lifetime keeps the token of its attempt.
LEMMA KeepsToken ==
  ASSUME Inv, OutboxInv, [Next]_vars, ~PowerFails, NEW x \in Ids, NEW inc \in born,
         NEW n, inc # NoInc, entries[x].incarnation = inc => entries[x].claim = n,
         entries'[x].incarnation = inc,
         pc \notin {"idle", "reclaim"}, pc = "clear_claim" => Attempting'
  PROVE  entries'[x].claim = n
<1>1. entries[x].incarnation = inc
  BY EntersByPut
<1> QED
  BY <1>1, ClaimChange DEF Pending

LEMMA NewestClaimStep ==
  ASSUME Inv, OutboxInv, PostsInv, [Next]_vars, ~PowerFails
  PROVE  NewestClaim'
<1>1. TypeOK /\ TokensNameLifetimes /\ JournalPhase /\ LinesOfAttempt /\ NewestClaim
  BY DEF Inv, PostsInv
<1>2. ASSUME NEW n, NEW id, NEW inc, IsClaim(n, id, inc)
      PROVE  inc \in born /\ inc # NoInc /\ id \in Ids
  BY <1>1, <1>2, NoIncAssumption DEF IsClaim, OutboxInv, Submitted, TypeOK
<1>3. ASSUME AttemptGoesOn, Attempting'
      PROVE  /\ cur'.claim = Len(claims')
             /\ entries'[cur'.id].incarnation = cur'.incarnation =>
                  entries'[cur'.id].claim = cur'.claim
  <2>1. Attempting /\ cur' = cur /\ pc \notin {"idle", "reclaim"}
    BY <1>3 DEF AttemptGoesOn, Attempting
  <2>2. claims' = claims
    BY <1>1, <2>1, ClaimsStay
  <2>3. cur.id \in Ids /\ cur.incarnation \in born /\ cur.incarnation # NoInc
    BY <1>1, <1>2, <2>1 DEF TokensNameLifetimes
  <2>4. entries[cur.id].incarnation = cur.incarnation => entries[cur.id].claim = cur.claim
    BY <1>1, <2>1 DEF NewestClaim, HoldsClaim
  <2> QED
    BY Zenon, <1>1, <1>3, <2>1, <2>2, <2>3, <2>4, KeepsToken DEF NewestClaim
<1>4. ASSUME NEW id \in Ids, Claim(id, TRUE)
      PROVE  /\ cur'.claim = Len(claims')
             /\ entries'[cur'.id].claim = cur'.claim
  <2>1. cur' = [id |-> id, incarnation |-> entries[id].incarnation,
                claim |-> Len(claims) + 1]
    BY Zenon, <1>1, <1>4, ClaimFacts
  <2>2. claims' = Append(claims, [id |-> id, incarnation |-> entries[id].incarnation])
        /\ WriteEntry(id, [entries[id] EXCEPT !.claim = Len(claims) + 1])
    BY Zenon, <1>4 DEF Claim
  <2>3. Len(claims) \in Nat
    BY <1>1 DEF TypeOK
  <2>4. Len(claims') = Len(claims) + 1
    BY <1>1, <2>2 DEF TypeOK
  <2>5. [entries[id] EXCEPT !.claim = Len(claims) + 1].claim = Len(claims) + 1
    BY <1>1, <2>3, ClaimFieldFacts DEF TypeOK, StoreTypeOK
  <2>6. entries'[id] = [entries[id] EXCEPT !.claim = Len(claims) + 1]
    BY Zenon, <1>1, <2>2, WriteEntryFacts
  <2> QED
    BY Zenon, <2>1, <2>4, <2>5, <2>6
<1>5. ASSUME NEW r \in completion
      PROVE  /\ r.claim = Len(claims')
             /\ entries'[r.id].incarnation = r.incarnation => entries'[r.id].claim = r.claim
  <2>1. pc \notin {"idle", "reclaim", "clear_claim"}
    BY <1>1 DEF JournalPhase, Attempting
  <2>2. IsClaim(r.claim, r.id, r.incarnation)
    BY <1>1 DEF LinesOfAttempt
  <2>3. r.id \in Ids /\ r.incarnation \in born /\ r.incarnation # NoInc
    BY <1>2, <2>2
  <2>4. claims' = claims
    BY <1>1, <2>1, ClaimsStay
  <2>5. /\ r.claim = Len(claims)
        /\ entries[r.id].incarnation = r.incarnation => entries[r.id].claim = r.claim
    BY <1>1 DEF NewestClaim
  <2>6. ASSUME entries'[r.id].incarnation = r.incarnation
        PROVE  entries'[r.id].claim = r.claim
    BY Zenon, <2>1, <2>3, <2>5, <2>6, KeepsToken
  <2> QED
    BY <2>4, <2>5, <2>6
<1>6. ASSUME pc = "posted", NEW r \in completion',
             completion' = {[id |-> cur.id, incarnation |-> cur.incarnation,
                             claim |-> cur.claim, offset |-> Len(history)]}
      PROVE  /\ r.claim = Len(claims')
             /\ entries'[r.id].incarnation = r.incarnation => entries'[r.id].claim = r.claim
  <2>1. Attempting /\ r.id = cur.id /\ r.incarnation = cur.incarnation /\ r.claim = cur.claim
    BY <1>6 DEF Attempting
  <2>2. claims' = claims
    BY <1>1, <1>6, ClaimsStay
  <2>3. cur.id \in Ids /\ cur.incarnation \in born /\ cur.incarnation # NoInc
    BY <1>1, <1>2, <2>1 DEF TokensNameLifetimes
  <2>4. /\ cur.claim = Len(claims)
        /\ entries[cur.id].incarnation = cur.incarnation => entries[cur.id].claim = cur.claim
    BY <1>1, <2>1 DEF NewestClaim, HoldsClaim
  <2>5. ASSUME entries'[cur.id].incarnation = cur.incarnation
        PROVE  entries'[cur.id].claim = cur.claim
    BY Zenon, <1>6, <2>3, <2>4, <2>5, KeepsToken
  <2> QED
    BY <2>1, <2>2, <2>4, <2>5
<1>7. ASSUME NEW r \in completion'
      PROVE  /\ r.claim = Len(claims')
             /\ entries'[r.id].incarnation = r.incarnation => entries'[r.id].claim = r.claim
  BY <1>5, <1>6, JournalFrame
<1> QED
  BY Zenon, <1>3, <1>4, <1>7, AttemptFrame DEF NewestClaim, HoldsClaim

LEMMA ClaimsNameIdsStep ==
  ASSUME Inv, OutboxInv, PostsInv, [Next]_vars, ~PowerFails
  PROVE  ClaimsNameIds'
<1>1. TypeOK /\ ClaimsNameIds /\ OnePlace'
  BY OnePlaceStep DEF Inv, PostsInv
<1>2. ASSUME NEW n \in 1..Len(claims), NEW id \in Ids,
             entries'[id].incarnation = claims[n].incarnation
      PROVE  claims[n].id = id
  <2>1. claims[n].incarnation \in born /\ claims[n].incarnation # NoInc
    BY <1>1, NoIncAssumption DEF OutboxInv, Submitted, TypeOK
  <2>2. entries[id].incarnation = claims[n].incarnation
    BY <1>2, <2>1, EntersByPut
  <2> QED
    BY <1>1, <2>2 DEF ClaimsNameIds
<1>3. CASE claims' = claims
  BY <1>2, <1>3 DEF ClaimsNameIds
<1>4. CASE claims' # claims
  <2>1. PICK i \in Ids, ok \in BOOLEAN :
          /\ Claim(i, ok)
          /\ [id |-> i, incarnation |-> entries[i].incarnation]
               \in [id : Ids, incarnation : Incarnations]
          /\ claims' = Append(claims, [id |-> i, incarnation |-> entries[i].incarnation])
    BY <1>1, <1>4, ClaimsFrame
  <2> DEFINE x == [id |-> i, incarnation |-> entries[i].incarnation]
  <2>2. /\ Len(claims) \in Nat /\ Len(claims') = Len(claims) + 1
        /\ \A k \in 1..Len(claims) : claims'[k] = claims[k]
        /\ claims'[Len(claims) + 1] = x
    BY <1>1, <2>1, AppendFacts DEF TypeOK
  <2>3. entries[i].incarnation \in Incarnations /\ entries[i].incarnation # NoInc
    BY <2>1, NoIncAssumption
  <2>4. entries'[i].incarnation = entries[i].incarnation
    <3>1. \/ WriteEntry(i, [entries[i] EXCEPT !.claim = Len(claims) + 1])
          \/ entries' = entries
      BY Zenon, <2>1 DEF Claim
    <3>2. [entries[i] EXCEPT !.claim = Len(claims) + 1].incarnation = entries[i].incarnation
      BY <1>1, <2>2, ClaimFieldFacts DEF TypeOK, StoreTypeOK
    <3> QED
      BY Zenon, <1>1, <3>1, <3>2, WriteEntryFacts
  <2>5. \A id \in Ids : entries'[id].incarnation = x.incarnation => id = i
    BY <1>1, <2>3, <2>4 DEF OnePlace, Pending
  <2> QED
    BY <1>2, <2>2, <2>5 DEF ClaimsNameIds
<1> QED
  BY <1>3, <1>4

LEMMA RemovalAheadStep ==
  ASSUME Inv, OutboxInv, PostsInv, [Next]_vars, ~PowerFails
  PROVE  RemovalAhead'
<1>1. /\ TypeOK /\ JournalPhase /\ LinesOfAttempt
      /\ NewestClaim /\ ClaimsNameIds /\ RemovalAhead
  BY DEF Inv, PostsInv
<1>2. SUFFICES ASSUME NEW id \in Ids, entries'[id].incarnation # NoInc,
                      Recorded(entries[id].incarnation)'
               PROVE  /\ pc' \notin {"last_post", "unlink"}
                      /\ \E r \in completion' : r.id = id
                            /\ r.incarnation = entries'[id].incarnation
  BY DEF RemovalAhead, Pending
<1> DEFINE inc == entries'[id].incarnation
<1>3. inc \in Incarnations
  <2>1. entries'[id] \in Entry
    BY <1>1, FilesTypeStep DEF Inv
  <2> QED
    BY <1>2, <2>1 DEF Entry
<1>4. ASSUME Recorded(inc)
      PROVE  /\ pc' \notin {"last_post", "unlink"}
             /\ \E r \in completion' : r.id = id /\ r.incarnation = inc
  <2>1. inc \in born
    BY <1>4, RecordedIsSubmitted
  <2>2. entries[id].incarnation = inc
    BY <1>2, <2>1, EntersByPut
  <2>3. PICK r \in completion : r.id = id /\ r.incarnation = inc
    BY <1>1, <1>2, <1>4, <2>2 DEF RemovalAhead, Pending
  <2>4. pc \notin {"last_post", "unlink"}
    BY <1>1, <1>2, <1>4, <2>2 DEF RemovalAhead, Pending
  <2>5. r \in completion'
    BY <2>4, JournalStays
  <2>6. ASSUME NEW q \in completion, RemoveCompleted(q, TRUE)
        PROVE  FALSE
    <3>1. q = r /\ entries[id].claim = r.claim
      BY <1>1, <2>2, <2>3 DEF JournalPhase, NewestClaim
    <3>2. RemoveEntry(id)
      BY <2>3, <2>6, <3>1 DEF RemoveCompleted
    <3> QED
      BY <1>1, <1>2, <3>2, RemoveEntryFacts DEF NoEntry
  <2>7. ASSUME NEW q \in completion, WriteLastPost(q, TRUE)
        PROVE  FALSE
    BY <2>4, <2>7 DEF WriteLastPost, Step
  <2> QED
    BY Zenon, <2>3, <2>4, <2>5, <2>6, <2>7, LateSteps
<1>5. ASSUME NEW r \in completion, Records(r), inc = r.incarnation, ~Recorded(inc)
      PROVE  /\ pc' \notin {"last_post", "unlink"}
             /\ \E q \in completion' : q.id = id /\ q.incarnation = inc
  <2>1. IsClaim(r.claim, r.id, r.incarnation)
    BY <1>1 DEF LinesOfAttempt
  <2>2. entries[id].incarnation = inc
    BY <1>5 DEF Records
  <2>3. r.id = id
    BY <1>1, <1>5, <2>1, <2>2 DEF ClaimsNameIds, IsClaim
  <2>4. pc \notin {"clear", "remove", "last_post", "unlink"}
    BY <1>1, <1>5 DEF JournalPhase
  <2>5. r \in completion'
    BY <2>4, JournalStays
  <2>6. ASSUME NEW q \in completion, RemoveCompleted(q, TRUE) \/ WriteLastPost(q, TRUE)
        PROVE  FALSE
    BY <2>4, <2>6 DEF RemoveCompleted, WriteLastPost, Step
  <2> QED
    BY Zenon, <1>5, <2>3, <2>4, <2>5, <2>6, LateSteps
<1>6. CASE RecordsNothing
  BY <1>2, <1>3, <1>4, <1>6 DEF RecordsNothing, Recorded
<1>7. ASSUME NEW r \in completion, Records(r)
      PROVE  Recorded(inc) \/ inc = r.incarnation
  BY <1>2, <1>3, <1>7 DEF Records, Recorded
<1> QED
  BY <1>4, <1>5, <1>6, <1>7, HistoryCases

\* A success line of the next state is an old one, or the journal's.
LEMMA SuccessLines ==
  ASSUME Inv, [Next]_vars, NEW k \in 1..Len(history'), history'[k].outcome = "success"
  PROVE  \/ k \in 1..Len(history) /\ history'[k] = history[k]
         \/ \E r \in completion : /\ history'[k].attempt = r.claim
                                  /\ history'[k].incarnation = r.incarnation
                                  /\ pc = "append"
                                  /\ pc' # "unlink"
<1>1. TypeOK /\ TokensNameLifetimes
  BY DEF Inv
<1>2. ASSUME NEW x \in HistoryRecord, history' = Append(history, x)
      PROVE  (k \in 1..Len(history) /\ history'[k] = history[k]) \/ history'[k] = x
  <2>1. /\ Len(history) \in Nat
        /\ Len(history') = Len(history) + 1
        /\ \A j \in 1..Len(history) : history'[j] = history[j]
        /\ history'[Len(history) + 1] = x
    BY <1>1, <1>2, AppendFacts DEF TypeOK, StoreTypeOK
  <2> QED
    BY <2>1
<1>3. CASE history' = history
  BY <1>3
<1>4. ASSUME NEW ok \in BOOLEAN, RecordFailure(ok), history' # history
      PROVE  k \in 1..Len(history) /\ history'[k] = history[k]
  BY <1>1, <1>2, <1>4, RecordFailureAppends
<1>5. ASSUME NEW r \in completion, NEW ok \in BOOLEAN,
             AppendCompletionHistory(r, ok), history' # history
      PROVE  \/ k \in 1..Len(history) /\ history'[k] = history[k]
             \/ /\ history'[k].attempt = r.claim
                /\ history'[k].incarnation = r.incarnation
                /\ pc = "append"
                /\ pc' # "unlink"
  <2>1. PICK x \in HistoryRecord :
          history' = Append(history, x) /\ x.incarnation = r.incarnation
                                        /\ x.attempt = r.claim
    BY <1>1, <1>5, CompletionAppends
  <2>2. pc = "append" /\ pc' # "unlink"
    BY <1>5 DEF AppendCompletionHistory, Step, Fails
  <2> QED
    BY <1>2, <2>1, <2>2
<1> QED
  BY <1>3, <1>4, <1>5, HistoryFrame

LEMMA AnchorAheadStep ==
  ASSUME Inv, PostsInv, [Next]_vars
  PROVE  AnchorAhead'
<1>1. TypeOK /\ TokensNameLifetimes /\ JournalPhase /\ NewestClaim /\ AnchorAhead
  BY DEF Inv, PostsInv
<1>2. SUFFICES ASSUME NEW k \in 1..Len(history'), history'[k].outcome = "success"
               PROVE  \/ history'[k].attempt <= lastPost'
                      \/ pc' # "unlink" /\ \E r \in completion' : history'[k].attempt = r.claim
  BY DEF AnchorAhead
<1>3. CASE k \in 1..Len(history) /\ history'[k] = history[k]
  <2>1. history[k].attempt \in Nat /\ history[k].attempt <= Len(claims)
        /\ Len(claims) \in Nat /\ lastPost \in Nat
    <3>1. IsClaim(history[k].attempt, history[k].id, history[k].incarnation)
      BY <1>1, <1>3 DEF TokensNameLifetimes
    <3>2. Len(claims) \in Nat /\ lastPost \in Nat
      BY <1>1 DEF TypeOK, StoreTypeOK
    <3> QED
      BY <3>1, <3>2 DEF IsClaim
  <2>2. lastPost' = lastPost \/ lastPost' = Len(claims)
    BY <1>1, LastPostFrame DEF NewestClaim
  <2>3. CASE history[k].attempt <= lastPost
    BY <1>3, <2>1, <2>2, <2>3
  <2>4. ASSUME pc # "unlink", NEW r \in completion, history[k].attempt = r.claim,
               pc' = "unlink"
        PROVE  lastPost' = r.claim
    <3>1. PICK q \in completion : WriteLastPost(q, TRUE)
      BY Zenon, <2>4, LateSteps
    <3>2. lastPost' = q.claim
      BY <3>1 DEF WriteLastPost
    <3> QED
      BY <1>1, <3>2 DEF JournalPhase
  <2>5. ASSUME pc # "unlink", NEW r \in completion, history[k].attempt = r.claim,
               pc' # "unlink"
        PROVE  r \in completion'
    BY <2>5, JournalStays
  <2> QED
    BY <1>1, <1>2, <1>3, <2>1, <2>3, <2>4, <2>5 DEF AnchorAhead
<1>4. ASSUME NEW r \in completion, history'[k].attempt = r.claim, pc = "append",
             pc' # "unlink"
      PROVE  r \in completion'
  BY <1>4, JournalStays
<1> QED
  BY <1>2, <1>3, <1>4, SuccessLines

LEMMA RecordedNeverRepostedStep ==
  ASSUME Inv, PostsInv, [Next]_vars
  PROVE  RecordedNeverReposted'
<1>1. /\ TypeOK /\ TokensNameLifetimes /\ JournalPhase
      /\ NewestClaim /\ RemovalAhead /\ RecordedNeverReposted
  BY DEF Inv, PostsInv
<1>2. SUFFICES ASSUME NEW k \in 1..Len(history'), NEW n \in 1..Len(claims'),
                      history'[k].outcome = "success",
                      claims'[n].incarnation = history'[k].incarnation
               PROVE  n <= history'[k].attempt
  BY DEF RecordedNeverReposted
<1>3. CASE claims' = claims
  <2>1. CASE k \in 1..Len(history) /\ history'[k] = history[k]
    BY <1>1, <1>2, <1>3, <2>1 DEF RecordedNeverReposted
  <2>2. ASSUME NEW r \in completion, history'[k].attempt = r.claim
        PROVE  n <= history'[k].attempt
    <3>1. r.claim = Len(claims) /\ Len(claims) \in Nat
      BY <1>1 DEF NewestClaim, TypeOK
    <3> QED
      BY <1>2, <1>3, <2>2, <3>1
  <2> QED
    BY <1>2, <2>1, <2>2, SuccessLines
<1>4. CASE claims' # claims
  <2>1. PICK i \in Ids, ok \in BOOLEAN :
          /\ Claim(i, ok)
          /\ [id |-> i, incarnation |-> entries[i].incarnation]
               \in [id : Ids, incarnation : Incarnations]
          /\ claims' = Append(claims, [id |-> i, incarnation |-> entries[i].incarnation])
    BY <1>1, <1>4, ClaimsFrame
  <2>2. pc = "idle" /\ Pending(i) /\ history' = history
    BY Zenon, <2>1 DEF Claim, Step
  <2>3. completion = {}
    BY <1>1, <2>2 DEF JournalPhase
  <2>4. ~Recorded(entries[i].incarnation)
    BY <1>1, <2>2, <2>3 DEF RemovalAhead
  <2> DEFINE x == [id |-> i, incarnation |-> entries[i].incarnation]
  <2>5. /\ Len(claims) \in Nat /\ Len(claims') = Len(claims) + 1
        /\ \A j \in 1..Len(claims) : claims'[j] = claims[j]
        /\ claims'[Len(claims) + 1] = x
    BY <1>1, <2>1, AppendFacts DEF TypeOK
  <2>6. history[k].incarnation # entries[i].incarnation
    BY <1>2, <2>2, <2>4 DEF Recorded
  <2>7. n \in 1..Len(claims)
    BY <1>2, <2>2, <2>5, <2>6
  <2> QED
    BY <1>1, <1>2, <2>2, <2>5, <2>7 DEF RecordedNeverReposted
<1> QED
  BY <1>3, <1>4

-----------------------------------------------------------------------------
(* The theorems.                                                           *)

LEMMA PostsInvInit ==
  ASSUME Init
  PROVE  PostsInv
  BY DEF Init, StoreInit, PostsInv, NewestClaim, ClaimsNameIds, RemovalAhead, AnchorAhead,
     RecordedNeverReposted, Attempting, AllSynced, NoEntry, Pending

LEMMA PostsInvStep ==
  ASSUME Inv, OutboxInv, PostsInv, [Next]_vars, ~PowerFails
  PROVE  PostsInv'
  BY NewestClaimStep, ClaimsNameIdsStep, RemovalAheadStep, AnchorAheadStep,
     RecordedNeverRepostedStep DEF PostsInv

\* PostsInv holds while the power stays on.
LEMMA PostsInvHolds ==
  ASSUME ~PowerFails
  PROVE  Spec => [](Inv /\ PostsInv)
<1>1. Inv /\ OutboxInv /\ PostsInv /\ [Next]_vars => PostsInv'
  BY PostsInvStep
<1> QED
  BY <1>1, PostsInvInit, OutboxInvHolds, PTL DEF Spec

\* No second post: while the power stays on, a comment whose success is in the
\* history is never claimed again, whatever errors and crashes happen in between.
THEOREM NeverReposted ==
  ASSUME ~PowerFails
  PROVE  Spec => []RecordedNeverReposted
<1>1. PostsInv => RecordedNeverReposted
  BY DEF PostsInv
<1> QED
  BY <1>1, PostsInvHolds, PTL

\* The cooldown of the next claim starts at or after every recorded success.
THEOREM AnchorCovers ==
  ASSUME ~PowerFails
  PROVE  Spec => []AnchorCoversRecorded
<1>1. Inv /\ PostsInv => AnchorCoversRecorded
  BY DEF Inv, JournalPhase, PostsInv, AnchorAhead, AnchorCoversRecorded
<1> QED
  BY <1>1, PostsInvHolds, PTL

-----------------------------------------------------------------------------
(* What a step does to entries, markers and newest lifetimes.              *)

SameEntries == \A x \in Ids : entries'[x].incarnation = entries[x].incarnation

Quiet == SameEntries /\ UNCHANGED <<deletions, latest>>

\* put
Puts(id, inc) ==
  /\ Serving /\ pc' = pc
  /\ Creates(id, inc)
  /\ latest' = [latest EXCEPT ![id] = inc]
  /\ deletions' = deletions

\* del, its removal done or failed
Deletes(id) ==
  /\ Serving /\ pc' = pc
  /\ Pending(id)
  /\ SameEntries \/ (Del(id) /\ TakesAway(id))
  /\ deletions' = [deletions EXCEPT ![id] = entries[id].incarnation]
  /\ latest' = latest

\* clear_await_deletion
Clears(r) ==
  /\ pc = "clear"
  /\ SameEntries
  /\ ClearAwaitDeletion(r.id, r.incarnation)
  /\ latest' = latest

\* the removal of the posted entry
Removes(r) ==
  /\ pc = "remove"
  /\ entries[r.id].claim = r.claim
  /\ TakesAway(r.id)
  /\ UNCHANGED <<deletions, latest>>

\* reconcile_await_deletions
Sweeps ==
  /\ pc = "sweep"
  /\ SameEntries
  /\ \A x \in Ids : deletions'[x] = deletions[x] \/ Pending(x)
  /\ latest' = latest

MarkerStep ==
  \/ Quiet
  \/ \E id \in Ids, inc \in Incarnations : Puts(id, inc)
  \/ \E id \in Ids : Deletes(id)
  \/ \E r \in completion : Clears(r) \/ Removes(r)
  \/ Sweeps

\* The clients' operations.
LEMMA ClientMarkers ==
  ASSUME TypeOK, ClientStep
  PROVE  MarkerStep
<1>1. ASSUME NEW id \in Ids, NEW inc \in Incarnations, NEW ok \in BOOLEAN,
             Put(id, inc, ok)
      PROVE  Puts(id, inc)
  <2>1. /\ ~Pending(id) /\ inc \notin born /\ born' = born \cup {inc}
        /\ deleted' = deleted /\ deletions' = deletions
        /\ latest' = [latest EXCEPT ![id] = inc] /\ Serving /\ pc' = pc
        /\ WriteEntry(id, [incarnation |-> inc, claim |-> NoToken])
    BY Zenon, <1>1 DEF Put, worker
  <2> QED
    BY <2>1, WriteEntryFacts DEF Puts, Creates, Pending, NoEntry
<1>2. ASSUME NEW id \in Ids, Reorder(id)
      PROVE  Quiet
  BY <1>2, RewriteMovesNothing DEF Reorder, Quiet, SameEntries, Same, ghosts
<1>3. ASSUME NEW id \in Ids, Del(id)
      PROVE  Deletes(id)
  <2>1. TakesAway(id)
    BY <1>3, RemovalTakesAway DEF Del, Pending
  <2> QED
    BY <1>3, <2>1 DEF Del, Deletes, WriteAwaitDeletion, worker
<1>4. ASSUME NEW id \in Ids, DelFails(id)
      PROVE  Deletes(id)
  BY <1>4 DEF DelFails, Deletes, SameEntries, WriteAwaitDeletion, worker, ghosts
<1> QED
  BY <1>1, <1>2, <1>3, <1>4 DEF ClientStep, MarkerStep

\* Claims are taken and cleared without a change of lifetime.
LEMMA RewritesKeepLifetimes ==
  ASSUME TypeOK, TokensNameLifetimes, NEW ok \in BOOLEAN,
         \/ \E id \in Ids : Claim(id, ok)
         \/ ClearClaim(ok)
         \/ \E S \in SUBSET Ids : ReclaimClaims(S, ok)
  PROVE  SameEntries
<1>1. ASSUME NEW id \in Ids, NEW n \in Nat,
             \/ WriteEntry(id, [entries[id] EXCEPT !.claim = n])
             \/ entries' = entries
      PROVE  SameEntries
  <2>1. [entries[id] EXCEPT !.claim = n].incarnation = entries[id].incarnation
    BY ClaimFieldFacts DEF TypeOK, StoreTypeOK
  <2> QED
    BY Zenon, <1>1, <2>1, RewriteMovesNothing DEF SameEntries, Same
<1>2. ASSUME NEW id \in Ids, Claim(id, ok)
      PROVE  SameEntries
  <2>1. Len(claims) + 1 \in Nat
    BY AppendFacts DEF TypeOK
  <2>2. \/ WriteEntry(id, [entries[id] EXCEPT !.claim = Len(claims) + 1])
        \/ entries' = entries
    BY Zenon, <1>2 DEF Claim
  <2> QED
    BY Zenon, <1>1, <2>1, <2>2
<1>3. CASE ClearClaim(ok)
  <2>1. cur.id \in Ids
    BY <1>3, LineTypes DEF ClearClaim, Step, Attempting
  <2>2. \/ WriteEntry(cur.id, [entries[cur.id] EXCEPT !.claim = NoToken])
        \/ entries' = entries
    BY Zenon, <1>3 DEF ClearClaim
  <2> QED
    BY <1>1, <2>1, <2>2 DEF NoToken
<1>4. ASSUME NEW S \in SUBSET Ids, ReclaimClaims(S, ok)
      PROVE  SameEntries
  <2>1. \A x \in Ids : [entries[x] EXCEPT !.claim = NoToken].incarnation
                         = entries[x].incarnation
    BY ClaimFieldFacts DEF TypeOK, StoreTypeOK, NoToken
  <2>2. \A x \in Ids : entries'[x] \in {entries[x], [entries[x] EXCEPT !.claim = NoToken]}
    BY <1>4 DEF ReclaimClaims
  <2> QED
    BY Zenon, <2>1, <2>2 DEF SameEntries
<1> QED
  BY <1>2, <1>3, <1>4

\* The worker's operations.
LEMMA WorkerMarkers ==
  ASSUME Inv, NEW ok \in BOOLEAN, WorkerStep(ok)
  PROVE  MarkerStep
<1>1. TypeOK
  BY DEF Inv
<1>2. latest' = latest /\ born' = born /\ deleted' = deleted
  BY Zenon DEF WorkerStep, Claim, RecordFailure, ReleaseClaim, ClearClaim,
     WriteCompletion, ReconcileCompletion, AppendCompletionHistory, ClearMarker,
     RemoveCompleted, WriteLastPost, RemoveCompletion, ReclaimClaims,
     ReconcileAwaitDeletions, ghosts
<1>3. ASSUME NEW r \in completion, ClearMarker(r, ok)
      PROVE  Quiet \/ Clears(r)
  BY <1>2, <1>3 DEF ClearMarker, Step, Quiet, Clears, SameEntries
<1>4. ASSUME NEW r \in completion, RemoveCompleted(r, ok)
      PROVE  Quiet \/ Removes(r)
  <2>1. CASE entries' = entries
    BY <1>2, <1>4, <2>1 DEF RemoveCompleted, Quiet, SameEntries
  <2>2. CASE RemoveEntry(r.id) /\ entries[r.id].claim = r.claim
    <3>1. r.id \in Ids /\ IsClaim(r.claim, r.id, r.incarnation)
      BY LineTypes DEF Inv, LinesOfAttempt
    <3>2. IsClaim(r.claim, r.id, entries[r.id].incarnation)
      BY <2>2, <3>1 DEF Inv, TokensNameLifetimes, IsClaim, NoToken
    <3>3. entries[r.id].incarnation # NoInc
      BY <3>2, NoIncAssumption DEF IsClaim, Inv, TypeOK
    <3>4. TakesAway(r.id)
      BY <1>1, <1>2, <2>2, <3>1, <3>3, RemovalTakesAway
    <3> QED
      BY Zenon, <1>2, <1>4, <2>2, <3>4 DEF RemoveCompleted, Step, Removes
  <2> QED
    BY Zenon, <1>4, <2>1, <2>2 DEF RemoveCompleted
<1>5. ASSUME NEW S \in SUBSET Ids, ReconcileAwaitDeletions(S, ok)
      PROVE  Sweeps
  BY <1>2, <1>5 DEF ReconcileAwaitDeletions, Step, Sweeps, SameEntries
<1>6. ASSUME UNCHANGED <<entries, deletions>>
      PROVE  Quiet
  BY <1>2, <1>6 DEF Quiet, SameEntries
<1>7. CASE \/ RecordFailure(ok) \/ ReleaseClaim(ok) \/ WriteCompletion(ok)
           \/ RemoveCompletion(ok)
           \/ \E r \in completion : AppendCompletionHistory(r, ok) \/ WriteLastPost(r, ok)
  <2>1. UNCHANGED <<entries, deletions>>
    BY Zenon, <1>7 DEF RecordFailure, ReleaseClaim, WriteCompletion, RemoveCompletion,
       AppendCompletionHistory, WriteLastPost
  <2> QED
    BY <1>6, <2>1 DEF MarkerStep
<1>8. CASE \/ \E id \in Ids : Claim(id, ok)
           \/ ClearClaim(ok)
           \/ \E S \in SUBSET Ids : ReclaimClaims(S, ok)
  <2>1. deletions' = deletions
    BY Zenon, <1>8 DEF Claim, ClearClaim, ReclaimClaims
  <2>2. SameEntries
    BY <1>1, <1>8, RewritesKeepLifetimes DEF Inv
  <2> QED
    BY <1>2, <2>1, <2>2 DEF MarkerStep, Quiet
<1> QED
  BY <1>3, <1>4, <1>5, <1>7, <1>8 DEF WorkerStep, ReconcileCompletion, MarkerStep

\* Every step does one of the things of MarkerStep.
LEMMA MarkerFrame ==
  ASSUME Inv, [Next]_vars, ~PowerFails
  PROVE  MarkerStep
<1>1. CASE LocalStep \/ PostErr \/ ReadFails \/ (\E n \in 1..Len(claims) : Accept(n))
           \/ Crash \/ (\E S \in SUBSET Ids : PowerLoss(S)) \/ UNCHANGED vars
  <2>1. UNCHANGED <<entries, deletions, latest>>
    BY Zenon, <1>1 DEF LocalStep, PostOk, NothingToRelease, Cooled, Open,
       RecoverWorkerState, Respawn, PostErr, ReadFails, Accept, Crash, PowerLoss, vars,
       files, ghosts
  <2> QED
    BY <2>1 DEF MarkerStep, Quiet, SameEntries
<1> QED
  BY <1>1, ClientMarkers, WorkerMarkers DEF Next, Inv

\* "remove" is reached only by clear_await_deletion.
LEMMA ReachesRemove ==
  ASSUME [Next]_vars, pc' = "remove", pc # "remove"
  PROVE  \E r \in completion : ClearMarker(r, TRUE)
<1>1. CASE ClientStep
  <2>1. pc' = pc
    BY Zenon, <1>1 DEF ClientStep, Put, Reorder, Del, DelFails, worker
  <2> QED
    BY <2>1
<1>2. ASSUME NEW ok \in BOOLEAN, WorkerStep(ok)
      PROVE  \E r \in completion : ClearMarker(r, TRUE)
  <2>1. \E r \in completion : ClearMarker(r, ok)
    BY <1>2 DEF WorkerStep, Claim, RecordFailure, ReleaseClaim, ClearClaim,
       WriteCompletion, ReconcileCompletion, AppendCompletionHistory,
       RemoveCompleted, WriteLastPost, RemoveCompletion, ReclaimClaims,
       ReconcileAwaitDeletions, Step, Goto, Fails
  <2>2. ASSUME NEW r \in completion, ClearMarker(r, ok)
        PROVE  ok = TRUE
    BY <2>2 DEF ClearMarker, Step, Fails
  <2> QED
    BY Zenon, <2>1, <2>2
<1>3. CASE LocalStep \/ PostErr \/ ReadFails \/ (\E n \in 1..Len(claims) : Accept(n))
           \/ Crash \/ (\E S \in SUBSET Ids : PowerLoss(S)) \/ UNCHANGED vars
  BY <1>3 DEF LocalStep, PostOk, NothingToRelease, Cooled, Open, FirstRecoveryStep,
     RecoverWorkerState, Respawn, PostErr, ReadFails, Accept, Crash, PowerLoss, vars,
     worker, Goto, Fails
<1> QED
  BY Zenon, <1>1, <1>2, <1>3 DEF Next

-----------------------------------------------------------------------------
(* MarkerInv is inductive, given Inv, OutboxInv and PostsInv.              *)

\* Only a put gives an identifier a new newest lifetime.
LEMMA LatestFrame ==
  ASSUME Inv, [Next]_vars, ~PowerFails
  PROVE  \/ /\ latest' = latest
            /\ \A x \in Ids : entries'[x].incarnation \in {entries[x].incarnation, NoInc}
         \/ \E id \in Ids, inc \in Incarnations : Puts(id, inc)
<1>1. MarkerStep
  BY MarkerFrame
<1> QED
  BY Zenon, <1>1 DEF MarkerStep, Quiet, SameEntries, Deletes, TakesAway, Clears, Removes, Sweeps

LEMMA LatestIsOwnStep ==
  ASSUME Inv, OutboxInv, LatestIsOwn, [Next]_vars, ~PowerFails
  PROVE  LatestIsOwn'
<1>1. TypeOK /\ latest \in [Ids -> Incarnations \cup {NoInc}]
  BY DEF Inv, TypeOK
<1>2. born \subseteq born'
  BY Zenon, PlaceFrame DEF Moves, NothingMoves, Creates, TakesAway, BringsBack
<1>3. ASSUME NEW n \in 1..Len(claims)
      PROVE  claims[n].incarnation \in born /\ claims[n].incarnation # NoInc
  BY <1>1, NoIncAssumption DEF OutboxInv, Submitted, TypeOK
<1>4. CASE latest' = latest
           /\ \A x \in Ids : entries'[x].incarnation \in {entries[x].incarnation, NoInc}
  <2>1. ASSUME NEW id \in Ids
        PROVE  /\ latest'[id] \in born' \cup {NoInc}
               /\ entries'[id].incarnation \in {NoInc, latest'[id]}
               /\ \A x \in Ids : latest'[id] = latest'[x] /\ latest'[id] # NoInc => id = x
    BY <1>2, <1>4 DEF LatestIsOwn
  <2>2. ASSUME NEW id \in Ids, NEW n \in 1..Len(claims'),
               latest'[id] = claims'[n].incarnation
        PROVE  claims'[n].id = id
    <3>1. CASE claims' = claims
      BY <1>4, <2>2, <3>1 DEF LatestIsOwn
    <3>2. CASE claims' # claims
      <4>1. PICK i \in Ids, ok \in BOOLEAN :
              /\ Claim(i, ok)
              /\ [id |-> i, incarnation |-> entries[i].incarnation]
                   \in [id : Ids, incarnation : Incarnations]
              /\ claims' = Append(claims, [id |-> i, incarnation |-> entries[i].incarnation])
        BY <1>1, <3>2, ClaimsFrame
      <4> DEFINE x == [id |-> i, incarnation |-> entries[i].incarnation]
      <4>2. /\ Len(claims) \in Nat /\ Len(claims') = Len(claims) + 1
            /\ \A k \in 1..Len(claims) : claims'[k] = claims[k]
            /\ claims'[Len(claims) + 1] = x
        BY <1>1, <4>1, AppendFacts DEF TypeOK
      <4>3. entries[i].incarnation = latest[i] /\ latest[i] # NoInc
        BY Zenon, <4>1, NoIncAssumption DEF LatestIsOwn
      <4>4. CASE n = Len(claims) + 1
        BY <1>4, <2>2, <4>2, <4>3, <4>4 DEF LatestIsOwn
      <4>5. CASE n \in 1..Len(claims)
        BY <1>4, <2>2, <4>2, <4>5 DEF LatestIsOwn
      <4> QED
        BY <2>2, <4>2, <4>4, <4>5
    <3> QED
      BY <3>1, <3>2
  <2> QED
    BY <2>1, <2>2 DEF LatestIsOwn
<1>5. ASSUME NEW i \in Ids, NEW inc \in Incarnations, Puts(i, inc)
      PROVE  LatestIsOwn'
  <2>1. claims' = claims
    <3>1. pc # "idle" \/ latest' # latest
      BY <1>1, <1>5, NoIncAssumption DEF Puts, Creates, LatestIsOwn
    <3>2. ASSUME NEW id \in Ids, NEW ok \in BOOLEAN, Claim(id, ok)
          PROVE  latest' = latest
      BY <3>2 DEF Claim
    <3> QED
      BY Zenon, <1>1, <3>1, <3>2, ClaimsFrame, ClaimsStay
  <2>2. \A x \in Ids : latest'[x] = IF x = i THEN inc ELSE latest[x]
    BY <1>1, <1>5 DEF Puts
  <2>3. inc \notin born /\ born' = born \cup {inc} /\ inc # NoInc
    BY <1>5, NoIncAssumption DEF Puts, Creates
  <2>4. \A x \in Ids : entries'[x].incarnation = IF x = i THEN inc ELSE entries[x].incarnation
    BY <1>5 DEF Puts, Creates
  <2>5. ASSUME NEW id \in Ids
        PROVE  /\ latest'[id] \in born' \cup {NoInc}
               /\ entries'[id].incarnation \in {NoInc, latest'[id]}
               /\ \A x \in Ids : latest'[id] = latest'[x] /\ latest'[id] # NoInc => id = x
    BY <2>2, <2>3, <2>4 DEF LatestIsOwn
  <2>6. ASSUME NEW id \in Ids, NEW n \in 1..Len(claims),
               latest'[id] = claims[n].incarnation
        PROVE  claims[n].id = id
    BY <1>3, <2>2, <2>3, <2>6 DEF LatestIsOwn
  <2> QED
    BY <2>1, <2>5, <2>6 DEF LatestIsOwn
<1> QED
  BY <1>4, <1>5, LatestFrame

\* A lifetime gets its success line from the journal in the step "append".
LEMMA NewlyRecorded ==
  ASSUME Inv, [Next]_vars, NEW inc, Recorded(inc)', ~Recorded(inc)
  PROVE  /\ pc = "append"
         /\ \E r \in completion : r.incarnation = inc
<1>1. PICK k \in 1..Len(history') :
        history'[k].incarnation = inc /\ history'[k].outcome = "success"
  BY DEF Recorded
<1>2. ~(k \in 1..Len(history) /\ history'[k] = history[k])
  BY <1>1 DEF Recorded
<1> QED
  BY <1>1, <1>2, SuccessLines

LEMMA StaysRecorded ==
  ASSUME Inv, [Next]_vars, NEW inc \in Incarnations, Recorded(inc)
  PROVE  Recorded(inc)'
  BY HistoryCases DEF RecordsNothing, Records

\* The steps that follow clear_await_deletion keep a marker in its place.
LEMMA MarkerAheadKept ==
  ASSUME Inv, OutboxInv, PostsInv, MarkerInv, [Next]_vars, ~PowerFails,
         NEW id \in Ids, ~Pending(id),
         latest'[id] = latest[id], deletions'[id] = deletions[id]
  PROVE  /\ deletions'[id] \in {NoInc, latest'[id]}
         /\ ~Recorded(latest[id])' => deletions'[id] = latest'[id]
         /\ Recorded(latest[id])' /\ deletions'[id] # NoInc =>
              /\ pc' \notin {"remove", "last_post", "unlink"}
              /\ \E r \in completion' : r.id = id /\ r.incarnation = latest'[id]
<1>1. /\ TypeOK /\ JournalPhase /\ LatestIsOwn /\ MarkerAhead
      /\ latest[id] \in Incarnations \cup {NoInc}
  BY DEF Inv, MarkerInv, TypeOK
<1>2. /\ deletions[id] \in {NoInc, latest[id]}
      /\ ~Recorded(latest[id]) => deletions[id] = latest[id]
  BY <1>1 DEF MarkerAhead
<1>3. ASSUME Recorded(latest[id])', deletions[id] # NoInc
      PROVE  /\ pc \notin {"remove", "last_post", "unlink"}
             /\ \E r \in completion : r.id = id /\ r.incarnation = latest[id]
  <2>1. CASE Recorded(latest[id])
    BY <1>1, <1>3, <2>1 DEF MarkerAhead
  <2>2. CASE ~Recorded(latest[id])
    <3>1. PICK r \in completion : pc = "append" /\ r.incarnation = latest[id]
      BY <1>3, <2>2, NewlyRecorded DEF Recorded
    <3>2. IsClaim(r.claim, r.id, r.incarnation)
      BY DEF Inv, LinesOfAttempt
    <3>3. r.id = id
      BY <1>1, <3>1, <3>2 DEF IsClaim, LatestIsOwn
    <3> QED
      BY <3>1, <3>3
  <2> QED
    BY <2>1, <2>2
<1>4. ASSUME Recorded(latest[id])', deletions[id] # NoInc
      PROVE  pc' \notin {"remove", "last_post", "unlink"}
  <2>1. pc' # "remove"
    <3>1. SUFFICES ASSUME NEW r \in completion, ClearMarker(r, TRUE)
                   PROVE  FALSE
      BY Zenon, <1>3, <1>4, ReachesRemove
    <3>2. r.id = id /\ r.incarnation = latest[id]
      BY <1>1, <1>3, <1>4 DEF JournalPhase
    <3>3. deletions[id] = latest[id]
      BY <1>2, <1>4
    <3>4. ClearAwaitDeletion(r.id, r.incarnation)
      BY <3>1 DEF ClearMarker
    <3>5. deletions'[id] = NoInc
      BY <1>1, <3>2, <3>3, <3>4 DEF ClearAwaitDeletion, TypeOK, StoreTypeOK
    <3> QED
      BY <1>4, <3>5
  <2>2. pc' \notin {"last_post", "unlink"}
    BY <1>3, <1>4, LateSteps DEF RemoveCompleted, WriteLastPost, Step
  <2> QED
    BY <2>1, <2>2
<1>5. ASSUME Recorded(latest[id])', deletions[id] # NoInc
      PROVE  \E r \in completion' : r.id = id /\ r.incarnation = latest[id]
  BY <1>3, <1>5, JournalStays
<1>6. ~Recorded(latest[id])' => deletions[id] = latest[id]
  <2>1. CASE latest[id] = NoInc
    BY <1>2, <2>1
  <2>2. CASE latest[id] \in Incarnations /\ Recorded(latest[id])
    <3>1. Recorded(latest[id])'
      BY <2>2, StaysRecorded DEF Recorded
    <3> QED
      BY <3>1
  <2> QED
    BY <1>1, <1>2, <2>1, <2>2
<1> QED
  BY <1>2, <1>4, <1>5, <1>6

LEMMA MarkerAheadStep ==
  ASSUME Inv, OutboxInv, PostsInv, MarkerInv, [Next]_vars, ~PowerFails
  PROVE  MarkerAhead'
<1>1. /\ TypeOK /\ JournalPhase /\ LatestIsOwn /\ MarkerAhead /\ MarkerCleared
      /\ latest \in [Ids -> Incarnations \cup {NoInc}]
      /\ deletions \in [Ids -> Incarnations \cup {NoInc}]
      /\ \A r \in completion : r.id \in Ids /\ r.incarnation \in Incarnations
                               /\ r.incarnation # NoInc /\ r.claim # NoToken
  <2>1. TypeOK /\ JournalPhase /\ LatestIsOwn /\ MarkerAhead /\ MarkerCleared
    BY DEF Inv, MarkerInv
  <2>2. /\ latest \in [Ids -> Incarnations \cup {NoInc}]
        /\ deletions \in [Ids -> Incarnations \cup {NoInc}]
    BY <2>1 DEF TypeOK, StoreTypeOK
  <2>3. ASSUME NEW r \in completion
        PROVE  /\ r.id \in Ids /\ r.incarnation \in Incarnations
               /\ r.incarnation # NoInc /\ r.claim # NoToken
    <3>1. IsClaim(r.claim, r.id, r.incarnation)
      BY DEF Inv, LinesOfAttempt
    <3>2. r \in CompletionRecord
      BY <2>1 DEF TypeOK, StoreTypeOK
    <3>3. r.claim # NoToken
      BY <3>1 DEF IsClaim, NoToken
    <3> QED
      BY <3>2, <3>3, NoIncAssumption DEF CompletionRecord
  <2> QED
    BY <2>1, <2>2, <2>3
<1> SUFFICES ASSUME NEW id \in Ids, entries'[id].incarnation = NoInc
             PROVE  /\ deletions'[id] \in {NoInc, latest'[id]}
                    /\ ~Recorded(latest[id])' => deletions'[id] = latest'[id]
                    /\ Recorded(latest[id])' /\ deletions'[id] # NoInc =>
                         /\ pc' \notin {"remove", "last_post", "unlink"}
                         /\ \E r \in completion' : r.id = id /\ r.incarnation = latest'[id]
  BY DEF MarkerAhead, Pending
<1>2. CASE ~Pending(id) /\ latest'[id] = latest[id] /\ deletions'[id] = deletions[id]
  BY <1>2, MarkerAheadKept
<1>3. ASSUME Deletes(id), TakesAway(id)
      PROVE  /\ deletions'[id] = latest[id] /\ latest' = latest
             /\ Recorded(latest[id])' =>
                  /\ pc' \notin {"remove", "last_post", "unlink"}
                  /\ \E r \in completion' : r.id = id /\ r.incarnation = latest[id]
  <2>1. /\ pc' = pc /\ Serving /\ latest' = latest /\ Pending(id)
        /\ deletions'[id] = entries[id].incarnation
    BY <1>1, <1>3 DEF Deletes
  <2>2. entries[id].incarnation = latest[id]
    BY <1>1, <2>1 DEF LatestIsOwn, Pending
  <2>3. pc \notin {"append", "remove", "last_post", "unlink"}
    BY <2>1 DEF Serving, UnlockedSteps
  <2>4. ASSUME Recorded(latest[id])'
        PROVE  \E r \in completion' : r.id = id /\ r.incarnation = latest[id]
    <3>1. Recorded(latest[id])
      BY Zenon, <2>1, <2>3, <2>4, NewlyRecorded DEF Recorded
    <3>2. \E r \in completion : r.id = id /\ r.incarnation = latest[id]
      BY <2>1, <2>2, <3>1 DEF PostsInv, RemovalAhead
    <3> QED
      BY <2>3, <3>2, JournalStays
  <2> QED
    BY <2>1, <2>2, <2>3, <2>4
<1>4. ASSUME NEW r \in completion, r.id = id, latest' = latest, deletions'[id] = NoInc,
             latest[id] = r.incarnation, pc \in {"clear", "remove"}
      PROVE  Recorded(latest[id])'
  <2>1. Recorded(r.incarnation)
    BY <1>1, <1>4 DEF JournalPhase
  <2>2. Recorded(r.incarnation)'
    BY <1>1, <2>1, StaysRecorded
  <2> QED
    BY <1>4, <2>2 DEF Recorded
<1>5. ASSUME NEW r \in completion, Clears(r), r.id = id, deletions'[id] # deletions[id]
      PROVE  latest' = latest /\ deletions'[id] = NoInc /\ latest[id] = r.incarnation
  <2>1. ~Pending(id) /\ latest' = latest /\ ClearAwaitDeletion(r.id, r.incarnation)
    BY <1>5 DEF Clears, SameEntries, Pending
  <2>2. deletions[id] = r.incarnation /\ deletions'[id] = NoInc
    BY <1>1, <1>5, <2>1 DEF ClearAwaitDeletion, Pending
  <2> QED
    BY <1>1, <2>1, <2>2 DEF MarkerAhead
<1>6. ASSUME NEW r \in completion, Removes(r), r.id = id
      PROVE  latest' = latest /\ deletions'[id] = NoInc /\ latest[id] = r.incarnation
  <2>1. /\ pc = "remove" /\ entries[id].claim = r.claim /\ Pending(id)
        /\ deletions' = deletions /\ latest' = latest
    BY <1>6 DEF Removes, TakesAway, Pending
  <2>2. IsClaim(r.claim, r.id, r.incarnation)
    BY DEF Inv, LinesOfAttempt
  <2>3. IsClaim(r.claim, id, entries[id].incarnation)
    BY Zenon, <1>1, <2>1 DEF Inv, TokensNameLifetimes
  <2>4. entries[id].incarnation = r.incarnation
    BY <2>2, <2>3 DEF IsClaim
  <2> QED
    BY <1>1, <1>6, <2>1, <2>4 DEF MarkerCleared, LatestIsOwn, Pending
<1>7. MarkerStep
  BY MarkerFrame
<1>8. CASE Quiet \/ Sweeps
  BY <1>2, <1>8 DEF Quiet, Sweeps, SameEntries, Pending
<1>9. ASSUME NEW i \in Ids, NEW inc \in Incarnations, Puts(i, inc)
      PROVE  ~Pending(id) /\ latest'[id] = latest[id] /\ deletions'[id] = deletions[id]
  BY <1>1, <1>9, NoIncAssumption DEF Puts, Creates, Pending
<1>10. ASSUME NEW i \in Ids, Deletes(i)
       PROVE  \/ ~Pending(id) /\ latest'[id] = latest[id] /\ deletions'[id] = deletions[id]
              \/ i = id /\ TakesAway(id)
  BY <1>1, <1>10 DEF Deletes, SameEntries, TakesAway, Pending
<1>11. ASSUME NEW r \in completion, Clears(r)
       PROVE  \/ ~Pending(id) /\ latest'[id] = latest[id] /\ deletions'[id] = deletions[id]
              \/ r.id = id /\ deletions'[id] # deletions[id]
  BY <1>1, <1>11 DEF Clears, ClearAwaitDeletion, SameEntries, Pending
<1>12. ASSUME NEW r \in completion, Removes(r)
       PROVE  \/ ~Pending(id) /\ latest'[id] = latest[id] /\ deletions'[id] = deletions[id]
              \/ r.id = id
  BY <1>1, <1>12 DEF Removes, TakesAway, Pending
<1>13. CASE \E i \in Ids : Deletes(i)
  BY <1>2, <1>3, <1>10, <1>13
<1>14. CASE \E r \in completion : Clears(r)
  BY Zenon, <1>2, <1>4, <1>5, <1>11, <1>14 DEF Clears
<1>15. CASE \E r \in completion : Removes(r)
  BY Zenon, <1>2, <1>4, <1>6, <1>12, <1>15 DEF Removes
<1> QED
  BY Zenon, <1>2, <1>7, <1>8, <1>9, <1>13, <1>14, <1>15 DEF MarkerStep

LEMMA MarkerClearedStep ==
  ASSUME Inv, MarkerInv, [Next]_vars, ~PowerFails
  PROVE  MarkerCleared'
<1>1. /\ TypeOK /\ JournalPhase /\ MarkerCleared
      /\ deletions \in [Ids -> Incarnations \cup {NoInc}]
      /\ \A r \in completion : r.id \in Ids /\ r.incarnation \in Incarnations
  BY DEF Inv, MarkerInv, TypeOK, StoreTypeOK, CompletionRecord
<1> SUFFICES ASSUME pc' = "remove", NEW r \in completion'
             PROVE  /\ deletions'[r.id] # r.incarnation
                    /\ entries'[r.id].incarnation = r.incarnation => deletions'[r.id] = NoInc
  BY DEF MarkerCleared
<1>2. CASE pc = "remove"
  <2>1. r \in completion /\ r.id \in Ids /\ r.incarnation # NoInc
    BY <1>1, <1>2, JournalFrame, NoIncAssumption
  <2>2. ~Serving /\ MarkerStep
    BY <1>2, MarkerFrame DEF Serving, UnlockedSteps
  <2>3. /\ deletions'[r.id] = deletions[r.id]
        /\ entries'[r.id].incarnation \in {entries[r.id].incarnation, NoInc}
    BY Zenon, <1>2, <2>1, <2>2 DEF MarkerStep, Quiet, SameEntries, Puts, Deletes, Clears, Removes,
       TakesAway, Sweeps
  <2> QED
    BY <1>1, <1>2, <2>1, <2>3 DEF MarkerCleared
<1>3. CASE pc # "remove"
  <2>1. PICK s \in completion : ClearMarker(s, TRUE)
    BY Zenon, <1>3, ReachesRemove
  <2>2. /\ completion' = completion /\ entries' = entries
        /\ ClearAwaitDeletion(s.id, s.incarnation)
    BY <2>1 DEF ClearMarker
  <2>3. s = r /\ r.id \in Ids /\ r.incarnation # NoInc
    BY <1>1, <2>2, NoIncAssumption DEF JournalPhase
  <2> QED
    BY <1>1, <2>2, <2>3 DEF ClearAwaitDeletion
<1> QED
  BY <1>2, <1>3

LEMMA MarkerInvInit ==
  ASSUME Init
  PROVE  MarkerInv
  BY DEF Init, StoreInit, AllSynced, NoEntry, MarkerInv, LatestIsOwn, MarkerAhead,
     MarkerCleared, Pending, Recorded

LEMMA MarkerInvStep ==
  ASSUME Inv, OutboxInv, PostsInv, MarkerInv, [Next]_vars, ~PowerFails
  PROVE  MarkerInv'
<1>1. LatestIsOwn
  BY DEF MarkerInv
<1> QED
  BY <1>1, LatestIsOwnStep, MarkerAheadStep, MarkerClearedStep DEF MarkerInv

LEMMA MarkerInvHolds ==
  ASSUME ~PowerFails
  PROVE  Spec => [](Inv /\ MarkerInv)
<1>1. Inv /\ OutboxInv /\ PostsInv /\ MarkerInv /\ [Next]_vars => MarkerInv'
  BY MarkerInvStep
<1> QED
  BY <1>1, MarkerInvInit, OutboxInvHolds, PostsInvHolds, PTL DEF Spec

-----------------------------------------------------------------------------

\* Without a journal, an identifier that has left the queue has a deletion
\* marker exactly when its newest lifetime was not posted, so await tells
\* "removed" and "posted" apart.
THEOREM MarkersAgree ==
  ASSUME ~PowerFails
  PROVE  Spec => []MarkerMatchesLatest
<1>1. Inv /\ MarkerInv => MarkerMatchesLatest
  BY Zenon DEF MarkerInv, MarkerAhead, MarkerMatchesLatest
<1> QED
  BY <1>1, MarkerInvHolds, PTL
=============================================================================
