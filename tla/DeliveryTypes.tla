--------------------------- MODULE DeliveryTypes ----------------------------
(***************************************************************************)
(* Proofs about Delivery, first part: what a step may do to the history, to*)
(* the claims and to an entry file; the truth of the history, the type     *)
(* invariant, that claim tokens name lifetimes, and that no acknowledged   *)
(* comment is lost.                                                        *)
(***************************************************************************)
EXTENDS Delivery, TLAPS

-----------------------------------------------------------------------------
(* What a step may do to the history.                                      *)

\* Append keeps the old elements and adds one at the end.
LEMMA AppendFacts ==
  ASSUME NEW S, NEW s \in Seq(S), NEW x \in S
  PROVE  /\ Append(s, x) \in Seq(S)
         /\ Len(s) \in Nat
         /\ Len(Append(s, x)) = Len(s) + 1
         /\ \A k \in 1..Len(s) : Append(s, x)[k] = s[k]
         /\ Append(s, x)[Len(s) + 1] = x
  OBVIOUS

\* What the worker holds while it attempts a post, and what the journal holds,
\* has the type of a history line.
LEMMA LineTypes ==
  ASSUME TypeOK, TokensNameLifetimes
  PROVE  /\ Attempting => /\ cur.id \in Ids
                          /\ cur.incarnation \in Incarnations
                          /\ cur.claim \in Nat
         /\ \A r \in completion : r.id \in Ids /\ r.incarnation \in Incarnations
                                    /\ r.claim \in Nat
  BY DEF TypeOK, StoreTypeOK, CompletionRecord, TokensNameLifetimes, IsClaim, Attempting

\* record_failure adds at most one line, of the current attempt and no success.
LEMMA RecordFailureAppends ==
  ASSUME TypeOK, TokensNameLifetimes, NEW ok \in BOOLEAN, RecordFailure(ok),
         history' # history
  PROVE  \E x \in HistoryRecord :
           /\ history' = Append(history, x)
           /\ x.id = cur.id /\ x.incarnation = cur.incarnation
           /\ x.attempt = cur.claim /\ x.outcome # "success"
<1>1. cur.id \in Ids /\ cur.incarnation \in Incarnations /\ cur.claim \in Nat
  BY LineTypes DEF RecordFailure, Goto, Attempting
<1>2. PICK o \in {"torn", "failure"} :
        history' = Append(history, Line(cur.id, cur.incarnation, cur.claim, o))
  BY DEF RecordFailure, AppendFails
<1>3. Line(cur.id, cur.incarnation, cur.claim, o) \in HistoryRecord
  BY <1>1 DEF Line, HistoryRecord
<1> QED
  BY <1>2, <1>3 DEF Line

\* append_once adds at most one line, of the journal's attempt, and a success
\* only when no readable line of that attempt is past the journal's offset.
LEMMA CompletionAppends ==
  ASSUME TypeOK, TokensNameLifetimes, NEW r \in completion, NEW ok \in BOOLEAN,
         AppendCompletionHistory(r, ok), history' # history
  PROVE  \E x \in HistoryRecord :
           /\ history' = Append(history, x)
           /\ x.id = r.id /\ x.incarnation = r.incarnation
           /\ x.attempt = r.claim /\ x.outcome # "failure"
           /\ ok => x.outcome = "success"
           /\ ~ContainsAttempt(r.claim, r.offset)
<1>1. r.id \in Ids /\ r.incarnation \in Incarnations /\ r.claim \in Nat
  BY LineTypes
<1>2. PICK o \in {"torn", "success"} :
        /\ history' = Append(history, Line(r.id, r.incarnation, r.claim, o))
        /\ ok => o = "success"
        /\ ~ContainsAttempt(r.claim, r.offset)
  BY DEF AppendCompletionHistory, AppendFails, AppendOnce
<1>3. Line(r.id, r.incarnation, r.claim, o) \in HistoryRecord
  BY <1>1 DEF Line, HistoryRecord
<1> QED
  BY <1>2, <1>3 DEF Line

\* Every other step leaves the history alone.
LEMMA HistoryFrame ==
  ASSUME [Next]_vars, history' # history
  PROVE  \E ok \in BOOLEAN :
           RecordFailure(ok) \/ \E r \in completion : AppendCompletionHistory(r, ok)
<1>1. CASE ClientStep
  BY Zenon, <1>1 DEF ClientStep, Put, Reorder, Del, DelFails
<1>2. ASSUME NEW ok \in BOOLEAN, WorkerStep(ok)
      PROVE  RecordFailure(ok) \/ \E r \in completion : AppendCompletionHistory(r, ok)
  BY Zenon, <1>2 DEF WorkerStep, Claim, ReleaseClaim, ClearClaim, WriteCompletion,
     ReconcileCompletion, ClearMarker, RemoveCompleted, WriteLastPost,
     RemoveCompletion, ReclaimClaims, ReconcileAwaitDeletions
<1>3. CASE LocalStep
  BY <1>3 DEF LocalStep, PostOk, NothingToRelease, Cooled, Open, RecoverWorkerState,
     Respawn, files
<1>4. CASE PostErr \/ ReadFails \/ (\E n \in 1..Len(claims) : Accept(n)) \/ Crash
           \/ \E S \in SUBSET Ids : PowerLoss(S)
  BY <1>4 DEF PostErr, ReadFails, Accept, Crash, PowerLoss, files
<1>5. CASE UNCHANGED vars
  BY <1>5 DEF vars, files
<1> QED
  BY <1>1, <1>2, <1>3, <1>4, <1>5 DEF Next

\* The history only grows.
LEMMA HistoryGrows ==
  ASSUME TypeOK, TokensNameLifetimes, [Next]_vars, history' # history
  PROVE  \E x \in HistoryRecord : history' = Append(history, x)
  BY HistoryFrame, RecordFailureAppends, CompletionAppends

\* A recorded success stays recorded.
LEMMA RecordedStays ==
  ASSUME TypeOK, TokensNameLifetimes, [Next]_vars, NEW inc, Recorded(inc)
  PROVE  Recorded(inc)'
<1>1. CASE history' = history
  BY <1>1 DEF Recorded
<1>2. CASE history' # history
  <2>1. PICK x \in HistoryRecord : history' = Append(history, x)
    BY <1>2, HistoryGrows
  <2>2. PICK k \in 1..Len(history) :
          history[k].incarnation = inc /\ history[k].outcome = "success"
    BY DEF Recorded
  <2>3. k \in 1..Len(history)' /\ history'[k] = history[k]
    BY <2>1, AppendFacts DEF TypeOK, StoreTypeOK
  <2> QED
    BY <2>2, <2>3 DEF Recorded
<1> QED
  BY <1>1, <1>2
-----------------------------------------------------------------------------
(* What a step may do to the record of claims and of accepted comments.    *)

\* Only claim_next_due makes a claim, and it adds one at the end.
LEMMA ClaimsFrame ==
  ASSUME TypeOK, [Next]_vars, claims' # claims
  PROVE  \E id \in Ids, ok \in BOOLEAN :
           /\ Claim(id, ok)
           /\ [id |-> id, incarnation |-> entries[id].incarnation]
                \in [id : Ids, incarnation : Incarnations]
           /\ claims' = Append(claims, [id |-> id, incarnation |-> entries[id].incarnation])
<1>1. CASE ClientStep
  BY Zenon, <1>1 DEF ClientStep, Put, Reorder, Del, DelFails, ghosts
<1>2. ASSUME NEW ok \in BOOLEAN, WorkerStep(ok)
      PROVE  \E id \in Ids : Claim(id, ok)
  BY <1>2 DEF WorkerStep, RecordFailure, ReleaseClaim, ClearClaim, WriteCompletion,
     ReconcileCompletion, AppendCompletionHistory, ClearMarker, RemoveCompleted,
     WriteLastPost, RemoveCompletion, ReclaimClaims, ReconcileAwaitDeletions, ghosts
<1>3. CASE LocalStep
  BY <1>3 DEF LocalStep, PostOk, NothingToRelease, Cooled, Open, RecoverWorkerState,
     Respawn, ghosts
<1>4. CASE PostErr \/ ReadFails \/ (\E n \in 1..Len(claims) : Accept(n)) \/ Crash
           \/ \E S \in SUBSET Ids : PowerLoss(S)
  BY <1>4 DEF PostErr, ReadFails, Accept, Crash, PowerLoss, ghosts
<1>5. CASE UNCHANGED vars
  BY <1>5 DEF vars, ghosts
<1>6. PICK id \in Ids, ok \in BOOLEAN : Claim(id, ok)
  BY Zenon, <1>1, <1>2, <1>3, <1>4, <1>5 DEF Next
<1>7. entries[id].incarnation \in Incarnations
  BY <1>6 DEF Claim, Pending, TypeOK, StoreTypeOK, Entry
<1>8. claims' = Append(claims, [id |-> id, incarnation |-> entries[id].incarnation])
  BY <1>6 DEF Claim
<1> QED
  BY <1>6, <1>7, <1>8

\* A claim, once made, keeps its number and its lifetime.
LEMMA IsClaimStays ==
  ASSUME TypeOK, [Next]_vars, NEW n, NEW id, NEW inc, IsClaim(n, id, inc)
  PROVE  IsClaim(n, id, inc)'
<1>1. CASE claims' = claims
  BY <1>1 DEF IsClaim
<1>2. CASE claims' # claims
  <2>1. PICK x \in [id : Ids, incarnation : Incarnations] : claims' = Append(claims, x)
    BY Zenon, <1>2, ClaimsFrame
  <2> QED
    BY <2>1, AppendFacts DEF IsClaim, TypeOK
<1> QED
  BY <1>1, <1>2

\* GitHub does not take a created comment back.
LEMMA AcceptedStays ==
  ASSUME [Next]_vars
  PROVE  accepted \subseteq accepted'
<1>1. CASE ClientStep
  BY Zenon, <1>1 DEF ClientStep, Put, Reorder, Del, DelFails, ghosts
<1>2. ASSUME NEW ok \in BOOLEAN, WorkerStep(ok)
      PROVE  accepted' = accepted
  BY Zenon, <1>2 DEF WorkerStep, Claim, RecordFailure, ReleaseClaim, ClearClaim,
     WriteCompletion, ReconcileCompletion, AppendCompletionHistory, ClearMarker,
     RemoveCompleted, WriteLastPost, RemoveCompletion, ReclaimClaims,
     ReconcileAwaitDeletions, ghosts
<1>3. CASE LocalStep
  BY <1>3 DEF LocalStep, PostOk, NothingToRelease, Cooled, Open, RecoverWorkerState,
     Respawn, ghosts
<1>4. CASE PostErr \/ ReadFails \/ (\E n \in 1..Len(claims) : Accept(n)) \/ Crash
           \/ \E S \in SUBSET Ids : PowerLoss(S)
  BY <1>4 DEF PostErr, ReadFails, Accept, Crash, PowerLoss, ghosts
<1>5. CASE UNCHANGED vars
  BY <1>5 DEF vars, ghosts
<1> QED
  BY <1>1, <1>2, <1>3, <1>4, <1>5 DEF Next

-----------------------------------------------------------------------------
(* The parts of Inv that only the history can disturb.                     *)

\* RecordedIsReal: a new success line is the journal's, and a journal is only
\* written for an accepted attempt.
LEMMA RecordedIsRealStep ==
  ASSUME Inv, [Next]_vars
  PROVE  RecordedIsReal'
<1>1. SUFFICES ASSUME NEW k \in 1..Len(history)', history'[k].outcome = "success"
               PROVE  /\ history'[k].attempt \in accepted
                      /\ IsClaim(history'[k].attempt, history'[k].id,
                                 history'[k].incarnation)
  BY AcceptedStays, IsClaimStays DEF Inv, RecordedIsReal, IsClaim
<1>2. ASSUME k \in 1..Len(history), history'[k] = history[k]
      PROVE  /\ history'[k].attempt \in accepted
             /\ IsClaim(history'[k].attempt, history'[k].id, history'[k].incarnation)
  BY Zenon, <1>1, <1>2 DEF Inv, RecordedIsReal, TokensNameLifetimes
<1>3. CASE history' = history
  BY <1>2, <1>3
<1>4. CASE \E ok \in BOOLEAN : RecordFailure(ok) /\ history' # history
  <2>1. PICK x \in HistoryRecord : history' = Append(history, x) /\ x.outcome # "success"
    BY <1>4, RecordFailureAppends DEF Inv
  <2>2. k \in 1..Len(history) /\ history'[k] = history[k]
    BY <1>1, <2>1, AppendFacts DEF Inv, TypeOK, StoreTypeOK
  <2> QED
    BY <1>2, <2>2
<1>5. CASE \E ok \in BOOLEAN, r \in completion :
             AppendCompletionHistory(r, ok) /\ history' # history
  <2>1. PICK ok \in BOOLEAN, r \in completion :
               AppendCompletionHistory(r, ok) /\ history' # history
    BY <1>5
  <2>2. PICK x \in HistoryRecord :
          /\ history' = Append(history, x)
          /\ x.id = r.id /\ x.incarnation = r.incarnation /\ x.attempt = r.claim
    BY <2>1, CompletionAppends DEF Inv
  <2>3. CASE k \in 1..Len(history)
    BY <1>2, <2>2, <2>3, AppendFacts DEF Inv, TypeOK, StoreTypeOK
  <2>4. CASE k \notin 1..Len(history)
    <3>1. history'[k] = x
      BY <2>2, <2>4, AppendFacts DEF Inv, TypeOK, StoreTypeOK
    <3> QED
      BY <2>2, <3>1 DEF Inv, PostedIsAccepted, LinesOfAttempt
  <2> QED
    BY <2>3, <2>4
<1> QED
  BY <1>3, <1>4, <1>5, HistoryFrame

\* RecordedOnce: append_once looks from the journal's offset on, and whatever
\* line of the attempt there is lies past it.
LEMMA RecordedOnceStep ==
  ASSUME Inv, [Next]_vars
  PROVE  RecordedOnce'
<1>1. CASE history' = history
  BY <1>1 DEF Inv, RecordedOnce
<1>2. CASE \E ok \in BOOLEAN : RecordFailure(ok) /\ history' # history
  <2>1. PICK x \in HistoryRecord : history' = Append(history, x) /\ x.outcome # "success"
    BY <1>2, RecordFailureAppends DEF Inv
  <2>2. \A k \in 1..Len(history)' : history'[k].outcome = "success" =>
          k \in 1..Len(history) /\ history'[k] = history[k]
    BY <2>1, AppendFacts DEF Inv, TypeOK, StoreTypeOK
  <2> QED
    BY <2>2 DEF Inv, RecordedOnce
<1>3. CASE \E ok \in BOOLEAN, r \in completion :
             AppendCompletionHistory(r, ok) /\ history' # history
  <2>1. PICK ok \in BOOLEAN, r \in completion :
               AppendCompletionHistory(r, ok) /\ history' # history
    BY <1>3
  <2>2. PICK x \in HistoryRecord :
          /\ history' = Append(history, x)
          /\ x.attempt = r.claim
          /\ ~ContainsAttempt(r.claim, r.offset)
    BY <2>1, CompletionAppends DEF Inv
  <2>3. \A k \in 1..Len(history) :
          history[k].outcome = "success" => history[k].attempt # x.attempt
    BY <2>2 DEF ContainsAttempt, Inv, LinesOfAttempt
  <2>4. /\ Len(history)' = Len(history) + 1 /\ Len(history) \in Nat
        /\ history'[Len(history) + 1] = x
        /\ \A k \in 1..Len(history) : history'[k] = history[k]
    BY <2>2, AppendFacts DEF Inv, TypeOK, StoreTypeOK
  <2> QED
    BY <2>3, <2>4 DEF Inv, RecordedOnce
<1> QED
  BY <1>1, <1>2, <1>3, HistoryFrame

-----------------------------------------------------------------------------
(* The types.                                                              *)

\* Changing an entry's claim leaves its lifetime alone.
LEMMA ClaimFieldFacts ==
  ASSUME NEW e \in Entry, NEW n \in Nat
  PROVE  /\ [e EXCEPT !.claim = n] \in Entry
         /\ [e EXCEPT !.claim = n].incarnation = e.incarnation
         /\ [e EXCEPT !.claim = n].claim = n
  BY DEF Entry

\* The history and the claims stay sequences of their records.
LEMMA SequencesTypeStep ==
  ASSUME TypeOK, TokensNameLifetimes, [Next]_vars
  PROVE  /\ history' \in Seq(HistoryRecord)
         /\ claims' \in Seq([id : Ids, incarnation : Incarnations])
<1>1. history' \in Seq(HistoryRecord)
  <2>1. CASE history' = history
    BY <2>1 DEF TypeOK, StoreTypeOK
  <2>2. CASE history' # history
    <3>1. PICK x \in HistoryRecord : history' = Append(history, x)
      BY <2>2, HistoryGrows
    <3> QED
      BY <3>1, AppendFacts DEF TypeOK, StoreTypeOK
  <2> QED
    BY <2>1, <2>2
<1>2. claims' \in Seq([id : Ids, incarnation : Incarnations])
  <2>1. CASE claims' = claims
    BY <2>1 DEF TypeOK
  <2>2. CASE claims' # claims
    <3>1. PICK x \in [id : Ids, incarnation : Incarnations] : claims' = Append(claims, x)
      BY Zenon, <2>2, ClaimsFrame
    <3> QED
      BY <3>1, AppendFacts DEF TypeOK
  <2> QED
    BY <2>1, <2>2
<1> QED
  BY <1>1, <1>2

\* Every file but the history keeps its type.
LEMMA FilesTypeStep ==
  ASSUME TypeOK, TokensNameLifetimes, [Next]_vars
  PROVE  /\ entries' \in [Ids -> Entry]
         /\ unsynced' \in [Ids -> Entry]
         /\ deletions' \in [Ids -> Incarnations \cup {NoInc}]
         /\ lastPost' \in Nat
         /\ lastAttempt' \in Nat
         /\ completion' \subseteq CompletionRecord
<1> DEFINE Files ==
      /\ entries \in [Ids -> Entry]
      /\ unsynced \in [Ids -> Entry]
      /\ deletions \in [Ids -> Incarnations \cup {NoInc}]
      /\ lastPost \in Nat
      /\ lastAttempt \in Nat
      /\ completion \subseteq CompletionRecord
<1> SUFFICES Files'
  OBVIOUS
<1>1. Files /\ Len(claims) \in Nat /\ Len(history) \in Nat
  BY DEF TypeOK, StoreTypeOK
<1>2. NoEntry \in Entry /\ AllSynced \in [Ids -> Entry]
  BY DEF NoEntry, Entry, NoToken, AllSynced
<1>3. ASSUME NEW id \in Ids
      PROVE  /\ \A e \in Entry : WriteEntry(id, e) =>
                  entries' \in [Ids -> Entry] /\ unsynced' \in [Ids -> Entry]
             /\ RemoveEntry(id) =>
                  entries' \in [Ids -> Entry] /\ unsynced' \in [Ids -> Entry]
             /\ WriteAwaitDeletion(id) => deletions' \in [Ids -> Incarnations \cup {NoInc}]
  BY Zenon, <1>1, <1>2 DEF WriteEntry, RemoveEntry, WriteAwaitDeletion, Entry
<1>4. ASSUME NEW id \in Ids, NEW n \in Nat
      PROVE  [entries[id] EXCEPT !.claim = n] \in Entry
  BY <1>1, ClaimFieldFacts
<1>5. ASSUME NEW id \in Ids, NEW inc \in Incarnations, NEW ok \in BOOLEAN,
             Put(id, inc, ok)
      PROVE  Files'
  <2>1. [incarnation |-> inc, claim |-> NoToken] \in Entry
    BY DEF Entry, NoToken
  <2> QED
    BY <1>1, <1>3, <1>5, <2>1 DEF Put
<1>6. ASSUME NEW id \in Ids, Reorder(id) \/ Del(id) \/ DelFails(id)
      PROVE  Files'
  <2>1. entries[id] \in Entry
    BY <1>1
  <2> QED
    BY <1>1, <1>3, <1>6, <2>1 DEF Reorder, Del, DelFails
<1>7. ASSUME NEW id \in Ids, NEW ok \in BOOLEAN, Claim(id, ok)
      PROVE  Files'
  <2>1. [entries[id] EXCEPT !.claim = Len(claims) + 1] \in Entry
    BY <1>1, <1>4
  <2> QED
    BY <1>1, <1>3, <1>7, <2>1 DEF Claim
<1>8. ASSUME NEW ok \in BOOLEAN, RecordFailure(ok) \/ ReleaseClaim(ok)
      PROVE  Files'
  BY <1>1, <1>8, LineTypes DEF RecordFailure, ReleaseClaim, Later, Attempting, Step, Goto
<1>9. ASSUME NEW ok \in BOOLEAN, ClearClaim(ok)
      PROVE  Files'
  <2>1. cur.id \in Ids
    BY <1>9, LineTypes DEF ClearClaim, Step, Attempting
  <2>2. [entries[cur.id] EXCEPT !.claim = NoToken] \in Entry
    BY <1>4, <2>1 DEF NoToken
  <2> QED
    BY <1>1, <1>3, <1>9, <2>1, <2>2 DEF ClearClaim
<1>10. ASSUME NEW ok \in BOOLEAN, WriteCompletion(ok)
       PROVE  Files'
  <2>1. completion' \subseteq CompletionRecord
    BY <1>1, <1>10, LineTypes DEF WriteCompletion, CompletionRecord, Attempting, Step
  <2> QED
    BY <1>1, <1>10, <2>1 DEF WriteCompletion
<1>11. ASSUME NEW ok \in BOOLEAN, ReconcileCompletion(ok)
       PROVE  Files'
  <2>1. ASSUME NEW r \in completion,
               AppendCompletionHistory(r, ok) \/ ClearMarker(r, ok)
                 \/ RemoveCompleted(r, ok) \/ WriteLastPost(r, ok)
        PROVE  Files'
    <3>1. r.id \in Ids /\ r.claim \in Nat
      BY LineTypes
    <3>2. ClearAwaitDeletion(r.id, r.incarnation) =>
            deletions' \in [Ids -> Incarnations \cup {NoInc}]
      BY Zenon, <1>1 DEF ClearAwaitDeletion
    <3> QED
      BY <1>1, <1>3, <2>1, <3>1, <3>2 DEF AppendCompletionHistory, ClearMarker,
         RemoveCompleted, WriteLastPost
  <2>2. CASE RemoveCompletion(ok)
    BY <1>1, <2>2 DEF RemoveCompletion
  <2> QED
    BY <1>11, <2>1, <2>2 DEF ReconcileCompletion
<1>12. ASSUME NEW ok \in BOOLEAN, NEW S \in SUBSET Ids, ReclaimClaims(S, ok)
       PROVE  Files'
  <2>1. \A id \in Ids : [entries[id] EXCEPT !.claim = NoToken] \in Entry
    BY <1>4 DEF NoToken
  <2> QED
    BY <1>1, <1>2, <1>12, <2>1 DEF ReclaimClaims
<1>13. ASSUME NEW ok \in BOOLEAN, NEW S \in SUBSET Ids, ReconcileAwaitDeletions(S, ok)
       PROVE  Files'
  BY <1>1, <1>13 DEF ReconcileAwaitDeletions
<1>14. CASE LocalStep
  BY <1>1, <1>14 DEF LocalStep, PostOk, NothingToRelease, Cooled, Open,
     RecoverWorkerState, Respawn, files
<1>15. CASE PostErr \/ ReadFails \/ (\E n \in 1..Len(claims) : Accept(n)) \/ Crash
  BY <1>1, <1>15 DEF PostErr, ReadFails, Accept, Crash, files
<1>16. ASSUME NEW S \in SUBSET Ids, PowerLoss(S)
       PROVE  Files'
  BY <1>1, <1>2, <1>16 DEF PowerLoss
<1>17. CASE UNCHANGED vars
  BY <1>1, <1>17 DEF vars, files
<1> HIDE DEF Files
<1>18. CASE ClientStep
  BY <1>5, <1>6, <1>18 DEF ClientStep
<1>19. ASSUME NEW ok \in BOOLEAN, WorkerStep(ok)
       PROVE  Files'
  BY <1>7, <1>8, <1>9, <1>10, <1>11, <1>12, <1>13, <1>19 DEF WorkerStep
<1> QED
  BY <1>14, <1>15, <1>16, <1>17, <1>18, <1>19 DEF Next

\* The worker's state and the record of what happened keep their types.
LEMMA TasksTypeStep ==
  ASSUME TypeOK, TokensNameLifetimes, [Next]_vars
  PROVE  /\ pc' \in Steps
         /\ caller' \in {"open", "recover", "complete"}
         /\ cur' \in [id : Ids \cup {NoId}, incarnation : Incarnations \cup {NoInc},
                      claim : Nat]
         /\ faults' \in Nat
         /\ accepted' \subseteq Nat
         /\ born' \subseteq Incarnations
         /\ latest' \in [Ids -> Incarnations \cup {NoInc}]
         /\ acked' \subseteq Incarnations
         /\ deleted' \subseteq Incarnations
<1> DEFINE Tasks ==
      /\ pc \in Steps
      /\ caller \in {"open", "recover", "complete"}
      /\ cur \in [id : Ids \cup {NoId}, incarnation : Incarnations \cup {NoInc},
                  claim : Nat]
      /\ faults \in Nat
      /\ accepted \subseteq Nat
      /\ born \subseteq Incarnations
      /\ latest \in [Ids -> Incarnations \cup {NoInc}]
      /\ acked \subseteq Incarnations
      /\ deleted \subseteq Incarnations
<1> SUFFICES Tasks'
  OBVIOUS
<1>1. Tasks /\ Len(claims) \in Nat
  BY DEF TypeOK
<1>2. /\ \A id \in Ids : /\ entries[id].incarnation \in Incarnations \cup {NoInc}
                         /\ Pending(id) => entries[id].incarnation \in Incarnations
      /\ NoCur \in [id : Ids \cup {NoId}, incarnation : Incarnations \cup {NoInc},
                   claim : Nat]
  BY DEF TypeOK, StoreTypeOK, Entry, Pending, NoCur, NoToken
<1> USE DEF Steps, LockedSteps, UnlockedSteps, Goto, Step, Fails, Fault, worker, ghosts
<1>3. CASE ClientStep
  <2>1. ASSUME NEW id \in Ids, NEW inc \in Incarnations, NEW ok \in BOOLEAN,
               Put(id, inc, ok)
        PROVE  Tasks'
    BY <1>1, <2>1 DEF Put
  <2>2. ASSUME NEW id \in Ids, Reorder(id)
        PROVE  Tasks'
    BY <1>1, <2>2 DEF Reorder
  <2>3. ASSUME NEW id \in Ids, Del(id)
        PROVE  Tasks'
    BY <1>1, <1>2, <2>3 DEF Del
  <2>4. ASSUME NEW id \in Ids, DelFails(id)
        PROVE  Tasks'
    BY <1>1, <2>4 DEF DelFails
  <2> HIDE DEF Tasks
  <2> QED
    BY <1>3, <2>1, <2>2, <2>3, <2>4 DEF ClientStep
<1>4. ASSUME NEW ok \in BOOLEAN, NEW id \in Ids, Claim(id, ok)
      PROVE  Tasks'
  <2>1. cur' \in [id : Ids \cup {NoId}, incarnation : Incarnations \cup {NoInc},
                  claim : Nat]
    BY <1>1, <1>2, <1>4 DEF Claim
  <2> QED
    BY <1>1, <1>4, <2>1 DEF Claim
<1>5. ASSUME NEW ok \in BOOLEAN,
             RecordFailure(ok) \/ ReleaseClaim(ok) \/ ClearClaim(ok) \/ WriteCompletion(ok)
      PROVE  Tasks'
  BY <1>1, <1>5 DEF RecordFailure, ReleaseClaim, ClearClaim, WriteCompletion
<1>6. ASSUME NEW ok \in BOOLEAN, ReconcileCompletion(ok)
      PROVE  Tasks'
  <2>1. CASE RemoveCompletion(ok)
    BY <1>1, <1>2, <2>1 DEF RemoveCompletion
  <2>2. ASSUME NEW r \in completion, AppendCompletionHistory(r, ok)
        PROVE  Tasks'
    BY <1>1, <2>2 DEF AppendCompletionHistory
  <2>3. ASSUME NEW r \in completion, ClearMarker(r, ok)
        PROVE  Tasks'
    BY <1>1, <2>3 DEF ClearMarker
  <2>4. ASSUME NEW r \in completion, RemoveCompleted(r, ok)
        PROVE  Tasks'
    BY <1>1, <2>4 DEF RemoveCompleted
  <2>5. ASSUME NEW r \in completion, WriteLastPost(r, ok)
        PROVE  Tasks'
    BY <1>1, <2>5 DEF WriteLastPost
  <2> HIDE DEF Tasks
  <2> QED
    BY <1>6, <2>1, <2>2, <2>3, <2>4, <2>5 DEF ReconcileCompletion
<1>7. ASSUME NEW ok \in BOOLEAN, NEW S \in SUBSET Ids,
             ReclaimClaims(S, ok) \/ ReconcileAwaitDeletions(S, ok)
      PROVE  Tasks'
  BY <1>1, <1>7 DEF ReclaimClaims, ReconcileAwaitDeletions
<1>8. CASE LocalStep
  BY Zenon, <1>1, <1>2, <1>8 DEF LocalStep, PostOk, NothingToRelease, Cooled, Open,
     FirstRecoveryStep, RecoverWorkerState, Respawn
<1>9. CASE PostErr \/ ReadFails \/ (\E n \in 1..Len(claims) : Accept(n)) \/ Crash
           \/ \E S \in SUBSET Ids : PowerLoss(S)
  <2>1. CASE PostErr
    BY <1>1, <2>1 DEF PostErr
  <2>2. CASE ReadFails
    BY <1>1, <2>2 DEF ReadFails
  <2>3. CASE \E n \in 1..Len(claims) : Accept(n)
    BY <1>1, <2>3 DEF Accept
  <2>4. CASE Crash
    BY <1>1, <1>2, <2>4 DEF Crash
  <2>5. ASSUME NEW S \in SUBSET Ids, PowerLoss(S)
        PROVE  Tasks'
    BY <1>1, <1>2, <2>5 DEF PowerLoss
  <2> HIDE DEF Tasks
  <2> QED
    BY <1>9, <2>1, <2>2, <2>3, <2>4, <2>5
<1>10. CASE UNCHANGED vars
  BY <1>1, <1>10 DEF vars
<1> HIDE DEF Tasks
<1>11. ASSUME NEW ok \in BOOLEAN, WorkerStep(ok)
       PROVE  Tasks'
  BY <1>4, <1>5, <1>6, <1>7, <1>11 DEF WorkerStep
<1> QED
  BY <1>3, <1>8, <1>9, <1>10, <1>11 DEF Next

\* Every variable keeps its type.
LEMMA TypeOKStep ==
  ASSUME TypeOK, TokensNameLifetimes, [Next]_vars
  PROVE  TypeOK'
  BY SequencesTypeStep, FilesTypeStep, TasksTypeStep DEF TypeOK, StoreTypeOK

-----------------------------------------------------------------------------
(* What a step may do to one entry file.                                   *)

Rewritten(x) == entries'[x].incarnation = entries[x].incarnation

\* The ways an entry file changes: it stays; its claim is cleared or taken; a
\* put creates it; a del or a completion removes it; a power loss brings it
\* back.
EntryStep(x) ==
  \/ entries'[x] = entries[x]
  \/ Rewritten(x) /\ entries'[x].claim = NoToken
  \/ Rewritten(x) /\ IsClaim(entries[x].claim, x, entries[x].incarnation)'
  \/ ~Pending(x) /\ entries'[x].claim = NoToken
  \/ entries'[x] = NoEntry /\ entries[x].incarnation \in deleted'
  \/ /\ entries'[x] = NoEntry
     /\ pc = "remove"
     /\ \E r \in completion : r.id = x /\ entries[x].claim = r.claim
  \/ unsynced[x] # NoEntry /\ entries'[x] = unsynced[x]

\* The directory is synced by every write, and a removal leaves it unsynced.
SyncStep(x) ==
  \/ unsynced'[x] = unsynced[x] /\ Rewritten(x)
  \/ unsynced'[x] = NoEntry
  \/ unsynced'[x] = entries[x] /\ entries'[x] = NoEntry

\* A write of one entry file.
LEMMA WriteEntryFacts ==
  ASSUME TypeOK, NEW id \in Ids, NEW e, WriteEntry(id, e), NEW x \in Ids
  PROVE  /\ entries'[x] = IF x = id THEN e ELSE entries[x]
         /\ unsynced'[x] = NoEntry
  BY DEF WriteEntry, AllSynced, TypeOK, StoreTypeOK

\* A removal of one entry file.
LEMMA RemoveEntryFacts ==
  ASSUME TypeOK, NEW id \in Ids, RemoveEntry(id), NEW x \in Ids
  PROVE  /\ entries'[x] = IF x = id THEN NoEntry ELSE entries[x]
         /\ unsynced'[x] = IF x = id THEN entries[x] ELSE unsynced[x]
  BY DEF RemoveEntry, TypeOK, StoreTypeOK

\* Every step changes an entry file in one of those ways.
LEMMA EntryChange ==
  ASSUME TypeOK, TokensNameLifetimes, [Next]_vars, NEW x \in Ids
  PROVE  EntryStep(x) /\ SyncStep(x)
<1> DEFINE Goal == EntryStep(x) /\ SyncStep(x)
<1> SUFFICES Goal
  OBVIOUS
<1>1. ASSUME entries' = entries, unsynced' = unsynced
      PROVE  Goal
  BY <1>1 DEF EntryStep, SyncStep, Rewritten
<1>2. ASSUME NEW id \in Ids, NEW inc \in Incarnations, NEW ok \in BOOLEAN,
             Put(id, inc, ok)
      PROVE  Goal
  <2>1. WriteEntry(id, [incarnation |-> inc, claim |-> NoToken]) /\ ~Pending(id)
    BY <1>2 DEF Put
  <2> QED
    BY <2>1, WriteEntryFacts DEF EntryStep, SyncStep
<1>3. ASSUME NEW id \in Ids, Reorder(id)
      PROVE  Goal
  <2>1. WriteEntry(id, entries[id])
    BY <1>3 DEF Reorder
  <2> QED
    BY <2>1, WriteEntryFacts DEF EntryStep, SyncStep
<1>4. ASSUME NEW id \in Ids, Del(id)
      PROVE  Goal
  <2>1. RemoveEntry(id) /\ entries[id].incarnation \in deleted'
    BY <1>4 DEF Del
  <2> QED
    BY <2>1, RemoveEntryFacts DEF EntryStep, SyncStep, Rewritten
<1>5. ASSUME NEW id \in Ids, DelFails(id)
      PROVE  Goal
  BY <1>1, <1>5 DEF DelFails
<1>6. ASSUME NEW id \in Ids, NEW ok \in BOOLEAN, Claim(id, ok)
      PROVE  Goal
  <2>1. CASE UNCHANGED <<entries, unsynced>>
    BY <1>1, <2>1
  <2>2. CASE ~UNCHANGED <<entries, unsynced>>
    <3> DEFINE n == Len(claims) + 1
               e == [id |-> id, incarnation |-> entries[id].incarnation]
    <3>1. /\ WriteEntry(id, [entries[id] EXCEPT !.claim = n])
          /\ claims' = Append(claims, e)
          /\ Pending(id)
      BY <1>6, <2>2 DEF Claim
    <3>2. entries[id] \in Entry /\ n \in Nat
          /\ claims \in Seq([id : Ids, incarnation : Incarnations])
      BY DEF TypeOK, StoreTypeOK
    <3>3. e \in [id : Ids, incarnation : Incarnations]
      BY <3>1, <3>2 DEF Pending, Entry
    <3>4. n \in 1..Len(claims)' /\ claims'[n] = e
      BY <3>1, <3>2, <3>3, AppendFacts
    <3>5. /\ [entries[id] EXCEPT !.claim = n].incarnation = entries[id].incarnation
          /\ [entries[id] EXCEPT !.claim = n].claim = n
      BY <3>2, ClaimFieldFacts
    <3>6. CASE x = id
      <4>1. /\ entries'[x].incarnation = entries[x].incarnation
            /\ entries'[x].claim = n
            /\ unsynced'[x] = NoEntry
        BY Zenon, <3>1, <3>5, <3>6, WriteEntryFacts
      <4> QED
        BY <3>4, <3>6, <4>1 DEF EntryStep, SyncStep, Rewritten, IsClaim
    <3>7. CASE x # id
      BY <3>1, <3>7, WriteEntryFacts DEF EntryStep, SyncStep
    <3> QED
      BY <3>6, <3>7
  <2> QED
    BY <2>1, <2>2
<1>7. ASSUME NEW ok \in BOOLEAN, ClearClaim(ok)
      PROVE  Goal
  <2>1. cur.id \in Ids
    BY <1>7, LineTypes DEF ClearClaim, Step, Attempting
  <2>2. CASE UNCHANGED <<entries, unsynced>>
    BY <1>1, <2>2
  <2>3. CASE WriteEntry(cur.id, [entries[cur.id] EXCEPT !.claim = NoToken])
    <3>1. /\ [entries[cur.id] EXCEPT !.claim = NoToken].incarnation
               = entries[cur.id].incarnation
          /\ [entries[cur.id] EXCEPT !.claim = NoToken].claim = NoToken
      BY <2>1, ClaimFieldFacts DEF TypeOK, StoreTypeOK, NoToken
    <3>2. /\ entries'[x] = IF x = cur.id THEN [entries[cur.id] EXCEPT !.claim = NoToken]
                                        ELSE entries[x]
          /\ unsynced'[x] = NoEntry
      BY <2>1, <2>3, WriteEntryFacts
    <3>3. CASE x = cur.id
      BY <3>1, <3>2, <3>3 DEF EntryStep, SyncStep, Rewritten
    <3>4. CASE x # cur.id
      BY <3>2, <3>4 DEF EntryStep, SyncStep
    <3> QED
      BY <3>3, <3>4
  <2> QED
    BY <1>7, <2>2, <2>3 DEF ClearClaim
<1>8. ASSUME NEW ok \in BOOLEAN, NEW r \in completion, RemoveCompleted(r, ok)
      PROVE  Goal
  <2>1. CASE UNCHANGED <<entries, unsynced>>
    BY <1>1, <2>1
  <2>2. CASE RemoveEntry(r.id) /\ entries[r.id].claim = r.claim
    <3>1. r.id \in Ids /\ pc = "remove"
      BY <1>8, LineTypes DEF RemoveCompleted, Step
    <3> QED
      BY <2>2, <3>1, RemoveEntryFacts DEF EntryStep, SyncStep, Rewritten
  <2> QED
    BY <1>8, <2>1, <2>2 DEF RemoveCompleted
<1>9. ASSUME NEW ok \in BOOLEAN, NEW S \in SUBSET Ids, ReclaimClaims(S, ok)
      PROVE  Goal
  <2>1. /\ [entries[x] EXCEPT !.claim = NoToken].incarnation = entries[x].incarnation
        /\ [entries[x] EXCEPT !.claim = NoToken].claim = NoToken
    BY ClaimFieldFacts DEF TypeOK, StoreTypeOK, NoToken
  <2>2. entries'[x] = entries[x] \/ entries'[x] = [entries[x] EXCEPT !.claim = NoToken]
    BY <1>9 DEF ReclaimClaims
  <2>3. unsynced'[x] = unsynced[x] \/ unsynced'[x] = NoEntry
    BY <1>9 DEF ReclaimClaims, AllSynced
  <2> QED
    BY Zenon, <2>1, <2>2, <2>3 DEF EntryStep, SyncStep, Rewritten
<1>10. ASSUME NEW S \in SUBSET Ids, PowerLoss(S)
       PROVE  Goal
  BY <1>10 DEF PowerLoss, AllSynced, EntryStep, SyncStep
<1>11. CASE LocalStep
  BY <1>1, <1>11 DEF LocalStep, PostOk, NothingToRelease, Cooled, Open,
     RecoverWorkerState, Respawn, files
<1>12. CASE PostErr \/ ReadFails \/ (\E n \in 1..Len(claims) : Accept(n)) \/ Crash
  BY <1>1, <1>12 DEF PostErr, ReadFails, Accept, Crash, files
<1>13. CASE UNCHANGED vars
  BY <1>1, <1>13 DEF vars, files
<1>14. ASSUME NEW ok \in BOOLEAN, WorkerStep(ok)
       PROVE  Goal
  <2>1. ASSUME RecordFailure(ok) \/ ReleaseClaim(ok) \/ WriteCompletion(ok)
                 \/ RemoveCompletion(ok)
        PROVE  Goal
    BY <1>1, <2>1 DEF RecordFailure, ReleaseClaim, WriteCompletion, RemoveCompletion
  <2>2. ASSUME NEW r \in completion,
               AppendCompletionHistory(r, ok) \/ ClearMarker(r, ok) \/ WriteLastPost(r, ok)
        PROVE  Goal
    BY <1>1, <2>2 DEF AppendCompletionHistory, ClearMarker, WriteLastPost
  <2>3. ASSUME NEW S \in SUBSET Ids, ReconcileAwaitDeletions(S, ok)
        PROVE  Goal
    BY <1>1, <2>3 DEF ReconcileAwaitDeletions
  <2> HIDE DEF Goal
  <2> QED
    BY <1>6, <1>7, <1>8, <1>9, <1>14, <2>1, <2>2, <2>3 DEF WorkerStep, ReconcileCompletion
<1> HIDE DEF Goal
<1>15. CASE ClientStep
  BY <1>2, <1>3, <1>4, <1>5, <1>15 DEF ClientStep
<1> QED
  BY <1>10, <1>11, <1>12, <1>13, <1>14, <1>15 DEF Next

-----------------------------------------------------------------------------
(* What a step may do to the attempt in progress.                          *)

\* An attempt begins with a claim; until it ends, the worker's entry and the
\* journal stay as they are, and it reaches "posted" only when accepted.
AttemptGoesOn ==
  /\ Attempting
  /\ cur' = cur
  /\ completion' = completion
  /\ pc' \in {"posting", "posted", "post_failed"} =>
       pc \in {"posting", "posted", "post_failed"} /\ history' = history
  /\ pc' = "posted" => pc = "posted" \/ cur.claim \in accepted

\* A step that ends in an attempt begins it or goes on with it.
LEMMA AttemptFrame ==
  ASSUME [Next]_vars, Attempting'
  PROVE  AttemptGoesOn \/ \E id \in Ids : Claim(id, TRUE)
<1> USE DEF Attempting, AttemptGoesOn, Goto, Step, Fails, files, worker
<1>1. CASE ClientStep
  BY Zenon, <1>1 DEF ClientStep, Put, Reorder, Del, DelFails
<1>2. ASSUME NEW ok \in BOOLEAN, WorkerStep(ok)
      PROVE  AttemptGoesOn \/ \E id \in Ids : Claim(id, TRUE)
  <2>1. ASSUME NEW id \in Ids, Claim(id, ok)
        PROVE  ok = TRUE
    BY <2>1 DEF Claim
  <2>2. CASE RecordFailure(ok) \/ ReleaseClaim(ok)
    BY Zenon, <2>2 DEF RecordFailure, ReleaseClaim
  <2>3. ASSUME ClearClaim(ok) \/ WriteCompletion(ok) \/ ReconcileCompletion(ok)
                 \/ \E S \in SUBSET Ids : ReclaimClaims(S, ok) \/ ReconcileAwaitDeletions(S, ok)
        PROVE  FALSE
    BY <2>3 DEF ClearClaim, WriteCompletion, ReconcileCompletion,
       AppendCompletionHistory, ClearMarker, RemoveCompleted, WriteLastPost,
       RemoveCompletion, ReclaimClaims, ReconcileAwaitDeletions
  <2> HIDE DEF Attempting, AttemptGoesOn
  <2> QED
    BY Zenon, <1>2, <2>1, <2>2, <2>3 DEF WorkerStep
<1>3. CASE LocalStep
  BY Zenon, <1>3 DEF LocalStep, PostOk, NothingToRelease, Cooled, Open, FirstRecoveryStep,
     RecoverWorkerState, Respawn
<1>4. CASE PostErr \/ ReadFails \/ (\E n \in 1..Len(claims) : Accept(n)) \/ Crash
           \/ \E S \in SUBSET Ids : PowerLoss(S)
  BY Zenon, <1>4 DEF PostErr, ReadFails, Accept, Crash, PowerLoss
<1>5. CASE UNCHANGED vars
  BY Zenon, <1>5 DEF vars
<1> HIDE DEF Attempting, AttemptGoesOn
<1> QED
  BY Zenon, <1>1, <1>2, <1>3, <1>4, <1>5 DEF Next

\* What a successful claim hands to the worker.
LEMMA ClaimFacts ==
  ASSUME TypeOK, NEW id \in Ids, Claim(id, TRUE)
  PROVE  /\ cur' = [id |-> id, incarnation |-> entries[id].incarnation,
                    claim |-> Len(claims) + 1]
         /\ IsClaim(cur.claim, cur.id, cur.incarnation)'
<1>1. /\ cur' = [id |-> id, incarnation |-> entries[id].incarnation,
                 claim |-> Len(claims) + 1]
      /\ claims' = Append(claims, [id |-> id, incarnation |-> entries[id].incarnation])
  BY DEF Claim
<1>2. [id |-> id, incarnation |-> entries[id].incarnation]
         \in [id : Ids, incarnation : Incarnations]
  BY DEF Claim, Pending, TypeOK, StoreTypeOK, Entry
<1>3. /\ Len(claims) + 1 \in 1..Len(claims)'
      /\ claims'[Len(claims) + 1] = [id |-> id, incarnation |-> entries[id].incarnation]
  BY <1>1, <1>2, AppendFacts DEF TypeOK
<1> QED
  BY <1>1, <1>3 DEF IsClaim

-----------------------------------------------------------------------------
(* The parts of Inv about tokens and removed files.                        *)

\* TokensNameLifetimes: tokens are only copied together with their lifetime.
LEMMA TokensNameLifetimesStep ==
  ASSUME Inv, [Next]_vars
  PROVE  TokensNameLifetimes'
<1>1. TypeOK /\ TokensNameLifetimes
  BY DEF Inv
<1>2. ASSUME NEW id \in Ids, entries'[id].claim # NoToken
      PROVE  IsClaim(entries[id].claim, id, entries[id].incarnation)'
  <2>1. EntryStep(id)
    BY <1>1, EntryChange
  <2> QED
    BY <1>1, <1>2, <2>1, IsClaimStays DEF EntryStep, Rewritten, TokensNameLifetimes, NoEntry
<1>3. ASSUME NEW id \in Ids, unsynced'[id].claim # NoToken
      PROVE  IsClaim(unsynced[id].claim, id, unsynced[id].incarnation)'
  <2>1. SyncStep(id)
    BY <1>1, EntryChange
  <2>2. \/ unsynced'[id] = unsynced[id]
        \/ unsynced'[id] = entries[id]
    BY <1>3, <2>1 DEF SyncStep, NoEntry
  <2>3. IsClaim(unsynced'[id].claim, id, unsynced'[id].incarnation)
    BY <1>1, <1>3, <2>2 DEF TokensNameLifetimes
  <2> QED
    BY <1>1, <2>3, IsClaimStays
<1>4. ASSUME Attempting'
      PROVE  IsClaim(cur.claim, cur.id, cur.incarnation)'
  <2>1. CASE AttemptGoesOn
    BY <1>1, <2>1, IsClaimStays DEF AttemptGoesOn, TokensNameLifetimes
  <2>2. CASE \E id \in Ids : Claim(id, TRUE)
    BY Zenon, <1>1, <2>2, ClaimFacts
  <2> QED
    BY Zenon, <1>4, <2>1, <2>2, AttemptFrame
<1>5. ASSUME NEW k \in 1..Len(history)'
      PROVE  IsClaim(history[k].attempt, history[k].id, history[k].incarnation)'
  <2>1. SUFFICES IsClaim(history'[k].attempt, history'[k].id, history'[k].incarnation)
    BY <1>1, IsClaimStays
  <2>2. CASE k \in 1..Len(history) /\ history'[k] = history[k]
    BY <1>1, <2>2 DEF TokensNameLifetimes
  <2>3. CASE ~(k \in 1..Len(history) /\ history'[k] = history[k])
    <3>1. PICK ok \in BOOLEAN :
            RecordFailure(ok) \/ \E r \in completion : AppendCompletionHistory(r, ok)
      BY <1>5, <2>3, HistoryFrame
    <3>2. history' # history
      BY <1>5, <2>3
    <3>3. ASSUME NEW x \in HistoryRecord, history' = Append(history, x)
          PROVE  history'[k] = x
      BY <1>1, <1>5, <2>3, <3>3, AppendFacts DEF TypeOK, StoreTypeOK
    <3>4. CASE RecordFailure(ok)
      <4>1. IsClaim(cur.claim, cur.id, cur.incarnation)
        BY <1>1, <3>4 DEF TokensNameLifetimes, RecordFailure, Goto, Attempting
      <4> QED
        BY <1>1, <3>2, <3>3, <3>4, <4>1, RecordFailureAppends
    <3>5. ASSUME NEW r \in completion, AppendCompletionHistory(r, ok)
          PROVE  IsClaim(history'[k].attempt, history'[k].id, history'[k].incarnation)
      <4>1. IsClaim(r.claim, r.id, r.incarnation)
        BY DEF Inv, LinesOfAttempt
      <4> QED
        BY <1>1, <3>2, <3>3, <3>5, <4>1, CompletionAppends
    <3> QED
      BY <3>1, <3>4, <3>5
  <2> QED
    BY <2>2, <2>3
<1> QED
  BY <1>2, <1>3, <1>4, <1>5 DEF TokensNameLifetimes

\* RemovedStayAbsent: every write of an entry syncs the directory.
LEMMA RemovedStayAbsentStep ==
  ASSUME Inv, [Next]_vars
  PROVE  RemovedStayAbsent'
<1>1. SUFFICES ASSUME NEW id \in Ids, unsynced'[id] # NoEntry
               PROVE  entries'[id].incarnation = NoInc
  BY DEF RemovedStayAbsent, Pending, NoEntry
<1>2. SyncStep(id)
  BY EntryChange DEF Inv
<1> QED
  BY <1>1, <1>2 DEF SyncStep, Rewritten, Inv, RemovedStayAbsent, Pending, NoEntry

-----------------------------------------------------------------------------
(* Nothing is lost.                                                        *)

\* A lifetime leaves the queue only when it is deleted or recorded.
LEMMA LeavesQueueDone ==
  ASSUME Inv, [Next]_vars, NEW id \in Ids, Pending(id), ~Rewritten(id)
  PROVE  \/ entries[id].incarnation \in deleted'
         \/ Recorded(entries[id].incarnation)
<1>1. EntryStep(id)
  BY EntryChange DEF Inv
<1>2. ~(unsynced[id] # NoEntry)
  BY DEF Inv, RemovedStayAbsent
<1>3. ASSUME pc = "remove", NEW r \in completion, r.id = id, entries[id].claim = r.claim
      PROVE  Recorded(entries[id].incarnation)
  <2>1. Recorded(r.incarnation)
    BY <1>3 DEF Inv, JournalPhase
  <2>2. IsClaim(r.claim, r.id, r.incarnation)
    BY DEF Inv, LinesOfAttempt
  <2>3. entries[id].claim # NoToken
    BY <1>3, <2>2 DEF IsClaim, NoToken
  <2>4. IsClaim(entries[id].claim, id, entries[id].incarnation)
    BY <2>3 DEF Inv, TokensNameLifetimes
  <2> QED
    BY <1>3, <2>1, <2>2, <2>4 DEF IsClaim
<1> QED
  BY <1>1, <1>2, <1>3 DEF EntryStep, Rewritten

\* A put is acknowledged with its entry in place, and del is not undone.
LEMMA LedgerFrame ==
  ASSUME TypeOK, [Next]_vars
  PROVE  /\ deleted \subseteq deleted'
         /\ \A inc \in acked' : inc \in acked \/ Queued(inc)'
<1>1. ASSUME deleted' = deleted, acked' = acked
      PROVE  /\ deleted \subseteq deleted'
             /\ \A inc \in acked' : inc \in acked \/ Queued(inc)'
  BY <1>1
<1>2. CASE ClientStep
  <2>1. ASSUME NEW id \in Ids, NEW inc \in Incarnations, NEW ok \in BOOLEAN,
               Put(id, inc, ok)
        PROVE  /\ deleted \subseteq deleted'
               /\ \A i \in acked' : i \in acked \/ Queued(i)'
    <3>1. entries'[id] = [incarnation |-> inc, claim |-> NoToken]
      BY Zenon, <2>1, WriteEntryFacts DEF Put
    <3>2. Queued(inc)'
      BY <3>1 DEF Queued
    <3> QED
      BY <2>1, <3>2 DEF Put
  <2>2. ASSUME NEW id \in Ids, Reorder(id) \/ Del(id) \/ DelFails(id)
        PROVE  /\ deleted \subseteq deleted'
               /\ \A i \in acked' : i \in acked \/ Queued(i)'
    BY <2>2 DEF Reorder, Del, DelFails, ghosts
  <2> QED
    BY <1>2, <2>1, <2>2 DEF ClientStep
<1>3. ASSUME NEW ok \in BOOLEAN, WorkerStep(ok)
      PROVE  deleted' = deleted /\ acked' = acked
  BY Zenon, <1>3 DEF WorkerStep, Claim, RecordFailure, ReleaseClaim, ClearClaim,
     WriteCompletion, ReconcileCompletion, AppendCompletionHistory, ClearMarker,
     RemoveCompleted, WriteLastPost, RemoveCompletion, ReclaimClaims,
     ReconcileAwaitDeletions, ghosts
<1>4. CASE LocalStep
  BY <1>1, <1>4 DEF LocalStep, PostOk, NothingToRelease, Cooled, Open,
     RecoverWorkerState, Respawn, ghosts
<1>5. CASE PostErr \/ ReadFails \/ (\E n \in 1..Len(claims) : Accept(n)) \/ Crash
           \/ \E S \in SUBSET Ids : PowerLoss(S)
  BY <1>1, <1>5 DEF PostErr, ReadFails, Accept, Crash, PowerLoss, ghosts
<1>6. CASE UNCHANGED vars
  BY <1>1, <1>6 DEF vars, ghosts
<1> QED
  BY <1>1, <1>2, <1>3, <1>4, <1>5, <1>6 DEF Next

\* NothingLost: an acknowledged lifetime that leaves the queue is done.
LEMMA NothingLostStep ==
  ASSUME Inv, [Next]_vars
  PROVE  NothingLost'
<1>1. SUFFICES ASSUME NEW inc \in acked', ~Queued(inc)'
               PROVE  inc \in deleted' \/ Recorded(inc)'
  BY DEF NothingLost
<1>2. inc \in acked /\ deleted \subseteq deleted'
  BY <1>1, LedgerFrame DEF Inv
<1>3. CASE inc \in deleted \/ Recorded(inc)
  BY <1>2, <1>3, RecordedStays DEF Inv
<1>4. CASE Queued(inc)
  <2>1. PICK id \in Ids : entries[id].incarnation = inc
    BY <1>4 DEF Queued
  <2>2. Pending(id) /\ ~Rewritten(id)
    BY <1>1, <1>2, <2>1, NoIncAssumption DEF Pending, Rewritten, Queued, Inv, TypeOK
  <2>3. inc \in deleted' \/ Recorded(inc)
    BY <2>1, <2>2, LeavesQueueDone
  <2> QED
    BY <2>3, RecordedStays DEF Inv
<1> QED
  BY <1>2, <1>3, <1>4 DEF Inv, NothingLost
=============================================================================
