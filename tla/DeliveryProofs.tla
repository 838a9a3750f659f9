--------------------------- MODULE DeliveryProofs ---------------------------
(***************************************************************************)
(* Proofs about Delivery for any sets of identifiers and lifetimes, any    *)
(* number of faults, with and without power loss.  Inv is shown inductive  *)
(* part by part: one lemma per part says which other parts it rests on.    *)
(* The lemmas about types, history, tokens and entry files are in          *)
(* DeliveryTypes; here are the phases of the journal and of the claims, and*)
(* the theorems.                                                           *)
(*                                                                         *)
(* The last part shows that Delivery implements Outbox.  A step does one of*)
(* three things: it moves an entry file (PlaceFrame), it appends a success *)
(* to the history (HistoryCases), or GitHub creates a comment; each is a   *)
(* step of Outbox.                                                         *)
(***************************************************************************)
EXTENDS DeliveryTypes, DeliveryOutbox

-----------------------------------------------------------------------------
(* The parts of Inv about the attempt and the journal.                     *)

\* A journal in the next state is the old one, or what complete wrote for the
\* posted entry.
LEMMA JournalFrame ==
  ASSUME [Next]_vars
  PROVE  \/ completion' \subseteq completion
         \/ /\ pc = "posted"
            /\ history' = history
            /\ completion' = {[id |-> cur.id, incarnation |-> cur.incarnation,
                               claim |-> cur.claim, offset |-> Len(history)]}
<1>1. CASE ClientStep
  BY Zenon, <1>1 DEF ClientStep, Put, Reorder, Del, DelFails
<1>2. ASSUME NEW ok \in BOOLEAN, WriteCompletion(ok)
      PROVE  \/ completion' \subseteq completion
             \/ /\ pc = "posted"
                /\ history' = history
                /\ completion' = {[id |-> cur.id, incarnation |-> cur.incarnation,
                                   claim |-> cur.claim, offset |-> Len(history)]}
  BY <1>2 DEF WriteCompletion, Step
<1>3. ASSUME NEW ok \in BOOLEAN, WorkerStep(ok), ~WriteCompletion(ok)
      PROVE  completion' \subseteq completion
  BY Zenon, <1>3 DEF WorkerStep, Claim, RecordFailure, ReleaseClaim, ClearClaim,
     ReconcileCompletion, AppendCompletionHistory, ClearMarker, RemoveCompleted,
     WriteLastPost, RemoveCompletion, ReclaimClaims, ReconcileAwaitDeletions
<1>4. CASE LocalStep
  BY <1>4 DEF LocalStep, PostOk, NothingToRelease, Cooled, Open, RecoverWorkerState,
     Respawn, files
<1>5. CASE PostErr \/ ReadFails \/ (\E n \in 1..Len(claims) : Accept(n)) \/ Crash
           \/ \E S \in SUBSET Ids : PowerLoss(S)
  BY <1>5 DEF PostErr, ReadFails, Accept, Crash, PowerLoss, files
<1>6. CASE UNCHANGED vars
  BY <1>6 DEF vars, files
<1> QED
  BY Zenon, <1>1, <1>2, <1>3, <1>4, <1>5, <1>6 DEF Next

\* PostedIsAccepted: post_comment succeeds only for a created comment.
LEMMA PostedIsAcceptedStep ==
  ASSUME Inv, [Next]_vars
  PROVE  PostedIsAccepted'
<1>1. ASSUME pc' = "posted"
      PROVE  cur'.claim \in accepted'
  <2>1. Attempting' /\ ~\E id \in Ids : Claim(id, TRUE)
    BY <1>1 DEF Attempting, Claim, Step
  <2>2. AttemptGoesOn
    BY Zenon, <2>1, AttemptFrame
  <2> QED
    BY <1>1, <2>2, AcceptedStays DEF AttemptGoesOn, Inv, PostedIsAccepted
<1>2. ASSUME NEW r \in completion'
      PROVE  r.claim \in accepted'
  BY <1>2, JournalFrame, AcceptedStays DEF Inv, PostedIsAccepted
<1> QED
  BY <1>1, <1>2 DEF PostedIsAccepted

\* LinesOfAttempt: a claim's number is new, so no line has it; while a journal
\* exists only append_once writes, and only lines of the journal's attempt.
LEMMA LinesOfAttemptStep ==
  ASSUME Inv, [Next]_vars
  PROVE  LinesOfAttempt'
<1>1. TypeOK /\ TokensNameLifetimes /\ Len(history) \in Nat /\ Len(claims) \in Nat
  BY DEF Inv, TypeOK, StoreTypeOK
<1>2. ASSUME pc' \in {"posting", "posted", "post_failed"}, NEW k \in 1..Len(history)'
      PROVE  history'[k].attempt # cur'.claim
  <2>1. CASE AttemptGoesOn
    BY <1>2, <2>1 DEF AttemptGoesOn, Inv, LinesOfAttempt
  <2>2. CASE \E id \in Ids : Claim(id, TRUE)
    <3>1. PICK id \in Ids : Claim(id, TRUE)
      BY Zenon, <2>2
    <3>2. history' = history /\ cur'.claim = Len(claims) + 1
      BY <1>1, <3>1, ClaimFacts DEF Claim
    <3>3. history[k].attempt \in 1..Len(claims)
      BY Zenon, <1>1, <1>2, <3>2 DEF TokensNameLifetimes, IsClaim
    <3> QED
      BY <1>1, <3>2, <3>3
  <2> QED
    BY Zenon, <1>2, <2>1, <2>2, AttemptFrame DEF Attempting
<1>3. ASSUME NEW r \in completion'
      PROVE  /\ IsClaim(r.claim, r.id, r.incarnation)
             /\ r.offset <= Len(history)'
             /\ \A k \in 1..Len(history)' : history'[k].attempt = r.claim =>
                  history'[k].outcome # "failure" /\ k > r.offset
  <2>1. CASE /\ pc = "posted"
             /\ history' = history
             /\ r = [id |-> cur.id, incarnation |-> cur.incarnation,
                     claim |-> cur.claim, offset |-> Len(history)]
    <3>1. IsClaim(cur.claim, cur.id, cur.incarnation)
      BY <1>1, <2>1 DEF TokensNameLifetimes, Attempting
    <3>2. \A k \in 1..Len(history) : history[k].attempt # cur.claim
      BY <2>1 DEF Inv, LinesOfAttempt
    <3> QED
      BY <1>1, <2>1, <3>1, <3>2
  <2>2. CASE r \in completion /\ history' = history
    BY <2>2 DEF Inv, LinesOfAttempt
  <2>3. CASE r \in completion /\ history' # history
    <3>1. ASSUME NEW ok \in BOOLEAN, RecordFailure(ok)
          PROVE  FALSE
      BY <2>3, <3>1 DEF RecordFailure, Goto, Attempting, Inv, JournalPhase
    <3>2. PICK ok \in BOOLEAN, s \in completion : AppendCompletionHistory(s, ok)
      BY <2>3, <3>1, HistoryFrame
    <3>3. s = r
      BY <2>3 DEF Inv, JournalPhase
    <3>4. PICK x \in HistoryRecord :
            history' = Append(history, x) /\ x.outcome # "failure"
      BY <1>1, <2>3, <3>2, CompletionAppends
    <3>5. /\ Len(history)' = Len(history) + 1
          /\ history'[Len(history) + 1] = x
          /\ \A k \in 1..Len(history) : history'[k] = history[k]
      BY <1>1, <3>4, AppendFacts DEF TypeOK, StoreTypeOK
    <3>6. /\ IsClaim(r.claim, r.id, r.incarnation)
          /\ r.offset \in Nat /\ r.offset <= Len(history)
          /\ \A k \in 1..Len(history) : history[k].attempt = r.claim =>
               history[k].outcome # "failure" /\ k > r.offset
      BY <1>1, <2>3 DEF Inv, LinesOfAttempt, TypeOK, StoreTypeOK, CompletionRecord
    <3> QED
      BY <1>1, <3>4, <3>5, <3>6
  <2> QED
    BY <1>3, <2>1, <2>2, <2>3, JournalFrame
<1>4. ASSUME NEW r \in completion'
      PROVE  IsClaim(r.claim, r.id, r.incarnation)'
  BY <1>1, <1>3, IsClaimStays
<1> QED
  BY <1>2, <1>3, <1>4 DEF LinesOfAttempt

\* After append_once the journal's lifetime is recorded.
LEMMA AppendOnceRecords ==
  ASSUME Inv, NEW r \in completion, AppendCompletionHistory(r, TRUE)
  PROVE  Recorded(r.incarnation)'
<1>1. TypeOK /\ TokensNameLifetimes
  BY DEF Inv
<1>2. CASE history' = history
  <2>1. ContainsAttempt(r.claim, r.offset)
    <3>1. SUFFICES ASSUME ~ContainsAttempt(r.claim, r.offset)
                   PROVE  FALSE
      OBVIOUS
    <3>2. history' = Append(history, Line(r.id, r.incarnation, r.claim, "success"))
      BY <3>1 DEF AppendCompletionHistory, AppendOnce
    <3>3. Line(r.id, r.incarnation, r.claim, "success") \in HistoryRecord
      BY <1>1, LineTypes DEF Line, HistoryRecord
    <3> QED
      BY <1>1, <1>2, <3>2, <3>3, AppendFacts DEF TypeOK, StoreTypeOK
  <2>2. PICK k \in 1..Len(history) :
          history[k].attempt = r.claim /\ history[k].outcome # "torn"
    BY <2>1 DEF ContainsAttempt
  <2>3. history[k].outcome = "success"
    <3>1. history[k].outcome # "failure"
      BY <2>2 DEF Inv, LinesOfAttempt
    <3>2. history[k] \in HistoryRecord
      BY <1>1 DEF TypeOK, StoreTypeOK
    <3> QED
      BY <2>2, <3>1, <3>2 DEF HistoryRecord
  <2>4. history[k].incarnation = r.incarnation
    <3>1. IsClaim(history[k].attempt, history[k].id, history[k].incarnation)
      BY <1>1 DEF TokensNameLifetimes
    <3>2. IsClaim(r.claim, r.id, r.incarnation)
      BY DEF Inv, LinesOfAttempt
    <3> QED
      BY <2>2, <3>1, <3>2 DEF IsClaim
  <2>5. Recorded(r.incarnation)
    BY <2>2, <2>3, <2>4 DEF Recorded
  <2> QED
    BY <1>2, <2>5 DEF Recorded
<1>3. CASE history' # history
  <2>1. PICK x \in HistoryRecord :
          /\ history' = Append(history, x)
          /\ x.incarnation = r.incarnation /\ x.outcome = "success"
    BY Zenon, <1>1, <1>3, CompletionAppends
  <2>2. Len(history) + 1 \in 1..Len(history)' /\ history'[Len(history) + 1] = x
    BY <1>1, <2>1, AppendFacts DEF TypeOK, StoreTypeOK
  <2> QED
    BY <2>1, <2>2 DEF Recorded
<1> QED
  BY <1>2, <1>3

\* JournalPhase: the journal is written with the attempt over, and the worker
\* does not look at the queue again before it is removed.
LEMMA JournalPhaseStep ==
  ASSUME Inv, [Next]_vars
  PROVE  JournalPhase'
<1> DEFINE Done == {"clear", "remove", "last_post", "unlink"}
<1>1. \A r, s \in completion' : r = s
  BY JournalFrame DEF Inv, JournalPhase
<1>2. ASSUME Attempting'
      PROVE  completion' = {}
  <2>1. CASE AttemptGoesOn
    BY <2>1 DEF AttemptGoesOn, Inv, JournalPhase
  <2>2. CASE \E id \in Ids : Claim(id, TRUE)
    BY <2>2 DEF Claim, Step, Inv, JournalPhase
  <2> QED
    BY Zenon, <1>2, <2>1, <2>2, AttemptFrame
<1> DEFINE Rest == /\ pc \in {"idle", "cooling", "reclaim"} => completion = {}
                   /\ pc \in {"append"} \cup Done => completion # {}
<1>3. Rest'
  <2>1. Rest /\ (Attempting => completion = {})
    BY DEF Inv, JournalPhase
  <2> USE DEF Attempting, Goto, Step, Fails, files, worker
  <2>2. CASE ClientStep
    BY Zenon, <2>1, <2>2 DEF ClientStep, Put, Reorder, Del, DelFails
  <2>3. ASSUME NEW ok \in BOOLEAN, WorkerStep(ok)
        PROVE  Rest'
    <3>1. CASE (\E id \in Ids : Claim(id, ok)) \/ RecordFailure(ok) \/ ReleaseClaim(ok)
                 \/ ClearClaim(ok)
      BY Zenon, <2>1, <3>1 DEF Claim, RecordFailure, ReleaseClaim, ClearClaim
    <3>2. CASE WriteCompletion(ok)
      BY Zenon, <2>1, <3>2 DEF WriteCompletion
    <3>3. CASE ReconcileCompletion(ok)
      BY Zenon, <2>1, <3>3 DEF ReconcileCompletion, AppendCompletionHistory, ClearMarker,
         RemoveCompleted, WriteLastPost, RemoveCompletion
    <3>4. CASE \E S \in SUBSET Ids : ReclaimClaims(S, ok) \/ ReconcileAwaitDeletions(S, ok)
      BY <2>1, <3>4 DEF ReclaimClaims, ReconcileAwaitDeletions
    <3> HIDE DEF Rest
    <3> QED
      BY <2>3, <3>1, <3>2, <3>3, <3>4 DEF WorkerStep
  <2>4. CASE LocalStep
    BY <2>1, <2>4 DEF LocalStep, PostOk, NothingToRelease, Cooled, Open,
       FirstRecoveryStep, RecoverWorkerState, Respawn
  <2>5. CASE PostErr \/ ReadFails \/ (\E n \in 1..Len(claims) : Accept(n)) \/ Crash
             \/ \E S \in SUBSET Ids : PowerLoss(S)
    BY <2>1, <2>5 DEF PostErr, ReadFails, Accept, Crash, PowerLoss
  <2>6. CASE UNCHANGED vars
    BY <2>1, <2>6 DEF vars
  <2> HIDE DEF Rest
  <2> QED
    BY <2>2, <2>3, <2>4, <2>5, <2>6 DEF Next
<1>4. ASSUME pc' \in Done, NEW r \in completion'
      PROVE  Recorded(r.incarnation)'
  <2>1. \/ pc \in Done /\ r \in completion
        \/ \E s \in completion : AppendCompletionHistory(s, TRUE) /\ r \in completion
    <3> USE DEF Goto, Step, Fails, files, worker
    <3>1. CASE ClientStep
      BY Zenon, <1>4, <3>1 DEF ClientStep, Put, Reorder, Del, DelFails
    <3>2. ASSUME NEW ok \in BOOLEAN, WorkerStep(ok)
          PROVE  \/ pc \in Done /\ r \in completion
                 \/ \E s \in completion : AppendCompletionHistory(s, TRUE) /\ r \in completion
      <4>1. CASE ReconcileCompletion(ok)
        <5>1. ASSUME NEW s \in completion, AppendCompletionHistory(s, ok)
              PROVE  ok = TRUE /\ completion' = completion
          BY <1>4, <5>1 DEF AppendCompletionHistory
        <5>2. ASSUME NEW s \in completion,
                     ClearMarker(s, ok) \/ RemoveCompleted(s, ok) \/ WriteLastPost(s, ok)
              PROVE  pc \in Done /\ completion' = completion
          BY <5>2 DEF ClearMarker, RemoveCompleted, WriteLastPost
        <5>3. ~RemoveCompletion(ok)
          BY <1>4 DEF RemoveCompletion
        <5> QED
          BY Zenon, <1>4, <4>1, <5>1, <5>2, <5>3 DEF ReconcileCompletion
      <4>2. ~ReconcileCompletion(ok) => FALSE
        BY Zenon, <1>4, <3>2 DEF WorkerStep, Claim, RecordFailure, ReleaseClaim, ClearClaim,
           WriteCompletion, ReclaimClaims, ReconcileAwaitDeletions
      <4> QED
        BY Zenon, <4>1, <4>2
    <3>3. CASE LocalStep
      BY <1>4, <3>3 DEF LocalStep, PostOk, NothingToRelease, Cooled, Open,
         FirstRecoveryStep, RecoverWorkerState, Respawn
    <3>4. CASE PostErr \/ ReadFails \/ (\E n \in 1..Len(claims) : Accept(n)) \/ Crash
               \/ \E S \in SUBSET Ids : PowerLoss(S)
      BY Zenon, <1>4, <3>4 DEF PostErr, ReadFails, Accept, Crash, PowerLoss
    <3>5. CASE UNCHANGED vars
      BY Zenon, <1>4, <3>5 DEF vars
    <3> QED
      BY Zenon, <3>1, <3>2, <3>3, <3>4, <3>5 DEF Next
  <2>2. CASE pc \in Done /\ r \in completion
    BY <2>2, RecordedStays DEF Inv, JournalPhase
  <2>3. CASE \E s \in completion : AppendCompletionHistory(s, TRUE) /\ r \in completion
    BY Zenon, <2>3, AppendOnceRecords DEF Inv, JournalPhase
  <2> QED
    BY Zenon, <2>1, <2>2, <2>3
<1> QED
  BY <1>1, <1>2, <1>3, <1>4 DEF JournalPhase


\* Only the entry a claim was made for carries its number.
LEMMA ClaimOwner ==
  ASSUME TokensNameLifetimes, NEW n, NEW id, NEW inc, IsClaim(n, id, inc),
         NEW x \in Ids, entries[x].claim = n
  PROVE  x = id
<1>1. n # NoToken
  BY DEF IsClaim, NoToken
<1>2. IsClaim(n, x, entries[x].incarnation)
  BY <1>1 DEF TokensNameLifetimes
<1> QED
  BY <1>2 DEF IsClaim

\* Clients take no claim and do not touch the worker or the journal.
LEMMA ClientFrame ==
  ASSUME TypeOK, ClientStep
  PROVE  /\ \A x \in Ids : entries'[x].claim \in {entries[x].claim, NoToken}
         /\ UNCHANGED <<pc, caller, cur, completion>>
<1>1. UNCHANGED <<pc, caller, cur, completion>>
  BY Zenon DEF ClientStep, Put, Reorder, Del, DelFails, worker
<1>2. ASSUME NEW x \in Ids
      PROVE  entries'[x].claim \in {entries[x].claim, NoToken}
  <2>1. ASSUME NEW id \in Ids, NEW inc \in Incarnations, NEW ok \in BOOLEAN,
               Put(id, inc, ok)
        PROVE  entries'[x].claim \in {entries[x].claim, NoToken}
    <3>1. WriteEntry(id, [incarnation |-> inc, claim |-> NoToken])
      BY <2>1 DEF Put
    <3>2. entries'[x] = IF x = id THEN [incarnation |-> inc, claim |-> NoToken]
                                  ELSE entries[x]
      BY <3>1, WriteEntryFacts
    <3> QED
      BY <3>2
  <2>2. ASSUME NEW id \in Ids, Reorder(id)
        PROVE  entries'[x].claim \in {entries[x].claim, NoToken}
    <3>1. WriteEntry(id, entries[id])
      BY <2>2 DEF Reorder
    <3> QED
      BY <3>1, WriteEntryFacts
  <2>3. ASSUME NEW id \in Ids, Del(id)
        PROVE  entries'[x].claim \in {entries[x].claim, NoToken}
    <3>1. RemoveEntry(id)
      BY <2>3 DEF Del
    <3> QED
      BY <3>1, RemoveEntryFacts DEF NoEntry
  <2>4. ASSUME NEW id \in Ids, DelFails(id)
        PROVE  entries'[x].claim \in {entries[x].claim, NoToken}
    BY <2>4 DEF DelFails
  <2> QED
    BY <2>1, <2>2, <2>3, <2>4 DEF ClientStep
<1> QED
  BY <1>1, <1>2

\* ClaimPhase: a claim is cleared or its entry removed on every way from the
\* attempt back to "idle", and recovery clears whatever a failed task left.
LEMMA ClaimPhaseStep ==
  ASSUME Inv, [Next]_vars
  PROVE  ClaimPhase'
<1>1. TypeOK /\ TokensNameLifetimes /\ JournalPhase /\ ClaimPhase
  BY DEF Inv
<1> USE DEF ClaimPhase, Claimed, Attempting, Goto, Step, Fails
<1>2. CASE ClientStep
  BY <1>1, <1>2, ClientFrame
<1>3. ASSUME NEW id \in Ids, NEW ok \in BOOLEAN, Claim(id, ok)
      PROVE  ClaimPhase'
  <2>1. CASE ok = FALSE
    BY <1>3, <2>1 DEF Claim
  <2>2. CASE ok = TRUE
    <3>1. /\ pc' = "posting"
          /\ \A x \in Ids : entries[x].claim = NoToken
          /\ WriteEntry(id, [entries[id] EXCEPT !.claim = Len(claims) + 1])
          /\ cur'.claim = Len(claims) + 1
      BY <1>3, <2>2 DEF Claim
    <3>2. [entries[id] EXCEPT !.claim = Len(claims) + 1].claim = Len(claims) + 1
      BY <1>1, ClaimFieldFacts DEF TypeOK, StoreTypeOK
    <3>3. ASSUME NEW x \in Ids
          PROVE  entries'[x].claim \in {NoToken, cur'.claim}
      <4>1. entries'[x] = IF x = id THEN [entries[id] EXCEPT !.claim = Len(claims) + 1]
                                    ELSE entries[x]
        BY <1>1, <3>1, WriteEntryFacts
      <4> QED
        BY <3>1, <3>2, <4>1
    <3> QED
      BY <3>1, <3>3
  <2> QED
    BY Zenon, <2>1, <2>2
<1>4. ASSUME NEW ok \in BOOLEAN, RecordFailure(ok) \/ ReleaseClaim(ok)
      PROVE  ClaimPhase'
  BY <1>1, <1>4 DEF RecordFailure, ReleaseClaim
<1>5. ASSUME NEW ok \in BOOLEAN, ClearClaim(ok)
      PROVE  ClaimPhase'
  <2>1. CASE ok = FALSE
    BY <1>5, <2>1 DEF ClearClaim
  <2>2. CASE ok = TRUE
    <3>1. /\ pc = "clear_claim" /\ pc' = "cooling"
          /\ WriteEntry(cur.id, [entries[cur.id] EXCEPT !.claim = NoToken])
      BY <1>5, <2>2 DEF ClearClaim
    <3>2. cur.id \in Ids /\ IsClaim(cur.claim, cur.id, cur.incarnation)
      BY <1>1, <3>1, LineTypes DEF TokensNameLifetimes
    <3>3. [entries[cur.id] EXCEPT !.claim = NoToken].claim = NoToken
      BY <1>1, <3>2, ClaimFieldFacts DEF TypeOK, StoreTypeOK, NoToken
    <3>4. \A x \in Ids : x # cur.id => entries[x].claim = NoToken
      BY <1>1, <3>1, <3>2, ClaimOwner
    <3>5. ASSUME NEW x \in Ids
          PROVE  entries'[x].claim = NoToken
      <4>1. entries'[x] = IF x = cur.id THEN [entries[cur.id] EXCEPT !.claim = NoToken]
                                        ELSE entries[x]
        BY <1>1, <3>1, <3>2, WriteEntryFacts
      <4> QED
        BY <3>3, <3>4, <4>1
    <3> QED
      BY <3>1, <3>5
  <2> QED
    BY Zenon, <2>1, <2>2
<1>6. ASSUME NEW ok \in BOOLEAN, WriteCompletion(ok)
      PROVE  ClaimPhase'
  BY <1>1, <1>6 DEF WriteCompletion
<1>7. ASSUME NEW ok \in BOOLEAN, NEW r \in completion, RemoveCompleted(r, ok)
      PROVE  ClaimPhase'
  <2>1. CASE ok = FALSE
    BY <1>7, <2>1 DEF RemoveCompleted
  <2>2. CASE ok = TRUE
    <3>1. pc = "remove" /\ pc' = "last_post" /\ caller' = caller
      BY <1>7, <2>2 DEF RemoveCompleted
    <3>2. r.id \in Ids /\ IsClaim(r.claim, r.id, r.incarnation)
      BY <1>1, LineTypes DEF Inv, LinesOfAttempt
    <3>3. ASSUME caller = "complete", NEW x \in Ids
          PROVE  entries'[x].claim = NoToken
      <4>1. x # r.id \/ entries[x].claim # r.claim => entries[x].claim = NoToken
        BY <1>1, <3>1, <3>2, <3>3, ClaimOwner
      <4>2. CASE entries[r.id].claim = r.claim
        <5>1. RemoveEntry(r.id)
          BY <1>7, <2>2, <4>2 DEF RemoveCompleted
        <5> QED
          BY <1>1, <3>2, <4>1, <5>1, RemoveEntryFacts DEF NoEntry
      <4>3. CASE entries[r.id].claim # r.claim
        BY <1>7, <4>1, <4>3 DEF RemoveCompleted
      <4> QED
        BY <4>2, <4>3
    <3> QED
      BY <3>1, <3>3
  <2> QED
    BY Zenon, <2>1, <2>2
<1>8. ASSUME NEW ok \in BOOLEAN, ReconcileCompletion(ok)
      PROVE  ClaimPhase'
  <2>1. ASSUME NEW r \in completion,
               AppendCompletionHistory(r, ok) \/ ClearMarker(r, ok) \/ WriteLastPost(r, ok)
        PROVE  ClaimPhase'
    BY <1>1, <2>1 DEF AppendCompletionHistory, ClearMarker, WriteLastPost
  <2>2. CASE RemoveCompletion(ok)
    BY Zenon, <1>1, <2>2 DEF RemoveCompletion
  <2> QED
    BY Zenon, <1>7, <1>8, <2>1, <2>2 DEF ReconcileCompletion
<1>9. ASSUME NEW ok \in BOOLEAN, NEW S \in SUBSET Ids, ReclaimClaims(S, ok)
      PROVE  ClaimPhase'
  <2>1. CASE ok = FALSE
    BY <1>9, <2>1 DEF ReclaimClaims
  <2>2. CASE ok = TRUE
    <3>1. \A x \in Ids : [entries[x] EXCEPT !.claim = NoToken].claim = NoToken
      BY <1>1, ClaimFieldFacts DEF TypeOK, StoreTypeOK, NoToken
    <3>2. \A x \in Ids : entries'[x].claim = NoToken
      BY <1>9, <2>2, <3>1 DEF ReclaimClaims
    <3>3. pc' \in {"sweep", "idle"}
      BY <1>9, <2>2 DEF ReclaimClaims
    <3> QED
      BY <3>2, <3>3
  <2> QED
    BY Zenon, <2>1, <2>2
<1>10. ASSUME NEW ok \in BOOLEAN, NEW S \in SUBSET Ids, ReconcileAwaitDeletions(S, ok)
       PROVE  ClaimPhase'
  BY <1>10 DEF ReconcileAwaitDeletions
<1>11. CASE NothingToRelease
  <2>1. cur.id \in Ids /\ IsClaim(cur.claim, cur.id, cur.incarnation)
    BY Zenon, <1>1, <1>11, LineTypes DEF NothingToRelease, TokensNameLifetimes
  <2>2. \A x \in Ids : entries[x].claim = NoToken
    BY <1>1, <1>11, <2>1, ClaimOwner DEF NothingToRelease, HoldsClaim
  <2> QED
    BY <1>11, <2>2 DEF NothingToRelease, files
<1>12. CASE PostOk \/ Cooled \/ Open \/ RecoverWorkerState \/ Respawn
  BY <1>1, <1>12 DEF PostOk, Cooled, Open, FirstRecoveryStep, RecoverWorkerState,
     Respawn, files
<1>13. CASE PostErr \/ ReadFails \/ (\E n \in 1..Len(claims) : Accept(n)) \/ Crash
            \/ \E S \in SUBSET Ids : PowerLoss(S)
  BY <1>1, <1>13 DEF PostErr, ReadFails, Accept, Crash, PowerLoss, files, worker
<1>14. CASE UNCHANGED vars
  BY Zenon, <1>1, <1>14 DEF vars, files, worker
<1> HIDE DEF ClaimPhase
<1>15. ASSUME NEW ok \in BOOLEAN, WorkerStep(ok)
       PROVE  ClaimPhase'
  BY <1>3, <1>4, <1>5, <1>6, <1>8, <1>9, <1>10, <1>15 DEF WorkerStep
<1> QED
  BY <1>2, <1>11, <1>12, <1>13, <1>14, <1>15 DEF Next, LocalStep

-----------------------------------------------------------------------------
(* The theorems.                                                           *)

\* The empty queue of a first start satisfies Inv.
LEMMA InvInit ==
  ASSUME Init
  PROVE  Inv
<1> USE DEF Init, StoreInit
<1>1. TypeOK
  BY DEF TypeOK, StoreTypeOK, AllSynced, NoEntry, Entry, NoToken, NoCur, Steps,
     LockedSteps, UnlockedSteps
<1>2. TokensNameLifetimes /\ RemovedStayAbsent
  BY DEF TokensNameLifetimes, RemovedStayAbsent, Attempting, AllSynced, NoEntry, NoToken
<1>3. PostedIsAccepted /\ LinesOfAttempt /\ JournalPhase
  BY DEF PostedIsAccepted, LinesOfAttempt, JournalPhase, Attempting
<1>4. ClaimPhase
  BY DEF ClaimPhase, Attempting, Claimed, AllSynced, NoEntry, NoToken
<1>5. RecordedIsReal /\ RecordedOnce /\ NothingLost
  BY DEF RecordedIsReal, RecordedOnce, NothingLost
<1> QED
  BY <1>1, <1>2, <1>3, <1>4, <1>5 DEF Inv

\* Every step preserves Inv.
LEMMA InvStep ==
  ASSUME Inv, [Next]_vars
  PROVE  Inv'
<1>1. TypeOK'
  BY TypeOKStep DEF Inv
<1> QED
  BY <1>1, TokensNameLifetimesStep, RemovedStayAbsentStep, PostedIsAcceptedStep,
     LinesOfAttemptStep, JournalPhaseStep, ClaimPhaseStep, RecordedIsRealStep,
     RecordedOnceStep, NothingLostStep DEF Inv

\* Inv holds in every reachable state: of the worker, the clients and GitHub
\* in any interleaving, with any errors, crashes and power losses.
THEOREM InvHolds == Spec => []Inv
  BY InvInit, InvStep, PTL DEF Spec

\* The variables always have their types.
THEOREM TypeCorrect == Spec => []TypeOK
<1>1. Inv => TypeOK
  BY DEF Inv
<1> QED
  BY <1>1, InvHolds, PTL

\* At-least-once delivery: an acknowledged comment is queued, deleted by a
\* client, or recorded as posted.
THEOREM AtLeastOnce == Spec => []NothingLost
<1>1. Inv => NothingLost
  BY DEF Inv
<1> QED
  BY <1>1, InvHolds, PTL

\* The history tells the truth: a success line is a comment GitHub created for
\* the lifetime the line names.
THEOREM HistoryTruthful == Spec => []RecordedIsReal
<1>1. Inv => RecordedIsReal
  BY DEF Inv
<1> QED
  BY <1>1, InvHolds, PTL

\* The history tells it once: append_once never records an attempt again,
\* however often reconcile_completion is repeated.
THEOREM NeverRecordedTwice == Spec => []RecordedOnce
<1>1. Inv => RecordedOnce
  BY DEF Inv
<1> QED
  BY <1>1, InvHolds, PTL

\* The worker never looks for an entry with a journal or a claim left over.
THEOREM ClaimsStartClean == Spec => []ReadyToClaim
<1>1. Inv => ReadyToClaim
  BY DEF Inv, JournalPhase, ClaimPhase, ReadyToClaim
<1> QED
  BY <1>1, InvHolds, PTL

\* No step removes a queued lifetime that is neither deleted nor recorded.
THEOREM RemovalIsJustified == Spec => RemovedOnlyWhenDone
<1>1. Inv /\ [Next]_vars =>
        [\A id \in Ids :
           Pending(id) /\ entries'[id].incarnation # entries[id].incarnation =>
             \/ entries[id].incarnation \in deleted'
             \/ Recorded(entries[id].incarnation)]_vars
  BY LeavesQueueDone DEF Rewritten
<1> QED
  BY <1>1, InvHolds, PTL DEF Spec, RemovedOnlyWhenDone

-----------------------------------------------------------------------------
(* What a step does to the lifetimes that are queued or just removed.      *)

Same(x) ==
  /\ entries'[x].incarnation = entries[x].incarnation
  /\ unsynced'[x].incarnation \in {unsynced[x].incarnation, NoInc}

NothingMoves ==
  /\ \A x \in Ids : Same(x)
  /\ born' = born
  /\ deleted' = deleted

\* A put creates the file of a new lifetime and syncs the directory.
Creates(id, inc) ==
  /\ entries[id].incarnation = NoInc
  /\ inc \notin born
  /\ \A x \in Ids :
       /\ entries'[x].incarnation = IF x = id THEN inc ELSE entries[x].incarnation
       /\ unsynced'[x].incarnation = NoInc
  /\ born' = born \cup {inc}
  /\ deleted' = deleted

\* The file of one lifetime is removed.
TakesAway(id) ==
  /\ entries[id].incarnation # NoInc
  /\ \A x \in Ids :
       /\ entries'[x].incarnation = IF x = id THEN NoInc ELSE entries[x].incarnation
       /\ unsynced'[x].incarnation = IF x = id THEN entries[x].incarnation
                                               ELSE unsynced[x].incarnation
  /\ born' = born

\* Power fails and some removed files are back.
BringsBack ==
  /\ PowerFails
  /\ \A x \in Ids :
       /\ \/ entries'[x].incarnation = entries[x].incarnation
          \/ /\ entries[x].incarnation = NoInc
             /\ entries'[x].incarnation = unsynced[x].incarnation
       /\ unsynced'[x].incarnation = NoInc
  /\ born' = born
  /\ deleted' = deleted

Moves ==
  \/ NothingMoves
  \/ \E id \in Ids, inc \in Incarnations : Creates(id, inc)
  \/ \E id \in Ids : TakesAway(id) /\ deleted' = deleted \cup {entries[id].incarnation}
  \/ \E id \in Ids : /\ TakesAway(id)
                     /\ Recorded(entries[id].incarnation)
                     /\ deleted' = deleted
  \/ BringsBack

\* A write that keeps the lifetime of the entry moves nothing.
LEMMA RewriteMovesNothing ==
  ASSUME TypeOK, NEW id \in Ids, NEW e, WriteEntry(id, e),
         e.incarnation = entries[id].incarnation
  PROVE  \A x \in Ids : Same(x)
  BY WriteEntryFacts DEF Same, NoEntry

\* A removal of a present entry takes it away.
LEMMA RemovalTakesAway ==
  ASSUME TypeOK, NEW id \in Ids, RemoveEntry(id), entries[id].incarnation # NoInc,
         born' = born
  PROVE  TakesAway(id)
  BY RemoveEntryFacts DEF TakesAway, NoEntry

\* Clients: put creates, del takes away.
LEMMA ClientMoves ==
  ASSUME TypeOK, ClientStep
  PROVE  Moves
<1>1. ASSUME NEW id \in Ids, NEW inc \in Incarnations, NEW ok \in BOOLEAN,
             Put(id, inc, ok)
      PROVE  Creates(id, inc)
  <2>1. /\ ~Pending(id) /\ inc \notin born /\ born' = born \cup {inc}
        /\ deleted' = deleted
        /\ WriteEntry(id, [incarnation |-> inc, claim |-> NoToken])
    BY Zenon, <1>1 DEF Put
  <2> QED
    BY <2>1, WriteEntryFacts DEF Creates, Pending, NoEntry
<1>2. ASSUME NEW id \in Ids, Reorder(id)
      PROVE  NothingMoves
  BY <1>2, RewriteMovesNothing DEF Reorder, NothingMoves, ghosts
<1>3. ASSUME NEW id \in Ids, Del(id)
      PROVE  TakesAway(id) /\ deleted' = deleted \cup {entries[id].incarnation}
  BY <1>3, RemovalTakesAway DEF Del, Pending
<1>4. ASSUME NEW id \in Ids, DelFails(id)
      PROVE  NothingMoves
  BY <1>4 DEF DelFails, NothingMoves, Same, ghosts
<1> QED
  BY <1>1, <1>2, <1>3, <1>4 DEF ClientStep, Moves

\* The worker: only RemoveCompleted takes a file away, and it is recorded.
LEMMA WorkerMoves ==
  ASSUME Inv, NEW ok \in BOOLEAN, WorkerStep(ok)
  PROVE  Moves
<1>1. TypeOK /\ TokensNameLifetimes
  BY DEF Inv
<1>2. born' = born /\ deleted' = deleted
  BY Zenon DEF WorkerStep, Claim, RecordFailure, ReleaseClaim, ClearClaim,
     WriteCompletion, ReconcileCompletion, AppendCompletionHistory, ClearMarker,
     RemoveCompleted, WriteLastPost, RemoveCompletion, ReclaimClaims,
     ReconcileAwaitDeletions, ghosts
<1>3. ASSUME UNCHANGED <<entries, unsynced>>
      PROVE  Moves
  BY <1>2, <1>3 DEF Moves, NothingMoves, Same
<1>4. ASSUME NEW id \in Ids, NEW n \in Nat,
             WriteEntry(id, [entries[id] EXCEPT !.claim = n])
      PROVE  Moves
  <2>1. [entries[id] EXCEPT !.claim = n].incarnation = entries[id].incarnation
    BY <1>1, ClaimFieldFacts DEF TypeOK, StoreTypeOK
  <2> QED
    BY Zenon, <1>1, <1>2, <1>4, <2>1, RewriteMovesNothing DEF Moves, NothingMoves
<1>5. ASSUME NEW id \in Ids, Claim(id, ok)
      PROVE  Moves
  <2>1. Len(claims) + 1 \in Nat
    BY <1>1, AppendFacts DEF TypeOK
  <2>2. \/ WriteEntry(id, [entries[id] EXCEPT !.claim = Len(claims) + 1])
        \/ UNCHANGED <<entries, unsynced>>
    BY Zenon, <1>5 DEF Claim
  <2> QED
    BY <1>3, <1>4, <2>1, <2>2
<1>6. CASE ClearClaim(ok)
  <2>1. cur.id \in Ids
    BY <1>1, <1>6, LineTypes DEF ClearClaim, Step, Attempting
  <2> QED
    BY <1>3, <1>4, <1>6, <2>1 DEF ClearClaim, NoToken
<1>7. ASSUME NEW r \in completion, RemoveCompleted(r, ok)
      PROVE  Moves
  <2>1. CASE UNCHANGED <<entries, unsynced>>
    BY <1>3, <2>1
  <2>2. CASE RemoveEntry(r.id) /\ entries[r.id].claim = r.claim
    <3>1. r.id \in Ids /\ IsClaim(r.claim, r.id, r.incarnation)
      BY <1>1, LineTypes DEF Inv, LinesOfAttempt
    <3>2. IsClaim(r.claim, r.id, entries[r.id].incarnation)
      BY <1>1, <2>2, <3>1 DEF TokensNameLifetimes, IsClaim, NoToken
    <3>3. entries[r.id].incarnation = r.incarnation
      BY <3>1, <3>2 DEF IsClaim
    <3>4. r.incarnation \in Incarnations /\ r.incarnation # NoInc
      BY <1>1, LineTypes, NoIncAssumption
    <3>5. Recorded(r.incarnation)
      BY <1>7 DEF RemoveCompleted, Step, Inv, JournalPhase
    <3>6. TakesAway(r.id)
      BY <1>1, <1>2, <2>2, <3>1, <3>3, <3>4, RemovalTakesAway
    <3> QED
      BY <1>2, <3>1, <3>3, <3>5, <3>6 DEF Moves
  <2> QED
    BY Zenon, <1>7, <2>1, <2>2 DEF RemoveCompleted
<1>8. ASSUME NEW S \in SUBSET Ids, ReclaimClaims(S, ok)
      PROVE  Moves
  <2>1. \A x \in Ids : [entries[x] EXCEPT !.claim = NoToken].incarnation
                         = entries[x].incarnation
    BY <1>1, ClaimFieldFacts DEF TypeOK, StoreTypeOK, NoToken
  <2>2. \A x \in Ids : /\ entries'[x] \in {entries[x], [entries[x] EXCEPT !.claim = NoToken]}
                       /\ unsynced'[x] \in {unsynced[x], NoEntry}
    BY <1>8 DEF ReclaimClaims, AllSynced
  <2>3. \A x \in Ids : entries'[x].incarnation = entries[x].incarnation
    BY Zenon, <2>1, <2>2
  <2>4. \A x \in Ids : Same(x)
    BY <2>2, <2>3 DEF Same, NoEntry
  <2> QED
    BY <1>2, <2>4 DEF Moves, NothingMoves
<1>9. CASE \/ RecordFailure(ok) \/ ReleaseClaim(ok) \/ WriteCompletion(ok)
           \/ RemoveCompletion(ok)
           \/ \E r \in completion : \/ AppendCompletionHistory(r, ok)
                                    \/ ClearMarker(r, ok)
                                    \/ WriteLastPost(r, ok)
           \/ \E S \in SUBSET Ids : ReconcileAwaitDeletions(S, ok)
  <2>1. UNCHANGED <<entries, unsynced>>
    BY Zenon, <1>9 DEF RecordFailure, ReleaseClaim, WriteCompletion, RemoveCompletion,
       AppendCompletionHistory, ClearMarker, WriteLastPost, ReconcileAwaitDeletions
  <2> QED
    BY <1>3, <2>1
<1> QED
  BY <1>5, <1>6, <1>7, <1>8, <1>9 DEF WorkerStep, ReconcileCompletion

\* Every step moves files in one of the ways of Moves.
LEMMA PlaceFrame ==
  ASSUME Inv, [Next]_vars
  PROVE  Moves
<1>1. TypeOK
  BY DEF Inv
<1>2. ASSUME UNCHANGED <<entries, unsynced, born, deleted>>
      PROVE  Moves
  BY <1>2 DEF Moves, NothingMoves, Same
<1>3. CASE LocalStep \/ PostErr \/ ReadFails \/ (\E n \in 1..Len(claims) : Accept(n))
           \/ Crash \/ UNCHANGED vars
  <2>1. UNCHANGED <<entries, unsynced, born, deleted>>
    BY Zenon, <1>3 DEF LocalStep, PostOk, NothingToRelease, Cooled, Open,
       RecoverWorkerState, Respawn, PostErr, ReadFails, Accept, Crash, vars, files, ghosts
  <2> QED
    BY <1>2, <2>1
<1>4. ASSUME NEW S \in SUBSET Ids, PowerLoss(S)
      PROVE  BringsBack
  <2>1. ASSUME NEW x \in Ids
        PROVE  /\ \/ entries'[x].incarnation = entries[x].incarnation
                  \/ /\ entries[x].incarnation = NoInc
                     /\ entries'[x].incarnation = unsynced[x].incarnation
               /\ unsynced'[x].incarnation = NoInc
    <3>1. unsynced[x] # NoEntry => entries[x].incarnation = NoInc
      BY DEF Inv, RemovedStayAbsent, Pending
    <3>2. /\ entries'[x] = IF x \in S /\ unsynced[x] # NoEntry THEN unsynced[x]
                                                                ELSE entries[x]
          /\ unsynced'[x] = NoEntry
      BY <1>4 DEF PowerLoss, AllSynced
    <3> QED
      BY <3>1, <3>2 DEF NoEntry
  <2> QED
    BY <1>4, <2>1 DEF PowerLoss, BringsBack, ghosts
<1> QED
  BY <1>1, <1>3, <1>4, ClientMoves, WorkerMoves DEF Next, Moves

-----------------------------------------------------------------------------
(* What a step does to the recorded and the posted comments.               *)

RecordsNothing == \A inc \in Incarnations : Recorded(inc)' <=> Recorded(inc)

\* The success line of the journal is appended and nothing else changes.
Records(r) ==
  /\ \A inc \in Incarnations : Recorded(inc)' <=> Recorded(inc) \/ inc = r.incarnation
  /\ UNCHANGED <<entries, unsynced, claims, accepted, born, deleted>>

\* Only append_completion_history records a post, that of its journal.
LEMMA HistoryCases ==
  ASSUME Inv, [Next]_vars
  PROVE  RecordsNothing \/ \E r \in completion : Records(r)
<1>1. TypeOK /\ TokensNameLifetimes
  BY DEF Inv
<1>2. CASE history' = history
  BY <1>2 DEF RecordsNothing, Recorded
<1>3. ASSUME NEW x \in HistoryRecord, history' = Append(history, x), NEW inc
      PROVE  Recorded(inc)' <=> Recorded(inc) \/ (x.incarnation = inc /\ x.outcome = "success")
  <2>1. /\ Len(history) \in Nat
        /\ Len(history') = Len(history) + 1
        /\ \A k \in 1..Len(history) : history'[k] = history[k]
        /\ history'[Len(history) + 1] = x
    BY <1>1, <1>3, AppendFacts DEF TypeOK, StoreTypeOK
  <2>2. 1..Len(history') = (1..Len(history)) \cup {Len(history) + 1}
    BY <2>1
  <2> QED
    BY <2>1, <2>2 DEF Recorded
<1>4. ASSUME NEW ok \in BOOLEAN, RecordFailure(ok), history' # history
      PROVE  RecordsNothing
  <2>1. PICK x \in HistoryRecord : history' = Append(history, x) /\ x.outcome # "success"
    BY <1>1, <1>4, RecordFailureAppends
  <2> QED
    BY <1>3, <2>1 DEF RecordsNothing
<1>5. ASSUME NEW r \in completion, NEW ok \in BOOLEAN,
             AppendCompletionHistory(r, ok), history' # history
      PROVE  RecordsNothing \/ Records(r)
  <2>1. PICK x \in HistoryRecord : history' = Append(history, x)
                                   /\ x.incarnation = r.incarnation
    BY <1>1, <1>5, CompletionAppends
  <2>2. UNCHANGED <<entries, unsynced, claims, accepted, born, deleted>>
    BY <1>5 DEF AppendCompletionHistory, ghosts
  <2>3. CASE x.outcome = "success"
    BY <1>3, <2>1, <2>2, <2>3 DEF Records
  <2>4. CASE x.outcome # "success"
    BY <1>3, <2>1, <2>4 DEF RecordsNothing
  <2> QED
    BY <2>3, <2>4
<1> QED
  BY <1>2, <1>4, <1>5, HistoryFrame

\* Claims only grow, and only GitHub's Accept changes what is posted.
LEMMA PostedCases ==
  ASSUME Inv, OutboxInv, [Next]_vars
  PROVE  /\ accepted' \subseteq 1..Len(claims')
         /\ \/ Posted' = Posted
            \/ \E n \in 1..Len(claims) : Accept(n)
<1>1. TypeOK
  BY DEF Inv
<1>2. CASE \E n \in 1..Len(claims) : Accept(n)
  BY <1>2 DEF Accept, OutboxInv
<1>3. CASE ~ \E n \in 1..Len(claims) : Accept(n)
  <2>1. accepted' = accepted
    <3>1. CASE ClientStep
      BY Zenon, <3>1 DEF ClientStep, Put, Reorder, Del, DelFails, ghosts
    <3>2. ASSUME NEW ok \in BOOLEAN, WorkerStep(ok)
          PROVE  accepted' = accepted
      BY Zenon, <3>2 DEF WorkerStep, Claim, RecordFailure, ReleaseClaim, ClearClaim,
         WriteCompletion, ReconcileCompletion, AppendCompletionHistory, ClearMarker,
         RemoveCompleted, WriteLastPost, RemoveCompletion, ReclaimClaims,
         ReconcileAwaitDeletions, ghosts
    <3>3. CASE LocalStep \/ PostErr \/ ReadFails \/ Crash
               \/ (\E S \in SUBSET Ids : PowerLoss(S)) \/ UNCHANGED vars
      BY Zenon, <3>3 DEF LocalStep, PostOk, NothingToRelease, Cooled, Open,
         RecoverWorkerState, Respawn, PostErr, ReadFails, Crash, PowerLoss, vars, ghosts
    <3> QED
      BY <1>3, <3>1, <3>2, <3>3 DEF Next
  <2>2. CASE claims' = claims
    BY <2>1, <2>2 DEF OutboxInv, Posted
  <2>3. CASE claims' # claims
    <3>1. PICK x \in [id : Ids, incarnation : Incarnations] : claims' = Append(claims, x)
      BY Zenon, <1>1, <2>3, ClaimsFrame
    <3>2. /\ Len(claims) \in Nat /\ Len(claims') = Len(claims) + 1
          /\ \A k \in 1..Len(claims) : claims'[k] = claims[k]
      BY <1>1, <3>1, AppendFacts DEF TypeOK
    <3> QED
      BY <2>1, <3>2 DEF OutboxInv, Posted
  <2> QED
    BY <2>2, <2>3
<1> QED
  BY <1>2, <1>3

-----------------------------------------------------------------------------
(* OutboxInv is inductive, given Inv.                                      *)

LEMMA OnePlaceStep ==
  ASSUME Inv, OutboxInv, [Next]_vars
  PROVE  OnePlace'
<1>1. OnePlace /\ Moves
  BY PlaceFrame DEF OutboxInv
<1>2. \A x \in Ids : /\ entries[x].incarnation \in born \cup {NoInc}
                     /\ unsynced[x].incarnation \in born \cup {NoInc}
  BY DEF OutboxInv, Submitted
<1> DEFINE Apart(i, j) ==
      /\ entries'[i].incarnation # NoInc
         /\ entries'[i].incarnation = entries'[j].incarnation => i = j
      /\ unsynced'[i].incarnation # NoInc =>
           /\ unsynced'[i].incarnation # entries'[j].incarnation
           /\ unsynced'[i].incarnation = unsynced'[j].incarnation => i = j
<1>3. ASSUME NEW i \in Ids, NEW j \in Ids
      PROVE  Apart(i, j)
  <2>1. CASE NothingMoves
    BY <1>1, <2>1 DEF NothingMoves, Same, OnePlace, Pending
  <2>2. ASSUME NEW id \in Ids, NEW inc \in Incarnations, Creates(id, inc)
        PROVE  Apart(i, j)
    BY <1>1, <1>2, <2>2, NoIncAssumption DEF Creates, OnePlace, Pending
  <2>3. ASSUME NEW id \in Ids, TakesAway(id)
        PROVE  Apart(i, j)
    BY <1>1, <2>3 DEF TakesAway, OnePlace, Pending
  <2>4. CASE BringsBack
    BY <1>1, <2>4 DEF BringsBack, OnePlace, Pending
  <2> HIDE DEF Apart
  <2> QED
    BY <1>1, <2>1, <2>2, <2>3, <2>4 DEF Moves
<1> QED
  BY <1>3 DEF OnePlace, Pending

LEMMA SubmittedStep ==
  ASSUME Inv, OutboxInv, [Next]_vars
  PROVE  Submitted'
<1>1. TypeOK /\ Submitted /\ Moves
  BY PlaceFrame DEF Inv, OutboxInv
<1>2. born \subseteq born'
  BY <1>1 DEF Moves, NothingMoves, Creates, TakesAway, BringsBack
<1> DEFINE Known(x) == /\ entries'[x].incarnation \in born' \cup {NoInc}
                       /\ unsynced'[x].incarnation \in born' \cup {NoInc}
<1>3. ASSUME NEW x \in Ids
      PROVE  Known(x)
  <2>1. /\ entries[x].incarnation \in born \cup {NoInc}
        /\ unsynced[x].incarnation \in born \cup {NoInc}
    BY <1>1 DEF Submitted
  <2>2. CASE NothingMoves
    BY <2>1, <2>2 DEF NothingMoves, Same
  <2>3. ASSUME NEW id \in Ids, NEW inc \in Incarnations, Creates(id, inc)
        PROVE  Known(x)
    BY <2>1, <2>3 DEF Creates
  <2>4. ASSUME NEW id \in Ids, TakesAway(id)
        PROVE  Known(x)
    BY <2>1, <2>4 DEF TakesAway
  <2>5. CASE BringsBack
    BY <2>1, <2>5 DEF BringsBack
  <2> QED
    BY <1>1, <2>2, <2>3, <2>4, <2>5 DEF Moves
<1>4. ASSUME NEW n \in 1..Len(claims')
      PROVE  claims'[n].incarnation \in born'
  <2>1. CASE claims' = claims
    BY <1>1, <1>2, <1>4, <2>1 DEF Submitted
  <2>2. CASE claims' # claims
    <3>1. PICK id \in Ids :
            /\ entries[id].incarnation \in Incarnations
            /\ claims' = Append(claims, [id |-> id, incarnation |-> entries[id].incarnation])
      BY <1>1, <2>2, ClaimsFrame
    <3>2. entries[id].incarnation \in born
      BY <1>1, <3>1, NoIncAssumption DEF Submitted
    <3> DEFINE x == [id |-> id, incarnation |-> entries[id].incarnation]
    <3>3. /\ Len(claims) \in Nat /\ Len(claims') = Len(claims) + 1
          /\ \A k \in 1..Len(claims) : claims'[k] = claims[k]
          /\ claims'[Len(claims) + 1] = x
      <4>1. x \in [id : Ids, incarnation : Incarnations]
        BY <3>1
      <4> QED
        BY <1>1, <3>1, <4>1, AppendFacts DEF TypeOK
    <3> QED
      BY <1>1, <1>2, <1>4, <3>2, <3>3 DEF Submitted
  <2> QED
    BY <2>1, <2>2
<1> QED
  BY <1>3, <1>4 DEF Submitted

LEMMA OutboxInvInit ==
  ASSUME Init
  PROVE  OutboxInv
  BY DEF Init, StoreInit, AllSynced, NoEntry, OutboxInv, OnePlace, Submitted, Pending

LEMMA OutboxInvStep ==
  ASSUME Inv, OutboxInv, [Next]_vars
  PROVE  OutboxInv'
  BY OnePlaceStep, SubmittedStep, PostedCases DEF OutboxInv

LEMMA OutboxInvHolds == Spec => [](Inv /\ OutboxInv)
  BY OutboxInvInit, OutboxInvStep, InvHolds, PTL DEF Spec

-----------------------------------------------------------------------------
(* The step simulation.                                                    *)

\* A recorded lifetime was claimed, so it was submitted.
LEMMA RecordedIsSubmitted ==
  ASSUME Inv, OutboxInv, NEW inc, Recorded(inc)
  PROVE  inc \in born
<1>1. PICK k \in 1..Len(history) : history[k].incarnation = inc
  BY DEF Recorded
<1>2. IsClaim(history[k].attempt, history[k].id, inc)
  BY <1>1 DEF Inv, TokensNameLifetimes
<1> QED
  BY <1>2 DEF IsClaim, OutboxInv, Submitted

\* Equal queue, history and puts give an equal status.
LEMMA StatusFrame ==
  ASSUME RecordsNothing, born' = born,
         \A inc \in Incarnations : ~Recorded(inc) => (Queued(inc)' <=> Queued(inc))
  PROVE  Status' = Status
  BY DEF Status, RecordsNothing

\* The status of one comment changes.
LEMMA StatusUpdate ==
  ASSUME NEW c \in Incarnations, NEW v,
         \A inc \in Incarnations : Status'[inc] = IF inc = c THEN v ELSE Status[inc]
  PROVE  Status' = [Status EXCEPT ![c] = v]
  BY Zenon DEF Status

\* GitHub creates a comment.
LEMMA AcceptIsPost ==
  ASSUME Inv, OutboxInv, NEW n \in 1..Len(claims), Accept(n)
  PROVE  \E c \in Incarnations : Promise!Post(c)
<1> DEFINE c == claims[n].incarnation
<1>1. c \in Incarnations /\ c \in born
  BY DEF Inv, TypeOK, OutboxInv, Submitted
<1>2. Status' = Status /\ deleted' = deleted
  BY DEF Accept, files, Status, Recorded, Queued
<1>3. Posted' = Posted \cup {c}
  BY DEF Accept, Posted
<1>4. Status[c] # "absent"
  BY <1>1 DEF Status
<1> QED
  BY <1>1, <1>2, <1>3, <1>4 DEF Promise!Post

\* The success line of the journal is the delivery.
LEMMA RecordIsDelivery ==
  ASSUME Inv, OutboxInv, NEW r \in completion, Records(r)
  PROVE  \/ UNCHANGED Promise!outbox
         \/ \E c \in Incarnations : Promise!Deliver(c)
<1>1. r.incarnation \in Incarnations /\ IsClaim(r.claim, r.id, r.incarnation)
      /\ r.claim \in accepted
  BY LineTypes DEF Inv, LinesOfAttempt, PostedIsAccepted
<1>2. Posted' = Posted /\ deleted' = deleted
  BY DEF Records, Posted
<1>3. CASE Recorded(r.incarnation)
  <2>1. Status' = Status
    BY <1>3 DEF Records, Status, Queued
  <2> QED
    BY <1>2, <2>1 DEF Promise!outbox
<1>4. CASE ~Recorded(r.incarnation)
  <2>1. r.incarnation \in born /\ r.incarnation \in Posted
    BY <1>1 DEF IsClaim, OutboxInv, Submitted, Posted
  <2>2. Status[r.incarnation] \in {"queued", "withdrawn"}
    BY <1>1, <1>4, <2>1 DEF Status
  <2>3. \A inc \in Incarnations :
          Status'[inc] = IF inc = r.incarnation THEN "delivered" ELSE Status[inc]
    BY DEF Records, Status, Queued
  <2>4. Promise!Deliver(r.incarnation)
    BY <1>1, <1>2, <2>1, <2>2, <2>3, StatusUpdate DEF Promise!Deliver
  <2> QED
    BY <1>1, <2>4
<1> QED
  BY <1>3, <1>4

\* A put is the submission.
LEMMA CreateIsSubmit ==
  ASSUME Inv, OutboxInv, RecordsNothing, Posted' = Posted,
         NEW id \in Ids, NEW inc \in Incarnations, Creates(id, inc)
  PROVE  Promise!Submit(inc)
<1>1. ~Recorded(inc) /\ inc # NoInc
  BY RecordedIsSubmitted, NoIncAssumption DEF Creates
<1>2. ~Queued(inc)
  BY <1>1 DEF Creates, Queued, OutboxInv, Submitted
<1>3. \A i \in Incarnations : Queued(i)' <=> Queued(i) \/ i = inc
  BY NoIncAssumption DEF Creates, Queued
<1>4. Status[inc] = "absent"
  BY <1>1, <1>2 DEF Creates, Status
<1>5. \A i \in Incarnations : Status'[i] = IF i = inc THEN "queued" ELSE Status[i]
  BY <1>1, <1>3 DEF Creates, Status, RecordsNothing
<1> QED
  BY <1>4, <1>5, StatusUpdate DEF Creates, Promise!Submit

\* A removal concerns one lifetime only.
LEMMA TakenAway ==
  ASSUME OutboxInv, NEW id \in Ids, TakesAway(id), NEW i \in Incarnations
  PROVE  /\ Queued(entries[id].incarnation)
         /\ Queued(i)' <=> Queued(i) /\ i # entries[id].incarnation
  BY NoIncAssumption DEF TakesAway, Queued, OutboxInv, OnePlace, Pending

\* A del is the withdrawal.
LEMMA RemovalIsWithdraw ==
  ASSUME Inv, OutboxInv, RecordsNothing, Posted' = Posted, NEW id \in Ids,
         TakesAway(id), deleted' = deleted \cup {entries[id].incarnation}
  PROVE  \E c \in Incarnations : Promise!Withdraw(c)
<1> DEFINE c == entries[id].incarnation
<1>1. c \in Incarnations
  BY DEF TakesAway, Inv, TypeOK, StoreTypeOK, Entry
<1>2. born' = born
  BY DEF TakesAway
<1>3. Status[c] = IF Recorded(c) THEN "delivered" ELSE "queued"
  BY <1>1, TakenAway DEF Status
<1>4. c \in born
  BY <1>1, NoIncAssumption DEF OutboxInv, Submitted
<1>5. \A i \in Incarnations :
        Status'[i] = IF i = c THEN (IF Status[c] = "queued" THEN "withdrawn" ELSE Status[c])
                              ELSE Status[i]
  <2> SUFFICES ASSUME NEW i \in Incarnations
               PROVE  Status'[i] = IF i = c
                        THEN (IF Status[c] = "queued" THEN "withdrawn" ELSE Status[c])
                        ELSE Status[i]
    OBVIOUS
  <2>1. Queued(i)' <=> Queued(i) /\ i # c
    BY TakenAway
  <2>2. Recorded(i)' <=> Recorded(i)
    BY DEF RecordsNothing
  <2> QED
    BY <1>1, <1>2, <1>3, <1>4, <2>1, <2>2 DEF Status
<1>6. Status' = [Status EXCEPT ![c] = IF @ = "queued" THEN "withdrawn" ELSE @]
  BY <1>1, <1>5 DEF Status
<1> QED
  BY Zenon, <1>1, <1>3, <1>6 DEF Promise!Withdraw

\* A power loss restores withdrawn comments only.
LEMMA BringsBackIsRestore ==
  ASSUME Inv, OutboxInv, RecordsNothing, Posted' = Posted, BringsBack
  PROVE  \E S \in SUBSET Incarnations : Promise!Restore(S)
<1> DEFINE S == {i \in Incarnations : ~Recorded(i) /\ ~Queued(i) /\ Queued(i)'}
<1>1. \A i \in Incarnations : Queued(i) => Queued(i)'
  BY NoIncAssumption DEF BringsBack, Queued
<1>2. \A i \in S : i \in born
  BY NoIncAssumption DEF BringsBack, Queued, OutboxInv, Submitted
<1>3. \A i \in S : Status[i] = "withdrawn"
  BY <1>2 DEF Status
<1>4. \A i \in Incarnations : Status'[i] = IF i \in S THEN "queued" ELSE Status[i]
  BY <1>1 DEF BringsBack, Status, RecordsNothing
<1>5. Status' = [i \in Incarnations |-> IF i \in S THEN "queued" ELSE Status[i]]
  BY <1>4 DEF Status
<1>6. Promise!Restore(S)
  BY <1>3, <1>5 DEF BringsBack, Promise!Restore
<1> QED
  BY <1>6

\* Every step of Delivery is a step of Outbox or leaves its variables alone.
LEMMA StepSimulation ==
  ASSUME Inv, OutboxInv, [Next]_vars
  PROVE  [Promise!Next]_(Promise!outbox)
<1>1. CASE \E n \in 1..Len(claims) : Accept(n)
  BY <1>1, AcceptIsPost DEF Promise!Next
<1>2. ASSUME NEW r \in completion, Records(r)
      PROVE  [Promise!Next]_(Promise!outbox)
  BY <1>2, RecordIsDelivery DEF Promise!Next
<1>3. CASE RecordsNothing /\ Posted' = Posted
  <2>1. ASSUME NEW id \in Ids, NEW inc \in Incarnations, Creates(id, inc)
        PROVE  Promise!Next
    BY <1>3, <2>1, CreateIsSubmit DEF Promise!Next
  <2>2. ASSUME NEW id \in Ids, TakesAway(id),
               deleted' = deleted \cup {entries[id].incarnation}
        PROVE  Promise!Next
    BY <1>3, <2>2, RemovalIsWithdraw DEF Promise!Next
  <2>3. CASE BringsBack
    BY <1>3, <2>3, BringsBackIsRestore DEF Promise!Next
  <2>4. CASE NothingMoves
    <3>1. \A i \in Incarnations : Queued(i)' <=> Queued(i)
      BY <2>4 DEF NothingMoves, Same, Queued
    <3> QED
      BY <1>3, <2>4, <3>1, StatusFrame DEF NothingMoves, Promise!outbox
  <2>5. ASSUME NEW id \in Ids, TakesAway(id), Recorded(entries[id].incarnation),
               deleted' = deleted
        PROVE  UNCHANGED Promise!outbox
    <3>1. \A i \in Incarnations : ~Recorded(i) => (Queued(i)' <=> Queued(i))
      BY <2>5, TakenAway
    <3>2. born' = born
      BY <2>5 DEF TakesAway
    <3> QED
      BY <1>3, <2>5, <3>1, <3>2, StatusFrame DEF Promise!outbox
  <2> QED
    BY <2>1, <2>2, <2>3, <2>4, <2>5, PlaceFrame DEF Moves
<1> QED
  BY <1>1, <1>2, <1>3, HistoryCases, PostedCases

\* Delivery implements Outbox: through any interleaving of clients and worker,
\* I/O errors, crashes and power losses, a submitted comment stays queued until
\* it is delivered or its own client deletes it, and a delivered one was posted
\* and stays delivered.
THEOREM OutboxImplemented == Spec => ImplementsOutbox
<1>1. Init => Promise!Init
  <2> SUFFICES ASSUME Init
               PROVE  Promise!Init
    OBVIOUS
  <2>1. \A i \in Incarnations : ~Recorded(i) /\ ~Queued(i) /\ i \notin born
    BY NoIncAssumption DEF Init, StoreInit, AllSynced, NoEntry, Recorded, Queued
  <2>2. Status = [i \in Incarnations |-> "absent"]
    BY <2>1 DEF Status
  <2>3. Posted = {} /\ deleted = {}
    BY DEF Init, Posted
  <2> QED
    BY <2>2, <2>3 DEF Promise!Init
<1>2. Inv /\ OutboxInv /\ [Next]_vars => [Promise!Next]_(Promise!outbox)
  BY StepSimulation
<1> QED
  BY <1>1, <1>2, OutboxInvHolds, PTL DEF Spec, ImplementsOutbox, Promise!Spec
=============================================================================
