----------------------------- MODULE AwaitProofs -----------------------------
(***************************************************************************)
(* What a foreground wait is answered with, for any number of waits and    *)
(* identifiers and any faults: the comment of the lifetime it selected, or *)
(* of the newest one.  A step of AwaitLookup is a step of Delivery, seen   *)
(* by every wait, or a step of one wait (QueueCases, WaitCases).           *)
(***************************************************************************)
EXTENDS AwaitLookup, PostsProofs

-----------------------------------------------------------------------------
(* The invariants of Delivery hold while clients wait.                     *)

\* A step that leaves the files, the worker and the record of events alone.
SameFiles == UNCHANGED <<files, worker, ghosts>>

\* A failed read counts as a fault and changes nothing else of Delivery.
ReadFault == SameFiles /\ faults' \in Nat

LEMMA SameFilesFacts ==
  ASSUME SameFiles
  PROVE  /\ entries' = entries /\ unsynced' = unsynced /\ deletions' = deletions
         /\ lastPost' = lastPost /\ lastAttempt' = lastAttempt
         /\ completion' = completion /\ history' = history
         /\ pc' = pc /\ caller' = caller /\ cur' = cur
         /\ claims' = claims /\ accepted' = accepted /\ born' = born
         /\ latest' = latest /\ acked' = acked /\ deleted' = deleted
  BY DEF SameFiles, files, worker, ghosts

LEMMA NoCursorFields == NoCursor.offset = 0 /\ NoCursor.incarnation = NoInc
  BY DEF NoCursor

LEMMA HistoryLength ==
  ASSUME Inv
  PROVE  Len(history) \in Nat /\ Len(history) <= Len(history)
<1>1. Len(history) \in Nat
  BY DEF Inv, TypeOK, StoreTypeOK
<1> QED
  BY <1>1

LEMMA NotALine == ~(Unknown > 0) /\ ~(ReadError > 0) /\ Unknown # ReadError
  BY DEF Unknown, ReadError

LEMMA NoLineIsUnknown ==
  ASSUME NEW k \in Nat \cup {ReadError}, k # ReadError, ~(k > 0)
  PROVE  k = Unknown
  BY DEF Unknown

LEMMA ClaimFields ==
  ASSUME NEW n, NEW id, NEW inc, IsClaim(n, id, inc)
  PROVE  /\ n \in 1..Len(claims) /\ n # NoToken
         /\ claims[n].id = id /\ claims[n].incarnation = inc
  BY DEF IsClaim, NoToken

LEMMA NoLongerThan ==
  ASSUME NEW a \in Nat, NEW b \in Nat, NEW c \in Nat, a <= b, b <= c
  PROVE  a <= c
  OBVIOUS

LEMMA CompletionsAreLines ==
  ASSUME NEW id, NEW c, NEW k \in Completions(id, c)
  PROVE  k # Unknown
  BY DEF Completions, Unknown

\* What the waits ask of the files.
LEMMA SameAnswers ==
  ASSUME SameFiles, NEW inc, NEW id, NEW boundary
  PROVE  /\ Pending(id)' <=> Pending(id)
         /\ Recorded(inc)' <=> Recorded(inc)
         /\ RecordedBy(inc, boundary)' <=> RecordedBy(inc, boundary)
         /\ BelongsTo(inc, id)' <=> BelongsTo(inc, id)
         /\ BeingPosted(inc)' <=> BeingPosted(inc)
<1>1. Pending(id)' <=> Pending(id)
  BY SameFilesFacts DEF Pending
<1>2. Recorded(inc)' <=> Recorded(inc)
  BY SameFilesFacts DEF Recorded
<1>3. RecordedBy(inc, boundary)' <=> RecordedBy(inc, boundary)
  BY SameFilesFacts DEF RecordedBy
<1>4. BelongsTo(inc, id)' <=> BelongsTo(inc, id)
  BY SameFilesFacts DEF BelongsTo
<1>5. BeingPosted(inc)' <=> BeingPosted(inc)
  BY SameFilesFacts DEF BeingPosted, Attempting
<1> QED
  BY Zenon, <1>1, <1>2, <1>3, <1>4, <1>5

\* A step of the waits alone leaves Delivery alone but for its faults.
LEMMA DeliverySteps ==
  ASSUME TypeOK, [AwaitNext]_all
  PROVE  [Next]_vars \/ ReadFault
<1>1. CASE QueueStep(Next)
  BY <1>1 DEF QueueStep
<1>2. ASSUME NEW w \in Waiters, ScanFails(w) \/ ObserveFails(w)
      PROVE  ReadFault
  BY <1>2 DEF ScanFails, ObserveFails, Fault, ReadFault, SameFiles, TypeOK
<1>3. ASSUME NEW w \in Waiters,
             \/ \E id \in Ids : Subscribe(w, id)
             \/ LookupStep(w) \/ Heartbeat(w) \/ ClientGone(w)
      PROVE  UNCHANGED vars
  BY Zenon, <1>3 DEF Subscribe, LookupStep, Observe, ReadMarker, ScanHistory, Recheck,
     Notified, Heartbeat, ClientGone
<1>4. CASE (\E id \in Ids : PutAgain(id)) \/ NothingDue \/ UNCHANGED all
  BY Zenon, <1>4 DEF PutAgain, NothingDue, all
<1> QED
  BY <1>1, <1>2, <1>3, <1>4 DEF AwaitNext

LEMMA FaultKeepsInv ==
  ASSUME Inv, ReadFault
  PROVE  Inv'
<1>1. SameFiles /\ faults' \in Nat
  BY DEF ReadFault
<1> USE SameFilesFacts, <1>1
<1>2. TypeOK'
  BY Zenon DEF Inv, TypeOK, StoreTypeOK
<1>3. (TokensNameLifetimes /\ RemovedStayAbsent /\ PostedIsAccepted /\ LinesOfAttempt)'
  BY DEF Inv, TokensNameLifetimes, RemovedStayAbsent, PostedIsAccepted, LinesOfAttempt,
     Attempting, IsClaim, Pending
<1>4. (JournalPhase /\ ClaimPhase)'
  BY Zenon DEF Inv, JournalPhase, ClaimPhase, Attempting, Recorded, Claimed
<1>5. (RecordedIsReal /\ RecordedOnce /\ NothingLost)'
  BY Zenon DEF Inv, RecordedIsReal, RecordedOnce, NothingLost, Queued, Recorded
<1> QED
  BY <1>2, <1>3, <1>4, <1>5 DEF Inv

LEMMA FaultKeepsOutboxInv ==
  ASSUME OutboxInv, ReadFault
  PROVE  OutboxInv'
<1>1. SameFiles
  BY DEF ReadFault
<1> QED
  BY Zenon, <1>1, SameFilesFacts DEF OutboxInv, OnePlace, Submitted, Pending

LEMMA FaultKeepsMarkerInv ==
  ASSUME PostsInv, MarkerInv, ReadFault
  PROVE  PostsInv' /\ MarkerInv'
<1>1. SameFiles
  BY DEF ReadFault
<1> USE SameFilesFacts, <1>1
<1>2. (NewestClaim /\ ClaimsNameIds /\ RemovalAhead)'
  BY DEF PostsInv, NewestClaim, ClaimsNameIds, RemovalAhead, Attempting, HoldsClaim,
     Pending, Recorded
<1>3. (AnchorAhead /\ RecordedNeverReposted)'
  BY DEF PostsInv, AnchorAhead, RecordedNeverReposted
<1>4. MarkerInv'
  BY DEF MarkerInv, LatestIsOwn, MarkerAhead, MarkerCleared, Pending, Recorded
<1> QED
  BY <1>2, <1>3, <1>4 DEF PostsInv

\* Inv and the invariant of the refinement hold while clients wait.
LEMMA DeliveryHolds == AwaitSpec => [](Inv /\ OutboxInv)
<1>1. AwaitInit => Inv /\ OutboxInv
  BY InvInit, OutboxInvInit DEF AwaitInit
<1>2. Inv /\ OutboxInv /\ [AwaitNext]_all => (Inv /\ OutboxInv)'
  BY DeliverySteps, InvStep, OutboxInvStep, FaultKeepsInv, FaultKeepsOutboxInv DEF Inv
<1> QED
  BY <1>1, <1>2, PTL DEF AwaitSpec

\* So do, while the power stays on, those of the posts and of the markers.
LEMMA MarkersHold ==
  ASSUME ~PowerFails
  PROVE  AwaitSpec => [](PostsInv /\ MarkerInv)
<1>1. AwaitInit => PostsInv /\ MarkerInv
  BY PostsInvInit, MarkerInvInit DEF AwaitInit
<1>2. Inv /\ OutboxInv /\ PostsInv /\ MarkerInv /\ [AwaitNext]_all => (PostsInv /\ MarkerInv)'
  BY Zenon, DeliverySteps, PostsInvStep, MarkerInvStep, FaultKeepsMarkerInv DEF Inv
<1> QED
  BY <1>1, <1>2, DeliveryHolds, PTL DEF AwaitSpec

-----------------------------------------------------------------------------
(* What a step does to the waits.                                          *)

SameWait(w) ==
  /\ at'[w] = at[w] /\ wid'[w] = wid[w] /\ cursor'[w] = cursor[w]
  /\ found'[w] = found[w] /\ moved'[w] = moved[w]

\* A step of Delivery, or one that only publishes: a wait ends with the process,
\* and sees what is published.
Watches(w) ==
  /\ at'[w] \in {at[w], "gone"} /\ wid'[w] = wid[w] /\ cursor'[w] = cursor[w]
  /\ found'[w] = found[w] /\ moved'[w] \in BOOLEAN
  /\ ~moved'[w] => ~moved[w] /\ (~Publishes \/ UNCHANGED vars)

\* A wait begins, is woken, starts its lookup again, fails or loses its client.
Turns(w) ==
  /\ at'[w] \in {"observe", "failed", "gone"}
  /\ \/ wid'[w] = wid[w] /\ at[w] # "off"
     \/ wid'[w] \in Ids /\ at[w] = "off"
  /\ cursor'[w] = cursor[w] /\ found'[w] = found[w] /\ moved'[w] = moved[w]

\* The entry is queued.
Selects(w) ==
  /\ at[w] \in Lookups /\ MatchesPending(w)
  /\ at'[w] = "wait" /\ wid'[w] = wid[w] /\ found'[w] = found[w] /\ moved'[w] = moved[w]
  /\ cursor'[w] = IF cursor[w] = NoCursor
                  THEN [offset |-> Len(history), incarnation |-> entries[wid[w]].incarnation]
                  ELSE cursor[w]

LEMMA SelectedCursor ==
  ASSUME NEW w, Selects(w), cursor[w] = NoCursor
  PROVE  /\ cursor'[w].offset = Len(history)
         /\ cursor'[w].incarnation = entries[wid[w]].incarnation
  BY DEF Selects

\* The entry is not queued: the lookup goes on to the marker and the history.
Begins(w) ==
  /\ at[w] = "observe" /\ ~MatchesPending(w)
  /\ at'[w] = "marker" /\ ~moved'[w]
  /\ wid'[w] = wid[w] /\ cursor'[w] = cursor[w] /\ found'[w] = found[w]

\* The marker decides, or the scan follows.
Reads(w) ==
  /\ at[w] = "marker"
  /\ wid'[w] = wid[w] /\ cursor'[w] = cursor[w] /\ moved'[w] = moved[w]
  /\ \/ /\ cursor[w] = NoCursor /\ deletions[wid[w]] # NoInc
        /\ at'[w] = "recheck" /\ found'[w] = Unknown
     \/ /\ cursor[w] # NoCursor \/ deletions[wid[w]] = NoInc
        /\ at'[w] = "scan" /\ found'[w] = found[w]

\* The scan finds the last line, or none, or fails.
Scans(w) ==
  /\ at[w] \in {"marker", "scan"} /\ at'[w] = "recheck"
  /\ wid'[w] = wid[w] /\ cursor'[w] = cursor[w] /\ moved'[w] = moved[w]
  /\ \/ found'[w] = ReadError
     \/ /\ at[w] = "scan" /\ found'[w] = Unknown
        /\ Completions(wid[w], cursor[w]) = {}
     \/ /\ at[w] = "scan" /\ found'[w] \in Completions(wid[w], cursor[w])
        /\ \A j \in Completions(wid[w], cursor[w]) : j <= found'[w]

\* The answer.
Answers(w) ==
  /\ at[w] = "recheck" /\ ~MatchesPending(w) /\ ~moved[w]
  /\ at'[w] = Outcome(w) /\ wid'[w] = wid[w] /\ cursor'[w] = cursor[w]
  /\ found'[w] = found[w] /\ moved'[w] = moved[w]

WaitStep(w) ==
  Turns(w) \/ Selects(w) \/ Begins(w) \/ Reads(w) \/ Scans(w) \/ Answers(w)

\* One wait moves on and the others stay as they are.
OneWaits == SameFiles /\ \E w \in Waiters : WaitStep(w) /\ \A v \in Waiters \ {w} : SameWait(v)

AllWatch == [Next]_vars /\ \A w \in Waiters : Watches(w)

\* A step of one wait, by its kind.
LEMMA WaitCases ==
  ASSUME WaitTypes, NEW w \in Waiters,
         \/ \E id \in Ids : Subscribe(w, id)
         \/ LookupStep(w) \/ ScanFails(w) \/ ObserveFails(w) \/ Heartbeat(w) \/ ClientGone(w)
  PROVE  WaitStep(w) /\ \A v \in Waiters \ {w} : SameWait(v)
<1> USE DEF WaitTypes, SameWait, WaitStep
<1>1. ASSUME NEW id \in Ids, Subscribe(w, id)
      PROVE  Turns(w) /\ \A v \in Waiters \ {w} : SameWait(v)
  BY <1>1 DEF Subscribe, Turns
<1>2. CASE Notified(w) \/ Heartbeat(w) \/ ClientGone(w) \/ ObserveFails(w)
  BY Zenon, <1>2 DEF Notified, Heartbeat, ClientGone, ObserveFails, Turns
<1>3. CASE Observe(w)
  BY Zenon, <1>3 DEF Observe, PendingAwaitState, Selects, Begins, Lookups
<1>4. CASE ReadMarker(w)
  BY <1>4 DEF ReadMarker, Reads
<1>5. CASE ScanHistory(w) \/ ScanFails(w)
  BY Zenon, <1>5 DEF ScanHistory, ScanFails, Scans
<1>6. CASE Recheck(w)
  BY Zenon, <1>6 DEF Recheck, PendingAwaitState, Selects, Turns, Answers, Lookups
<1> QED
  BY Zenon, <1>1, <1>2, <1>3, <1>4, <1>5, <1>6 DEF LookupStep

\* Every step is one that all waits watch, or a step of one of them.
LEMMA StepCases ==
  ASSUME TypeOK, WaitTypes, [AwaitNext]_all
  PROVE  AllWatch \/ OneWaits
<1>1. CASE QueueStep(Next)
  BY Zenon, <1>1 DEF QueueStep, Publish, AllWatch, Watches, WaitTypes
<1>2. CASE (\E id \in Ids : PutAgain(id)) \/ NothingDue
  BY Zenon, <1>2 DEF PutAgain, NothingDue, Publish, AllWatch, Watches, WaitTypes
<1>3. CASE UNCHANGED all
  BY <1>3 DEF all, waits, AllWatch, Watches, WaitTypes
<1>4. ASSUME NEW w \in Waiters,
             \/ \E id \in Ids : Subscribe(w, id)
             \/ LookupStep(w) \/ ScanFails(w) \/ ObserveFails(w) \/ Heartbeat(w)
             \/ ClientGone(w)
      PROVE  OneWaits
  <2>1. SameFiles
    BY Zenon, <1>4 DEF Subscribe, LookupStep, Observe, ReadMarker, ScanHistory, Recheck,
       Notified, ScanFails, ObserveFails, Heartbeat, ClientGone, SameFiles, vars
  <2> QED
    BY <1>4, <2>1, WaitCases DEF OneWaits
<1> QED
  BY <1>1, <1>2, <1>3, <1>4 DEF AwaitNext

-----------------------------------------------------------------------------
(* What a wait holds, and what it is shown.                                *)

LEMMA WaitTypesStep ==
  ASSUME TypeOK, WaitTypes, [AwaitNext]_all
  PROVE  WaitTypes'
<1> USE DEF WaitTypes
<1>1. /\ entries \in [Ids -> Entry] /\ Len(history) \in Nat
      /\ \A id \in Ids : entries[id].incarnation \in Incarnations \cup {NoInc}
  BY DEF TypeOK, StoreTypeOK, Entry
<1>2. CASE QueueStep(Next)
  <2>1. moved' = [w \in Waiters |-> moved[w] \/ Publishes]
    BY <1>2 DEF QueueStep, Publish
  <2>2. moved' \in [Waiters -> BOOLEAN]
    BY Zenon, <2>1
  <2>3. /\ at' = [w \in Waiters |->
                  IF pc' = "down" /\ at[w] \in Active THEN "gone" ELSE at[w]]
        /\ UNCHANGED <<wid, cursor, found>>
    BY <1>2 DEF QueueStep
  <2> QED
    BY <2>2, <2>3 DEF Ended, Active, Lookups
<1>3. CASE (\E id \in Ids : PutAgain(id)) \/ NothingDue
  BY Zenon, <1>3 DEF PutAgain, NothingDue, Publish
<1>4. CASE UNCHANGED all
  BY <1>4 DEF all, waits
<1>5. ASSUME NEW w \in Waiters, NEW id \in Ids, Subscribe(w, id)
      PROVE  WaitTypes'
  BY <1>5 DEF Subscribe, Active, Lookups
<1>6. ASSUME NEW w \in Waiters, Notified(w) \/ Heartbeat(w) \/ ClientGone(w) \/ ObserveFails(w)
      PROVE  WaitTypes'
  <2>1. CASE Notified(w) \/ Heartbeat(w)
    BY <2>1 DEF Notified, Heartbeat, Active, Lookups
  <2>2. CASE ClientGone(w) \/ ObserveFails(w)
    BY <2>2 DEF ClientGone, ObserveFails, Active, Lookups, Ended
  <2> QED
    BY Zenon, <1>6, <2>1, <2>2
<1>7. ASSUME NEW w \in Waiters, ReadMarker(w) \/ ScanFails(w)
      PROVE  WaitTypes'
  BY <1>7 DEF ReadMarker, ScanFails, Active, Lookups, Unknown
<1>8. ASSUME NEW w \in Waiters, ScanHistory(w)
      PROVE  WaitTypes'
  <2>1. Completions(wid[w], cursor[w]) \subseteq Nat
    BY <1>1 DEF Completions
  <2>2. PICK k \in Nat : found' = [found EXCEPT ![w] = k]
    BY <1>8, <2>1 DEF ScanHistory, Unknown
  <2> QED
    BY <1>8, <2>2 DEF ScanHistory, Active, Lookups
<1>9. ASSUME NEW w \in Waiters, Observe(w) \/ Recheck(w)
      PROVE  WaitTypes'
  <2>1. Outcome(w) \in Ended
    BY DEF Outcome, Ended
  <2>2. at[w] # "off" /\ wid[w] \in Ids
    BY Zenon, <1>9 DEF Observe, Recheck
  <2>3. CASE MatchesPending(w) /\ PendingAwaitState(w) /\ UNCHANGED <<wid, found, moved>>
    <3>1. entries[wid[w]].incarnation \in Incarnations
      BY <1>1, <2>2, <2>3 DEF MatchesPending, Pending
    <3> QED
      BY Zenon, <1>1, <2>2, <2>3, <3>1, NoIncAssumption DEF PendingAwaitState, Active, NoCursor
  <2>4. CASE ~MatchesPending(w)
    BY Zenon, <1>9, <2>1, <2>2, <2>4 DEF Observe, Recheck, Active, Lookups, Ended
  <2> QED
    BY Zenon, <1>9, <2>3, <2>4 DEF Observe, Recheck
<1> QED
  BY Zenon, <1>2, <1>3, <1>4, <1>5, <1>6, <1>7, <1>8, <1>9 DEF AwaitNext, LookupStep

\* Lines of the history stay where they are.
LEMMA LinesStay ==
  ASSUME TypeOK, TokensNameLifetimes, [Next]_vars
  PROVE  /\ Len(history) \in Nat /\ Len(history') \in Nat /\ Len(history) <= Len(history')
         /\ \A k \in 1..Len(history) : history'[k] = history[k]
<1>1. history \in Seq(HistoryRecord)
  BY DEF TypeOK, StoreTypeOK
<1>2. CASE history' = history
  BY <1>1, <1>2
<1>3. CASE history' # history
  <2>1. PICK x \in HistoryRecord : history' = Append(history, x)
    BY <1>3, HistoryGrows
  <2> QED
    BY <1>1, <2>1, AppendFacts
<1> QED
  BY <1>2, <1>3

LEMMA FoundInvStep ==
  ASSUME Inv, FoundInv, [AwaitNext]_all
  PROVE  FoundInv'
<1>1. TypeOK /\ TokensNameLifetimes /\ WaitTypes /\ WaitTypes'
  BY WaitTypesStep DEF Inv, FoundInv
<1> SUFFICES ASSUME NEW w \in Waiters
             PROVE  FoundLine(w)'
  BY <1>1 DEF FoundInv
<1>2. FoundLine(w)
  BY DEF FoundInv
<1>3. CASE AllWatch
  <2>1. Watches(w) /\ [Next]_vars
    BY Zenon, <1>3 DEF AllWatch
  <2> QED
    BY <1>1, <1>2, <2>1, LinesStay DEF Watches, FoundLine
<1>4. ASSUME SameFiles, SameWait(w)
      PROVE  FoundLine(w)'
  BY Zenon, <1>2, <1>4, SameFilesFacts DEF SameWait, FoundLine
<1>5. ASSUME SameFiles, WaitStep(w)
      PROVE  FoundLine(w)'
  <2> USE SameFilesFacts, <1>5 DEF FoundLine
  <2>1. CASE Turns(w) \/ Selects(w) \/ Begins(w)
    BY Zenon, <2>1 DEF Turns, Selects, Begins
  <2>2. CASE Reads(w)
    BY <2>2 DEF Reads, Unknown
  <2>3. CASE Scans(w)
    BY <2>3 DEF Scans, Completions, Unknown, ReadError
  <2>4. CASE Answers(w)
    BY Zenon, <1>2, <2>4 DEF Answers, Outcome
  <2> QED
    BY Zenon, <1>5, <2>1, <2>2, <2>3, <2>4 DEF WaitStep
<1> QED
  BY <1>1, <1>3, <1>4, <1>5, StepCases DEF OneWaits

\* FoundInv holds in every reachable state.
LEMMA FoundInvHolds == AwaitSpec => []FoundInv
<1>1. AwaitInit => FoundInv
  BY DEF AwaitInit, FoundInv, WaitTypes, FoundLine, NoCursor, Unknown
<1>2. Inv /\ FoundInv /\ [AwaitNext]_all => FoundInv'
  BY FoundInvStep
<1> QED
  BY <1>1, <1>2, DeliveryHolds, PTL DEF AwaitSpec

\* A wait that selected a queued lifetime is never answered with the comment of
\* another lifetime of the identifier, whatever is deleted, reused, lost with
\* the power or posted while it waits.
THEOREM PostedAsSelected == AwaitSpec => []PostedIsSelected
<1>1. FoundInv => PostedIsSelected
  BY Zenon DEF FoundInv, FoundLine, WaitTypes, PostedIsSelected
<1> QED
  BY <1>1, FoundInvHolds, PTL

-----------------------------------------------------------------------------
(* The selected lifetime.                                                  *)

\* A lifetime found under an identifier was there before, or is being put.
LEMMA PlacesStay ==
  ASSUME Inv, [Next]_vars, NEW x \in Ids,
         NEW inc \in {entries'[x].incarnation, unsynced'[x].incarnation},
         inc # NoInc, inc \in born
  PROVE  inc \in {entries[x].incarnation, unsynced[x].incarnation}
<1>1. Moves
  BY PlaceFrame
<1>2. ASSUME NEW id \in Ids, NEW new \in Incarnations, Creates(id, new)
      PROVE  inc \in {entries[x].incarnation, unsynced[x].incarnation}
  BY Zenon, <1>2 DEF Creates
<1>3. ASSUME NEW id \in Ids, TakesAway(id)
      PROVE  inc \in {entries[x].incarnation, unsynced[x].incarnation}
  BY <1>3 DEF TakesAway
<1> QED
  BY Zenon, <1>1, <1>2, <1>3 DEF Moves, NothingMoves, Same, BringsBack

\* A claim in the next state is an old one or that of a queued entry.
LEMMA ClaimCases ==
  ASSUME Inv, [Next]_vars, NEW n \in 1..Len(claims')
  PROVE  \/ n \in 1..Len(claims) /\ claims'[n] = claims[n]
         \/ /\ n = Len(claims) + 1
            /\ \E id \in Ids : /\ claims'[n] = [id |-> id, incarnation |-> entries[id].incarnation]
                               /\ Pending(id)
                               /\ latest' = latest
<1>1. TypeOK /\ claims \in Seq([id : Ids, incarnation : Incarnations])
  BY DEF Inv, TypeOK
<1>2. CASE claims' = claims
  BY Zenon, <1>2
<1>3. CASE claims' # claims
  <2>1. PICK id \in Ids, ok \in BOOLEAN :
          /\ Claim(id, ok)
          /\ [id |-> id, incarnation |-> entries[id].incarnation]
               \in [id : Ids, incarnation : Incarnations]
          /\ claims' = Append(claims, [id |-> id, incarnation |-> entries[id].incarnation])
    BY Zenon, <1>1, <1>3, ClaimsFrame
  <2>2. Pending(id) /\ latest' = latest
    BY Zenon, <2>1 DEF Claim
  <2> HIDE DEF Pending
  <2> QED
    BY <1>1, <2>1, <2>2, AppendFacts
<1> QED
  BY <1>2, <1>3

LEMMA BelongsToStays ==
  ASSUME Inv, [Next]_vars, NEW inc \in born, inc # NoInc, NEW id, BelongsTo(inc, id)
  PROVE  BelongsTo(inc, id)'
<1>1. ASSUME NEW x \in Ids, inc \in {entries'[x].incarnation, unsynced'[x].incarnation}
      PROVE  x = id
  BY <1>1, PlacesStay DEF BelongsTo
<1>2. ASSUME NEW n \in 1..Len(claims'), claims'[n].incarnation = inc
      PROVE  claims'[n].id = id
  <2>1. CASE n \in 1..Len(claims) /\ claims'[n] = claims[n]
    BY <1>2, <2>1 DEF BelongsTo
  <2>2. ASSUME NEW x \in Ids, claims'[n] = [id |-> x, incarnation |-> entries[x].incarnation]
        PROVE  claims'[n].id = id
    BY <1>2, <2>2 DEF BelongsTo
  <2> QED
    BY Zenon, <2>1, <2>2, ClaimCases
<1> QED
  BY Zenon, <1>1, <1>2 DEF BelongsTo

LEMMA PlacesOwnClaimsStep ==
  ASSUME Inv, OutboxInv, PlacesOwnClaims, [Next]_vars
  PROVE  PlacesOwnClaims'
<1> SUFFICES ASSUME NEW n \in 1..Len(claims'), NEW x \in Ids,
                    claims'[n].incarnation \in {entries'[x].incarnation,
                                                unsynced'[x].incarnation}
             PROVE  claims'[n].id = x
  BY DEF PlacesOwnClaims
<1>1. NoInc \notin born
  BY Zenon, NoIncAssumption DEF Inv, TypeOK
<1>2. CASE n \in 1..Len(claims) /\ claims'[n] = claims[n]
  <2>1. claims[n].incarnation \in born
    BY <1>2 DEF OutboxInv, Submitted
  <2> QED
    BY <1>1, <1>2, <2>1, PlacesStay DEF PlacesOwnClaims
<1>3. ASSUME NEW id \in Ids, Pending(id),
             claims'[n] = [id |-> id, incarnation |-> entries[id].incarnation]
      PROVE  claims'[n].id = x
  <2>1. entries[id].incarnation \in born
    BY Zenon, <1>3 DEF OutboxInv, Submitted, Pending
  <2>2. entries[id].incarnation \in {entries[x].incarnation, unsynced[x].incarnation}
    BY <1>1, <1>3, <2>1, PlacesStay
  <2> QED
    BY <1>3, <2>2 DEF OutboxInv, OnePlace, Pending
<1> QED
  BY Zenon, <1>2, <1>3, ClaimCases

\* What is recorded before a boundary of the history stays so.
LEMMA RecordedByStays ==
  ASSUME TypeOK, TokensNameLifetimes, [Next]_vars, NEW inc, NEW b \in Nat,
         b <= Len(history), RecordedBy(inc, b)
  PROVE  RecordedBy(inc, b)'
  BY LinesStay DEF RecordedBy

\* A lookup that finds its selected lifetime recorded finds its line, unless that
\* is before the boundary.
LEMMA EmptyScan ==
  ASSUME Inv, NEW id, NEW inc, NEW b \in Nat, inc # NoInc, BelongsTo(inc, id),
         Recorded(inc), Completions(id, [offset |-> b, incarnation |-> inc]) = {}
  PROVE  RecordedBy(inc, b)
<1>1. PICK k \in 1..Len(history) :
        history[k].incarnation = inc /\ history[k].outcome = "success"
  BY Zenon DEF Recorded
<1>2. IsClaim(history[k].attempt, history[k].id, inc)
  BY Zenon, <1>1 DEF Inv, TokensNameLifetimes
<1>3. history[k].id = id
  BY <1>2, ClaimFields DEF BelongsTo
<1>4. Len(history) \in Nat
  BY DEF Inv, TypeOK, StoreTypeOK
<1>5. ~(k > b)
  BY Zenon, <1>1, <1>3 DEF Completions
<1> QED
  BY <1>1, <1>4, <1>5 DEF RecordedBy

\* While the queue moves, a wait's selected lifetime stays accounted for.
LEMMA SelectionWatched ==
  ASSUME Inv, [Next]_vars, WaitTypes, NEW w \in Waiters, Selection(w), Watches(w)
  PROVE  Selection(w)'
<1> DEFINE inc == cursor[w].incarnation
<1> SUFFICES ASSUME inc # NoInc
             PROVE  Selection(w)'
  BY Zenon DEF Selection, Watches
<1>1. /\ TypeOK /\ TokensNameLifetimes
      /\ wid[w] \in Ids /\ cursor[w].offset \in Nat /\ at[w] # "off"
  BY NoIncAssumption DEF Inv, WaitTypes, NoCursor
<1>2. /\ inc \in born
      /\ cursor[w].offset <= Len(history)
      /\ BelongsTo(inc, wid[w])
      /\ inc \in deleted \/ Recorded(inc)
         \/ (at[w] \notin Answering /\ entries[wid[w]].incarnation = inc)
      /\ (at[w] = "recheck" /\ found[w] = Unknown) \/ at[w] = "removed" =>
           inc \in deleted \/ RecordedBy(inc, cursor[w].offset)
  BY Zenon DEF Selection
<1>3. /\ cursor'[w] = cursor[w] /\ wid'[w] = wid[w] /\ found'[w] = found[w]
      /\ at'[w] \in {at[w], "gone"}
  BY Zenon DEF Watches
<1>4. born \subseteq born' /\ deleted \subseteq deleted'
  BY Zenon, PlaceFrame DEF Moves, NothingMoves, Creates, TakesAway, BringsBack
<1>5. cursor[w].offset <= Len(history')
  BY Zenon, <1>1, <1>2, LinesStay, NoLongerThan
<1>6. BelongsTo(inc, wid[w])'
  BY Zenon, <1>2, <1>3, BelongsToStays
<1>7. \/ inc \in deleted' \/ Recorded(inc)'
      \/ at'[w] \notin Answering /\ entries'[wid[w]].incarnation = inc
  <2>1. CASE inc \in deleted \/ Recorded(inc)
    BY Zenon, <1>1, <1>3, <1>4, <2>1, RecordedStays
  <2>2. CASE at[w] \notin Answering /\ entries[wid[w]].incarnation = inc
    <3>1. Rewritten(wid[w]) \/ inc \in deleted' \/ Recorded(inc)
      BY Zenon, <1>1, <2>2, LeavesQueueDone DEF Pending
    <3> QED
      BY Zenon, <1>1, <1>3, <2>2, <3>1, RecordedStays DEF Rewritten, Answering
  <2> QED
    BY Zenon, <1>2, <2>1, <2>2
<1>8. (at'[w] = "recheck" /\ found'[w] = Unknown) \/ at'[w] = "removed" =>
        inc \in deleted' \/ RecordedBy(inc, cursor[w].offset)'
  BY Zenon, <1>1, <1>2, <1>3, <1>4, RecordedByStays
<1> QED
  BY Zenon, <1>2, <1>3, <1>4, <1>5, <1>6, <1>7, <1>8 DEF Selection

\* A selection the wait keeps.
LEMMA SelectionKept ==
  ASSUME SameFiles, NEW w \in Waiters, Selection(w), cursor'[w] = cursor[w],
         NEW inc, inc = cursor[w].incarnation,
         wid'[w] = wid[w] \/ inc = NoInc,
         inc # NoInc /\ at'[w] \in Answering => inc \in deleted \/ Recorded(inc),
         inc # NoInc =>
           ((at'[w] = "recheck" /\ found'[w] = Unknown) \/ at'[w] = "removed" =>
              inc \in deleted \/ RecordedBy(inc, cursor[w].offset))
  PROVE  Selection(w)'
<1> USE SameFilesFacts
<1>1. cursor'[w].incarnation = inc /\ cursor'[w].offset = cursor[w].offset
  BY Zenon
<1>2. Recorded(cursor[w].incarnation)' <=> Recorded(inc)
  BY Zenon, <1>1, SameAnswers
<1>3. RecordedBy(cursor[w].incarnation, cursor[w].offset)' <=> RecordedBy(inc, cursor[w].offset)
  BY Zenon, <1>1, SameAnswers
<1>4. inc # NoInc =>
        wid'[w] = wid[w] /\ (BelongsTo(cursor[w].incarnation, wid[w])' <=> BelongsTo(inc, wid[w]))
  BY Zenon, <1>1, SameAnswers
<1>5. inc # NoInc => inc \in born' /\ cursor[w].offset <= Len(history') /\ BelongsTo(inc, wid[w])
  BY Zenon DEF Selection
<1>6. inc # NoInc =>
        \/ inc \in deleted' \/ Recorded(inc)
        \/ at'[w] \notin Answering /\ entries'[wid'[w]].incarnation = inc
  BY Zenon, <1>4 DEF Selection
<1>7. deleted' = deleted
  BY Zenon
<1> QED
  BY Zenon, <1>1, <1>2, <1>3, <1>4, <1>5, <1>6, <1>7 DEF Selection

\* A step of the wait itself.
LEMMA SelectionMoves ==
  ASSUME Inv, OutboxInv, PlacesOwnClaims, WaitTypes, SameFiles,
         NEW w \in Waiters, Selection(w), WaitStep(w)
  PROVE  Selection(w)'
<1> USE SameFilesFacts
<1> DEFINE inc == cursor[w].incarnation
<1>1. CASE Selects(w) /\ cursor[w] = NoCursor
  <2> DEFINE new == entries[wid[w]].incarnation
  <2>1. wid[w] \in Ids /\ new # NoInc
    BY Zenon, <1>1 DEF Selects, Lookups, WaitTypes, MatchesPending, Pending
  <2>2. new \in born /\ BelongsTo(new, wid[w])
    BY Zenon, <2>1 DEF OutboxInv, OnePlace, Submitted, PlacesOwnClaims, BelongsTo, Pending
  <2>4. cursor'[w].offset = Len(history) /\ cursor'[w].incarnation = new
    BY Zenon, <1>1, SelectedCursor
  <2>5. Len(history) <= Len(history)
    BY Zenon, HistoryLength
  <2> QED
    <3>1. wid'[w] = wid[w] /\ at'[w] = "wait"
      BY Zenon, <1>1 DEF Selects
    <3>2. BelongsTo(cursor[w].incarnation, wid[w])'
      BY Zenon, <2>2, <2>4, <3>1, SameAnswers
    <3>3. cursor'[w].incarnation \in born' /\ cursor'[w].offset <= Len(history')
      BY Zenon, <2>2, <2>4, <2>5
    <3>4. entries'[wid'[w]].incarnation = cursor'[w].incarnation
      BY Zenon, <2>4, <3>1
    <3> QED
      BY Zenon, <3>1, <3>2, <3>3, <3>4 DEF Selection, Answering
<1>2. ASSUME cursor'[w] = cursor[w], wid'[w] = wid[w] \/ inc = NoInc,
             inc # NoInc /\ at'[w] \in Answering => inc \in deleted \/ Recorded(inc),
             inc # NoInc =>
               ((at'[w] = "recheck" /\ found'[w] = Unknown) \/ at'[w] = "removed" =>
                  inc \in deleted \/ RecordedBy(inc, cursor[w].offset))
      PROVE  Selection(w)'
  BY Zenon, <1>2, SelectionKept
<1>3. CASE Turns(w) \/ (Selects(w) /\ cursor[w] # NoCursor)
  <2>1. inc # NoInc => at[w] # "off"
    BY Zenon, NoCursorFields DEF WaitTypes
  <2> QED
    BY Zenon, <1>2, <1>3, <2>1 DEF Turns, Selects, Answering
<1>4. CASE Begins(w)
  <2>1. inc # NoInc => entries[wid[w]].incarnation # inc
    BY Zenon, <1>4 DEF Begins, MatchesPending, Pending
  <2>2. inc # NoInc => inc \in deleted \/ Recorded(inc)
    BY Zenon, <2>1 DEF Selection
  <2> QED
    BY Zenon, <1>2, <1>4, <2>2 DEF Begins
<1>5. CASE Reads(w)
  <2>1. inc # NoInc => cursor[w] # NoCursor /\ (inc \in deleted \/ Recorded(inc))
    BY Zenon, <1>5, NoCursorFields DEF Reads, Selection, Answering
  <2> QED
    BY Zenon, <1>2, <1>5, <2>1 DEF Reads
<1>6. CASE Scans(w)
  <2>1. inc # NoInc => BelongsTo(inc, wid[w]) /\ (inc \in deleted \/ Recorded(inc))
    BY Zenon, <1>6 DEF Scans, Selection, Answering
  <2>2. cursor[w] = [offset |-> cursor[w].offset, incarnation |-> inc] /\ cursor[w].offset \in Nat
    BY Zenon DEF WaitTypes
  <2>3. ASSUME inc # NoInc, found'[w] = Unknown
        PROVE  inc \in deleted \/ RecordedBy(inc, cursor[w].offset)
    <3>1. Completions(wid[w], cursor[w]) = {}
      <4>1. Unknown \notin Completions(wid[w], cursor[w])
        BY Zenon, CompletionsAreLines
      <4> QED
        BY Zenon, <1>6, <2>3, <4>1, NotALine DEF Scans
    <3> QED
      BY Zenon, <2>1, <2>2, <2>3, <3>1, EmptyScan
  <2> QED
    BY Zenon, <1>2, <1>6, <2>1, <2>3 DEF Scans
<1>7. CASE Answers(w)
  <2>1. at'[w] = "removed" => found[w] = Unknown
    <3>1. at'[w] = "removed" => found[w] # ReadError /\ ~(found[w] > 0)
      BY Zenon, <1>7 DEF Answers, Outcome
    <3>2. found[w] \in Nat \cup {ReadError}
      BY Zenon DEF WaitTypes
    <3> QED
      BY Zenon, <3>1, <3>2, NoLineIsUnknown
  <2> QED
    BY Zenon, <1>2, <1>7, <2>1 DEF Answers, Selection, Outcome, Answering
<1> QED
  BY <1>1, <1>3, <1>4, <1>5, <1>6, <1>7 DEF WaitStep

\* "Removed" is an answer about a selected lifetime.
LEMMA RemovedWasSelected ==
  ASSUME WaitTypes, NEW w \in Waiters, Watches(w) \/ SameWait(w) \/ WaitStep(w),
         at[w] = "removed" => cursor[w].incarnation # NoInc, at'[w] = "removed"
  PROVE  cursor'[w].incarnation # NoInc
<1>1. CASE Answers(w)
  BY Zenon, <1>1 DEF Answers, Outcome, WaitTypes
<1> QED
  BY Zenon, <1>1 DEF Watches, SameWait, WaitStep, Turns, Selects, Begins, Reads, Scans

LEMMA SelectionInvStep ==
  ASSUME Inv, OutboxInv, WaitTypes, SelectionInv, [AwaitNext]_all
  PROVE  SelectionInv'
<1>1. TypeOK /\ PlacesOwnClaims
  BY DEF Inv, SelectionInv
<1>2. PlacesOwnClaims'
  <2>1. CASE [Next]_vars
    BY <1>1, <2>1, PlacesOwnClaimsStep
  <2>2. CASE ReadFault
    BY Zenon, <1>1, <2>2, SameFilesFacts DEF ReadFault, PlacesOwnClaims
  <2> QED
    BY <1>1, <2>1, <2>2, DeliverySteps
<1> SUFFICES ASSUME NEW w \in Waiters
             PROVE  /\ Selection(w)'
                    /\ at'[w] = "removed" => cursor'[w].incarnation # NoInc
  BY <1>2 DEF SelectionInv
<1>3. Selection(w) /\ (at[w] = "removed" => cursor[w].incarnation # NoInc)
  BY DEF SelectionInv
<1>4. CASE AllWatch
  BY Zenon, <1>3, <1>4, SelectionWatched, RemovedWasSelected DEF AllWatch
<1>5. CASE SameFiles /\ WaitStep(w)
  BY Zenon, <1>1, <1>3, <1>5, SelectionMoves, RemovedWasSelected
<1>6. CASE SameFiles /\ SameWait(w)
  <2>1. /\ at'[w] = at[w] /\ wid'[w] = wid[w]
        /\ cursor'[w] = cursor[w] /\ found'[w] = found[w]
    BY Zenon, <1>6 DEF SameWait
  <2>2. Selection(w)'
    BY Zenon, <1>3, <1>6, <2>1, SelectionKept DEF Selection
  <2> QED
    BY Zenon, <1>3, <1>6, <2>2, RemovedWasSelected
<1> QED
  BY Zenon, <1>1, <1>4, <1>5, <1>6, StepCases DEF OneWaits

LEMMA SelectionInvHolds == AwaitSpec => []SelectionInv
<1>1. AwaitInit => SelectionInv
  <2> SUFFICES ASSUME AwaitInit
               PROVE  SelectionInv
    OBVIOUS
  <2>1. PlacesOwnClaims
    BY DEF AwaitInit, Init, PlacesOwnClaims
  <2>2. ASSUME NEW w \in Waiters
        PROVE  Selection(w) /\ at[w] # "removed"
    BY Zenon, NoCursorFields DEF AwaitInit, Selection
  <2> QED
    BY Zenon, <2>1, <2>2 DEF SelectionInv
<1>2. Inv /\ OutboxInv /\ FoundInv /\ SelectionInv /\ [AwaitNext]_all => SelectionInv'
  BY SelectionInvStep DEF FoundInv
<1> QED
  BY <1>1, <1>2, DeliveryHolds, FoundInvHolds, PTL DEF AwaitSpec

\* A wait is told "comment was removed" only of a lifetime that a client deleted
\* or whose post was recorded before the wait selected it.
THEOREM RemovedAsAccounted == AwaitSpec => []RemovedIsAccounted
<1>1. SelectionInv => RemovedIsAccounted
  BY Zenon DEF SelectionInv, Selection, RecordedBy, RemovedIsAccounted
<1> QED
  BY <1>1, SelectionInvHolds, PTL

-----------------------------------------------------------------------------
(* The newest lifetime, while the power stays on.                          *)

LEMMA SuccessesInOrderStep ==
  ASSUME Inv, PostsInv, SuccessesInOrder, [Next]_vars
  PROVE  SuccessesInOrder'
<1> SUFFICES ASSUME NEW j \in 1..Len(history'), NEW k \in 1..Len(history'), j < k,
                    history'[j].outcome = "success", history'[k].outcome = "success"
             PROVE  history'[j].attempt < history'[k].attempt
  BY DEF SuccessesInOrder
<1>1. TypeOK /\ TokensNameLifetimes /\ NewestClaim
  BY Zenon DEF Inv, PostsInv
<1>2. /\ Len(history) \in Nat /\ Len(history') \in Nat
      /\ Len(history') <= Len(history) + 1
      /\ \A i \in 1..Len(history) : history'[i] = history[i]
  <2>1. CASE history' # history
    <3>1. PICK x \in HistoryRecord : history' = Append(history, x)
      BY <1>1, <2>1, HistoryGrows
    <3> QED
      BY <1>1, <3>1, AppendFacts DEF TypeOK, StoreTypeOK
  <2> QED
    BY <1>1, <2>1 DEF TypeOK, StoreTypeOK
<1>3. j \in 1..Len(history) /\ history'[j] = history[j]
  BY <1>2
<1>4. CASE k \in 1..Len(history)
  BY Zenon, <1>2, <1>3, <1>4 DEF SuccessesInOrder
<1>5. CASE k \notin 1..Len(history)
  <2>1. PICK r \in completion : history'[k].attempt = r.claim
    BY Zenon, <1>5, SuccessLines
  <2>2. r.claim = Len(claims)
    BY Zenon, <1>1 DEF NewestClaim
  <2>3. history[j].attempt \in 1..Len(claims)
    <3>1. IsClaim(history[j].attempt, history[j].id, history[j].incarnation)
      BY Zenon, <1>1, <1>3 DEF TokensNameLifetimes
    <3> QED
      BY <3>1, ClaimFields
  <2>4. history'[j].attempt # history'[k].attempt
    BY RecordedOnceStep DEF RecordedOnce
  <2> QED
    BY <1>3, <2>1, <2>2, <2>3, <2>4
<1> QED
  BY Zenon, <1>4, <1>5

\* An element of a sequence is of the sequence's type.
LEMMA ElementType ==
  ASSUME NEW S, NEW s \in Seq(S), NEW n \in 1..Len(s)
  PROVE  s[n] \in S
  OBVIOUS

LEMMA ClaimsFollowLatestStep ==
  ASSUME Inv, OutboxInv, MarkerInv, ClaimsFollowLatest, [Next]_vars, ~PowerFails
  PROVE  ClaimsFollowLatest'
<1>1. /\ TypeOK /\ LatestIsOwn /\ Len(claims) \in Nat
      /\ claims \in Seq([id : Ids, incarnation : Incarnations])
      /\ latest \in [Ids -> Incarnations \cup {NoInc}]
  BY DEF Inv, MarkerInv, TypeOK
<1>2. CASE claims' = claims
  <2>1. CASE latest' = latest
    BY Zenon, <1>2, <2>1 DEF ClaimsFollowLatest
  <2>2. ASSUME NEW id \in Ids, NEW inc \in Incarnations, Puts(id, inc)
        PROVE  ClaimsFollowLatest'
    <3>1. /\ latest' = [latest EXCEPT ![id] = inc] /\ inc # NoInc
          /\ \A n \in 1..Len(claims) : claims[n].incarnation # inc
      BY Zenon, <2>2, NoIncAssumption DEF Puts, Creates, OutboxInv, Submitted
    <3>2. ASSUME NEW n \in 1..Len(claims)
          PROVE  claims[n].id \in Ids
      <4>1. claims[n] \in [id : Ids, incarnation : Incarnations]
        BY Zenon, <1>1, ElementType
      <4> QED
        BY <4>1
    <3> QED
      BY Zenon, <1>1, <1>2, <3>1, <3>2 DEF ClaimsFollowLatest
  <2> QED
    BY Zenon, <2>1, <2>2, LatestFrame
<1>3. CASE claims' # claims
  <2>1. PICK id \in Ids, ok \in BOOLEAN :
          /\ Claim(id, ok)
          /\ [id |-> id, incarnation |-> entries[id].incarnation]
               \in [id : Ids, incarnation : Incarnations]
          /\ claims' = Append(claims, [id |-> id, incarnation |-> entries[id].incarnation])
    BY Zenon, <1>1, <1>3, ClaimsFrame
  <2>2. latest' = latest /\ entries[id].incarnation = latest[id] /\ latest[id] # NoInc
    BY Zenon, <1>1, <2>1 DEF Claim, Pending, LatestIsOwn
  <2>3. /\ Len(claims') = Len(claims) + 1
        /\ \A n \in 1..Len(claims) : claims'[n] = claims[n]
        /\ claims'[Len(claims) + 1] = [id |-> id, incarnation |-> latest[id]]
    BY <1>1, <2>1, <2>2, AppendFacts
  <2> QED
    BY <1>1, <2>2, <2>3 DEF ClaimsFollowLatest
<1> QED
  BY Zenon, <1>2, <1>3

LEMMA MarkersAreDeletionsStep ==
  ASSUME Inv, OutboxInv, MarkerInv, MarkersAreDeletions, [Next]_vars, ~PowerFails
  PROVE  MarkersAreDeletions'
<1> SUFFICES ASSUME NEW id \in Ids, entries'[id].incarnation = NoInc, deletions'[id] # NoInc
             PROVE  deletions'[id] \in deleted'
  BY Zenon DEF MarkersAreDeletions, Pending
<1>1. /\ TypeOK /\ TokensNameLifetimes /\ MarkerCleared
      /\ deletions \in [Ids -> Incarnations \cup {NoInc}]
      /\ \A r \in completion : r.id \in Ids /\ IsClaim(r.claim, r.id, r.incarnation)
  BY Zenon DEF Inv, MarkerInv, TypeOK, StoreTypeOK, CompletionRecord, LinesOfAttempt
<1>2. deleted \subseteq deleted'
  BY Zenon, PlaceFrame DEF Moves, NothingMoves, Creates, TakesAway, BringsBack
<1>3. CASE ~Pending(id) /\ deletions'[id] = deletions[id]
  BY Zenon, <1>2, <1>3 DEF MarkersAreDeletions
<1>4. CASE Quiet
  BY Zenon, <1>3, <1>4 DEF Quiet, SameEntries, Pending
<1>5. ASSUME NEW x \in Ids, NEW inc \in Incarnations, Puts(x, inc)
      PROVE  deletions'[id] \in deleted'
  BY Zenon, <1>3, <1>5, NoIncAssumption DEF Puts, Creates, Pending
<1>6. ASSUME NEW x \in Ids, Deletes(x)
      PROVE  deletions'[id] \in deleted'
  <2>1. CASE Del(x) /\ id = x
    BY Zenon, <1>1, <1>6, <2>1 DEF Del, Deletes
  <2> QED
    BY Zenon, <1>1, <1>3, <1>6, <2>1 DEF Deletes, SameEntries, TakesAway, Pending
<1>7. ASSUME NEW r \in completion, Clears(r)
      PROVE  deletions'[id] \in deleted'
  BY Zenon, <1>1, <1>3, <1>7 DEF Clears, SameEntries, ClearAwaitDeletion, Pending
<1>8. ASSUME NEW r \in completion, Removes(r)
      PROVE  deletions'[id] \in deleted'
  <2>1. IsClaim(r.claim, r.id, r.incarnation) /\ r.id \in Ids /\ entries[r.id].claim = r.claim
    BY Zenon, <1>1, <1>8 DEF Removes
  <2>2. IsClaim(r.claim, r.id, entries[r.id].incarnation)
    <3>1. r.claim # NoToken
      BY Zenon, <2>1, ClaimFields
    <3> QED
      BY Zenon, <1>1, <2>1, <3>1 DEF TokensNameLifetimes
  <2>3. entries[r.id].incarnation = r.incarnation
    BY <2>1, <2>2, ClaimFields
  <2>4. id # r.id
    BY Zenon, <1>8, <2>3 DEF Removes, MarkerCleared, MarkerInv
  <2> QED
    BY Zenon, <1>3, <1>8, <2>4 DEF Removes, TakesAway, Pending
<1>9. CASE Sweeps
  BY Zenon, <1>3, <1>9 DEF Sweeps, SameEntries, Pending
<1> QED
  BY Zenon, <1>4, <1>5, <1>6, <1>7, <1>8, <1>9, MarkerFrame DEF MarkerStep

\* An entry leaves the queue by a client's del or by its completion.
LEMMA LeavesBy ==
  ASSUME Inv, [Next]_vars, ~PowerFails, NEW id \in Ids, Pending(id),
         entries'[id].incarnation = NoInc
  PROVE  Mutates \/ \E r \in completion : r.incarnation = entries[id].incarnation
<1> DEFINE Goal == Mutates \/ \E r \in completion : r.incarnation = entries[id].incarnation
<1>1. CASE Quiet \/ Sweeps
  BY Zenon, <1>1 DEF Quiet, Sweeps, SameEntries, Pending
<1>2. ASSUME NEW x \in Ids, NEW inc \in Incarnations, Puts(x, inc)
      PROVE  FALSE
  BY <1>2, NoIncAssumption DEF Puts, Creates, Pending
<1>3. ASSUME NEW x \in Ids, Deletes(x)
      PROVE  Mutates
  BY Zenon, <1>3 DEF Deletes, SameEntries, Pending, Mutates
<1>4. ASSUME NEW r \in completion, Clears(r)
      PROVE  FALSE
  BY Zenon, <1>4 DEF Clears, SameEntries, Pending
<1>5. ASSUME NEW r \in completion, Removes(r)
      PROVE  r.incarnation = entries[id].incarnation
  <2>1. r.id = id /\ entries[r.id].claim = r.claim
    BY Zenon, <1>5 DEF Removes, TakesAway, Pending
  <2>2. IsClaim(r.claim, r.id, r.incarnation)
    BY Zenon DEF Inv, LinesOfAttempt
  <2>3. IsClaim(r.claim, r.id, entries[id].incarnation)
    BY <2>1, <2>2, ClaimFields DEF Inv, TokensNameLifetimes
  <2> QED
    BY <2>2, <2>3, ClaimFields
<1> QED
  BY Zenon, <1>1, <1>2, <1>3, <1>4, <1>5, MarkerFrame DEF MarkerStep

\* Until a generation is published, no lifetime comes to be posted, neither one
\* that is queued nor one that is being put.
LEMMA PostingIsPublished ==
  ASSUME Inv, OutboxInv, [Next]_vars, ~Publishes, NEW inc,
         ~BeingPosted(inc) \/ inc \notin born
  PROVE  ~BeingPosted(inc)'
<1>1. ~BeingPosted(inc)
  <2>1. Attempting => cur.incarnation \in born
    <3>1. Attempting => IsClaim(cur.claim, cur.id, cur.incarnation)
      BY Zenon DEF Inv, TokensNameLifetimes
    <3>2. Attempting => /\ cur.claim \in 1..Len(claims)
                        /\ claims[cur.claim].incarnation = cur.incarnation
      BY Zenon, <3>1, ClaimFields
    <3>3. \A n \in 1..Len(claims) : claims[n].incarnation \in born
      BY Zenon DEF OutboxInv, Submitted
    <3> QED
      BY Zenon, <3>2, <3>3
  <2>2. ASSUME NEW r \in completion
        PROVE  r.incarnation \in born
    <3>1. IsClaim(r.claim, r.id, r.incarnation)
      BY Zenon DEF Inv, LinesOfAttempt
    <3>2. r.claim \in 1..Len(claims) /\ claims[r.claim].incarnation = r.incarnation
      BY Zenon, <3>1, ClaimFields
    <3>3. \A n \in 1..Len(claims) : claims[n].incarnation \in born
      BY Zenon DEF OutboxInv, Submitted
    <3> QED
      BY Zenon, <3>2, <3>3
  <2> QED
    BY Zenon, <2>1, <2>2 DEF BeingPosted
<1>2. Attempting' => cur'.incarnation # inc
  BY Zenon, <1>1, AttemptFrame DEF AttemptGoesOn, BeingPosted, Publishes
<1>3. ASSUME NEW r \in completion'
      PROVE  r.incarnation # inc
  BY <1>1, JournalFrame DEF BeingPosted, Attempting
<1> QED
  BY <1>2, <1>3 DEF BeingPosted

\* A lifetime's newest stays the newest while nothing is put under its identifier.
LEMMA NewestStays ==
  ASSUME Inv, [Next]_vars, ~PowerFails, NEW id \in Ids, entries'[id].incarnation = NoInc
  PROVE  latest'[id] = latest[id]
<1>1. ASSUME NEW x \in Ids, NEW inc \in Incarnations, Puts(x, inc)
      PROVE  latest'[id] = latest[id]
  <2>1. x # id
    BY Zenon, <1>1, NoIncAssumption DEF Puts, Creates
  <2> QED
    BY Zenon, <1>1, <2>1 DEF Puts, Inv, TypeOK
<1> QED
  BY <1>1, LatestFrame

LEMMA NewestWatched ==
  ASSUME Inv, OutboxInv, FoundInv, [Next]_vars, ~PowerFails, ~Publishes,
         NEW w \in Waiters, NewestLookup(w), Watches(w), ~moved[w]
  PROVE  NewestLookup(w)'
<1> DEFINE id == wid[w]
<1> SUFFICES ASSUME at[w] \in Answering, at'[w] = at[w], cursor[w] = NoCursor
             PROVE  NewestLookup(w)'
  BY Zenon DEF Watches, NewestLookup, Answering
<1>1. /\ TypeOK /\ TokensNameLifetimes /\ WaitTypes /\ FoundLine(w) /\ id \in Ids
      /\ wid'[w] = id /\ found'[w] = found[w] /\ cursor'[w] = cursor[w]
  BY Zenon DEF Inv, FoundInv, WaitTypes, Watches, Answering
<1>2. /\ entries[id].incarnation \in born \cup {NoInc} /\ deleted \subseteq deleted'
      /\ entries'[id].incarnation \in {entries[id].incarnation, NoInc}
           \/ entries'[id].incarnation \notin born
  BY Zenon, <1>1, EntersByPut, PlaceFrame
     DEF OutboxInv, Submitted, Moves, NothingMoves, Creates, TakesAway, BringsBack
<1>3. CASE entries'[id].incarnation # NoInc
  <2>1. ~BeingPosted(entries[id].incarnation) \/ ~Pending(id)
    BY Zenon DEF NewestLookup
  <2>2. ASSUME NEW inc, ~BeingPosted(inc) \/ inc \notin born
        PROVE  ~BeingPosted(inc)'
    BY Zenon, <2>2, PostingIsPublished
  <2>3. ~BeingPosted(entries[id].incarnation)'
    BY Zenon, <1>1, <1>2, <1>3, <2>1, <2>2 DEF Pending, BeingPosted
  <2> QED
    BY Zenon, <1>1, <1>3, <2>3 DEF NewestLookup, Pending
<1>4. CASE entries'[id].incarnation = NoInc
  <2>1. ~Pending(id)
    BY Zenon, <1>1, <1>4, LeavesBy DEF NewestLookup, BeingPosted, Publishes
  <2>2. latest'[id] = latest[id]
    BY Zenon, <1>1, <1>4, NewestStays
  <2>3. Recorded(latest[id]) => Recorded(latest[id])'
    BY Zenon, <1>1, <2>2, RecordedStays
  <2>4. found[w] > 0 /\ at[w] = "recheck" => history'[found[w]] = history[found[w]]
    BY Zenon, <1>1, LinesStay DEF FoundLine
  <2> QED
    BY Zenon, <1>1, <1>2, <1>4, <2>1, <2>2, <2>3, <2>4 DEF NewestLookup, Pending
<1> QED
  BY Zenon, <1>3, <1>4

\* Of the success lines of an identifier whose newest lifetime is recorded, the
\* last one is of that lifetime.
LEMMA LastLineIsNewest ==
  ASSUME Inv, LatestIsOwn, SuccessesInOrder, ClaimsFollowLatest, NEW id \in Ids,
         latest[id] = NoInc \/ Recorded(latest[id])
  PROVE  /\ Completions(id, NoCursor) = {} => latest[id] = NoInc
         /\ \A k \in Completions(id, NoCursor) :
              (\A j \in Completions(id, NoCursor) : j <= k) =>
                history[k].incarnation = latest[id]
<1>1. /\ Len(history) \in Nat
      /\ \A k \in 1..Len(history) :
           IsClaim(history[k].attempt, history[k].id, history[k].incarnation)
  BY Zenon, HistoryLength DEF Inv, TokensNameLifetimes
<1>2. Completions(id, NoCursor) =
        {k \in 1..Len(history) : history[k].id = id /\ history[k].outcome = "success"}
  BY <1>1, NoCursorFields DEF Completions
<1>3. ASSUME latest[id] # NoInc
      PROVE  \E m \in Completions(id, NoCursor) : history[m].incarnation = latest[id]
  <2>1. PICK m \in 1..Len(history) :
          history[m].incarnation = latest[id] /\ history[m].outcome = "success"
    BY Zenon, <1>3 DEF Recorded
  <2>2. IsClaim(history[m].attempt, history[m].id, latest[id])
    BY Zenon, <1>1, <2>1
  <2>3. history[m].id = id
    <3> DEFINE n == history[m].attempt
    <3>1. /\ n \in 1..Len(claims)
          /\ claims[n].id = history[m].id /\ claims[n].incarnation = latest[id]
      BY Zenon, <2>2, ClaimFields
    <3> QED
      BY Zenon, <3>1 DEF LatestIsOwn
  <2> QED
    BY Zenon, <1>2, <2>1, <2>3
<1>4. ASSUME NEW k \in Completions(id, NoCursor),
             \A j \in Completions(id, NoCursor) : j <= k
      PROVE  history[k].incarnation = latest[id]
  <2>1. /\ k \in 1..Len(history) /\ history[k].id = id /\ history[k].outcome = "success"
        /\ IsClaim(history[k].attempt, id, history[k].incarnation)
    BY Zenon, <1>1, <1>2
  <2>2. latest[id] # NoInc
    BY <2>1, ClaimFields DEF ClaimsFollowLatest
  <2>3. PICK m \in Completions(id, NoCursor) : history[m].incarnation = latest[id]
    BY Zenon, <1>3, <2>2
  <2>4. /\ m \in 1..Len(history) /\ m <= k /\ history[m].outcome = "success"
        /\ IsClaim(history[m].attempt, id, latest[id])
    BY Zenon, <1>1, <1>2, <1>4, <2>3
  <2>5. CASE m < k
    <3>1. history[m].attempt < history[k].attempt
      BY Zenon, <2>1, <2>4, <2>5 DEF SuccessesInOrder
    <3> QED
      <4> DEFINE a == history[m].attempt
                 b == history[k].attempt
      <4>1. /\ a \in 1..Len(claims) /\ claims[a].id = id /\ claims[a].incarnation = latest[id]
            /\ b \in 1..Len(claims) /\ claims[b].id = id
            /\ claims[b].incarnation = history[k].incarnation
        <5>1. a \in 1..Len(claims) /\ claims[a].id = id /\ claims[a].incarnation = latest[id]
          BY Zenon, <2>4, ClaimFields
        <5> DEFINE inc == history[k].incarnation
        <5>2. IsClaim(b, id, inc)
          BY Zenon, <2>1
        <5> HIDE DEF b, inc
        <5>3. b \in 1..Len(claims) /\ claims[b].id = id /\ claims[b].incarnation = inc
          BY Zenon, <5>2, ClaimFields
        <5> QED
          BY Zenon, <5>1, <5>3 DEF b, inc
      <4> QED
        BY Zenon, <3>1, <4>1 DEF ClaimsFollowLatest
  <2> QED
    BY <1>1, <2>1, <2>3, <2>4, <2>5
<1> QED
  BY Zenon, <1>3, <1>4

\* What a lookup without a selected lifetime reads is about the newest one.
LEMMA NewestMoves ==
  ASSUME Inv, MarkerInv, SuccessesInOrder, ClaimsFollowLatest, MarkersAreDeletions,
         WaitTypes, SameFiles, NEW w \in Waiters, NewestLookup(w), WaitStep(w)
  PROVE  NewestLookup(w)'
<1> USE SameFilesFacts
<1> DEFINE id == wid[w]
<1>1. LatestIsOwn /\ MarkerAhead
  BY Zenon DEF MarkerInv
<1>2. CASE Turns(w) \/ Selects(w)
  BY Zenon, <1>2 DEF Turns, Selects, NewestLookup, Answering
<1>3. CASE Begins(w)
  BY Zenon, <1>3, SameAnswers, NoCursorFields DEF Begins, NewestLookup, MatchesPending
<1> SUFFICES ASSUME at[w] \in Answering, at'[w] \in Answering,
                    wid'[w] = id, cursor'[w] = cursor[w], moved'[w] = moved[w],
                    cursor[w] = NoCursor, ~moved[w]
             PROVE  NewestLookup(w)'
  <2>1. Outcome(w) \notin Answering
    BY Zenon DEF Outcome, Answering
  <2> QED
    BY Zenon, <1>2, <1>3, <2>1 DEF WaitStep, Reads, Scans, Answers, NewestLookup, Answering
<1>4. id \in Ids
  BY Zenon DEF WaitTypes, Answering
<1>5. CASE Pending(id)
  BY Zenon, <1>5 DEF NewestLookup, Pending, BeingPosted, Attempting
<1>6. ASSUME ~Pending(id), Reads(w)
      PROVE  NewestLookup(w)'
  <2>1. deletions[id] # NoInc => latest[id] \in deleted
    BY Zenon, <1>1, <1>4, <1>6 DEF MarkerAhead, MarkersAreDeletions
  <2>2. deletions[id] = NoInc => latest[id] = NoInc \/ Recorded(latest[id])
    BY Zenon, <1>1, <1>4, <1>6 DEF MarkerAhead
  <2> QED
    BY Zenon, <1>6, <2>1, <2>2, SameAnswers, NotALine DEF Reads, NewestLookup
<1>7. ASSUME ~Pending(id), Scans(w)
      PROVE  NewestLookup(w)'
  <2>1. at[w] = "scan" => latest[id] = NoInc \/ Recorded(latest[id])
    BY Zenon, <1>7 DEF NewestLookup
  <2>2. CASE found'[w] = ReadError
    BY Zenon, <1>7, <2>2, SameAnswers, NotALine DEF Scans, NewestLookup
  <2>3. CASE found'[w] = Unknown /\ Completions(id, NoCursor) = {} /\ at[w] = "scan"
    <3>1. latest[id] = NoInc
      BY Zenon, <1>1, <1>4, <2>1, <2>3, LastLineIsNewest
    <3> QED
      BY Zenon, <1>7, <2>3, <3>1, SameAnswers, NotALine DEF Scans, NewestLookup
  <2>4. CASE /\ at[w] = "scan" /\ found'[w] \in Completions(id, NoCursor)
             /\ \A j \in Completions(id, NoCursor) : j <= found'[w]
    <3>1. history[found'[w]].incarnation = latest[id]
      <4>1. \A k \in Completions(id, NoCursor) :
              (\A j \in Completions(id, NoCursor) : j <= k) =>
                history[k].incarnation = latest[id]
        BY Zenon, <1>1, <1>4, <2>1, <2>4, LastLineIsNewest
      <4> QED
        BY Zenon, <2>4, <4>1
    <3>2. found'[w] # Unknown
      BY Zenon, <2>4, CompletionsAreLines
    <3> QED
      BY Zenon, <1>7, <3>1, <3>2 DEF Scans, NewestLookup, Pending
  <2> QED
    BY Zenon, <1>7, <2>2, <2>3, <2>4 DEF Scans
<1>8. ~Answers(w)
  BY Zenon DEF Answers, Outcome, Answering
<1> QED
  BY Zenon, <1>2, <1>3, <1>5, <1>6, <1>7, <1>8 DEF WaitStep

LEMMA NewestInvStep ==
  ASSUME Inv, OutboxInv, PostsInv, MarkerInv, FoundInv, NewestInv, [AwaitNext]_all,
         ~PowerFails
  PROVE  NewestInv'
<1>1. /\ TypeOK /\ WaitTypes
      /\ SuccessesInOrder /\ ClaimsFollowLatest /\ MarkersAreDeletions
  BY DEF Inv, FoundInv, NewestInv
<1>2. (SuccessesInOrder /\ ClaimsFollowLatest /\ MarkersAreDeletions)'
  <2>1. CASE [Next]_vars
    BY <1>1, <2>1, SuccessesInOrderStep, ClaimsFollowLatestStep, MarkersAreDeletionsStep
  <2>2. CASE ReadFault
    BY <1>1, <2>2, SameFilesFacts
       DEF ReadFault, SuccessesInOrder, ClaimsFollowLatest, MarkersAreDeletions, Pending
  <2> QED
    BY <1>1, <2>1, <2>2, DeliverySteps
<1> SUFFICES ASSUME NEW w \in Waiters
             PROVE  NewestLookup(w)'
  BY <1>2 DEF NewestInv
<1>3. NewestLookup(w)
  BY DEF NewestInv
<1>4. ASSUME SameFiles, at'[w] \in {at[w], "gone"}, wid'[w] = wid[w],
             cursor'[w] = cursor[w], found'[w] = found[w], ~moved'[w] => ~moved[w]
      PROVE  NewestLookup(w)'
  BY Zenon, <1>3, <1>4, SameFilesFacts
     DEF NewestLookup, Answering, Pending, BeingPosted, Attempting, Recorded
<1>5. CASE AllWatch
  <2>1. [Next]_vars /\ Watches(w)
    BY <1>5 DEF AllWatch
  <2>2. CASE moved'[w]
    BY Zenon, <2>2 DEF NewestLookup
  <2>3. CASE UNCHANGED vars
    BY Zenon, <1>4, <2>1, <2>3 DEF Watches, vars, SameFiles
  <2>4. CASE ~moved[w] /\ ~Publishes
    BY <1>3, <2>1, <2>4, NewestWatched
  <2> QED
    BY Zenon, <2>1, <2>2, <2>3, <2>4 DEF Watches
<1>6. CASE SameFiles /\ WaitStep(w)
  BY Zenon, <1>1, <1>3, <1>6, NewestMoves
<1>7. CASE SameFiles /\ SameWait(w)
  BY <1>4, <1>7 DEF SameWait
<1> QED
  BY <1>1, <1>5, <1>6, <1>7, StepCases DEF OneWaits

LEMMA NewestInvHolds ==
  ASSUME ~PowerFails
  PROVE  AwaitSpec => []NewestInv
<1>1. AwaitInit => NewestInv
  <2> SUFFICES ASSUME AwaitInit
               PROVE  NewestInv
    BY Zenon
  <2>1. SuccessesInOrder /\ ClaimsFollowLatest
    BY DEF AwaitInit, Init, StoreInit, SuccessesInOrder, ClaimsFollowLatest
  <2>2. MarkersAreDeletions
    BY Zenon DEF AwaitInit, Init, StoreInit, MarkersAreDeletions
  <2>3. \A w \in Waiters : NewestLookup(w)
    BY Zenon DEF AwaitInit, NewestLookup, Answering
  <2> QED
    BY Zenon, <2>1, <2>2, <2>3 DEF NewestInv
<1>2. Inv /\ OutboxInv /\ PostsInv /\ MarkerInv /\ FoundInv /\ NewestInv /\ [AwaitNext]_all
        => NewestInv'
  BY NewestInvStep
<1> QED
  BY <1>1, <1>2, DeliveryHolds, MarkersHold, FoundInvHolds, PTL DEF AwaitSpec

\* An answer is given by a lookup that no generation overtook.
LEMMA AnsweredBy ==
  ASSUME TypeOK, WaitTypes, [AwaitNext]_all, NEW w \in Waiters,
         at'[w] \in {"posted", "unknown"}, at'[w] # at[w]
  PROVE  Answers(w)
<1>1. CASE AllWatch
  BY Zenon, <1>1 DEF AllWatch, Watches
<1>2. CASE OneWaits
  BY Zenon, <1>2 DEF OneWaits, SameWait, WaitStep, Turns, Selects, Begins, Reads, Scans
<1> QED
  BY Zenon, <1>1, <1>2, StepCases

\* The answer of a lookup without a selected lifetime.
LEMMA AnswersNewest ==
  ASSUME NewestInv, NEW w \in Waiters, Answers(w), cursor[w] = NoCursor
  PROVE  /\ found[w] > 0 => history[found[w]].incarnation = latest[wid[w]]
         /\ found[w] = Unknown => latest[wid[w]] \in deleted \cup {NoInc}
  BY Zenon, NoCursorFields DEF NewestInv, NewestLookup, Answers, Answering, MatchesPending

\* While the power stays on, a wait that never saw its identifier queued is
\* answered with the comment of the newest lifetime, whatever was put, deleted
\* and posted between the steps of its lookup.
THEOREM PostedAsLatest ==
  ASSUME ~PowerFails
  PROVE  AwaitSpec => PostedIsLatest
<1>1. Inv /\ FoundInv /\ NewestInv /\ [AwaitNext]_all =>
        [\A w \in Waiters :
           at[w] # "posted" /\ at'[w] = "posted" /\ cursor[w] = NoCursor =>
             history[found[w]].incarnation = latest[wid[w]]]_all
  <2> SUFFICES ASSUME Inv, FoundInv, NewestInv, [AwaitNext]_all, NEW w \in Waiters,
                      at[w] # "posted", at'[w] = "posted", cursor[w] = NoCursor
               PROVE  history[found[w]].incarnation = latest[wid[w]]
    BY Zenon
  <2>1. Answers(w)
    BY AnsweredBy DEF Inv, FoundInv
  <2>2. found[w] > 0
    BY <2>1 DEF Answers, Outcome
  <2> QED
    BY Zenon, <2>1, <2>2, AnswersNewest
<1> QED
  BY <1>1, DeliveryHolds, FoundInvHolds, NewestInvHolds, PTL DEF AwaitSpec, PostedIsLatest

\* While the power stays on, a wait is told "unknown comment identifier" only
\* when the newest lifetime is not on record as posted, or was deleted.
THEOREM UnknownAsUnposted ==
  ASSUME ~PowerFails
  PROVE  AwaitSpec => UnknownIsUnposted
<1>1. Inv /\ FoundInv /\ NewestInv /\ [AwaitNext]_all =>
        [\A w \in Waiters :
           at[w] # "unknown" /\ at'[w] = "unknown" =>
             ~Recorded(latest[wid[w]]) \/ latest[wid[w]] \in deleted]_all
  <2> SUFFICES ASSUME Inv, FoundInv, NewestInv, [AwaitNext]_all, NEW w \in Waiters,
                      at[w] # "unknown", at'[w] = "unknown"
               PROVE  ~Recorded(latest[wid[w]]) \/ latest[wid[w]] \in deleted
    BY Zenon
  <2>1. WaitTypes /\ TypeOK
    BY Zenon DEF Inv, FoundInv
  <2>2. Answers(w)
    BY Zenon, <2>1, AnsweredBy
  <2>3. found[w] = Unknown /\ cursor[w] = NoCursor
    <3>1. found[w] # ReadError /\ ~(found[w] > 0) /\ cursor[w] = NoCursor
      BY Zenon, <2>2 DEF Answers, Outcome
    <3>2. found[w] \in Nat \cup {ReadError}
      BY <2>1 DEF WaitTypes
    <3> QED
      BY Zenon, <3>1, <3>2, NoLineIsUnknown
  <2>4. ~Recorded(NoInc)
    <3>1. ASSUME NEW k \in 1..Len(history)
          PROVE  history[k].incarnation # NoInc
      <4>1. history[k] \in HistoryRecord
        BY Zenon, <2>1, ElementType DEF TypeOK, StoreTypeOK
      <4> QED
        BY Zenon, <4>1, NoIncAssumption DEF HistoryRecord
    <3> QED
      BY Zenon, <3>1 DEF Recorded
  <2> QED
    BY Zenon, <2>2, <2>3, <2>4, AnswersNewest
<1> QED
  BY <1>1, DeliveryHolds, FoundInvHolds, NewestInvHolds, PTL DEF AwaitSpec, UnknownIsUnposted
=============================================================================
