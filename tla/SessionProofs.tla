--------------------------- MODULE SessionProofs ---------------------------
(***************************************************************************)
(* Permits, terminal frames, labels and what clients report, for any       *)
(* number of clients, permits and any buffer.                              *)
(***************************************************************************)
EXTENDS Session, FiniteSetTheorems, TLAPS

\* What the invariant says of a connection, apart from the entry awaited.
Row(c) ==
  <<req[c], cl[c], seen[c], result[c], srv[c], todo[c], labels[c], pipe[c],
    applied[c], final[c]>>

\* Connections whose state a step leaves alone stay as they were.
LEMMA OtherConnections ==
  ASSUME NEW d \in Clients, Connection(d), Row(d)' = Row(d),
         entry = "posted" => entry' = "posted"
  PROVE  Connection(d)'
<1>1. /\ req'[d] = req[d] /\ cl'[d] = cl[d] /\ seen'[d] = seen[d] /\ result'[d] = result[d]
      /\ srv'[d] = srv[d] /\ todo'[d] = todo[d] /\ labels'[d] = labels[d]
      /\ pipe'[d] = pipe[d] /\ applied'[d] = applied[d] /\ final'[d] = final[d]
  BY DEF Row
<1>2. /\ Received(d)' = Received(d) /\ Success(d)' = Success(d)
      /\ TookEffect(d)' = TookEffect(d)
  BY <1>1 DEF Received, Success, TookEffect
<1>3. Phases(d)' /\ Accounted(d)' /\ Told(d)'
  BY <1>1, <1>2 DEF Connection, Phases, Accounted, Told
<1>4. Prepared(d)'
  BY <1>1, <1>2 DEF Connection, Prepared
<1>5. InFlight(d)'
  BY <1>1, <1>2 DEF Connection, InFlight
<1> QED
  BY <1>3, <1>4, <1>5 DEF Connection

\* Reading one frame leaves a stream of frames that were true already.
LEMMA TailOfPosted ==
  ASSUME NEW S, NEW stream \in Seq(S), stream # << >>, NEW status,
         \A k \in 1..Len(stream) : stream[k] = "posted" => status = "posted"
  PROVE  /\ Head(stream) = "posted" => status = "posted"
         /\ \A k \in 1..Len(Tail(stream)) : Tail(stream)[k] = "posted" => status = "posted"
<1>1. 1 \in 1..Len(stream) /\ Head(stream) = stream[1]
  OBVIOUS
<1>2. ASSUME NEW k \in 1..Len(Tail(stream))
      PROVE  k + 1 \in 1..Len(stream) /\ Tail(stream)[k] = stream[k + 1]
  OBVIOUS
<1> QED
  BY Zenon, <1>1, <1>2

\* render_response accepts the payload dispatch_request sends.
LEMMA RenderedIsPayload ==
  ASSUME NEW r \in Mutations \cup Queries
  PROVE  Rendered(r) = Payload(r)
  BY DEF Mutations, Queries, Rendered, Payload

-----------------------------------------------------------------------------
(* Permits.                                                                *)

Waiting == {c \in Clients : srv[c] \in Holding}

LEMMA SessionInvInit ==
  ASSUME Init
  PROVE  SessionInv
<1>1. SessionTypes
  BY MixesAssumption, SessionAssumption DEF Init, SessionTypes
<1>2. ASSUME NEW c \in Clients PROVE Connection(c)
  <2>1. /\ cl[c] = "idle" /\ result[c] = "none" /\ srv[c] = "none" /\ pipe[c] = << >>
        /\ applied[c] = 0 /\ final[c] = 0
    BY DEF Init
  <2>2. Phases(c) /\ Prepared(c) /\ Accounted(c) /\ Told(c)
    BY <2>1 DEF Phases, Prepared, Accounted, Told, Replying, Streaming, Holding
  <2>3. InFlight(c)
    BY <2>1 DEF InFlight
  <2> QED
    BY <2>2, <2>3 DEF Connection
<1>3. {c \in Clients : srv[c] \in Holding} = {}
  BY DEF Init, Holding
<1>4. IsFiniteSet({c \in Clients : srv[c] \in Holding}) /\ PermitsBalance
  <2>1. permits + 0 = MaxAwaiters
    BY SessionAssumption DEF Init
  <2> QED
    BY <1>3, <2>1, FS_EmptySet, Zenon DEF PermitsBalance
<1> QED
  BY <1>1, <1>2, <1>4 DEF SessionInv

\* A handler's permit moves between the semaphore and the handler.
PermitMoves(c) ==
  \/ (srv[c] \in Holding <=> srv'[c] \in Holding) /\ permits' = permits
  \/ srv[c] \in Holding /\ srv'[c] \notin Holding /\ permits' = permits + 1
  \/ srv[c] \notin Holding /\ srv'[c] \in Holding /\ permits' = permits - 1

\* No permit is lost or returned twice in such a step.
LEMMA PermitsStayBalanced ==
  ASSUME NEW c \in Clients, SessionInv, PermitMoves(c), up' => up,
         \A d \in Clients \ {c} : srv'[d] = srv[d]
  PROVE  IsFiniteSet(Waiting') /\ (up' => permits' + Cardinality(Waiting') = MaxAwaiters)
<1>1. IsFiniteSet(Waiting) /\ (up => permits + Cardinality(Waiting) = MaxAwaiters)
  BY Zenon DEF SessionInv, PermitsBalance, Waiting
<1>2. permits \in Nat /\ MaxAwaiters \in Nat
  BY SessionAssumption DEF SessionInv, SessionTypes
<1>3. Cardinality(Waiting) \in Nat
  BY <1>1, FS_CardinalityType, Zenon
<1>4. CASE c \in Waiting /\ c \notin Waiting'
  <2>1. Waiting' = Waiting \ {c}
    BY <1>4 DEF Waiting
  <2>2. permits' = permits + 1
    BY <1>4 DEF Waiting, PermitMoves
  <2>3. IsFiniteSet(Waiting \ {c}) /\ Cardinality(Waiting \ {c}) = Cardinality(Waiting) - 1
    BY <1>1, <1>4, FS_RemoveElement
  <2> QED
    BY <1>1, <1>2, <1>3, <2>1, <2>2, <2>3
<1>5. CASE c \notin Waiting /\ c \in Waiting'
  <2>1. Waiting' = Waiting \cup {c}
    BY <1>5 DEF Waiting
  <2>2. permits' = permits - 1
    BY <1>5 DEF Waiting, PermitMoves
  <2>3. IsFiniteSet(Waiting \cup {c}) /\ Cardinality(Waiting \cup {c}) = Cardinality(Waiting) + 1
    BY Zenon, <1>1, <1>5, FS_AddElement
  <2> QED
    BY <1>1, <1>2, <1>3, <2>1, <2>2, <2>3
<1>6. CASE c \in Waiting <=> c \in Waiting'
  <2>1. Waiting' = Waiting
    BY <1>6 DEF Waiting
  <2>2. permits' = permits
    BY <1>6 DEF Waiting, PermitMoves
  <2> QED
    BY <1>1, <2>1, <2>2
<1> QED
  BY <1>4, <1>5, <1>6

\* A step of one connection, the two ends of which stay consistent.
LEMMA OneConnection ==
  ASSUME NEW c \in Clients, SessionInv, SessionTypes', Connection(c)',
         \A d \in Clients \ {c} : Row(d)' = Row(d),
         entry' = entry, up' = up, PermitMoves(c)
  PROVE  SessionInv'
<1>1. \A d \in Clients : Connection(d)'
  BY OtherConnections DEF SessionInv
<1>2. IsFiniteSet(Waiting') /\ (up' => permits' + Cardinality(Waiting') = MaxAwaiters)
  BY PermitsStayBalanced DEF Row
<1> QED
  BY <1>1, <1>2, Zenon DEF SessionInv, PermitsBalance, Waiting

-----------------------------------------------------------------------------
(* Handlers.                                                               *)

\* A handler's step touches nothing of the client.
LEMMA ClientIsSame ==
  ASSUME NEW c \in Clients, UNCHANGED clientVars
  PROVE  /\ req' = req /\ cl' = cl /\ seen' = seen /\ result' = result
         /\ Received(c)' = Received(c)
  BY DEF clientVars, Received

\* What was sent stays sent.
LEMMA InFlightStays ==
  ASSUME NEW c \in Clients, InFlight(c), UNCHANGED <<clientVars, entry>>,
         pipe'[c] = pipe[c], TookEffect(c) => TookEffect(c)',
         req[c] # "await" /\ srv'[c] \in {"none", "reading", "dispatch", "writing"} =>
           pipe[c] = << >>
  PROVE  InFlight(c)'
  BY DEF InFlight, clientVars

\* A handler ends, with labels that say how.
LEMMA FinishKeepsInv ==
  ASSUME NEW c \in Clients, SessionInv, NEW outcome, NEW kind, Finish(c, outcome, kind),
         UNCHANGED <<clientVars, worldVars>>, srv[c] # "none",
         outcome # "unknown", BoundedOutcomeLabel(outcome) = outcome,
         kind # "unknown", BoundedErrorLabel(kind) = kind,
         OperationLabel(c) = "unknown" => outcome \in {"rejected", "failed"},
         OperationLabel(c) = "await" => (final'[c] = 0 <=> outcome = "client_gone"),
         final' \in [Clients -> {0, 1}],
         pipe' \in [Clients -> Seq(Replies \cup Frames \cup {"partial"})],
         \A d \in Clients \ {c} : final'[d] = final[d] /\ pipe'[d] = pipe[d],
         InFlight(c)'
  PROVE  SessionInv'
<1>1. SessionTypes
  BY DEF SessionInv
<1>2. /\ srv' = [srv EXCEPT ![c] = "done"] /\ todo' = [todo EXCEPT ![c] = NoWork]
      /\ labels' = [labels EXCEPT ![c] = <<OperationLabel(c), outcome, kind>>]
      /\ permits' = (IF srv[c] \in Holding THEN permits + 1 ELSE permits) /\ applied' = applied
      /\ UNCHANGED <<req, cl, seen, result, entry, up>>
  BY DEF Finish, Returned, clientVars, worldVars
<1>3. SessionTypes'
  BY <1>1, <1>2 DEF SessionTypes
<1>4. /\ srv'[c] = "done" /\ labels'[c] = <<OperationLabel(c), outcome, kind>>
      /\ applied'[c] = applied[c]
  BY <1>1, <1>2 DEF SessionTypes
<1>5. \A d \in Clients \ {c} : Row(d)' = Row(d)
  BY <1>1, <1>2 DEF SessionTypes, Row
<1>6. PermitMoves(c)
  BY <1>2, <1>4 DEF PermitMoves, Holding
<1>7. Connection(c)'
  <2>1. Connection(c)
    BY DEF SessionInv
  <2>2. Phases(c)' /\ Prepared(c)'
    BY Zenon, <1>2, <1>4, <2>1 DEF Connection, Phases, Prepared, Replying, Streaming, Holding
  <2>3. Accounted(c)'
    BY <1>4 DEF Accounted
  <2>4. Told(c)'
    BY <1>2, <1>4, <2>1 DEF Connection, Told
  <2> QED
    BY <2>2, <2>3, <2>4 DEF Connection
<1> QED
  BY <1>2, <1>3, <1>5, <1>6, <1>7, OneConnection

\* The step is one of connection c.
Local(c) ==
  /\ SessionTypes'
  /\ \A d \in Clients \ {c} : Row(d)' = Row(d)
  /\ UNCHANGED <<clientVars, worldVars>>
  /\ PermitMoves(c)

\* A handler goes on, with what it will write next.
LEMMA HandlerGoesOn ==
  ASSUME NEW c \in Clients, SessionInv, Local(c), labels'[c] = labels[c],
         final'[c] = 0, applied[c] = 1 => applied'[c] = 1,
         srv[c] # "none", cl[c] \in {"receiving", "done"},
         srv'[c] \in {"dispatch"} \cup Replying \cup Streaming,
         srv'[c] = "dispatch" => Received(c) \in Mutations \cup Queries /\ applied'[c] = 0,
         srv'[c] \in Replying => Received(c) \in Mutations \cup Queries \cup {"malformed"},
         srv'[c] \in Streaming => Received(c) = "await",
         Prepared(c)', InFlight(c)'
  PROVE  SessionInv'
<1>1. SessionTypes /\ Connection(c)
  BY DEF SessionInv
<1>2. UNCHANGED <<req, cl, seen, result, entry, up>> /\ Received(c)' = Received(c)
  BY Zenon, ClientIsSame DEF Local, clientVars, worldVars
<1>3. srv'[c] \notin {"none", "reading", "done"}
  BY DEF Replying, Streaming, Holding
<1>4. Phases(c)'
  BY Zenon, <1>1, <1>2, <1>3 DEF Connection, Phases, Replying, Streaming, Holding
<1>5. Accounted(c)'
  BY <1>2, <1>3 DEF Accounted
<1>6. Told(c)'
  BY <1>1, <1>2, <1>3 DEF Connection, Told
<1> QED
  BY Zenon, <1>2, <1>4, <1>5, <1>6, OneConnection DEF Connection, Local

LEMMA PrepareFacts ==
  ASSUME NEW c \in Clients, SessionTypes, NEW pc, NEW bytes, NEW outcome, NEW kind,
         Prepare(c, pc, bytes, outcome, kind)
  PROVE  /\ srv' = [srv EXCEPT ![c] = pc] /\ srv'[c] = pc
         /\ todo'[c] = [bytes |-> bytes, outcome |-> outcome, kind |-> kind]
         /\ todo'[c].bytes = bytes /\ todo'[c].outcome = outcome /\ todo'[c].kind = kind
         /\ DOMAIN todo' = Clients /\ \A d \in Clients \ {c} : todo'[d] = todo[d]
         /\ UNCHANGED <<labels, final>>
  BY DEF Prepare, SessionTypes

LEMMA GotoFacts ==
  ASSUME NEW c \in Clients, SessionTypes, NEW pc, Goto(c, pc)
  PROVE  /\ srv' = [srv EXCEPT ![c] = pc] /\ srv'[c] = pc
         /\ DOMAIN todo' = Clients /\ \A d \in Clients : todo'[d] = todo[d]
         /\ UNCHANGED <<labels, final>>
  BY DEF Goto, SessionTypes

\* A step of a handler that writes nothing.
LEMMA StepIsLocal ==
  ASSUME NEW c \in Clients, SessionTypes, UNCHANGED <<clientVars, worldVars, pipe>>,
         NEW pc \in {"dispatch"} \cup Replying \cup Streaming, srv' = [srv EXCEPT ![c] = pc],
         DOMAIN todo' = Clients, \A d \in Clients \ {c} : todo'[d] = todo[d],
         UNCHANGED <<labels, final>>, permits' \in Nat, PermitMoves(c),
         applied' \in [Clients -> {0, 1}], \A d \in Clients \ {c} : applied'[d] = applied[d]
  PROVE  Local(c)
<1>1. UNCHANGED <<req, cl, seen, result>>
  BY DEF clientVars
<1>2. SessionTypes'
  BY Zenon, <1>1 DEF SessionTypes
<1>3. \A d \in Clients \ {c} : Row(d)' = Row(d)
  BY <1>1 DEF SessionTypes, Row
<1> QED
  BY <1>2, <1>3 DEF Local

\* The labels a handler records: of which operation, how it ended, why.
LEMMA LabelsAreBounded ==
  /\ \A o \in Outcomes \cup {"accepted", "failed", "rejected", "rejected_capacity", "client_gone"} :
       BoundedOutcomeLabel(o) = o /\ o # "unknown"
  /\ \A k \in StoreCategory \cup {"none", "protocol_io", "response_too_large"} :
       BoundedErrorLabel(k) = k /\ k # "unknown"
  BY DEF Outcomes, StoreCategory, BoundedOutcomeLabel, BoundedErrorLabel, OutcomeLabels,
         ErrorLabels

\* handle_client_inner: the read ends, or is given up.
LEMMA ReadKeepsInv ==
  ASSUME NEW c \in Clients, SessionInv, ReadRequest(c) \/ ReadTimesOut(c)
  PROVE  SessionInv'
<1>1. SessionTypes /\ Connection(c) /\ srv[c] = "reading" /\ UNCHANGED <<clientVars, worldVars, pipe>>
  BY DEF SessionInv, ReadRequest, ReadTimesOut
<1>2. InFlight(c) /\ Accounted(c) /\ Phases(c) /\ final[c] = 0 /\ applied[c] = 0
  BY <1>1 DEF Connection, Accounted, SessionTypes
<1>3. ASSUME Finish(c, "rejected", "protocol_io"), UNCHANGED final, OperationLabel(c) = "unknown"
      PROVE  SessionInv'
  <2>1. applied' = applied /\ srv'[c] = "done"
    BY Zenon, <1>1, <1>3 DEF Finish, SessionTypes
  <2>2. TookEffect(c) => TookEffect(c)'
    BY Zenon, <1>1, <2>1, ClientIsSame DEF TookEffect
  <2>3. InFlight(c)'
    BY <1>1, <1>2, <2>1, <2>2, InFlightStays DEF worldVars
  <2> QED
    BY Zenon, <1>1, <1>3, <2>3, FinishKeepsInv, LabelsAreBounded DEF SessionTypes
<1>4. CASE ReadTimesOut(c)
  <2>1. OperationLabel(c) = "unknown"
    BY <1>4 DEF ReadTimesOut, OperationLabel
  <2> QED
    BY <1>3, <1>4, <2>1 DEF ReadTimesOut
<1>5. CASE ReadRequest(c)
  <2>1. cl[c] \in {"receiving", "done"}
    BY <1>5 DEF ReadRequest
  <2>2. CASE Received(c) = "unbounded"
    <3>1. Finish(c, "rejected", "protocol_io") /\ UNCHANGED final
      BY <1>5, <2>2 DEF ReadRequest, Mutations, Queries
    <3>2. OperationLabel(c) = "unknown"
      BY <2>2 DEF OperationLabel, Mutations, Queries
    <3> QED
      BY <1>3, <3>1, <3>2
  <2>3. CASE Received(c) = "malformed"
    <3>1. /\ Prepare(c, "writing", "reply_error", "failed", "invalid_json")
          /\ UNCHANGED <<bound, permits, applied>>
      BY <1>5, <2>3 DEF ReadRequest, Mutations, Queries
    <3>2. TookEffect(c) => TookEffect(c)'
      BY <1>1, <3>1, ClientIsSame DEF TookEffect
    <3>3. InFlight(c)'
      BY Zenon, <1>1, <1>2, <3>1, <3>2, InFlightStays DEF worldVars, InFlight
    <3>4. Prepared(c)'
      <4>1. /\ srv'[c] = "writing" /\ todo'[c].bytes = "reply_error"
            /\ todo'[c].outcome = "failed" /\ todo'[c].kind = "invalid_json"
        BY Zenon, <1>1, <3>1 DEF Prepare, SessionTypes
      <4> QED
        BY Zenon, <4>1 DEF Prepared, Replying, StoreCategory
    <3>5. Local(c) /\ srv'[c] = "writing" /\ UNCHANGED <<labels, final, applied>>
      <4>1. PermitMoves(c)
        <5>1. srv'[c] = "writing" /\ permits' = permits
          BY Zenon, <1>1, <3>1, PrepareFacts
        <5> QED
          BY Zenon, <1>1, <5>1 DEF PermitMoves, Holding
      <4> QED
        BY Zenon, <1>1, <3>1, <4>1, PrepareFacts, StepIsLocal DEF SessionTypes, Replying
    <3> QED
      BY <1>1, <1>2, <2>1, <2>3, <3>3, <3>4, <3>5, HandlerGoesOn DEF Replying, Streaming, Holding
  <2>4. CASE Received(c) = "await"
    <3>1. Admit(c) /\ UNCHANGED <<bound, applied>>
      BY Zenon, <1>5, <2>4 DEF ReadRequest, Mutations, Queries
    <3>2. req[c] = "await"
      BY <2>4 DEF Received
    <3>3. InFlight(c)'
      BY Zenon, <1>1, <1>2, <3>2 DEF InFlight, clientVars, worldVars
    <3>4. CASE permits > 0
      <4>1. permits' = permits - 1 /\ Goto(c, "check")
        BY <3>1, <3>4 DEF Admit
      <4>2. Prepared(c)'
        BY <1>1, <4>1, GotoFacts DEF Prepared, Replying
      <4>3. Local(c) /\ srv'[c] = "check" /\ UNCHANGED <<labels, final, applied>>
        <5>1. PermitMoves(c) /\ permits' \in Nat
          <6>1. srv'[c] = "check"
            BY <1>1, <4>1, GotoFacts
          <6> QED
            BY <1>1, <3>4, <4>1, <6>1 DEF PermitMoves, Holding, SessionTypes
        <5> QED
          BY Zenon, <1>1, <3>1, <4>1, <5>1, GotoFacts, StepIsLocal
             DEF SessionTypes, Streaming, Holding
      <4> QED
        BY Zenon, <1>1, <1>2, <2>1, <2>4, <3>3, <4>2, <4>3, HandlerGoesOn
           DEF Replying, Streaming, Holding
    <3>5. CASE ~(permits > 0)
      <4>1. permits' = permits /\ Prepare(c, "refusal", "error", "rejected_capacity", "none")
        BY <3>1, <3>5 DEF Admit
      <4>2. Prepared(c)'
        BY <1>1, <4>1, PrepareFacts DEF Prepared, Replying
      <4>3. Local(c) /\ srv'[c] = "refusal" /\ UNCHANGED <<labels, final, applied>>
        <5>1. srv'[c] = "refusal"
          BY Zenon, <1>1, <4>1, PrepareFacts
        <5>2. PermitMoves(c) /\ permits' \in Nat
          BY Zenon, <1>1, <4>1, <5>1 DEF PermitMoves, Holding, SessionTypes
        <5> QED
          BY Zenon, <1>1, <3>1, <4>1, <5>2, PrepareFacts, StepIsLocal
             DEF SessionTypes, Streaming, Holding
      <4> QED
        BY Zenon, <1>1, <1>2, <2>1, <2>4, <3>3, <4>2, <4>3, HandlerGoesOn
           DEF Replying, Streaming, Holding
    <3> QED
      BY <3>4, <3>5
  <2>5. CASE Received(c) \in Mutations \cup Queries
    <3>1. Goto(c, "dispatch") /\ UNCHANGED <<bound, permits, applied>>
      BY Zenon, <1>5, <2>5 DEF ReadRequest, Mutations, Queries
    <3>2. TookEffect(c) => TookEffect(c)'
      BY <1>1, <3>1, ClientIsSame DEF TookEffect
    <3>3. InFlight(c)'
      BY Zenon, <1>1, <1>2, <3>1, <3>2, InFlightStays DEF worldVars, InFlight
    <3>4. Prepared(c)'
      BY <1>1, <3>1, GotoFacts DEF Prepared, Replying
    <3>5. Local(c) /\ srv'[c] = "dispatch" /\ UNCHANGED <<labels, final, applied>>
      <4>1. PermitMoves(c)
        BY <1>1, <3>1, GotoFacts DEF PermitMoves, Holding
      <4> QED
        BY Zenon, <1>1, <3>1, <4>1, GotoFacts, StepIsLocal DEF SessionTypes
    <3> QED
      BY Zenon, <1>1, <1>2, <2>1, <2>5, <3>3, <3>4, <3>5, HandlerGoesOn
         DEF Replying, Streaming, Holding
  <2>6. Received(c) \in {"unbounded", "malformed", "await"} \cup Mutations \cup Queries
    BY <1>1, <1>2 DEF Received, SessionTypes, Requests, OneShot, Phases
  <2> QED
    BY <2>2, <2>3, <2>4, <2>5, <2>6
<1> QED
  BY <1>4, <1>5

\* await_entry goes on within its loop.
LEMMA StreamGoesOn ==
  ASSUME NEW c \in Clients, SessionInv, srv[c] \in Holding,
         UNCHANGED <<clientVars, worldVars, pipe, labels, final, permits, applied>>,
         NEW pc \in Holding, srv' = [srv EXCEPT ![c] = pc],
         DOMAIN todo' = Clients, \A d \in Clients \ {c} : todo'[d] = todo[d],
         Prepared(c)'
  PROVE  SessionInv'
<1>1. SessionTypes /\ Connection(c)
  BY DEF SessionInv
<1>2. srv'[c] = pc /\ pc \in Streaming /\ srv[c] \in Streaming /\ srv[c] # "none" /\ srv[c] # "done"
  BY Zenon, <1>1 DEF SessionTypes, Streaming, Holding
<1>3. Received(c) = "await" /\ cl[c] \in {"receiving", "done"}
  BY <1>1, <1>2 DEF Connection, Phases
<1>4. req[c] = "await"
  BY <1>3 DEF Received
<1>5. InFlight(c)'
  BY Zenon, <1>1, <1>4 DEF Connection, InFlight, clientVars, worldVars
<1>6. final[c] = 0
  BY Zenon, <1>1, <1>2 DEF Connection, Accounted, SessionTypes
<1>7. Local(c)
  <2>1. PermitMoves(c)
    BY <1>2 DEF PermitMoves
  <2> QED
    BY Zenon, <1>1, <1>2, <2>1, StepIsLocal DEF SessionTypes
<1> QED
  BY <1>2, <1>3, <1>5, <1>6, <1>7, HandlerGoesOn DEF Replying, Streaming, Holding

\* The outcome of a wait, about to be sent as its last frame.
LEMMA LastFrameKeepsInv ==
  ASSUME NEW c \in Clients, SessionInv, srv[c] \in Holding,
         UNCHANGED <<clientVars, worldVars, pipe, permits, applied>>,
         NEW bytes \in {"posted", "error"}, NEW outcome \in Outcomes,
         Prepare(c, "frame", bytes, outcome, "none"), bytes = "posted" => entry = "posted"
  PROVE  SessionInv'
<1>1. SessionTypes
  BY DEF SessionInv
<1>2. /\ srv' = [srv EXCEPT ![c] = "frame"] /\ srv'[c] = "frame"
      /\ todo'[c].bytes = bytes /\ todo'[c].outcome = outcome /\ todo'[c].kind = "none"
      /\ DOMAIN todo' = Clients /\ \A d \in Clients \ {c} : todo'[d] = todo[d]
      /\ UNCHANGED <<labels, final>>
  BY Zenon, <1>1 DEF Prepare, SessionTypes
<1>3. Prepared(c)'
  BY <1>2 DEF Prepared, Replying, Frames, worldVars
<1> QED
  BY Zenon, <1>2, <1>3, StreamGoesOn DEF Holding

\* A step within the loop that prepares no frame.
LEMMA LoopKeepsInv ==
  ASSUME NEW c \in Clients, SessionInv, srv[c] \in Holding,
         UNCHANGED <<clientVars, worldVars, pipe, permits, applied>>,
         NEW pc \in {"check", "lookup", "parked"}, Goto(c, pc)
  PROVE  SessionInv'
<1>1. SessionTypes
  BY DEF SessionInv
<1>2. /\ srv' = [srv EXCEPT ![c] = pc] /\ srv'[c] = pc
      /\ DOMAIN todo' = Clients /\ \A d \in Clients \ {c} : todo'[d] = todo[d]
      /\ UNCHANGED <<labels, final>>
  BY <1>1 DEF Goto, SessionTypes
<1>3. Prepared(c)'
  BY Zenon, <1>2 DEF Prepared, Replying
<1> QED
  BY Zenon, <1>2, <1>3, StreamGoesOn DEF Holding

\* The shutdown tests of await_entry, before a lookup and in the select.
LEMMA ChecksKeepInv ==
  ASSUME NEW c \in Clients, SessionInv, Check(c) \/ Wake(c)
  PROVE  SessionInv'
<1>1. srv[c] \in Holding /\ UNCHANGED <<clientVars, worldVars, pipe, permits, applied>>
  BY DEF Check, Wake, Holding
<1>2. CASE Prepare(c, "frame", "error", "shutdown", "none")
  BY <1>1, <1>2, LastFrameKeepsInv DEF Outcomes
<1>3. CASE Goto(c, "lookup") \/ Goto(c, "check")
  BY <1>1, <1>3, LoopKeepsInv
<1> QED
  BY <1>2, <1>3 DEF Check, Wake

\* respond and send_posted.
LEMMA LookupKeepsInv ==
  ASSUME NEW c \in Clients, SessionInv, Lookup(c)
  PROVE  SessionInv'
<1>1. srv[c] \in Holding /\ UNCHANGED <<clientVars, worldVars, pipe, permits, applied>>
  BY DEF Lookup, Holding
<1>2. CASE entry = "posted" /\ Prepare(c, "frame", "posted", "posted", "none")
  BY <1>1, <1>2, LastFrameKeepsInv DEF Outcomes
<1>3. CASE \E outcome \in Outcomes : Prepare(c, "frame", "error", outcome, "none")
  BY <1>1, <1>3, LastFrameKeepsInv
<1>4. CASE Prepare(c, "frame", "waiting", "none", "none")
  <2>1. SessionTypes
    BY DEF SessionInv
  <2>2. /\ srv' = [srv EXCEPT ![c] = "frame"] /\ srv'[c] = "frame"
        /\ todo'[c].bytes = "waiting" /\ todo'[c].kind = "none"
        /\ DOMAIN todo' = Clients /\ \A d \in Clients \ {c} : todo'[d] = todo[d]
        /\ UNCHANGED <<labels, final>>
    BY <1>4, <2>1 DEF Prepare, SessionTypes
  <2>3. Prepared(c)'
    BY <2>2 DEF Prepared, Replying, Frames
  <2> QED
    BY Zenon, <1>1, <2>2, <2>3, StreamGoesOn DEF Holding
<1>5. Missing(c) \in Outcomes /\ Categories \cup {"invalid_identifier"} \subseteq Outcomes
  BY CategoriesAssumption DEF Missing, Outcomes
<1> QED
  BY Zenon, <1>2, <1>3, <1>4, <1>5 DEF Lookup, Outcomes

\* The response of dispatch_request, about to be written.
LEMMA ReplyIsPrepared ==
  ASSUME NEW c \in Clients, SessionInv, srv[c] = "dispatch",
         UNCHANGED <<clientVars, worldVars, pipe, permits>>,
         NEW bytes, NEW outcome, NEW kind, Prepare(c, "writing", bytes, outcome, kind),
         applied' \in [Clients -> {0, 1}], \A d \in Clients \ {c} : applied'[d] = applied[d],
         \/ /\ bytes = Payload(req[c]) /\ outcome = "accepted" /\ kind = "none"
            /\ req[c] \in Mutations => applied'[c] = 1
         \/ /\ bytes = "reply_error" /\ outcome = "failed"
            /\ kind \in StoreCategory \cup {"response_too_large"}
  PROVE  SessionInv'
<1>1. SessionTypes /\ Connection(c)
  BY Zenon DEF SessionInv
<1>2. /\ Received(c) \in Mutations \cup Queries /\ cl[c] \in {"receiving", "done"}
      /\ applied[c] = 0 /\ final[c] = 0
  BY Zenon, <1>1 DEF Connection, Phases, Accounted, SessionTypes
<1>3. req[c] # "await" /\ pipe[c] = << >>
  BY Zenon, <1>1, <1>2 DEF Connection, InFlight, Received, Mutations, Queries
<1>4. /\ srv' = [srv EXCEPT ![c] = "writing"] /\ srv'[c] = "writing"
      /\ todo'[c] = [bytes |-> bytes, outcome |-> outcome, kind |-> kind]
      /\ todo'[c].bytes = bytes /\ todo'[c].outcome = outcome /\ todo'[c].kind = kind
      /\ DOMAIN todo' = Clients /\ \A d \in Clients \ {c} : todo'[d] = todo[d]
      /\ UNCHANGED <<labels, final>>
  BY Zenon, <1>1 DEF Prepare, SessionTypes
<1>5. req' = req /\ Received(c)' = Received(c)
  BY Zenon, ClientIsSame
<1>6. Prepared(c)'
  BY Zenon, <1>2, <1>4, <1>5 DEF Prepared, Replying, Success, TookEffect, Received, Mutations, Queries
<1>7. InFlight(c)'
  BY Zenon, <1>3, <1>5 DEF InFlight
<1>8. Local(c)
  <2>1. PermitMoves(c)
    BY Zenon, <1>4 DEF PermitMoves, Holding
  <2> QED
    BY Zenon, <1>1, <1>4, <2>1, StepIsLocal DEF SessionTypes, Replying
<1> QED
  BY Zenon, <1>2, <1>4, <1>6, <1>7, <1>8, HandlerGoesOn DEF Replying, Streaming, Holding

\* dispatch_request: a mutation takes effect at most once.
LEMMA DispatchKeepsInv ==
  ASSUME NEW c \in Clients, SessionInv, Dispatch(c)
  PROVE  SessionInv'
<1>1. /\ srv[c] = "dispatch" /\ UNCHANGED <<clientVars, worldVars, pipe, permits>>
      /\ SessionTypes /\ applied[c] = 0
  BY Zenon DEF Dispatch, SessionInv, Connection, Accounted
<1>2. ASSUME NEW n \in {0, 1}, applied' = [applied EXCEPT ![c] = applied[c] + n]
      PROVE  /\ applied' \in [Clients -> {0, 1}] /\ applied'[c] = n
             /\ \A d \in Clients \ {c} : applied'[d] = applied[d]
  BY <1>1, <1>2 DEF SessionTypes
<1>3. CASE /\ Prepare(c, "writing", Payload(req[c]), "accepted", "none")
           /\ applied' = [applied EXCEPT ![c] = applied[c] + IF req[c] \in Mutations THEN 1 ELSE 0]
  BY Zenon, <1>1, <1>2, <1>3, ReplyIsPrepared
<1>4. CASE /\ \E kind \in Categories \cup {"response_too_large"} :
                Prepare(c, "writing", "reply_error", "failed", kind)
           /\ UNCHANGED applied \/ applied' = [applied EXCEPT ![c] = applied[c] + 1]
  <2>1. applied' \in [Clients -> {0, 1}] /\ \A d \in Clients \ {c} : applied'[d] = applied[d]
    BY Zenon, <1>1, <1>2, <1>4 DEF SessionTypes
  <2> QED
    BY Zenon, <1>1, <1>4, <2>1, CategoriesAssumption, ReplyIsPrepared
<1> QED
  BY Zenon, <1>3, <1>4 DEF Dispatch

\* A peer that still reads has sent its whole request.
LEMMA ReaderSentAll ==
  ASSUME NEW c \in Clients, SessionTypes, Phases(c), Receives(c),
         srv[c] \in Replying \cup Streaming
  PROVE  cl[c] = "receiving" /\ Received(c) = req[c]
  BY Zenon DEF Phases, Receives, Received, SessionTypes

\* write_all of the response.
LEMMA WriteKeepsInv ==
  ASSUME NEW c \in Clients, SessionInv, WriteReply(c)
  PROVE  SessionInv'
<1>1. SessionTypes /\ Connection(c)
  BY DEF SessionInv
<1>2. /\ srv[c] = "writing" /\ Receives(c) /\ pipe' = [pipe EXCEPT ![c] = Append(pipe[c], todo[c].bytes)]
      /\ UNCHANGED <<clientVars, worldVars, permits, applied>>
  BY DEF WriteReply
<1>3. /\ srv' = [srv EXCEPT ![c] = "closing"] /\ srv'[c] = "closing"
      /\ UNCHANGED <<todo, labels, final>>
  BY Zenon, <1>1 DEF WriteReply, Goto, SessionTypes
<1>4. /\ cl[c] = "receiving" /\ Received(c) = req[c] /\ final[c] = 0
      /\ req[c] \in Mutations \cup Queries \cup {"malformed"} /\ req[c] # "await"
  BY Zenon, <1>1, <1>2, ReaderSentAll
     DEF Connection, Phases, Accounted, SessionTypes, Replying, Mutations, Queries
<1>5. \/ Success(c) /\ todo[c] = [bytes |-> Payload(req[c]), outcome |-> "accepted", kind |-> "none"]
      \/ /\ todo[c].bytes = "reply_error" /\ todo[c].outcome = "failed"
         /\ todo[c].kind \in StoreCategory \cup {"response_too_large"}
  BY Zenon, <1>1, <1>2 DEF Connection, Prepared, Replying
<1>6. \/ todo[c].bytes = "reply_error"
      \/ todo[c].bytes = Payload(req[c]) /\ Success(c)
  BY <1>5
<1>7. todo[c].bytes \in Replies
  <2>1. ASSUME req[c] \in Mutations \cup Queries PROVE Payload(req[c]) \in Replies
    BY <2>1, Zenon DEF Payload, Replies, Mutations, Queries
  <2> QED
    BY <1>4, <1>6, <2>1 DEF Success, TookEffect, Replies
<1>8. pipe'[c] = <<todo[c].bytes>>
  <2>1. pipe[c] = << >>
    BY Zenon, <1>1, <1>2, <1>4 DEF Connection, InFlight
  <2> QED
    BY <1>1, <1>2, <2>1 DEF SessionTypes
<1>9. UNCHANGED <<req, entry>> /\ Received(c)' = Received(c) /\ (Success(c) => Success(c)')
  BY Zenon, <1>2, ClientIsSame DEF clientVars, worldVars, Success, TookEffect
<1>10. InFlight(c)'
  BY Zenon, <1>3, <1>4, <1>6, <1>8, <1>9 DEF InFlight, Success
<1>11. Prepared(c)'
  BY Zenon, <1>3, <1>5, <1>9 DEF Prepared, Replying
<1>12. Local(c)
  <2>1. PermitMoves(c)
    BY <1>2, <1>3 DEF PermitMoves, Holding
  <2>2. UNCHANGED <<req, cl, seen, result>>
    BY <1>2 DEF clientVars
  <2>3. /\ pipe' \in [Clients -> Seq(Replies \cup Frames \cup {"partial"})]
        /\ \A d \in Clients \ {c} : pipe'[d] = pipe[d]
    BY <1>1, <1>2, <1>7 DEF SessionTypes
  <2>4. SessionTypes'
    BY Zenon, <1>1, <1>2, <1>3, <2>2, <2>3 DEF SessionTypes, Replying
  <2>5. \A d \in Clients \ {c} : Row(d)' = Row(d)
    BY Zenon, <1>1, <1>2, <1>3, <2>2, <2>3 DEF SessionTypes, Row
  <2> QED
    BY <1>2, <2>1, <2>4, <2>5 DEF Local
<1> QED
  BY Zenon, <1>2, <1>3, <1>4, <1>10, <1>11, <1>12, HandlerGoesOn DEF Replying, Streaming, Holding

\* The operation recorded for a handler past its read: the request it read.
LEMMA OperationIsKnown ==
  ASSUME NEW c \in Clients, SessionTypes, Phases(c), srv[c] \in Replying \cup Streaming
  PROVE  /\ srv[c] \in Replying => OperationLabel(c) # "await"
         /\ Received(c) # "malformed" => OperationLabel(c) = Received(c)
         /\ srv[c] \in Streaming => OperationLabel(c) = "await"
<1>1. /\ cl[c] # "sending"
      /\ Received(c) \in Mutations \cup Queries \cup {"malformed", "await"}
      /\ srv[c] \in Replying => Received(c) # "await"
      /\ srv[c] \in Streaming => Received(c) = "await"
  BY Zenon DEF Phases, Mutations, Queries
<1>2. Received(c) # "malformed" => OperationLabel(c) = Received(c)
  BY <1>1 DEF OperationLabel, Received
<1>3. Received(c) = "malformed" => OperationLabel(c) = "unknown"
  BY <1>1 DEF OperationLabel, Mutations, Queries
<1> QED
  BY <1>1, <1>2, <1>3

\* What a write that is given up leaves in the pipe.
LEMMA CutFacts ==
  ASSUME NEW c \in Clients, SessionTypes, pipe' \in Cut(c)
  PROVE  /\ pipe' \in [Clients -> Seq(Replies \cup Frames \cup {"partial"})]
         /\ \A d \in Clients \ {c} : pipe'[d] = pipe[d]
         /\ \/ pipe'[c] = pipe[c]
            \/ /\ pipe'[c] = Append(pipe[c], "partial")
               /\ srv[c] \in {"writing", "frame", "refusal"} /\ Receives(c)
<1> DEFINE Bytes == Replies \cup Frames \cup {"partial"}
           more  == Append(pipe[c], "partial")
<1>1. pipe \in [Clients -> Seq(Bytes)] /\ more \in Seq(Bytes)
  BY DEF SessionTypes
<1>2. \/ pipe' = pipe
      \/ /\ pipe' = [pipe EXCEPT ![c] = more]
         /\ srv[c] \in {"writing", "frame", "refusal"} /\ Receives(c)
  BY DEF Cut
<1> HIDE DEF Bytes, more
<1>3. /\ pipe' \in [Clients -> Seq(Bytes)] /\ \A d \in Clients \ {c} : pipe'[d] = pipe[d]
      /\ \/ pipe'[c] = pipe[c]
         \/ pipe'[c] = more /\ srv[c] \in {"writing", "frame", "refusal"} /\ Receives(c)
  BY <1>1, <1>2
<1> QED
  BY <1>3 DEF Bytes, more

\* stream.shutdown after the response.
LEMMA CloseKeepsInv ==
  ASSUME NEW c \in Clients, SessionInv, CloseReply(c)
  PROVE  SessionInv'
<1>1. /\ SessionTypes /\ Connection(c) /\ srv[c] = "closing"
      /\ Finish(c, todo[c].outcome, todo[c].kind) /\ UNCHANGED <<clientVars, worldVars, pipe, final>>
  BY DEF SessionInv, CloseReply
<1>2. \/ Success(c) /\ todo[c].outcome = "accepted" /\ todo[c].kind = "none"
      \/ todo[c].outcome = "failed" /\ todo[c].kind \in StoreCategory \cup {"response_too_large"}
  BY <1>1 DEF Connection, Prepared, Replying
<1>3. /\ OperationLabel(c) # "await"
      /\ OperationLabel(c) = "unknown" => todo[c].outcome = "failed"
  BY Zenon, <1>1, <1>2, OperationIsKnown
     DEF Connection, Replying, Success, TookEffect, Received, Mutations, Queries
<1>4. InFlight(c)'
  <2>1. applied' = applied /\ srv'[c] = "done"
    BY Zenon, <1>1 DEF Finish, SessionTypes
  <2>2. TookEffect(c) => TookEffect(c)'
    BY Zenon, <1>1, <2>1, ClientIsSame DEF TookEffect
  <2> QED
    BY Zenon, <1>1, <2>1, <2>2, InFlightStays DEF Connection, worldVars
<1>5. /\ todo[c].outcome # "unknown" /\ BoundedOutcomeLabel(todo[c].outcome) = todo[c].outcome
      /\ todo[c].kind # "unknown" /\ BoundedErrorLabel(todo[c].kind) = todo[c].kind
  BY Zenon, <1>2, LabelsAreBounded
<1> QED
  BY Zenon, <1>1, <1>3, <1>4, <1>5, FinishKeepsInv DEF SessionTypes

\* The response cannot be written in time, or the stream not closed.
LEMMA ReplyFailureKeepsInv ==
  ASSUME NEW c \in Clients, SessionInv, ReplyFails(c)
  PROVE  SessionInv'
<1>1. /\ SessionTypes /\ Connection(c) /\ srv[c] \in Replying /\ srv[c] # "none"
      /\ Finish(c, "rejected", "protocol_io") /\ pipe' \in Cut(c)
      /\ UNCHANGED <<clientVars, worldVars, final>>
  BY DEF SessionInv, ReplyFails, Replying
<1>2. OperationLabel(c) # "await"
  BY <1>1, OperationIsKnown DEF Connection
<1>3. InFlight(c)'
  <2>1. applied' = applied /\ srv'[c] = "done"
    BY Zenon, <1>1 DEF Finish, SessionTypes
  <2>2. TookEffect(c) => TookEffect(c)'
    BY Zenon, <1>1, <2>1, ClientIsSame DEF TookEffect
  <2>3. CASE pipe'[c] = pipe[c]
    BY Zenon, <1>1, <2>1, <2>2, <2>3, InFlightStays DEF Connection, worldVars
  <2>4. CASE pipe'[c] # pipe[c]
    <3>1. srv[c] = "writing" /\ Receives(c) /\ pipe'[c] = Append(pipe[c], "partial")
      BY Zenon, <1>1, <2>4, CutFacts DEF Replying
    <3>2. req[c] # "await"
      <4>1. Received(c) = req[c]
        BY <1>1, <3>1, ReaderSentAll DEF Connection
      <4> QED
        BY Zenon, <1>1, <4>1 DEF Connection, Phases, Mutations, Queries
    <3>3. pipe[c] = << >>
      BY Zenon, <1>1, <3>1, <3>2 DEF Connection, InFlight
    <3>4. pipe'[c] = <<"partial">> /\ req' = req
      BY <1>1, <3>1, <3>3 DEF clientVars
    <3> QED
      BY Zenon, <2>1, <3>2, <3>4 DEF InFlight
  <2> QED
    BY <2>3, <2>4
<1>4. /\ BoundedOutcomeLabel("rejected") = "rejected"
      /\ BoundedErrorLabel("protocol_io") = "protocol_io"
  BY LabelsAreBounded
<1>5. /\ pipe' \in [Clients -> Seq(Replies \cup Frames \cup {"partial"})]
      /\ \A d \in Clients \ {c} : pipe'[d] = pipe[d]
  BY Zenon, <1>1, CutFacts
<1> QED
  BY Zenon, <1>1, <1>2, <1>3, <1>4, <1>5, FinishKeepsInv DEF SessionTypes

\* A stream stays truthful when a frame, or a part of one, is sent.
LEMMA StreamStaysTrue ==
  ASSUME NEW c \in Clients, SessionTypes, InFlight(c), req[c] = "await", UNCHANGED <<req, entry>>,
         NEW b, \/ pipe'[c] = pipe[c]
                \/ pipe'[c] = Append(pipe[c], b) /\ (b = "posted" => entry = "posted")
  PROVE  InFlight(c)'
<1>1. CASE pipe'[c] = pipe[c]
  BY Zenon, <1>1 DEF InFlight
<1>2. CASE pipe'[c] = Append(pipe[c], b) /\ (b = "posted" => entry = "posted")
  <2>1. pipe[c] \in Seq(Replies \cup Frames \cup {"partial"})
    BY Zenon DEF SessionTypes
  <2>2. \A k \in 1..Len(pipe[c]) : pipe[c][k] = "posted" => entry = "posted"
    BY Zenon DEF InFlight
  <2>3. \A k \in 1..Len(pipe'[c]) :
          (k \in 1..Len(pipe[c]) /\ pipe'[c][k] = pipe[c][k]) \/ pipe'[c][k] = b
    BY <1>2, <2>1
  <2>4. \A k \in 1..Len(pipe'[c]) : pipe'[c][k] = "posted" => entry' = "posted"
    BY <1>2, <2>2, <2>3
  <2> QED
    BY Zenon, <2>4 DEF InFlight
<1> QED
  BY Zenon, <1>1, <1>2

\* What a handler of await knows when it writes a frame.
LEMMA FrameFacts ==
  ASSUME NEW c \in Clients, SessionInv, srv[c] \in {"frame", "refusal"}
  PROVE  /\ SessionTypes /\ Connection(c) /\ srv[c] \in Streaming /\ srv[c] # "none"
         /\ req[c] = "await" /\ OperationLabel(c) = "await" /\ final[c] = 0
         /\ todo[c].bytes \in Frames /\ todo[c].kind = "none"
         /\ todo[c].bytes = "waiting" => srv[c] = "frame"
         /\ todo[c].bytes # "waiting" => todo[c].outcome \in Outcomes \cup {"rejected_capacity"}
         /\ todo[c].bytes = "posted" => entry = "posted"
<1>1. SessionTypes /\ Connection(c) /\ srv[c] \in Streaming
  BY DEF SessionInv, Streaming, Holding
<1>2. req[c] = "await"
  BY Zenon, <1>1 DEF Connection, Phases, Received
<1>3. OperationLabel(c) = "await"
  BY <1>1, OperationIsKnown DEF Connection
<1>4. final[c] = 0
  BY Zenon, <1>1 DEF Connection, Accounted, SessionTypes
<1>5. CASE srv[c] = "frame"
  BY Zenon, <1>1, <1>2, <1>3, <1>4, <1>5 DEF Connection, Prepared
<1>6. CASE srv[c] = "refusal"
  <2>1. todo[c] = [bytes |-> "error", outcome |-> "rejected_capacity", kind |-> "none"]
    BY Zenon, <1>1, <1>6 DEF Connection, Prepared
  <2>2. /\ todo[c].bytes = "error" /\ todo[c].outcome = "rejected_capacity"
        /\ todo[c].kind = "none"
    BY <2>1
  <2>3. todo[c].bytes \in Frames
    BY Zenon, <2>2 DEF Frames
  <2> QED
    BY Zenon, <1>1, <1>2, <1>3, <1>4, <1>6, <2>2, <2>3
<1> QED
  BY Zenon, <1>5, <1>6

\* send_frame within its deadline: a waiting frame continues the stream, any
\* other is the last.
LEMMA FrameKeepsInv ==
  ASSUME NEW c \in Clients, SessionInv, SendFrame(c)
  PROVE  SessionInv'
<1>1. /\ srv[c] \in {"frame", "refusal"} /\ pipe' = [pipe EXCEPT ![c] = Append(pipe[c], todo[c].bytes)]
      /\ final' = [final EXCEPT ![c] = final[c] + IF todo[c].bytes = "waiting" THEN 0 ELSE 1]
      /\ AfterFrame(c) /\ UNCHANGED <<clientVars, worldVars>>
  BY Zenon DEF SendFrame
<1>2. /\ SessionTypes /\ Connection(c) /\ srv[c] \in Streaming /\ srv[c] # "none"
      /\ req[c] = "await" /\ OperationLabel(c) = "await" /\ final[c] = 0
      /\ todo[c].bytes \in Frames /\ todo[c].kind = "none"
      /\ todo[c].bytes = "waiting" => srv[c] = "frame"
      /\ todo[c].bytes # "waiting" => todo[c].outcome \in Outcomes \cup {"rejected_capacity"}
      /\ todo[c].bytes = "posted" => entry = "posted"
  BY Zenon, <1>1, FrameFacts
<1>3. UNCHANGED <<req, cl, seen, result, entry, up>>
  BY <1>1 DEF clientVars, worldVars
<1>4. /\ pipe' \in [Clients -> Seq(Replies \cup Frames \cup {"partial"})]
      /\ pipe'[c] = Append(pipe[c], todo[c].bytes)
      /\ \A d \in Clients \ {c} : pipe'[d] = pipe[d]
  <2>1. pipe \in [Clients -> Seq(Replies \cup Frames \cup {"partial"})]
    BY Zenon, <1>2 DEF SessionTypes
  <2>2. todo[c].bytes \in Replies \cup Frames \cup {"partial"}
    BY Zenon, <1>2
  <2>3. Append(pipe[c], todo[c].bytes) \in Seq(Replies \cup Frames \cup {"partial"})
    BY <2>1, <2>2
  <2> QED
    BY Zenon, <1>1, <2>1, <2>3
<1>5. InFlight(c)'
  BY Zenon, <1>2, <1>3, <1>4, StreamStaysTrue DEF Connection
<1>6. CASE todo[c].bytes = "waiting"
  <2>1. /\ srv[c] = "frame" /\ srv' = [srv EXCEPT ![c] = "parked"] /\ srv'[c] = "parked"
        /\ UNCHANGED <<todo, labels, permits, applied>>
    BY Zenon, <1>1, <1>2, <1>6 DEF AfterFrame, SessionTypes
  <2>2. final' \in [Clients -> {0, 1}] /\ \A d \in Clients : final'[d] = final[d]
    BY <1>1, <1>2, <1>6 DEF SessionTypes
  <2>3. SessionTypes'
    BY Zenon, <1>2, <1>3, <1>4, <2>1, <2>2 DEF SessionTypes, Streaming, Holding
  <2>4. \A d \in Clients \ {c} : Row(d)' = Row(d)
    BY Zenon, <1>2, <1>3, <1>4, <2>1, <2>2 DEF SessionTypes, Row
  <2>5. Local(c)
    BY Zenon, <1>1, <2>1, <2>3, <2>4 DEF Local, PermitMoves, Holding
  <2>6. Prepared(c)'
    BY Zenon, <2>1 DEF Prepared, Replying
  <2>7. Received(c) = "await" /\ cl[c] \in {"receiving", "done"}
    BY Zenon, <1>2 DEF Connection, Phases
  <2> QED
    BY Zenon, <1>2, <1>5, <2>1, <2>2, <2>5, <2>6, <2>7, HandlerGoesOn DEF Replying, Streaming, Holding
<1>7. CASE todo[c].bytes # "waiting"
  <2>1. Finish(c, todo[c].outcome, todo[c].kind)
    BY Zenon, <1>1, <1>7 DEF AfterFrame
  <2>2. /\ final' \in [Clients -> {0, 1}] /\ final'[c] = 1
        /\ \A d \in Clients \ {c} : final'[d] = final[d]
    BY <1>1, <1>2, <1>7 DEF SessionTypes
  <2>3. /\ todo[c].outcome # "unknown" /\ BoundedOutcomeLabel(todo[c].outcome) = todo[c].outcome
        /\ todo[c].kind # "unknown" /\ BoundedErrorLabel(todo[c].kind) = todo[c].kind
    BY Zenon, <1>2, <1>7, LabelsAreBounded
  <2>4. todo[c].outcome # "client_gone"
    BY Zenon, <1>2, <1>7 DEF Outcomes, StoreCategory
  <2>5. \A d \in Clients \ {c} : final'[d] = final[d] /\ pipe'[d] = pipe[d]
    BY Zenon, <1>4, <2>2
  <2>6. /\ OperationLabel(c) = "unknown" => todo[c].outcome \in {"rejected", "failed"}
        /\ OperationLabel(c) = "await" => (final'[c] = 0 <=> todo[c].outcome = "client_gone")
    BY <1>2, <2>2, <2>4
  <2> QED
    BY Zenon, <1>1, <1>2, <1>4, <1>5, <2>1, <2>2, <2>3, <2>5, <2>6, FinishKeepsInv
<1> QED
  BY Zenon, <1>6, <1>7

\* send_frame fails.
LEMMA FrameFailureKeepsInv ==
  ASSUME NEW c \in Clients, SessionInv, SendFails(c)
  PROVE  SessionInv'
<1>1. /\ srv[c] \in {"frame", "refusal"} /\ pipe' \in Cut(c) /\ Finish(c, "client_gone", "none")
      /\ UNCHANGED <<clientVars, worldVars, final>>
  BY DEF SendFails
<1>2. /\ SessionTypes /\ Connection(c) /\ srv[c] # "none"
      /\ req[c] = "await" /\ OperationLabel(c) = "await" /\ final[c] = 0
  BY Zenon, <1>1, FrameFacts
<1>3. /\ pipe' \in [Clients -> Seq(Replies \cup Frames \cup {"partial"})]
      /\ \A d \in Clients \ {c} : pipe'[d] = pipe[d]
      /\ pipe'[c] = pipe[c] \/ pipe'[c] = Append(pipe[c], "partial")
  BY Zenon, <1>1, <1>2, CutFacts
<1>4. InFlight(c)'
  <2>1. UNCHANGED <<req, entry>> /\ InFlight(c)
    BY Zenon, <1>1, <1>2 DEF Connection, clientVars, worldVars
  <2>2. \E b \in {"partial"} :
          \/ pipe'[c] = pipe[c]
          \/ pipe'[c] = Append(pipe[c], b) /\ (b = "posted" => entry = "posted")
    BY <1>3
  <2> QED
    BY Zenon, <1>2, <2>1, <2>2, StreamStaysTrue
<1>5. /\ BoundedOutcomeLabel("client_gone") = "client_gone"
      /\ BoundedErrorLabel("none") = "none"
  BY LabelsAreBounded
<1> QED
  BY Zenon, <1>1, <1>2, <1>3, <1>4, <1>5, FinishKeepsInv DEF SessionTypes

-----------------------------------------------------------------------------
(* Clients and the rest of the daemon.                                     *)

\* A client's step: the handler's half of the connection stays, and the
\* client reports what it may.
LEMMA ClientKeepsInv ==
  ASSUME NEW c \in Clients, SessionInv, UNCHANGED <<req, handlerVars, worldVars>>,
         cl' \in [Clients -> {"idle", "sending", "receiving", "done"}],
         DOMAIN seen' = Clients, DOMAIN result' = Clients,
         pipe' \in [Clients -> Seq(Replies \cup Frames \cup {"partial"})],
         \A d \in Clients \ {c} :
           /\ cl'[d] = cl[d] /\ seen'[d] = seen[d] /\ result'[d] = result[d] /\ pipe'[d] = pipe[d],
         cl[c] \in {"sending", "receiving"}, cl'[c] \in {"receiving", "done"},
         cl'[c] = "receiving" => result'[c] = result[c],
         result'[c] = "cut" => cl[c] = "sending",
         InFlight(c)', Told(c)'
  PROVE  SessionInv'
<1>1. SessionTypes /\ Connection(c)
  BY Zenon DEF SessionInv
<1>2. UNCHANGED <<req, srv, todo, labels, permits, applied, final, entry, up>>
  BY Zenon DEF handlerVars, worldVars
<1>3. SessionTypes'
  BY Zenon, <1>1, <1>2 DEF SessionTypes
<1>4. \A d \in Clients \ {c} : Row(d)' = Row(d)
  BY Zenon, <1>2 DEF Row
<1>5. PermitMoves(c)
  BY Zenon, <1>2 DEF PermitMoves
<1>6. srv[c] \in {"dispatch"} \cup Replying \cup Streaming =>
        cl[c] = "receiving" /\ Received(c)' = Received(c)
  BY Zenon, <1>1, <1>2 DEF Connection, Phases, Received
<1>7. Phases(c)'
  BY Zenon, <1>1, <1>2, <1>6 DEF Connection, Phases
<1>8. Prepared(c)'
  <2>1. srv[c] \in Replying /\ Success(c) => Success(c)'
    BY Zenon, <1>2, <1>6 DEF Success, TookEffect
  <2> QED
    BY Zenon, <1>1, <1>2, <2>1 DEF Connection, Prepared
<1>9. Accounted(c)'
  BY Zenon, <1>1, <1>2 DEF Connection, Accounted
<1> QED
  BY Zenon, <1>2, <1>3, <1>4, <1>5, <1>7, <1>8, <1>9, OneConnection DEF Connection

\* connect_first: the connection is accepted, refused, or not even tried.
LEMMA ConnectKeepsInv ==
  ASSUME NEW c \in Clients, SessionInv, Connect(c)
  PROVE  SessionInv'
<1>1. /\ SessionTypes /\ Connection(c) /\ cl[c] = "idle" /\ srv[c] = "none" /\ result[c] = "none"
      /\ UNCHANGED <<req, seen, todo, labels, pipe, permits, applied, final, entry, up>>
  BY Zenon DEF SessionInv, Connect, Connection, Phases, worldVars
<1>2. \/ /\ cl' = [cl EXCEPT ![c] = "sending"] /\ srv' = [srv EXCEPT ![c] = "reading"]
         /\ result' = result /\ req[c] # "oversize"
      \/ /\ cl' = [cl EXCEPT ![c] = "done"] /\ srv' = srv
         /\ \E how \in {"request_too_large", "connect"} : result' = [result EXCEPT ![c] = how]
  BY Zenon DEF Connect, Ends
<1>3. SessionTypes'
  <2>1. cl' \in [Clients -> {"idle", "sending", "receiving", "done"}] /\ DOMAIN result' = Clients
    BY Zenon, <1>1, <1>2 DEF SessionTypes
  <2>2. srv' \in [Clients -> {"none", "reading", "dispatch", "done", "killed"}
                               \cup Replying \cup Streaming]
    BY Zenon, <1>1, <1>2 DEF SessionTypes
  <2> QED
    BY Zenon, <1>1, <2>1, <2>2 DEF SessionTypes
<1>4. \A d \in Clients \ {c} : Row(d)' = Row(d)
  BY Zenon, <1>1, <1>2 DEF SessionTypes, Row
<1>5. /\ \/ cl'[c] = "sending" /\ srv'[c] = "reading" /\ result'[c] = "none" /\ req[c] # "oversize"
         \/ cl'[c] = "done" /\ srv'[c] = "none" /\ result'[c] \in {"request_too_large", "connect"}
  BY Zenon, <1>1, <1>2 DEF SessionTypes
<1>6. PermitMoves(c)
  BY Zenon, <1>1, <1>5 DEF PermitMoves, Holding
<1>7. Phases(c)' /\ Prepared(c)'
  BY Zenon, <1>1, <1>5 DEF Phases, Prepared, Replying, Streaming, Holding
<1>8. Accounted(c)' /\ Told(c)'
  BY Zenon, <1>1, <1>5 DEF Connection, Accounted, Told
<1>9. InFlight(c)'
  BY Zenon, <1>1, <1>5 DEF Connection, InFlight, TookEffect
<1> QED
  BY Zenon, <1>1, <1>3, <1>4, <1>6, <1>7, <1>8, <1>9, OneConnection DEF Connection

\* The client ends with a report that promises nothing, or goes on to read.
LEMMA LeavingKeepsInv ==
  ASSUME NEW c \in Clients, SessionInv, Send(c) \/ Leave(c)
  PROVE  SessionInv'
<1>1. SessionTypes /\ Connection(c)
  BY DEF SessionInv
<1>2. /\ UNCHANGED <<req, seen, handlerVars, pipe, worldVars>>
      /\ cl[c] \in {"sending", "receiving"}
      /\ \/ cl' = [cl EXCEPT ![c] = "receiving"] /\ result' = result
         \/ /\ cl' = [cl EXCEPT ![c] = "done"]
            /\ \E how \in {"write", "timeout", "cut"} :
                 result' = [result EXCEPT ![c] = how] /\ (how = "cut" => cl[c] = "sending")
  BY Zenon DEF Send, Leave, Ends
<1>3. /\ cl' \in [Clients -> {"idle", "sending", "receiving", "done"}]
      /\ DOMAIN result' = Clients
      /\ \A d \in Clients \ {c} : cl'[d] = cl[d] /\ result'[d] = result[d]
      /\ \/ cl'[c] = "receiving" /\ result'[c] = result[c] /\ result[c] = "none"
         \/ /\ cl'[c] = "done" /\ result'[c] \in {"write", "timeout", "cut"}
            /\ result'[c] = "cut" => cl[c] = "sending"
  BY Zenon, <1>1, <1>2 DEF SessionTypes, Connection, Phases
<1>4. InFlight(c)'
  BY Zenon, <1>1, <1>2 DEF Connection, InFlight, TookEffect, handlerVars, worldVars
<1>5. Told(c)'
  BY Zenon, <1>3 DEF Told
<1> QED
  BY Zenon, <1>1, <1>2, <1>3, <1>4, <1>5, ClientKeepsInv DEF SessionTypes

\* transact_with_timeout: what the client makes of the reply.
LEMMA ReplyIsTrue ==
  ASSUME NEW c \in Clients, SessionInv, ReceiveReply(c)
  PROVE  SessionInv'
<1>1. SessionTypes /\ Connection(c)
  BY DEF SessionInv
<1>2. /\ UNCHANGED <<req, seen, handlerVars, worldVars>>
      /\ cl[c] = "receiving" /\ req[c] \in OneShot /\ req[c] # "await"
      /\ pipe' = [pipe EXCEPT ![c] = << >>] /\ cl' = [cl EXCEPT ![c] = "done"]
      /\ result' = [result EXCEPT ![c] =
           IF pipe[c] \in {<< >>, <<"partial">>} THEN "bad_reply"
           ELSE IF pipe[c] = <<"reply_error">> THEN "daemon"
           ELSE IF pipe[c] = <<Rendered(req[c])>> THEN "ok" ELSE "unexpected"]
  BY Zenon DEF ReceiveReply, Ends, OneShot, Mutations, Queries
<1>3. /\ cl' \in [Clients -> {"idle", "sending", "receiving", "done"}] /\ cl'[c] = "done"
      /\ DOMAIN result' = Clients
      /\ pipe' \in [Clients -> Seq(Replies \cup Frames \cup {"partial"})] /\ pipe'[c] = << >>
      /\ \A d \in Clients \ {c} : cl'[d] = cl[d] /\ result'[d] = result[d] /\ pipe'[d] = pipe[d]
  BY <1>1, <1>2 DEF SessionTypes
<1>4. \/ result'[c] \in {"bad_reply", "daemon"}
      \/ result'[c] = "ok" /\ TookEffect(c)
  <2>1. \/ pipe[c] \in {<< >>, <<"partial">>, <<"reply_error">>}
        \/ pipe[c] = <<Payload(req[c])>> /\ TookEffect(c)
    BY Zenon, <1>1, <1>2 DEF Connection, InFlight
  <2>2. CASE pipe[c] \in {<< >>, <<"partial">>, <<"reply_error">>}
    BY Zenon, <1>1, <1>2, <2>2 DEF SessionTypes
  <2>3. CASE pipe[c] = <<Payload(req[c])>> /\ TookEffect(c)
    <3>1. pipe[c] = <<Rendered(req[c])>>
      BY <2>3, RenderedIsPayload DEF TookEffect
    <3> QED
      BY Zenon, <1>1, <1>2, <2>3, <3>1 DEF SessionTypes
  <2> QED
    BY Zenon, <2>1, <2>2, <2>3
<1>5. UNCHANGED <<srv, applied, entry>>
  BY <1>2 DEF handlerVars, worldVars
<1>6. InFlight(c)'
  BY Zenon, <1>2, <1>3 DEF InFlight
<1>7. Told(c)'
  BY Zenon, <1>2, <1>4, <1>5 DEF Told, TookEffect
<1> QED
  BY Zenon, <1>1, <1>2, <1>3, <1>4, <1>6, <1>7, ClientKeepsInv DEF SessionTypes

\* A stream as the client reads it: one frame, or its end.
LEMMA FrameIsTrue ==
  ASSUME NEW c \in Clients, SessionInv, ReceiveFrame(c) \/ ReceiveEnd(c)
  PROVE  SessionInv'
<1>1. SessionTypes /\ Connection(c) /\ cl[c] = "receiving" /\ result[c] = "none" /\ req[c] = "await"
  BY Zenon DEF SessionInv, ReceiveFrame, ReceiveEnd, Connection, Phases
<1>2. /\ UNCHANGED <<req, handlerVars, worldVars>> /\ UNCHANGED <<srv, applied, entry>>
  BY Zenon DEF ReceiveFrame, ReceiveEnd, handlerVars, worldVars
<1>3. CASE ReceiveFrame(c)
  <2>1. pipe[c] \in Seq(Replies \cup Frames \cup {"partial"}) /\ pipe[c] # << >>
    BY Zenon, <1>1, <1>3 DEF ReceiveFrame, SessionTypes
  <2>2. /\ Tail(pipe[c]) \in Seq(Replies \cup Frames \cup {"partial"})
        /\ Len(Tail(pipe[c])) = Len(pipe[c]) - 1 /\ Len(pipe[c]) \in Nat \ {0}
        /\ \A k \in 1..Len(Tail(pipe[c])) : Tail(pipe[c])[k] = pipe[c][k + 1]
        /\ Head(pipe[c]) = pipe[c][1]
    BY <2>1
  <2>3. /\ pipe' = [pipe EXCEPT ![c] = Tail(pipe[c])]
        /\ \/ /\ seen' = [seen EXCEPT ![c] = TRUE] /\ UNCHANGED <<cl, result>>
           \/ /\ cl' = [cl EXCEPT ![c] = "done"] /\ UNCHANGED seen
              /\ \/ result' = [result EXCEPT ![c] = "posted"] /\ Head(pipe[c]) = "posted"
                 \/ result' = [result EXCEPT ![c] = "daemon"]
    BY Zenon, <1>3 DEF ReceiveFrame, Ends
  <2>4. /\ cl' \in [Clients -> {"idle", "sending", "receiving", "done"}]
        /\ DOMAIN result' = Clients /\ DOMAIN seen' = Clients
        /\ \A d \in Clients \ {c} : cl'[d] = cl[d] /\ seen'[d] = seen[d] /\ result'[d] = result[d]
        /\ \/ cl'[c] = "receiving" /\ result'[c] = "none"
           \/ /\ cl'[c] = "done" /\ result'[c] \in {"posted", "daemon"}
              /\ result'[c] = "posted" => Head(pipe[c]) = "posted"
    BY Zenon, <1>1, <2>3 DEF SessionTypes
  <2>5. /\ pipe' \in [Clients -> Seq(Replies \cup Frames \cup {"partial"})]
        /\ pipe'[c] = Tail(pipe[c]) /\ \A d \in Clients \ {c} : pipe'[d] = pipe[d]
    BY Zenon, <1>1, <2>2, <2>3 DEF SessionTypes
  <2>6. \A k \in 1..Len(pipe[c]) : pipe[c][k] = "posted" => entry = "posted"
    BY Zenon, <1>1 DEF Connection, InFlight
  <2>7. InFlight(c)'
    <3>1. \A k \in 1..Len(pipe'[c]) : pipe'[c][k] = "posted" => entry' = "posted"
      BY Zenon, <1>2, <2>1, <2>5, <2>6, TailOfPosted
    <3> QED
      BY Zenon, <1>1, <1>2, <3>1 DEF InFlight
  <2>8. Told(c)'
    <3>1. Head(pipe[c]) = "posted" => entry = "posted"
      BY Zenon, <2>1, <2>6, TailOfPosted
    <3> QED
      BY Zenon, <1>2, <2>4, <3>1 DEF Told
  <2> QED
    BY Zenon, <1>1, <1>2, <2>4, <2>5, <2>7, <2>8, ClientKeepsInv
<1>4. CASE ReceiveEnd(c)
  <2>1. /\ UNCHANGED <<seen, pipe>> /\ cl' = [cl EXCEPT ![c] = "done"]
        /\ result' = [result EXCEPT ![c] = IF seen[c] THEN "connection_lost" ELSE "no_initial_reply"]
    BY Zenon, <1>4 DEF ReceiveEnd, Ends, Ended
  <2>2. /\ cl' \in [Clients -> {"idle", "sending", "receiving", "done"}] /\ cl'[c] = "done"
        /\ DOMAIN result' = Clients
        /\ \A d \in Clients \ {c} : cl'[d] = cl[d] /\ result'[d] = result[d]
        /\ result'[c] \in {"connection_lost", "no_initial_reply"}
        /\ result'[c] = "connection_lost" => seen[c]
    BY Zenon, <1>1, <2>1 DEF SessionTypes
  <2>3. InFlight(c)'
    BY Zenon, <1>1, <1>2, <2>1 DEF Connection, InFlight
  <2>4. Told(c)'
    BY Zenon, <2>1, <2>2 DEF Told
  <2> QED
    BY Zenon, <1>1, <1>2, <2>1, <2>2, <2>3, <2>4, ClientKeepsInv DEF SessionTypes
<1> QED
  BY <1>3, <1>4

\* The entry is settled once, shutdown is signalled, the process ends.
LEMMA DaemonKeepsInv ==
  ASSUME SessionInv, EntryChanges \/ Shutdown \/ UNCHANGED vars
  PROVE  SessionInv'
<1>1. /\ UNCHANGED <<req, cl, seen, result, srv, todo, labels, pipe, permits, applied, final, up>>
      /\ entry = "posted" => entry' = "posted"
  BY Zenon DEF EntryChanges, Shutdown, clientVars, handlerVars, vars
<1>2. \A d \in Clients : Connection(d)'
  BY Zenon, <1>1, OtherConnections DEF SessionInv, Row
<1>3. SessionTypes'
  BY Zenon, <1>1 DEF SessionInv, SessionTypes
<1>4. IsFiniteSet({c \in Clients : srv'[c] \in Holding}) /\ PermitsBalance'
  BY <1>1, Zenon DEF SessionInv, PermitsBalance
<1> QED
  BY <1>2, <1>3, <1>4 DEF SessionInv

\* The runtime drops the handlers: what they had begun to write is cut.
LEMMA ExitKeepsInv ==
  ASSUME SessionInv, Exit
  PROVE  SessionInv'
<1>1. PICK cut \in SUBSET {c \in Clients : srv[c] \in {"writing", "frame", "refusal"} /\ Receives(c)} :
        pipe' = [c \in Clients |-> IF c \in cut THEN Append(pipe[c], "partial") ELSE pipe[c]]
  BY Zenon DEF Exit
<1>2. /\ srv' = [c \in Clients |-> IF srv[c] \in {"none", "done"} THEN srv[c] ELSE "killed"]
      /\ ~up' /\ UNCHANGED <<req, cl, seen, result, todo, labels, permits, applied, final, entry>>
  BY Zenon DEF Exit, clientVars
<1>3. SessionTypes'
  <2>1. SessionTypes
    BY DEF SessionInv
  <2>2. srv' \in [Clients -> {"none", "reading", "dispatch", "done", "killed"}
                               \cup Replying \cup Streaming]
    BY Zenon, <1>2, <2>1 DEF SessionTypes
  <2>3. pipe' \in [Clients -> Seq(Replies \cup Frames \cup {"partial"})]
    <3>1. \A c \in Clients : /\ pipe[c] \in Seq(Replies \cup Frames \cup {"partial"})
                             /\ Append(pipe[c], "partial") \in Seq(Replies \cup Frames \cup {"partial"})
      BY <2>1 DEF SessionTypes
    <3> QED
      BY <1>1, <3>1
  <2> QED
    BY Zenon, <1>2, <2>1, <2>2, <2>3 DEF SessionTypes
<1>4. ASSUME NEW c \in Clients PROVE Connection(c)'
  <2>1. SessionTypes /\ Connection(c)
    BY DEF SessionInv
  <2>2. srv'[c] = IF srv[c] \in {"none", "done"} THEN srv[c] ELSE "killed"
    BY <1>2
  <2>3. Received(c)' = Received(c) /\ (TookEffect(c) => TookEffect(c)')
    BY Zenon, <1>2 DEF Received, TookEffect
  <2>4. Phases(c)' /\ Prepared(c)'
    BY Zenon, <1>2, <2>1, <2>2, <2>3
       DEF Connection, Phases, Prepared, Replying, Streaming, Holding
  <2>5. Accounted(c)' /\ Told(c)'
    BY Zenon, <1>2, <2>1, <2>2 DEF Connection, Accounted, Told
  <2>6. InFlight(c)'
    <3>1. CASE c \notin cut
      <4>1. pipe'[c] = pipe[c]
        BY <1>1, <3>1
      <4> QED
        BY Zenon, <1>2, <2>1, <2>2, <2>3, <4>1 DEF Connection, InFlight
    <3>2. CASE c \in cut
      <4>1. srv[c] \in {"writing", "frame", "refusal"} /\ Receives(c)
            /\ pipe'[c] = Append(pipe[c], "partial")
        BY <1>1, <3>2
      <4>2. CASE req[c] = "await"
        <5>1. \E b \in {"partial"} :
                pipe'[c] = Append(pipe[c], b) /\ (b = "posted" => entry = "posted")
          BY Zenon, <4>1
        <5> QED
          BY Zenon, <1>2, <2>1, <4>2, <5>1, StreamStaysTrue DEF Connection
      <4>3. CASE req[c] # "await"
        <5>1. srv[c] = "writing"
          BY Zenon, <2>1, <4>1, <4>3 DEF Connection, Phases, Received, Streaming, Holding
        <5>2. pipe[c] = << >>
          BY Zenon, <2>1, <4>3, <5>1 DEF Connection, InFlight
        <5>3. pipe'[c] = <<"partial">>
          BY <4>1, <5>2
        <5> QED
          BY Zenon, <1>2, <2>2, <4>3, <5>1, <5>3 DEF InFlight
      <4> QED
        BY <4>2, <4>3
    <3> QED
      BY <3>1, <3>2
  <2> QED
    BY <2>4, <2>5, <2>6 DEF Connection
<1>5. IsFiniteSet({c \in Clients : srv'[c] \in Holding})
  <2>1. {c \in Clients : srv'[c] \in Holding} = {}
    BY <1>2 DEF Holding
  <2> QED
    BY <2>1, FS_EmptySet
<1>6. PermitsBalance'
  BY <1>2 DEF PermitsBalance
<1> QED
  BY Zenon, <1>3, <1>4, <1>5, <1>6 DEF SessionInv

-----------------------------------------------------------------------------
(* The theorems.                                                           *)

LEMMA SessionInvStep ==
  ASSUME SessionInv, [Next]_vars
  PROVE  SessionInv'
<1>1. ASSUME NEW c \in Clients, HandlerStep(c) PROVE SessionInv'
  BY <1>1, ReadKeepsInv, DispatchKeepsInv, WriteKeepsInv, CloseKeepsInv, ReplyFailureKeepsInv,
     ChecksKeepInv, LookupKeepsInv, FrameKeepsInv, FrameFailureKeepsInv DEF HandlerStep
<1>2. ASSUME NEW c \in Clients, ClientStep(c) \/ Leave(c) PROVE SessionInv'
  BY <1>2, ConnectKeepsInv, LeavingKeepsInv, ReplyIsTrue, FrameIsTrue DEF ClientStep
<1> QED
  BY <1>1, <1>2, DaemonKeepsInv, ExitKeepsInv DEF Next

\* SessionInv holds in every reachable state.
LEMMA SessionInvHolds == Spec => []SessionInv
<1>1. Init => SessionInv
  BY SessionInvInit
<1>2. SessionInv /\ [Next]_vars => SessionInv'
  BY SessionInvStep
<1> QED
  BY <1>1, <1>2, PTL DEF Spec

\* However a wait ends, handle_await's permit comes back exactly once, for
\* any number of clients and permits: the listener never runs out of permits
\* that nobody holds, nor admits more waits than it has.
THEOREM PermitsComeBack == Spec => []PermitsBalance
<1>1. SessionInv => PermitsBalance
  BY DEF SessionInv
<1> QED
  BY <1>1, SessionInvHolds, PTL

\* await_entry ends a stream with one terminal frame, or records that the
\* client was gone.
THEOREM OneLastFrame == Spec => []OneTerminalFrame
<1>1. SessionInv => OneTerminalFrame
  <2> SUFFICES ASSUME SessionInv, NEW c \in Clients
               PROVE  /\ final[c] <= 1
                      /\ final[c] = 1 => srv[c] = "done"
                      /\ srv[c] = "done" /\ labels[c][1] = "await" =>
                           (final[c] = 0 <=> labels[c][2] = "client_gone")
    BY Zenon DEF OneTerminalFrame
  <2>1. Accounted(c) /\ final[c] \in {0, 1}
    BY Zenon DEF SessionInv, SessionTypes, Connection
  <2>2. final[c] <= 1
    BY <2>1
  <2> QED
    BY Zenon, <2>1, <2>2 DEF Accounted
<1> QED
  BY <1>1, SessionInvHolds, PTL

\* What the command-line client reports is true of the daemon: a confirmed
\* mutation took effect exactly once, a reported post was posted.
THEOREM ReportsHold == Spec => []ReportsAreTrue
<1>1. SessionInv => ReportsAreTrue
  <2>1. SessionInv => \A c \in Clients : Told(c) /\ applied[c] \in {0, 1}
    BY Zenon DEF SessionInv, SessionTypes, Connection
  <2>2. SessionInv => \A c \in Clients : Told(c) /\ applied[c] <= 1
    BY <2>1
  <2> QED
    BY Zenon, <2>2 DEF Told, ReportsAreTrue
<1> QED
  BY <1>1, SessionInvHolds, PTL

\* The metrics of handle_client_with_control name what happened: no outcome
\* or error falls out of the fixed vocabulary.
THEOREM LabelsHold == Spec => []LabelsNameTheOutcome
<1>1. SessionInv => LabelsNameTheOutcome
  BY Zenon DEF SessionInv, Connection, Accounted, LabelsNameTheOutcome
<1> QED
  BY <1>1, SessionInvHolds, PTL
=============================================================================
