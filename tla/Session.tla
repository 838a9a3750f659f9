------------------------------ MODULE Session ------------------------------
(***************************************************************************)
(* One connection per client between the command-line client and the       *)
(* daemon's listener: the request is read, executed and answered once, or, *)
(* for await, streamed until the entry is settled.  Clients are slow, time *)
(* out or leave at any moment, the entry awaited changes under them, reads *)
(* of the store fail, and the daemon is told to shut down and exits with   *)
(* handlers still running.  A deadline is a step that may be taken         *)
(* whenever its wait is pending.                                           *)
(***************************************************************************)
EXTENDS Integers, Sequences, FiniteSets

CONSTANTS
  Clients,
  MaxAwaiters,   \* permits for streaming waits
  Buffer,        \* frames a socket holds before a write blocks
  Categories,    \* classifications a store error may have
  Mixes          \* requests the clients may make together

ASSUME SessionAssumption ==
  MaxAwaiters \in Nat \ {0} /\ Buffer \in Nat \ {0}

\* Request, by what the handler does with it.  "oversize" is refused by the
\* client itself; "unbounded" and "malformed" come from other writers to the
\* socket.
Mutations == {"put", "reorder"}        \* reorder: bump, bust and del
Queries  == {"list", "hist"}
OneShot  == Mutations \cup Queries \cup {"malformed", "unbounded"}
Requests == OneShot \cup {"oversize", "await"}

ASSUME MixesAssumption == Mixes \subseteq [Clients -> Requests]

VARIABLES
  req,       \* req[c]: what the client asks
  cl,        \* client: "idle", "sending", "receiving", "done"
  seen,      \* await client: a waiting frame has been received (a countdown)
  result,    \* what the client reports
  srv,       \* handler: where it is; "none" before accept
  todo,      \* handler: the bytes to write and the labels to record
  bound,     \* await handler: it holds a token of a pending entry
  labels,    \* labels recorded when the handler ended
  pipe,      \* bytes sent and not yet received
  eof,       \* the daemon has closed its side
  permits,   \* the listener's semaphore
  entry,     \* what became of the entry awaited
  applied,   \* applied[c]: how often the client's request took effect
  final,     \* final[c]: terminal frames completely written
  shutdown, up

vars == <<req, cl, seen, result, srv, todo, bound, labels, pipe, eof, permits,
          entry, applied, final, shutdown, up>>

clientVars == <<req, cl, seen, result>>
handlerVars == <<srv, todo, bound, labels, eof, permits, applied, final>>
worldVars == <<entry, shutdown, up>>

Settled == {"posted", "no_url", "url_too_large", "removed"}
NoWork  == [bytes |-> "none", outcome |-> "none", kind |-> "none"]

\* Handlers that are inside await_entry, holding a permit.
Holding == {"check", "lookup", "frame", "parked"}
-----------------------------------------------------------------------------
(* Labels.                                                                 *)

\* StoreError::category.
StoreCategory ==
  {"not_found", "permission_denied", "invalid_data", "io_error", "invalid_json",
   "unknown_identifier", "unsafe_identifier", "invalid_repository_component",
   "invalid_last_post", "invalid_last_attempt", "blocking_task", "queue_full",
   "entry_too_large", "byte_budget_exceeded"}

\* The kind of a failed operation is the category of its StoreError.
ASSUME CategoriesAssumption == Categories \subseteq StoreCategory

\* The two lists of duration.rs repeat the categories one by one.
OutcomeLabels ==
  {"accepted", "failed", "rejected", "success", "failure", "posted",
   "unknown_identifier", "removed", "rejected_capacity", "shutdown", "client_gone",
   "posted_without_url", "posted_url_too_large", "not_found", "permission_denied",
   "invalid_data", "io_error", "invalid_json", "invalid_identifier",
   "unsafe_identifier", "invalid_repository_component", "invalid_last_post",
   "invalid_last_attempt", "blocking_task", "queue_full", "entry_too_large",
   "byte_budget_exceeded"}

ErrorLabels ==
  {"none", "protocol_io", "invalid_json", "response_too_large",
   "response_serialization", "not_found", "permission_denied", "invalid_data",
   "io_error", "unknown_identifier", "unsafe_identifier",
   "invalid_repository_component", "invalid_last_post", "invalid_last_attempt",
   "blocking_task", "queue_full", "entry_too_large", "byte_budget_exceeded"}

BoundedOutcomeLabel(outcome) == IF outcome \in OutcomeLabels THEN outcome ELSE "unknown"

\* Mutant: the list of error labels lacks the replaced response.
BoundedErrorLabelShort(kind) ==
  IF kind \in ErrorLabels \ {"response_too_large"} THEN kind ELSE "unknown"

BoundedErrorLabel(kind) == IF kind \in ErrorLabels THEN kind ELSE "unknown"

\* The request as the handler reads it: a client that left in the middle of
\* its write has sent a prefix.
Received(c) == IF result[c] = "cut" THEN "malformed" ELSE req[c]

\* request_operation and protocol_operation_label: none before the parse.
OperationLabel(c) ==
  IF cl[c] # "sending" /\ Received(c) \in Mutations \cup Queries \cup {"await"}
  THEN req[c] ELSE "unknown"
-----------------------------------------------------------------------------
(* Leaving a handler.                                                      *)

\* Mutant: the permit of a waiter whose client left is not returned.
ReturnedUnlessGone(c, outcome) ==
  IF srv[c] \in Holding /\ outcome # "client_gone" THEN permits + 1 ELSE permits

\* The owned permit is dropped with the handler, whatever its outcome.
Returned(c, outcome) ==
  IF srv[c] \in Holding THEN permits + 1 ELSE permits

\* handle_client_with_control after handle_client_inner: the labels are
\* recorded and the stream is dropped.
Finish(c, outcome, kind) ==
  /\ srv' = [srv EXCEPT ![c] = "done"]
  /\ todo' = [todo EXCEPT ![c] = NoWork]
  /\ labels' = [labels EXCEPT ![c] = <<OperationLabel(c), BoundedOutcomeLabel(outcome),
                                       BoundedErrorLabel(kind)>>]
  /\ eof' = [eof EXCEPT ![c] = TRUE]
  /\ permits' = Returned(c, outcome)
  /\ UNCHANGED <<bound, applied>>

\* A write is prepared; it happens in a later step.
Prepare(c, pc, bytes, outcome, kind) ==
  /\ srv' = [srv EXCEPT ![c] = pc]
  /\ todo' = [todo EXCEPT ![c] = [bytes |-> bytes, outcome |-> outcome, kind |-> kind]]
  /\ UNCHANGED <<labels, eof, final>>

Goto(c, pc) ==
  /\ srv' = [srv EXCEPT ![c] = pc]
  /\ UNCHANGED <<todo, labels, eof, final>>

\* A peer that has closed its end receives nothing.
Receives(c) == cl[c] \in {"sending", "receiving"}

\* A write that is abandoned may have sent a part.
Cut(c) ==
  IF srv[c] \in {"writing", "frame", "refusal"} /\ Receives(c)
  THEN {pipe, [pipe EXCEPT ![c] = Append(@, "partial")]} ELSE {pipe}
-----------------------------------------------------------------------------
(* Handler.                                                                *)

\* handle_await: try_acquire_owned.
Admit(c) ==
  IF permits > 0
  THEN permits' = permits - 1 /\ Goto(c, "check")
  ELSE Prepare(c, "refusal", "error", "rejected_capacity", "none") /\ UNCHANGED permits

\* handle_client_inner up to the dispatch: EOF has been read.
ReadRequest(c) ==
  /\ up /\ srv[c] = "reading" /\ cl[c] \in {"receiving", "done"}
  /\ \/ /\ Received(c) = "unbounded"
        /\ Finish(c, "rejected", "protocol_io") /\ UNCHANGED final
     \/ /\ Received(c) = "malformed"
        /\ Prepare(c, "writing", "reply_error", "failed", "invalid_json")
        /\ UNCHANGED <<bound, permits, applied>>
     \/ /\ Received(c) = "await"
        /\ Admit(c) /\ UNCHANGED <<bound, applied>>
     \/ /\ Received(c) \in Mutations \cup Queries
        /\ Goto(c, "dispatch") /\ UNCHANGED <<bound, permits, applied>>
  /\ UNCHANGED <<clientVars, pipe, worldVars>>

ReadTimesOut(c) ==
  /\ up /\ srv[c] = "reading" /\ cl[c] = "sending"
  /\ Finish(c, "rejected", "protocol_io")
  /\ UNCHANGED <<clientVars, pipe, worldVars, final>>

\* Response::entry, entries, history and ok: the payload of a success.
Payload(r) ==
  CASE r = "put" -> "entry" [] r = "list" -> "entries"
    [] r = "hist" -> "history" [] r = "reorder" -> "bare"

\* dispatch_request_with_error_kind and the size test on its response, which
\* only the listings of a query can exceed.  A failed mutation may have taken
\* effect: the write is done and its directory sync fails.
Dispatch(c) ==
  /\ up /\ srv[c] = "dispatch"
  /\ \/ /\ Prepare(c, "writing", Payload(req[c]), "accepted", "none")
        /\ applied' = [applied EXCEPT ![c] = @ + IF req[c] \in Mutations THEN 1 ELSE 0]
     \/ \E kind \in Categories :
          /\ Prepare(c, "writing", "reply_error", "failed", kind)
          /\ \/ UNCHANGED applied
             \/ /\ req[c] \in Mutations /\ kind = "io_error"
                /\ applied' = [applied EXCEPT ![c] = @ + 1]
     \/ /\ req[c] \in Queries
        /\ Prepare(c, "writing", "reply_error", "failed", "response_too_large")
        /\ UNCHANGED applied
  /\ UNCHANGED <<clientVars, pipe, worldVars, bound, permits>>

\* write_all of the response.
WriteReply(c) ==
  /\ up /\ srv[c] = "writing" /\ Receives(c)
  /\ pipe' = [pipe EXCEPT ![c] = Append(@, todo[c].bytes)]
  /\ Goto(c, "closing")
  /\ UNCHANGED <<clientVars, worldVars, bound, permits, applied>>

\* stream.shutdown.
CloseReply(c) ==
  /\ up /\ srv[c] = "closing"
  /\ Finish(c, todo[c].outcome, todo[c].kind)
  /\ UNCHANGED <<clientVars, pipe, worldVars, final>>

\* The client is gone, does not read in time, or the close fails.
ReplyFails(c) ==
  /\ up /\ srv[c] \in {"writing", "closing"}
  /\ pipe' \in Cut(c)
  /\ Finish(c, "rejected", "protocol_io")
  /\ UNCHANGED <<clientVars, worldVars, final>>
-----------------------------------------------------------------------------
(* Streaming wait.                                                         *)

\* await_entry: the shutdown test before each lookup.
Check(c) ==
  /\ up /\ srv[c] = "check"
  /\ IF shutdown THEN Prepare(c, "frame", "error", "shutdown", "none") ELSE Goto(c, "lookup")
  /\ UNCHANGED <<clientVars, pipe, worldVars, bound, permits, applied>>

\* missing_entry.
Missing(c) == IF bound[c] THEN "removed" ELSE "unknown_identifier"

\* respond and send_posted up to the write.
Lookup(c) ==
  /\ up /\ srv[c] = "lookup"
  /\ \/ /\ entry = "queued"
        /\ Prepare(c, "frame", "waiting", "none", "none")
        /\ bound' = [bound EXCEPT ![c] = TRUE]
     \/ /\ \/ entry = "posted" /\ Prepare(c, "frame", "posted", "posted", "none")
           \/ entry = "no_url" /\ Prepare(c, "frame", "error", "posted_without_url", "none")
           \/ /\ entry = "url_too_large"
              /\ Prepare(c, "frame", "error", "posted_url_too_large", "none")
           \/ /\ entry \in {"unknown", "removed"}
              /\ Prepare(c, "frame", "error", Missing(c), "none")
        /\ UNCHANGED bound
     \/ \E kind \in Categories \cup {"invalid_identifier"} :
          /\ kind = "invalid_identifier" => entry = "unknown"
          /\ Prepare(c, "frame", "error", kind, "none")
          /\ UNCHANGED bound
  /\ UNCHANGED <<clientVars, pipe, worldVars, permits, applied>>

\* Mutant: the handler goes on waiting after a terminal frame.
AfterFrameAlwaysParks(c) ==
  /\ srv' = [srv EXCEPT ![c] = "parked"]
  /\ UNCHANGED <<todo, bound, labels, eof, permits, applied>>

\* What follows a complete frame: only a waiting frame continues the loop.
AfterFrame(c) ==
  IF todo[c].bytes = "waiting"
  THEN /\ srv' = [srv EXCEPT ![c] = "parked"]
       /\ UNCHANGED <<todo, bound, labels, eof, permits, applied>>
  ELSE Finish(c, todo[c].outcome, todo[c].kind)

\* send_frame within its deadline.
SendFrame(c) ==
  /\ up /\ srv[c] \in {"frame", "refusal"} /\ Receives(c) /\ Len(pipe[c]) < Buffer
  /\ pipe' = [pipe EXCEPT ![c] = Append(@, todo[c].bytes)]
  /\ final' = [final EXCEPT ![c] = @ + IF todo[c].bytes = "waiting" THEN 0 ELSE 1]
  /\ AfterFrame(c)
  /\ UNCHANGED <<clientVars, worldVars>>

\* Mutant: only a slow client is noticed, not one that is gone.
SendFailsIfSlow(c) ==
  /\ up /\ srv[c] \in {"frame", "refusal"} /\ Receives(c)
  /\ Finish(c, "client_gone", "none")
  /\ UNCHANGED <<clientVars, pipe, worldVars, final>>

\* send_frame fails: the client is gone or does not read in time.
SendFails(c) ==
  /\ up /\ srv[c] \in {"frame", "refusal"}
  /\ pipe' \in Cut(c)
  /\ Finish(c, "client_gone", "none")
  /\ UNCHANGED <<clientVars, worldVars, final>>

\* Mutant: neither a state change nor the heartbeat ends the wait.
WakeOnShutdown(c) ==
  /\ up /\ srv[c] = "parked" /\ shutdown
  /\ Prepare(c, "frame", "error", "shutdown", "none")
  /\ UNCHANGED <<clientVars, pipe, worldVars, bound, permits, applied>>

\* The biased select: shutdown first, else a state change or the heartbeat.
Wake(c) ==
  /\ up /\ srv[c] = "parked"
  /\ IF shutdown THEN Prepare(c, "frame", "error", "shutdown", "none") ELSE Goto(c, "check")
  /\ UNCHANGED <<clientVars, pipe, worldVars, bound, permits, applied>>
-----------------------------------------------------------------------------
(* Client.                                                                 *)

Ends(c, how) ==
  /\ cl' = [cl EXCEPT ![c] = "done"]
  /\ result' = [result EXCEPT ![c] = how]

\* connect_first on a served socket, after the size test on the payload.
Connect(c) ==
  /\ cl[c] = "idle"
  /\ IF req[c] = "oversize"
     THEN Ends(c, "request_too_large") /\ UNCHANGED srv
     ELSE \/ /\ up
             /\ cl' = [cl EXCEPT ![c] = "sending"]
             /\ srv' = [srv EXCEPT ![c] = "reading"]
             /\ UNCHANGED result
          \/ /\ shutdown
             /\ Ends(c, "connect") /\ UNCHANGED srv
  /\ UNCHANGED <<req, seen, todo, bound, labels, pipe, eof, permits, applied, final, worldVars>>

\* write_all and the half close.
Send(c) ==
  /\ cl[c] = "sending"
  /\ IF eof[c] THEN Ends(c, "write")
     ELSE cl' = [cl EXCEPT ![c] = "receiving"] /\ UNCHANGED result
  /\ UNCHANGED <<req, seen, handlerVars, pipe, worldVars>>

\* CLIENT_REPLY_TIMEOUT, the idle deadline of await, or the user's interrupt;
\* while sending, the request may be cut or already complete.
Leave(c) ==
  /\ cl[c] \in {"sending", "receiving"}
  /\ \E how \in {"cut", "timeout"} : (how = "cut" => cl[c] = "sending") /\ Ends(c, how)
  /\ UNCHANGED <<req, seen, handlerVars, pipe, worldVars>>

\* render_response and run_history_pages: the payload each command accepts.
Rendered(r) ==
  [put |-> "entry", reorder |-> "bare", list |-> "entries", hist |-> "history"][r]

\* transact_with_timeout: read_to_end, then parse; then render.
ReceiveReply(c) ==
  /\ cl[c] = "receiving" /\ req[c] \in OneShot /\ eof[c]
  /\ Ends(c, IF pipe[c] \in {<< >>, <<"partial">>} THEN "bad_reply"
             ELSE IF pipe[c] = <<"reply_error">> THEN "daemon"
             ELSE IF pipe[c] = <<Rendered(req[c])>> THEN "ok" ELSE "unexpected")
  /\ pipe' = [pipe EXCEPT ![c] = << >>]
  /\ UNCHANGED <<req, seen, handlerVars, worldVars>>

\* receive: one complete frame.
ReceiveFrame(c) ==
  /\ cl[c] = "receiving" /\ req[c] = "await" /\ pipe[c] # << >> /\ Head(pipe[c]) # "partial"
  /\ pipe' = [pipe EXCEPT ![c] = Tail(@)]
  /\ IF Head(pipe[c]) = "waiting"
     THEN seen' = [seen EXCEPT ![c] = TRUE] /\ UNCHANGED <<cl, result>>
     ELSE Ends(c, IF Head(pipe[c]) = "posted" THEN "posted" ELSE "daemon") /\ UNCHANGED seen
  /\ UNCHANGED <<req, handlerVars, worldVars>>

\* Mutant: every early end of a stream is a lost connection.
EndedAlwaysLost(c) == "connection_lost"

\* receive and classify_initial_end for a stream that ended.
Ended(c) == IF seen[c] THEN "connection_lost" ELSE "no_initial_reply"

ReceiveEnd(c) ==
  /\ cl[c] = "receiving" /\ req[c] = "await" /\ eof[c]
  /\ pipe[c] \in {<< >>, <<"partial">>}
  /\ Ends(c, Ended(c))
  /\ UNCHANGED <<req, seen, handlerVars, pipe, worldVars>>
-----------------------------------------------------------------------------
(* The rest of the daemon.                                                 *)

\* The worker or another client settles the entry.
EntryChanges ==
  /\ up /\ entry = "queued"
  /\ entry' \in Settled
  /\ UNCHANGED <<clientVars, handlerVars, pipe, shutdown, up>>

Shutdown ==
  /\ ~shutdown
  /\ shutdown' = TRUE
  /\ UNCHANGED <<clientVars, handlerVars, pipe, entry, up>>

\* run_with_tokens returns: the runtime drops the detached handlers.
Exit ==
  /\ up /\ shutdown
  /\ up' = FALSE
  /\ srv' = [c \in Clients |-> IF srv[c] \in {"none", "done"} THEN srv[c] ELSE "killed"]
  /\ eof' = [c \in Clients |-> eof[c] \/ srv[c] # "none"]
  /\ \E cut \in SUBSET {c \in Clients : srv[c] \in {"writing", "frame", "refusal"} /\ Receives(c)} :
       pipe' = [c \in Clients |-> IF c \in cut THEN Append(pipe[c], "partial") ELSE pipe[c]]
  /\ UNCHANGED <<clientVars, todo, bound, labels, permits, applied, final, entry, shutdown>>

Init ==
  /\ req \in Mixes
  /\ cl = [c \in Clients |-> "idle"]
  /\ seen = [c \in Clients |-> FALSE]
  /\ result = [c \in Clients |-> "none"]
  /\ srv = [c \in Clients |-> "none"]
  /\ todo = [c \in Clients |-> NoWork]
  /\ bound = [c \in Clients |-> FALSE]
  /\ labels = [c \in Clients |-> << >>]
  /\ pipe = [c \in Clients |-> << >>]
  /\ eof = [c \in Clients |-> FALSE]
  /\ permits = MaxAwaiters
  /\ entry \in {"queued", "unknown", "posted"}
  /\ applied = [c \in Clients |-> 0]
  /\ final = [c \in Clients |-> 0]
  /\ shutdown = FALSE
  /\ up = TRUE

HandlerStep(c) ==
  \/ ReadRequest(c) \/ ReadTimesOut(c) \/ Dispatch(c) \/ WriteReply(c) \/ CloseReply(c)
  \/ ReplyFails(c) \/ Check(c) \/ Lookup(c) \/ SendFrame(c) \/ SendFails(c) \/ Wake(c)

ClientStep(c) ==
  \/ Connect(c) \/ Send(c) \/ ReceiveReply(c) \/ ReceiveFrame(c) \/ ReceiveEnd(c)

Next ==
  \/ \E c \in Clients : HandlerStep(c) \/ ClientStep(c) \/ Leave(c)
  \/ EntryChanges \/ Shutdown \/ Exit

\* Handlers are scheduled and their deadlines pass; a client that stays
\* reads what it is sent.
Spec ==
  /\ Init /\ [][Next]_vars
  /\ \A c \in Clients : WF_vars(HandlerStep(c)) /\ WF_vars(ClientStep(c))
-----------------------------------------------------------------------------
(* Properties.                                                             *)

\* However a wait ends (posted, removed, refused, shutdown, failed lookup,
\* client gone), its permit comes back exactly once: the permits that are
\* out are the handlers inside await_entry.
PermitsBalance ==
  up => permits + Cardinality({c \in Clients : srv[c] \in Holding}) = MaxAwaiters

\* An await stream carries at most one terminal frame; a handler that ended
\* on its own wrote exactly one, unless it reports that the client was gone.
OneTerminalFrame ==
  \A c \in Clients :
    /\ final[c] <= 1
    /\ final[c] = 1 => srv[c] = "done"
    /\ srv[c] = "done" /\ labels[c][1] = "await" =>
         (final[c] = 0 <=> labels[c][2] = "client_gone")

\* What the client reports is true of the daemon: a confirmed mutation took
\* effect exactly once, no request ever twice, every success has the payload
\* its command renders, a reported post was posted, and a lost connection is
\* only reported after a countdown has begun.
ReportsAreTrue ==
  \A c \in Clients :
    /\ applied[c] <= 1
    /\ result[c] = "ok" /\ req[c] \in Mutations => applied[c] = 1
    /\ result[c] # "unexpected"
    /\ result[c] = "posted" => entry = "posted"
    /\ result[c] = "connection_lost" => seen[c]
    /\ result[c] = "request_too_large" => srv[c] = "none"

\* Every label recorded is of the fixed vocabulary and names what happened:
\* "unknown" only stands for a request that was not parsed.
LabelsNameTheOutcome ==
  \A c \in Clients :
    srv[c] = "done" =>
      /\ labels[c][2] # "unknown" /\ labels[c][3] # "unknown"
      /\ labels[c][1] = "unknown" => labels[c][2] \in {"rejected", "failed"}

\* A handler whose client is gone ends, and with it its permit is free.
GoneClientIsDropped ==
  \A c \in Clients : cl[c] = "done" ~> srv[c] \in {"none", "done", "killed"}

\* Once the entry is settled, a client that waits for it is answered.
SettledWaitEnds ==
  \A c \in Clients :
    (req[c] = "await" /\ cl[c] = "receiving" /\ entry \in Settled) ~> cl[c] = "done"
-----------------------------------------------------------------------------
(* The inductive invariant behind the four invariants above.               *)

Replying  == {"writing", "closing"}
Streaming == Holding \cup {"refusal"}

Replies == {"reply_error", "entry", "entries", "history", "bare"}
Frames  == {"waiting", "posted", "error"}

\* Outcomes of a wait that ends with a frame.
Outcomes ==
  {"posted", "posted_without_url", "posted_url_too_large", "removed", "unknown_identifier",
   "invalid_identifier", "shutdown"} \cup StoreCategory

SessionTypes ==
  /\ req \in [Clients -> Requests]
  /\ cl \in [Clients -> {"idle", "sending", "receiving", "done"}]
  /\ srv \in [Clients -> {"none", "reading", "dispatch", "done", "killed"}
                           \cup Replying \cup Streaming]
  /\ pipe \in [Clients -> Seq(Replies \cup Frames \cup {"partial"})]
  /\ applied \in [Clients -> {0, 1}] /\ final \in [Clients -> {0, 1}]
  /\ DOMAIN seen = Clients /\ DOMAIN result = Clients
  /\ DOMAIN todo = Clients /\ DOMAIN labels = Clients
  /\ permits \in Nat

\* Where the two ends of a connection can be together: the handler goes past
\* the read only once the client has sent all it will send, and each of its
\* branches belongs to the request it read.
Phases(c) ==
  /\ cl[c] = "idle" \/ req[c] = "oversize" => srv[c] = "none"
  /\ cl[c] # "done" => result[c] = "none"
  /\ srv[c] \in {"dispatch"} \cup Replying \cup Streaming => cl[c] \in {"receiving", "done"}
  /\ srv[c] = "dispatch" => Received(c) \in Mutations \cup Queries
  /\ srv[c] \in Replying => Received(c) \in Mutations \cup Queries \cup {"malformed"}
  /\ srv[c] \in Streaming => Received(c) = "await"

\* A success answers a request that took effect.
TookEffect(c) ==
  /\ req[c] \in Mutations \cup Queries
  /\ req[c] \in Mutations => applied[c] = 1

Success(c) == Received(c) # "malformed" /\ TookEffect(c)

\* What the handler has prepared to write, with the labels to record for it.
Prepared(c) ==
  /\ srv[c] \in Replying =>
       \/ Success(c)
          /\ todo[c] = [bytes |-> Payload(req[c]), outcome |-> "accepted", kind |-> "none"]
       \/ /\ todo[c].bytes = "reply_error" /\ todo[c].outcome = "failed"
          /\ todo[c].kind \in StoreCategory \cup {"response_too_large"}
  /\ srv[c] = "refusal" =>
       todo[c] = [bytes |-> "error", outcome |-> "rejected_capacity", kind |-> "none"]
  /\ srv[c] = "frame" =>
       /\ todo[c].kind = "none" /\ todo[c].bytes \in Frames
       /\ todo[c].bytes # "waiting" => todo[c].outcome \in Outcomes
       /\ todo[c].bytes = "posted" => entry = "posted"

\* What is on its way to the client: of a stream, no untrue "posted"; of a
\* reply, nothing before it is written, and then a part or all of it.
InFlight(c) ==
  IF req[c] = "await"
  THEN \A k \in 1..Len(pipe[c]) : pipe[c][k] = "posted" => entry = "posted"
  ELSE /\ srv[c] \in {"none", "reading", "dispatch", "writing"} => pipe[c] = << >>
       /\ \/ pipe[c] \in {<< >>, <<"partial">>, <<"reply_error">>}
          \/ pipe[c] = <<Payload(req[c])>> /\ TookEffect(c)

\* What the handler has done, and recorded when it ended.
Accounted(c) ==
  /\ srv[c] \in {"none", "reading", "dispatch"} => applied[c] = 0
  /\ final[c] = 1 => srv[c] = "done"
  /\ srv[c] = "done" =>
       /\ labels[c][2] # "unknown" /\ labels[c][3] # "unknown"
       /\ labels[c][1] = "unknown" => labels[c][2] \in {"rejected", "failed"}
       /\ labels[c][1] = "await" => (final[c] = 0 <=> labels[c][2] = "client_gone")

\* What the client has reported.
Told(c) ==
  /\ result[c] = "ok" /\ req[c] \in Mutations => applied[c] = 1
  /\ result[c] # "unexpected"
  /\ result[c] = "posted" => entry = "posted"
  /\ result[c] = "connection_lost" => seen[c]
  /\ result[c] = "request_too_large" => srv[c] = "none"

Connection(c) == Phases(c) /\ Prepared(c) /\ InFlight(c) /\ Accounted(c) /\ Told(c)

SessionInv ==
  /\ SessionTypes
  /\ \A c \in Clients : Connection(c)
  /\ IsFiniteSet({c \in Clients : srv[c] \in Holding})
  /\ PermitsBalance
=============================================================================
