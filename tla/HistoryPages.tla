---------------------------- MODULE HistoryPages ----------------------------
(***************************************************************************)
(* `comenq hist`: a client reads the posting history page by page while    *)
(* the daemon goes on appending to it.  The log is a sequence of lines     *)
(* with the bytes of each; positions are byte offsets.  A page holds what  *)
(* one locked read of the store returns, cut down to what fits a response; *)
(* a cursor names where to go on and where the snapshot ends.              *)
(***************************************************************************)
EXTENDS Integers, Sequences, FiniteSets, FiniteSetsExt

CONSTANTS
  Sizes,        \* bytes a record may have, on disk and in a response
  PageSize,     \* HISTORY_READ_PAGE_SIZE
  MaxResponse,  \* MAX_RESPONSE_BYTES
  Envelope,     \* bytes of a history response without records and cursor
  CursorBytes,  \* bytes a cursor adds to it
  Limits,       \* values of --limit
  MaxLines      \* lines the log may reach

ASSUME HistoryAssumption ==
  /\ Sizes \subseteq Nat \ {0}
  /\ {PageSize, MaxResponse, Envelope, CursorBytes, MaxLines} \subseteq Nat
  /\ PageSize > 0
  /\ Limits \subseteq Nat

NoLimit  == [limit |-> 0, some |-> FALSE]
Limit(n) == [limit |-> n, some |-> TRUE]
NoCursor == [offset |-> 0, end_offset |-> 0, some |-> FALSE]
Cursor(offset, end) == [offset |-> offset, end_offset |-> end, some |-> TRUE]

VARIABLES
  log,      \* lines: offset, is it a record, its bytes, has it a newline
  client,   \* the client's state: limit, cursor, what it has shown
  wire,     \* the daemon's response on its way
  wanted    \* ghost: what the client should have shown in the end

pages == <<log, client, wire, wanted>>

\* The offset just after a line.
EndOf(line) == line.at + line.size + (IF line.ended THEN 1 ELSE 0)

FileLen(l) == IF l = << >> THEN 0 ELSE EndOf(l[Len(l)])

\* Indices of the lines that parse as a record; blank, malformed and oversized
\* lines are passed over.
Records(l) == {i \in 1..Len(l) : l[i].record}

\* The lines of a set in the order of the file: k - 1 of them come before the
\* k-th.
InOrder(lines) ==
  [k \in 1..Cardinality(lines) |->
     CHOOSE i \in lines : Cardinality({j \in lines : j < i}) = k - 1]
-----------------------------------------------------------------------------
(* Appending.                                                              *)

\* append_line repairs a missing final newline before it writes.
Repaired(l) == IF l = << >> THEN l ELSE [l EXCEPT ![Len(l)].ended = TRUE]

Appended(l, record, size, ended) ==
  Append(Repaired(l),
         [at |-> FileLen(Repaired(l)), record |-> record, size |-> size, ended |-> ended])

\* append.
AppendRecord(size) ==
  /\ Len(log) < MaxLines
  /\ log' = Appended(log, TRUE, size, TRUE)
  /\ UNCHANGED <<client, wire, wanted>>

\* append fails midway: after the repair, inside the record, or before its
\* newline; or the process dies there.
AppendTorn(size) ==
  /\ Len(log) < MaxLines
  /\ \/ log' = Repaired(log)
     \/ \E part \in 1..size :
          log' = Appended(log, part = size, part, FALSE)
  /\ UNCHANGED <<client, wire, wanted>>
-----------------------------------------------------------------------------
(* Reading a page.                                                         *)

\* recent_start: scanning backwards, where the limit-th newest record begins,
\* or the oldest when there are fewer.
RecentStart(l, limit) ==
  LET newest == {i \in Records(l) : Cardinality({j \in Records(l) : j > i}) < limit}
  IN IF newest = {} THEN FileLen(l) ELSE l[Min(newest)].at

\* Mutant: a continued read goes on to the present end of the file.
PageOffsetsToEnd(l, cursor, limit) ==
  IF cursor.some THEN [offset |-> cursor.offset, end |-> FileLen(l)]
  ELSE [offset |-> IF ~limit.some THEN 0 ELSE RecentStart(l, limit.limit),
        end |-> FileLen(l)]

PageOffsets(l, cursor, limit) ==
  IF cursor.some THEN [offset |-> cursor.offset, end |-> cursor.end_offset]
  ELSE [offset |-> IF ~limit.some THEN 0 ELSE RecentStart(l, limit.limit),
        end |-> FileLen(l)]

\* Mutant: a snapshot that ends where the file ends is refused.
ValidPositionStrict(l, cursor) ==
  /\ cursor.offset <= cursor.end_offset
  /\ cursor.end_offset < FileLen(l)
  /\ \/ cursor.offset = 0
     \/ \E i \in 1..Len(l) : l[i].ended /\ EndOf(l[i]) = cursor.offset

\* validate_position: inside the file and after a newline.
ValidPosition(l, cursor) ==
  /\ cursor.offset <= cursor.end_offset
  /\ cursor.end_offset <= FileLen(l)
  /\ \/ cursor.offset = 0
     \/ \E i \in 1..Len(l) : l[i].ended /\ EndOf(l[i]) = cursor.offset

\* Records whose line begins in the snapshot, at or after the offset.
Visible(l, at) ==
  {i \in Records(l) : at.offset <= l[i].at /\ l[i].at < at.end}

\* read_records: up to PageSize records, and the offset the reader stands at.
\* The newline that ends a repaired line may lie beyond the snapshot.
ReadSnapshotPage(l, at) ==
  LET visible == InOrder(Visible(l, at))
      records == SubSeq(visible, 1, Min({PageSize, Len(visible)}))
      after(i) == Min({EndOf(l[i]), at.end})
      current == IF Len(records) = PageSize THEN after(records[Len(records)]) ELSE at.end
  IN [records |-> [i \in 1..Len(records) |-> [line |-> records[i], after |-> after(records[i])]],
      next |-> IF current < at.end THEN Cursor(current, at.end) ELSE NoCursor]

\* history_response_size.
ResponseSize(bytes, more) == Envelope + bytes + (IF more THEN CursorBytes ELSE 0)

\* response_for_history: the longest prefix of the page whose response fits,
\* with the cursor that follows it.
ResponseForHistory(l, page, end) ==
  LET count == Len(page.records)
      bytes[i \in 0..count] ==
        IF i = 0 THEN 0 ELSE bytes[i - 1] + l[page.records[i].line].size + (IF i > 1 THEN 1 ELSE 0)
      more(i) == i < count \/ page.next.some
      fits(i) == ResponseSize(bytes[i], more(i)) <= MaxResponse
      n == Max({k \in 0..count : \A i \in 1..k : fits(i)})
  IN IF count > 0 /\ n = 0 THEN [kind |-> "error", why |-> "record too large"]
     ELSE [kind |-> "ok",
           history |-> [i \in 1..n |-> page.records[i].line],
           next |-> IF n = 0 THEN page.next
                    ELSE IF more(n) THEN Cursor(page.records[n].after, end) ELSE NoCursor]
-----------------------------------------------------------------------------
(* The client: run_history_pages.                                          *)

NoResponse == [kind |-> "none"]

Newest(l, limit) ==
  InOrder({i \in Records(l) :
             limit.some => Cardinality({j \in Records(l) : j > i}) < limit.limit})

HistoryInit ==
  /\ log = << >>
  /\ client = [pc |-> "idle", limit |-> NoLimit, cursor |-> NoCursor, shown |-> << >>]
  /\ wire = NoResponse
  /\ wanted = << >>

Start(limit) ==
  /\ client.pc = "idle"
  /\ client' = [client EXCEPT !.pc = "asked", !.limit = limit]
  /\ UNCHANGED <<log, wire, wanted>>

\* The daemon answers under the store's mutex: history_page, then the
\* response.  Only the first request carries the limit.
Serve ==
  /\ client.pc = "asked"
  /\ wire = NoResponse
  /\ \E at \in {PageOffsets(log, client.cursor, client.limit)} :
     \E page \in {ReadSnapshotPage(log, at)} :
       wire' = IF client.cursor.some /\ ~ValidPosition(log, client.cursor)
               THEN [kind |-> "error", why |-> "history cursor is invalid"]
               ELSE ResponseForHistory(log, page, at.end)
  /\ wanted' = IF client.cursor.some THEN wanted ELSE Newest(log, client.limit)
  /\ UNCHANGED <<log, client>>

\* Mutant: the client asks for the same page again.
AfterPageAgain(response) ==
  IF response.next.some THEN client
  ELSE [client EXCEPT !.shown = @ \o response.history, !.pc = "done"]

\* What the client does with a page whose records it could print.
AfterPage(response) ==
  [client EXCEPT !.shown = @ \o response.history,
                 !.cursor = response.next,
                 !.pc = IF client.cursor.some /\ response.next = client.cursor THEN "unexpected"
                        ELSE IF response.next.some THEN "asked" ELSE "done"]

Receive ==
  /\ wire # NoResponse
  /\ \/ wire.kind = "ok" /\ client' = AfterPage(wire)
     \/ wire.kind = "error" /\ client' = [client EXCEPT !.pc = wire.why]
  /\ wire' = NoResponse
  /\ UNCHANGED <<log, wanted>>

\* The reader of the output has gone: rendering stops, successfully.
ReceiveClosed ==
  /\ wire # NoResponse
  /\ wire.kind = "ok"
  /\ wire.history # << >>
  /\ client' = [client EXCEPT !.pc = "closed"]
  /\ wire' = NoResponse
  /\ UNCHANGED <<log, wanted>>

HistoryNext ==
  \/ \E size \in Sizes : AppendRecord(size) \/ AppendTorn(size)
  \/ \E limit \in Limits : Start(Limit(limit))
  \/ Start(NoLimit)
  \/ Serve
  \/ Receive
  \/ ReceiveClosed

HistorySpec ==
  HistoryInit /\ [][HistoryNext]_pages /\ WF_pages(Serve) /\ WF_pages(Receive)
-----------------------------------------------------------------------------
(* Properties.                                                             *)

IsPrefix(s, t) == Len(s) <= Len(t) /\ \A k \in 1..Len(s) : s[k] = t[k]

\* What the client has shown is a prefix of the newest records, at most the
\* limit, that the log held when its first page was read; at the end it is
\* all of them: none twice, none skipped, none that was appended meanwhile,
\* although every page is read and cut separately and a torn last line is
\* repaired between two pages.
ShowsTheSnapshot ==
  /\ IsPrefix(client.shown, wanted)
  /\ client.pc = "done" => client.shown = wanted

\* A client that follows the cursors it is given is never refused one, nor
\* led in a circle, whatever was appended, torn or repaired since.
CursorsAreHonoured ==
  client.pc \notin {"unexpected", "history cursor is invalid"}

\* The client gets to the end of the snapshot.
HistEnds ==
  client.pc = "asked" ~> client.pc \in {"done", "closed", "record too large"}
-----------------------------------------------------------------------------
(* The inductive invariant behind ShowsTheSnapshot and CursorsAreHonoured. *)

Line == [at : Nat, record : BOOLEAN, size : Nat \ {0}, ended : BOOLEAN]

Place == [offset : Nat, end_offset : Nat, some : BOOLEAN]

Reading == {"idle", "asked", "done", "closed", "record too large"}

Client ==
  [pc : Reading, limit : [limit : Nat, some : BOOLEAN], cursor : Place, shown : Seq(Nat)]

\* Lines follow one another, and only the last may lack its newline.
IsLog(l) ==
  /\ l \in Seq(Line)
  /\ \A i, j \in 1..Len(l) : i < j => l[i].ended /\ EndOf(l[i]) <= l[j].at

\* What a client that goes on from a cursor will be shown; nothing when there
\* is no more.
Rest(l, cursor) ==
  IF cursor.some
  THEN InOrder(Visible(l, [offset |-> cursor.offset, end |-> cursor.end_offset]))
  ELSE << >>

\* A cursor the daemon gave: it stands short of its end, at a place where the
\* daemon accepts it.
Honest(l, cursor) ==
  /\ cursor \in Place
  /\ cursor.some \/ cursor = NoCursor
  /\ cursor.some => cursor.offset < cursor.end_offset /\ ValidPosition(l, cursor)

\* Between two pages the rest of the snapshot lies behind the cursor.
Asking ==
  IF client.cursor.some THEN wanted = client.shown \o Rest(log, client.cursor)
  ELSE client.shown = << >> /\ wanted = << >>

\* A page on its way continues what was shown, and the rest follows it.
Answered ==
  \/ /\ wire.kind = "ok"
     /\ wire.history \in Seq(Nat)
     /\ Honest(log, wire.next)
     /\ client.cursor.some => wire.next # client.cursor
     /\ wanted = (client.shown \o wire.history) \o Rest(log, wire.next)
  \/ /\ wire.kind = "error"
     /\ wire.why = "record too large"
     /\ IsPrefix(client.shown, wanted)

PagesInv ==
  /\ IsLog(log)
  /\ client \in Client
  /\ wanted \in Seq(Nat)
  /\ Honest(log, client.cursor)
  /\ wire # NoResponse => client.pc = "asked" /\ Answered
  /\ wire = NoResponse /\ client.pc \in {"idle", "asked"} => Asking
  /\ client.pc = "idle" => ~client.cursor.some
  /\ client.pc = "done" => client.shown = wanted
  /\ client.pc \in {"closed", "record too large"} => IsPrefix(client.shown, wanted)
=============================================================================
