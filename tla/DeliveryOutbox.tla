--------------------------- MODULE DeliveryOutbox ---------------------------
(* Delivery implements Outbox.  The status of a comment is read off the    *)
(* files: its success line in history.jsonl, else its entry file.          *)
EXTENDS Delivery

Status ==
  [inc \in Incarnations |->
     IF Recorded(inc) THEN "delivered"
     ELSE IF Queued(inc) THEN "queued"
     ELSE IF inc \in born THEN "withdrawn"
     ELSE "absent"]

Posted == {claims[n].incarnation : n \in accepted}

Promise == INSTANCE Outbox WITH
  Comments <- Incarnations, Restorable <- PowerFails,
  status <- Status, posted <- Posted, withdrawn <- deleted

\* Every step of the daemon, its clients, GitHub and the faults is a step of
\* the outbox, or changes nothing a client can tell: no entry leaves the queue
\* except by delivery or by its own client's del, nothing is delivered that
\* GitHub did not create, and no file operation undoes a delivery.  As in
\* PowerLoss, a line in the history lasts, synced or not.
ImplementsOutbox == Promise!Spec

\* No lifetime is in two places: in the queue under two identifiers, or in the
\* queue and among the removed files.
OnePlace ==
  \A i, j \in Ids :
    /\ Pending(i) /\ entries[i].incarnation = entries[j].incarnation => i = j
    /\ unsynced[i].incarnation # NoInc =>
         /\ unsynced[i].incarnation # entries[j].incarnation
         /\ unsynced[i].incarnation = unsynced[j].incarnation => i = j

\* Every lifetime that is queued, was just removed, or was claimed has its put.
Submitted ==
  /\ \A id \in Ids : entries[id].incarnation \in born \cup {NoInc}
  /\ \A id \in Ids : unsynced[id].incarnation \in born \cup {NoInc}
  /\ \A n \in 1..Len(claims) : claims[n].incarnation \in born

\* What the refinement needs beside Inv: every attempt GitHub answered exists.
OutboxInv ==
  /\ OnePlace
  /\ Submitted
  /\ accepted \subseteq 1..Len(claims)
=============================================================================
