------------------------------- MODULE Outbox -------------------------------
(***************************************************************************)
(* What the daemon promises about the comments handed to it, with no files,*)
(* no claims and no worker: a comment is queued, then delivered, unless its*)
(* client withdraws it.  Delivered is final and true: the comment exists.  *)
(* A withdrawn comment may still be delivered, when its post was under way,*)
(* and only a loss of power brings one back into the queue.                *)
(***************************************************************************)
CONSTANTS
  Comments,
  Restorable   \* whether power may fail

VARIABLES
  status,     \* status[c]: "absent", "queued", "delivered" or "withdrawn"
  posted,     \* comments GitHub created
  withdrawn   \* comments whose client asked for their removal

outbox == <<status, posted, withdrawn>>

Init ==
  /\ status = [c \in Comments |-> "absent"]
  /\ posted = {}
  /\ withdrawn = {}

Submit(c) ==
  /\ status[c] = "absent"
  /\ status' = [status EXCEPT ![c] = "queued"]
  /\ UNCHANGED <<posted, withdrawn>>

\* GitHub creates the comment, perhaps again after a lost answer.
Post(c) ==
  /\ status[c] # "absent"
  /\ posted' = posted \cup {c}
  /\ UNCHANGED <<status, withdrawn>>

Deliver(c) ==
  /\ status[c] \in {"queued", "withdrawn"}
  /\ c \in posted
  /\ status' = [status EXCEPT ![c] = "delivered"]
  /\ UNCHANGED <<posted, withdrawn>>

\* A comment may be asked to go after it was delivered: it stays delivered.
Withdraw(c) ==
  /\ status[c] \in {"queued", "delivered"}
  /\ status' = [status EXCEPT ![c] = IF @ = "queued" THEN "withdrawn" ELSE @]
  /\ withdrawn' = withdrawn \cup {c}
  /\ UNCHANGED posted

\* Power failed before the removal of these comments was on the disk.
Restore(S) ==
  /\ Restorable
  /\ \A c \in S : status[c] = "withdrawn"
  /\ status' = [c \in Comments |-> IF c \in S THEN "queued" ELSE status[c]]
  /\ UNCHANGED <<posted, withdrawn>>

Next ==
  \/ \E c \in Comments : Submit(c) \/ Post(c) \/ Deliver(c) \/ Withdraw(c)
  \/ \E S \in SUBSET Comments : Restore(S)

Spec == Init /\ [][Next]_outbox
=============================================================================
