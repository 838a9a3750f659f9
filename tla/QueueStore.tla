----------------------------- MODULE QueueStore -----------------------------
(***************************************************************************)
(* The files of comenqd::store::QueueStore and what one file operation of  *)
(* the store does to them.                                                 *)
(*                                                                         *)
(* A lifetime of an identifier is the time from the `put` that creates its *)
(* entry file to the removal of that file; the persisted incarnation UUID  *)
(* names the lifetime.  Claim tokens and attempt identifiers are fresh     *)
(* UUIDs too; every claim leads to at most one posting attempt, so one     *)
(* number, the ordinal of the claim, stands for the claim token, for the   *)
(* attempt identifier and for the second at which the attempt ends.        *)
(***************************************************************************)
EXTENDS Naturals, Sequences, FiniteSets

CONSTANTS
  Ids,           \* the eight-character identifiers
  Incarnations,  \* the UUIDs that name lifetimes
  NoInc          \* "no lifetime": the entry or marker file is absent

ASSUME NoIncAssumption == NoInc \notin Incarnations

VARIABLES
  entries,      \* entries/<id>.json
  unsynced,     \* entry files removed since entries/ was last synced
  deletions,    \* await-deletions/<id>: the incarnation the marker names
  lastPost,     \* last_post (0: absent)
  lastAttempt,  \* last_attempt (0: absent)
  completion,   \* the completion journal: at most one record
  history       \* history.jsonl, one element per line

files == <<entries, unsynced, deletions, lastPost, lastAttempt, completion,
           history>>

NoToken == 0

\* StoredEntry, its order key and schedule fields left out.
Entry == [incarnation : Incarnations \cup {NoInc}, claim : Nat]

NoEntry == [incarnation |-> NoInc, claim |-> NoToken]

CompletionRecord ==
  [id : Ids, incarnation : Incarnations, claim : Nat, offset : Nat]

\* A torn line is what a failed append leaves behind: no reader parses it.
HistoryRecord ==
  [id : Ids, incarnation : Incarnations, attempt : Nat,
   outcome : {"success", "failure", "torn"}]

Pending(id) == entries[id].incarnation # NoInc

Claimed == {id \in Ids : entries[id].claim # NoToken}

AllSynced == [id \in Ids |-> NoEntry]

-----------------------------------------------------------------------------
(* One operator per file operation.                                        *)

\* write_entry: write_atomic syncs entries/ before and after the rename.
WriteEntry(id, entry) ==
  /\ entries' = [entries EXCEPT ![id] = entry]
  /\ unsynced' = AllSynced

\* fs::remove_file on an entry file; the directory is not synced.
RemoveEntry(id) ==
  /\ entries' = [entries EXCEPT ![id] = NoEntry]
  /\ unsynced' = [unsynced EXCEPT ![id] = entries[id]]

WriteAwaitDeletion(id) ==
  deletions' = [deletions EXCEPT ![id] = entries[id].incarnation]

\* Mutant: the marker goes whatever lifetime was posted.
ClearAnyMarker(id, inc) == deletions' = [deletions EXCEPT ![id] = NoInc]

\* Mutant: only a marker of the posted lifetime itself goes.
ClearOwnMarker(id, inc) ==
  deletions' = IF deletions[id] = inc THEN [deletions EXCEPT ![id] = NoInc]
                                      ELSE deletions

\* The marker goes when it, or the entry now queued, is the posted lifetime.
ClearAwaitDeletion(id, inc) ==
  deletions' = IF deletions[id] = inc \/ entries[id].incarnation = inc
               THEN [deletions EXCEPT ![id] = NoInc]
               ELSE deletions

\* Mutant: the search starts one line too late.
ContainsAttemptPast(attempt, from) ==
  \E k \in 1..Len(history) :
    k > from + 1 /\ history[k].attempt = attempt /\ history[k].outcome # "torn"

\* contains_attempt: some readable line past `from` carries the attempt.
ContainsAttempt(attempt, from) ==
  \E k \in 1..Len(history) :
    k > from /\ history[k].attempt = attempt /\ history[k].outcome # "torn"

Line(id, inc, attempt, outcome) ==
  [id |-> id, incarnation |-> inc, attempt |-> attempt, outcome |-> outcome]

\* append_once
AppendOnce(r) ==
  history' = IF ContainsAttempt(r.claim, r.offset)
             THEN history
             ELSE Append(history, Line(r.id, r.incarnation, r.claim, "success"))

\* The ways an append can fail: nothing written, a torn line, or a whole
\* line whose sync_data failed.
AppendFails(id, inc, attempt, outcome) ==
  history' \in {history,
                Append(history, Line(id, inc, attempt, "torn")),
                Append(history, Line(id, inc, attempt, outcome))}

Later(a, b) == IF a >= b THEN a ELSE b

StoreInit ==
  /\ entries = AllSynced
  /\ unsynced = AllSynced
  /\ deletions = [id \in Ids |-> NoInc]
  /\ lastPost = 0
  /\ lastAttempt = 0
  /\ completion = {}
  /\ history = << >>

StoreTypeOK ==
  /\ entries \in [Ids -> Entry]
  /\ unsynced \in [Ids -> Entry]
  /\ deletions \in [Ids -> Incarnations \cup {NoInc}]
  /\ lastPost \in Nat
  /\ lastAttempt \in Nat
  /\ completion \subseteq CompletionRecord
  /\ history \in Seq(HistoryRecord)
=============================================================================
