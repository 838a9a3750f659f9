----------------------------- MODULE QueueBounds -----------------------------
(***************************************************************************)
(* Admission control of the queue directory: how many bytes an entry file  *)
(* has, how many more it may grow, and the limits every scan and every     *)
(* write enforces.  An entry is abstracted to the widths of the fields     *)
(* that change after it was enqueued (order, claim_token, incarnation) and *)
(* the bytes of the rest.                                                  *)
(***************************************************************************)
EXTENDS Integers, FiniteSets, Functions

CONSTANTS
  Ids,              \* entry identifiers, one file each
  Bases,            \* bytes of the fields that never change
  OrderWidths,      \* digits, with the sign, an order key may have
  LegacyGaps,       \* bytes a rewrite adds to a legacy file besides its
                    \* incarnation: 19 for not_before, 23 for claim_token,
                    \* 0 when the file has both
  MaxEntryBytes,
  MaxQueueBytes,
  MaxQueueEntries,
  Headroom          \* ENTRY_MUTATION_HEADROOM_BYTES

MaxOrderBytes    == 20
UuidJsonBytes    == 38
NullJsonBytes    == 4
IncarnationBytes == 57

ASSUME BoundsAssumption ==
  /\ IsFiniteSet(Ids)
  /\ Bases \subseteq Nat
  /\ OrderWidths \subseteq 1..MaxOrderBytes
  /\ 1 \in OrderWidths
  /\ LegacyGaps \subseteq Nat
  /\ MaxEntryBytes \in Nat /\ MaxQueueBytes \in Nat /\ MaxQueueEntries \in Nat
  /\ Headroom \in Nat
  /\ Headroom >= MaxOrderBytes - 1 + UuidJsonBytes - NullJsonBytes

VARIABLES
  files,   \* files[id]: the entry file of id, or NoFile
  state    \* "down", "reclaiming", "serving", or "refused": open failed

vars == <<files, state>>

Entry == [base : Nat, order : OrderWidths, claim : BOOLEAN, legacy : BOOLEAN,
          gap : Nat, readable : BOOLEAN]

NoFile == [base |-> 0, order |-> 0, claim |-> FALSE, legacy |-> FALSE,
           gap |-> 0, readable |-> FALSE]

SatSub(a, b) == IF a >= b THEN a - b ELSE 0

ClaimBytes(f) == IF f.claim THEN UuidJsonBytes ELSE NullJsonBytes

IncarnationGrowth(f) == IF f.legacy THEN IncarnationBytes ELSE 0

\* The length of the file: what serde_json wrote for these fields.
Size(f) ==
  f.base + f.order + ClaimBytes(f) + (IF f.legacy THEN 0 ELSE IncarnationBytes)

\* Mutant: the reservation does not shrink as the fields grow.
ConstantHeadroom(f) == Headroom + IncarnationGrowth(f)

EntryHeadroom(f) ==
  SatSub(SatSub(Headroom, f.order - 1), ClaimBytes(f) - NullJsonBytes)
    + IncarnationGrowth(f)

MaximumMutationGrowth(f) ==
  SatSub(MaxOrderBytes, f.order) + SatSub(UuidJsonBytes, ClaimBytes(f))
    + IncarnationGrowth(f)

\* read_entry: a file above the limit is as unreadable as a corrupt one.
Readable(f) == f.readable /\ Size(f) <= MaxEntryBytes
-----------------------------------------------------------------------------
(* The scan: QueueUsage of the directory, and when it fails.               *)

Present == {id \in Ids : files[id] # NoFile}

Entries == {id \in Present : Readable(files[id])}

\* Unreadable files count here, and reserve nothing below.
Usage ==
  [count |-> Cardinality(Present),
   bytes |-> SumFunction([id \in Present |-> Size(files[id])]),
   headroom |-> SumFunction([id \in Entries |-> EntryHeadroom(files[id])])]

EntriesFit ==
  \A id \in Entries :
    Size(files[id]) + MaximumMutationGrowth(files[id]) <= MaxEntryBytes

ScanOk ==
  /\ Usage.count <= MaxQueueEntries
  /\ Usage.bytes <= MaxQueueBytes
  /\ EntriesFit

\* Mutant: a new entry may fill the limit to the last byte.
EntryLimitWithoutHeadroom(previous) == MaxEntryBytes

EntryLimit(previous) ==
  IF previous = NoFile THEN SatSub(MaxEntryBytes, Headroom) ELSE MaxEntryBytes

\* write_entry_with_usage: may f replace previous, or be added when there is
\* no previous file, in a directory with this usage?
WriteFits(usage, previous, f) ==
  LET isNew == previous = NoFile
      used == SatSub(usage.bytes, IF isNew THEN 0 ELSE Size(previous))
      others == SatSub(usage.headroom, IF isNew THEN 0 ELSE EntryHeadroom(previous))
  IN
  /\ usage.count + (IF isNew THEN 1 ELSE 0) <= MaxQueueEntries
  /\ Size(f) <= EntryLimit(previous)
  /\ used + Size(f) + others + EntryHeadroom(f) <= MaxQueueBytes

\* A rewrite stores every field in the current layout.
Rewritten(f) == [f EXCEPT !.base = @ + f.gap, !.gap = 0]

Write(id, f) ==
  /\ ScanOk
  /\ WriteFits(Usage, files[id], f)
  /\ files' = [files EXCEPT ![id] = f]
-----------------------------------------------------------------------------
(* The operations of the store.                                            *)

\* Whatever an earlier version left in the directory: a file without
\* incarnation, and perhaps without the two fields that serde defaults.
LegacyFiles == [base : Bases, order : OrderWidths, claim : BOOLEAN,
                legacy : {TRUE}, gap : LegacyGaps, readable : {TRUE}]

Init ==
  /\ files \in [Ids -> LegacyFiles \cup {NoFile}]
  /\ state = "down"

\* Mutant: validation wants a byte more than the writes leave.
ValidateStrictly ==
  /\ state = "down"
  /\ state' = IF ScanOk /\ Usage.bytes + Usage.headroom < MaxQueueBytes
              THEN "reclaiming" ELSE "refused"
  /\ UNCHANGED files

\* QueueStore::open up to validate_existing_limits.
ValidateExistingLimits ==
  /\ state = "down"
  /\ state' = IF ScanOk /\ Usage.bytes + Usage.headroom <= MaxQueueBytes
              THEN "reclaiming" ELSE "refused"
  /\ UNCHANGED files

NeedsReclaim(id) == id \in Entries /\ (files[id].claim \/ files[id].legacy)

Reclaimed(f) == [Rewritten(f) EXCEPT !.claim = FALSE, !.legacy = FALSE]

\* reclaim_claims rewrites one entry; an error of the write ends open.
ReclaimOne(id) ==
  /\ state = "reclaiming"
  /\ NeedsReclaim(id)
  /\ \/ Write(id, Reclaimed(files[id])) /\ UNCHANGED state
     \/ /\ ~(ScanOk /\ WriteFits(Usage, files[id], Reclaimed(files[id])))
        /\ state' = "refused"
        /\ UNCHANGED files

Opened ==
  /\ state = "reclaiming"
  /\ \A id \in Ids : ~NeedsReclaim(id)
  /\ state' = "serving"
  /\ UNCHANGED files

Serving == state = "serving" /\ UNCHANGED state

\* put_with_eta of an identifier that has no file.
Put(id, base, width) ==
  /\ Serving
  /\ files[id] = NoFile
  /\ Cardinality(Entries) < MaxQueueEntries
  /\ Write(id, [base |-> base, order |-> width, claim |-> FALSE,
                legacy |-> FALSE, gap |-> 0, readable |-> TRUE])

\* bump and bust: a new order key.
Reorder(id, width) ==
  /\ Serving
  /\ id \in Entries
  /\ Write(id, [Rewritten(files[id]) EXCEPT !.order = width])

\* claim_next_due.
Claim(id) ==
  /\ Serving
  /\ id \in Entries
  /\ \A other \in Entries : ~files[other].claim
  /\ Write(id, [Rewritten(files[id]) EXCEPT !.claim = TRUE])

\* release_claim, and reclaim_claims when the worker task restarts.
Release(id) ==
  /\ Serving
  /\ id \in Entries
  /\ files[id].claim
  /\ Write(id, [Rewritten(files[id]) EXCEPT !.claim = FALSE])

\* del, and the removal in reconcile_completion.
Remove(id) ==
  /\ Serving
  /\ id \in Entries
  /\ files' = [files EXCEPT ![id] = NoFile]

\* A file is damaged: its bytes stay, no scan can read it any more.
Damage(id) ==
  /\ files[id] # NoFile
  /\ files' = [files EXCEPT ![id].readable = FALSE]
  /\ UNCHANGED state

\* The process ends and is started again.
Stop ==
  /\ state \in {"reclaiming", "serving"}
  /\ state' = "down"
  /\ UNCHANGED files

Next ==
  \/ ValidateExistingLimits
  \/ Opened
  \/ Stop
  \/ \E id \in Ids :
       \/ ReclaimOne(id)
       \/ \E base \in Bases, width \in OrderWidths : Put(id, base, width)
       \/ \E width \in OrderWidths : Reorder(id, width)
       \/ Claim(id)
       \/ Release(id)
       \/ Remove(id)
       \/ Damage(id)

Spec == Init /\ [][Next]_vars
-----------------------------------------------------------------------------
(* Properties.                                                             *)

\* What reorder, claim, release and reclaim may write over f.
Mutated(f, width, claim, legacy) ==
  [Rewritten(f) EXCEPT !.order = width, !.claim = claim, !.legacy = legacy]

EveryMutationFits ==
  \A id \in Entries, width \in OrderWidths, claim \in BOOLEAN :
    \A legacy \in {files[id].legacy, FALSE} :
      WriteFits(Usage, files[id], Mutated(files[id], width, claim, legacy))

Up == state \in {"reclaiming", "serving"}

\* What the readable files will gain when they are rewritten and nothing
\* reserves.
Lacking == SumFunction([id \in Entries |-> files[id].gap])

\* There is room for the files, for the growth reserved for them and for the
\* fields they lack.  When they lack none, this is what
\* validate_existing_limits checks.
HasRoom ==
  /\ Usage.count <= MaxQueueEntries
  /\ Usage.bytes + Usage.headroom + Lacking <= MaxQueueBytes
  /\ \A id \in Entries :
       Size(files[id]) + MaximumMutationGrowth(files[id]) + files[id].gap <= MaxEntryBytes

\* Every change the store makes to an entry it has accepted fits in what was
\* reserved for it: once open has validated a directory with room for the
\* fields its legacy files lack, no bump, bust, claim, release or reclaim is
\* ever refused for lack of bytes, however full puts have made the queue.
MutationsFit == [](Up /\ HasRoom => []EveryMutationFits)

\* One entry that could outgrow its limit makes every scan fail, and with it
\* every operation: in a validated directory with that room, nothing the
\* store writes ever becomes one.
NoEntryBlocksTheScan == [](Up /\ HasRoom => []EntriesFit)

\* A directory that the store has validated once, with that room, is accepted
\* at every later start, whatever was put, changed or damaged in between.
NeverRefusedAgain == [](Up /\ HasRoom => [](state # "refused"))

\* What the comment on entry_headroom says, of every directory that open has
\* validated: legacy entries reserve room for their missing incarnation, "so
\* a later mutation cannot exceed the bytes already budgeted".
BudgetCoversMutations == Up => EveryMutationFits
-----------------------------------------------------------------------------
(* The inductive invariants: BoundsInv always, and Kept, behind the first  *)
(* three properties, from the first state that is up and has room.         *)

FilesOk == files \in [Ids -> Entry \cup {NoFile}]

\* Only files without incarnation lack other fields, and reclaim_claims has
\* rewritten them all before the store serves.
GapsOk ==
  /\ \A id \in Ids : files[id].gap # 0 => files[id].legacy
  /\ state = "serving" => \A id \in Entries : files[id].gap = 0

BoundsInv == FilesOk /\ GapsOk

Kept == BoundsInv /\ HasRoom /\ state # "refused"
=============================================================================
