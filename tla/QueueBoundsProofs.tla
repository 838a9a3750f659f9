-------------------------- MODULE QueueBoundsProofs --------------------------
(***************************************************************************)
(* What the store has accepted it can go on with: no entry outgrows its    *)
(* limit, no change is refused for lack of bytes and no later start        *)
(* refuses the directory, for all limits, any number of entries, any sizes *)
(* of their fields and any fields legacy files lack, once there is room    *)
(* for those.                                                              *)
(*                                                                         *)
(* The usage of the directory is a sum over its files.  The first part     *)
(* shows what a sum is: that the fold behind SumFunction is defined, and   *)
(* that any file may be taken out of it first.                             *)
(***************************************************************************)
EXTENDS QueueBounds, FiniteSetTheorems, TLAPS

\* The fold that SumFunction is, one step and the function it iterates.
One(s) == CHOOSE x \in s : TRUE

FoldStep(w, s, g) == IF s = {} THEN 0 ELSE w[One(s)] + g[s \ {One(s)}]

Fold(w, S) == CHOOSE g : g = [s \in SUBSET S |-> FoldStep(w, s, g)]

\* g computes the sums of w over the subsets of S.
Sums(g, w, S) == \A s \in SUBSET S : g[s] = FoldStep(w, s, g)

LEMMA SumUnfolds ==
  ASSUME NEW w, NEW S
  PROVE  SumFunctionOnSet(w, S) = Fold(w, S)[S]
  BY Zenon DEF SumFunctionOnSet, FoldFunctionOnSet, MapThenFoldSet, Fold, FoldStep, One

\* A set of subsets of a finite set has a member none other is part of.
LEMMA Smallest ==
  ASSUME NEW S, IsFiniteSet(S), NEW T, T \subseteq SUBSET S, T # {}
  PROVE  \E s \in T : \A u \in T : u \subseteq s => u = s
<1>1. PICK s \in T : \A u \in T : <<u, s>> \notin StrictSubsetOrdering(S)
  <2>1. T \subseteq FiniteSubsetsOf(S)
    BY FS_FiniteSubsetsOfFinite
  <2> QED
    BY <2>1, FS_StrictSubsetOrderingWellFounded, WFMin
<1>2. \A u \in T : u \subseteq s => u = s
  BY Zenon, <1>1 DEF StrictSubsetOrdering
<1> QED
  BY <1>2

LEMMA OneIsIn ==
  ASSUME NEW s, s # {}
  PROVE  One(s) \in s
  BY DEF One

\* Sums of functions that agree on a set agree there.
LEMMA SumsAgree ==
  ASSUME NEW S, NEW T, IsFiniteSet(S), NEW w, NEW v, NEW g, NEW h,
         Sums(g, w, S), Sums(h, v, T), NEW t, t \subseteq S, t \subseteq T,
         \A x \in t : w[x] = v[x]
  PROVE  g[t] = h[t]
<1> DEFINE Differ == {s \in SUBSET t : g[s] # h[s]}
<1>1. SUFFICES ASSUME Differ # {}
               PROVE  FALSE
  BY <1>1
<1>2. IsFiniteSet(t)
  BY FS_Subset
<1>3. PICK s \in Differ : \A u \in Differ : u \subseteq s => u = s
  <2>1. Differ \subseteq SUBSET t
    OBVIOUS
  <2> HIDE DEF Differ
  <2> QED
    BY <1>1, <1>2, <2>1, Smallest
<1>4. s \subseteq t /\ g[s] # h[s] /\ s \in SUBSET S /\ s \in SUBSET T
  BY <1>3
<1>5. g[s] = FoldStep(w, s, g) /\ h[s] = FoldStep(v, s, h)
  BY Zenon, <1>4 DEF Sums
<1>6. s # {}
  BY <1>4, <1>5 DEF FoldStep
<1>7. One(s) \in s
  BY <1>6, OneIsIn
<1>8. g[s \ {One(s)}] = h[s \ {One(s)}]
  <2>1. s \ {One(s)} \subseteq s /\ s \ {One(s)} # s /\ s \ {One(s)} \in SUBSET t
    BY <1>4, <1>7
  <2> QED
    BY Zenon, <1>3, <2>1
<1>9. w[One(s)] = v[One(s)]
  BY <1>4, <1>7
<1> QED
  BY <1>4, <1>5, <1>6, <1>8, <1>9 DEF FoldStep

\* The fold is defined.
LEMMA FoldSums ==
  ASSUME NEW S, IsFiniteSet(S), NEW w
  PROVE  Sums(Fold(w, S), w, S)
<1> DEFINE Defined(s) == \E g : g = [t \in SUBSET s |-> FoldStep(w, t, g)]
           Undefined == {s \in SUBSET S : ~Defined(s)}
<1>1. \A s \in SUBSET S : Defined(s) =>
        Fold(w, s) = [t \in SUBSET s |-> FoldStep(w, t, Fold(w, s))]
  BY Zenon DEF Fold
<1>2. \A s \in SUBSET S : Defined(s) => Sums(Fold(w, s), w, s)
  <2> SUFFICES ASSUME NEW s \in SUBSET S, Defined(s), NEW t \in SUBSET s
               PROVE  Fold(w, s)[t] = FoldStep(w, t, Fold(w, s))
    BY Zenon DEF Sums
  <2> DEFINE g == Fold(w, s)
  <2>1. g = [u \in SUBSET s |-> FoldStep(w, u, g)]
    BY Zenon, <1>1
  <2> HIDE DEF g
  <2>2. g[t] = FoldStep(w, t, g)
    BY <2>1
  <2> QED
    BY <2>2 DEF g
<1>3. Undefined = {}
  <2>1. SUFFICES ASSUME Undefined # {}
                 PROVE  FALSE
    BY Zenon
  <2>2. PICK s \in Undefined : \A u \in Undefined : u \subseteq s => u = s
    <3>1. Undefined \subseteq SUBSET S
      OBVIOUS
    <3> HIDE DEF Undefined
    <3> QED
      BY <2>1, <3>1, Smallest
  <2>3. \A t \in SUBSET s : t # s => Sums(Fold(w, t), w, t)
    BY Zenon, <1>2, <2>2
  <2> DEFINE part(t) == Fold(w, t)[t]
             whole == IF s = {} THEN 0 ELSE w[One(s)] + part(s \ {One(s)})
             g == [t \in SUBSET s |-> IF t = s THEN whole ELSE part(t)]
  <2>4. \A t \in SUBSET s : g[t] = FoldStep(w, t, g)
    <3> SUFFICES ASSUME NEW t \in SUBSET s
                 PROVE  g[t] = FoldStep(w, t, g)
      BY Zenon
    <3>1. t # {} => /\ t \ {One(t)} \in SUBSET s /\ t \ {One(t)} # s /\ t \ {One(t)} # t
                    /\ t \ {One(t)} \subseteq t /\ IsFiniteSet(t)
      BY <2>2, OneIsIn, FS_Subset
    <3>2. t # {} => g[t \ {One(t)}] = part(t \ {One(t)})
      BY <3>1
    <3>3. CASE t = s
      BY <3>2, <3>3 DEF FoldStep
    <3>4. CASE t # s
      <4>1. part(t) = FoldStep(w, t, Fold(w, t))
        BY Zenon, <2>3, <3>4 DEF Sums
      <4>2. t # {} => Fold(w, t)[t \ {One(t)}] = part(t \ {One(t)})
        <5> SUFFICES ASSUME t # {}
                     PROVE  Fold(w, t)[t \ {One(t)}] = part(t \ {One(t)})
          OBVIOUS
        <5>1. Sums(Fold(w, t), w, t) /\ Sums(Fold(w, t \ {One(t)}), w, t \ {One(t)})
          BY Zenon, <2>3, <3>1, <3>4
        <5>2. t \ {One(t)} \subseteq t \ {One(t)} /\ \A x \in t \ {One(t)} : w[x] = w[x]
          OBVIOUS
        <5> HIDE DEF Undefined
        <5> QED
          BY <3>1, <5>1, <5>2, SumsAgree DEF part
      <4>3. g[t] = part(t)
        BY <3>4
      <4> HIDE DEF g, part
      <4> QED
        BY <3>2, <4>1, <4>2, <4>3 DEF FoldStep
    <3> QED
      BY <3>3, <3>4
  <2>5. g = [t \in SUBSET s |-> FoldStep(w, t, g)]
    <3>1. g = [t \in SUBSET s |-> g[t]]
      OBVIOUS
    <3> HIDE DEF g
    <3> QED
      BY Zenon, <2>4, <3>1
  <2>6. Defined(s)
    <3> HIDE DEF g
    <3> QED
      BY Zenon, <2>5
  <2> QED
    BY Zenon, <2>2, <2>6
<1> QED
  BY Zenon, <1>2, <1>3

\* Sums stay in a set that has 0 and is closed under addition.
LEMMA SumsStayIn ==
  ASSUME NEW N, 0 \in N, \A a, b \in N : a + b \in N,
         NEW S, IsFiniteSet(S), NEW w \in [S -> N], NEW g, Sums(g, w, S), NEW t \in SUBSET S
  PROVE  g[t] \in N
<1> DEFINE Odd == {s \in SUBSET S : g[s] \notin N}
<1>1. SUFFICES ASSUME Odd # {}
               PROVE  FALSE
  OBVIOUS
<1>2. PICK s \in Odd : \A u \in Odd : u \subseteq s => u = s
  <2>1. Odd \subseteq SUBSET S
    OBVIOUS
  <2> HIDE DEF Odd
  <2> QED
    BY <1>1, <2>1, Smallest
<1>3. s \in SUBSET S /\ g[s] = FoldStep(w, s, g) /\ g[s] \notin N
  BY Zenon, <1>2 DEF Sums
<1>4. s # {}
  BY <1>3 DEF FoldStep
<1>5. One(s) \in s /\ s \ {One(s)} \in SUBSET S /\ s \ {One(s)} \subseteq s /\ s \ {One(s)} # s
  BY <1>3, <1>4, OneIsIn
<1>6. g[s \ {One(s)}] \in N /\ w[One(s)] \in N
  BY Zenon, <1>2, <1>3, <1>5
<1> QED
  BY <1>3, <1>4, <1>5, <1>6 DEF FoldStep

LEMMA SumsInNat ==
  ASSUME NEW S, IsFiniteSet(S), NEW w \in [S -> Nat], NEW g, Sums(g, w, S), NEW t \in SUBSET S
  PROVE  g[t] \in Nat
<1>1. 0 \in Nat /\ \A a, b \in Nat : a + b \in Nat
  OBVIOUS
<1> QED
  BY Zenon, <1>1, SumsStayIn

\* Any member may be taken out of a sum, not only the one the fold takes.
LEMMA TakeOut ==
  ASSUME NEW S, IsFiniteSet(S), NEW w \in [S -> Nat], NEW g, Sums(g, w, S),
         NEW t \in SUBSET S, NEW y \in t
  PROVE  g[t] = w[y] + g[t \ {y}]
<1> DEFINE Odd == {s \in SUBSET S : \E x \in s : g[s] # w[x] + g[s \ {x}]}
<1>1. SUFFICES ASSUME Odd # {}
               PROVE  FALSE
  BY Zenon
<1>2. PICK s \in Odd : \A u \in Odd : u \subseteq s => u = s
  <2>1. Odd \subseteq SUBSET S
    OBVIOUS
  <2> HIDE DEF Odd
  <2> QED
    BY <1>1, <2>1, Smallest
<1>3. PICK x \in s : g[s] # w[x] + g[s \ {x}]
  BY Zenon, <1>2
<1>4. s \in SUBSET S /\ g[s] = FoldStep(w, s, g) /\ s # {}
  BY Zenon, <1>2, <1>3 DEF Sums
<1> DEFINE z == One(s)
<1>5. z \in s /\ g[s] = w[z] + g[s \ {z}]
  BY Zenon, <1>4, OneIsIn DEF FoldStep
<1>6. x # z
  BY Zenon, <1>3, <1>5
<1> HIDE DEF z
<1>7. \A u \in SUBSET s : u # s => \A r \in u : g[u] = w[r] + g[u \ {r}]
  <2> SUFFICES ASSUME NEW u \in SUBSET s, u # s, NEW r \in u
               PROVE  g[u] = w[r] + g[u \ {r}]
    OBVIOUS
  <2>1. u \in SUBSET S /\ u \notin Odd
    BY Zenon, <1>2, <1>4
  <2> QED
    BY Zenon, <2>1
<1>8. g[s \ {z}] = w[x] + g[(s \ {z}) \ {x}]
  BY <1>5, <1>6, <1>7
<1>9. g[s \ {x}] = w[z] + g[(s \ {x}) \ {z}]
  BY Zenon, <1>5, <1>6, <1>7
<1>10. (s \ {z}) \ {x} = (s \ {x}) \ {z} /\ (s \ {x}) \ {z} \in SUBSET S
  BY <1>4
<1>11. g[(s \ {x}) \ {z}] \in Nat /\ w[x] \in Nat /\ w[z] \in Nat
  BY <1>4, <1>5, <1>10, SumsInNat
<1> DEFINE a == w[x]  b == w[z]  r == g[(s \ {x}) \ {z}]
<1>12. g[s] = b + (a + r) /\ g[s \ {x}] = b + r /\ g[s] # a + g[s \ {x}]
  BY Zenon, <1>3, <1>5, <1>8, <1>9, <1>10
<1>13. a \in Nat /\ b \in Nat /\ r \in Nat
  BY Zenon, <1>11
<1>14. g[s] # a + (b + r)
  BY Zenon, <1>12
<1> HIDE DEF Odd, a, b, r
<1>15. b + (a + r) = a + (b + r)
  BY <1>13
<1> QED
  BY Zenon, <1>12, <1>14, <1>15

\* What SumFunction promises: the sum over no file is 0, and one more adds
\* its number to the others'.
LEMMA SumType ==
  ASSUME NEW S, IsFiniteSet(S), NEW w \in [S -> Nat]
  PROVE  SumFunction(w) \in Nat
  BY FoldSums, SumsInNat, SumUnfolds DEF SumFunction

LEMMA SumOfZeros ==
  ASSUME NEW S, IsFiniteSet(S), NEW w \in [S -> {0}]
  PROVE  SumFunction(w) = 0
<1>1. 0 \in {0} /\ \A a, b \in {0} : a + b \in {0}
  OBVIOUS
<1>2. DOMAIN w = S /\ S \in SUBSET S
  OBVIOUS
<1>3. Fold(w, S)[S] \in {0}
  BY Zenon, <1>1, <1>2, FoldSums, SumsStayIn
<1> QED
  BY <1>2, <1>3, SumUnfolds DEF SumFunction

LEMMA SumAdds ==
  ASSUME NEW S, IsFiniteSet(S), NEW y \in S, NEW w \in [S -> Nat],
         NEW v \in [S \ {y} -> Nat], \A x \in S \ {y} : v[x] = w[x]
  PROVE  SumFunction(w) = w[y] + SumFunction(v)
<1> DEFINE T == S \ {y}
<1>1. SumFunction(w) = Fold(w, S)[S] /\ SumFunction(v) = Fold(v, T)[T]
  BY SumUnfolds DEF SumFunction
<1>2. IsFiniteSet(T)
  BY FS_Subset
<1>3. Sums(Fold(w, S), w, S) /\ Sums(Fold(v, T), v, T)
  BY Zenon, <1>2, FoldSums
<1>4. Fold(w, S)[S] = w[y] + Fold(w, S)[T]
  BY <1>3, TakeOut
<1>5. Fold(w, S)[T] = Fold(v, T)[T]
  <2>1. T \subseteq S /\ T \subseteq T /\ \A x \in T : w[x] = v[x]
    OBVIOUS
  <2> HIDE DEF T
  <2> QED
    BY <1>3, <2>1, SumsAgree
<1> QED
  BY <1>1, <1>4, <1>5
-----------------------------------------------------------------------------
(* The sizes of one entry.                                                 *)

\* The bytes of the fields that never change, once none is lacking.
Full(f) == f.base + f.gap

LEMMA SizesAreNat ==
  ASSUME NEW f \in Entry
  PROVE  Size(f) \in Nat /\ EntryHeadroom(f) \in Nat /\ MaximumMutationGrowth(f) \in Nat
<1>1. f.base \in Nat /\ f.order \in 1..20
  BY Zenon, BoundsAssumption DEF Entry, MaxOrderBytes
<1> QED
  BY <1>1, BoundsAssumption
     DEF Size, EntryHeadroom, MaximumMutationGrowth, SatSub, ClaimBytes, IncarnationGrowth,
         MaxOrderBytes, UuidJsonBytes, NullJsonBytes, IncarnationBytes

\* Bytes used, bytes reserved for growth and bytes lacking are in balance:
\* what an entry gains in the one it loses in the others.
LEMMA Balance ==
  ASSUME NEW f \in Entry
  PROVE  Size(f) + EntryHeadroom(f) + f.gap
           = Full(f) + IncarnationBytes + Headroom + 1 + NullJsonBytes
<1>1. f.base \in Nat /\ f.order \in 1..20 /\ f.gap \in Nat
  BY Zenon, BoundsAssumption DEF Entry, MaxOrderBytes
<1>2. Size(f) + EntryHeadroom(f) = f.base + IncarnationBytes + Headroom + 1 + NullJsonBytes
  BY <1>1, BoundsAssumption
     DEF Size, EntryHeadroom, SatSub, ClaimBytes, IncarnationGrowth,
         MaxOrderBytes, UuidJsonBytes, NullJsonBytes, IncarnationBytes
<1> QED
  BY <1>1, <1>2, SizesAreNat, BoundsAssumption DEF Full, IncarnationBytes, NullJsonBytes

\* The most an entry may grow to does not depend on how far it has grown.
LEMMA Reach ==
  ASSUME NEW f \in Entry
  PROVE  Size(f) + MaximumMutationGrowth(f) + f.gap
           = Full(f) + IncarnationBytes + MaxOrderBytes + UuidJsonBytes
<1>1. f.base \in Nat /\ f.order \in 1..20 /\ f.gap \in Nat
  BY Zenon, BoundsAssumption DEF Entry, MaxOrderBytes
<1> QED
  BY <1>1, BoundsAssumption
     DEF Size, MaximumMutationGrowth, Full, SatSub, ClaimBytes, IncarnationGrowth,
         MaxOrderBytes, UuidJsonBytes, NullJsonBytes, IncarnationBytes

\* A record of Entry by its fields.
Fields(base, order, claim, legacy, gap, readable) ==
  [base |-> base, order |-> order, claim |-> claim, legacy |-> legacy, gap |-> gap,
   readable |-> readable]

LEMMA EntryByFields ==
  ASSUME NEW f \in Entry
  PROVE  /\ f = Fields(f.base, f.order, f.claim, f.legacy, f.gap, f.readable)
         /\ f.base \in Nat /\ f.order \in OrderWidths /\ f.claim \in BOOLEAN
         /\ f.legacy \in BOOLEAN /\ f.gap \in Nat /\ f.readable \in BOOLEAN
         /\ Full(f) \in Nat
<1>1. /\ f = Fields(f.base, f.order, f.claim, f.legacy, f.gap, f.readable)
      /\ f.base \in Nat /\ f.order \in OrderWidths /\ f.claim \in BOOLEAN
      /\ f.legacy \in BOOLEAN /\ f.gap \in Nat /\ f.readable \in BOOLEAN
  BY DEF Entry, Fields
<1> QED
  BY <1>1 DEF Full

LEMMA FieldsAreEntry ==
  ASSUME NEW b \in Nat, NEW o \in OrderWidths, NEW c \in BOOLEAN, NEW l \in BOOLEAN,
         NEW m \in Nat, NEW r \in BOOLEAN
  PROVE  /\ Fields(b, o, c, l, m, r) \in Entry /\ Fields(b, o, c, l, m, r).base = b
         /\ Fields(b, o, c, l, m, r).gap = m
         /\ Fields(b, o, c, l, m, r).readable = r /\ Fields(b, o, c, l, m, r).legacy = l
  BY DEF Entry, Fields

\* A rewrite fills the gap.
LEMMA RewrittenFields ==
  ASSUME NEW f \in Entry
  PROVE  Rewritten(f) = Fields(Full(f), f.order, f.claim, f.legacy, 0, f.readable)
<1> DEFINE b == f.base  o == f.order  c == f.claim  l == f.legacy  m == f.gap
           r == f.readable  t == Full(f)
<1>1. f = Fields(b, o, c, l, m, r)
  BY Zenon, EntryByFields
<1>2. Rewritten(f) = [[f EXCEPT !.base = t] EXCEPT !.gap = 0]
  BY Zenon, <1>1 DEF Rewritten, Full, Fields
<1> HIDE DEF b, o, c, l, m, r, t
<1>3. /\ [Fields(b, o, c, l, m, r) EXCEPT !.base = t] = Fields(t, o, c, l, m, r)
      /\ [Fields(t, o, c, l, m, r) EXCEPT !.gap = 0] = Fields(t, o, c, l, 0, r)
  BY DEF Fields
<1>4. Rewritten(f) = Fields(t, o, c, l, 0, r)
  BY Zenon, <1>1, <1>2, <1>3
<1> QED
  BY Zenon, <1>4 DEF o, c, l, r, t

LEMMA MutationFields ==
  ASSUME NEW f \in Entry, NEW w, NEW c, NEW l
  PROVE  Mutated(f, w, c, l) = Fields(Full(f), w, c, l, 0, f.readable)
<1> DEFINE t == Full(f)  o == f.order  m == f.claim  x == f.legacy  r == f.readable
<1>1. Mutated(f, w, c, l)
        = [[[Fields(t, o, m, x, 0, r) EXCEPT !.order = w] EXCEPT !.claim = c] EXCEPT !.legacy = l]
  BY Zenon, RewrittenFields DEF Mutated
<1> HIDE DEF t, o, m, x, r
<1>2. /\ [Fields(t, o, m, x, 0, r) EXCEPT !.order = w] = Fields(t, w, m, x, 0, r)
      /\ [Fields(t, w, m, x, 0, r) EXCEPT !.claim = c] = Fields(t, w, c, x, 0, r)
      /\ [Fields(t, w, c, x, 0, r) EXCEPT !.legacy = l] = Fields(t, w, c, l, 0, r)
  BY DEF Fields
<1>3. Mutated(f, w, c, l) = Fields(t, w, c, l, 0, r)
  BY Zenon, <1>1, <1>2
<1> QED
  BY Zenon, <1>3 DEF t, r

LEMMA MutationIsEntry ==
  ASSUME NEW f \in Entry, NEW w \in OrderWidths, NEW c \in BOOLEAN, NEW l \in BOOLEAN
  PROVE  /\ Mutated(f, w, c, l) \in Entry /\ Mutated(f, w, c, l).gap = 0
         /\ Full(Mutated(f, w, c, l)) = Full(f)
<1> DEFINE t == Full(f)  r == f.readable  g == Fields(t, w, c, l, 0, r)
<1>1. Mutated(f, w, c, l) = g
  BY Zenon, MutationFields
<1>2. t \in Nat /\ r \in BOOLEAN
  BY Zenon, EntryByFields
<1> HIDE DEF t, r
<1>3. g \in Entry /\ g.base = t /\ g.gap = 0
  BY <1>2, FieldsAreEntry
<1> HIDE DEF g
<1>4. Full(g) = t
  BY <1>2, <1>3 DEF Full
<1> QED
  BY Zenon, <1>1, <1>3, <1>4 DEF t

LEMMA NoFileIsNoEntry == NoFile \notin Entry
  BY BoundsAssumption DEF NoFile, Entry, MaxOrderBytes

-----------------------------------------------------------------------------
(* The usage of the directory.                                             *)

\* The sums over the files other than id's, and what id's file adds to them.
OtherBytes(id) == SumFunction([x \in Present \ {id} |-> Size(files[x])])

OtherHeadroom(id) == SumFunction([x \in Entries \ {id} |-> EntryHeadroom(files[x])])

OtherLacking(id) == SumFunction([x \in Entries \ {id} |-> files[x].gap])

Others(id) == OtherBytes(id) + OtherHeadroom(id) + OtherLacking(id)

Own(f) ==
  (IF f = NoFile THEN 0 ELSE Size(f)) + (IF Readable(f) THEN EntryHeadroom(f) + f.gap ELSE 0)

LEMMA DirectoryTypes ==
  ASSUME FilesOk
  PROVE  /\ Entries \subseteq Present /\ Present \subseteq Ids
         /\ IsFiniteSet(Present) /\ IsFiniteSet(Entries)
         /\ \A id \in Present : files[id] \in Entry
         /\ \A id \in Ids : (id \in Present <=> files[id] # NoFile)
         /\ \A id \in Ids : (id \in Entries <=> Readable(files[id]))
         /\ \A id \in Ids : files[id] \in Entry \cup {NoFile}
<1>1. \A id \in Ids : files[id] \in Entry \cup {NoFile}
  BY DEF FilesOk
<1>2. Entries \subseteq Present /\ Present \subseteq Ids
  BY DEF Entries, Present
<1>3. IsFiniteSet(Present) /\ IsFiniteSet(Entries)
  BY <1>2, BoundsAssumption, FS_Subset
<1>4. \A id \in Ids : (id \in Present <=> files[id] # NoFile)
  BY DEF Present
<1>5. ~Readable(NoFile)
  BY DEF Readable, NoFile
<1>6. \A id \in Ids : (id \in Entries <=> Readable(files[id]))
  BY Zenon, <1>4, <1>5 DEF Entries, Present
<1>7. \A id \in Present : files[id] \in Entry
  BY <1>1, <1>2, <1>4
<1> QED
  BY <1>1, <1>2, <1>3, <1>4, <1>6, <1>7

LEMMA BytesSplit ==
  ASSUME FilesOk, NEW id \in Ids
  PROVE  /\ OtherBytes(id) \in Nat
         /\ Usage.bytes = OtherBytes(id) + IF files[id] = NoFile THEN 0 ELSE Size(files[id])
<1> DEFINE w == [x \in Present |-> Size(files[x])]
           v == [x \in Present \ {id} |-> Size(files[x])]
<1>1. IsFiniteSet(Present) /\ IsFiniteSet(Present \ {id})
  BY DirectoryTypes, FS_Subset
<1>2. \A x \in Present : Size(files[x]) \in Nat
  BY DirectoryTypes, SizesAreNat
<1>3. w \in [Present -> Nat] /\ v \in [Present \ {id} -> Nat]
  BY <1>2
<1>4. Usage.bytes = SumFunction(w) /\ OtherBytes(id) = SumFunction(v)
  BY DEF Usage, OtherBytes
<1>5. OtherBytes(id) \in Nat
  BY <1>1, <1>3, <1>4, SumType
<1>6. CASE id \in Present
  <2>1. (\A x \in Present \ {id} : v[x] = w[x]) /\ w[id] = Size(files[id])
    BY <1>6
  <2> HIDE DEF w, v
  <2>2. SumFunction(w) = w[id] + SumFunction(v)
    BY <1>1, <1>3, <1>6, <2>1, SumAdds
  <2>3. Size(files[id]) \in Nat /\ files[id] # NoFile
    BY <1>2, <1>6, DirectoryTypes
  <2> QED
    BY <1>4, <1>5, <2>1, <2>2, <2>3
<1>7. CASE id \notin Present
  <2>1. Present \ {id} = Present /\ files[id] = NoFile
    BY <1>7, DirectoryTypes
  <2>2. w = v
    BY <2>1
  <2> QED
    BY <1>4, <1>5, <2>1, <2>2
<1> QED
  BY <1>6, <1>7

LEMMA HeadroomSplit ==
  ASSUME FilesOk, NEW id \in Ids
  PROVE  /\ OtherHeadroom(id) \in Nat
         /\ Usage.headroom
              = OtherHeadroom(id) + IF Readable(files[id]) THEN EntryHeadroom(files[id]) ELSE 0
<1> DEFINE w == [x \in Entries |-> EntryHeadroom(files[x])]
           v == [x \in Entries \ {id} |-> EntryHeadroom(files[x])]
<1>1. IsFiniteSet(Entries) /\ IsFiniteSet(Entries \ {id})
  BY DirectoryTypes, FS_Subset
<1>2. \A x \in Entries : EntryHeadroom(files[x]) \in Nat
  BY DirectoryTypes, SizesAreNat
<1>3. w \in [Entries -> Nat] /\ v \in [Entries \ {id} -> Nat]
  BY <1>2
<1>4. Usage.headroom = SumFunction(w) /\ OtherHeadroom(id) = SumFunction(v)
  BY DEF Usage, OtherHeadroom
<1>5. OtherHeadroom(id) \in Nat
  BY <1>1, <1>3, <1>4, SumType
<1>6. CASE id \in Entries
  <2>1. (\A x \in Entries \ {id} : v[x] = w[x]) /\ w[id] = EntryHeadroom(files[id])
    BY <1>6
  <2> HIDE DEF w, v
  <2>2. SumFunction(w) = w[id] + SumFunction(v)
    BY <1>1, <1>3, <1>6, <2>1, SumAdds
  <2>3. EntryHeadroom(files[id]) \in Nat /\ Readable(files[id])
    BY <1>2, <1>6, DirectoryTypes
  <2> QED
    BY <1>4, <1>5, <2>1, <2>2, <2>3
<1>7. CASE id \notin Entries
  <2>1. Entries \ {id} = Entries /\ ~Readable(files[id])
    BY <1>7, DirectoryTypes
  <2>2. w = v
    BY <2>1
  <2> QED
    BY <1>4, <1>5, <2>1, <2>2
<1> QED
  BY <1>6, <1>7

LEMMA LackingSplit ==
  ASSUME FilesOk, NEW id \in Ids
  PROVE  /\ OtherLacking(id) \in Nat
         /\ Lacking = OtherLacking(id) + IF Readable(files[id]) THEN files[id].gap ELSE 0
<1> DEFINE w == [x \in Entries |-> files[x].gap]
           v == [x \in Entries \ {id} |-> files[x].gap]
<1>1. IsFiniteSet(Entries) /\ IsFiniteSet(Entries \ {id})
  BY DirectoryTypes, FS_Subset
<1>2. \A x \in Entries : files[x].gap \in Nat
  BY DirectoryTypes, EntryByFields
<1>3. w \in [Entries -> Nat] /\ v \in [Entries \ {id} -> Nat]
  BY <1>2
<1>4. Lacking = SumFunction(w) /\ OtherLacking(id) = SumFunction(v)
  BY DEF Lacking, OtherLacking
<1>5. OtherLacking(id) \in Nat
  BY <1>1, <1>3, <1>4, SumType
<1>6. CASE id \in Entries
  <2>1. \A x \in Entries \ {id} : v[x] = w[x]
    OBVIOUS
  <2>2. w[id] = files[id].gap
    BY <1>6
  <2> HIDE DEF w, v
  <2>3. SumFunction(w) = w[id] + SumFunction(v)
    BY <1>1, <1>3, <1>6, <2>1, SumAdds
  <2>4. files[id].gap \in Nat /\ Readable(files[id])
    BY <1>2, <1>6, DirectoryTypes
  <2> QED
    BY <1>4, <1>5, <2>2, <2>3, <2>4
<1>7. CASE id \notin Entries
  <2>1. Entries \ {id} = Entries /\ ~Readable(files[id])
    BY <1>7, DirectoryTypes
  <2>2. w = v
    BY <2>1
  <2> QED
    BY <1>4, <1>5, <2>1, <2>2
<1> QED
  BY <1>6, <1>7

LEMMA CountSplit ==
  ASSUME FilesOk, NEW id \in Ids
  PROVE  /\ Cardinality(Present \ {id}) \in Nat
         /\ Usage.count = Cardinality(Present \ {id}) + IF files[id] = NoFile THEN 0 ELSE 1
<1>1. IsFiniteSet(Present) /\ (id \in Present <=> files[id] # NoFile)
  BY DirectoryTypes
<1>2. IsFiniteSet(Present \ {id}) /\ Cardinality(Present) \in Nat
  BY <1>1, FS_Subset, FS_CardinalityType
<1>3. Cardinality(Present \ {id}) \in Nat
  BY <1>2, FS_CardinalityType
<1>4. Cardinality(Present \ {id})
        = IF id \in Present THEN Cardinality(Present) - 1 ELSE Cardinality(Present)
  BY Zenon, <1>1, FS_RemoveElement
<1>5. Usage.count = Cardinality(Present)
  BY DEF Usage
<1> QED
  BY <1>1, <1>2, <1>3, <1>4, <1>5

-----------------------------------------------------------------------------
(* One file changes.                                                       *)

\* Changes(id, g): id's file becomes g, no other changes.
Changes(id, g) == files' = [files EXCEPT ![id] = g]

LEMMA OthersStay ==
  ASSUME FilesOk, NEW id \in Ids, NEW g \in Entry \cup {NoFile}, Changes(id, g)
  PROVE  /\ FilesOk' /\ files'[id] = g
         /\ \A x \in Ids \ {id} : files'[x] = files[x]
         /\ Present' \ {id} = Present \ {id} /\ Entries' \ {id} = Entries \ {id}
         /\ OtherBytes(id)' = OtherBytes(id) /\ OtherHeadroom(id)' = OtherHeadroom(id)
         /\ OtherLacking(id)' = OtherLacking(id) /\ Others(id)' = Others(id)
<1>1. files \in [Ids -> Entry \cup {NoFile}]
  BY DEF FilesOk
<1>2. files' \in [Ids -> Entry \cup {NoFile}] /\ files'[id] = g
  BY <1>1 DEF Changes
<1>3. \A x \in Ids \ {id} : files'[x] = files[x]
  BY <1>1 DEF Changes
<1>4. FilesOk'
  BY <1>2 DEF FilesOk
<1>5. Present' \ {id} = Present \ {id}
  BY <1>3 DEF Present
<1>6. Entries' \ {id} = Entries \ {id}
  BY <1>3 DEF Entries, Present
<1>7. /\ \A x \in Present \ {id} : files'[x] = files[x]
      /\ \A x \in Entries \ {id} : files'[x] = files[x]
  BY <1>3 DEF Entries, Present
<1>8. OtherBytes(id)' = OtherBytes(id)
  BY <1>5, <1>7 DEF OtherBytes
<1>9. OtherHeadroom(id)' = OtherHeadroom(id)
  BY <1>6, <1>7 DEF OtherHeadroom
<1>10. OtherLacking(id)' = OtherLacking(id)
  BY <1>6, <1>7 DEF OtherLacking
<1>11. Others(id)' = Others(id)
  BY Zenon, <1>8, <1>9, <1>10 DEF Others
<1> QED
  BY <1>2, <1>3, <1>4, <1>5, <1>6, <1>8, <1>9, <1>10, <1>11

\* What the directory holds, reserves and lacks, with id's part told apart.
Split(id) ==
  /\ OtherBytes(id) \in Nat /\ OtherHeadroom(id) \in Nat /\ OtherLacking(id) \in Nat
  /\ Others(id) \in Nat /\ Own(files[id]) \in Nat
  /\ Usage.bytes \in Nat /\ Usage.headroom \in Nat /\ Lacking \in Nat
  /\ Usage.bytes + Usage.headroom + Lacking = Others(id) + Own(files[id])
  /\ Cardinality(Present \ {id}) \in Nat
  /\ Usage.count = Cardinality(Present \ {id}) + IF files[id] = NoFile THEN 0 ELSE 1

LEMMA UsageSplits == FilesOk => \A id \in Ids : Split(id)
<1> SUFFICES ASSUME FilesOk, NEW id \in Ids
             PROVE  Split(id)
  OBVIOUS
<1>1. files[id] # NoFile \/ Readable(files[id]) => files[id] \in Entry
  BY DirectoryTypes
<1>2. /\ files[id] # NoFile => Size(files[id]) \in Nat
      /\ Readable(files[id]) => EntryHeadroom(files[id]) \in Nat /\ files[id].gap \in Nat
  BY <1>1, SizesAreNat, EntryByFields
<1> QED
  BY <1>2, BytesSplit, HeadroomSplit, LackingSplit, CountSplit DEF Own, Others, Split

LEMMA UsageSplitsNext == FilesOk' => (\A id \in Ids : Split(id))'
  BY UsageSplits, PTL

\* The directory keeps its room when a file changes to one that fits.
LEMMA ChangeKeepsRoom ==
  ASSUME FilesOk, HasRoom, NEW id \in Ids, NEW g \in Entry \cup {NoFile}, Changes(id, g),
         files[id] = NoFile /\ g # NoFile => Usage.count + 1 <= MaxQueueEntries,
         Others(id) + Own(g) <= MaxQueueBytes,
         Readable(g) => Size(g) + MaximumMutationGrowth(g) + g.gap <= MaxEntryBytes
  PROVE  FilesOk' /\ HasRoom'
<1>1. /\ FilesOk' /\ files'[id] = g
      /\ \A x \in Ids \ {id} : files'[x] = files[x]
      /\ Present' \ {id} = Present \ {id} /\ Entries' \ {id} = Entries \ {id}
      /\ Others(id)' = Others(id)
  BY OthersStay
<1>2. Usage'.count <= MaxQueueEntries
  <2>1. /\ Cardinality(Present \ {id}) \in Nat
        /\ Usage.count = Cardinality(Present \ {id}) + IF files[id] = NoFile THEN 0 ELSE 1
    BY Zenon, UsageSplits DEF Split
  <2>2. Usage'.count = Cardinality(Present' \ {id}) + IF files'[id] = NoFile THEN 0 ELSE 1
    BY Zenon, <1>1, UsageSplitsNext DEF Split
  <2>3. Usage'.count = Cardinality(Present \ {id}) + IF g = NoFile THEN 0 ELSE 1
    BY Zenon, <1>1, <2>2
  <2>4. MaxQueueEntries \in Nat /\ Usage.count <= MaxQueueEntries
    BY BoundsAssumption DEF HasRoom
  <2> QED
    BY <2>1, <2>3, <2>4
<1>3. Usage'.bytes + Usage'.headroom + Lacking' <= MaxQueueBytes
  <2>1. Usage'.bytes + Usage'.headroom + Lacking' = Others(id)' + Own(files'[id])
    BY Zenon, <1>1, UsageSplitsNext DEF Split
  <2> QED
    BY Zenon, <1>1, <2>1
<1>4. ASSUME NEW x \in Entries'
      PROVE  Size(files'[x]) + MaximumMutationGrowth(files'[x]) + files'[x].gap <= MaxEntryBytes
  <2>1. CASE x = id
    BY <1>1, <2>1 DEF Entries
  <2>2. CASE x # id
    <3>1. x \in Entries /\ x \in Ids \ {id}
      BY <1>1, <1>4, <2>2 DEF Entries, Present
    <3> QED
      BY Zenon, <1>1, <3>1 DEF HasRoom
  <2> QED
    BY <2>1, <2>2
<1> QED
  BY Zenon, <1>1, <1>2, <1>3, <1>4 DEF HasRoom

\* A rewritten entry fits: what it gains in bytes was reserved for it, or is
\* a field there is room for.
LEMMA RewriteFits ==
  ASSUME FilesOk, HasRoom, NEW id \in Entries, NEW g \in Entry, Full(g) = Full(files[id])
  PROVE  /\ WriteFits(Usage, files[id], g)
         /\ Others(id) + Own(g) <= MaxQueueBytes
         /\ Size(g) + MaximumMutationGrowth(g) + g.gap <= MaxEntryBytes
<1> DEFINE f == files[id]  B == OtherBytes(id)  H == OtherHeadroom(id)  L == OtherLacking(id)
<1>1. f \in Entry /\ f # NoFile /\ Readable(f) /\ id \in Ids
  BY DirectoryTypes
<1>2. /\ Size(f) \in Nat /\ EntryHeadroom(f) \in Nat /\ Size(g) \in Nat
      /\ EntryHeadroom(g) \in Nat /\ MaximumMutationGrowth(g) \in Nat
      /\ f.gap \in Nat /\ g.gap \in Nat
  BY <1>1, SizesAreNat, EntryByFields
<1>3. /\ Size(g) + EntryHeadroom(g) + g.gap = Size(f) + EntryHeadroom(f) + f.gap
      /\ Size(g) + MaximumMutationGrowth(g) + g.gap = Size(f) + MaximumMutationGrowth(f) + f.gap
  BY Zenon, <1>1, Balance, Reach
<1>4. /\ B \in Nat /\ Usage.bytes = B + Size(f)
      /\ H \in Nat /\ Usage.headroom = H + EntryHeadroom(f)
      /\ L \in Nat /\ Lacking = L + f.gap
  BY <1>1, BytesSplit, HeadroomSplit, LackingSplit
<1>5. /\ Usage.count <= MaxQueueEntries
      /\ Usage.bytes + Usage.headroom + Lacking <= MaxQueueBytes
      /\ Size(f) + MaximumMutationGrowth(f) + f.gap <= MaxEntryBytes
  BY Zenon DEF HasRoom
<1>6. Size(g) + MaximumMutationGrowth(g) + g.gap <= MaxEntryBytes
  BY Zenon, <1>3, <1>5
<1>7. MaxEntryBytes \in Nat /\ MaxQueueBytes \in Nat /\ MaxQueueEntries \in Nat
  BY BoundsAssumption
<1>8. Others(id) = B + H + L
  BY DEF Others
<1> HIDE DEF f, B, H, L
<1>9. SatSub(Usage.bytes, Size(f)) = B /\ SatSub(Usage.headroom, EntryHeadroom(f)) = H
  BY <1>2, <1>4 DEF SatSub
<1>10. B + Size(g) + H + EntryHeadroom(g) + L + g.gap <= MaxQueueBytes
  BY <1>2, <1>3, <1>4, <1>5, <1>7
<1>11. B + Size(g) + H + EntryHeadroom(g) <= MaxQueueBytes
  BY <1>2, <1>4, <1>7, <1>10
<1>12. Size(g) <= EntryLimit(f)
  BY <1>1, <1>2, <1>6, <1>7 DEF EntryLimit
<1>13. Usage.count + 0 <= MaxQueueEntries
  <2>1. Usage.count \in Nat
    BY DirectoryTypes, FS_CardinalityType DEF Usage
  <2> QED
    BY <1>5, <2>1
<1>14. WriteFits(Usage, f, g)
  BY <1>1, <1>9, <1>11, <1>12, <1>13 DEF WriteFits
<1>15. B + H + L + Own(g) <= MaxQueueBytes
  BY <1>2, <1>4, <1>7, <1>10 DEF Own
<1> QED
  BY <1>6, <1>8, <1>14, <1>15 DEF f

\* In a store that serves no file lacks a field.
LEMMA ServingLacksNothing ==
  ASSUME FilesOk, \A x \in Entries : files[x].gap = 0
  PROVE  Lacking = 0
<1>1. [x \in Entries |-> files[x].gap] \in [Entries -> {0}] /\ IsFiniteSet(Entries)
  BY DirectoryTypes
<1> QED
  BY <1>1, SumOfZeros DEF Lacking

\* put: a new entry leaves room for all it may grow.
LEMMA NewEntryFits ==
  ASSUME FilesOk, \A x \in Entries : files[x].gap = 0,
         NEW id \in Ids, files[id] = NoFile, NEW g \in Entry, ~g.legacy, g.gap = 0,
         WriteFits(Usage, files[id], g)
  PROVE  /\ Others(id) + Own(g) <= MaxQueueBytes
         /\ Usage.count + 1 <= MaxQueueEntries
         /\ Size(g) + MaximumMutationGrowth(g) + g.gap <= MaxEntryBytes
<1> DEFINE B == OtherBytes(id)  H == OtherHeadroom(id)
<1>1. ~Readable(files[id])
  BY DEF Readable, NoFile
<1>2. Size(g) \in Nat /\ EntryHeadroom(g) \in Nat /\ MaximumMutationGrowth(g) \in Nat
  BY SizesAreNat
<1>3. B \in Nat /\ Usage.bytes = B /\ H \in Nat /\ Usage.headroom = H
  BY <1>1, BytesSplit, HeadroomSplit
<1>4. Others(id) = B + H
  <2>1. OtherLacking(id) = 0
    BY <1>1, LackingSplit, ServingLacksNothing
  <2> QED
    BY <1>3, <2>1 DEF Others
<1> HIDE DEF B, H
<1>5. /\ Usage.count + 1 <= MaxQueueEntries
      /\ Size(g) <= SatSub(MaxEntryBytes, Headroom)
      /\ SatSub(Usage.bytes, 0) + Size(g) + SatSub(Usage.headroom, 0) + EntryHeadroom(g)
           <= MaxQueueBytes
  BY DEF WriteFits, EntryLimit
<1>6. B + H + Own(g) <= MaxQueueBytes
  <2>1. B + Size(g) + H + EntryHeadroom(g) <= MaxQueueBytes
    BY <1>3, <1>5 DEF SatSub
  <2>2. MaxQueueBytes \in Nat
    BY BoundsAssumption
  <2> QED
    BY <1>2, <1>3, <2>1, <2>2 DEF Own
<1>7. Size(g) + MaximumMutationGrowth(g) + g.gap <= MaxEntryBytes
  <2>1. g.base \in Nat /\ g.order \in 1..20
    BY Zenon, BoundsAssumption DEF Entry, MaxOrderBytes
  <2>2. Size(g) + MaximumMutationGrowth(g) <= MaxEntryBytes
    BY <1>5, <2>1, BoundsAssumption
       DEF Size, MaximumMutationGrowth, SatSub, ClaimBytes, IncarnationGrowth,
           MaxOrderBytes, UuidJsonBytes, NullJsonBytes, IncarnationBytes
  <2> QED
    BY <1>2, <2>2
<1> QED
  BY <1>4, <1>5, <1>6, <1>7
-----------------------------------------------------------------------------
(* The steps.                                                              *)

\* What a step may do to the files: nothing, or one of four changes.
Rewrites(id, g) ==
  id \in Entries /\ Full(g) = Full(files[id]) /\ g.gap = 0 /\ Changes(id, g)

Adds(id, g) ==
  /\ state = "serving" /\ files[id] = NoFile
  /\ ~g.legacy /\ g.gap = 0
  /\ WriteFits(Usage, files[id], g) /\ Changes(id, g)

Damages(id, g) ==
  /\ files[id] # NoFile /\ ~g.readable
  /\ Size(g) = Size(files[id]) /\ g.gap = files[id].gap /\ g.legacy = files[id].legacy
  /\ Changes(id, g)

OneChange ==
  \/ files' = files
  \/ \E id \in Ids : id \in Entries /\ Changes(id, NoFile)
  \/ \E id \in Ids, g \in Entry : Rewrites(id, g) \/ Adds(id, g) \/ Damages(id, g)

LEMMA MutationRewrites ==
  ASSUME FilesOk, NEW id \in Entries, NEW w \in OrderWidths, NEW c \in BOOLEAN,
         NEW l \in {files[id].legacy, FALSE}, Write(id, Mutated(files[id], w, c, l))
  PROVE  OneChange
<1>1. id \in Ids /\ files[id] \in Entry
  BY DirectoryTypes
<1>2. l \in BOOLEAN
  BY Zenon, <1>1, EntryByFields
<1> DEFINE g == Mutated(files[id], w, c, l)
<1>3. g \in Entry /\ Full(g) = Full(files[id]) /\ g.gap = 0
  BY <1>1, <1>2, MutationIsEntry
<1>4. Changes(id, g)
  BY DEF Write, Changes
<1> HIDE DEF g
<1> QED
  BY Zenon, <1>1, <1>3, <1>4 DEF OneChange, Rewrites

\* Each operation that rewrites an entry writes a mutation of it.
LEMMA OperationsMutate ==
  ASSUME FilesOk, NEW id \in Entries
  PROVE  LET f == files[id] IN
         /\ Reclaimed(f) = Mutated(f, f.order, FALSE, FALSE)
         /\ \A w \in OrderWidths :
              [Rewritten(f) EXCEPT !.order = w] = Mutated(f, w, f.claim, f.legacy)
         /\ \A c \in BOOLEAN :
              [Rewritten(f) EXCEPT !.claim = c] = Mutated(f, f.order, c, f.legacy)
<1> DEFINE f == files[id]  t == Full(f)  o == f.order  m == f.claim  l == f.legacy
           r == f.readable
<1>1. f \in Entry
  BY DirectoryTypes
<1> HIDE DEF f
<1>2. Rewritten(f) = Fields(t, o, m, l, 0, r)
  BY <1>1, RewrittenFields
<1>3. ASSUME NEW w, NEW c, NEW x
      PROVE  Mutated(f, w, c, x) = Fields(t, w, c, x, 0, r)
  BY <1>1, MutationFields
<1> HIDE DEF t, o, m, l, r
<1>4. Reclaimed(f) = Mutated(f, o, FALSE, FALSE)
  <2> DEFINE no == FALSE
  <2>1. Reclaimed(f) = [[Fields(t, o, m, l, 0, r) EXCEPT !.claim = no] EXCEPT !.legacy = no]
    BY Zenon, <1>2 DEF Reclaimed
  <2> HIDE DEF no
  <2>2. /\ [Fields(t, o, m, l, 0, r) EXCEPT !.claim = no] = Fields(t, o, no, l, 0, r)
        /\ [Fields(t, o, no, l, 0, r) EXCEPT !.legacy = no] = Fields(t, o, no, no, 0, r)
    BY DEF Fields
  <2>3. Reclaimed(f) = Mutated(f, o, no, no)
    BY Zenon, <1>3, <2>1, <2>2
  <2> QED
    BY <2>3 DEF no
<1>5. ASSUME NEW w
      PROVE  [Rewritten(f) EXCEPT !.order = w] = Mutated(f, w, m, l)
  <2>1. [Fields(t, o, m, l, 0, r) EXCEPT !.order = w] = Fields(t, w, m, l, 0, r)
    BY DEF Fields
  <2> QED
    BY Zenon, <1>2, <1>3, <2>1
<1>6. ASSUME NEW c
      PROVE  [Rewritten(f) EXCEPT !.claim = c] = Mutated(f, o, c, l)
  <2>1. [Fields(t, o, m, l, 0, r) EXCEPT !.claim = c] = Fields(t, o, c, l, 0, r)
    BY DEF Fields
  <2> QED
    BY Zenon, <1>2, <1>3, <2>1
<1> QED
  BY Zenon, <1>4, <1>5, <1>6 DEF f, o, m, l

LEMMA RewritingSteps ==
  ASSUME FilesOk, NEW id \in Ids,
         \/ ReclaimOne(id) \/ Claim(id) \/ Release(id)
         \/ \E width \in OrderWidths : Reorder(id, width)
  PROVE  OneChange
<1>1. CASE files' = files
  BY <1>1 DEF OneChange
<1>2. ASSUME id \in Entries
      PROVE  /\ files[id].order \in OrderWidths /\ files[id].claim \in BOOLEAN
             /\ files[id].legacy \in {files[id].legacy, FALSE}
             /\ FALSE \in {files[id].legacy, FALSE}
  BY <1>2, DirectoryTypes, EntryByFields
<1>3. CASE ReclaimOne(id) /\ files' # files
  <2>1. id \in Entries /\ Write(id, Reclaimed(files[id]))
    BY <1>3 DEF ReclaimOne, NeedsReclaim
  <2>2. Write(id, Mutated(files[id], files[id].order, FALSE, FALSE))
    BY Zenon, <2>1, OperationsMutate
  <2> QED
    BY Zenon, <1>2, <2>1, <2>2, MutationRewrites
<1>4. CASE Claim(id)
  <2>1. id \in Entries /\ Write(id, Mutated(files[id], files[id].order, TRUE, files[id].legacy))
    BY Zenon, <1>4, OperationsMutate DEF Claim
  <2> QED
    BY Zenon, <1>2, <2>1, MutationRewrites
<1>5. CASE Release(id)
  <2>1. id \in Entries /\ Write(id, Mutated(files[id], files[id].order, FALSE, files[id].legacy))
    BY Zenon, <1>5, OperationsMutate DEF Release
  <2> QED
    BY Zenon, <1>2, <2>1, MutationRewrites
<1>6. CASE \E width \in OrderWidths : Reorder(id, width)
  <2>1. PICK width \in OrderWidths : Reorder(id, width)
    BY <1>6
  <2>2. /\ id \in Entries
        /\ Write(id, Mutated(files[id], width, files[id].claim, files[id].legacy))
    BY Zenon, <2>1, OperationsMutate DEF Reorder
  <2> QED
    BY Zenon, <1>2, <2>2, MutationRewrites
<1> QED
  BY <1>1, <1>3, <1>4, <1>5, <1>6

LEMMA StepsChangeOne ==
  ASSUME FilesOk, [Next]_vars
  PROVE  OneChange
<1>1. CASE files' = files
  BY <1>1 DEF OneChange
<1>2. ASSUME NEW id \in Ids, NEW base \in Bases, NEW width \in OrderWidths, Put(id, base, width)
      PROVE  OneChange
  <2> DEFINE no == FALSE  yes == TRUE  g == Fields(base, width, no, no, 0, yes)
  <2>1. state = "serving" /\ files[id] = NoFile /\ Write(id, g)
    BY <1>2 DEF Put, Serving, Fields
  <2>2. g \in Entry /\ g.legacy = FALSE /\ g.gap = 0
    <3>1. base \in Nat /\ 0 \in Nat /\ no \in BOOLEAN /\ yes \in BOOLEAN
      BY BoundsAssumption
    <3> HIDE DEF no, yes
    <3>2. g \in Entry /\ g.legacy = no /\ g.gap = 0
      BY <3>1, FieldsAreEntry
    <3> QED
      BY <3>2 DEF no
  <2> HIDE DEF g
  <2>3. Adds(id, g)
    BY <2>1, <2>2 DEF Adds, Write, Changes
  <2> QED
    BY Zenon, <2>2, <2>3 DEF OneChange
<1>3. ASSUME NEW id \in Ids, Remove(id)
      PROVE  OneChange
  BY Zenon, <1>3 DEF Remove, OneChange, Changes
<1>4. ASSUME NEW id \in Ids, Damage(id)
      PROVE  OneChange
  <2> DEFINE f == files[id]  no == FALSE  g == [f EXCEPT !.readable = no]
  <2>1. f # NoFile /\ Changes(id, g) /\ no \in BOOLEAN
    BY Zenon, <1>4 DEF Damage, Changes
  <2> HIDE DEF no
  <2>2. f \in Entry
    BY <2>1, DirectoryTypes
  <2> HIDE DEF f
  <2> DEFINE b == f.base  o == f.order  c == f.claim  l == f.legacy  m == f.gap
  <2>3. /\ f = Fields(b, o, c, l, m, f.readable) /\ b \in Nat /\ o \in OrderWidths
        /\ c \in BOOLEAN /\ l \in BOOLEAN /\ m \in Nat
    BY Zenon, <2>2, EntryByFields
  <2>4. g = Fields(b, o, c, l, m, no)
    <3> HIDE DEF b, o, c, l, m
    <3>1. [Fields(b, o, c, l, m, f.readable) EXCEPT !.readable = no]
            = Fields(b, o, c, l, m, no)
      BY DEF Fields
    <3> QED
      BY Zenon, <2>3, <3>1
  <2>5. g \in Entry /\ g.readable = no /\ g.gap = f.gap /\ g.legacy = f.legacy
    BY <2>1, <2>3, <2>4, FieldsAreEntry
  <2>6. Size(g) = Size(f)
    <3> HIDE DEF b, o, c, l, m
    <3>1. \A r : Size(Fields(b, o, c, l, m, r))
                   = b + o + (IF c THEN UuidJsonBytes ELSE NullJsonBytes)
                       + (IF l THEN 0 ELSE IncarnationBytes)
      BY DEF Size, ClaimBytes, Fields
    <3> QED
      BY Zenon, <2>3, <2>4, <3>1
  <2> HIDE DEF g
  <2>7. Damages(id, g)
    BY Zenon, <2>1, <2>5, <2>6 DEF Damages, f, no
  <2> QED
    BY Zenon, <2>5, <2>7 DEF OneChange
<1>5. CASE ValidateExistingLimits \/ Opened \/ Stop \/ UNCHANGED vars
  BY <1>1, <1>5 DEF ValidateExistingLimits, Opened, Stop, vars
<1> QED
  BY <1>2, <1>3, <1>4, <1>5, RewritingSteps DEF Next

\* No step spoils a directory that has room.
LEMMA KeepsRoom ==
  ASSUME BoundsInv, HasRoom, OneChange
  PROVE  HasRoom'
<1>0. FilesOk
  BY DEF BoundsInv
<1>1. CASE files' = files
  BY <1>1 DEF HasRoom, Usage, Lacking, Entries, Present
<1>2. ASSUME NEW id \in Ids, id \in Entries, Changes(id, NoFile)
      PROVE  HasRoom'
  <2>1. ~Readable(NoFile) /\ Own(NoFile) = 0
    BY DEF Own, Readable, NoFile
  <2>2. Others(id) + 0 <= MaxQueueBytes
    <3>1. /\ Split(id) /\ MaxQueueBytes \in Nat
          /\ Usage.bytes + Usage.headroom + Lacking <= MaxQueueBytes
      BY Zenon, <1>0, UsageSplits, BoundsAssumption DEF HasRoom
    <3> QED
      BY <3>1 DEF Split
  <2> QED
    BY <1>0, <1>2, <2>1, <2>2, ChangeKeepsRoom
<1>3. ASSUME NEW id \in Ids, NEW g \in Entry, Rewrites(id, g)
      PROVE  HasRoom'
  <2>1. id \in Entries /\ Full(g) = Full(files[id]) /\ Changes(id, g) /\ files[id] # NoFile
    BY <1>0, <1>3, DirectoryTypes DEF Rewrites
  <2>2. /\ Others(id) + Own(g) <= MaxQueueBytes
        /\ Size(g) + MaximumMutationGrowth(g) + g.gap <= MaxEntryBytes
    BY <1>0, <2>1, RewriteFits
  <2> QED
    BY Zenon, <1>0, <2>1, <2>2, ChangeKeepsRoom
<1>4. ASSUME NEW id \in Ids, NEW g \in Entry, Adds(id, g)
      PROVE  HasRoom'
  <2>1. \A x \in Entries : files[x].gap = 0
    BY <1>4 DEF BoundsInv, GapsOk, Adds
  <2>2. /\ Others(id) + Own(g) <= MaxQueueBytes
        /\ Usage.count + 1 <= MaxQueueEntries
        /\ Size(g) + MaximumMutationGrowth(g) + g.gap <= MaxEntryBytes
    BY <1>0, <1>4, <2>1, NewEntryFits DEF Adds
  <2> QED
    BY Zenon, <1>0, <1>4, <2>2, ChangeKeepsRoom DEF Adds
<1>5. ASSUME NEW id \in Ids, NEW g \in Entry, Damages(id, g)
      PROVE  HasRoom'
  <2>1. files[id] # NoFile /\ ~Readable(g) /\ Size(g) = Size(files[id]) /\ Changes(id, g)
    BY <1>5 DEF Damages, Readable
  <2>2. files[id] \in Entry /\ g # NoFile
    BY <1>0, <2>1, NoFileIsNoEntry, DirectoryTypes
  <2>3. Size(files[id]) \in Nat /\ EntryHeadroom(files[id]) \in Nat /\ files[id].gap \in Nat
    BY <2>2, SizesAreNat, EntryByFields
  <2>4. Own(g) <= Own(files[id]) /\ Own(g) \in Nat
    BY <2>1, <2>2, <2>3 DEF Own
  <2>5. Others(id) + Own(g) <= MaxQueueBytes
    <3>1. /\ Split(id) /\ MaxQueueBytes \in Nat
          /\ Usage.bytes + Usage.headroom + Lacking <= MaxQueueBytes
      BY Zenon, <1>0, UsageSplits, BoundsAssumption DEF HasRoom
    <3> QED
      BY <2>4, <3>1 DEF Split
  <2> QED
    BY <1>0, <2>1, <2>5, ChangeKeepsRoom
<1> QED
  BY <1>1, <1>2, <1>3, <1>4, <1>5 DEF OneChange

LEMMA FilesOkStep ==
  ASSUME FilesOk, [Next]_vars
  PROVE  FilesOk'
<1>1. CASE files' = files
  BY <1>1 DEF FilesOk
<1>2. ASSUME NEW id \in Ids, NEW g \in Entry \cup {NoFile}, Changes(id, g)
      PROVE  FilesOk'
  BY <1>2, OthersStay
<1> QED
  BY Zenon, <1>1, <1>2, StepsChangeOne DEF OneChange, Rewrites, Adds, Damages

\* A file that changes lacks nothing after it, or cannot be read any more.
LEMMA ChangedFiles ==
  ASSUME FilesOk, [Next]_vars, NEW x \in Ids
  PROVE  \/ files'[x] = files[x]
         \/ files'[x].gap = 0
         \/ /\ ~files'[x].readable
            /\ files'[x].gap = files[x].gap /\ files'[x].legacy = files[x].legacy
<1>1. NoFile.gap = 0
  BY DEF NoFile
<1>2. ASSUME NEW id \in Ids, NEW g \in Entry \cup {NoFile}, Changes(id, g)
      PROVE  files'[x] = IF x = id THEN g ELSE files[x]
  BY <1>2, OthersStay
<1> QED
  BY Zenon, <1>1, <1>2, StepsChangeOne DEF OneChange, Rewrites, Adds, Damages

LEMMA GapsOkStep ==
  ASSUME BoundsInv, [Next]_vars
  PROVE  GapsOk'
<1>1. FilesOk /\ FilesOk'
  BY FilesOkStep DEF BoundsInv
<1>2. ASSUME NEW x \in Ids, files'[x].gap # 0
      PROVE  files'[x].legacy
  BY Zenon, <1>1, <1>2, ChangedFiles DEF BoundsInv, GapsOk
<1>3. ASSUME state' = "serving", NEW x \in Entries'
      PROVE  files'[x].gap = 0
  <2>1. x \in Ids /\ Readable(files'[x]) /\ files'[x].readable
    BY <1>3 DEF Entries, Present, Readable
  <2>2. SUFFICES ASSUME files'[x] = files[x]
                 PROVE  files'[x].gap = 0
    BY Zenon, <1>1, <2>1, ChangedFiles
  <2>3. x \in Entries
    BY <1>1, <2>1, <2>2, DirectoryTypes
  <2>4. state = "serving" \/ Opened
    BY Zenon, <1>3 DEF Next, vars, ValidateExistingLimits, Stop, ReclaimOne, Put, Reorder,
       Claim, Release, Remove, Damage, Serving
  <2>5. CASE state = "serving"
    BY <2>2, <2>3, <2>5 DEF BoundsInv, GapsOk
  <2>6. CASE Opened
    BY Zenon, <2>1, <2>2, <2>3, <2>6 DEF Opened, NeedsReclaim, BoundsInv, GapsOk
  <2> QED
    BY <2>4, <2>5, <2>6
<1> QED
  BY <1>2, <1>3 DEF GapsOk

LEMMA RoomScans ==
  ASSUME FilesOk, HasRoom
  PROVE  ScanOk /\ Usage.bytes + Usage.headroom <= MaxQueueBytes
<1>1. Usage.bytes \in Nat /\ Usage.headroom \in Nat /\ Lacking \in Nat
  <2>1. IsFiniteSet(Present) /\ IsFiniteSet(Entries)
    BY DirectoryTypes
  <2>2. /\ [x \in Present |-> Size(files[x])] \in [Present -> Nat]
        /\ [x \in Entries |-> EntryHeadroom(files[x])] \in [Entries -> Nat]
        /\ [x \in Entries |-> files[x].gap] \in [Entries -> Nat]
    BY DirectoryTypes, SizesAreNat, EntryByFields
  <2> QED
    BY <2>1, <2>2, SumType DEF Usage, Lacking
<1>2. Usage.bytes <= MaxQueueBytes /\ Usage.bytes + Usage.headroom <= MaxQueueBytes
  BY <1>1, BoundsAssumption DEF HasRoom
<1>3. EntriesFit
  <2> SUFFICES ASSUME NEW id \in Entries
               PROVE  Size(files[id]) + MaximumMutationGrowth(files[id]) <= MaxEntryBytes
    BY Zenon DEF EntriesFit
  <2>1. /\ Size(files[id]) \in Nat /\ MaximumMutationGrowth(files[id]) \in Nat
        /\ files[id].gap \in Nat
    BY DirectoryTypes, SizesAreNat, EntryByFields
  <2>2. Size(files[id]) + MaximumMutationGrowth(files[id]) + files[id].gap <= MaxEntryBytes
    BY Zenon DEF HasRoom
  <2> QED
    BY <2>1, <2>2, BoundsAssumption
<1> QED
  BY <1>2, <1>3 DEF HasRoom, ScanOk

\* ReclaimOne is never refused, nor is the next start.
LEMMA NeverRefused ==
  ASSUME FilesOk, HasRoom, state # "refused", [Next]_vars
  PROVE  state' # "refused"
<1>1. CASE ValidateExistingLimits
  BY <1>1, RoomScans DEF ValidateExistingLimits
<1>2. ASSUME NEW id \in Ids, ReclaimOne(id)
      PROVE  state' # "refused"
  <2>1. id \in Entries /\ files[id] \in Entry
    BY <1>2, DirectoryTypes DEF ReclaimOne, NeedsReclaim
  <2>2. Reclaimed(files[id]) \in Entry /\ Full(Reclaimed(files[id])) = Full(files[id])
    <3> DEFINE no == FALSE
    <3>1. Reclaimed(files[id]) = Mutated(files[id], files[id].order, no, no)
      BY Zenon, <2>1, OperationsMutate
    <3>2. files[id].order \in OrderWidths /\ no \in BOOLEAN
      BY <2>1, EntryByFields
    <3> HIDE DEF no
    <3> DEFINE g == Mutated(files[id], files[id].order, no, no)
    <3>3. g \in Entry /\ Full(g) = Full(files[id])
      BY <2>1, <3>2, MutationIsEntry
    <3> HIDE DEF g
    <3> QED
      BY Zenon, <3>1, <3>3 DEF g
  <2>3. WriteFits(Usage, files[id], Reclaimed(files[id]))
    BY Zenon, <2>1, <2>2, RewriteFits
  <2> QED
    BY <1>2, <2>3, RoomScans DEF ReclaimOne
<1>3. CASE UNCHANGED state \/ Opened \/ Stop
  BY <1>3 DEF Opened, Stop
<1>4. ASSUME NEW id \in Ids,
             \/ \E base \in Bases, width \in OrderWidths : Put(id, base, width)
             \/ \E width \in OrderWidths : Reorder(id, width)
             \/ Claim(id) \/ Release(id) \/ Remove(id) \/ Damage(id)
      PROVE  UNCHANGED state
  BY Zenon, <1>4 DEF Put, Reorder, Claim, Release, Remove, Damage, Serving
<1>5. UNCHANGED vars => UNCHANGED state
  BY DEF vars
<1> QED
  BY <1>1, <1>2, <1>3, <1>4, <1>5 DEF Next
-----------------------------------------------------------------------------
(* The theorems.                                                           *)

LEMMA BoundsInvHolds == Spec => []BoundsInv
<1>1. Init => BoundsInv
  <2>1. \A f \in LegacyFiles : f \in Entry /\ f.legacy
    BY Zenon, BoundsAssumption DEF LegacyFiles, Entry
  <2>2. NoFile.gap = 0
    BY DEF NoFile
  <2> QED
    BY <2>1, <2>2 DEF Init, BoundsInv, FilesOk, GapsOk
<1>2. BoundsInv /\ [Next]_vars => BoundsInv'
  BY FilesOkStep, GapsOkStep DEF BoundsInv
<1> QED
  BY <1>1, <1>2, PTL DEF Spec

LEMMA RoomForGood == Spec => [](Up /\ HasRoom => []Kept)
<1>1. BoundsInv /\ Up /\ HasRoom => Kept
  BY DEF Kept, Up
<1>2. Kept /\ [Next]_vars => Kept'
  <2> SUFFICES ASSUME Kept, [Next]_vars
               PROVE  Kept'
    OBVIOUS
  <2>1. BoundsInv /\ FilesOk /\ HasRoom /\ state # "refused" /\ OneChange
    BY StepsChangeOne DEF Kept, BoundsInv
  <2>2. BoundsInv'
    BY <2>1, FilesOkStep, GapsOkStep DEF BoundsInv
  <2>3. HasRoom' /\ state' # "refused"
    BY <2>1, KeepsRoom, NeverRefused
  <2> QED
    BY <2>2, <2>3 DEF Kept
<1> QED
  BY <1>1, <1>2, BoundsInvHolds, PTL DEF Spec

\* What validate_existing_limits has accepted has that room, when every file
\* was written with not_before and claim_token: only older files can be
\* without it.
THEOREM ValidatedHasRoom ==
  ASSUME BoundsInv, ValidateExistingLimits, state' = "reclaiming",
         \A id \in Entries : files[id].gap = 0
  PROVE  (Up /\ HasRoom)'
<1>1. ScanOk /\ Usage.bytes + Usage.headroom <= MaxQueueBytes /\ files' = files
  BY DEF ValidateExistingLimits
<1>2. Lacking = 0 /\ Usage.bytes \in Nat /\ Usage.headroom \in Nat
  <2>1. IsFiniteSet(Present) /\ IsFiniteSet(Entries)
    BY DirectoryTypes DEF BoundsInv
  <2>2. /\ [x \in Present |-> Size(files[x])] \in [Present -> Nat]
        /\ [x \in Entries |-> EntryHeadroom(files[x])] \in [Entries -> Nat]
    BY DirectoryTypes, SizesAreNat DEF BoundsInv
  <2> QED
    BY <2>1, <2>2, SumType, ServingLacksNothing DEF Usage, BoundsInv
<1>3. \A id \in Entries :
        Size(files[id]) + MaximumMutationGrowth(files[id]) + files[id].gap <= MaxEntryBytes
  <2> SUFFICES ASSUME NEW id \in Entries
               PROVE  Size(files[id]) + MaximumMutationGrowth(files[id]) + files[id].gap
                        <= MaxEntryBytes
    OBVIOUS
  <2>1. Size(files[id]) \in Nat /\ MaximumMutationGrowth(files[id]) \in Nat
    BY DirectoryTypes, SizesAreNat DEF BoundsInv
  <2>2. Size(files[id]) + MaximumMutationGrowth(files[id]) <= MaxEntryBytes
    BY Zenon, <1>1 DEF ScanOk, EntriesFit
  <2> QED
    BY <2>1, <2>2
<1>4. HasRoom
  BY <1>1, <1>2, <1>3 DEF HasRoom, ScanOk
<1>5. HasRoom'
  BY <1>1, <1>4 DEF HasRoom, Usage, Lacking, Entries, Present
<1> QED
  BY <1>5 DEF Up

\* ensure_entry_fits never fails on a directory that validate_existing_limits
\* has accepted with that room, and with it no scan and no operation of the
\* store, whatever was put, rewritten, removed or damaged since.
THEOREM NothingBlocksTheScan == Spec => NoEntryBlocksTheScan
<1>1. Kept => EntriesFit
  BY RoomScans DEF Kept, BoundsInv, ScanOk
<1> QED
  BY <1>1, RoomForGood, PTL DEF NoEntryBlocksTheScan

\* write_entry_with_usage refuses no bump, bust, claim, release or reclaim in
\* such a directory: ENTRY_MUTATION_HEADROOM_BYTES covers every change of
\* every entry at once, for all limits and however full the queue is.
THEOREM ChangesAlwaysFit == Spec => MutationsFit
<1>1. Kept => EveryMutationFits
  <2> SUFFICES ASSUME Kept, NEW id \in Entries,
                      NEW width \in OrderWidths, NEW claim \in BOOLEAN,
                      NEW legacy \in {files[id].legacy, FALSE}
               PROVE  WriteFits(Usage, files[id], Mutated(files[id], width, claim, legacy))
    BY Zenon DEF EveryMutationFits
  <2>1. FilesOk /\ HasRoom /\ files[id] \in Entry
    BY DirectoryTypes DEF Kept, BoundsInv
  <2>2. legacy \in BOOLEAN
    BY Zenon, <2>1, EntryByFields
  <2>3. /\ Mutated(files[id], width, claim, legacy) \in Entry
        /\ Full(Mutated(files[id], width, claim, legacy)) = Full(files[id])
    BY <2>1, <2>2, MutationIsEntry
  <2> QED
    BY <2>1, <2>3, RewriteFits
<1> QED
  BY <1>1, RoomForGood, PTL DEF MutationsFit

\* Once QueueStore::open has validated such a directory, no later start and
\* no reclaim of a claim refuses it.
THEOREM AcceptedForGood == Spec => NeverRefusedAgain
<1>1. Kept => state # "refused"
  BY DEF Kept
<1> QED
  BY <1>1, RoomForGood, PTL DEF NeverRefusedAgain
=============================================================================
