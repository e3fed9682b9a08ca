------------------------- MODULE FeedbackProofs -------------------------
(***************************************************************************)
(* Proofs about what running code records of itself: the profile of a call *)
(* site, for any number of threads, callees and entries, and instructions  *)
(* that specialise themselves, for any opcodes and operands.               *)
(***************************************************************************)
EXTENDS CallFeedback, Quickening, LeastNumber, TLAPS

-----------------------------------------------------------------------------
(***************************************************************************)
(* The profile of a call site: first the search and its entries, then the  *)
(* counts, whose sum is a fold over the entries in an order nobody knows.  *)
(***************************************************************************)
\* The inductive invariant: what a thread has established by the place it has
\* reached in the search is what keeps a second entry from being claimed.
FeedbackIInv ==
  /\ FeedbackTypeOK
  /\ SearchSound
  /\ OneEntryPerCallee
  /\ FilledFromFront
  /\ MegamorphicIsMeant

LEMMA FeedbackInitial == FeedbackInit => FeedbackIInv
<1> SUFFICES ASSUME FeedbackInit PROVE FeedbackIInv
  OBVIOUS
<1>1. FeedbackTypeOK
  <2>1. pc \in [Thread -> {"idle", "load", "claim", "count", "full"}]
    BY DEF FeedbackInit
  <2>2. 1 \in 1..(MaxCallees + 1)
    BY SizeAssumption
  <2>3. i \in [Thread -> 1..(MaxCallees + 1)]
    BY <2>2 DEF FeedbackInit
  <2>4. callee \in [Entries -> Callee \cup {Null}] /\ count \in [Entries -> Nat]
    BY DEF FeedbackInit
  <2>5. \A t \in Thread : pc[t] = "idle"
    BY DEF FeedbackInit
  <2>6. arg \in [Thread -> Callee \cup {Null}]
    BY DEF FeedbackInit
  <2>7. total \in Nat /\ megamorphic \in BOOLEAN
    BY DEF FeedbackInit
  <2> QED  BY <2>1, <2>3, <2>4, <2>5, <2>6, <2>7 DEF FeedbackTypeOK
<1>2. SearchSound /\ MegamorphicIsMeant
  BY DEF FeedbackInit, SearchSound, MegamorphicIsMeant
<1>3. OneEntryPerCallee /\ FilledFromFront
  BY DEF FeedbackInit, OneEntryPerCallee, FilledFromFront
<1> QED  BY <1>1, <1>2, <1>3 DEF FeedbackIInv

LEMMA RecordStep ==
  ASSUME FeedbackIInv, NEW t \in Thread, NEW c \in Callee, record(t, c)
  PROVE  FeedbackIInv'
  BY NullAssumption, SizeAssumption
  DEF FeedbackIInv, FeedbackTypeOK, SearchSound, OneEntryPerCallee,
      FilledFromFront, MegamorphicIsMeant, Entries, record

\* Going on past an entry that is another callee's.
LEMMA NextEntryStep ==
  ASSUME FeedbackIInv, NEW t \in Thread,
         pc[t] \in {"load", "claim"},
         callee[i[t]] \notin {arg[t], Null},
         NextEntry(t),
         UNCHANGED <<callee, count, total, megamorphic, arg>>
  PROVE  FeedbackIInv'
<1> USE NullAssumption, SizeAssumption
    DEF FeedbackIInv, FeedbackTypeOK, SearchSound, OneEntryPerCallee,
        FilledFromFront, MegamorphicIsMeant, Entries, NextEntry
<1>1. FeedbackTypeOK'
  OBVIOUS
<1>2. SearchSound'
  <2> SUFFICES ASSUME NEW u \in Thread
               PROVE  /\ pc'[u] \in {"load", "claim"} =>
                           \A e \in Entries : e < i'[u] => callee'[e] \notin {Null, arg'[u]}
                      /\ pc'[u] = "count" => callee'[i'[u]] = arg'[u]
    OBVIOUS
  <2>1. CASE u = t
    BY <2>1
  <2>2. CASE u # t
    BY <2>2
  <2> QED  BY <2>1, <2>2
<1>3. OneEntryPerCallee' /\ FilledFromFront'
  OBVIOUS
<1>4. MegamorphicIsMeant'
  <2>1. pc'[t] = "full" => i[t] = MaxCallees
    OBVIOUS
  <2>2. \A u \in Thread \ {t} : pc'[u] = pc[u] /\ arg'[u] = arg[u]
    OBVIOUS
  <2> QED  BY <2>1, <2>2
<1> QED  BY <1>1, <1>2, <1>3, <1>4

LEMMA LoadStep ==
  ASSUME FeedbackIInv, NEW t \in Thread, Load(t)
  PROVE  FeedbackIInv'
<1>1. PICK cur \in {callee[i[t]], Null} :
        \/ cur = arg[t] /\ pc' = [pc EXCEPT ![t] = "count"] /\ UNCHANGED i
        \/ cur = Null   /\ pc' = [pc EXCEPT ![t] = "claim"] /\ UNCHANGED i
        \/ cur \notin {arg[t], Null} /\ NextEntry(t)
  BY DEF Load
<1>2. pc[t] = "load" /\ UNCHANGED <<callee, count, total, megamorphic, arg>>
  BY DEF Load
<1>3. arg[t] \in Callee /\ arg[t] # Null
  BY <1>2, NullAssumption DEF FeedbackIInv, FeedbackTypeOK
<1>4. CASE cur = arg[t] /\ pc' = [pc EXCEPT ![t] = "count"] /\ UNCHANGED i
  <2>1. callee[i[t]] = arg[t]
    BY <1>3, <1>4
  <2> QED  BY <1>2, <1>4, <2>1, NullAssumption, SizeAssumption
           DEF FeedbackIInv, FeedbackTypeOK, SearchSound, OneEntryPerCallee,
               FilledFromFront, MegamorphicIsMeant, Entries
<1>5. CASE cur = Null /\ pc' = [pc EXCEPT ![t] = "claim"] /\ UNCHANGED i
  BY <1>2, <1>5, NullAssumption, SizeAssumption
  DEF FeedbackIInv, FeedbackTypeOK, SearchSound, OneEntryPerCallee,
      FilledFromFront, MegamorphicIsMeant, Entries
<1>6. CASE cur \notin {arg[t], Null} /\ NextEntry(t)
  BY <1>1, <1>2, <1>6, NextEntryStep
<1> QED  BY <1>1, <1>4, <1>5, <1>6

LEMMA ClaimStep ==
  ASSUME FeedbackIInv, NEW t \in Thread, Claim(t)
  PROVE  FeedbackIInv'
<1>1. pc[t] = "claim" /\ UNCHANGED <<count, total, megamorphic, arg>>
  BY DEF Claim
<1>2. CASE /\ callee[i[t]] = Null
           /\ callee' = [callee EXCEPT ![i[t]] = arg[t]]
           /\ pc' = [pc EXCEPT ![t] = "count"]
           /\ UNCHANGED i
  <2> USE NullAssumption, SizeAssumption
  <2>1. arg[t] \in Callee /\ i[t] \in Entries
    BY <1>1 DEF FeedbackIInv, FeedbackTypeOK
  <2>2. FeedbackTypeOK'
    BY <1>1, <1>2, <2>1 DEF FeedbackIInv, FeedbackTypeOK, Entries
  <2>3. ~megamorphic /\ \A u \in Thread : pc[u] # "full"
    BY <1>2, <2>1 DEF FeedbackIInv, FeedbackTypeOK, MegamorphicIsMeant
  <2>4. MegamorphicIsMeant'
    BY <1>1, <1>2, <2>3 DEF MegamorphicIsMeant, FeedbackIInv, FeedbackTypeOK
  <2>5. FilledFromFront'
    BY <1>1, <1>2, <2>1
    DEF FeedbackIInv, FeedbackTypeOK, FilledFromFront, SearchSound, Entries
  <2>6. \A e \in Entries : e # i[t] => callee[e] # arg[t]
    BY <1>1, <1>2, <2>1
    DEF FeedbackIInv, FeedbackTypeOK, FilledFromFront, SearchSound, Entries
  <2>7. OneEntryPerCallee'
    BY <1>2, <2>1, <2>6 DEF FeedbackIInv, FeedbackTypeOK, OneEntryPerCallee
  <2>8. \A u \in Thread : pc[u] \in {"load", "claim"} => i[u] <= i[t]
    BY <1>2, <2>1 DEF FeedbackIInv, FeedbackTypeOK, SearchSound, Entries
  <2>9. SearchSound'
    BY <1>1, <1>2, <2>1, <2>8
    DEF FeedbackIInv, FeedbackTypeOK, SearchSound, Entries
  <2> QED  BY <2>2, <2>4, <2>5, <2>7, <2>9 DEF FeedbackIInv
<1>3. CASE /\ callee[i[t]] = arg[t]
           /\ pc' = [pc EXCEPT ![t] = "count"]
           /\ UNCHANGED <<callee, i>>
  BY <1>1, <1>3, NullAssumption, SizeAssumption
  DEF FeedbackIInv, FeedbackTypeOK, SearchSound, OneEntryPerCallee,
      FilledFromFront, MegamorphicIsMeant, Entries
<1>4. CASE /\ callee[i[t]] \notin {arg[t], Null}
           /\ NextEntry(t)
           /\ UNCHANGED callee
  BY <1>1, <1>4, NextEntryStep
<1> QED  BY <1>2, <1>3, <1>4 DEF Claim

LEMMA CountStep ==
  ASSUME FeedbackIInv, NEW t \in Thread, Count(t)
  PROVE  FeedbackIInv'
  BY NullAssumption, SizeAssumption
  DEF FeedbackIInv, FeedbackTypeOK, SearchSound, OneEntryPerCallee,
      FilledFromFront, MegamorphicIsMeant, Entries, Count

LEMMA FullStep ==
  ASSUME FeedbackIInv, NEW t \in Thread, Full(t)
  PROVE  FeedbackIInv'
  BY NullAssumption, SizeAssumption
  DEF FeedbackIInv, FeedbackTypeOK, SearchSound, OneEntryPerCallee,
      FilledFromFront, MegamorphicIsMeant, Entries, Full

LEMMA FeedbackStuttering ==
  ASSUME FeedbackIInv, UNCHANGED feedbackVars
  PROVE  FeedbackIInv'
  BY DEF FeedbackIInv, FeedbackTypeOK, SearchSound, OneEntryPerCallee,
         FilledFromFront, MegamorphicIsMeant, feedbackVars

\* The parts of the inductive invariant, of which the theorems below say what
\* each is for.
LEMMA ProfileSound ==
  FeedbackSpec => [](FeedbackTypeOK /\ SearchSound /\ OneEntryPerCallee
                     /\ FilledFromFront /\ MegamorphicIsMeant)
<1>1. FeedbackIInv /\ [FeedbackNext]_feedbackVars => FeedbackIInv'
  BY RecordStep, LoadStep, ClaimStep, CountStep, FullStep, FeedbackStuttering
  DEF FeedbackNext, Access
<1>2. FeedbackIInv => FeedbackTypeOK /\ SearchSound /\ OneEntryPerCallee
                      /\ FilledFromFront /\ MegamorphicIsMeant
  BY DEF FeedbackIInv
<1> QED  BY FeedbackInitial, <1>1, <1>2, PTL DEF FeedbackSpec

\* The types of the profile.
THEOREM ProfileTypes == FeedbackSpec => []FeedbackTypeOK
  BY ProfileSound, PTL

\* No callee ever has two entries: its count is in one place.
THEOREM NoSecondEntry == FeedbackSpec => []OneEntryPerCallee
  BY ProfileSound, PTL

\* The entries fill from the front: a search may stop at the first null.
THEOREM NoGaps == FeedbackSpec => []FilledFromFront
  BY ProfileSound, PTL

\* Each thread's search is sound whatever the other threads claim meanwhile.
THEOREM SearchesAreSound == FeedbackSpec => []SearchSound
  BY ProfileSound, PTL

\* A site is called megamorphic only when every entry is another callee's.
THEOREM MegamorphicOnlyWhenFull == FeedbackSpec => []MegamorphicIsMeant
  BY ProfileSound, PTL

\* An entry keeps its callee once a thread has claimed it.
THEOREM EntriesKeepTheirCallee ==
  FeedbackSpec => ClaimsAreFinal
<1>1. FeedbackTypeOK /\ [FeedbackNext]_feedbackVars =>
        [\A e \in Entries : callee[e] # Null => callee'[e] = callee[e]]_feedbackVars
  <2> SUFFICES ASSUME FeedbackTypeOK, FeedbackNext,
                      NEW e \in Entries, callee[e] # Null
               PROVE  callee'[e] = callee[e]
    OBVIOUS
  <2>1. PICK t \in Thread : (\E c \in Callee : record(t, c)) \/ Access(t)
    BY DEF FeedbackNext
  <2> QED  BY <2>1 DEF record, Access, Load, Claim, Count, Full, FeedbackTypeOK
<1>2. FeedbackSpec => []FeedbackTypeOK
  BY ProfileSound, PTL
<1> QED  BY <1>1, <1>2, PTL DEF FeedbackSpec, ClaimsAreFinal

-----------------------------------------------------------------------------
(***************************************************************************)
(* The sum of the counts                                                   *)
(***************************************************************************)

Sum(f) == FoldFunction(+, 0, f)

\* FoldFunction adds the counts one entry at a time, in an order of its own.
Pick(s) == CHOOSE e \in s : TRUE

\* The sum over s, out of the sum g over one entry fewer.
SumStep(f, g, s) == IF s = {} THEN 0 ELSE f[Pick(s)] + g[s \ {Pick(s)}]

Sums(f, g) == g = [s \in SUBSET DOMAIN f |-> SumStep(f, g, s)]

SumOver(f) == CHOOSE g : Sums(f, g)

LEMMA FoldIsSum ==
  ASSUME NEW f
  PROVE  Sum(f) = SumOver(f)[DOMAIN f]
  BY DEF Sum, FoldFunction, FoldFunctionOnSet, MapThenFoldSet, SumOver, Sums, SumStep, Pick

LEMMA Picked ==
  ASSUME NEW S, IsFiniteSet(S), NEW s \in SUBSET S, s # {}
  PROVE  /\ Pick(s) \in s /\ s \ {Pick(s)} \in SUBSET S
         /\ IsFiniteSet(s) /\ Cardinality(s) \in Nat \ {0}
         /\ Cardinality(s \ {Pick(s)}) = Cardinality(s) - 1
<1>1. Pick(s) \in s
  BY DEF Pick
<1>2. IsFiniteSet(s)
  BY FS_Subset
<1>3. Cardinality(s) \in Nat /\ Cardinality(s) # 0
  BY <1>2, FS_CardinalityType, FS_EmptySet
<1>4. Cardinality(s \ {Pick(s)}) = Cardinality(s) - 1
  BY <1>1, <1>2, FS_RemoveElement
<1> QED  BY <1>1, <1>2, <1>3, <1>4

\* Every finite function has a sum: no number of entries is the least without.
LEMMA SumExists ==
  ASSUME NEW S, IsFiniteSet(S), NEW f \in [S -> Nat]
  PROVE  \E g : Sums(f, g)
<1> DEFINE Upto(m) == {s \in SUBSET S : Cardinality(s) <= m}
           Summed(m) == \E g \in [Upto(m) -> Nat] : \A s \in Upto(m) : g[s] = SumStep(f, g, s)
           T == {m \in Nat : ~Summed(m)}
<1>0. \A s \in SUBSET S : Cardinality(s) \in Nat /\ (Cardinality(s) = 0 <=> s = {})
  BY FS_Subset, FS_CardinalityType, FS_EmptySet
<1>1. T = {}
  <2> SUFFICES ASSUME T # {} PROVE FALSE
    OBVIOUS
  <2>1. PICK m \in T : \A k \in T : m <= k
    <3>1. T \in SUBSET Nat
      OBVIOUS
    <3> HIDE DEF T
    <3> QED  BY <3>1, LeastNumber
  <2>2. m \in Nat /\ ~Summed(m) /\ \A k \in Nat : ~Summed(k) => m <= k
    <3> HIDE DEF Summed
    <3> QED  BY <2>1
  <2>3. Summed(0)
    <3> DEFINE g == [s \in Upto(0) |-> 0]
    <3>1. \A s \in Upto(0) : s = {}
      BY <1>0
    <3>2. g \in [Upto(0) -> Nat] /\ \A s \in Upto(0) : g[s] = SumStep(f, g, s)
      BY <3>1 DEF SumStep
    <3> QED  BY <3>2
  <2>4. m - 1 \in Nat /\ ~(m <= m - 1)
    <3> HIDE DEF Summed
    <3>1. m # 0
      BY <2>2, <2>3
    <3> QED  BY <2>2, <3>1
  <2>5. Summed(m - 1)
    <3> HIDE DEF Summed
    <3> QED  BY <2>2, <2>4
  <2>6. PICK g \in [Upto(m - 1) -> Nat] : \A s \in Upto(m - 1) : g[s] = SumStep(f, g, s)
    BY <2>5
  <2> DEFINE h == [s \in Upto(m) |-> IF s \in Upto(m - 1) THEN g[s] ELSE SumStep(f, g, s)]
  <2>7. ASSUME NEW s \in Upto(m), s # {}
        PROVE  Pick(s) \in S /\ s \ {Pick(s)} \in Upto(m - 1)
    BY <2>2, <2>7, Picked
  <2>8. \A s \in Upto(m - 1) : s \in Upto(m) /\ h[s] = g[s]
    BY <1>0, <2>2
  <2>9. \A s \in Upto(m) : SumStep(f, h, s) = SumStep(f, g, s)
    BY <2>7, <2>8 DEF SumStep
  <2>10. \A s \in Upto(m) : SumStep(f, g, s) \in Nat
    <3> SUFFICES ASSUME NEW s \in Upto(m) PROVE SumStep(f, g, s) \in Nat
      OBVIOUS
    <3>1. CASE s = {}
      BY <3>1 DEF SumStep
    <3>2. CASE s # {}
      <4>1. f[Pick(s)] \in Nat /\ g[s \ {Pick(s)}] \in Nat
        BY <2>6, <2>7, <3>2
      <4> QED  BY <3>2, <4>1 DEF SumStep
    <3> QED  BY <3>1, <3>2
  <2>11. h \in [Upto(m) -> Nat]
    BY <2>6, <2>10
  <2>12. \A s \in Upto(m) : h[s] = SumStep(f, h, s)
    BY <2>6, <2>9
  <2> HIDE DEF h
  <2>13. Summed(m)
    BY <2>11, <2>12
  <2> QED  BY <2>2, <2>13
<1>2. Cardinality(S) \in Nat
  BY FS_CardinalityType
<1>3. Summed(Cardinality(S))
  <2> HIDE DEF Summed
  <2> QED  BY <1>1, <1>2
<1>4. Upto(Cardinality(S)) = SUBSET S
  <2>1. \A s \in SUBSET S : Cardinality(s) <= Cardinality(S)
    BY FS_Subset
  <2> QED  BY <2>1
<1>5. PICK g \in [SUBSET S -> Nat] : \A s \in SUBSET S : g[s] = SumStep(f, g, s)
  BY <1>3, <1>4
<1>6. g = [s \in SUBSET DOMAIN f |-> SumStep(f, g, s)]
  BY <1>5
<1> QED  BY <1>6 DEF Sums

LEMMA SumSteps ==
  ASSUME NEW S, IsFiniteSet(S), NEW f \in [S -> Nat]
  PROVE  \A s \in SUBSET S : SumOver(f)[s] = SumStep(f, SumOver(f), s)
<1> DEFINE g == SumOver(f)
<1>1. g = [s \in SUBSET DOMAIN f |-> SumStep(f, g, s)]
  BY SumExists DEF SumOver, Sums
<1> HIDE DEF g
<1> QED  BY <1>1 DEF g

\* What holds of the empty set, and of each set it holds of one element less
\* of, holds of every finite set.
LEMMA NoSmallestFailure ==
  ASSUME NEW S, IsFiniteSet(S), NEW Good \in SUBSET SUBSET S, {} \in Good,
         \A s \in SUBSET S : s # {} /\ s \ {Pick(s)} \in Good => s \in Good
  PROVE  Good = SUBSET S
<1> DEFINE T == {Cardinality(s) : s \in (SUBSET S) \ Good}
<1>0. \A s \in SUBSET S : Cardinality(s) \in Nat
  BY FS_Subset, FS_CardinalityType
<1> SUFFICES ASSUME T # {} PROVE FALSE
  OBVIOUS
<1>1. PICK m \in T : \A k \in T : m <= k
  <2>1. T \in SUBSET Nat
    BY <1>0
  <2> HIDE DEF T
  <2> QED  BY <2>1, LeastNumber
<1>2. PICK s \in (SUBSET S) \ Good : m = Cardinality(s)
  OBVIOUS
<1>3. s # {} /\ s \ {Pick(s)} \notin Good /\ s \ {Pick(s)} \in SUBSET S
  OBVIOUS
<1>4. Cardinality(s \ {Pick(s)}) \in T
  BY <1>3
<1>5. Cardinality(s \ {Pick(s)}) = Cardinality(s) - 1 /\ Cardinality(s) \in Nat
  BY <1>2, <1>3, Picked
<1> HIDE DEF T
<1> QED  BY <1>1, <1>2, <1>4, <1>5

\* One more call of entry e is one more call.
LEMMA SumCounts ==
  ASSUME NEW S, IsFiniteSet(S), NEW f \in [S -> Nat], NEW e \in S,
         NEW h, h = [f EXCEPT ![e] = f[e] + 1]
  PROVE  /\ Sum(f) \in Nat
         /\ Sum(h) = Sum(f) + 1
<1> DEFINE F == SumOver(f)  H == SumOver(h)
           One(s) == IF e \in s THEN 1 ELSE 0
           Good == {s \in SUBSET S : F[s] \in Nat /\ H[s] = F[s] + One(s)}
<1>1. /\ h \in [S -> Nat] /\ DOMAIN f = S /\ DOMAIN h = S
      /\ \A x \in S : f[x] \in Nat /\ h[x] = f[x] + (IF x = e THEN 1 ELSE 0)
  OBVIOUS
<1>2. \A s \in SUBSET S : F[s] = SumStep(f, F, s) /\ H[s] = SumStep(h, H, s)
  <2>1. \A s \in SUBSET S : F[s] = SumStep(f, F, s)
    BY SumSteps
  <2>2. \A s \in SUBSET S : H[s] = SumStep(h, H, s)
    BY <1>1, SumSteps
  <2> QED  BY <2>1, <2>2
<1> HIDE DEF F, H
<1>3. {} \in Good
  <2>1. F[{}] = 0 /\ H[{}] = 0
    BY <1>2 DEF SumStep
  <2> QED  BY <2>1
<1>4. ASSUME NEW s \in SUBSET S, s # {}, s \ {Pick(s)} \in Good
      PROVE  s \in Good
  <2> DEFINE p == Pick(s)  r == s \ {Pick(s)}
  <2>1. p \in s /\ p \in S /\ F[r] \in Nat /\ H[r] = F[r] + One(r)
    BY <1>4, Picked
  <2>2. F[s] = f[p] + F[r] /\ H[s] = h[p] + H[r]
    BY <1>2, <1>4 DEF SumStep
  <2>3. CASE p = e
    <3>1. One(s) = 1 /\ One(r) = 0
      BY <2>1, <2>3
    <3> HIDE DEF One, p, r
    <3> QED  BY <1>1, <2>1, <2>2, <2>3, <3>1
  <2>4. CASE p # e
    <3>1. One(s) = One(r) /\ One(r) \in Nat
      BY <2>1, <2>4
    <3> HIDE DEF One, p, r
    <3> QED  BY <1>1, <2>1, <2>2, <2>4, <3>1
  <2> QED  BY <2>3, <2>4
<1>5. Good = SUBSET S
  <2>1. Good \in SUBSET SUBSET S
    OBVIOUS
  <2> HIDE DEF Good
  <2> QED  BY <1>3, <1>4, <2>1, NoSmallestFailure
<1>6. F[S] \in Nat /\ H[S] = F[S] + 1
  BY <1>5
<1> QED  BY <1>1, <1>6, FoldIsSum DEF F, H

LEMMA SumOfZeros ==
  ASSUME NEW S, IsFiniteSet(S), NEW f, f = [e \in S |-> 0]
  PROVE  Sum(f) = 0
<1> DEFINE F == SumOver(f)
           Good == {s \in SUBSET S : F[s] = 0}
<1>1. f \in [S -> Nat] /\ DOMAIN f = S /\ \A e \in S : f[e] = 0
  OBVIOUS
<1>2. \A s \in SUBSET S : F[s] = SumStep(f, F, s)
  BY <1>1, SumSteps
<1> HIDE DEF F
<1>3. {} \in Good
  <2>1. F[{}] = 0
    BY <1>2 DEF SumStep
  <2> QED  BY <2>1
<1>4. ASSUME NEW s \in SUBSET S, s # {}, s \ {Pick(s)} \in Good
      PROVE  s \in Good
  <2>1. F[s] = f[Pick(s)] + F[s \ {Pick(s)}] /\ Pick(s) \in S
    BY <1>2, <1>4, Picked DEF SumStep
  <2>2. f[Pick(s)] = 0 /\ F[s \ {Pick(s)}] = 0
    BY <1>1, <1>4, <2>1
  <2> QED  BY <2>1, <2>2
<1>5. Good = SUBSET S
  <2>1. Good \in SUBSET SUBSET S
    OBVIOUS
  <2> HIDE DEF Good
  <2> QED  BY <1>3, <1>4, <2>1, NoSmallestFailure
<1>6. F[S] = 0
  BY <1>5
<1> QED  BY <1>1, <1>6, FoldIsSum DEF F

-----------------------------------------------------------------------------
(***************************************************************************)
(* Every call is counted once                                              *)
(***************************************************************************)

\* The calls in the entries' counts, and those on their way there.
Counted   == Sum(count)
Accounted == Counted + Cardinality(Recording)

LEMMA AccountTypes ==
  ASSUME FeedbackTypeOK
  PROVE  /\ IsFiniteSet(Entries) /\ count \in [Entries -> Nat] /\ Entries # {}
         /\ IsFiniteSet(Recording) /\ Cardinality(Recording) \in Nat
         /\ Counted \in Nat /\ total \in Nat /\ megamorphic \in BOOLEAN
<1>1. IsFiniteSet(Entries) /\ 1 \in Entries
  BY SizeAssumption, FS_Interval DEF Entries
<1>2. Recording \in SUBSET Thread
  BY DEF Recording
<1>3. IsFiniteSet(Recording) /\ Cardinality(Recording) \in Nat
  BY <1>2, ThreadAssumption, FS_Subset, FS_CardinalityType
<1>4. Counted \in Nat
  <2> DEFINE h == [count EXCEPT ![1] = count[1] + 1]
  <2>1. count \in [Entries -> Nat]
    BY DEF FeedbackTypeOK
  <2> QED  BY <1>1, <2>1, SumCounts DEF Counted
<1> QED  BY <1>1, <1>3, <1>4 DEF FeedbackTypeOK

LEMMA NoCallLostIs == NoCallLost <=> IF megamorphic THEN total > Accounted ELSE total = Accounted
  BY DEF NoCallLost, Accounted, Counted, Sum

LEMMA NothingLostYet == FeedbackInit => NoCallLost
<1> SUFFICES ASSUME FeedbackInit PROVE NoCallLost
  OBVIOUS
<1>1. Counted = 0
  <2>1. IsFiniteSet(Entries)
    BY SizeAssumption, FS_Interval DEF Entries
  <2> QED  BY <2>1, SumOfZeros DEF FeedbackInit, Counted
<1>2. Cardinality(Recording) = 0
  <2>1. Recording = {}
    BY DEF FeedbackInit, Recording
  <2> QED  BY <2>1, FS_EmptySet
<1> QED  BY <1>1, <1>2, NoCallLostIs DEF FeedbackInit, Accounted

\* A thread that starts or ends recording.
LEMMA OneMoreRecording ==
  ASSUME FeedbackTypeOK, NEW t \in Thread, pc[t] = "idle",
         NEW p, p # "idle", pc' = [pc EXCEPT ![t] = p]
  PROVE  Cardinality(Recording)' = Cardinality(Recording) + 1
<1>1. Recording' = Recording \cup {t} /\ t \notin Recording
  BY DEF Recording, FeedbackTypeOK
<1>2. IsFiniteSet(Recording)
  BY AccountTypes
<1> QED  BY <1>1, <1>2, FS_AddElement

LEMMA OneLessRecording ==
  ASSUME FeedbackTypeOK, NEW t \in Thread, pc[t] # "idle",
         pc' = [pc EXCEPT ![t] = "idle"]
  PROVE  Cardinality(Recording)' = Cardinality(Recording) - 1
<1>1. Recording' = Recording \ {t} /\ t \in Recording
  BY DEF Recording, FeedbackTypeOK
<1>2. IsFiniteSet(Recording)
  BY AccountTypes
<1> QED  BY <1>1, <1>2, FS_RemoveElement

LEMMA AccountStep ==
  ASSUME FeedbackTypeOK, NoCallLost, FeedbackNext
  PROVE  NoCallLost'
<1>1. NoCallLost' <=> IF megamorphic' THEN total' > Accounted' ELSE total' = Accounted'
  BY DEF NoCallLost, Accounted, Counted, Sum
<1>2. /\ IF megamorphic THEN total > Accounted ELSE total = Accounted
      /\ Cardinality(Recording) \in Nat /\ Counted \in Nat /\ total \in Nat
  BY NoCallLostIs, AccountTypes
<1>3. PICK t \in Thread : (\E c \in Callee : record(t, c)) \/ Access(t)
  BY DEF FeedbackNext
<1>4. CASE \E c \in Callee : record(t, c)
  <2>1. /\ pc[t] = "idle" /\ pc' = [pc EXCEPT ![t] = "load"]
        /\ total' = total + 1 /\ UNCHANGED <<count, megamorphic>>
    BY <1>4 DEF record
  <2>2. Cardinality(Recording)' = Cardinality(Recording) + 1
    BY <2>1, OneMoreRecording
  <2>3. Counted' = Counted
    BY <2>1 DEF Counted
  <2> QED  BY <1>1, <1>2, <2>1, <2>2, <2>3 DEF Accounted
<1>5. CASE Load(t) \/ Claim(t)
  <2>1. /\ pc[t] # "idle" /\ UNCHANGED <<count, total, megamorphic>>
        /\ \E p \in {"load", "claim", "count", "full"} : pc' = [pc EXCEPT ![t] = p]
    BY <1>5 DEF Load, Claim, NextEntry
  <2>2. Recording' = Recording
    BY <2>1 DEF Recording, FeedbackTypeOK
  <2> QED  BY <1>1, <1>2, <2>1, <2>2 DEF Accounted, Counted
<1>6. CASE Count(t)
  <2>1. /\ pc[t] = "count" /\ pc' = [pc EXCEPT ![t] = "idle"]
        /\ count' = [count EXCEPT ![i[t]] = count[i[t]] + 1]
        /\ UNCHANGED <<total, megamorphic>>
    BY <1>6 DEF Count
  <2>2. Cardinality(Recording)' = Cardinality(Recording) - 1
    BY <2>1, OneLessRecording
  <2>3. Counted' = Counted + 1
    <3>1. i[t] \in Entries
      BY <2>1 DEF FeedbackTypeOK
    <3> QED  BY <2>1, <3>1, AccountTypes, SumCounts DEF Counted
  <2> QED  BY <1>1, <1>2, <2>1, <2>2, <2>3 DEF Accounted
<1>7. CASE Full(t)
  <2>1. /\ pc[t] = "full" /\ pc' = [pc EXCEPT ![t] = "idle"]
        /\ megamorphic' = TRUE /\ UNCHANGED <<total, count>>
    BY <1>7 DEF Full
  <2>2. Cardinality(Recording)' = Cardinality(Recording) - 1
    BY <2>1, OneLessRecording
  <2>3. Counted' = Counted
    BY <2>1 DEF Counted
  <2> QED  BY <1>1, <1>2, <2>1, <2>2, <2>3 DEF Accounted
<1> QED  BY <1>3, <1>4, <1>5, <1>6, <1>7 DEF Access

\* No call is counted twice, and until the site is megamorphic none is lost,
\* however the threads' searches and claims interleave.
THEOREM CallsAreCountedOnce == FeedbackSpec => []NoCallLost
<1>1. FeedbackTypeOK /\ NoCallLost /\ [FeedbackNext]_feedbackVars => NoCallLost'
  <2>1. ASSUME NoCallLost, UNCHANGED feedbackVars PROVE NoCallLost'
    <3>1. /\ NoCallLost <=> IF megamorphic THEN total > Accounted ELSE total = Accounted
          /\ NoCallLost' <=> IF megamorphic' THEN total' > Accounted' ELSE total' = Accounted'
      BY DEF NoCallLost, Accounted, Counted, Sum
    <3>2. Accounted' = Accounted
      BY <2>1 DEF Accounted, Counted, Recording, feedbackVars
    <3> QED  BY <2>1, <3>1, <3>2 DEF feedbackVars
  <2> QED  BY <2>1, AccountStep
<1>2. FeedbackSpec => []FeedbackTypeOK
  BY ProfileSound, PTL
<1> QED  BY NothingLostYet, <1>1, <1>2, PTL DEF FeedbackSpec

-----------------------------------------------------------------------------
(***************************************************************************)
(* Quickening: the flags of an instruction say what its history says.      *)
(***************************************************************************)
-----------------------------------------------------------------------------
(***************************************************************************)
(* Tags and numbers                                                        *)
(***************************************************************************)

LEMMA TagRange ==
  ASSUME NEW x \in Operands
  PROVE  TypeTag[x.tag] \in 0..20
<1>1. x.tag \in DOMAIN TypeTag
  BY QuickeningAssumption
<1> QED  BY <1>1 DEF TypeTag

LEMMA NumberTags == TypeTag["real"] = 3 /\ TypeTag["integer"] = 2
  BY DEF TypeTag

\* An integer is as wide as Wrapped takes it for.
LEMMA IntegerRange ==
  /\ MinInt \in Int /\ MaxInt \in Int
  /\ 2^IntBits = MaxInt - MinInt + 1 /\ MinInt < MaxInt
<1>1. IntBits \in {2, 3, 4, 5, 6, 7, 8}
  BY QuickeningAssumption
<1>2. 2^1 = 2 /\ 2^2 = 4 /\ 2^3 = 8 /\ 2^4 = 16 /\ 2^5 = 32 /\ 2^6 = 64 /\ 2^7 = 128 /\ 2^8 = 256
  OBVIOUS
<1> DEFINE half == 2^(IntBits - 1)
<1>3. half \in Nat \ {0} /\ 2^IntBits = 2 * half
  <2>1. CASE IntBits = 2
    BY <1>2, <2>1
  <2>2. CASE IntBits = 3
    BY <1>2, <2>2
  <2>3. CASE IntBits = 4
    BY <1>2, <2>3
  <2>4. CASE IntBits = 5
    BY <1>2, <2>4
  <2>5. CASE IntBits = 6
    BY <1>2, <2>5
  <2>6. CASE IntBits = 7
    BY <1>2, <2>6
  <2>7. CASE IntBits = 8
    BY <1>2, <2>7
  <2> QED  BY <1>1, <2>1, <2>2, <2>3, <2>4, <2>5, <2>6, <2>7
<1>4. MinInt = -half /\ MaxInt = half - 1
  BY DEF MinInt, MaxInt
<1> HIDE DEF half
<1> QED  BY <1>3, <1>4

LEMMA WrappedInRange ==
  ASSUME NEW n \in MinInt..MaxInt
  PROVE  Wrapped(n) = n
<1>1. n - MinInt \in 0..(2^IntBits - 1) /\ 2^IntBits \in Nat \ {0}
  BY IntegerRange
<1>2. (n - MinInt) % 2^IntBits = n - MinInt
  BY <1>1
<1> QED  BY <1>2, IntegerRange DEF Wrapped

-----------------------------------------------------------------------------
(***************************************************************************)
(* The flags                                                               *)
(***************************************************************************)

\* The counter counts up to its limit, the tags are those found first, the
\* consistent bit stands for no others since, the quickened bit for a variant.
FlagsTellHistory ==
  LET f == in.flags
  IN  /\ f.counter = 0 <=> first = <<>>
      /\ runs = IF f.counter < kQuickenThreshold THEN f.counter ELSE kQuickenThreshold
      /\ first = <<>> => ~mixed
      /\ first # <<>> => /\ f.ra_type = first[1] % 16
                         /\ f.rb_type = first[2] % 16
                         /\ f.consistent = ~mixed
      /\ f.quickened <=> in.variant # "none"

\* A variant is the one for the tags, and is made as soon as it may be.
VariantTellsFlags ==
  LET f == in.flags
  IN  /\ in.variant # "none" => Ready(f) /\ new_op(in.op, f) = in.variant
      /\ in.variant = "none" /\ Ready(f) => new_op(in.op, f) = "none"

QuickeningIInv == QuickeningTypeOK /\ FlagsTellHistory /\ VariantTellsFlags

LEMMA QuickeningInitial == Init => QuickeningIInv
<1> SUFFICES ASSUME Init PROVE QuickeningIInv
  OBVIOUS
<1>1. in.flags = NoFlags /\ in.variant = "none" /\ in.op \in Ops
  BY DEF Init
<1>2. NoFlags \in Flags
  BY DEF NoFlags, Flags
<1>3. QuickeningTypeOK
  <2>1. in \in [op : Ops, variant : {"none", "real", "int"}, flags : Flags]
    BY <1>1, <1>2 DEF Init
  <2>2. first = <<>> /\ mixed \in BOOLEAN
    BY DEF Init
  <2>3. runs \in 0..kQuickenThreshold
    BY DEF Init, kQuickenThreshold
  <2> QED  BY <2>1, <2>2, <2>3 DEF QuickeningTypeOK
<1>4. FlagsTellHistory
  BY <1>1 DEF Init, FlagsTellHistory, NoFlags, kQuickenThreshold
<1>5. VariantTellsFlags
  BY <1>1 DEF VariantTellsFlags, NoFlags, Ready, kQuickenThreshold
<1> QED  BY <1>3, <1>4, <1>5 DEF QuickeningIInv

\* There are three outcomes of new_op, and only the tags matter to it.
LEMMA NewOpType ==
  ASSUME NEW op, NEW f
  PROVE  /\ new_op(op, f) \in {"none", "real", "int"}
         /\ new_op(op, f) = "int" => op \in {"ADD", "SUB", "MUL"}
  BY DEF new_op

LEMMA NewOpByTags ==
  ASSUME NEW op, NEW f, NEW g, f.ra_type = g.ra_type, f.rb_type = g.rb_type
  PROVE  new_op(op, f) = new_op(op, g)
  BY DEF new_op

\* What observing two tags makes of a generic instruction: the flags with both
\* counted in, and the variant for them if there are enough of them.
LEMMA ObserveResult ==
  ASSUME QuickeningIInv, in.variant = "none",
         NEW ta \in 0..20, NEW tb \in 0..20, NEW out, out = quicken_observe(in, ta, tb)
  PROVE  LET f     == in.flags
             fresh == f.counter = 0
             g     == out.flags
         IN  /\ out \in [op : {in.op}, variant : {"none", "real", "int"}, flags : Flags]
             /\ g.counter = next_counter(f.counter)
             /\ g.ra_type = IF fresh THEN ta % 16 ELSE f.ra_type
             /\ g.rb_type = IF fresh THEN tb % 16 ELSE f.rb_type
             /\ g.consistent = (fresh \/ (f.consistent /\ f.ra_type = ta % 16 /\ f.rb_type = tb % 16))
             /\ out.variant = IF Ready(g) THEN new_op(in.op, g) ELSE "none"
             /\ g.quickened <=> out.variant # "none"
<1> DEFINE f     == in.flags
           fresh == f.counter = 0
           now   == [counter    |-> next_counter(f.counter),
                     ra_type    |-> IF fresh THEN nibble(ta) ELSE f.ra_type,
                     rb_type    |-> IF fresh THEN nibble(tb) ELSE f.rb_type,
                     consistent |-> agree(f, ta, tb),
                     quickened  |-> FALSE]
           counted == [in EXCEPT !.flags = now]
<1>1. /\ in \in [op : Ops, variant : {"none", "real", "int"}, flags : Flags]
      /\ f \in Flags /\ ~f.quickened
  BY DEF QuickeningIInv, QuickeningTypeOK, FlagsTellHistory
<1>2. now \in Flags
  <2>1. next_counter(f.counter) \in 0..15
    BY <1>1 DEF next_counter, Flags
  <2>2. nibble(ta) \in 0..15 /\ nibble(tb) \in 0..15
    BY DEF nibble
  <2>3. agree(f, ta, tb) \in BOOLEAN
    BY <1>1 DEF agree, Flags
  <2> QED  BY <1>1, <2>1, <2>2, <2>3 DEF Flags
<1>3. out = IF Ready(now) THEN Rewritten(counted) ELSE counted
  BY <1>1 DEF quicken_observe
<1>4. /\ now.counter = next_counter(f.counter)
      /\ now.ra_type = IF fresh THEN ta % 16 ELSE f.ra_type
      /\ now.rb_type = IF fresh THEN tb % 16 ELSE f.rb_type
      /\ now.consistent = (fresh \/ (f.consistent /\ f.ra_type = ta % 16 /\ f.rb_type = tb % 16))
      /\ now.quickened = FALSE
  BY DEF nibble, agree
<1> HIDE DEF now
<1>5. counted = [op |-> in.op, variant |-> "none", flags |-> now]
  BY <1>1
<1>6. CASE Ready(now) /\ new_op(in.op, now) # "none"
  <2> DEFINE g == [now EXCEPT !.quickened = TRUE]
  <2>1. out = [op |-> in.op, variant |-> new_op(in.op, now), flags |-> g]
    BY <1>3, <1>5, <1>6 DEF Rewritten
  <2>2. /\ g \in Flags /\ g.quickened = TRUE
        /\ g.counter = now.counter /\ g.consistent = now.consistent
        /\ g.ra_type = now.ra_type /\ g.rb_type = now.rb_type
    BY <1>2 DEF Flags
  <2>3. Ready(g) /\ new_op(in.op, g) = new_op(in.op, now)
    BY <1>6, <2>2, NewOpByTags DEF Ready
  <2> HIDE DEF g
  <2> QED  BY <1>4, <1>6, <2>1, <2>2, <2>3, NewOpType
<1>7. CASE ~Ready(now) \/ new_op(in.op, now) = "none"
  <2>1. out = [op |-> in.op, variant |-> "none", flags |-> now]
    BY <1>3, <1>5, <1>7 DEF Rewritten
  <2> QED  BY <1>2, <1>4, <1>7, <2>1
<1> QED  BY <1>6, <1>7

LEMMA GenericStep ==
  ASSUME QuickeningIInv, op_generic
  PROVE  QuickeningIInv'
<1>1. PICK x \in Operands, y \in Operands :
        /\ in' = quicken_observe(in, TypeTag[x.tag], TypeTag[y.tag])
        /\ first' = IF first = <<>> THEN Tags(x, y) ELSE first
        /\ mixed' = (mixed \/ Nibbles(Tags(x, y)) # Nibbles(first'))
  BY DEF op_generic
<1>2. in.variant = "none" /\ runs' = IF runs < kQuickenThreshold THEN runs + 1 ELSE runs
  BY DEF op_generic
<1> DEFINE ta == TypeTag[x.tag]
           tb == TypeTag[y.tag]
           f  == in.flags
           g  == in'.flags
           fresh == f.counter = 0
<1>3. ta \in 0..20 /\ tb \in 0..20
  BY TagRange
<1>4. /\ in' \in [op : {in.op}, variant : {"none", "real", "int"}, flags : Flags]
      /\ g.counter = next_counter(f.counter)
      /\ g.ra_type = IF fresh THEN ta % 16 ELSE f.ra_type
      /\ g.rb_type = IF fresh THEN tb % 16 ELSE f.rb_type
      /\ g.consistent = (fresh \/ (f.consistent /\ f.ra_type = ta % 16 /\ f.rb_type = tb % 16))
      /\ in'.variant = IF Ready(g) THEN new_op(in.op, g) ELSE "none"
      /\ g.quickened <=> in'.variant # "none"
  <2> DEFINE out == in'
  <2>1. out = quicken_observe(in, ta, tb)
    BY <1>1
  <2> HIDE DEF ta, tb, out
  <2>2. QED  BY <1>2, <1>3, <2>1, ObserveResult DEF out
<1>5. Tags(x, y) = <<ta, tb>>
  BY DEF Tags
<1> HIDE DEF ta, tb
<1>6. /\ f.counter \in 0..15 /\ in.op \in Ops
      /\ first = <<>> \/ first \in (0..255) \X (0..255)
      /\ mixed \in BOOLEAN /\ runs \in 0..8
      /\ fresh <=> first = <<>>
      /\ runs = IF f.counter < 8 THEN f.counter ELSE 8
      /\ first = <<>> => ~mixed
      /\ first # <<>> => /\ f.ra_type = first[1] % 16
                         /\ f.rb_type = first[2] % 16
                         /\ f.consistent = ~mixed
  BY DEF QuickeningIInv, QuickeningTypeOK, FlagsTellHistory, Flags, kQuickenThreshold
<1>7. /\ first' \in (0..255) \X (0..255) /\ first' # <<>>
      /\ first' = IF fresh THEN <<ta, tb>> ELSE first
  <2>1. first' = IF fresh THEN <<ta, tb>> ELSE first
    BY <1>1, <1>5, <1>6
  <2>2. CASE fresh
    <3>1. first' = <<ta, tb>>
      BY <2>1, <2>2
    <3>2. ta \in 0..255 /\ tb \in 0..255
      BY <1>3
    <3>3. Len(<<ta, tb>>) = 2 /\ Len(<<>>) = 0
      OBVIOUS
    <3>4. <<ta, tb>> \in (0..255) \X (0..255)
      BY <3>2, Zenon
    <3>5. first' # <<>>
      BY <3>1, <3>3
    <3> QED  BY <2>1, <3>1, <3>4, <3>5, Zenon
  <2>3. CASE ~fresh
    <3>1. first' = first /\ first # <<>> /\ first \in (0..255) \X (0..255)
      BY <1>6, <2>1, <2>3, Zenon
    <3> QED  BY <2>1, <3>1, Zenon
  <2> QED  BY <2>2, <2>3, Zenon
<1>8. /\ mixed' = (mixed \/ ~(ta % 16 = first'[1] % 16 /\ tb % 16 = first'[2] % 16))
      /\ mixed' \in BOOLEAN
  BY <1>1, <1>5, <1>6 DEF Nibbles
<1>9. g.counter = IF f.counter < 15 THEN f.counter + 1 ELSE 15
  BY <1>4 DEF next_counter
<1>10. QuickeningTypeOK'
  BY <1>2, <1>4, <1>6, <1>7, <1>8 DEF QuickeningTypeOK, kQuickenThreshold
<1>11. FlagsTellHistory'
  <2>1. g.counter # 0 /\ runs' = IF g.counter < 8 THEN g.counter ELSE 8
    BY <1>2, <1>6, <1>9 DEF kQuickenThreshold
  <2>2. g.ra_type = first'[1] % 16 /\ g.rb_type = first'[2] % 16
    BY <1>4, <1>6, <1>7
  <2>3. g.consistent = ~mixed'
    BY <1>4, <1>6, <1>7, <1>8
  <2> QED  BY <1>4, <1>7, <2>1, <2>2, <2>3 DEF FlagsTellHistory, kQuickenThreshold
<1>12. VariantTellsFlags'
  BY <1>4 DEF VariantTellsFlags
<1> QED  BY <1>10, <1>11, <1>12 DEF QuickeningIInv

\* A specialised handler leaves the instruction and its history alone.
LEMMA UnchangedStep ==
  ASSUME QuickeningIInv, UNCHANGED <<in, first, mixed, runs>>
  PROVE  QuickeningIInv'
  BY DEF QuickeningIInv, QuickeningTypeOK, FlagsTellHistory, VariantTellsFlags

LEMMA QuickeningStep == QuickeningIInv /\ [Execute]_vars => QuickeningIInv'
  BY GenericStep, UnchangedStep DEF Execute, op_REAL_REAL, op_INT_INT, vars

\* The type invariant: counter and tags stay inside their four bits.
THEOREM QuickeningTypes == Spec => []QuickeningTypeOK
<1>1. QuickeningIInv => QuickeningTypeOK
  BY DEF QuickeningIInv
<1> QED  BY QuickeningInitial, QuickeningStep, <1>1, PTL DEF Spec

\* However long an instruction runs and on whatever operands, it is
\* specialised if and only if eight executions in a row, its first, found one
\* pair of types that has a variant.
THEOREM SpecialisedByHistory == Spec => []SpecialisedExactly
<1>1. QuickeningIInv => SpecialisedExactly
  <2> SUFFICES ASSUME QuickeningIInv PROVE SpecialisedExactly
    OBVIOUS
  <2> DEFINE f == in.flags
             g == [NoFlags EXCEPT !.ra_type = first[1] % 16, !.rb_type = first[2] % 16]
  <2>1. /\ f.counter \in 0..15 /\ f.consistent \in BOOLEAN /\ mixed \in BOOLEAN
        /\ f.counter = 0 <=> first = <<>>
        /\ runs = IF f.counter < 8 THEN f.counter ELSE 8
        /\ first # <<>> => /\ f.ra_type = first[1] % 16
                           /\ f.rb_type = first[2] % 16
                           /\ f.consistent = ~mixed
    BY DEF QuickeningIInv, QuickeningTypeOK, FlagsTellHistory, Flags, kQuickenThreshold
  <2>2. g.ra_type = first[1] % 16 /\ g.rb_type = first[2] % 16
    BY DEF NoFlags
  <2> HIDE DEF g
  <2>3. first # <<>> => new_op(in.op, f) = new_op(in.op, g)
    BY <2>1, <2>2, NewOpByTags
  <2>4. Ready(f) <=> runs = 8 /\ ~mixed
    BY <2>1 DEF Ready, kQuickenThreshold
  <2>5. in.variant # "none" <=> Ready(f) /\ new_op(in.op, f) # "none"
    BY DEF QuickeningIInv, VariantTellsFlags
  <2>6. runs = 8 => first # <<>>
    BY <2>1
  <2> QED  BY <2>3, <2>4, <2>5, <2>6 DEF SpecialisedExactly, g, kQuickenThreshold
<1> QED  BY QuickeningInitial, QuickeningStep, <1>1, PTL DEF Spec

\* Whenever the batch pass runs, observing the operands has left it nothing.
THEOREM BatchPassIdle == Spec => []BatchIdle
<1>1. QuickeningIInv => BatchIdle
  BY DEF QuickeningIInv, QuickeningTypeOK, FlagsTellHistory, VariantTellsFlags,
         BatchIdle, quicken, Rewritten, Ready, Flags
<1> QED  BY QuickeningInitial, QuickeningStep, <1>1, PTL DEF Spec

-----------------------------------------------------------------------------
(***************************************************************************)
(* The results of the specialised handlers                                 *)
(***************************************************************************)

\* Two known doubles have one result, that of the generic handler.
LEMMA RealResult ==
  ASSUME NEW op \in Arithmetic \cup Comparison, NEW x, NEW y,
         Both(x, y, "real"), x.n # Garbled, y.n # Garbled
  PROVE  RealResults(op, x.n, y.n) = {Generic(op, x, y)}
<1>1. /\ x.tag = "real" /\ y.tag = "real"
      /\ ToReal(x, 0) = x.n /\ ToReal(y, 0) = y.n
      /\ ToReal(x, NaN) = x.n /\ ToReal(y, NaN) = y.n
  BY DEF Both, IsTag, ToReal
<1>2. CASE op = "ADD"
  <2>1. Generic(op, x, y) = add_values(x, y)
    BY <1>2 DEF Generic, Arithmetic, Comparison
  <2>2. add_values(x, y) = Real(OnReals("ADD", x.n, y.n))
    BY <1>1 DEF add_values, Both, IsTag
  <2> QED  BY <1>2, <2>1, <2>2 DEF RealResults, Arithmetic
<1>3. CASE op \in Arithmetic \ {"ADD"}
  <2>1. Generic(op, x, y) = arith_values(op, x, y)
    BY <1>3 DEF Generic, Arithmetic, Comparison
  <2>2. arith_values(op, x, y) = Real(OnReals(op, x.n, y.n))
    BY <1>1 DEF arith_values, Both, IsTag
  <2> QED  BY <1>3, <2>1, <2>2 DEF RealResults
<1>4. CASE op \in Comparison
  <2>1. op \notin Arithmetic /\ op # "ADD"
    BY <1>4 DEF Arithmetic, Comparison
  <2>2. Generic(op, x, y) = cmp_scalar(op, x, y)
    BY <1>4, <2>1 DEF Generic
  <2>3. cmp_scalar(op, x, y) = Truth(Holds(op, x.n, y.n))
    BY <1>1 DEF cmp_scalar, IsTag
  <2> QED  BY <2>1, <2>2, <2>3 DEF RealResults
<1> QED  BY <1>2, <1>3, <1>4

\* Two integers whose result fits have that result on both ways.
LEMMA IntegerResult ==
  ASSUME NEW op \in {"ADD", "SUB", "MUL"}, NEW x, NEW y,
         Both(x, y, "integer"), ~Overflows(op, x, y)
  PROVE  Generic(op, x, y) = Integer(Wrapped(OnInts(op, x.n, y.n)))
<1> DEFINE r == OnInts(op, x.n, y.n)
<1>1. r \in MinInt..MaxInt /\ Wrapped(r) = r
  BY WrappedInRange DEF Overflows
<1>2. IntResult(op, x, y) = Integer(r)
  BY <1>1 DEF IntResult
<1> HIDE DEF r
<1>3. CASE op = "ADD"
  <2>1. Generic(op, x, y) = add_values(x, y)
    BY <1>3 DEF Generic, Arithmetic, Comparison
  <2>2. add_values(x, y) = IntResult("ADD", x, y)
    BY DEF add_values, Both, IsTag
  <2> QED  BY <1>1, <1>2, <1>3, <2>1, <2>2 DEF r
<1>4. CASE op \in {"SUB", "MUL"}
  <2>1. Generic(op, x, y) = arith_values(op, x, y)
    BY <1>4 DEF Generic, Arithmetic, Comparison
  <2>2. arith_values(op, x, y) = IntResult(op, x, y)
    BY <1>4 DEF arith_values
  <2> QED  BY <1>1, <1>2, <2>1, <2>2 DEF r
<1> QED  BY <1>3, <1>4

\* Whichever handler ran, and whatever was specialised while it did.
LEMMA ResultStep ==
  ASSUME QuickeningIInv, Execute
  PROVE  VariantsAgree'
<1> SUFFICES ASSUME in'.variant # "none", Typed(in'.variant, a', b'),
                    ~(in'.variant = "int" /\ Overflows(in'.op, a', b'))
             PROVE  rdest' = Generic(in'.op, a', b')
  BY DEF VariantsAgree
<1>1. QuickeningIInv'
  BY QuickeningStep
<1>2. /\ in'.variant \in {"real", "int"} /\ in'.op \in Arithmetic \cup Comparison
      /\ in'.variant = "int" => in'.op \in {"ADD", "SUB", "MUL"}
  <2>1. in' \in [op : Ops, variant : {"none", "real", "int"}, flags : Flags]
    BY <1>1 DEF QuickeningIInv, QuickeningTypeOK
  <2>2. new_op(in'.op, in'.flags) = in'.variant
    BY <1>1 DEF QuickeningIInv, VariantTellsFlags
  <2> QED  BY <2>1, <2>2, NewOpType, QuickeningAssumption
<1>3. CASE op_generic
  <2>1. PICK x \in Operands, y \in Operands :
          /\ a' = x /\ b' = y
          /\ in' = quicken_observe(in, TypeTag[x.tag], TypeTag[y.tag])
          /\ IF Both(x, y, "real") THEN rdest' \in RealResults(in.op, x.n, y.n)
             ELSE rdest' = Generic(in.op, x, y)
    BY <1>3 DEF op_generic
  <2>2. in'.op = in.op
    <3> DEFINE ta == TypeTag[x.tag]
               tb == TypeTag[y.tag]
               out == in'
    <3>1. ta \in 0..20 /\ tb \in 0..20 /\ in.variant = "none"
      BY <1>3, TagRange DEF op_generic
    <3>2. out = quicken_observe(in, ta, tb)
      BY <2>1
    <3> HIDE DEF ta, tb, out
    <3>3. out \in [op : {in.op}, variant : {"none", "real", "int"}, flags : Flags]
      BY <3>1, <3>2, ObserveResult
    <3> QED  BY <3>3 DEF out
  <2>3. CASE Both(x, y, "real")
    <3>1. RealResults(in.op, x.n, y.n) = {Generic(in.op, x, y)}
      BY <1>2, <2>2, <2>3, RealResult, QuickeningAssumption
    <3> QED  BY <2>1, <2>2, <2>3, <3>1
  <2> QED  BY <2>1, <2>2, <2>3
<1>4. CASE op_REAL_REAL
  <2>1. PICK x \in Operands, y \in Operands :
          a' = x /\ b' = y /\ rdest' \in REAL_REAL(in.op, x, y)
    BY <1>4 DEF op_REAL_REAL
  <2>2. in' = in /\ in.variant = "real"
    BY <1>4 DEF op_REAL_REAL
  <2>3. Both(x, y, "real")
    BY <2>1, <2>2 DEF Typed
  <2>4. as_real(x) = x.n /\ as_real(y) = y.n
    BY <2>3 DEF Both, as_real
  <2>5. RealResults(in.op, x.n, y.n) = {Generic(in.op, x, y)}
    BY <1>2, <2>2, <2>3, RealResult, QuickeningAssumption
  <2> QED  BY <2>1, <2>2, <2>4, <2>5 DEF REAL_REAL
<1>5. CASE op_INT_INT
  <2>1. PICK x \in Operands, y \in Operands :
          /\ a' = x /\ b' = y
          /\ \E m \in as_integer(x), n \in as_integer(y) : rdest' = Integer(Wrapped(OnInts(in.op, m, n)))
    BY <1>5 DEF op_INT_INT
  <2>2. in' = in /\ in.variant = "int"
    BY <1>5 DEF op_INT_INT
  <2>3. Both(x, y, "integer") /\ ~Overflows(in.op, x, y)
    BY <2>1, <2>2 DEF Typed
  <2>4. as_integer(x) = {x.n} /\ as_integer(y) = {y.n}
    BY <2>3 DEF Both, IsTag, as_integer
  <2>5. rdest' = Integer(Wrapped(OnInts(in.op, x.n, y.n)))
    BY <2>1, <2>4
  <2> QED  BY <1>2, <2>1, <2>2, <2>3, <2>5, IntegerResult
<1> QED  BY <1>3, <1>4, <1>5 DEF Execute

\* Whatever the operands, a specialised handler given operands of its own
\* types computes what the generic handler would have, unless an integer
\* overflows.
THEOREM VariantsRight == Spec => []VariantsAgree
<1>1. Init => VariantsAgree
  BY DEF Init, VariantsAgree
<1>2. QuickeningIInv /\ VariantsAgree /\ [Execute]_vars => VariantsAgree'
  <2> SUFFICES ASSUME QuickeningIInv, VariantsAgree, [Execute]_vars PROVE VariantsAgree'
    OBVIOUS
  <2>1. CASE UNCHANGED vars
    BY <2>1 DEF VariantsAgree, vars
  <2> QED  BY <2>1, ResultStep
<1> QED  BY QuickeningInitial, QuickeningStep, <1>1, <1>2, PTL DEF Spec
=============================================================================
