--------------------------- MODULE LoopDetectorProofs ---------------------------
(* Machine-checked proofs about LoopDetector, for every text and every value of    *)
(* the constants: what it reports repeats, what repeats is reported, and it counts *)
(* every repetition.                                                               *)
EXTENDS LoopDetector, FiniteSetTheorems, WellFoundedInduction, TLAPS

\* As many occurrences of a long unit in a row.
TokenLoop(t, count) ==
    \E u \in 1..TokenCount(t), s \in 1..TokenCount(t) :
        Repeated(t, s, u, count) /\ UnitChars(t, s, u) >= MinChars

ChunkLoop(t) == \E k \in 1..3 : RepeatedChunk(t, k)

\* What was counted so far was found in the text.
ChunksCounted ==
    /\ pc = "chunks" /\ chunk # 0 => chunk \in Chunks(text, separator)
    /\ extra > 0 => ChunkLoop(text)
RunFound ==
    pc = "extend" =>
        /\ run >= 2 /\ next = start + run * unit /\ 2 * unit <= TokenCount(text)
        /\ Repeated(text, start, unit, run) /\ UnitChars(text, start, unit) >= MinChars
BestFound == best > 0 => TokenLoop(text, best + 1)
ResultFound == result > 0 => ChunkLoop(text) \/ TokenLoop(text, result + 1)

FoundInv == TypeOK /\ ChunksCounted /\ RunFound /\ BestFound /\ ResultFound

\* A text has finitely many tokens and chunks.
LEMMA TextFacts ==
    ASSUME NEW t \in Texts
    PROVE  /\ Len(t) \in Nat
           /\ TokenCount(t) \in Nat
           /\ \A k : IsFiniteSet(Chunks(t, k)) /\ Chunks(t, k) \subseteq 1..Len(t)
<1>1. Len(t) \in Nat
  BY TextAssumption
<1>2. IsFiniteSet(1..Len(t))
  BY <1>1, FS_Interval
<1>3. TokenCount(t) \in Nat
  BY <1>2, FS_Subset, FS_CardinalityType DEF TokenCount, TokenPlaces
<1>4. \A k : Chunks(t, k) \subseteq 1..Len(t)
  BY DEF Chunks, Inner
<1> QED BY <1>1, <1>2, <1>3, <1>4, FS_Subset

\* A chunk that is counted adds a natural number, and no more than 0 without a run.
LEMMA SameRunCount ==
    ASSUME NEW t \in Texts, NEW k, NEW i
    PROVE  /\ Cardinality(SameRun(t, k, i)) \in Nat
           /\ Cardinality(SameRun(t, k, i)) > 0 => SameRun(t, k, i) # {}
<1>1. SameRun(t, k, i) \subseteq Chunks(t, k)
  BY DEF SameRun
<1>2. IsFiniteSet(SameRun(t, k, i))
  BY <1>1, TextFacts, FS_Subset
<1> QED BY <1>2, FS_CardinalityType, FS_EmptySet

\* Two equal units in a row are a run of two, and one more makes a run longer.
LEMMA RunBegins ==
    ASSUME NEW t, NEW s \in Nat, NEW u \in Nat, SameUnit(t, s, s + u, u)
    PROVE  Repeated(t, s, u, 2)
BY DEF Repeated

LEMMA RunGrows ==
    ASSUME NEW t, NEW s \in Nat, NEW u \in Nat, NEW r \in Nat,
           Repeated(t, s, u, r), SameUnit(t, s, s + r * u, u)
    PROVE  Repeated(t, s, u, r + 1)
<1> SUFFICES ASSUME NEW c \in 1..r PROVE SameUnit(t, s, s + c * u, u)
  BY DEF Repeated
<1>1. CASE c = r
  BY <1>1
<1>2. CASE c # r
  BY <1>2 DEF Repeated
<1> QED BY <1>1, <1>2

LEMMA Distribute ==
    ASSUME NEW r \in Nat, NEW u \in Nat
    PROVE  (r + 1) * u = r * u + u
OBVIOUS

\* Twice as many tokens as a unit has leave room for the unit.
LEMMA FoundIsLoop ==
    ASSUME NEW t \in Texts, NEW s \in Nat \ {0}, NEW u \in Nat \ {0},
           NEW r \in Nat, r >= 2, Repeated(t, s, u, r), UnitChars(t, s, u) >= MinChars
    PROVE  TokenLoop(t, r)
<1>1. SameUnit(t, s, s + 1 * u, u)
  BY DEF Repeated
<1>2. s + 1 * u + u - 1 <= TokenCount(t) /\ TokenCount(t) \in Nat
  BY <1>1, TextFacts DEF SameUnit
<1>3. u \in 1..TokenCount(t) /\ s \in 1..TokenCount(t)
  BY <1>2
<1> QED BY <1>3 DEF TokenLoop

--------------------------------------------------------------------------------
LEMMA FoundInit == Init => FoundInv
<1> SUFFICES ASSUME Init PROVE FoundInv
  OBVIOUS
<1>1. threshold \in Nat
  BY TextAssumption DEF Init
<1>2. TypeOK
  BY <1>1 DEF Init, TypeOK
<1> QED BY <1>2 DEF FoundInv, Init, ChunksCounted, RunFound, BestFound, ResultFound

\* What a count that is returned needs to be right.
LEMMA Returned ==
    ASSUME FoundInv, NEW count \in Nat, Return(count),
           count > 0 => ChunkLoop(text) \/ TokenLoop(text, count + 1)
    PROVE  /\ result' \in Nat /\ pc' = "done"
           /\ result' > 0 => ChunkLoop(text) \/ TokenLoop(text, result' + 1)
<1>1. CASE count >= threshold - 1
  BY <1>1 DEF Return
<1>2. CASE ~(count >= threshold - 1)
  BY <1>2 DEF Return
<1> QED BY <1>1, <1>2

LEMMA BeginStep == FoundInv /\ Begin => FoundInv'
<1> SUFFICES ASSUME FoundInv, Begin PROVE FoundInv'
  OBVIOUS
<1> USE DEF FoundInv, TypeOK
<1>0. /\ text' = text /\ threshold' = threshold
      /\ unit' = unit /\ start' = start /\ run' = run /\ next' = next /\ best' = best
  BY DEF Begin, scan
<1>1. CASE Chars(text) < MinChars * threshold
  <2>1. Return(0) /\ separator' = separator /\ chunk' = chunk /\ extra' = extra
    BY <1>1 DEF Begin
  <2>2. result' \in Nat /\ pc' = "done" /\ ~(result' > 0)
    BY <2>1 DEF Return
  <2> QED BY <1>0, <2>1, <2>2 DEF ChunksCounted, RunFound, BestFound, ResultFound
<1>2. CASE ~(Chars(text) < MinChars * threshold)
  <2>1. TrySeparator(1) /\ result' = result
    BY <1>2 DEF Begin
  <2>2. /\ separator' = 1 /\ chunk' \in Nat /\ extra' = 0 /\ pc' = "chunks"
        /\ chunk' # 0 => chunk' \in Chunks(text, 1)
    BY <2>1, TextFacts DEF TrySeparator, IsFirst
  <2> QED BY <1>0, <2>1, <2>2 DEF ChunksCounted, RunFound, BestFound, ResultFound
<1> QED BY <1>1, <1>2

LEMMA CountChunkStep == FoundInv /\ CountChunk => FoundInv'
<1> SUFFICES ASSUME FoundInv, CountChunk PROVE FoundInv'
  OBVIOUS
<1> USE DEF FoundInv, TypeOK
<1>0. /\ text' = text /\ threshold' = threshold /\ pc = "chunks" /\ pc' = "chunks"
      /\ separator' = separator /\ result' = result
      /\ unit' = unit /\ start' = start /\ run' = run /\ next' = next /\ best' = best
  BY DEF CountChunk, scan
<1> DEFINE repeats == IF Chars(Chunk(text, separator, chunk)) >= MinChars
                      THEN SameRun(text, separator, chunk) ELSE {}
           rest == {i \in Chunks(text, separator) \ repeats : i > chunk}
<1>1. extra' = extra + Cardinality(repeats) /\ chunk' \in 0..Len(text) /\ IsFirst(chunk', rest)
  BY DEF CountChunk
<1>2. chunk \in Chunks(text, separator)
  BY DEF CountChunk, ChunksCounted
<1>3. chunk' \in Nat /\ (chunk' # 0 => chunk' \in Chunks(text, separator))
  BY <1>1, TextFacts DEF IsFirst
<1>4. /\ Cardinality(repeats) \in Nat
      /\ Cardinality(repeats) > 0 => RepeatedChunk(text, separator)
  <2>1. CASE ~(Chars(Chunk(text, separator, chunk)) >= MinChars)
    <3>1. Cardinality(repeats) = 0
      BY <2>1, FS_EmptySet
    <3> QED BY <3>1
  <2>2. CASE Chars(Chunk(text, separator, chunk)) >= MinChars
    <3>1. repeats = SameRun(text, separator, chunk)
      BY <2>2
    <3>2. Cardinality(repeats) \in Nat /\ (Cardinality(repeats) > 0 => repeats # {})
      BY <3>1, SameRunCount
    <3>3. repeats # {} => RepeatedChunk(text, separator)
      BY <1>2, <2>2, <3>1 DEF RepeatedChunk
    <3> QED BY <3>2, <3>3
  <2> QED BY <2>1, <2>2
<1> HIDE DEF repeats
<1>5. extra' \in Nat /\ (extra' > 0 => ChunkLoop(text))
  <2>1. extra > 0 => ChunkLoop(text)
    BY DEF ChunksCounted
  <2>2. RepeatedChunk(text, separator) => ChunkLoop(text)
    BY DEF ChunkLoop
  <2> QED BY <1>1, <1>4, <2>1, <2>2
<1> QED BY <1>0, <1>3, <1>5 DEF ChunksCounted, RunFound, BestFound, ResultFound

LEMMA EndChunksStep == FoundInv /\ EndChunks => FoundInv'
<1> SUFFICES ASSUME FoundInv, EndChunks PROVE FoundInv'
  OBVIOUS
<1> USE DEF FoundInv, TypeOK
<1>0. /\ text' = text /\ threshold' = threshold
      /\ unit' = unit /\ start' = start /\ run' = run /\ next' = next /\ best' = best
  BY DEF EndChunks, scan
<1>1. CASE extra >= threshold - 1
  <2>1. Return(extra) /\ separator' = separator /\ chunk' = chunk /\ extra' = extra
    BY <1>1 DEF EndChunks
  <2>2. extra > 0 => ChunkLoop(text)
    BY DEF ChunksCounted
  <2>3. /\ result' \in Nat /\ pc' = "done"
        /\ result' > 0 => ChunkLoop(text) \/ TokenLoop(text, result' + 1)
    BY <2>1, <2>2, Returned
  <2> QED BY <1>0, <2>1, <2>2, <2>3 DEF ChunksCounted, RunFound, BestFound, ResultFound
<1>2. CASE ~(extra >= threshold - 1) /\ extra = 0 /\ separator < Len(Separators)
  <2>1. TrySeparator(separator + 1) /\ result' = result
    BY <1>2 DEF EndChunks
  <2>2. separator + 1 \in 1..3
    BY <1>2 DEF Separators
  <2>3. /\ separator' \in 1..3 /\ chunk' \in Nat /\ extra' = 0 /\ pc' = "chunks"
        /\ chunk' # 0 => chunk' \in Chunks(text, separator')
    BY <2>1, <2>2, TextFacts DEF TrySeparator, IsFirst
  <2> QED BY <1>0, <2>1, <2>3 DEF ChunksCounted, RunFound, BestFound, ResultFound
<1>3. CASE ~(extra >= threshold - 1) /\ ~(extra = 0 /\ separator < Len(Separators))
  <2>1. /\ pc' = "scan" /\ separator' = separator /\ chunk' = chunk /\ extra' = extra
        /\ result' = result
    BY <1>3 DEF EndChunks
  <2> QED BY <1>0, <2>1 DEF ChunksCounted, RunFound, BestFound, ResultFound
<1> QED BY <1>1, <1>2, <1>3

\* A step of the scan changes only the scan, its place and the result.
Kept == text' = text /\ threshold' = threshold /\ separator' = separator
        /\ chunk' = chunk /\ extra' = extra

LEMMA PassOverStep == FoundInv /\ (PassOver \/ NextUnit) => FoundInv'
<1> SUFFICES ASSUME FoundInv, PassOver \/ NextUnit PROVE FoundInv'
  OBVIOUS
<1> USE DEF FoundInv, TypeOK
<1>1. /\ Kept /\ run' = run /\ next' = next /\ best' = best /\ result' = result
      /\ pc = "scan" /\ pc' = "scan"
      /\ unit' \in Nat \ {0} /\ start' \in Nat \ {0}
  BY DEF PassOver, NextUnit, Kept
<1> QED BY <1>1 DEF Kept, ChunksCounted, RunFound, BestFound, ResultFound

LEMMA FindRunStep == FoundInv /\ FindRun => FoundInv'
<1> SUFFICES ASSUME FoundInv, FindRun PROVE FoundInv'
  OBVIOUS
<1> USE DEF FoundInv, TypeOK
<1>1. /\ Kept /\ unit' = unit /\ start' = start /\ best' = best /\ result' = result
      /\ pc' = "extend" /\ run' = 2 /\ next' = start + 2 * unit
      /\ 2 * unit <= TokenCount(text)
      /\ UnitChars(text, start, unit) >= MinChars
      /\ SameUnit(text, start, start + unit, unit)
  BY DEF FindRun, Kept, InScan
<1>2. Repeated(text, start, unit, 2)
  BY <1>1, RunBegins
<1>3. TypeOK'
  BY <1>1 DEF Kept
<1>4. RunFound'
  BY <1>1, <1>2 DEF Kept, RunFound
<1> QED BY <1>1, <1>3, <1>4 DEF Kept, ChunksCounted, BestFound, ResultFound

LEMMA ExtendRunStep == FoundInv /\ ExtendRun => FoundInv'
<1> SUFFICES ASSUME FoundInv, ExtendRun PROVE FoundInv'
  OBVIOUS
<1> USE DEF FoundInv, TypeOK
<1>1. /\ Kept /\ unit' = unit /\ start' = start /\ best' = best /\ result' = result
      /\ pc = "extend" /\ pc' = "extend" /\ run' = run + 1 /\ next' = next + unit
      /\ SameUnit(text, start, next, unit)
  BY DEF ExtendRun, Kept
<1>2. /\ run >= 2 /\ next = start + run * unit /\ 2 * unit <= TokenCount(text)
      /\ Repeated(text, start, unit, run) /\ UnitChars(text, start, unit) >= MinChars
  BY <1>1 DEF RunFound
<1>3. Repeated(text, start, unit, run + 1)
  BY <1>1, <1>2, RunGrows
<1>4. next' = start + (run + 1) * unit
  <2>1. (run + 1) * unit = run * unit + unit /\ run * unit \in Nat
    BY Distribute
  <2> QED BY <1>1, <1>2, <2>1
<1>5. TypeOK'
  BY <1>1 DEF Kept
<1>6. RunFound'
  BY <1>1, <1>2, <1>3, <1>4 DEF Kept, RunFound
<1> QED BY <1>1, <1>5, <1>6 DEF Kept, ChunksCounted, BestFound, ResultFound

LEMMA EndRunStep == FoundInv /\ EndRun => FoundInv'
<1> SUFFICES ASSUME FoundInv, EndRun PROVE FoundInv'
  OBVIOUS
<1> USE DEF FoundInv, TypeOK
<1>1. /\ Kept /\ unit' = unit /\ run' = run /\ next' = next /\ result' = result
      /\ pc = "extend" /\ pc' = "scan" /\ start' = start + run * unit
      /\ best' = IF run - 1 > best THEN run - 1 ELSE best
  BY DEF EndRun, Kept
<1>2. /\ run >= 2 /\ Repeated(text, start, unit, run)
      /\ UnitChars(text, start, unit) >= MinChars
  BY <1>1 DEF RunFound
<1>3. TokenLoop(text, run)
  BY <1>2, FoundIsLoop
<1>4. best' \in Nat /\ (best' > 0 => TokenLoop(text, best' + 1))
  <2>1. CASE run - 1 > best
    <3>1. best' = run - 1 /\ best' + 1 = run
      BY <1>1, <2>1
    <3> QED BY <3>1, <1>2, <1>3
  <2>2. CASE ~(run - 1 > best)
    BY <1>1, <2>2 DEF BestFound
  <2> QED BY <2>1, <2>2
<1>5. start' \in Nat \ {0}
  <2>1. run * unit \in Nat
    OBVIOUS
  <2> QED BY <1>1, <2>1
<1> QED BY <1>1, <1>4, <1>5 DEF Kept, ChunksCounted, RunFound, BestFound, ResultFound

LEMMA EndScanStep == FoundInv /\ EndScan => FoundInv'
<1> SUFFICES ASSUME FoundInv, EndScan PROVE FoundInv'
  OBVIOUS
<1> USE DEF FoundInv, TypeOK
<1>1. /\ Kept /\ Return(best)
      /\ unit' = unit /\ start' = start /\ run' = run /\ next' = next /\ best' = best
  BY DEF EndScan, Kept, scan
<1>2. /\ result' \in Nat /\ pc' = "done"
      /\ result' > 0 => ChunkLoop(text) \/ TokenLoop(text, result' + 1)
  BY <1>1, Returned DEF BestFound
<1> QED BY <1>1, <1>2 DEF Kept, ChunksCounted, RunFound, BestFound, ResultFound

LEMMA FoundNext == FoundInv /\ [Next]_vars => FoundInv'
<1> SUFFICES ASSUME FoundInv, [Next]_vars PROVE FoundInv'
  OBVIOUS
<1>1. ASSUME UNCHANGED vars PROVE FoundInv'
  BY <1>1 DEF vars, scan, FoundInv, TypeOK, ChunksCounted, RunFound, BestFound, ResultFound
<1> QED
  BY <1>1, BeginStep, CountChunkStep, EndChunksStep, PassOverStep, FindRunStep,
     ExtendRunStep, EndRunStep, EndScanStep DEF Next, Done

LEMMA Invariance == Spec => []FoundInv
BY FoundInit, FoundNext, PTL DEF Spec

\* Every turn the detector reports repeats itself (nanoclaw_support.py:430): a long
\* chunk that is followed by itself, or as many equal units as it counts.
THEOREM DetectionCorrect == Spec => []DetectionSound
<1>1. FoundInv => DetectionSound
  BY DEF FoundInv, ResultFound, DetectionSound, ChunkLoop, TokenLoop
<1> QED BY <1>1, Invariance, PTL

\* What the variables of the detector hold.
THEOREM TypeCorrect == Spec => []TypeOK
<1>1. FoundInv => TypeOK
  BY DEF FoundInv
<1> QED BY <1>1, Invariance, PTL

-------------------------------------------------------------------------------
(* No loop escapes, and the count is right. First, induction over the naturals;    *)
(* then the characters of a text, the places of its tokens, and what a run of      *)
(* equal units says about the tokens.                                              *)

\* Every nonempty set of naturals has a least member.
LEMMA LeastNatural ==
    ASSUME NEW T, T \subseteq Nat, T # {}
    PROVE  \E n \in T : \A m \in T : n <= m
<1>1. PICK n \in T : \A m \in T : <<m, n>> \notin OpToRel(<, Nat)
  BY NatLessThanWellFounded, WFMin
<1>2. \A m \in T : ~(m < n)
  BY <1>1 DEF OpToRel
<1> QED BY <1>2

LEMMA NatSetInduction ==
    ASSUME NEW T, 0 \in T, \A n \in Nat : n \in T => n + 1 \in T
    PROVE  \A n \in Nat : n \in T
<1>1. SUFFICES ASSUME NEW n \in Nat, n \notin T PROVE FALSE
  OBVIOUS
<1>2. PICK m \in Nat \ T : \A k \in Nat \ T : m <= k
  <2>1. Nat \ T \subseteq Nat /\ Nat \ T # {}
    BY <1>1
  <2> QED BY <2>1, LeastNatural
<1>3. m # 0 /\ m - 1 \in Nat
  BY <1>2
<1>4. m - 1 \in T
  BY <1>2, <1>3
<1> QED BY <1>2, <1>3, <1>4

--------------------------------------------------------------------------------
(* The characters of a text. *)
Weight(t, n) ==
    Width[t[n]] + (IF n > 1 /\ {t[n - 1], t[n]} \cap Gaps = {} THEN 1 ELSE 0)
CharsUpTo(t, p, n) ==
    IF n = 0 THEN 0
    ELSE p[n - 1] + Width[t[n]] +
         (IF n > 1 /\ {t[n - 1], t[n]} \cap Gaps = {} THEN 1 ELSE 0)

\* p counts the characters of every prefix of t.
Counts(p, t) ==
    /\ p \in [0..Len(t) -> Nat] /\ p[0] = 0
    /\ \A n \in 1..Len(t) : p[n] = p[n - 1] + Weight(t, n)

LEMMA CountType ==
    ASSUME NEW t, NEW p, Counts(p, t), NEW n \in 1..Len(t), Len(t) \in Nat
    PROVE  p[n] \in Nat
BY DEF Counts

LEMMA WeightType ==
    ASSUME NEW t \in Seq(Symbols), NEW n \in 1..Len(t)
    PROVE  Weight(t, n) \in Nat /\ Weight(t, n) >= Width[t[n]] /\ Width[t[n]] \in Nat
<1>1. t[n] \in Symbols
  OBVIOUS
<1>2. Width[t[n]] \in Nat
  BY <1>1, TextAssumption
<1> QED BY <1>2 DEF Weight

\* The recursion of Chars has a solution.
LEMMA CharsSolvable ==
    ASSUME NEW t, NEW k \in Nat
    PROVE  \E p : p = [n \in 0..k |-> CharsUpTo(t, p, n)]
<1> DEFINE Upto(p, m) == \A n \in 0..m : p[n] = CharsUpTo(t, p, n)
           T == {m \in Nat : \E p : Upto(p, m)}
<1>1. 0 \in T
  <2> DEFINE p == [n \in 0..0 |-> 0]
  <2>1. Upto(p, 0)
    BY DEF CharsUpTo
  <2> QED BY <2>1
<1>2. ASSUME NEW m \in Nat, m \in T PROVE m + 1 \in T
  <2>1. PICK p : Upto(p, m)
    BY <1>2
  <2> DEFINE q == [n \in 0..(m + 1) |-> CharsUpTo(t, p, n)]
  <2>2. ASSUME NEW n \in 0..(m + 1) PROVE q[n] = CharsUpTo(t, q, n)
    <3>1. n # 0 => n - 1 \in 0..m /\ n - 1 \in 0..(m + 1)
      OBVIOUS
    <3>2. n # 0 => q[n - 1] = p[n - 1]
      BY <2>1, <3>1
    <3> QED BY <3>2 DEF CharsUpTo
  <2>3. Upto(q, m + 1) /\ m + 1 \in Nat
    BY <2>2
  <2> HIDE DEF q, Upto
  <2> QED BY <2>3
<1>3. k \in T
  <2> HIDE DEF T
  <2> QED BY <1>1, <1>2, NatSetInduction
<1>4. PICK p : Upto(p, k)
  BY <1>3
<1> DEFINE q == [n \in 0..k |-> p[n]]
<1>5. ASSUME NEW n \in 0..k PROVE q[n] = CharsUpTo(t, q, n)
  <2>1. n # 0 => n - 1 \in 0..k
    OBVIOUS
  <2>2. n # 0 => q[n - 1] = p[n - 1]
    BY <2>1
  <2> QED BY <1>4, <2>2 DEF CharsUpTo
<1>6. q = [n \in 0..k |-> CharsUpTo(t, q, n)]
  BY <1>5
<1> HIDE DEF q
<1> QED BY <1>6

\* Chars is the last of the counts.
LEMMA CharsCounted ==
    ASSUME NEW t \in Seq(Symbols)
    PROVE  \E p : Counts(p, t) /\ Chars(t) = p[Len(t)]
<1> DEFINE p == CHOOSE p : p = [n \in 0..Len(t) |-> CharsUpTo(t, p, n)]
<1>1. Chars(t) = p[Len(t)]
  BY Zenon DEF Chars, CharsUpTo
<1>2. p = [n \in 0..Len(t) |-> CharsUpTo(t, p, n)]
  <2>1. Len(t) \in Nat
    OBVIOUS
  <2>2. \E q : q = [n \in 0..Len(t) |-> CharsUpTo(t, q, n)]
    BY <2>1, CharsSolvable
  <2> QED BY <2>2, Zenon
<1> HIDE DEF p
<1>0. ASSUME NEW n \in 1..Len(t)
      PROVE  p[n] = p[n - 1] + Width[t[n]] +
                       (IF n > 1 /\ {t[n - 1], t[n]} \cap Gaps = {} THEN 1 ELSE 0)
  BY <1>2, n \in 0..Len(t), n # 0 DEF CharsUpTo
<1>4. p[0] = 0 /\ \A n \in 0..Len(t) : p[n] \in Nat
  <2> DEFINE T == {n \in Nat : n <= Len(t) => p[n] \in Nat}
  <2>0. p[0] = 0
    BY <1>2 DEF CharsUpTo
  <2>1. 0 \in T
    BY <2>0
  <2>2. ASSUME NEW n \in Nat, n \in T PROVE n + 1 \in T
    <3> SUFFICES ASSUME n + 1 <= Len(t) PROVE p[n + 1] \in Nat
      OBVIOUS
    <3>1. n + 1 \in 1..Len(t) /\ p[n] \in Nat /\ (n + 1) - 1 = n
      BY <2>2
    <3>2. Width[t[n + 1]] \in Nat
      BY <3>1, WeightType
    <3> QED BY <1>0, <3>1, <3>2
  <2> HIDE DEF T
  <2>3. \A n \in Nat : n \in T
    BY <2>1, <2>2, NatSetInduction
  <2> QED BY <2>0, <2>3 DEF T
<1>3. ASSUME NEW n \in 1..Len(t) PROVE p[n] = p[n - 1] + Weight(t, n)
  <2>1. p[n - 1] \in Nat /\ Width[t[n]] \in Nat
    BY <1>4, WeightType
  <2> QED BY <1>0, <2>1 DEF Weight
<1>5. Counts(p, t)
  <2>1. p \in [0..Len(t) -> Nat]
    BY <1>2, <1>4
  <2> QED BY <1>3, <1>4, <2>1 DEF Counts
<1> QED BY <1>1, <1>5

\* A span of a text has the characters counted between its ends.
LEMMA SpanChars ==
    ASSUME NEW t \in Seq(Symbols), NEW p, Counts(p, t),
           NEW a \in 1..Len(t), NEW b \in 1..Len(t), a <= b
    PROVE  Chars(SubSeq(t, a, b)) = p[b] - p[a] + Width[t[a]]
<1> DEFINE w == SubSeq(t, a, b)
<1>1. w \in Seq(Symbols) /\ Len(w) = b - a + 1 /\ \A n \in 1..Len(w) : w[n] = t[a + n - 1]
  OBVIOUS
<1> HIDE DEF w
<1>2. PICK q : Counts(q, w) /\ Chars(w) = q[Len(w)]
  BY <1>1, CharsCounted
<1>3. \A n \in 0..Len(t) : p[n] \in Nat
  BY DEF Counts
<1>4. \A n \in 0..Len(w) : q[n] \in Nat
  BY <1>2 DEF Counts
<1>5. \A n \in 1..Len(t) : Width[t[n]] \in Nat
  BY WeightType
<1> DEFINE T == {n \in Nat : n + 1 <= Len(w) => q[n + 1] = p[a + n] - p[a] + Width[t[a]]}
<1>6. 0 \in T
  <2>1. 1 \in 1..Len(w) /\ w[1] = t[a]
    BY <1>1
  <2>2. q[1] = q[0] + Weight(w, 1) /\ q[0] = 0
    BY <1>2, <2>1 DEF Counts
  <2>3. Weight(w, 1) = Width[t[a]]
    BY <1>5, <2>1 DEF Weight
  <2> QED BY <1>3, <1>5, <2>2, <2>3
<1>7. ASSUME NEW n \in Nat, n \in T PROVE n + 1 \in T
  <2> SUFFICES ASSUME n + 2 <= Len(w)
               PROVE  q[n + 2] = p[a + n + 1] - p[a] + Width[t[a]]
    OBVIOUS
  <2>1. /\ n + 2 \in 1..Len(w) /\ n + 1 \in 1..Len(w) /\ a + n + 1 \in 1..Len(t)
        /\ a + n \in 1..Len(t) /\ (n + 2) - 1 = n + 1 /\ (a + n + 1) - 1 = a + n
        /\ a + (n + 2) - 1 = a + n + 1 /\ a + (n + 1) - 1 = a + n
    BY <1>1
  <2>2. q[n + 1] = p[a + n] - p[a] + Width[t[a]]
    BY <1>7, <2>1
  <2>3. q[n + 2] = q[n + 1] + Weight(w, n + 2)
    BY <1>2, <2>1 DEF Counts
  <2>4. p[a + n + 1] = p[a + n] + Weight(t, a + n + 1)
    BY <2>1 DEF Counts
  <2>5. w[n + 2] = t[a + n + 1] /\ w[n + 1] = t[a + n]
    BY <1>1, <2>1
  <2>6. Weight(w, n + 2) = Weight(t, a + n + 1)
    BY <2>1, <2>5 DEF Weight
  <2>7. Weight(t, a + n + 1) \in Nat
    BY <2>1, WeightType
  <2>8. p[a + n] \in Nat /\ p[a] \in Nat /\ Width[t[a]] \in Nat
    BY <1>3, <1>5, <2>1
  <2>9. q[n + 2] = q[n + 1] + Weight(t, a + n + 1)
    BY <2>3, <2>6
  <2>10. q[n + 2] = (p[a + n] - p[a] + Width[t[a]]) + Weight(t, a + n + 1)
    BY <2>2, <2>9
  <2> HIDE DEF T
  <2>11. ASSUME NEW x \in Int, NEW y \in Int, NEW z \in Int, NEW v \in Int
         PROVE  (x - y + z) + v = (x + v) - y + z
    OBVIOUS
  <2>12. q[n + 2] = (p[a + n] + Weight(t, a + n + 1)) - p[a] + Width[t[a]]
    BY <2>7, <2>8, <2>10, <2>11
  <2> QED BY <2>4, <2>12
<1>8. b - a \in T
  <2>1. b - a \in Nat
    OBVIOUS
  <2> HIDE DEF T
  <2> QED BY <1>6, <1>7, <2>1, NatSetInduction
<1>9. q[Len(w)] = p[b] - p[a] + Width[t[a]]
  BY <1>1, <1>8
<1> QED BY <1>2, <1>9 DEF w

LEMMA CountsGrow ==
    ASSUME NEW t \in Seq(Symbols), NEW p, Counts(p, t), NEW a \in 0..Len(t),
           NEW b \in 0..Len(t), a <= b
    PROVE  p[a] <= p[b] /\ p[a] \in Nat /\ p[b] \in Nat
<1>1. \A n \in 0..Len(t) : p[n] \in Nat
  BY DEF Counts
<1> DEFINE T == {n \in Nat : a + n <= Len(t) => p[a] <= p[a + n]}
<1>2. 0 \in T
  BY <1>1
<1>3. ASSUME NEW n \in Nat, n \in T PROVE n + 1 \in T
  <2> SUFFICES ASSUME a + (n + 1) <= Len(t) PROVE p[a] <= p[a + (n + 1)]
    OBVIOUS
  <2>1. a + n + 1 \in 1..Len(t) /\ (a + n + 1) - 1 = a + n /\ a + (n + 1) = a + n + 1
        /\ a + n \in 0..Len(t)
    OBVIOUS
  <2>2. p[a + n + 1] = p[a + n] + Weight(t, a + n + 1)
    BY <2>1 DEF Counts
  <2>3. Weight(t, a + n + 1) \in Nat
    BY <2>1, WeightType
  <2>4. p[a] <= p[a + n] /\ p[a + n] \in Nat /\ p[a] \in Nat
    BY <1>1, <1>3, <2>1
  <2> QED BY <2>1, <2>2, <2>3, <2>4
<1>4. b - a \in T
  <2>1. b - a \in Nat
    OBVIOUS
  <2> HIDE DEF T
  <2> QED BY <1>2, <1>3, <2>1, NatSetInduction
<1> QED BY <1>1, <1>4

--------------------------------------------------------------------------------
(* The places of the tokens. *)
PlacesUpTo(t, i) == Cardinality(TokenPlaces(t) \cap (1..i))

LEMMA PlacesCount ==
    ASSUME NEW t \in Texts
    PROVE  /\ \A i \in Nat : PlacesUpTo(t, i) \in Nat
           /\ PlacesUpTo(t, 0) = 0 /\ PlacesUpTo(t, Len(t)) = TokenCount(t)
           /\ \A i \in Nat : PlacesUpTo(t, i + 1) =
                IF i + 1 \in TokenPlaces(t) THEN PlacesUpTo(t, i) + 1 ELSE PlacesUpTo(t, i)
           /\ \A i \in Nat, j \in Nat : i <= j => PlacesUpTo(t, i) <= PlacesUpTo(t, j)
<1>1. \A i \in Nat : IsFiniteSet(TokenPlaces(t) \cap (1..i))
  <2> TAKE i \in Nat
  <2>1. IsFiniteSet(1..i)
    BY FS_Interval
  <2> QED BY <2>1, FS_Subset
<1>2. \A i \in Nat : PlacesUpTo(t, i) \in Nat
  BY <1>1, FS_CardinalityType DEF PlacesUpTo
<1>3. PlacesUpTo(t, 0) = 0
  <2>1. TokenPlaces(t) \cap (1..0) = {}
    OBVIOUS
  <2> QED BY <2>1, FS_EmptySet DEF PlacesUpTo
<1>4. PlacesUpTo(t, Len(t)) = TokenCount(t)
  <2>1. TokenPlaces(t) \cap (1..Len(t)) = TokenPlaces(t)
    BY DEF TokenPlaces
  <2> QED BY <2>1 DEF PlacesUpTo, TokenCount
<1>5. ASSUME NEW i \in Nat
      PROVE  PlacesUpTo(t, i + 1) =
                IF i + 1 \in TokenPlaces(t) THEN PlacesUpTo(t, i) + 1 ELSE PlacesUpTo(t, i)
  <2> DEFINE S == TokenPlaces(t) \cap (1..i)
  <2>1. TokenPlaces(t) \cap (1..(i + 1)) = IF i + 1 \in TokenPlaces(t) THEN S \cup {i + 1} ELSE S
    OBVIOUS
  <2>2. i + 1 \notin S /\ IsFiniteSet(S)
    BY <1>1
  <2>3. Cardinality(S \cup {i + 1}) = Cardinality(S) + 1
    BY <2>2, FS_AddElement
  <2> QED BY <2>1, <2>3 DEF PlacesUpTo
<1>6. ASSUME NEW i \in Nat, NEW j \in Nat, i <= j PROVE PlacesUpTo(t, i) <= PlacesUpTo(t, j)
  <2>1. TokenPlaces(t) \cap (1..i) \subseteq TokenPlaces(t) \cap (1..j)
    BY <1>6
  <2> QED BY <1>1, <2>1, FS_Subset DEF PlacesUpTo
<1> QED BY <1>2, <1>3, <1>4, <1>5, <1>6

\* Every token has a place.
LEMMA PlaceFound ==
    ASSUME NEW t \in Texts, NEW n \in 1..TokenCount(t)
    PROVE  PlaceOf(t, n) \in TokenPlaces(t) /\ PlacesUpTo(t, PlaceOf(t, n)) = n
<1>1. Len(t) \in Nat /\ TokenCount(t) \in Nat
  BY TextFacts
<1> DEFINE T == {i \in Nat : PlacesUpTo(t, i) >= n}
<1>2. Len(t) \in T
  BY <1>1, PlacesCount
<1>3. PICK m \in T : \A i \in T : m <= i
  <2>1. T \subseteq Nat /\ T # {}
    BY <1>2
  <2> HIDE DEF T
  <2> QED BY <2>1, LeastNatural
<1>4. m # 0 /\ m \in Nat
  BY PlacesCount
<1>5. m - 1 \in Nat /\ (m - 1) + 1 = m /\ PlacesUpTo(t, m - 1) < n
  <2>1. m - 1 \in Nat /\ (m - 1) + 1 = m /\ ~(m <= m - 1)
    BY <1>4
  <2>2. m - 1 \notin T
    BY <1>3, <2>1
  <2>3. PlacesUpTo(t, m - 1) \in Nat
    BY <2>1, PlacesCount
  <2> QED BY <2>1, <2>2, <2>3
<1>6. m \in TokenPlaces(t) /\ PlacesUpTo(t, m) = n
  <2>1. PlacesUpTo(t, m) = IF m \in TokenPlaces(t) THEN PlacesUpTo(t, m - 1) + 1
                           ELSE PlacesUpTo(t, m - 1)
    BY <1>5, PlacesCount
  <2>2. PlacesUpTo(t, m) >= n /\ PlacesUpTo(t, m) \in Nat /\ PlacesUpTo(t, m - 1) \in Nat
    BY <1>4, <1>5, PlacesCount
  <2> HIDE DEF T
  <2> QED BY <1>5, <2>1, <2>2
<1> QED BY <1>6 DEF PlaceOf, PlacesUpTo

\* The next token is the next place, and there are only gaps between.
LEMMA PlaceNext ==
    ASSUME NEW t \in Texts, NEW n \in 1..TokenCount(t), n + 1 \in 1..TokenCount(t)
    PROVE  /\ PlaceOf(t, n) < PlaceOf(t, n + 1)
           /\ \A i \in Nat : PlaceOf(t, n) < i /\ i < PlaceOf(t, n + 1) => i \notin TokenPlaces(t)
<1> DEFINE a == PlaceOf(t, n)
           b == PlaceOf(t, n + 1)
<1>1. /\ a \in TokenPlaces(t) /\ b \in TokenPlaces(t)
      /\ PlacesUpTo(t, a) = n /\ PlacesUpTo(t, b) = n + 1
  BY PlaceFound
<1>2. a \in Nat \ {0} /\ b \in Nat \ {0} /\ n \in Nat
  <2>1. TokenPlaces(t) \subseteq Nat \ {0}
    BY DEF TokenPlaces
  <2> QED BY <1>1, <2>1
<1> HIDE DEF a, b
<1>3. a < b
  <2>1. b <= a => PlacesUpTo(t, b) <= PlacesUpTo(t, a)
    BY <1>2, PlacesCount
  <2> QED BY <1>1, <1>2, <2>1
<1>4. ASSUME NEW i \in Nat, a < i, i < b, i \in TokenPlaces(t) PROVE FALSE
  <2>1. ASSUME NEW j \in Nat \ {0}, j \in TokenPlaces(t)
        PROVE  PlacesUpTo(t, j) = PlacesUpTo(t, j - 1) + 1
    <3>1. j - 1 \in Nat /\ (j - 1) + 1 = j
      OBVIOUS
    <3> QED BY <2>1, <3>1, PlacesCount
  <2>2. i \in Nat \ {0} /\ i - 1 \in Nat /\ b - 1 \in Nat /\ a <= i - 1 /\ i <= b - 1
    BY <1>2, <1>4
  <2>3. PlacesUpTo(t, a) <= PlacesUpTo(t, i - 1) /\ PlacesUpTo(t, i) <= PlacesUpTo(t, b - 1)
    BY <1>2, <2>2, PlacesCount
  <2>4. PlacesUpTo(t, i) = PlacesUpTo(t, i - 1) + 1 /\ PlacesUpTo(t, b) = PlacesUpTo(t, b - 1) + 1
    BY <1>1, <1>2, <1>4, <2>1, <2>2
  <2>5. PlacesUpTo(t, i - 1) \in Nat /\ PlacesUpTo(t, b - 1) \in Nat
    BY <2>2, PlacesCount
  <2> QED BY <1>1, <1>2, <2>3, <2>4, <2>5
<1> QED BY <1>3, <1>4 DEF a, b

\* The tokens of a text are symbols, and none is a gap.
LEMMA TokensType ==
    ASSUME NEW t \in Texts
    PROVE  /\ t \in Seq(Symbols) /\ Tokens(t) \in Seq(Symbols)
           /\ Len(Tokens(t)) = TokenCount(t) /\ TokenCount(t) \in Nat
           /\ \A n \in 1..TokenCount(t) :
                /\ PlaceOf(t, n) \in 1..Len(t) /\ Tokens(t)[n] = t[PlaceOf(t, n)]
                /\ Tokens(t)[n] \notin Gaps
<1>1. t \in Seq(Symbols) /\ TokenCount(t) \in Nat
  BY TextAssumption, TextFacts
<1>2. ASSUME NEW n \in 1..TokenCount(t)
      PROVE  /\ PlaceOf(t, n) \in 1..Len(t) /\ t[PlaceOf(t, n)] \in Symbols
             /\ t[PlaceOf(t, n)] \notin Gaps
  <2>1. PlaceOf(t, n) \in TokenPlaces(t)
    BY PlaceFound
  <2>2. PlaceOf(t, n) \in 1..Len(t) /\ t[PlaceOf(t, n)] \notin Gaps
    BY <2>1 DEF TokenPlaces
  <2> QED BY <1>1, <2>2
<1>3. Tokens(t) \in Seq(Symbols) /\ Len(Tokens(t)) = TokenCount(t)
  BY <1>1, <1>2 DEF Tokens
<1>4. \A n \in 1..TokenCount(t) : Tokens(t)[n] = t[PlaceOf(t, n)]
  BY DEF Tokens
<1> QED BY <1>1, <1>2, <1>3, <1>4

\* From one token to the next there is at least one character, and one space
\* when the tokens are written in a row.
LEMMA TokenAfter ==
    ASSUME NEW t \in Texts, NEW p, Counts(p, t), NEW q, Counts(q, Tokens(t)),
           NEW n \in 1..TokenCount(t), n + 1 \in 1..TokenCount(t)
    PROVE  /\ q[n + 1] = q[n] + Width[Tokens(t)[n + 1]] + 1
           /\ p[PlaceOf(t, n)] + Width[Tokens(t)[n + 1]] + 1 <= p[PlaceOf(t, n + 1)]
<1> DEFINE a == PlaceOf(t, n)
           b == PlaceOf(t, n + 1)
           w == Width[Tokens(t)[n + 1]]
<1>1. /\ t \in Seq(Symbols) /\ Tokens(t) \in Seq(Symbols) /\ Len(Tokens(t)) = TokenCount(t)
      /\ a \in 1..Len(t) /\ b \in 1..Len(t) /\ Tokens(t)[n + 1] = t[b]
      /\ t[a] \notin Gaps /\ t[b] \notin Gaps
      /\ Tokens(t)[n] \notin Gaps /\ Tokens(t)[n + 1] \notin Gaps
  BY TokensType
<1>2. /\ a < b
      /\ \A i \in Nat : a < i /\ i < b => i \notin TokenPlaces(t)
  BY PlaceNext
<1>3. w \in Nat /\ w = Width[t[b]]
  BY <1>1, WeightType
<1>4. q[n + 1] = q[n] + w + 1
  <2>1. n + 1 \in 1..Len(Tokens(t)) /\ (n + 1) - 1 = n /\ n + 1 > 1 /\ n \in 0..Len(Tokens(t))
    BY <1>1
  <2>2. q[n + 1] = q[n] + Weight(Tokens(t), n + 1)
    BY <2>1 DEF Counts
  <2>3. {Tokens(t)[n], Tokens(t)[n + 1]} \cap Gaps = {}
    BY <1>1
  <2>4. Weight(Tokens(t), n + 1) = w + 1
    BY <2>1, <2>3 DEF Weight
  <2>5. q[n] \in Nat
    BY <2>1 DEF Counts
  <2> QED BY <1>3, <2>2, <2>4, <2>5
<1>5. p[a] + w + 1 <= p[b]
  <2> HIDE DEF a, b, w
  <2>1. p[b] = p[b - 1] + Weight(t, b) /\ b - 1 \in 0..Len(t) /\ a \in 0..Len(t) /\ a <= b - 1
    BY <1>1, <1>2 DEF Counts
  <2>2. p[a] <= p[b - 1] /\ p[a] \in Nat /\ p[b - 1] \in Nat
    BY <1>1, <2>1, CountsGrow
  <2>3. CASE a = b - 1
    <3>1. Weight(t, b) = w + 1
      BY <1>1, <1>3, <2>3, b > 1, {t[b - 1], t[b]} \cap Gaps = {} DEF Weight
    <3> QED BY <1>3, <2>1, <2>2, <2>3, <3>1
  <2>4. CASE a # b - 1
    <3> DEFINE c == b - 1
    <3>1. c \in 1..Len(t) /\ a < c /\ c < b /\ c - 1 \in 0..Len(t) /\ a <= c - 1 /\ c \in Nat
      BY <1>1, <2>1, <2>4
    <3>2. t[c] \in Gaps
      BY <1>2, <3>1 DEF TokenPlaces
    <3> HIDE DEF c
    <3>3. p[c] = p[c - 1] + Weight(t, c)
      BY <3>1 DEF Counts
    <3>4. p[a] <= p[c - 1] /\ p[c - 1] \in Nat
      BY <1>1, <2>1, <3>1, CountsGrow
    <3>5. Weight(t, c) \in Nat /\ Weight(t, c) >= Width[t[c]] /\ Width[t[c]] \in Nat
      BY <1>1, <3>1, WeightType
    <3>6. Width[t[c]] > 0
      BY <3>2, TextAssumption
    <3>7. p[a] + 1 <= p[c]
      BY <2>2, <3>3, <3>4, <3>5, <3>6
    <3>8. Weight(t, b) \in Nat /\ Weight(t, b) >= w
      BY <1>1, <1>3, WeightType
    <3>9. p[b] = p[c] + Weight(t, b) /\ p[c] \in Nat
      BY <2>1, <2>2 DEF c
    <3> QED BY <1>3, <2>2, <3>7, <3>8, <3>9
  <2> QED BY <2>3, <2>4
<1> QED BY <1>4, <1>5

\* Between two tokens a text has at least the characters of the tokens.
LEMMA TokensInside ==
    ASSUME NEW t \in Texts, NEW p, Counts(p, t), NEW q, Counts(q, Tokens(t)),
           NEW a \in 1..TokenCount(t), NEW b \in 1..TokenCount(t), a <= b
    PROVE  /\ PlaceOf(t, a) <= PlaceOf(t, b)
           /\ q[b] - q[a] <= p[PlaceOf(t, b)] - p[PlaceOf(t, a)]
<1>1. /\ t \in Seq(Symbols) /\ Tokens(t) \in Seq(Symbols) /\ Len(Tokens(t)) = TokenCount(t)
      /\ \A n \in 1..TokenCount(t) : PlaceOf(t, n) \in 1..Len(t)
      /\ TokenCount(t) \in Nat
  BY TokensType
<1>2. \A n \in 1..TokenCount(t) :
          q[n] \in Nat /\ p[PlaceOf(t, n)] \in Nat /\ Width[Tokens(t)[n]] \in Nat
  <2> TAKE n \in 1..TokenCount(t)
  <2>1. n \in 1..Len(Tokens(t)) /\ PlaceOf(t, n) \in 1..Len(t)
    BY <1>1
  <2>2. q[n] \in Nat /\ p[PlaceOf(t, n)] \in Nat
    BY <2>1, CountType
  <2>3. Width[Tokens(t)[n]] \in Nat
    BY <1>1, <2>1, WeightType
  <2> QED BY <2>2, <2>3
<1> DEFINE In(n) == /\ PlaceOf(t, a) <= PlaceOf(t, a + n)
                    /\ q[a + n] - q[a] <= p[PlaceOf(t, a + n)] - p[PlaceOf(t, a)]
           T == {n \in Nat : a + n <= TokenCount(t) => In(n)}
<1>3. 0 \in T
  <2>1. a + 0 = a
    OBVIOUS
  <2>2. PlaceOf(t, a) \in Int /\ q[a] \in Int /\ p[PlaceOf(t, a)] \in Int
    BY <1>1, <1>2
  <2> QED BY <2>1, <2>2
<1>4. ASSUME NEW n \in Nat, n \in T PROVE n + 1 \in T
  <2> SUFFICES ASSUME a + (n + 1) <= TokenCount(t) PROVE In(n + 1)
    OBVIOUS
  <2> DEFINE c == a + n
  <2>1. /\ c \in 1..TokenCount(t) /\ c + 1 \in 1..TokenCount(t) /\ a + (n + 1) = c + 1
    BY <1>1
  <2>2. PlaceOf(t, a) <= PlaceOf(t, c) /\ q[c] - q[a] <= p[PlaceOf(t, c)] - p[PlaceOf(t, a)]
    BY <1>4, <2>1
  <2> HIDE DEF T, c
  <2>3. PlaceOf(t, c) < PlaceOf(t, c + 1)
    BY <2>1, PlaceNext
  <2>4. /\ q[c + 1] = q[c] + Width[Tokens(t)[c + 1]] + 1
        /\ p[PlaceOf(t, c)] + Width[Tokens(t)[c + 1]] + 1 <= p[PlaceOf(t, c + 1)]
    BY <2>1, TokenAfter
  <2>5. PlaceOf(t, a) <= PlaceOf(t, c + 1)
    BY <1>1, <2>1, <2>2, <2>3
  <2>6. /\ q[a] \in Nat /\ q[c] \in Nat /\ q[c + 1] \in Nat
        /\ p[PlaceOf(t, a)] \in Nat /\ p[PlaceOf(t, c)] \in Nat /\ p[PlaceOf(t, c + 1)] \in Nat
        /\ Width[Tokens(t)[c + 1]] \in Nat
    BY <1>2, <2>1
  <2>7. q[c + 1] - q[a] <= p[PlaceOf(t, c + 1)] - p[PlaceOf(t, a)]
    BY <2>2, <2>4, <2>6
  <2> QED BY <2>1, <2>5, <2>7
<1>5. b - a \in T
  <2>1. b - a \in Nat
    OBVIOUS
  <2> HIDE DEF T
  <2> QED BY <1>3, <1>4, <2>1, NatSetInduction
<1>6. a + (b - a) = b /\ b <= TokenCount(t)
  BY <1>1
<1> QED BY <1>5, <1>6

\* What is surely long is long.
LEMMA LongAnyway ==
    ASSUME NEW t \in Texts, NEW s \in Nat \ {0}, NEW u \in Nat \ {0},
           s + u - 1 <= TokenCount(t), SurelyLong(t, s, u)
    PROVE  UnitChars(t, s, u) >= MinChars
<1> DEFINE e == s + u - 1
           a == PlaceOf(t, s)
           b == PlaceOf(t, e)
<1>1. /\ t \in Seq(Symbols) /\ Tokens(t) \in Seq(Symbols) /\ Len(Tokens(t)) = TokenCount(t)
      /\ TokenCount(t) \in Nat
  BY TokensType
<1>2. s \in 1..TokenCount(t) /\ e \in 1..TokenCount(t) /\ s <= e
  BY <1>1
<1> HIDE DEF e
<1>3. a \in 1..Len(t) /\ b \in 1..Len(t) /\ Tokens(t)[s] = t[a]
  BY <1>2, TokensType
<1>4. PICK p : Counts(p, t)
  BY <1>1, CharsCounted
<1>5. PICK q : Counts(q, Tokens(t))
  BY <1>1, CharsCounted
<1>6. a <= b /\ q[e] - q[s] <= p[b] - p[a]
  BY <1>2, <1>4, <1>5, TokensInside
<1> HIDE DEF a, b
<1>7. Chars(SubSeq(t, a, b)) = p[b] - p[a] + Width[t[a]]
  BY <1>1, <1>3, <1>4, <1>6, SpanChars
<1>8. Chars(SubSeq(Tokens(t), s, e)) = q[e] - q[s] + Width[Tokens(t)[s]]
  BY <1>1, <1>2, <1>5, SpanChars
<1>9. /\ p[b] \in Nat /\ p[a] \in Nat /\ Width[t[a]] \in Nat
      /\ q[e] \in Nat /\ q[s] \in Nat /\ MinChars \in Nat
  <2>1. e \in 1..Len(Tokens(t)) /\ s \in 1..Len(Tokens(t))
    BY <1>1, <1>2
  <2>2. p[b] \in Nat /\ p[a] \in Nat /\ q[e] \in Nat /\ q[s] \in Nat
    BY <1>3, <1>4, <1>5, <2>1, CountType
  <2>3. Width[t[a]] \in Nat
    BY <1>1, <1>3, WeightType
  <2> QED BY <2>2, <2>3, TextAssumption
<1>10. Chars(SubSeq(t, a, b)) >= MinChars
  <2>1. Chars(SubSeq(Tokens(t), s, e)) >= MinChars
    BY DEF SurelyLong, e
  <2>2. Width[Tokens(t)[s]] = Width[t[a]]
    BY <1>3
  <2>3. q[e] - q[s] + Width[t[a]] >= MinChars
    BY <1>8, <2>1, <2>2
  <2>4. p[b] - p[a] + Width[t[a]] >= MinChars
    BY <1>6, <1>9, <2>3
  <2> QED BY <1>7, <2>4
<1> QED BY <1>10 DEF UnitChars, a, b, e

\* A unit stays surely long when its first token moves to its end.
LEMMA LongRotated ==
    ASSUME NEW t \in Texts, NEW s \in Nat \ {0}, NEW u \in Nat \ {0},
           s + u <= TokenCount(t), SurelyLong(t, s, u), Tokens(t)[s] = Tokens(t)[s + u]
    PROVE  SurelyLong(t, s + 1, u)
<1> DEFINE k == Tokens(t)
           e == s + u - 1
<1>1. t \in Seq(Symbols) /\ k \in Seq(Symbols) /\ Len(k) = TokenCount(t) /\ Len(k) \in Nat
  BY TokensType
<1>2. PICK p : Counts(p, t)
  BY <1>1, CharsCounted
<1>3. PICK q : Counts(q, k)
  BY <1>1, CharsCounted
<1>4. /\ s \in 1..Len(k) /\ s + 1 \in 1..Len(k) /\ e \in 1..Len(k) /\ e + 1 \in 1..Len(k)
      /\ s <= e /\ s + 1 <= e + 1 /\ e + 1 = s + u /\ s + 1 + u - 1 = e + 1
  BY <1>1
<1>5. q[s + 1] = q[s] + Width[k[s + 1]] + 1 /\ q[e + 1] = q[e] + Width[k[e + 1]] + 1
  <2> HIDE DEF e
  <2> QED BY <1>1, <1>2, <1>3, <1>4, TokenAfter
<1> HIDE DEF k, e
<1>6. /\ Chars(SubSeq(k, s, e)) = q[e] - q[s] + Width[k[s]]
      /\ Chars(SubSeq(k, s + 1, e + 1)) = q[e + 1] - q[s + 1] + Width[k[s + 1]]
  BY <1>1, <1>3, <1>4, SpanChars
<1>7. /\ q[s] \in Nat /\ q[e] \in Nat /\ q[s + 1] \in Nat /\ q[e + 1] \in Nat
      /\ Width[k[s]] \in Nat /\ Width[k[s + 1]] \in Nat /\ Width[k[e + 1]] \in Nat
  <2>1. q[s] \in Nat /\ q[e] \in Nat /\ q[s + 1] \in Nat /\ q[e + 1] \in Nat
    BY <1>3, <1>4, CountType
  <2>2. Width[k[s]] \in Nat /\ Width[k[s + 1]] \in Nat /\ Width[k[e + 1]] \in Nat
    BY <1>1, <1>4, WeightType
  <2> QED BY <2>1, <2>2
<1>8. k[s] = k[e + 1]
  BY <1>4 DEF k
<1>9. Chars(SubSeq(k, s + 1, e + 1)) = Chars(SubSeq(k, s, e))
  BY <1>5, <1>6, <1>7, <1>8
<1> QED BY <1>4, <1>9 DEF SurelyLong, k, e

--------------------------------------------------------------------------------
(* What a run of equal units says about the tokens. *)
LEMMA Division ==
    ASSUME NEW k \in Nat, NEW u \in Nat \ {0}
    PROVE  \E d \in Nat : \E i \in 0..(u - 1) : k = d * u + i
<1> DEFINE T == {n \in Nat : \E d \in Nat : \E i \in 0..(u - 1) : n = d * u + i}
<1>1. 0 \in T
  <2>1. 0 = 0 * u + 0 /\ 0 \in 0..(u - 1)
    OBVIOUS
  <2> QED BY <2>1
<1>2. ASSUME NEW n \in Nat, n \in T PROVE n + 1 \in T
  <2>1. PICK d \in Nat, i \in 0..(u - 1) : n = d * u + i
    BY <1>2
  <2>2. CASE i + 1 \in 0..(u - 1)
    <3>1. d * u \in Nat
      OBVIOUS
    <3>2. n + 1 = d * u + (i + 1)
      BY <2>1, <3>1
    <3> QED BY <2>2, <3>2
  <2>3. CASE i + 1 \notin 0..(u - 1)
    <3>1. (d + 1) * u = d * u + u /\ d * u \in Nat
      BY Distribute
    <3>2. i + 1 = u
      BY <2>3
    <3>3. n + 1 = (d + 1) * u + 0 /\ d + 1 \in Nat /\ 0 \in 0..(u - 1)
      BY <2>1, <3>1, <3>2
    <3>4. \E f \in Nat : \E i1 \in 0..(u - 1) : n + 1 = f * u + i1
      BY <3>3, Zenon
    <3> QED BY <3>4
  <2> QED BY <2>2, <2>3
<1>3. k \in T
  <2> HIDE DEF T
  <2> QED BY <1>1, <1>2, NatSetInduction
<1> QED BY <1>3

LEMMA TimesGrows ==
    ASSUME NEW a \in Nat, NEW b \in Nat, a <= b, NEW u \in Nat
    PROVE  a * u <= b * u /\ a * u \in Nat /\ b * u \in Nat
<1> DEFINE T == {n \in Nat : a * u <= (a + n) * u}
<1>1. 0 \in T
  <2>1. a + 0 = a /\ a * u \in Nat
    OBVIOUS
  <2> QED BY <2>1
<1>2. ASSUME NEW n \in Nat, n \in T PROVE n + 1 \in T
  <2>1. (a + n + 1) * u = (a + n) * u + u /\ a + (n + 1) = a + n + 1
    <3>1. a + n \in Nat
      OBVIOUS
    <3> QED BY <3>1, Distribute
  <2>2. a * u <= (a + n) * u /\ (a + n) * u \in Nat /\ a * u \in Nat
    BY <1>2
  <2>3. a * u <= (a + n + 1) * u
    BY <2>1, <2>2
  <2> QED BY <2>1, <2>3
<1>3. b - a \in T
  <2>1. b - a \in Nat
    OBVIOUS
  <2> HIDE DEF T
  <2> QED BY <1>1, <1>2, <2>1, NatSetInduction
<1>4. a + (b - a) = b
  OBVIOUS
<1> QED BY <1>3, <1>4

LEMMA OneLess ==
    ASSUME NEW c \in Nat \ {0}, NEW u \in Nat
    PROVE  c * u = (c - 1) * u + u /\ (c - 1) * u \in Nat /\ c * u \in Nat
<1>1. c - 1 \in Nat /\ (c - 1) + 1 = c
  OBVIOUS
<1>2. ((c - 1) + 1) * u = (c - 1) * u + u
  BY <1>1, Distribute
<1> QED BY <1>1, <1>2

\* In a run every token is the one a unit later.
LEMMA Periodic ==
    ASSUME NEW t, TokenCount(t) \in Nat, NEW s \in Nat \ {0}, NEW u \in Nat \ {0},
           NEW c \in Nat, c >= 2, Repeated(t, s, u, c)
    PROVE  /\ s + c * u - 1 <= TokenCount(t)
           /\ \A x \in Nat : s <= x /\ x < s + (c - 1) * u => Tokens(t)[x] = Tokens(t)[x + u]
<1> DEFINE k == Tokens(t)
<1>1. c * u = (c - 1) * u + u /\ (c - 1) * u \in Nat
  BY OneLess
<1>2. s + c * u - 1 <= TokenCount(t)
  <2>1. SameUnit(t, s, s + (c - 1) * u, u)
    BY c - 1 \in 1..(c - 1) DEF Repeated
  <2>2. s + (c - 1) * u + u - 1 <= TokenCount(t)
    BY <2>1 DEF SameUnit
  <2> QED BY <1>1, <2>2
<1>3. ASSUME NEW d \in 0..(c - 1), NEW i \in 0..(u - 1) PROVE k[s + i] = k[s + d * u + i]
  <2>1. CASE d = 0
    <3>1. d * u = 0
      BY <2>1
    <3>2. s + d * u + i = s + i
      BY <3>1
    <3> QED BY <3>2
  <2>2. CASE d # 0
    <3>1. SameUnit(t, s, s + d * u, u)
      BY <2>2, d \in 1..(c - 1) DEF Repeated
    <3> QED BY <3>1 DEF SameUnit
  <2> QED BY <2>1, <2>2
<1> HIDE DEF k
<1>4. ASSUME NEW x \in Nat, s <= x, x < s + (c - 1) * u PROVE k[x] = k[x + u]
  <2>1. PICK d \in Nat, i \in 0..(u - 1) : x - s = d * u + i
    <3>1. x - s \in Nat
      BY <1>4
    <3> QED BY <3>1, Division
  <2>2. d * u \in Nat /\ (d + 1) * u = d * u + u /\ (d + 1) * u \in Nat
    BY Distribute
  <2>3. d < c - 1
    <3>1. c - 1 <= d => (c - 1) * u <= d * u
      BY c - 1 \in Nat, TimesGrows
    <3>2. ~((c - 1) * u <= d * u)
      BY <1>1, <1>4, <2>1, <2>2
    <3> QED BY <3>1, <3>2
  <2>4. k[s + i] = k[s + d * u + i] /\ k[s + i] = k[s + (d + 1) * u + i]
    <3>1. d \in 0..(c - 1) /\ d + 1 \in 0..(c - 1)
      BY <2>3
    <3> QED BY <1>3, <3>1
  <2>5. s + d * u + i = x
    BY <2>1, <2>2
  <2>6. s + (d + 1) * u + i = x + u
    BY <2>2, <2>5
  <2> QED BY <2>4, <2>5, <2>6
<1> QED BY <1>2, <1>4 DEF k

\* A run that is inside of another goes on as long as that.
LEMMA RunGoesOn ==
    ASSUME NEW t, TokenCount(t) \in Nat, NEW u \in Nat \ {0},
           NEW s \in Nat \ {0}, NEW c \in Nat, c >= 2, Repeated(t, s, u, c),
           NEW a \in Nat \ {0}, NEW r \in Nat \ {0}, Repeated(t, a, u, r),
           s <= a + (r - 1) * u, a + (r + 1) * u <= s + c * u
    PROVE  SameUnit(t, a, a + r * u, u)
<1> DEFINE k == Tokens(t)
<1>1. /\ s + c * u - 1 <= TokenCount(t)
      /\ \A x \in Nat : s <= x /\ x < s + (c - 1) * u => k[x] = k[x + u]
  BY Periodic
<1>2. /\ c * u = (c - 1) * u + u /\ (c - 1) * u \in Nat
      /\ r * u = (r - 1) * u + u /\ (r - 1) * u \in Nat
      /\ (r + 1) * u = r * u + u /\ r * u \in Nat
  BY OneLess, Distribute
<1>3. a + r * u + u - 1 <= TokenCount(t)
  <2>1. c * u \in Nat
    BY <1>2
  <2> QED BY <1>1, <1>2, <2>1
<1>4. ASSUME NEW i \in 0..(u - 1) PROVE k[a + i] = k[a + r * u + i]
  <2> DEFINE x == a + (r - 1) * u + i
  <2>1. k[a + i] = k[x]
    <3>1. CASE r = 1
      <4>1. (r - 1) * u = 0
        BY <3>1
      <4>2. x = a + i
        BY <4>1
      <4> QED BY <4>2
    <3>2. CASE r # 1
      <4>1. SameUnit(t, a, a + (r - 1) * u, u)
        BY <3>2, r - 1 \in 1..(r - 1) DEF Repeated
      <4> QED BY <4>1 DEF SameUnit
    <3> QED BY <3>1, <3>2
  <2>2. x \in Nat /\ s <= x /\ x + u = a + r * u + i
    BY <1>2
  <2>3. x < s + (c - 1) * u
    BY <1>2, <2>2
  <2> HIDE DEF k, x
  <2>4. k[x] = k[x + u]
    BY <1>1, <2>2, <2>3
  <2> QED BY <2>1, <2>2, <2>4
<1> QED BY <1>3, <1>4 DEF SameUnit, k

\* A run of units that are surely long, and what can be said of its start.
LongRun(t, u, s, c) ==
    s + u - 1 <= TokenCount(t) /\ SurelyLong(t, s, u) /\ Repeated(t, s, u, c)

\* Within its last occurrence a run is surely long wherever one looks at it.
LEMMA LongAlong ==
    ASSUME NEW t \in Texts, NEW u \in Nat \ {0}, NEW s \in Nat \ {0}, NEW c \in Nat,
           c >= 2, LongRun(t, u, s, c), NEW n \in Nat, n <= (c - 1) * u
    PROVE  SurelyLong(t, s + n, u)
<1>1. TokenCount(t) \in Nat
  BY TextFacts
<1>2. /\ s + c * u - 1 <= TokenCount(t)
      /\ \A x \in Nat : s <= x /\ x < s + (c - 1) * u => Tokens(t)[x] = Tokens(t)[x + u]
  BY <1>1, Periodic DEF LongRun
<1>3. c * u = (c - 1) * u + u /\ (c - 1) * u \in Nat
  BY OneLess
<1> DEFINE T == {m \in Nat : m <= (c - 1) * u => SurelyLong(t, s + m, u)}
<1>4. 0 \in T
  BY s + 0 = s DEF LongRun
<1>5. ASSUME NEW m \in Nat, m \in T PROVE m + 1 \in T
  <2> SUFFICES ASSUME m + 1 <= (c - 1) * u PROVE SurelyLong(t, s + (m + 1), u)
    OBVIOUS
  <2> DEFINE x == s + m
  <2>1. /\ x \in Nat \ {0} /\ s <= x /\ x < s + (c - 1) * u /\ x + u <= TokenCount(t)
        /\ s + (m + 1) = x + 1
    BY <1>1, <1>2, <1>3
  <2>2. SurelyLong(t, x, u)
    BY <1>3, <1>5
  <2> HIDE DEF T, x
  <2>3. Tokens(t)[x] = Tokens(t)[x + u]
    BY <1>2, <2>1
  <2>4. SurelyLong(t, x + 1, u)
    BY <2>1, <2>2, <2>3, LongRotated
  <2> QED BY <2>1, <2>4
<1>6. n \in T
  <2> HIDE DEF T
  <2> QED BY <1>4, <1>5, NatSetInduction
<1> QED BY <1>6

\* The scan stops at a run of two, and at the second unit of a run of three.
LEMMA RunSeen ==
    ASSUME NEW t \in Texts, NEW u \in Nat \ {0}, NEW s \in Nat \ {0}, NEW c \in Nat,
           LongRun(t, u, s, c), NEW a \in Nat, s <= a, a < s + u,
           c >= 2, s = a \/ c >= 3
    PROVE  /\ a + 2 * u - 1 <= TokenCount(t) /\ UnitChars(t, a, u) >= MinChars
           /\ SameUnit(t, a, a + u, u)
<1>1. TokenCount(t) \in Nat /\ s + c * u - 1 <= TokenCount(t)
  BY TextFacts, Periodic DEF LongRun
<1>2. a + 2 * u <= s + c * u
  <2>1. CASE s = a
    <3>1. 2 * u <= c * u /\ c * u \in Nat
      BY TimesGrows
    <3> QED BY <2>1, <3>1
  <2>2. CASE c >= 3
    <3>1. 3 * u <= c * u /\ c * u \in Nat
      BY <2>2, TimesGrows
    <3> QED BY <3>1
  <2> QED BY <2>1, <2>2
<1>3. c * u \in Nat /\ c * u = (c - 1) * u + u /\ (c - 1) * u \in Nat
  BY OneLess
<1>4. a + 2 * u - 1 <= TokenCount(t)
  BY <1>1, <1>2, <1>3
<1>5. SameUnit(t, a, a + 1 * u, u)
  <2>1. Repeated(t, a, u, 1) /\ (1 - 1) * u = 0 /\ (1 + 1) * u = 2 * u
    BY DEF Repeated
  <2>2. s <= a + (1 - 1) * u /\ a + (1 + 1) * u <= s + c * u
    BY <1>2, <2>1
  <2>3. Repeated(t, s, u, c) /\ a \in Nat \ {0} /\ 1 \in Nat \ {0}
    BY DEF LongRun
  <2> QED BY <1>1, <2>1, <2>2, <2>3, RunGoesOn
<1>6. SurelyLong(t, a, u)
  <2>1. a - s \in Nat /\ s + (a - s) = a
    OBVIOUS
  <2>2. a - s <= (c - 1) * u
    <3>1. 1 * u <= (c - 1) * u /\ 1 * u = u
      BY 1 <= c - 1, c - 1 \in Nat, TimesGrows
    <3> QED BY <1>3, <3>1
  <2> QED BY <2>1, <2>2, LongAlong
<1>7. UnitChars(t, a, u) >= MinChars
  <2>1. a + u - 1 <= TokenCount(t)
    BY <1>1, <1>4
  <2> QED BY <1>6, <2>1, LongAnyway
<1>8. 1 * u = u
  OBVIOUS
<1> QED BY <1>4, <1>5, <1>7, <1>8

\* A text is as long as the units that repeat in it.
LEMMA LongText ==
    ASSUME NEW t \in Texts, NEW u \in Nat \ {0}, NEW s \in Nat \ {0}, NEW c \in Nat,
           c >= 2, LongRun(t, u, s, c)
    PROVE  Chars(t) >= c * MinChars
<1> DEFINE k == Tokens(t)
<1>1. /\ t \in Seq(Symbols) /\ k \in Seq(Symbols) /\ Len(k) = TokenCount(t) /\ Len(k) \in Nat
      /\ Len(t) \in Nat /\ MinChars \in Nat
  BY TokensType, TextFacts, TextAssumption
<1>2. PICK p : Counts(p, t) /\ Chars(t) = p[Len(t)]
  BY <1>1, CharsCounted
<1>3. PICK q : Counts(q, k)
  BY <1>1, CharsCounted
<1>4. s + c * u - 1 <= Len(k) /\ c * u = (c - 1) * u + u /\ (c - 1) * u \in Nat
  <2>1. s + c * u - 1 <= TokenCount(t)
    BY <1>1, Periodic DEF LongRun
  <2> QED BY <1>1, <2>1, OneLess
<1> HIDE DEF k
<1>5. \A n \in 1..Len(k) : q[n] \in Nat /\ Width[k[n]] \in Nat /\ q[n] >= Width[k[n]]
  <2> TAKE n \in 1..Len(k)
  <2>1. q[n] \in Nat /\ Width[k[n]] \in Nat /\ Weight(k, n) \in Nat /\ Weight(k, n) >= Width[k[n]]
    BY <1>1, <1>3, CountType, WeightType
  <2>2. q[n] = q[n - 1] + Weight(k, n) /\ q[n - 1] \in Nat
    <3>1. n - 1 \in 0..Len(k)
      BY <1>1
    <3> QED BY <1>3, <3>1 DEF Counts
  <2> QED BY <2>1, <2>2
<1>6. ASSUME NEW b \in Nat \ {0}, b + u - 1 <= Len(k), SurelyLong(t, b, u)
      PROVE  q[b + u - 1] >= MinChars + q[b] - Width[k[b]]
  <2> DEFINE e == b + u - 1
  <2>1. b \in 1..Len(k) /\ e \in 1..Len(k) /\ b <= e
    BY <1>1, <1>6
  <2>2. Chars(SubSeq(k, b, e)) >= MinChars
    BY <1>6 DEF SurelyLong, k
  <2> HIDE DEF e
  <2>3. Chars(SubSeq(k, b, e)) = q[e] - q[b] + Width[k[b]]
    BY <1>1, <1>3, <2>1, SpanChars
  <2>4. q[e] \in Nat /\ q[b] \in Nat /\ Width[k[b]] \in Nat
    BY <1>5, <2>1
  <2>5. q[e] >= MinChars + q[b] - Width[k[b]]
    BY <1>1, <2>2, <2>3, <2>4
  <2> QED BY <2>5 DEF e
<1> DEFINE T == {n \in Nat : n <= c - 1 => q[s + n * u + u - 1] >= (n + 1) * MinChars}
<1>7. 0 \in T
  <2>1. s + u - 1 <= Len(k) /\ SurelyLong(t, s, u) /\ s \in 1..Len(k) /\ s + u - 1 \in 1..Len(k)
    BY <1>1, <1>4 DEF LongRun, k
  <2>2. q[s + u - 1] >= MinChars + q[s] - Width[k[s]]
    BY <1>6, <2>1
  <2>3. /\ q[s] \in Nat /\ Width[k[s]] \in Nat /\ q[s] >= Width[k[s]]
        /\ q[s + u - 1] \in Nat
    BY <1>5, <2>1
  <2>4. q[s + u - 1] >= MinChars
    BY <1>1, <2>2, <2>3
  <2>5. s + 0 * u + u - 1 = s + u - 1 /\ (0 + 1) * MinChars = MinChars
    BY <1>1
  <2> QED BY <2>4, <2>5
<1>8. ASSUME NEW n \in Nat, n \in T PROVE n + 1 \in T
  <2> SUFFICES ASSUME n + 1 <= c - 1
               PROVE  q[s + (n + 1) * u + u - 1] >= ((n + 1) + 1) * MinChars
    OBVIOUS
  <2> DEFINE e == s + n * u + u - 1
             b == e + 1
  <2>1. /\ (n + 1) * u = n * u + u /\ n * u \in Nat
        /\ ((n + 1) + 1) * MinChars = (n + 1) * MinChars + MinChars /\ (n + 1) * MinChars \in Nat
    BY <1>1, Distribute
  <2>2. (n + 1) * u <= (c - 1) * u
    BY TimesGrows
  <2>3. /\ b = s + (n + 1) * u /\ b \in Nat \ {0} /\ b + u - 1 <= Len(k)
        /\ b \in 1..Len(k) /\ e \in 1..Len(k) /\ b + u - 1 \in 1..Len(k)
    BY <1>1, <1>4, <2>1, <2>2
  <2>4. SurelyLong(t, b, u)
    <3>1. (n + 1) * u \in Nat
      BY <2>1
    <3> QED BY <2>2, <2>3, <3>1, LongAlong
  <2>5. q[e] >= (n + 1) * MinChars
    BY <1>8
  <2> HIDE DEF e, b, T
  <2>6. q[b + u - 1] >= MinChars + q[b] - Width[k[b]]
    BY <1>6, <2>3, <2>4
  <2>7. q[b] = q[e] + Width[k[b]] + 1
    BY <1>1, <1>2, <1>3, <2>3, TokenAfter DEF k, b
  <2>8. q[b] \in Nat /\ q[e] \in Nat /\ Width[k[b]] \in Nat /\ q[b + u - 1] \in Nat
    BY <1>5, <2>3
  <2>9. q[b + u - 1] >= (n + 1) * MinChars + MinChars
    <3> DEFINE v == (n + 1) * MinChars
               y == q[b + u - 1]
    <3>1. v \in Nat /\ q[e] >= v /\ y >= MinChars + q[b] - Width[k[b]] /\ y \in Nat
      BY <2>1, <2>5, <2>6, <2>8
    <3> HIDE DEF v, y
    <3>2. ASSUME NEW y0 \in Nat, NEW v0 \in Nat, NEW m0 \in Nat, NEW b0 \in Nat,
                 NEW e0 \in Nat, NEW w0 \in Nat,
                 y0 >= m0 + b0 - w0, b0 = e0 + w0 + 1, e0 >= v0
          PROVE  y0 >= v0 + m0
      BY <3>2
    <3>3. y >= v + MinChars
      BY <1>1, <2>7, <2>8, <3>1, <3>2
    <3> QED BY <3>3 DEF v, y
  <2> QED BY <2>1, <2>3, <2>9
<1>9. c - 1 \in T
  <2> HIDE DEF T
  <2> QED BY <1>7, <1>8, c - 1 \in Nat, NatSetInduction
<1> DEFINE z == s + (c - 1) * u + u - 1
<1>10. q[z] >= c * MinChars /\ z \in 1..Len(k)
  BY <1>1, <1>4, <1>9
<1> HIDE DEF z, T
<1>11. p[PlaceOf(t, z)] >= q[z]
  <2>1. 1 \in 1..Len(k) /\ 1 <= z /\ z \in 1..TokenCount(t) /\ 1 \in 1..TokenCount(t)
    BY <1>1, <1>10
  <2>2. q[z] - q[1] <= p[PlaceOf(t, z)] - p[PlaceOf(t, 1)]
    BY <1>2, <1>3, <2>1, TokensInside DEF k
  <2>3. q[1] = Width[k[1]]
    <3>1. q[1] = q[1 - 1] + Weight(k, 1) /\ q[0] = 0
      BY <1>3, <2>1 DEF Counts
    <3>2. Weight(k, 1) = Width[k[1]] /\ Width[k[1]] \in Nat
      BY <1>5, <2>1 DEF Weight
    <3> QED BY <3>1, <3>2
  <2> DEFINE a == PlaceOf(t, 1)
             d == PlaceOf(t, z)
  <2>4. a \in 1..Len(t) /\ d \in 1..Len(t) /\ k[1] = t[a]
    BY <2>1, TokensType DEF k
  <2> HIDE DEF a, d
  <2>5. p[a] >= Width[t[a]] /\ p[a] \in Nat /\ p[d] \in Nat /\ Width[t[a]] \in Nat
    <3>1. a - 1 \in 0..Len(t)
      BY <1>1, <2>4
    <3>2. p[a] = p[a - 1] + Weight(t, a) /\ p[a - 1] \in Nat
      BY <1>2, <2>4, <3>1 DEF Counts
    <3>3. /\ Weight(t, a) \in Nat /\ Weight(t, a) >= Width[t[a]] /\ Width[t[a]] \in Nat
          /\ p[a] \in Nat /\ p[d] \in Nat
      BY <1>1, <1>2, <2>4, WeightType, CountType
    <3> QED BY <3>2, <3>3
  <2>6. q[z] \in Nat /\ q[1] \in Nat
    BY <1>5, <1>10, <2>1
  <2>7. q[z] - q[1] <= p[d] - p[a]
    BY <2>2 DEF a, d
  <2>8. p[d] >= q[z]
    BY <2>3, <2>4, <2>5, <2>6, <2>7
  <2> QED BY <2>8 DEF d
<1>12. p[PlaceOf(t, z)] <= p[Len(t)] /\ p[PlaceOf(t, z)] \in Nat /\ p[Len(t)] \in Nat
  <2>1. PlaceOf(t, z) \in 1..Len(t)
    BY <1>1, <1>10, TokensType
  <2>2. PlaceOf(t, z) \in 0..Len(t) /\ Len(t) \in 0..Len(t) /\ PlaceOf(t, z) <= Len(t)
    BY <1>1, <2>1
  <2> QED BY <1>1, <1>2, <2>2, CountsGrow
<1>13. c * MinChars \in Nat /\ q[z] \in Nat
  BY <1>1, <1>5, <1>10
<1> QED BY <1>2, <1>10, <1>11, <1>12, <1>13

--------------------------------------------------------------------------------
(* The chunks. What is counted before a chunk are the chunks before it that        *)
(* repeat another one, and the chunk at hand is not one of them.                   *)
CountedBefore(t, k, i) == {j \in RepeatingChunks(t, k) : i = 0 \/ j < i}

LEMMA FirstChunk ==
    ASSUME NEW t \in Texts, NEW k, NEW i \in Nat, IsFirst(i, Chunks(t, k))
    PROVE  CountedBefore(t, k, i) = {} /\ i \notin RepeatingChunks(t, k)
<1>1. Chunks(t, k) \subseteq Nat \ {0}
  BY TextFacts
<1>2. RepeatingChunks(t, k) \subseteq Chunks(t, k)
  BY DEF RepeatingChunks
<1>3. ASSUME NEW m \in RepeatingChunks(t, k) PROVE i # 0 /\ i < m
  <2>1. PICK j \in Chunks(t, k) : m \in SameRun(t, k, j)
    BY DEF RepeatingChunks
  <2>2. j < m /\ j \in Nat /\ m \in Nat
    BY <1>1, <1>2, <2>1 DEF SameRun
  <2>3. i # 0 /\ i <= j
    BY <1>1, <2>1 DEF IsFirst
  <2> QED BY <2>2, <2>3
<1> QED BY <1>1, <1>2, <1>3 DEF CountedBefore

Repeats(t, k, i) ==
    IF Chars(Chunk(t, k, i)) >= MinChars THEN SameRun(t, k, i) ELSE {}
Behind(t, k, i) == {j \in Chunks(t, k) \ Repeats(t, k, i) : j > i}

LEMMA NextChunk ==
    ASSUME NEW t \in Texts, NEW k, NEW i \in Chunks(t, k), i \notin RepeatingChunks(t, k),
           NEW n \in Nat, IsFirst(n, Behind(t, k, i))
    PROVE  /\ CountedBefore(t, k, n) = CountedBefore(t, k, i) \cup Repeats(t, k, i)
           /\ CountedBefore(t, k, i) \cap Repeats(t, k, i) = {}
           /\ n \notin RepeatingChunks(t, k)
<1> DEFINE repeats == Repeats(t, k, i)
           C == Chunks(t, k)
           R == RepeatingChunks(t, k)
           long(j) == Chars(Chunk(t, k, j)) >= MinChars
<1>1. C \subseteq Nat \ {0} /\ R \subseteq C
  BY TextFacts DEF RepeatingChunks
<1>2. \A j : j \in R <=> j \in C /\ long(j) /\ \E m \in C : j \in SameRun(t, k, m)
  BY DEF RepeatingChunks
<1>3. \A m, j : j \in SameRun(t, k, m) <=>
          /\ j \in C /\ j > m
          /\ \A x \in C : m <= x /\ x <= j => Chunk(t, k, x) = Chunk(t, k, m)
  <2>1. \A m \in Nat : \A j \in Nat : \A x \in Nat : x \in m..j <=> m <= x /\ x <= j
    OBVIOUS
  <2> QED BY <1>1, <2>1 DEF SameRun
<1>4. \A j \in C : j \in Nat
  BY <1>1
<1>5. /\ i \in C /\ i \notin R
      /\ \A j : j \in repeats <=> long(i) /\ j \in SameRun(t, k, i)
  BY DEF Repeats
<1>6. \A j \in C : j > i /\ j \notin repeats => n # 0 /\ n <= j
  BY <1>1 DEF IsFirst, Behind
<1>7. n # 0 => n \in C /\ n > i /\ n \notin repeats
  BY DEF IsFirst, Behind
<1> HIDE DEF repeats, C, R, long
<1>8. repeats \subseteq R
  <2> SUFFICES ASSUME NEW j \in repeats PROVE j \in R
    OBVIOUS
  <2>1. j \in SameRun(t, k, i) /\ long(i) /\ j \in C /\ j > i
    BY <1>3, <1>5
  <2>2. Chunk(t, k, j) = Chunk(t, k, i)
    BY <1>3, <1>4, <1>5, <2>1
  <2>3. long(j)
    BY <2>1, <2>2 DEF long
  <2> QED BY <1>2, <1>5, <2>1, <2>3
<1>9. ASSUME NEW j \in repeats, n # 0 PROVE j < n
  <2> SUFFICES ASSUME n <= j PROVE FALSE
    <3>1. j \in Nat
      BY <1>3, <1>4, <1>5
    <3> QED BY <3>1
  <2>1. n \in C /\ n > i
    BY <1>7, <1>9
  <2>2. j \in Nat /\ \A x \in C : i <= x /\ x <= j => Chunk(t, k, x) = Chunk(t, k, i)
    BY <1>3, <1>4, <1>5
  <2>3. \A x \in C : x <= n => x <= j
    BY <1>4, <2>2
  <2>4. n \in SameRun(t, k, i)
    BY <1>3, <2>1, <2>2, <2>3
  <2> QED BY <1>5, <1>7, <1>9, <2>4
<1>10. ASSUME NEW j \in R, j > i, n = 0 \/ j < n PROVE j \in repeats
  BY <1>1, <1>4, <1>6, <1>10
<1>11. n \notin R
  <2> SUFFICES ASSUME n \in R PROVE FALSE
    OBVIOUS
  <2>1. n # 0 /\ n \in C /\ n > i /\ n \notin repeats /\ long(n)
    BY <1>1, <1>2, <1>7
  <2>2. PICK j \in C : n \in SameRun(t, k, j)
    BY <1>2
  <2>3. /\ j < n /\ j \in Nat /\ i \in Nat
        /\ \A x \in C : j <= x /\ x <= n => Chunk(t, k, x) = Chunk(t, k, j)
    BY <1>3, <1>4, <1>5, <2>2
  <2>4. CASE j <= i
    <3>1. Chunk(t, k, i) = Chunk(t, k, j) /\ Chunk(t, k, n) = Chunk(t, k, j)
      BY <1>5, <2>1, <2>3, <2>4
    <3>2. long(i)
      BY <2>1, <3>1 DEF long
    <3>3. j = i => n \in repeats
      BY <1>5, <2>2, <3>2
    <3>4. j # i => i \in SameRun(t, k, j)
      BY <1>3, <1>4, <1>5, <2>1, <2>3, <2>4
    <3>5. j # i => i \in R
      BY <1>2, <1>5, <3>2, <3>4
    <3> QED BY <1>5, <2>1, <3>3, <3>5
  <2>5. CASE j > i
    <3>1. j \in repeats
      BY <1>6, <2>3, <2>5
    <3>2. long(i) /\ j \in SameRun(t, k, i)
      BY <1>5, <3>1
    <3>3. \A x \in C : i <= x /\ x <= n => Chunk(t, k, x) = Chunk(t, k, i)
      <4> TAKE x \in C
      <4> HAVE i <= x /\ x <= n
      <4>1. x <= j \/ j <= x
        BY <1>4, <2>3
      <4>2. x <= j => Chunk(t, k, x) = Chunk(t, k, i)
        BY <1>3, <3>2
      <4>3. Chunk(t, k, j) = Chunk(t, k, i)
        BY <1>3, <2>3, <2>5, <3>2
      <4>4. j <= x => Chunk(t, k, x) = Chunk(t, k, j)
        BY <2>3
      <4> QED BY <4>1, <4>2, <4>3, <4>4
    <3>4. n \in SameRun(t, k, i)
      BY <1>3, <2>1, <3>3
    <3> QED BY <1>5, <2>1, <3>2, <3>4
  <2> QED BY <2>3, <2>4, <2>5
<1>12. \A j \in R : j \in CountedBefore(t, k, n) <=> j < i \/ j \in repeats
  <2> TAKE j \in R
  <2>1. j \in Nat /\ i \in Nat /\ j # i /\ (j \in repeats => j > i) /\ (n # 0 => i < n)
    BY <1>1, <1>3, <1>4, <1>5, <1>7
  <2>2. j \in CountedBefore(t, k, n) <=> n = 0 \/ j < n
    BY DEF CountedBefore, R
  <2> QED BY <1>9, <1>10, <2>1, <2>2
<1>13. \A j : j \in CountedBefore(t, k, i) <=> j \in R /\ j < i
  BY <1>1, <1>5 DEF CountedBefore, R
<1>14. CountedBefore(t, k, n) = CountedBefore(t, k, i) \cup repeats
  <2>1. CountedBefore(t, k, n) \subseteq R
    BY DEF CountedBefore, R
  <2> QED BY <1>8, <1>12, <1>13, <2>1
<1>15. CountedBefore(t, k, i) \cap repeats = {}
  <2>1. \A j \in repeats : j \in Nat /\ i \in Nat /\ j > i
    BY <1>3, <1>4, <1>5
  <2> QED BY <1>13, <2>1
<1> QED BY <1>11, <1>14, <1>15 DEF R, repeats

--------------------------------------------------------------------------------
(* The scan. A run that begins at s is seen by a count that is at most one less    *)
(* than its repetitions.                                                           *)
Seen(count, t, u, s) ==
    \A c \in Nat : c >= 2 /\ LongRun(t, u, s, c) => count >= 1 /\ c <= count + 2

\* Where the scan does not find a run, none begins, and a run that began before
\* and within a unit has only two occurrences.
LEMMA NoneFound ==
    ASSUME NEW t \in Texts, NEW u \in Nat \ {0}, NEW s \in Nat \ {0}, NEW a \in Nat,
           s <= a, a < s + u, NEW count \in Nat, s = a \/ count >= 1,
           ~(/\ a + 2 * u - 1 <= TokenCount(t) /\ UnitChars(t, a, u) >= MinChars
             /\ SameUnit(t, a, a + u, u))
    PROVE  Seen(count, t, u, s)
<1> SUFFICES ASSUME NEW c \in Nat, c >= 2, LongRun(t, u, s, c)
             PROVE  count >= 1 /\ c <= count + 2
  BY DEF Seen
<1>1. ~(s = a \/ c >= 3)
  BY RunSeen
<1> QED BY <1>1

\* What a run that is over has counted.
LEMMA RunCounted ==
    ASSUME NEW t \in Texts, NEW u \in Nat \ {0}, NEW a \in Nat \ {0}, NEW r \in Nat,
           r >= 2, Repeated(t, a, u, r), ~SameUnit(t, a, a + r * u, u),
           NEW s \in Nat \ {0}, s <= a + (r - 1) * u, a < s + u,
           NEW count \in Nat, count >= r - 1
    PROVE  Seen(count, t, u, s)
<1> SUFFICES ASSUME NEW c \in Nat, c >= 2, LongRun(t, u, s, c)
             PROVE  count >= 1 /\ c <= count + 2
  BY DEF Seen
<1>1. c <= r + 1
  <2> SUFFICES ASSUME c >= r + 2 PROVE FALSE
    OBVIOUS
  <2>1. (r + 2) * u <= c * u /\ c * u \in Nat
    BY TimesGrows
  <2>2. ((r + 1) + 1) * u = (r + 1) * u + u /\ (r + 1) * u \in Nat /\ (r + 1) + 1 = r + 2
    BY r + 1 \in Nat, Distribute
  <2>3. a + (r + 1) * u <= s + c * u
    BY <2>1, <2>2
  <2>4. TokenCount(t) \in Nat /\ Repeated(t, s, u, c) /\ r \in Nat \ {0}
    BY TextFacts DEF LongRun
  <2> QED BY <2>3, <2>4, RunGoesOn
<1> QED BY <1>1

LEMMA UnitCharsType ==
    ASSUME NEW t \in Texts, NEW u \in Nat \ {0}, NEW s \in Nat \ {0},
           s + u - 1 <= TokenCount(t)
    PROVE  UnitChars(t, s, u) \in Int
<1> DEFINE a == PlaceOf(t, s)
           b == PlaceOf(t, s + u - 1)
<1>1. t \in Seq(Symbols) /\ a \in 1..Len(t) /\ b \in 1..Len(t)
  <2>1. s \in 1..TokenCount(t) /\ s + u - 1 \in 1..TokenCount(t)
    BY TextFacts
  <2> QED BY <2>1, TokensType
<1> HIDE DEF a, b
<1> DEFINE w == SubSeq(t, a, b)
<1>2. w \in Seq(Symbols) /\ Len(w) \in Nat /\ UnitChars(t, s, u) = Chars(w)
  BY <1>1 DEF UnitChars, a, b
<1> HIDE DEF w
<1>3. PICK p : Counts(p, w) /\ Chars(w) = p[Len(w)]
  BY <1>2, CharsCounted
<1>4. p \in [0..Len(w) -> Nat]
  BY <1>3 DEF Counts
<1>5. p[Len(w)] \in Nat
  BY <1>2, <1>4
<1> QED BY <1>2, <1>3, <1>5

--------------------------------------------------------------------------------
(* The invariant: the units below the current one are done, and so are the starts  *)
(* before the current one, except for those within a unit of it, whose runs are    *)
(* found from here on.                                                             *)
RepeatingCounted ==
    pc = "chunks" =>
        /\ extra = Cardinality(CountedBefore(text, separator, chunk))
        /\ chunk \notin RepeatingChunks(text, separator)
ScanFresh == pc \in {"begin", "chunks"} => unit = 1 /\ start = 1
UnitsCounted ==
    pc \in {"scan", "extend"} =>
        \A u \in Nat \ {0} : u < unit => \A s \in Nat \ {0} : Seen(best, text, u, s)
StartsCounted ==
    pc \in {"scan", "extend"} =>
        \A s \in Nat \ {0} : s < start =>
            Seen(best, text, unit, s) \/ (best >= 1 /\ start < s + unit)
CompleteInv ==
    /\ FoundInv /\ threshold >= 2
    /\ RepeatingCounted /\ ScanFresh /\ UnitsCounted /\ StartsCounted
    /\ DetectionComplete /\ CountAccurate

LEMMA CompleteInit == Init => CompleteInv
<1> SUFFICES ASSUME Init PROVE CompleteInv
  OBVIOUS
<1>1. threshold >= 2
  BY TextAssumption DEF Init
<1> QED
  BY <1>1, FoundInit DEF CompleteInv, Init, RepeatingCounted, ScanFresh, UnitsCounted,
     StartsCounted, DetectionComplete, CountAccurate

\* How often a unit occurs at least when it must be found.
Enough == IF threshold = 2 THEN 2 ELSE threshold + 1

\* A count that has seen every run is right to return.
LEMMA ReturnedRight ==
    ASSUME CompleteInv, Return(best), text' = text, threshold' = threshold,
           \A u \in 1..MaxUnitTokens, s \in 1..TokenCount(text) : Seen(best, text, u, s)
    PROVE  DetectionComplete' /\ CountAccurate'
<1> USE DEF CompleteInv, FoundInv, TypeOK
<1>1. ASSUME result' = 0 PROVE DetectionComplete'
  <2>1. best < threshold - 1
    BY <1>1 DEF Return
  <2>2. ASSUME NEW u \in 1..MaxUnitTokens, NEW s \in 1..TokenCount(text),
               s + u - 1 <= TokenCount(text), SurelyLong(text, s, u),
               Repeated(text, s, u, Enough)
        PROVE  FALSE
    <3>1. Enough \in Nat /\ Enough >= 2 /\ LongRun(text, u, s, Enough)
      BY <2>2 DEF Enough, LongRun
    <3>2. best >= 1 /\ Enough <= best + 2
      BY <3>1 DEF Seen
    <3> QED BY <2>1, <3>2 DEF Enough
  <2> QED BY <2>2 DEF DetectionComplete, Enough
<1>2. result' # 0 => DetectionComplete'
  BY DEF DetectionComplete
<1>3. ASSUME result' > 0 PROVE CountAccurate'
  <2>1. result' = best
    BY <1>3 DEF Return
  <2>2. ASSUME NEW u \in 1..MaxUnitTokens, NEW s \in 1..TokenCount(text),
               s + u - 1 <= TokenCount(text), SurelyLong(text, s, u),
               Repeated(text, s, u, best + 3)
        PROVE  FALSE
    <3>1. best + 3 \in Nat /\ best + 3 >= 2 /\ LongRun(text, u, s, best + 3)
      BY <2>2 DEF LongRun
    <3>2. best + 3 <= best + 2
      BY <3>1 DEF Seen
    <3> QED BY <3>2
  <2> QED BY <2>1, <2>2 DEF CountAccurate
<1>4. ~(result' > 0) => CountAccurate'
  BY DEF CountAccurate
<1> QED BY <1>1, <1>2, <1>3, <1>4

\* A step to a state that has not returned says nothing of the result.
LEMMA NotReturned ==
    ASSUME pc' # "done"
    PROVE  DetectionComplete' /\ CountAccurate'
BY DEF DetectionComplete, CountAccurate

LEMMA SeparatorTried ==
    ASSUME TypeOK, NEW k \in Nat, TrySeparator(k), text' = text,
           unit' = 1 /\ start' = 1
    PROVE  RepeatingCounted' /\ ScanFresh' /\ UnitsCounted' /\ StartsCounted' /\ pc' # "done"
<1>1. separator' = k /\ extra' = 0 /\ pc' = "chunks" /\ chunk' \in Nat
      /\ IsFirst(chunk', Chunks(text, k))
  BY TextFacts DEF TrySeparator, TypeOK
<1>2. /\ CountedBefore(text, k, chunk') = {} /\ chunk' \notin RepeatingChunks(text, k)
      /\ text \in Texts
  BY <1>1, FirstChunk DEF TypeOK
<1>3. RepeatingCounted'
  BY <1>1, <1>2, FS_EmptySet DEF RepeatingCounted
<1> QED BY <1>1, <1>3 DEF ScanFresh, UnitsCounted, StartsCounted

\* A text that is too short for as many long units as must be found.
LEMMA TooShort ==
    ASSUME TypeOK, threshold >= 2, Chars(text) < MinChars * threshold,
           NEW u \in Nat \ {0}, NEW s \in Nat \ {0}
    PROVE  ~LongRun(text, u, s, Enough)
<1> SUFFICES ASSUME LongRun(text, u, s, Enough) PROVE FALSE
  OBVIOUS
<1>1. Enough \in Nat /\ Enough >= 2 /\ threshold <= Enough /\ threshold \in Nat
  BY DEF Enough, TypeOK
<1>2. Chars(text) >= Enough * MinChars
  BY <1>1, LongText DEF TypeOK
<1>3. MinChars \in Nat
  BY TextAssumption
<1>4. threshold * MinChars <= Enough * MinChars /\ Enough * MinChars \in Nat
  BY <1>1, <1>3, TimesGrows
<1>5. threshold * MinChars = MinChars * threshold /\ MinChars * threshold \in Nat
  BY <1>1, <1>3
<1>6. Chars(text) \in Int
  <2>1. text \in Seq(Symbols) /\ Len(text) \in Nat
    BY TextFacts, TextAssumption DEF TypeOK
  <2>2. PICK p : Counts(p, text) /\ Chars(text) = p[Len(text)]
    BY <2>1, CharsCounted
  <2>3. p \in [0..Len(text) -> Nat]
    BY <2>2 DEF Counts
  <2> QED BY <2>1, <2>2, <2>3
<1> HIDE DEF Enough
<1> QED BY <1>2, <1>4, <1>5, <1>6

LEMMA BeginComplete == CompleteInv /\ Begin => CompleteInv'
<1> SUFFICES ASSUME CompleteInv, Begin PROVE CompleteInv'
  OBVIOUS
<1>0. /\ FoundInv /\ TypeOK /\ threshold >= 2 /\ unit = 1 /\ start = 1 /\ pc = "begin"
      /\ text' = text /\ threshold' = threshold /\ unit' = unit /\ start' = start
      /\ FoundInv'
  BY BeginStep DEF CompleteInv, FoundInv, ScanFresh, Begin, scan
<1>1. CASE Chars(text) < MinChars * threshold
  <2>1. Return(0)
    BY <1>1 DEF Begin
  <2>2. pc' = "done" /\ result' = 0
    BY <1>0, <2>1 DEF Return
  <2>3. DetectionComplete'
    <3>1. ASSUME NEW u \in 1..MaxUnitTokens, NEW s \in 1..TokenCount(text)
          PROVE  ~LongRun(text, u, s, Enough)
      <4>1. u \in Nat \ {0} /\ s \in Nat \ {0}
        BY TextAssumption, TextFacts, <1>0 DEF TypeOK
      <4> QED BY <1>0, <1>1, <4>1, TooShort
    <3> QED BY <1>0, <2>2, <3>1 DEF DetectionComplete, LongRun, Enough
  <2>4. CountAccurate'
    BY <2>2 DEF CountAccurate
  <2> QED BY <1>0, <2>2, <2>3, <2>4
          DEF CompleteInv, RepeatingCounted, ScanFresh, UnitsCounted, StartsCounted
<1>2. CASE ~(Chars(text) < MinChars * threshold)
  <2>1. TrySeparator(1)
    BY <1>2 DEF Begin
  <2> QED BY <1>0, <2>1, SeparatorTried, NotReturned DEF CompleteInv
<1> QED BY <1>1, <1>2

LEMMA CountChunkComplete == CompleteInv /\ CountChunk => CompleteInv'
<1> SUFFICES ASSUME CompleteInv, CountChunk PROVE CompleteInv'
  OBVIOUS
<1>0. /\ FoundInv /\ TypeOK /\ threshold >= 2 /\ unit = 1 /\ start = 1 /\ pc = "chunks"
      /\ text' = text /\ threshold' = threshold /\ unit' = unit /\ start' = start
      /\ pc' = "chunks" /\ separator' = separator /\ FoundInv'
  BY CountChunkStep DEF CompleteInv, FoundInv, ScanFresh, CountChunk, scan
<1> DEFINE repeats == Repeats(text, separator, chunk)
           B == CountedBefore(text, separator, chunk)
<1>1. /\ extra' = extra + Cardinality(repeats) /\ chunk' \in 0..Len(text)
      /\ IsFirst(chunk', Behind(text, separator, chunk))
  BY DEF CountChunk, Repeats, Behind
<1>2. /\ chunk \in Chunks(text, separator) /\ text \in Texts
      /\ extra = Cardinality(B) /\ chunk \notin RepeatingChunks(text, separator)
  BY <1>0 DEF CountChunk, CompleteInv, FoundInv, ChunksCounted, RepeatingCounted, TypeOK
<1>3. chunk' \in Nat
  BY <1>1, <1>2, TextFacts
<1>4. /\ CountedBefore(text, separator, chunk') = B \cup repeats /\ B \cap repeats = {}
      /\ chunk' \notin RepeatingChunks(text, separator)
  BY <1>1, <1>2, <1>3, NextChunk
<1>5. IsFiniteSet(B) /\ IsFiniteSet(repeats)
  <2>1. B \subseteq Chunks(text, separator) /\ repeats \subseteq Chunks(text, separator)
    BY DEF CountedBefore, RepeatingChunks, SameRun, Repeats
  <2>2. IsFiniteSet(Chunks(text, separator))
    BY <1>2, TextFacts
  <2> QED BY <2>1, <2>2, FS_Subset
<1> HIDE DEF repeats, B
<1>6. Cardinality(B \cup repeats) = Cardinality(B) + Cardinality(repeats)
  <2>1. Cardinality(B \cup repeats)
          = Cardinality(B) + Cardinality(repeats) - Cardinality(B \cap repeats)
    BY <1>5, FS_Union, Zenon
  <2>2. Cardinality(B \cap repeats) = 0
    BY <1>4, FS_EmptySet
  <2>3. Cardinality(B) \in Nat /\ Cardinality(repeats) \in Nat
    BY <1>5, FS_CardinalityType
  <2> QED BY <2>1, <2>2, <2>3
<1>7. RepeatingCounted'
  BY <1>0, <1>1, <1>2, <1>4, <1>6 DEF RepeatingCounted
<1>8. pc' # "done" /\ ScanFresh' /\ UnitsCounted' /\ StartsCounted'
  BY <1>0 DEF ScanFresh, UnitsCounted, StartsCounted
<1> QED BY <1>0, <1>7, <1>8, NotReturned DEF CompleteInv

LEMMA EndChunksComplete == CompleteInv /\ EndChunks => CompleteInv'
<1> SUFFICES ASSUME CompleteInv, EndChunks PROVE CompleteInv'
  OBVIOUS
<1>0. /\ FoundInv /\ TypeOK /\ threshold >= 2 /\ unit = 1 /\ start = 1 /\ pc = "chunks"
      /\ chunk = 0 /\ text' = text /\ threshold' = threshold /\ unit' = unit /\ start' = start
      /\ FoundInv'
  BY EndChunksStep DEF CompleteInv, FoundInv, ScanFresh, EndChunks, scan
<1>1. CASE extra >= threshold - 1
  <2>1. Return(extra)
    BY <1>1 DEF EndChunks
  <2>2. pc' = "done" /\ result' = extra /\ extra > 0 /\ separator \in 1..3
    BY <1>0, <1>1, <2>1 DEF Return, TypeOK
  <2>3. CountedBefore(text, separator, 0) = RepeatingChunks(text, separator)
    BY DEF CountedBefore
  <2>4. extra = Cardinality(RepeatingChunks(text, separator))
    BY <1>0, <2>3 DEF CompleteInv, RepeatingCounted
  <2>5. CountAccurate'
    BY <1>0, <2>2, <2>4 DEF CountAccurate
  <2>6. DetectionComplete'
    BY <2>2, <1>0 DEF DetectionComplete, TypeOK
  <2> QED BY <1>0, <2>2, <2>5, <2>6
          DEF CompleteInv, RepeatingCounted, ScanFresh, UnitsCounted, StartsCounted
<1>2. CASE ~(extra >= threshold - 1) /\ extra = 0 /\ separator < Len(Separators)
  <2>1. TrySeparator(separator + 1) /\ separator + 1 \in Nat
    BY <1>0, <1>2 DEF EndChunks, TypeOK
  <2> QED BY <1>0, <2>1, SeparatorTried, NotReturned DEF CompleteInv
<1>3. CASE ~(extra >= threshold - 1) /\ ~(extra = 0 /\ separator < Len(Separators))
  <2>1. pc' = "scan"
    BY <1>3 DEF EndChunks
  <2>2. UnitsCounted' /\ StartsCounted'
    BY <1>0 DEF UnitsCounted, StartsCounted
  <2> QED BY <1>0, <2>1, <2>2, NotReturned DEF CompleteInv, RepeatingCounted, ScanFresh
<1> QED BY <1>1, <1>2, <1>3

\* What every step of the scan keeps.
LEMMA ScanStep ==
    ASSUME CompleteInv, FoundInv', pc' \in {"scan", "extend"}, threshold' = threshold,
           UnitsCounted', StartsCounted'
    PROVE  CompleteInv'
<1>1. RepeatingCounted' /\ ScanFresh'
  BY DEF RepeatingCounted, ScanFresh
<1>2. threshold >= 2 /\ pc' # "done"
  BY DEF CompleteInv
<1> QED BY <1>1, <1>2, NotReturned DEF CompleteInv

LEMMA PassOverComplete == CompleteInv /\ PassOver => CompleteInv'
<1> SUFFICES ASSUME CompleteInv, PassOver PROVE CompleteInv'
  OBVIOUS
<1>1. /\ text' = text /\ unit' = unit /\ best' = best /\ start' = start + 1 /\ pc = "scan"
      /\ pc' = "scan" /\ threshold' = threshold
      /\ unit \in Nat \ {0} /\ start \in Nat \ {0} /\ best \in Nat /\ text \in Texts
      /\ start + 2 * unit - 1 <= TokenCount(text)
      /\ UnitChars(text, start, unit) < MinChars
            \/ ~SameUnit(text, start, start + unit, unit)
  BY DEF PassOver, CompleteInv, FoundInv, TypeOK
<1>2. FoundInv'
  BY PassOverStep DEF CompleteInv
<1>3. ~(/\ start + 2 * unit - 1 <= TokenCount(text) /\ UnitChars(text, start, unit) >= MinChars
        /\ SameUnit(text, start, start + unit, unit))
  <2>1. UnitChars(text, start, unit) \in Int
    <3>1. start + unit - 1 <= TokenCount(text)
      BY <1>1, TextFacts
    <3> QED BY <1>1, <3>1, UnitCharsType
  <2>2. MinChars \in Int
    BY TextAssumption
  <2> QED BY <1>1, <2>1, <2>2
<1>4. ASSUME NEW s \in Nat \ {0}, s < start + 1 PROVE Seen(best, text, unit, s)
  <2>1. CASE s = start
    BY <1>1, <1>3, <2>1, NoneFound
  <2>2. CASE s # start
    <3>1. s < start
      BY <1>1, <1>4, <2>2
    <3>2. Seen(best, text, unit, s) \/ (best >= 1 /\ start < s + unit)
      BY <1>1, <3>1 DEF CompleteInv, StartsCounted
    <3>3. best >= 1 /\ start < s + unit => Seen(best, text, unit, s)
      BY <1>1, <1>3, <3>1, NoneFound
    <3> QED BY <3>2, <3>3
  <2> QED BY <2>1, <2>2
<1>5. UnitsCounted' /\ StartsCounted'
  BY <1>1, <1>4 DEF CompleteInv, UnitsCounted, StartsCounted
<1> QED BY <1>1, <1>2, <1>5, ScanStep

LEMMA NextUnitComplete == CompleteInv /\ NextUnit => CompleteInv'
<1> SUFFICES ASSUME CompleteInv, NextUnit PROVE CompleteInv'
  OBVIOUS
<1>1. /\ text' = text /\ unit' = unit + 1 /\ best' = best /\ start' = 1 /\ pc = "scan"
      /\ pc' = "scan" /\ threshold' = threshold
      /\ unit \in Nat \ {0} /\ start \in Nat \ {0} /\ best \in Nat /\ text \in Texts
      /\ start + 2 * unit - 1 > TokenCount(text)
  BY DEF NextUnit, CompleteInv, FoundInv, TypeOK
<1>2. FoundInv'
  BY PassOverStep DEF CompleteInv
<1>3. TokenCount(text) \in Nat
  BY <1>1, TextFacts
<1>4. ASSUME NEW s \in Nat \ {0} PROVE Seen(best, text, unit, s)
  <2>1. CASE s >= start
    <3>1. ~(s + 2 * unit - 1 <= TokenCount(text)) /\ s < s + unit
      BY <1>1, <1>3, <2>1
    <3> QED BY <1>1, <3>1, NoneFound
  <2>2. CASE s < start
    <3>1. Seen(best, text, unit, s) \/ (best >= 1 /\ start < s + unit)
      BY <1>1, <2>2 DEF CompleteInv, StartsCounted
    <3>2. ~(/\ start + 2 * unit - 1 <= TokenCount(text)
            /\ UnitChars(text, start, unit) >= MinChars
            /\ SameUnit(text, start, start + unit, unit))
      BY <1>1, <1>3
    <3>3. best >= 1 /\ start < s + unit => Seen(best, text, unit, s)
      BY <1>1, <2>2, <3>2, NoneFound
    <3> QED BY <3>1, <3>3
  <2> QED BY <1>1, <2>1, <2>2
<1>5. UnitsCounted'
  <2> SUFFICES ASSUME NEW u \in Nat \ {0}, u < unit + 1, NEW s \in Nat \ {0}
               PROVE  Seen(best, text, u, s)
    BY <1>1 DEF UnitsCounted
  <2>1. CASE u = unit
    BY <1>4, <2>1
  <2>2. CASE u # unit
    <3>1. u < unit
      BY <1>1, <2>2
    <3> QED BY <1>1, <3>1 DEF CompleteInv, UnitsCounted
  <2> QED BY <2>1, <2>2
<1>6. StartsCounted'
  BY <1>1 DEF StartsCounted
<1> QED BY <1>1, <1>2, <1>5, <1>6, ScanStep

LEMMA RunStepsComplete == CompleteInv /\ (FindRun \/ ExtendRun) => CompleteInv'
<1> SUFFICES ASSUME CompleteInv, FindRun \/ ExtendRun PROVE CompleteInv'
  OBVIOUS
<1>1. /\ text' = text /\ unit' = unit /\ best' = best /\ start' = start
      /\ pc \in {"scan", "extend"} /\ pc' = "extend" /\ threshold' = threshold
  BY DEF FindRun, ExtendRun
<1>2. FoundInv'
  BY FindRunStep, ExtendRunStep DEF CompleteInv
<1>3. UnitsCounted' /\ StartsCounted'
  BY <1>1 DEF CompleteInv, UnitsCounted, StartsCounted
<1> QED BY <1>1, <1>2, <1>3, ScanStep

LEMMA EndRunComplete == CompleteInv /\ EndRun => CompleteInv'
<1> SUFFICES ASSUME CompleteInv, EndRun PROVE CompleteInv'
  OBVIOUS
<1>1. /\ text' = text /\ unit' = unit /\ start' = start + run * unit /\ pc = "extend"
      /\ pc' = "scan" /\ threshold' = threshold
      /\ best' = IF run - 1 > best THEN run - 1 ELSE best
      /\ unit \in Nat \ {0} /\ start \in Nat \ {0} /\ best \in Nat /\ text \in Texts
      /\ run \in Nat /\ ~SameUnit(text, start, next, unit)
  BY DEF EndRun, CompleteInv, FoundInv, TypeOK
<1>2. FoundInv'
  BY EndRunStep DEF CompleteInv
<1>3. run >= 2 /\ next = start + run * unit /\ Repeated(text, start, unit, run)
  BY <1>1 DEF CompleteInv, FoundInv, RunFound
<1>4. best' \in Nat /\ best' >= run - 1 /\ best' >= best /\ best' >= 1
  BY <1>1, <1>3
<1>5. ASSUME NEW u, NEW s, Seen(best, text, u, s) PROVE Seen(best', text, u, s)
  BY <1>1, <1>4, <1>5 DEF Seen
<1>6. UnitsCounted'
  BY <1>1, <1>5 DEF CompleteInv, UnitsCounted
<1>7. ASSUME NEW s \in Nat \ {0}, s < start + run * unit
      PROVE  Seen(best', text, unit, s) \/ (best' >= 1 /\ start + run * unit < s + unit)
  <2>1. /\ run * unit = (run - 1) * unit + unit /\ (run - 1) * unit \in Nat
        /\ run * unit \in Nat
    BY <1>1, <1>3, OneLess
  <2>2. CASE s <= start + (run - 1) * unit /\ start < s + unit
    <3> DEFINE count == best'
    <3>1. count \in Nat /\ count >= run - 1
      BY <1>4
    <3>2. ~SameUnit(text, start, start + run * unit, unit)
      BY <1>1, <1>3
    <3> HIDE DEF count
    <3>3. Seen(count, text, unit, s)
      BY <1>1, <1>3, <2>2, <3>1, <3>2, RunCounted
    <3> QED BY <3>3 DEF count
  <2>3. CASE s > start + (run - 1) * unit
    BY <1>1, <1>4, <2>1, <2>3
  <2>4. CASE start >= s + unit
    <3>1. s < start
      BY <1>1, <2>4
    <3>2. Seen(best, text, unit, s)
      BY <1>1, <2>4, <3>1 DEF CompleteInv, StartsCounted
    <3> QED BY <1>5, <3>2
  <2> QED BY <1>1, <2>1, <2>2, <2>3, <2>4
<1>8. StartsCounted'
  BY <1>1, <1>7 DEF StartsCounted
<1> QED BY <1>1, <1>2, <1>6, <1>8, ScanStep

LEMMA EndScanComplete == CompleteInv /\ EndScan => CompleteInv'
<1> SUFFICES ASSUME CompleteInv, EndScan PROVE CompleteInv'
  OBVIOUS
<1>1. /\ text' = text /\ threshold' = threshold /\ pc = "scan" /\ Return(best) /\ ~InScan
      /\ unit \in Nat \ {0} /\ best \in Nat /\ text \in Texts /\ threshold >= 2
  BY DEF EndScan, scan, CompleteInv, FoundInv, TypeOK
<1>2. FoundInv'
  BY EndScanStep DEF CompleteInv
<1>3. TokenCount(text) \in Nat /\ MaxUnitTokens \in Nat
  BY <1>1, TextFacts, TextAssumption
<1>4. ASSUME NEW u \in 1..MaxUnitTokens, NEW s \in 1..TokenCount(text)
      PROVE  Seen(best, text, u, s)
  <2>0. u \in Nat \ {0} /\ s \in Nat \ {0}
    BY <1>3
  <2>1. CASE u < unit
    BY <1>1, <2>0, <2>1 DEF CompleteInv, UnitsCounted
  <2>2. CASE u >= unit
    <3>1. 2 * unit > TokenCount(text)
      BY <1>1, <1>3, <2>0, <2>2 DEF InScan
    <3>2. ~(s + 2 * u - 1 <= TokenCount(text)) /\ s < s + u
      BY <1>1, <1>3, <2>0, <2>2, <3>1
    <3> QED BY <1>1, <2>0, <3>2, NoneFound
  <2> QED BY <1>1, <2>0, <2>1, <2>2
<1>5. DetectionComplete' /\ CountAccurate'
  BY <1>1, <1>4, ReturnedRight
<1>6. pc' = "done"
  BY <1>1 DEF Return
<1> QED BY <1>1, <1>2, <1>5, <1>6
        DEF CompleteInv, RepeatingCounted, ScanFresh, UnitsCounted, StartsCounted

LEMMA CompleteNext == CompleteInv /\ [Next]_vars => CompleteInv'
<1> SUFFICES ASSUME CompleteInv, [Next]_vars PROVE CompleteInv'
  OBVIOUS
<1>1. ASSUME UNCHANGED vars PROVE CompleteInv'
  <2>1. FoundInv'
    BY <1>1, FoundNext DEF CompleteInv
  <2> QED BY <1>1, <2>1 DEF vars, scan, CompleteInv, RepeatingCounted, ScanFresh,
             UnitsCounted, StartsCounted, DetectionComplete, CountAccurate
<1> QED
  BY <1>1, BeginComplete, CountChunkComplete, EndChunksComplete, PassOverComplete,
     RunStepsComplete, EndRunComplete, NextUnitComplete, EndScanComplete DEF Next, Done

LEMMA CompleteInvariance == Spec => []CompleteInv
BY CompleteInit, CompleteNext, PTL DEF Spec

\* No loop escapes the detector (nanoclaw_support.py:430): whatever the text, a
\* long unit that repeats more often than required is reported.
THEOREM CompleteCorrect == Spec => []DetectionComplete
<1>1. CompleteInv => DetectionComplete
  BY DEF CompleteInv
<1> QED BY <1>1, CompleteInvariance, PTL

\* The count that is returned (nanoclaw_support.py:436) is that of the repeating
\* chunks, or that of the longest run but for one repetition.
THEOREM CountCorrect == Spec => []CountAccurate
<1>1. CompleteInv => CountAccurate
  BY DEF CompleteInv
<1> QED BY <1>1, CompleteInvariance, PTL
=============================================================================
