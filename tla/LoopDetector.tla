----------------------------- MODULE LoopDetector ------------------------------
(* nanoclaw_looping_response_repeat_count: does a response repeat itself? The      *)
(* agent loop records a turn as bad when it does; the reward uses a copy of the    *)
(* same code. Chunks between separators are tried first, then runs of any unit of  *)
(* tokens. One step per iteration of the loops of the code.                        *)
(*                                                                                 *)
(* A normalized text is a sequence of words and of the separators "</think>",      *)
(* blank line and new line: "\n\n\n" is a blank line and a new line, and neither   *)
(* starts or ends a text. Two words in a row have one space between them.          *)
EXTENDS Integers, Sequences, FiniteSets

CONSTANTS
    Words,          \* the words that occur
    Width,          \* characters of each symbol, "think", "blank" and "line" included
    Texts,          \* the texts explored
    MinChars,       \* NANOCLAW_LOOPING_RESPONSE_MIN_CHARS
    Thresholds,     \* values of NANOCLAW_LOOPING_RESPONSE_MIN_CONSECUTIVE_REPEATS
    MaxUnitTokens   \* max_unit_tokens, 512 in the code

Gaps == {"blank", "line"}
Symbols == Words \cup {"think"} \cup Gaps
Normalized(t) ==
    /\ t # <<>> /\ t[1] \notin Gaps /\ t[Len(t)] \notin Gaps
    /\ \A i \in 1..(Len(t) - 1) : t[i + 1] = "line" => t[i] # "line"
    /\ \A i \in 1..(Len(t) - 1) : t[i + 1] = "blank" => t[i] # "line"
ASSUME TextAssumption ==
    /\ Words \cap ({"think"} \cup Gaps) = {} /\ Width \in [Symbols -> Nat]
    /\ \A g \in Gaps : Width[g] > 0
    /\ Texts \subseteq Seq(Symbols) /\ \A t \in Texts : Normalized(t)
    /\ MinChars \in Nat \ {0} /\ Thresholds \subseteq Nat /\ MaxUnitTokens \in Nat

VARIABLES
    text,       \* the normalized response
    threshold,  \* min_consecutive_repeats, at least 2
    pc,
    separator,  \* index of the separator tried
    chunk,      \* where the current chunk starts in the text, 0 after the last one
    extra,      \* extra_repeats of this separator
    unit,       \* unit_token_count
    start,      \* start_token_index, counted from 1
    run,        \* run_length
    next,       \* next_start
    best,       \* best_extra_repeats
    result      \* the count returned

scan == <<unit, start, run, next, best>>
vars == <<text, threshold, pc, separator, chunk, extra, scan, result>>

Chars(t) ==
    LET upTo[n \in 0..Len(t)] ==
            IF n = 0 THEN 0
            ELSE upTo[n - 1] + Width[t[n]] +
                 (IF n > 1 /\ {t[n - 1], t[n]} \cap Gaps = {} THEN 1 ELSE 0)
    IN  upTo[Len(t)]

-------------------------------------------------------------------------------
(* The chunks between separators, stripped and without the empty ones. A chunk is  *)
(* known by the place of its first word.                                           *)
Separators == <<{"think"}, {"blank"}, {"blank", "line"}>>
Inner(t, k) == {i \in 1..Len(t) : t[i] \notin Gaps \cup Separators[k]}
Together(t, k, i, j) == \A m \in i..j : t[m] \notin Separators[k]
Chunks(t, k) ==
    {i \in Inner(t, k) : \A j \in Inner(t, k) : j < i => ~Together(t, k, j, i)}
Chunk(t, k, i) ==
    SubSeq(t, i, CHOOSE j \in Inner(t, k) :
        /\ i <= j /\ Together(t, k, i, j)
        /\ \A m \in Inner(t, k) : m > j => ~Together(t, k, i, m))

(* The chunks right after one that equal it. *)
SameRun(t, k, i) ==
    {j \in Chunks(t, k) :
        j > i /\ \A m \in Chunks(t, k) \cap (i..j) : Chunk(t, k, m) = Chunk(t, k, i)}
IsFirst(i, places) ==
    IF places = {} THEN i = 0 ELSE i \in places /\ \A j \in places : i <= j

Init ==
    /\ text \in Texts
    /\ threshold \in {IF n < 2 THEN 2 ELSE n : n \in Thresholds}
    /\ pc = "begin" /\ separator = 1 /\ chunk = 0 /\ extra = 0
    /\ unit = 1 /\ start = 1 /\ run = 0 /\ next = 0 /\ best = 0 /\ result = 0

Return(count) ==
    /\ pc' = "done"
    /\ result' = IF count >= threshold - 1 THEN count ELSE 0

TrySeparator(k) ==
    /\ separator' = k
    /\ chunk' \in 0..Len(text) /\ IsFirst(chunk', Chunks(text, k))
    /\ extra' = 0
    /\ pc' = "chunks"

Begin ==
    /\ pc = "begin"
    /\ IF Chars(text) < MinChars * threshold
       THEN Return(0) /\ UNCHANGED <<separator, chunk, extra>>
       ELSE TrySeparator(1) /\ UNCHANGED result
    /\ UNCHANGED <<text, threshold, scan>>

(* consecutive_loop_chunks: a chunk that is too short is passed over, another one  *)
(* with all that repeat it.                                                        *)
CountChunk ==
    /\ pc = "chunks" /\ chunk # 0
    /\ LET repeats == IF Chars(Chunk(text, separator, chunk)) >= MinChars
                      THEN SameRun(text, separator, chunk) ELSE {}
       IN  /\ extra' = extra + Cardinality(repeats)
           /\ chunk' \in 0..Len(text)
           /\ IsFirst(chunk', {i \in Chunks(text, separator) \ repeats : i > chunk})
    /\ UNCHANGED <<text, threshold, pc, separator, scan, result>>

(* continuous_separator_loop_count: the first separator that shows a repetition is *)
(* the last one tried, whether or not it shows enough.                             *)
EndChunks ==
    /\ pc = "chunks" /\ chunk = 0
    /\ IF extra >= threshold - 1
       THEN Return(extra) /\ UNCHANGED <<separator, chunk, extra>>
       ELSE /\ IF extra = 0 /\ separator < Len(Separators)
               THEN TrySeparator(separator + 1)
               ELSE pc' = "scan" /\ UNCHANGED <<separator, chunk, extra>>
            /\ UNCHANGED result
    /\ UNCHANGED <<text, threshold, scan>>

-------------------------------------------------------------------------------
(* continuous_token_loop_count *)
TokenPlaces(t) == {i \in 1..Len(t) : t[i] \notin Gaps}
TokenCount(t) == Cardinality(TokenPlaces(t))
PlaceOf(t, n) ==
    CHOOSE i \in TokenPlaces(t) : Cardinality(TokenPlaces(t) \cap (1..i)) = n
Tokens(t) == [n \in 1..TokenCount(t) |-> t[PlaceOf(t, n)]]
UnitChars(t, s, u) == Chars(SubSeq(t, PlaceOf(t, s), PlaceOf(t, s + u - 1)))
SameUnit(t, s, r, u) ==
    /\ r + u - 1 <= TokenCount(t)
    /\ \A i \in 0..(u - 1) : Tokens(t)[s + i] = Tokens(t)[r + i]

InScan == unit <= MaxUnitTokens /\ 2 * unit <= TokenCount(text)

(* A unit that is not repeated, passed over as a whole. *)
PassOverUnit ==
    /\ pc = "scan" /\ InScan /\ start + 2 * unit - 1 <= TokenCount(text)
    /\ \/ UnitChars(text, start, unit) < MinChars
       \/ ~SameUnit(text, start, start + unit, unit)
    /\ start' = start + unit
    /\ UNCHANGED <<text, threshold, pc, separator, chunk, extra, unit, run, next, best,
                   result>>

(* A unit at the next start: long enough and repeated at once, or passed over. *)
PassOver ==
    /\ pc = "scan" /\ InScan /\ start + 2 * unit - 1 <= TokenCount(text)
    /\ \/ UnitChars(text, start, unit) < MinChars
       \/ ~SameUnit(text, start, start + unit, unit)
    /\ start' = start + 1
    /\ UNCHANGED <<text, threshold, pc, separator, chunk, extra, unit, run, next, best,
                   result>>

FindRun ==
    /\ pc = "scan" /\ InScan /\ start + 2 * unit - 1 <= TokenCount(text)
    /\ UnitChars(text, start, unit) >= MinChars
    /\ SameUnit(text, start, start + unit, unit)
    /\ run' = 2
    /\ next' = start + 2 * unit
    /\ pc' = "extend"
    /\ UNCHANGED <<text, threshold, separator, chunk, extra, unit, start, best, result>>

ExtendRun ==
    /\ pc = "extend" /\ SameUnit(text, start, next, unit)
    /\ run' = run + 1
    /\ next' = next + unit
    /\ UNCHANGED <<text, threshold, pc, separator, chunk, extra, unit, start, best,
                   result>>

(* The end of a run that counts its first occurrence as a repetition. *)
EndRunWhole ==
    /\ pc = "extend" /\ ~SameUnit(text, start, next, unit)
    /\ best' = IF run > best THEN run ELSE best
    /\ start' = start + run * unit
    /\ pc' = "scan"
    /\ UNCHANGED <<text, threshold, separator, chunk, extra, unit, run, next, result>>

(* The end of a run that forgets the longer ones before it. *)
EndRunLast ==
    /\ pc = "extend" /\ ~SameUnit(text, start, next, unit)
    /\ best' = run - 1
    /\ start' = start + run * unit
    /\ pc' = "scan"
    /\ UNCHANGED <<text, threshold, separator, chunk, extra, unit, run, next, result>>

(* The run is over, and the scan goes on behind it. *)
EndRun ==
    /\ pc = "extend" /\ ~SameUnit(text, start, next, unit)
    /\ best' = IF run - 1 > best THEN run - 1 ELSE best
    /\ start' = start + run * unit
    /\ pc' = "scan"
    /\ UNCHANGED <<text, threshold, separator, chunk, extra, unit, run, next, result>>

NextUnit ==
    /\ pc = "scan" /\ InScan /\ start + 2 * unit - 1 > TokenCount(text)
    /\ unit' = unit + 1
    /\ start' = 1
    /\ UNCHANGED <<text, threshold, pc, separator, chunk, extra, run, next, best,
                   result>>

EndScan ==
    /\ pc = "scan" /\ ~InScan
    /\ Return(best)
    /\ UNCHANGED <<text, threshold, separator, chunk, extra, scan>>

Done == pc = "done" /\ UNCHANGED vars

Next ==
    \/ Begin \/ CountChunk \/ EndChunks
    \/ PassOver \/ FindRun \/ ExtendRun \/ EndRun \/ NextUnit \/ EndScan
    \/ Done

Spec == Init /\ [][Next]_vars

-------------------------------------------------------------------------------
(* The values of the variables. *)
TypeOK ==
    /\ text \in Texts /\ threshold \in Nat
    /\ pc \in {"begin", "chunks", "scan", "extend", "done"}
    /\ separator \in 1..3 /\ chunk \in Nat /\ extra \in Nat
    /\ unit \in Nat \ {0} /\ start \in Nat \ {0}
    /\ run \in Nat /\ next \in Nat /\ best \in Nat /\ result \in Nat

(* A unit of tokens that occurs count times in a row. *)
Repeated(t, s, u, count) == \A c \in 1..(count - 1) : SameUnit(t, s, s + c * u, u)

(* A chunk that is long enough and is followed by nothing but itself up to another *)
(* occurrence.                                                                     *)
RepeatedChunk(t, k) ==
    \E i \in Chunks(t, k) : Chars(Chunk(t, k, i)) >= MinChars /\ SameRun(t, k, i) # {}

(* No turn is recorded as looping without a repetition: what was found is either a *)
(* long chunk that is repeated at once, or as many occurrences of a long unit in a *)
(* row as were counted. For chunks the count adds up the repetitions of different  *)
(* chunks (nanoclaw_support.py:382), so it says no more than that.                 *)
DetectionSound ==
    pc = "done" /\ result > 0 =>
        \/ \E k \in 1..3 : RepeatedChunk(text, k)
        \/ \E u \in 1..TokenCount(text), s \in 1..TokenCount(text) :
              Repeated(text, s, u, result + 1) /\ UnitChars(text, s, u) >= MinChars

(* A unit that is long enough whatever separates its tokens. *)
SurelyLong(t, s, u) == Chars(SubSeq(Tokens(t), s, s + u - 1)) >= MinChars

(* No loop escapes: a unit that occurs twice in a row is found when that suffices, *)
(* and one that occurs more often than required in any case. The scan goes on      *)
(* behind a run it has found (nanoclaw_support.py:426), so that it may see one     *)
(* occurrence less than there are of a run that begins inside the other.           *)
DetectionComplete ==
    pc = "done" /\ result = 0 =>
        \A u \in 1..MaxUnitTokens, s \in 1..TokenCount(text) :
            s + u - 1 <= TokenCount(text) /\ SurelyLong(text, s, u) =>
                ~Repeated(text, s, u, IF threshold = 2 THEN 2 ELSE threshold + 1)

(* The count, which is a metric of training and multiplies the penalty of the      *)
(* reward: the number of long chunks that repeat the chunk before them, or the     *)
(* repetitions of the longest run but for one that the scan may have missed.       *)
RepeatingChunks(t, k) ==
    {i \in Chunks(t, k) : /\ Chars(Chunk(t, k, i)) >= MinChars
                       /\ \E j \in Chunks(t, k) : i \in SameRun(t, k, j)}
CountAccurate ==
    pc = "done" /\ result > 0 =>
        \/ \E k \in 1..3 : result = Cardinality(RepeatingChunks(text, k))
        \/ \A u \in 1..MaxUnitTokens, s \in 1..TokenCount(text) :
              s + u - 1 <= TokenCount(text) /\ SurelyLong(text, s, u) =>
                  ~Repeated(text, s, u, result + 3)
================================================================================
