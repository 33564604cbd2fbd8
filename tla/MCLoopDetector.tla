---------------------------- MODULE MCLoopDetector -----------------------------
(* Instances of LoopDetector for TLC. *)
EXTENDS LoopDetector

CONSTANTS
    MaxSymbols,     \* bound on texts with any separators
    MaxList,        \* length of lists of words, odd
    MaxTokens       \* bound on texts of words only

Widths == [s \in Symbols |->
    CASE s = "think" -> 8 [] s = "blank" -> 2 [] s = "line" -> 1 [] s = "x" -> 1
      [] OTHER -> 3]

(* All short texts, lists of words with a separator after each, and longer texts   *)
(* of words only, which first occur in the order of this sequence.                 *)
Order == <<"v", "w", "x">>
ShortTexts ==
    {t \in UNION {[1..n -> Symbols \ {"w"}] : n \in 1..MaxSymbols} : Normalized(t)}
Lists == {t \in [1..MaxList -> Words \cup Gaps] :
              \A i \in 1..MaxList : t[i] \in Gaps <=> i % 2 = 0}
InOrder(t) ==
    \A i \in DOMAIN t, k \in 2..Len(Order) :
        t[i] = Order[k] => \E j \in 1..(i - 1) : t[j] = Order[k - 1]
WordTexts == {t \in UNION {[1..n -> Words] : n \in 1..MaxTokens} : InOrder(t)}
AllTexts == ShortTexts \cup Lists \cup WordTexts
================================================================================
