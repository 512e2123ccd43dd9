---------------------------- MODULE Subsequences ----------------------------
(***************************************************************************)
(* Array.prototype.filter of JavaScript and Vec::retain of Rust.  It is    *)
(* SelectSeq with a set in place of the test, written as a recursive       *)
(* function so that DataLemmas can prove what it returns.                  *)
(***************************************************************************)
EXTENDS Integers, Sequences

\* What s has in T, in the order of s.
Retain(s, T) ==
    LET kept[i \in 0 .. Len(s)] ==
            IF i = 0 THEN <<>>
            ELSE IF s[i] \in T THEN Append(kept[i - 1], s[i]) ELSE kept[i - 1]
    IN  kept[Len(s)]
=============================================================================
