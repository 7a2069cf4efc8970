-------------------------------- MODULE Lists ---------------------------------
(***************************************************************************)
(* Operators on sequences by recursion over the length, in a form that     *)
(* theorems can be about: with sets where the library has predicates.      *)
(***************************************************************************)
EXTENDS Integers, Sequences

\* What n steps F make of a.
Iterated(F(_, _), a, n) ==
  LET after[k \in 0 .. n] == IF k = 0 THEN a ELSE F(after[k - 1], k)
  IN  after[n]

\* The elements of s that are in T, in their order.
Those(s, T) ==
  LET those[n \in 0 .. Len(s)] ==
        IF n = 0 THEN <<>>
        ELSE IF s[n] \in T THEN Append(those[n - 1], s[n]) ELSE those[n - 1]
  IN  those[Len(s)]

\* The sum of a sequence of numbers.
Total(s) ==
  LET total[n \in 0 .. Len(s)] == IF n = 0 THEN 0 ELSE total[n - 1] + s[n]
  IN  total[Len(s)]

\* Each element of s followed by each of t, those of t changing fastest.
Extended(s, t) ==
  [k \in 1 .. Len(s) * Len(t) |->
     Append(s[((k - 1) \div Len(t)) + 1], t[((k - 1) % Len(t)) + 1])]
=============================================================================
