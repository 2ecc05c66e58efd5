-------------------------------- MODULE Lists --------------------------------
(***************************************************************************)
(* Lists the way the handlers of both servers build them: cut to a         *)
(* length, filtered, and filled one item at a time without repetition.     *)
(***************************************************************************)
EXTENDS Integers, Sequences, SequencesExt

\* truncate and take.
Shorten(s, n) == SubSeq(s, 1, IF Len(s) < n THEN Len(s) ELSE n)

\* The numbers of P from 1 to n, in their order.
Ascending(P, n) ==
    LET upto[k \in 0..n] ==
          IF k = 0 THEN <<>>
          ELSE IF k \in P THEN Append(upto[k - 1], k) ELSE upto[k - 1]
    IN  upto[n]

\* What a filter leaves of s: the items at the places in P.
At(s, P) == LET places == Ascending(P, Len(s))
            IN  [k \in DOMAIN places |-> s[places[k]]]

\* The loop that pushes every item that is not in out yet, until out is full.
PushNew(out, items, limit) ==
    LET pushed[n \in 0..Len(items)] ==
          IF n = 0 THEN out
          ELSE LET before == pushed[n - 1]
               IN  IF Len(before) >= limit \/ Contains(before, items[n]) THEN before
                   ELSE Append(before, items[n])
    IN  pushed[Len(items)]
=============================================================================
