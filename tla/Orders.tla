-------------------------------- MODULE Orders --------------------------------
(***************************************************************************)
(* Filters and sums of sequences, as recursive functions of the position:  *)
(* what the loops of the limiter and of the artifact store do to their     *)
(* queues.                                                                 *)
(***************************************************************************)
EXTENDS Naturals, Sequences

\* What is left of s without the members of gone, in its order.
Removed(s, gone) ==
    LET kept[i \in 0..Len(s)] ==
          IF i = 0 THEN <<>>
          ELSE IF s[i] \in gone THEN kept[i - 1] ELSE Append(kept[i - 1], s[i])
    IN  kept[Len(s)]

\* What the numbers of s come to, up to each position, and in all.
Totals(s) ==
    LET sum[i \in 0..Len(s)] == IF i = 0 THEN 0 ELSE sum[i - 1] + s[i] IN sum

Total(s) == Totals(s)[Len(s)]
=============================================================================
