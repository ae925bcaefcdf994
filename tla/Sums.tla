-------------------------------- MODULE Sums --------------------------------
(***************************************************************************)
(* The total of a sequence of numbers, as a recursive function: what the   *)
(* runner keeps as a running length.                                       *)
(***************************************************************************)
EXTENDS Integers, Sequences

Total(numbers) ==
    LET UpTo[n \in 0..Len(numbers)] == IF n = 0 THEN 0 ELSE UpTo[n - 1] + numbers[n]
    IN  UpTo[Len(numbers)]
=============================================================================
