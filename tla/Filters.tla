------------------------------- MODULE Filters -------------------------------
(***************************************************************************)
(* Array.prototype.filter, for the pages of the web application.  It takes *)
(* the set of the positions that pass and not a predicate: about SelectSeq *)
(* of the module Sequences no prover knows anything.                       *)
(***************************************************************************)
EXTENDS Naturals, Sequences

\* The elements of s at the positions in keep, in their order.
Kept(s, keep) ==
  LET sofar[n \in 0 .. Len(s)] == IF n = 0 THEN <<>>
                                  ELSE IF n \in keep THEN Append(sofar[n - 1], s[n])
                                  ELSE sofar[n - 1]
  IN sofar[Len(s)]
=============================================================================
