------------------------------- MODULE Sums -------------------------------
(***************************************************************************)
(* The sum of the values f[x] of the elements of S, as the number of units *)
(* that the elements have: without recursion, so that it can be reasoned   *)
(* about.  The values are natural numbers.                                 *)
(***************************************************************************)
EXTENDS Naturals, FiniteSets

UnitsOf(f, S) == UNION {{x} \X (1..f[x]) : x \in S}

SumOf(f, S) == Cardinality(UnitsOf(f, S))
=============================================================================
