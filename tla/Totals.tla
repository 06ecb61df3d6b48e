------------------------------- MODULE Totals -------------------------------
(***************************************************************************)
(* Sums of natural-valued functions over finite sets.  A sum is written    *)
(* as the number of units the function stands for: f[i] distinct units of  *)
(* each i in S.  Stakes, balances and voting powers are added up this way  *)
(* everywhere in the project, because the library's facts on cardinality   *)
(* then give the laws of sums without an induction.                        *)
(***************************************************************************)
EXTENDS Integers, FiniteSets

\* One pair <<i, k>> for each of the f[i] units of each i in S.
Units(f, S) == UNION { {i} \X (1 .. f[i]) : i \in S }

\* The sum of f[i] over the finite set S.
Total(f, S) == Cardinality(Units(f, S))
=============================================================================
