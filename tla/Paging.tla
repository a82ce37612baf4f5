------------------------------- MODULE Paging --------------------------------
(***************************************************************************)
(* Pages of a query's result.  ORDER BY fixes a strict order B, as a set   *)
(* of pairs, on the rows R; rows it does not compare come in an order that *)
(* PostgreSQL chooses anew for every query.                                *)
(***************************************************************************)
EXTENDS Naturals, FiniteSets

Least(a, b) == IF a <= b THEN a ELSE b

\* D can be the first k rows.
Prefix(D, k, R, B) ==
  /\ D \subseteq R
  /\ Cardinality(D) = Least(k, Cardinality(R))
  /\ \A x, y \in R : y \in D /\ <<x, y>> \in B => x \in D

\* The rows that OFFSET off LIMIT n, or off < rn AND rn <= off + n, can leave.
Pages(R, B, off, n) ==
  {P \in SUBSET R : \E D \in SUBSET (R \ P) :
     Prefix(D, off, R, B) /\ Prefix(D \cup P, off + n, R, B)}

\* ROW_NUMBER() - 1 of a row that B compares with every other.
Rank(x, R, B) == Cardinality({y \in R : <<y, x>> \in B})

Untied(x, R, B) == \A y \in R \ {x} : <<x, y>> \in B \/ <<y, x>> \in B
===============================================================================
