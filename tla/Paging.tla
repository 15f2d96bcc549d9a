-------------------------------- MODULE Paging --------------------------------
(***************************************************************************)
(* What a storage query with ORDER BY and LIMIT returns of the rows it     *)
(* selects.                                                                *)
(***************************************************************************)
EXTENDS Integers, Sequences, FiniteSets

Least(a, b) == IF a < b THEN a ELSE b

\* ORDER BY ... LIMIT n, where Before orders the rows of S strictly: as many as
\* there are up to n, in order, and whatever is left out comes after them.  There
\* is one such listing.
Listings(S, n, Before(_, _)) ==
  {s \in [1 .. Least(n, Cardinality(S)) -> S] :
     /\ \A i, j \in DOMAIN s : i < j => Before(s[i], s[j])
     /\ \A m \in S : \/ \E i \in DOMAIN s : s[i] = m
                     \/ \A i \in DOMAIN s : Before(s[i], m)}

\* ORDER BY key LIMIT n
Pages(S, n) == Listings(S, n, LAMBDA a, b : a < b)
===============================================================================
