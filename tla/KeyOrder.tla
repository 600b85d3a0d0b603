------------------------------- MODULE KeyOrder -------------------------------
(***************************************************************************)
(* A result that is read in the order of its key, as the set of its keys:  *)
(* what ORDER BY, LIMIT and OFFSET make of it (browse and forEachRowBatch  *)
(* of the adapters).  Keys are natural numbers.                            *)
(***************************************************************************)
EXTENDS Integers, FiniteSets

\* The place of a row in a result, from 1.
KeyRank(keys, k) == Cardinality({j \in keys : j <= k})

Ordered(keys) == [n \in 1 .. Cardinality(keys) |-> CHOOSE k \in keys : KeyRank(keys, k) = n]

\* LIMIT and OFFSET.
Slice(keys, offset, limit) ==
  {k \in keys : offset < KeyRank(keys, k) /\ KeyRank(keys, k) <= offset + limit}
===============================================================================
