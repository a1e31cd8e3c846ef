-------------------------------- MODULE KeptItems -------------------------------
(***************************************************************************)
(* What a list comprehension, or a dict that keys are taken out of, keeps: *)
(* the items at some places, or all but some items, in their order.        *)
(***************************************************************************)
EXTENDS Integers, FiniteSets, Sequences

(* What a sequence has at some positions, in order.                        *)
Keeping(q, I) ==
  [k \in 1..Cardinality(I) |-> q[CHOOSE i \in I : Cardinality({j \in I : j <= i}) = k]]

Omitting(q, X) == Keeping(q, {i \in DOMAIN q : q[i] \notin X})
================================================================================
