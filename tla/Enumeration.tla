---------------------------- MODULE Enumeration ----------------------------
(***************************************************************************)
(* A finite set of numbers as the sequence of its members in order: what   *)
(* a Vec::retain keeps of the positions of a mailbox, and the order in     *)
(* which a BTreeMap hands out its keys.                                    *)
(***************************************************************************)
EXTENDS Integers, FiniteSets

Ascending(positions) ==
  CHOOSE h \in [1..Cardinality(positions) -> positions] :
    \A i, j \in DOMAIN h : i < j => h[i] < h[j]

\* The elements of a sequence at some positions, in order.
Selected(s, positions) ==
  [j \in 1..Cardinality(positions) |-> s[Ascending(positions)[j]]]
=============================================================================
