------------------------------- MODULE Ordering -------------------------------
(***************************************************************************)
(* A finite set laid out in an order: what sort.SliceStable leaves when no  *)
(* two elements tie, and the account list of a compiled message.  The order *)
(* is a set of pairs << x, y >>, x before y, so that what is proved of it   *)
(* holds of every order.                                                    *)
(***************************************************************************)
EXTENDS Integers, FiniteSets

\* The place of an element: one more than the elements before it.
Places(S, before) == [x \in S |-> 1 + Cardinality({y \in S : << y, x >> \in before})]

InOrder(S, before) ==
  LET places == Places(S, before)
  IN  [n \in 1 .. Cardinality(S) |-> CHOOSE x \in S : places[x] = n]
=============================================================================
