---------------------------- MODULE OrderedLists ----------------------------
(***************************************************************************)
(* The elements of a finite set in the order of a key: how the refinement  *)
(* mappings read a queue off a ring of descriptors.                        *)
(***************************************************************************)
EXTENDS Naturals, Sequences, FiniteSets

\* s lists all of W, smaller keys first.
Lists(s, W, key) ==
  /\ \A w \in W : \E k \in DOMAIN s : s[k] = w
  /\ \A j, k \in DOMAIN s : j < k => key[s[j]] < key[s[k]]

Listing(W, key) ==
  CHOOSE s \in [1 .. Cardinality(W) -> W] : Lists(s, W, key)

\* The values val of the elements of W, in the order of their keys.
InKeyOrder(W, key, val) ==
  LET s == Listing(W, key)
  IN  [k \in 1 .. Cardinality(W) |-> val[s[k]]]
=============================================================================
