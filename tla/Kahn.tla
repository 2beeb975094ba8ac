-------------------------------- MODULE Kahn --------------------------------
(***************************************************************************)
(* Kahn's algorithm, as the analyzer runs it over delegates (wirespec-sema *)
(* analyzer/mod.rs) and the C backend over the types of a header           *)
(* (header.rs, emit_types_in_dependency_order). preds[n] are the nodes     *)
(* that come before node n.                                                *)
(*                                                                         *)
(* A run is [deg, queue, done]: the in-degrees, the queue, and the nodes   *)
(* taken off it so far. The initial queue and the edges of a node come out *)
(* of hash tables, in any order.                                           *)
(***************************************************************************)
EXTENDS Integers, FiniteSets, Sequences

Orders(S) ==
  { q \in [1 .. Cardinality(S) -> S] : \A i, j \in DOMAIN q : q[i] = q[j] => i = j }

After(preds, n) == { m \in DOMAIN preds : n \in preds[m] }

Free(deg) == { n \in DOMAIN deg : deg[n] = 0 }

(* Mutant: entered once, not counted up.                                   *)
InDegrees_Once(preds) == [n \in DOMAIN preds |-> IF preds[n] = {} THEN 0 ELSE 1]

InDegrees(preds) == [n \in DOMAIN preds |-> Cardinality(preds[n])]

Starts(preds) ==
  { [deg |-> InDegrees(preds), queue |-> q, done |-> << >>] : q \in Orders(Free(InDegrees(preds))) }

Lowered(deg, S) == [n \in DOMAIN deg |-> IF n \in S THEN deg[n] - 1 ELSE deg[n]]

(* One turn of the loop: the nodes whose last predecessor this was are     *)
(* queued.                                                                 *)
Pops(k, preds) ==
  LET next == After(preds, Head(k.queue))
      deg == Lowered(k.deg, next)
  IN  { [deg |-> deg, queue |-> Tail(k.queue) \o q, done |-> Append(k.done, Head(k.queue))] :
          q \in Orders(next \cap Free(deg)) }

(* Every node of some set has a predecessor in it.                         *)
Circular(preds) ==
  \E S \in SUBSET DOMAIN preds : S # {} /\ \A n \in S : preds[n] \cap S # {}

Acyclic(preds) == ~Circular(preds)
=============================================================================
