--------------------------- MODULE PipelineProofs ---------------------------
(***************************************************************************)
(* Theorems about wirespec compile (Cli), for every project: the registry  *)
(* of external types only ever grows, and what a module gets from it for   *)
(* an import is the type of the module the import names. They rest on what *)
(* ResolveProofs shows of the order the modules are compiled in. No        *)
(* machine is among its own descendants: within a module because Kahn's    *)
(* algorithm is right, which comes first, for every finite graph and every *)
(* order the hash tables give; across modules because the registry has the *)
(* machines of earlier modules only. And of the files compile writes: a    *)
(* header has its structs in an order C accepts, what it includes is on    *)
(* disk before it, and the entry's own files survive.                      *)
(***************************************************************************)
EXTENDS Cli, ResolveProofs, FiniteSetTheorems

---------------------------------------------------------------------------
(* Kahn's algorithm                                                        *)

Graph(preds) ==
  /\ IsFiniteSet(DOMAIN preds)
  /\ \A n \in DOMAIN preds : preds[n] \subseteq DOMAIN preds

NoRepeat(s) == \A i, j \in DOMAIN s : s[i] = s[j] => i = j

(* Every node of s comes after its predecessors.                           *)
Ordered(s, preds) ==
  \A i \in DOMAIN s : \A m \in preds[s[i]] : \E j \in 1 .. i - 1 : s[j] = m

(* The books of a run: a node's in-degree counts the predecessors that are *)
(* not done; the queue holds the nodes that are not done and whose         *)
(* predecessors all are.                                                   *)
KInv(k, preds) ==
  /\ k.queue \in Seq(DOMAIN preds) /\ k.done \in Seq(DOMAIN preds)
  /\ NoRepeat(k.queue) /\ NoRepeat(k.done)
  /\ Range(k.queue) \cap Range(k.done) = {}
  /\ DOMAIN k.deg = DOMAIN preds
  /\ \A n \in DOMAIN preds : k.deg[n] = Cardinality(preds[n] \ Range(k.done))
  /\ \A n \in DOMAIN preds :
       preds[n] \subseteq Range(k.done) <=> n \in Range(k.queue) \cup Range(k.done)
  /\ Ordered(k.done, preds)

---------------------------------------------------------------------------
(* Sequences without repetition                                            *)

(* A queue filled from a hash table has each element once.                 *)
LEMMA OrdersFacts ==
  ASSUME NEW S, IsFiniteSet(S), NEW q \in Orders(S)
  PROVE  q \in Seq(S) /\ Range(q) = S /\ NoRepeat(q)
<1> DEFINE n == Cardinality(S)
<1>1. n \in Nat
  BY FS_CardinalityType
<1>2. q \in [1 .. n -> S] /\ NoRepeat(q)
  BY DEF Orders, NoRepeat
<1>3. q \in Injection(1 .. n, S)
  BY <1>2 DEF Injection, IsInjective, NoRepeat
<1>4. IsFiniteSet(1 .. n) /\ Cardinality(1 .. n) = n
  BY <1>1, FS_Interval
<1>5. q \in Surjection(1 .. n, S)
  BY <1>3, <1>4, FS_Injection
<1>6. Range(q) = S
  BY <1>2, <1>5 DEF Surjection, Range
<1>7. q \in Seq(S)
  BY <1>1, <1>2, SeqDef
<1>. QED BY <1>2, <1>6, <1>7

LEMMA TailFacts ==
  ASSUME NEW S, NEW s \in Seq(S), s # << >>, NoRepeat(s)
  PROVE  /\ Tail(s) \in Seq(S) /\ NoRepeat(Tail(s))
         /\ Head(s) \in S /\ Head(s) \notin Range(Tail(s))
         /\ Range(s) = {Head(s)} \cup Range(Tail(s))
<1> DEFINE n == Len(s)
           t == Tail(s)
<1>1. n \in Nat \ {0} /\ DOMAIN s = 1 .. n
  BY LenProperties, EmptySeq
<1>2. /\ t \in Seq(S) /\ Len(t) = n - 1 /\ \A i \in 1 .. n - 1 : t[i] = s[i + 1]
      /\ Head(s) \in S
  BY HeadTailProperties
<1>3. DOMAIN t = 1 .. n - 1
  BY <1>2, LenProperties
<1>4. Head(s) = s[1]
  OBVIOUS
<1>. HIDE DEF t, n
<1>5. NoRepeat(t)
  <2>1. ASSUME NEW i \in 1 .. n - 1, NEW j \in 1 .. n - 1, t[i] = t[j]
        PROVE  i = j
    <3>1. i + 1 \in 1 .. n /\ j + 1 \in 1 .. n
      BY <1>1
    <3>2. i + 1 = j + 1
      BY <1>1, <1>2, <2>1, <3>1 DEF NoRepeat
    <3>. QED BY <3>2
  <2>. QED BY <1>3, <2>1 DEF NoRepeat
<1>6. Head(s) \notin Range(t)
  <2>1. ASSUME NEW i \in 1 .. n - 1 PROVE t[i] # s[1]
    <3>1. i + 1 \in 1 .. n /\ 1 \in 1 .. n /\ i + 1 # 1
      BY <1>1
    <3>. QED BY <1>1, <1>2, <3>1 DEF NoRepeat
  <2>. QED BY <1>3, <1>4, <2>1 DEF Range
<1>7. Range(s) = {Head(s)} \cup Range(t)
  <2>1. \A i \in 1 .. n : i = 1 \/ (i - 1 \in 1 .. n - 1 /\ s[i] = t[i - 1])
    BY <1>1, <1>2
  <2>2. \A i \in 1 .. n - 1 : i + 1 \in 1 .. n
    BY <1>1
  <2>3. 1 \in 1 .. n
    BY <1>1
  <2>4. Range(s) \subseteq {Head(s)} \cup Range(t)
    BY <1>1, <1>3, <1>4, <2>1 DEF Range
  <2>5. {Head(s)} \cup Range(t) \subseteq Range(s)
    BY <1>1, <1>2, <1>3, <1>4, <2>2, <2>3 DEF Range
  <2>. QED BY <2>4, <2>5
<1>. QED BY <1>2, <1>5, <1>6, <1>7 DEF t

LEMMA ConcatFacts ==
  ASSUME NEW S, NEW s \in Seq(S), NEW t \in Seq(S),
         NoRepeat(s), NoRepeat(t), Range(s) \cap Range(t) = {}
  PROVE  s \o t \in Seq(S) /\ NoRepeat(s \o t) /\ Range(s \o t) = Range(s) \cup Range(t)
<1> DEFINE m == Len(s)
           n == Len(t)
           u == s \o t
<1>1. m \in Nat /\ DOMAIN s = 1 .. m /\ n \in Nat /\ DOMAIN t = 1 .. n
  BY LenProperties
<1>2. /\ u \in Seq(S) /\ Len(u) = m + n
      /\ \A i \in 1 .. m + n : u[i] = IF i <= m THEN s[i] ELSE t[i - m]
  BY ConcatProperties
<1>3. DOMAIN u = 1 .. m + n
  BY <1>2, LenProperties
<1>. HIDE DEF m, n, u
<1>4. /\ \A i \in 1 .. m : i \in 1 .. m + n /\ u[i] = s[i]
      /\ \A i \in 1 .. n : m + i \in 1 .. m + n /\ u[m + i] = t[i]
  BY <1>1, <1>2
<1>5. \A i \in 1 .. m + n : \/ i \in 1 .. m /\ u[i] = s[i]
                            \/ i > m /\ i - m \in 1 .. n /\ u[i] = t[i - m]
  BY <1>1, <1>2
<1>6. NoRepeat(u)
  <2>1. ASSUME NEW i \in 1 .. m + n, NEW j \in 1 .. m + n, u[i] = u[j]
        PROVE  i = j
    <3>1. CASE i \in 1 .. m /\ j \in 1 .. m
      BY <1>1, <1>4, <2>1, <3>1 DEF NoRepeat
    <3>2. CASE i > m /\ j > m
      <4>1. i - m \in 1 .. n /\ j - m \in 1 .. n /\ t[i - m] = t[j - m]
        BY <1>1, <1>5, <2>1, <3>2
      <4>2. i - m = j - m
        BY <1>1, <4>1 DEF NoRepeat
      <4>. QED BY <1>1, <4>2
    <3>3. CASE i \in 1 .. m /\ j > m
      <4>1. u[i] \in Range(s) /\ u[j] \in Range(t)
        BY <1>1, <1>5, <3>3 DEF Range
      <4>. QED BY <2>1, <4>1
    <3>4. CASE i > m /\ j \in 1 .. m
      <4>1. u[j] \in Range(s) /\ u[i] \in Range(t)
        BY <1>1, <1>5, <3>4 DEF Range
      <4>. QED BY <2>1, <4>1
    <3>. QED BY <1>1, <3>1, <3>2, <3>3, <3>4
  <2>. QED BY <1>3, <2>1 DEF NoRepeat
<1>7. Range(u) = Range(s) \cup Range(t)
  <2>1. ASSUME NEW e \in Range(u)  PROVE  e \in Range(s) \cup Range(t)
    <3>1. PICK i \in 1 .. m + n : e = u[i]
      BY <1>3 DEF Range
    <3>. QED BY <1>1, <1>5, <3>1 DEF Range
  <2>2. ASSUME NEW i \in 1 .. m  PROVE  s[i] \in Range(u)
    BY <1>3, <1>4 DEF Range
  <2>3. ASSUME NEW i \in 1 .. n  PROVE  t[i] \in Range(u)
    BY <1>3, <1>4 DEF Range
  <2>. QED BY <1>1, <2>1, <2>2, <2>3 DEF Range
<1>. QED BY <1>2, <1>6, <1>7 DEF u

LEMMA AppendedFacts ==
  ASSUME NEW S, NEW s \in Seq(S), NEW e \in S, NoRepeat(s), e \notin Range(s)
  PROVE  /\ Append(s, e) \in Seq(S) /\ NoRepeat(Append(s, e))
         /\ Range(Append(s, e)) = Range(s) \cup {e}
         /\ DOMAIN s = 1 .. Len(s) /\ DOMAIN Append(s, e) = 1 .. Len(s) + 1 /\ Len(s) \in Nat
         /\ \A i \in 1 .. Len(s) : Append(s, e)[i] = s[i]
         /\ Append(s, e)[Len(s) + 1] = e
<1> DEFINE n == Len(s)
           u == Append(s, e)
<1>1. n \in Nat /\ DOMAIN s = 1 .. n
  BY LenProperties
<1>2. u \in Seq(S) /\ Len(u) = n + 1 /\ (\A i \in 1 .. n : u[i] = s[i]) /\ u[n + 1] = e
  BY AppendProperties
<1>3. DOMAIN u = 1 .. n + 1
  BY <1>2, LenProperties
<1>. HIDE DEF n, u
<1>4. \A i \in 1 .. n + 1 : i \in 1 .. n \/ i = n + 1
  BY <1>1
<1>5. \A i \in 1 .. n : u[i] # e /\ i \in 1 .. n + 1
  BY <1>1, <1>2 DEF Range
<1>6. NoRepeat(u)
  BY <1>1, <1>2, <1>3, <1>4, <1>5 DEF NoRepeat
<1>7. Range(u) = Range(s) \cup {e}
  <2>1. n + 1 \in 1 .. n + 1
    BY <1>1
  <2>. QED BY <1>1, <1>2, <1>3, <1>4, <1>5, <2>1 DEF Range
<1>. QED BY <1>1, <1>2, <1>3, <1>6, <1>7 DEF n, u

---------------------------------------------------------------------------
(* The algorithm                                                           *)

(* A node's predecessors that are not done.                                *)
LEMMA LeftFacts ==
  ASSUME NEW preds, Graph(preds), NEW n \in DOMAIN preds, NEW D
  PROVE  /\ IsFiniteSet(preds[n] \ D) /\ Cardinality(preds[n] \ D) \in Nat
         /\ Cardinality(preds[n] \ D) = 0 <=> preds[n] \subseteq D
<1>1. IsFiniteSet(preds[n])
  BY FS_Subset DEF Graph
<1>2. IsFiniteSet(preds[n] \ D)
  BY <1>1, FS_Subset
<1>. QED BY <1>2, FS_CardinalityType, FS_EmptySet

(* A run starts with its books in order.                                   *)
LEMMA StartsKInv ==
  ASSUME NEW preds, Graph(preds), NEW k \in Starts(preds)
  PROVE  KInv(k, preds)
<1>1. PICK q \in Orders(Free(InDegrees(preds))) :
        k = [deg |-> InDegrees(preds), queue |-> q, done |-> << >>]
  BY DEF Starts
<1>2. IsFiniteSet(Free(InDegrees(preds))) /\ Free(InDegrees(preds)) \subseteq DOMAIN preds
  BY FS_Subset DEF Free, InDegrees, Graph
<1>3. q \in Seq(Free(InDegrees(preds))) /\ Range(q) = Free(InDegrees(preds)) /\ NoRepeat(q)
  BY <1>2, OrdersFacts
<1>4. q \in Seq(DOMAIN preds)
  BY <1>2, <1>3, SeqMonotonic
<1>5. /\ k.deg = InDegrees(preds) /\ k.queue = q /\ k.done = << >>
      /\ Range(k.done) = {} /\ DOMAIN k.done = {} /\ k.done \in Seq(DOMAIN preds)
  BY <1>1 DEF Range
<1>6. \A n \in DOMAIN preds : k.deg[n] = Cardinality(preds[n] \ Range(k.done))
  <2>1. \A n \in DOMAIN preds : preds[n] \ {} = preds[n]
    OBVIOUS
  <2>. QED BY <1>5, <2>1 DEF InDegrees
<1>7. \A n \in DOMAIN preds :
        preds[n] \subseteq Range(k.done) <=> n \in Range(k.queue) \cup Range(k.done)
  <2>1. \A n \in DOMAIN preds : k.deg[n] = 0 <=> preds[n] \subseteq Range(k.done)
    BY <1>6, LeftFacts
  <2>2. \A n \in DOMAIN preds : k.deg[n] = 0 <=> n \in Range(q)
    BY <1>3, <1>5 DEF Free, InDegrees
  <2>. QED BY <1>5, <2>1, <2>2
<1>. QED BY <1>3, <1>4, <1>5, <1>6, <1>7 DEF KInv, NoRepeat, Ordered, InDegrees

(* A turn of the loop keeps them so, whatever order the edges come in.     *)
LEMMA PopsKInv ==
  ASSUME NEW preds, Graph(preds), NEW k, KInv(k, preds), k.queue # << >>,
         NEW l \in Pops(k, preds)
  PROVE  KInv(l, preds)
<1> DEFINE h == Head(k.queue)
           t == Tail(k.queue)
           D == Range(k.done)
           next == After(preds, h)
           deg == Lowered(k.deg, next)
<1>1. PICK q \in Orders(next \cap Free(deg)) :
        l = [deg |-> deg, queue |-> t \o q, done |-> Append(k.done, h)]
  BY DEF Pops
<1>2. /\ t \in Seq(DOMAIN preds) /\ NoRepeat(t) /\ h \in DOMAIN preds /\ h \notin Range(t)
      /\ Range(k.queue) = {h} \cup Range(t)
  BY TailFacts DEF KInv
<1>3. h \notin D /\ preds[h] \subseteq D /\ Range(t) \cap D = {}
  BY <1>2 DEF KInv
<1>4. next \subseteq DOMAIN preds /\ h \notin next
      /\ \A n \in DOMAIN preds : n \in next <=> h \in preds[n]
  BY <1>3 DEF After
<1>5. IsFiniteSet(next \cap Free(deg))
  BY <1>4, FS_Subset DEF Graph
<1>6. q \in Seq(DOMAIN preds) /\ Range(q) = next \cap Free(deg) /\ NoRepeat(q)
  <2>1. next \cap Free(deg) \subseteq DOMAIN preds
    BY <1>4
  <2>. HIDE DEF next, deg
  <2>2. q \in Seq(next \cap Free(deg)) /\ Range(q) = next \cap Free(deg) /\ NoRepeat(q)
    BY <1>1, <1>5, OrdersFacts
  <2>. QED BY <2>1, <2>2, SeqMonotonic
<1>7. DOMAIN deg = DOMAIN preds
      /\ \A n \in DOMAIN preds : deg[n] = IF n \in next THEN k.deg[n] - 1 ELSE k.deg[n]
  BY DEF KInv, Lowered
<1>8. /\ k.done \in Seq(DOMAIN preds) /\ NoRepeat(k.done)
      /\ \A n \in DOMAIN preds : k.deg[n] = Cardinality(preds[n] \ D)
      /\ \A n \in DOMAIN preds : preds[n] \subseteq D <=> n \in {h} \cup Range(t) \cup D
      /\ Ordered(k.done, preds)
  BY <1>2 DEF KInv
<1>9. l.deg = deg /\ l.queue = t \o q /\ l.done = Append(k.done, h)
  BY <1>1
<1>. HIDE DEF h, t, D, next, deg
<1>10. /\ l.done \in Seq(DOMAIN preds) /\ NoRepeat(l.done) /\ Range(l.done) = D \cup {h}
       /\ DOMAIN k.done = 1 .. Len(k.done) /\ DOMAIN l.done = 1 .. Len(k.done) + 1
       /\ Len(k.done) \in Nat
       /\ \A i \in 1 .. Len(k.done) : l.done[i] = k.done[i]
       /\ l.done[Len(k.done) + 1] = h
  BY <1>2, <1>3, <1>8, <1>9, AppendedFacts DEF D
<1>11. \A n \in DOMAIN preds : deg[n] = Cardinality(preds[n] \ (D \cup {h}))
  <2>1. ASSUME NEW n \in DOMAIN preds
        PROVE  deg[n] = Cardinality(preds[n] \ (D \cup {h}))
    <3>1. preds[n] \ (D \cup {h}) = (preds[n] \ D) \ {h}
      OBVIOUS
    <3>2. IsFiniteSet(preds[n] \ D)
      BY LeftFacts
    <3>3. Cardinality((preds[n] \ D) \ {h})
            = IF h \in preds[n] \ D THEN Cardinality(preds[n] \ D) - 1 ELSE Cardinality(preds[n] \ D)
      BY <3>2, FS_RemoveElement
    <3>4. h \in preds[n] \ D <=> n \in next
      BY <1>3, <1>4
    <3>. QED BY <1>7, <1>8, <3>1, <3>3, <3>4
  <2>. QED BY <2>1
<1>12. \A n \in DOMAIN preds : deg[n] = 0 <=> preds[n] \subseteq D \cup {h}
  BY <1>11, LeftFacts
<1>13. \A n \in next : ~(preds[n] \subseteq D)
  BY <1>3, <1>4
<1>14. Range(t) \cap Range(q) = {} /\ Range(q) \cap (D \cup {h}) = {}
  BY <1>4, <1>6, <1>8, <1>13
<1>15. l.queue \in Seq(DOMAIN preds) /\ NoRepeat(l.queue) /\ Range(l.queue) = Range(t) \cup Range(q)
  BY <1>2, <1>6, <1>9, <1>14, ConcatFacts
<1>16. Range(l.queue) \cap Range(l.done) = {}
  BY <1>2, <1>3, <1>10, <1>14, <1>15
<1>17. ASSUME NEW n \in DOMAIN preds
       PROVE  preds[n] \subseteq D \cup {h} <=> n \in Range(t) \cup Range(q) \cup D \cup {h}
  <2>1. CASE n \in next
    <3>1. n \in Range(q) <=> deg[n] = 0
      BY <1>6, <1>7, <2>1 DEF Free
    <3>2. n \notin Range(t) \cup D \cup {h}
      BY <1>8, <1>13, <2>1
    <3>. QED BY <1>12, <3>1, <3>2
  <2>2. CASE n \notin next
    <3>1. preds[n] \subseteq D \cup {h} <=> preds[n] \subseteq D
      BY <1>4, <2>2
    <3>2. n \notin Range(q)
      BY <1>6, <2>2
    <3>. QED BY <1>8, <3>1, <3>2
  <2>. QED BY <2>1, <2>2
<1>18. Ordered(l.done, preds)
  <2>1. ASSUME NEW i \in 1 .. Len(k.done) + 1, NEW m \in preds[l.done[i]]
        PROVE  \E j \in 1 .. i - 1 : l.done[j] = m
    <3>1. CASE i \in 1 .. Len(k.done)
      <4>1. PICK j \in 1 .. i - 1 : k.done[j] = m
        BY <1>8, <1>10, <2>1, <3>1 DEF Ordered
      <4>2. j \in 1 .. Len(k.done)
        BY <1>10, <3>1, <4>1
      <4>. QED BY <1>10, <4>1, <4>2
    <3>2. CASE i = Len(k.done) + 1
      <4>1. m \in D
        BY <1>3, <1>10, <2>1, <3>2
      <4>2. PICK j \in 1 .. Len(k.done) : k.done[j] = m
        BY <1>10, <4>1 DEF D, Range
      <4>. QED BY <1>10, <3>2, <4>2
    <3>. QED BY <1>10, <2>1, <3>1, <3>2
  <2>. QED BY <1>10, <2>1 DEF Ordered
<1>19. \A n \in DOMAIN preds :
         preds[n] \subseteq Range(l.done) <=> n \in Range(l.queue) \cup Range(l.done)
  <2>1. Range(l.queue) \cup Range(l.done) = Range(t) \cup Range(q) \cup D \cup {h}
    BY <1>10, <1>15
  <2>. QED BY <1>10, <1>17, <2>1
<1>20. \A n \in DOMAIN preds : l.deg[n] = Cardinality(preds[n] \ Range(l.done))
  BY <1>9, <1>10, <1>11
<1>. QED BY <1>7, <1>9, <1>10, <1>15, <1>16, <1>18, <1>19, <1>20 DEF KInv

(* Nodes that come out each after its predecessors are not in a circle.    *)
LEMMA OrderedIsAcyclic ==
  ASSUME NEW preds, NEW s, s \in Seq(DOMAIN preds), Range(s) = DOMAIN preds, Ordered(s, preds)
  PROVE  Acyclic(preds)
<1> SUFFICES ASSUME NEW S \in SUBSET DOMAIN preds, S # {},
                    \A n \in S : preds[n] \cap S # {}
             PROVE  FALSE
  BY DEF Acyclic, Circular
<1>1. Len(s) \in Nat /\ DOMAIN s = 1 .. Len(s)
  BY LenProperties
<1> DEFINE I == { i \in 1 .. Len(s) : s[i] \in S }
<1>2. I \subseteq Nat /\ I # {}
  BY <1>1 DEF Range
<1>3. PICK i \in I : \A j \in I : i <= j
  BY <1>2, LeastElement
<1>4. PICK m \in preds[s[i]] : m \in S
  BY <1>3
<1>5. PICK j \in 1 .. i - 1 : s[j] = m
  BY <1>1, <1>3, <1>4 DEF Ordered
<1>6. j \in I /\ j < i
  BY <1>1, <1>3, <1>4, <1>5
<1>. QED BY <1>3, <1>6

(* For every finite graph and every order the queue is filled in: when the *)
(* queue is empty, every node has come out exactly if the graph has no     *)
(* circle, which is the verdict on delegates (sema, analyzer/mod.rs), and  *)
(* then each after its predecessors, which is the order of the structs in  *)
(* a C header (header.rs).                                                 *)
THEOREM KahnIsRight ==
  ASSUME NEW preds, Graph(preds), NEW k, KInv(k, preds), k.queue = << >>
  PROVE  /\ Len(k.done) <= Cardinality(DOMAIN preds)
         /\ Len(k.done) = Cardinality(DOMAIN preds) <=> Acyclic(preds)
         /\ Acyclic(preds) => Range(k.done) = DOMAIN preds
         /\ Ordered(k.done, preds)
<1> DEFINE n == Len(k.done)
           D == Range(k.done)
<1>1. k.done \in Seq(DOMAIN preds) /\ NoRepeat(k.done) /\ Ordered(k.done, preds)
  BY DEF KInv
<1>2. n \in Nat /\ DOMAIN k.done = 1 .. n /\ k.done \in [1 .. n -> DOMAIN preds]
  BY <1>1, LenProperties
<1>3. k.done \in Injection(1 .. n, DOMAIN preds)
  BY <1>1, <1>2 DEF Injection, IsInjective, NoRepeat
<1>4. IsFiniteSet(1 .. n) /\ Cardinality(1 .. n) = n
  BY <1>2, FS_Interval
<1>5. /\ n <= Cardinality(DOMAIN preds)
      /\ n = Cardinality(DOMAIN preds) <=> k.done \in Surjection(1 .. n, DOMAIN preds)
  BY <1>3, <1>4, FS_Injection DEF Graph
<1>6. k.done \in Surjection(1 .. n, DOMAIN preds) <=> D = DOMAIN preds
  BY <1>2 DEF Surjection, Range
<1>7. D = DOMAIN preds => Acyclic(preds)
  BY <1>1, OrderedIsAcyclic
<1>8. ASSUME D # DOMAIN preds PROVE Circular(preds)
  <2> DEFINE S == DOMAIN preds \ D
  <2>1. D \subseteq DOMAIN preds /\ S # {}
    BY <1>2, <1>8 DEF Range
  <2>2. Range(k.queue) = {}
    BY DEF Range
  <2>3. \A m \in S : preds[m] \cap S # {}
    <3>1. \A m \in S : ~(preds[m] \subseteq D)
      BY <2>2 DEF KInv
    <3>. QED BY <3>1 DEF Graph
  <2>. QED BY <2>1, <2>3 DEF Circular
<1>. QED BY <1>1, <1>5, <1>6, <1>7, <1>8 DEF Acyclic

---------------------------------------------------------------------------
(* The registry                                                            *)

(* Between its analysis and its registration a module declares no name     *)
(* twice and none the registry has.                                        *)
NamesAreFree ==
  step = "delegates" =>
    \A d \in fs.decls[order[at]] :
      d.name \notin DOMAIN registry /\ ~(Cardinality(Named(order[at], d.name)) > 1)

(* The types of the modules compiled so far are in the registry, each as   *)
(* its own module's.                                                       *)
TypesRegistered ==
  \A m \in DOMAIN compiled : \A n \in NamesOf(OfKind(order[m], Types)) :
    n \in DOMAIN registry /\ registry[n].from = order[m]

PInv ==
  /\ VInv
  /\ step = "resolve" => compiled = << >>
  /\ PipelineTypeOK
  /\ NamesAreFree
  /\ TypesRegistered
  /\ ImportsMeanTheirModule

(* A set with two elements has more than one.                              *)
LEMMA TwoElements ==
  ASSUME NEW S, IsFiniteSet(S), NEW a \in S, NEW b \in S, ~(Cardinality(S) > 1)
  PROVE  a = b
<1>. SUFFICES ASSUME a # b PROVE FALSE
  OBVIOUS
<1>1. {a, b} \subseteq S
  OBVIOUS
<1>2. Cardinality({a, b}) = 2 /\ IsFiniteSet({a, b})
  <2>1. IsFiniteSet({a}) /\ Cardinality({a}) = 1
    BY FS_Singleton
  <2>2. {a, b} = {a} \cup {b} /\ b \notin {a}
    OBVIOUS
  <2>. QED BY <2>1, <2>2, FS_AddElement
<1>3. Cardinality({a, b}) <= Cardinality(S)
  BY <1>1, FS_Subset
<1>. QED BY <1>2, <1>3, FS_CardinalityType

---------------------------------------------------------------------------
(* Resolution                                                              *)

LEMMA InitPInv == CInit => PInv
<1>. SUFFICES ASSUME CInit PROVE PInv
  OBVIOUS
<1>1. VInv
  BY InitVInv DEF CInit, PInit
<1>2. /\ compiled = << >> /\ registry = << >> /\ order = << >> /\ result = "running"
      /\ step = "resolve"
  BY DEF CInit, PInit, Init
<1>3. compiled \in Seq(Range(compiled)) /\ Len(compiled) = 0 /\ Len(order) = 0
      /\ DOMAIN compiled = {} /\ DOMAIN registry = {} /\ DOMAIN order = {}
  BY <1>2
<1>4. PipelineTypeOK
  BY <1>2, <1>3 DEF PipelineTypeOK
<1>. QED
  BY <1>1, <1>2, <1>3, <1>4
  DEF PInv, NamesAreFree, TypesRegistered, ImportsMeanTheirModule

LEMMA OkHasOrder ==
  ASSUME VInv, result = "ok"
  PROVE  Len(order) \in Nat /\ Len(order) > 0
<1>1. Range(order) # {} /\ Len(order) \in Nat /\ DOMAIN order = 1 .. Len(order)
  BY OrderFacts DEF VInv, IInv, EachModuleOnce, ResultHasCause
<1>. QED BY <1>1 DEF Range

LEMMA ResolvingStep ==
  ASSUME PInv, Resolving
  PROVE  PInv'
<1>1. VInv'
  BY NextVInv DEF PInv, Resolving
<1>2. step = "resolve" /\ compiled = << >> /\ UNCHANGED <<step, at, registry, compiled>>
  BY DEF PInv, Resolving, pvars
<1>3. DOMAIN compiled = {} /\ Len(compiled) = 0 /\ Len(order') \in Nat
  <2>1. order' \in Seq(fs'.files)
    BY <1>1 DEF VInv, IInv, TypeOK
  <2>2. Len(order') \in Nat
    BY <2>1, LenProperties
  <2>. QED BY <1>2, <2>2
<1>4. DOMAIN registry = {}
  BY <1>3 DEF PInv, PipelineTypeOK
<1>5. PipelineTypeOK'
  BY <1>2, <1>3, <1>4 DEF PInv, PipelineTypeOK
<1>6. NamesAreFree'
  BY <1>2 DEF NamesAreFree
<1>7. TypesRegistered' /\ ImportsMeanTheirModule'
  BY <1>2, <1>3 DEF TypesRegistered, ImportsMeanTheirModule
<1>8. step' = "resolve" => compiled' = << >>
  BY <1>2
<1>. QED BY <1>1, <1>5, <1>6, <1>7, <1>8 DEF PInv

---------------------------------------------------------------------------
(* Compilation                                                             *)

LEMMA SameCompiled ==
  ASSUME TypesRegistered, ImportsMeanTheirModule, UNCHANGED <<fs, order, registry, compiled>>
  PROVE  TypesRegistered' /\ ImportsMeanTheirModule'
<1>1. TypesRegistered'
  BY DEF TypesRegistered, NamesOf, OfKind
<1>2. ImportsMeanTheirModule'
  BY DEF ImportsMeanTheirModule, OfKind
<1>. QED BY <1>1, <1>2

(* A step that compiles nothing.                                           *)
LEMMA KeepsBooks ==
  ASSUME PInv, UNCHANGED <<vars, registry, compiled>>,
         UNCHANGED <<step, at>> \/ step' \notin {"resolve", "analyze", "delegates"}
  PROVE  PInv'
<1>1. VInv'
  BY NextVInv DEF PInv
<1>2. UNCHANGED <<fs, order, result>>
  BY DEF vars
<1>3. step' = "resolve" => compiled' = << >>
  BY DEF PInv
<1>4. PipelineTypeOK'
  BY <1>2 DEF PInv, PipelineTypeOK
<1>5. NamesAreFree'
  BY <1>2 DEF PInv, NamesAreFree, Named
<1>6. TypesRegistered' /\ ImportsMeanTheirModule'
  BY <1>2, SameCompiled DEF PInv
<1>. QED BY <1>1, <1>3, <1>4, <1>5, <1>6 DEF PInv

LEMMA BeginStep ==
  ASSUME PInv, Begin
  PROVE  PInv'
<1>1. VInv' /\ UNCHANGED <<fs, order, result>>
  BY NextVInv DEF PInv, Begin, vars
<1>2. /\ step = "resolve" /\ result = "ok" /\ step' = "analyze" /\ at' = 1
      /\ UNCHANGED <<registry, compiled>>
  BY DEF Begin
<1>3. compiled = << >> /\ Len(compiled) = 0 /\ Len(order) \in Nat /\ Len(order) > 0
  BY <1>2, OkHasOrder DEF PInv
<1>4. PipelineTypeOK'
  BY <1>1, <1>2, <1>3 DEF PInv, PipelineTypeOK
<1>5. NamesAreFree' /\ TypesRegistered' /\ ImportsMeanTheirModule'
  BY <1>1, <1>2, SameCompiled DEF PInv, NamesAreFree
<1>. QED BY <1>1, <1>2, <1>3, <1>4, <1>5 DEF PInv

LEMMA AnalyzeStep ==
  ASSUME PInv, Analyze
  PROVE  PInv'
<1>1. CASE \E why : Stop(why)
  <2>1. UNCHANGED <<vars, registry, compiled>> /\ step' = "exit"
    BY <1>1 DEF Analyze, Stop
  <2>. QED BY <2>1, KeepsBooks
<1>2. CASE /\ \A d \in fs.decls[order[at]] : ~Refused(order[at], d)
           /\ step' = "delegates"
           /\ UNCHANGED <<at, registry, compiled, status>>
  <2>1. VInv' /\ UNCHANGED <<fs, order, result>> /\ step = "analyze"
    BY NextVInv DEF PInv, Analyze, vars
  <2>2. PipelineTypeOK'
    BY <1>2, <2>1 DEF PInv, PipelineTypeOK
  <2>3. NamesAreFree'
    BY <1>2, <2>1 DEF NamesAreFree, Refused, Named
  <2>4. TypesRegistered' /\ ImportsMeanTheirModule'
    BY <1>2, <2>1, SameCompiled DEF PInv
  <2>. QED BY <1>2, <2>1, <2>2, <2>3, <2>4 DEF PInv
<1>. QED BY <1>1, <1>2 DEF Analyze

(* What a module registers: its own types, and what was there before.      *)
LEMMA CollectedExtends ==
  ASSUME NEW f, \A d \in fs.decls[f] : d.name \notin DOMAIN registry,
         NEW n \in DOMAIN registry
  PROVE  n \in DOMAIN Collected(f) /\ Collected(f)[n] = registry[n]
<1>1. n \notin NamesOf(OfKind(f, Types))
  BY DEF NamesOf, OfKind
<1>. QED BY <1>1 DEF Collected

LEMMA CollectedOwn ==
  ASSUME PInv, step = "delegates", NEW n \in NamesOf(OfKind(order[at], Types))
  PROVE  /\ n \in DOMAIN Collected(order[at])
         /\ Collected(order[at])[n].from = order[at]
         /\ Collected(order[at])[n].kind \in Types
         /\ n \in NamesOf(fs.decls[order[at]])
<1> DEFINE f == order[at]
<1>1. PICK d \in fs.decls[f] : d.name = n /\ d.kind \in Types
  BY DEF NamesOf, OfKind
<1>2. d \in Named(f, n) /\ Declared(f, n) \in Named(f, n)
  BY <1>1 DEF Named, Declared
<1>3. f \in fs.files
  <2>1. at \in DOMAIN order
    BY OrderFacts, LenProperties DEF PInv, VInv, PipelineTypeOK
  <2>. QED BY <2>1, OrderFacts, ElementOfSeq DEF PInv, VInv
<1>4. IsFiniteSet(Named(f, n))
  <2>1. IsFiniteSet(fs.decls[f])
    BY <1>3, PipelineAssumption DEF PInv, VInv, IInv, TypeOK, Described
  <2>. QED BY <2>1, FS_Subset DEF Named
<1>5. Declared(f, n) = d
  <2>1. ~(Cardinality(Named(f, n)) > 1)
    BY <1>1 DEF PInv, NamesAreFree
  <2>. QED BY <1>2, <1>4, <2>1, TwoElements
<1>. HIDE DEF f
<1>6. /\ n \in DOMAIN Collected(f)
      /\ Collected(f)[n] = [from |-> f, kind |-> Declared(f, n).kind]
  BY DEF Collected, f
<1>7. n \in NamesOf(fs.decls[f])
  BY <1>1 DEF NamesOf
<1>. QED BY <1>1, <1>5, <1>6, <1>7 DEF f

(* The module's place in order.                                            *)
LEMMA AtFacts ==
  ASSUME PInv, step = "delegates"
  PROVE  /\ Len(compiled) \in Nat /\ DOMAIN compiled = 1 .. Len(compiled)
         /\ at = Len(compiled) + 1 /\ at \in DOMAIN order /\ at <= Len(order)
         /\ Len(order) \in Nat /\ DOMAIN order = 1 .. Len(order)
<1>1. Len(compiled) \in Nat /\ DOMAIN compiled = 1 .. Len(compiled)
  BY LenProperties DEF PInv, PipelineTypeOK
<1>2. Len(order) \in Nat /\ DOMAIN order = 1 .. Len(order)
  BY OrderFacts DEF PInv, VInv
<1>3. at = Len(compiled) + 1 /\ at <= Len(order)
  BY DEF PInv, PipelineTypeOK
<1>. QED BY <1>1, <1>2, <1>3

(* What a module imports was compiled before: the registry has it.         *)
LEMMA ImportedItem ==
  ASSUME PInv, step = "delegates", NEW i \in DOMAIN fs.imports[order[at]],
         NEW g, g = Dep(fs, order[at], i),
         NEW d \in OfKind(g, Types), d.name = fs.imports[order[at]][i].item
  PROVE  { x \in Imported(order[at]) : x.name = d.name } = {[name |-> d.name, from |-> g]}
<1> DEFINE f == order[at]
           n == d.name
<1>1. PICK j \in 1 .. at - 1 : order[j] = g
  BY AtFacts DEF PInv, VInv, DepsFirst
<1>2. j \in DOMAIN compiled
  BY <1>1, AtFacts
<1>3. n \in NamesOf(OfKind(order[j], Types))
  BY <1>1 DEF NamesOf
<1>4. n \in DOMAIN registry /\ registry[n].from = g
  BY <1>1, <1>2, <1>3 DEF PInv, TypesRegistered
<1>5. \A x \in Imported(f) : x = [name |-> x.name, from |-> registry[x.name].from]
  BY DEF Imported
<1>6. [name |-> n, from |-> registry[n].from] \in Imported(f)
  <2>1. fs.imports[f][i] \in Range(fs.imports[f])
    BY DEF Range
  <2>. QED BY <1>4, <2>1 DEF Imported
<1>. HIDE DEF f, n
<1>7. { x \in Imported(f) : x.name = n } = {[name |-> n, from |-> g]}
  BY <1>4, <1>5, <1>6
<1>. QED BY <1>7 DEF f, n

(* A module that compiles is registered and added to the compiled ones.    *)
LEMMA CompileFacts ==
  ASSUME PInv, CompileModule, ~\E why : Stop(why), NEW f, f = order[at], NEW n, n = Len(compiled)
  PROVE  /\ step = "delegates" /\ registry' = Collected(f) /\ UNCHANGED <<vars, status>>
         /\ \/ at < Len(order) /\ at' = at + 1 /\ step' = "analyze"
            \/ at >= Len(order) /\ at' = 1 /\ step' = "mkdir"
         /\ n \in Nat /\ DOMAIN compiled = 1 .. n
         /\ compiled' \in Seq(Range(compiled')) /\ Len(compiled') = n + 1
         /\ DOMAIN compiled' = 1 .. n + 1
         /\ \A m \in 1 .. n : compiled'[m] = compiled[m]
         /\ compiled'[n + 1].imports = Imported(f)
         /\ compiled'[n + 1].delegates = Delegates(f)
<1> DEFINE e == [imports |-> Imported(f), delegates |-> Delegates(f)]
<1>1. step = "delegates" /\ UNCHANGED vars
  BY DEF CompileModule
<1>2. ~(Len(order) > at) => at >= Len(order)
  BY <1>1, AtFacts
<1>3. ~Stop("circular delegates")
  OBVIOUS
<1>4. /\ step = "delegates" /\ registry' = Collected(f) /\ compiled' = Append(compiled, e)
      /\ \/ at < Len(order) /\ at' = at + 1 /\ step' = "analyze"
         \/ at >= Len(order) /\ at' = 1 /\ step' = "mkdir"
      /\ UNCHANGED <<vars, status>>
  BY <1>1, <1>2, <1>3 DEF CompileModule
<1> DEFINE S == Range(compiled) \cup {e}
<1>5. compiled \in Seq(S) /\ e \in S
  <2>1. compiled \in Seq(Range(compiled)) /\ Range(compiled) \subseteq S
    BY DEF PInv, PipelineTypeOK
  <2>. HIDE DEF S
  <2>2. compiled \in Seq(S)
    BY <2>1, SeqMonotonic
  <2>. QED BY <2>2 DEF S
<1>6. e.imports = Imported(f) /\ e.delegates = Delegates(f)
  OBVIOUS
<1>. HIDE DEF e
<1>7. /\ Append(compiled, e) \in Seq(S) /\ Len(Append(compiled, e)) = n + 1
      /\ DOMAIN Append(compiled, e) = 1 .. n + 1
      /\ \A m \in 1 .. n : Append(compiled, e)[m] = compiled[m]
      /\ Append(compiled, e)[n + 1] = e
      /\ Range(Append(compiled, e)) = S
  BY <1>5, AppendFacts, AppendProperties
<1>8. n \in Nat /\ DOMAIN compiled = 1 .. n
  BY <1>1, AtFacts
<1>. QED BY <1>4, <1>6, <1>7, <1>8

LEMMA CompileStep ==
  ASSUME PInv, CompileModule
  PROVE  PInv'
<1>1. CASE \E why : Stop(why)
  <2>1. UNCHANGED <<vars, registry, compiled>> /\ step' = "exit"
    BY <1>1 DEF CompileModule, Stop
  <2>. QED BY <2>1, KeepsBooks
<1>2. CASE ~\E why : Stop(why)
  <2> DEFINE f == order[at]
             n == Len(compiled)
  <2>1. /\ step = "delegates" /\ registry' = Collected(f)
        /\ \/ at < Len(order) /\ at' = at + 1 /\ step' = "analyze"
           \/ at >= Len(order) /\ step' = "mkdir"
        /\ UNCHANGED vars
    BY <1>2, CompileFacts
  <2>2. VInv' /\ UNCHANGED <<fs, order, result>>
    BY <2>1, NextVInv DEF PInv, vars
  <2>3. /\ n \in Nat /\ DOMAIN compiled = 1 .. n /\ at = n + 1 /\ at \in DOMAIN order
        /\ at <= Len(order) /\ Len(order) \in Nat
    BY <2>1, AtFacts
  <2>4. /\ compiled' \in Seq(Range(compiled')) /\ Len(compiled') = n + 1
        /\ DOMAIN compiled' = 1 .. n + 1
        /\ \A m \in 1 .. n : compiled'[m] = compiled[m]
        /\ compiled'[n + 1].imports = Imported(f)
    BY <1>2, CompileFacts
  <2>5. \A d \in fs.decls[f] : d.name \notin DOMAIN registry
    BY <2>1 DEF PInv, NamesAreFree
  <2>6. \A k \in DOMAIN registry : k \in DOMAIN registry' /\ registry'[k] = registry[k]
    BY <2>1, <2>5, CollectedExtends
  <2>7. \A k \in NamesOf(OfKind(f, Types)) :
          /\ k \in DOMAIN registry' /\ registry'[k].from = f
          /\ registry'[k].kind \in Types /\ k \in NamesOf(fs.decls[f])
    BY <2>1, CollectedOwn
  <2>8. \A k \in DOMAIN registry' : k \in DOMAIN registry \/ k \in NamesOf(OfKind(f, Types))
    BY <2>1 DEF Collected
  <2>. HIDE DEF f
  <2>9. PipelineTypeOK'
    <3>1. ASSUME NEW k \in DOMAIN registry'
          PROVE  /\ registry'[k].kind \in Types
                 /\ registry'[k].from \in { order[i] : i \in 1 .. n + 1 }
                 /\ k \in NamesOf(fs.decls[registry'[k].from])
      <4>1. CASE k \in DOMAIN registry
        <5>1. /\ registry[k].kind \in Types
              /\ registry[k].from \in { order[i] : i \in 1 .. n }
              /\ k \in NamesOf(fs.decls[registry[k].from])
          BY <2>3, <4>1 DEF PInv, PipelineTypeOK
        <5>. QED BY <2>3, <2>6, <4>1, <5>1
      <4>2. CASE k \in NamesOf(OfKind(f, Types))
        BY <2>3, <2>7, <4>2 DEF f
      <4>. QED BY <2>8, <3>1, <4>1, <4>2
    <3>2. Len(compiled') <= Len(order)
      BY <2>3, <2>4
    <3>3. step' \in {"analyze", "delegates"} => at' = Len(compiled') + 1 /\ at' <= Len(order)
      BY <2>1, <2>3, <2>4
    <3>4. \A k \in DOMAIN registry' : k \in NamesOf(fs'.decls[registry'[k].from])
      BY <2>2, <3>1
    <3>. QED BY <2>2, <2>4, <3>1, <3>2, <3>3, <3>4 DEF PipelineTypeOK
  <2>10. NamesAreFree' /\ (step' = "resolve" => compiled' = << >>)
    BY <2>1 DEF NamesAreFree
  <2>11. TypesRegistered'
    <3>1. ASSUME NEW m \in 1 .. n + 1, NEW k \in NamesOf(OfKind(order[m], Types))
          PROVE  k \in DOMAIN registry' /\ registry'[k].from = order[m]
      <4>1. CASE m \in 1 .. n
        <5>1. k \in DOMAIN registry /\ registry[k].from = order[m]
          BY <2>3, <3>1, <4>1 DEF PInv, TypesRegistered
        <5>. QED BY <2>6, <5>1
      <4>2. CASE m = n + 1
        BY <2>3, <2>7, <3>1, <4>2 DEF f
      <4>. QED BY <2>3, <3>1, <4>1, <4>2
    <3>2. \A m \in DOMAIN order : OfKind(order[m], Types)' = OfKind(order[m], Types)
      BY <2>2 DEF OfKind, Types
    <3>3. \A m \in 1 .. n + 1 : m \in DOMAIN order
      BY <2>3, OrderFacts DEF PInv, VInv
    <3>4. order' = order
      BY <2>2
    <3>. QED BY <2>4, <3>1, <3>2, <3>3, <3>4 DEF TypesRegistered, NamesOf
  <2>12. ImportsMeanTheirModule'
    <3>1. ASSUME NEW m \in 1 .. n + 1, NEW i \in DOMAIN fs.imports[order[m]],
                 NEW d \in OfKind(Dep(fs, order[m], i), Types),
                 d.name = fs.imports[order[m]][i].item
          PROVE  { x \in compiled'[m].imports : x.name = d.name }
                   = {[name |-> d.name, from |-> Dep(fs, order[m], i)]}
      <4>1. CASE m \in 1 .. n
        BY <2>3, <2>4, <3>1, <4>1 DEF PInv, ImportsMeanTheirModule
      <4>2. CASE m = n + 1
        <5>1. i \in DOMAIN fs.imports[order[at]] /\ d \in OfKind(Dep(fs, order[at], i), Types)
              /\ d.name = fs.imports[order[at]][i].item
          BY <2>3, <3>1, <4>2
        <5>2. { x \in Imported(order[at]) : x.name = d.name }
                = {[name |-> d.name, from |-> Dep(fs, order[at], i)]}
          BY <2>1, <5>1, ImportedItem
        <5>. QED BY <2>3, <2>4, <4>2, <5>2 DEF f
      <4>. QED BY <2>3, <3>1, <4>1, <4>2
    <3>2. fs' = fs /\ order' = order /\ DOMAIN compiled' = 1 .. n + 1
      BY <2>2, <2>4
    <3>3. SUFFICES ASSUME NEW m \in 1 .. n + 1, NEW i \in DOMAIN fs.imports[order[m]],
                          NEW d \in { x \in fs.decls[Dep(fs, order[m], i)] : x.kind \in Types },
                          d.name = fs.imports[order[m]][i].item
          PROVE  { x \in compiled'[m].imports : x.name = fs.imports[order[m]][i].item }
                   = {[name |-> fs.imports[order[m]][i].item, from |-> Dep(fs, order[m], i)]}
      BY <3>2, SMTT(30) DEF ImportsMeanTheirModule, OfKind
    <3>. QED BY <3>1, <3>3 DEF OfKind
  <2>. QED BY <2>2, <2>9, <2>10, <2>11, <2>12 DEF PInv
<1>. QED BY <1>1, <1>2

---------------------------------------------------------------------------
(* The command                                                             *)

(* What a step of the command can be, for the books of the pipeline.       *)
LEMMA StepKinds ==
  ASSUME [CNext]_cvars
  PROVE  \/ Resolving \/ Begin \/ Analyze \/ CompileModule
         \/ /\ UNCHANGED <<vars, registry, compiled>>
            /\ UNCHANGED <<step, at>> \/ step' \notin {"resolve", "analyze", "delegates"}
<1>1. CASE UNCHANGED cvars
  BY <1>1 DEF cvars, pvars
<1>2. CASE Compiling
  BY <1>2 DEF Compiling, PNext, ResolveFailed, PopMachine, Stop
<1>3. CASE MakeDir \/ MakeDirFails \/ Skip \/ Sort \/ PopStruct
  BY <1>3 DEF MakeDir, MakeDirFails, Skip, NextModule, Sort, PopStruct, Stop
<1>4. CASE EmitC \/ EmitRust \/ WriteFails \/ Written
  BY <1>4 DEF EmitC, EmitRust, WriteFails, Written, NextModule, Stop
<1>5. CASE Write
  BY <1>5 DEF Write, pvars
<1>. QED BY <1>1, <1>2, <1>3, <1>4, <1>5 DEF CNext

LEMMA NextPInv == PInv /\ [CNext]_cvars => PInv'
BY StepKinds, ResolvingStep, BeginStep, AnalyzeStep, CompileStep, KeepsBooks

LEMMA PInvInvariant == CSpec => []PInv
BY InitPInv, NextPInv, PTL DEF CSpec

(* For every project: the modules compiled are those of the order, the one *)
(* at work comes next, and what the registry holds are types, each         *)
(* declared by a module compiled before (driver.rs, collect_external_types *)
(* in pipeline.rs).                                                        *)
THEOREM PipelineTypeCorrect == CSpec => []PipelineTypeOK
<1>1. PInv => PipelineTypeOK
  BY DEF PInv
<1>. QED BY <1>1, PInvInvariant, PTL

(* For every project, whatever the imports, the names and the files they   *)
(* lead to: an import of a type is, in the generated code, that type of    *)
(* the module the import names, although it is looked up by its bare name  *)
(* in a registry that has the types of all modules compiled so far.        *)
THEOREM ImportsAreTheirs == CSpec => []ImportsMeanTheirModule
<1>1. PInv => ImportsMeanTheirModule
  BY DEF PInv
<1>. QED BY <1>1, PInvInvariant, PTL

LEMMA NextKeepsTypes ==
  ASSUME PInv, [CNext]_cvars, NEW n \in DOMAIN registry
  PROVE  n \in DOMAIN registry' /\ registry'[n] = registry[n]
<1>1. CASE UNCHANGED registry
  BY <1>1
<1>2. CASE CompileModule /\ registry' = Collected(order[at])
  <2>1. \A d \in fs.decls[order[at]] : d.name \notin DOMAIN registry
    BY <1>2 DEF PInv, NamesAreFree, CompileModule
  <2>. QED BY <1>2, <2>1, CollectedExtends
<1>3. UNCHANGED registry \/ (CompileModule /\ registry' = Collected(order[at]))
  BY StepKinds DEF Resolving, Begin, Analyze, CompileModule, Stop, pvars
<1>. QED BY <1>1, <1>2, <1>3

(* For every project: a type that was registered keeps its module and its  *)
(* kind. Refusing a local declaration of a registered name (register, in   *)
(* sema) is what keeps the insert in collect_external_types from           *)
(* overwriting.                                                            *)
THEOREM RegistryOnlyGrows == CSpec => NoTypeIsReplaced
<1>. DEFINE Kept == \A n \in DOMAIN registry : n \in DOMAIN registry' /\ registry'[n] = registry[n]
<1>1. PInv /\ [CNext]_cvars => [Kept]_registry
  BY NextKeepsTypes
<1>. QED BY <1>1, PInvInvariant, PTL DEF CSpec, NoTypeIsReplaced
---------------------------------------------------------------------------
(* Projects that compile                                                   *)

(* What the registry says of a type is what its module declares.           *)
KindsRegistered ==
  \A n \in DOMAIN registry :
    \E d \in fs.decls[registry[n].from] : d.name = n /\ d.kind = registry[n].kind

RefusalHasCause ==
  status \in {"duplicate", "bad type"} => step = "exit" /\ ~WellImported

WInv == PInv /\ KindsRegistered /\ RefusalHasCause

(* The command has ended.                                                  *)
LEMMA ExitStays ==
  ASSUME [CNext]_cvars, step = "exit"
  PROVE  UNCHANGED cvars
<1>1. ~Compiling /\ ~MakeDir /\ ~MakeDirFails /\ ~Skip /\ ~Sort /\ ~PopStruct
  BY DEF Compiling, PNext, Resolving, ResolveFailed, Begin, Analyze, PopMachine,
         CompileModule, MakeDir, MakeDirFails, Skip, Sort, PopStruct
<1>2. ~EmitC /\ ~EmitRust /\ ~Write /\ ~WriteFails /\ ~Written
  BY DEF EmitC, EmitRust, Write, WriteFails, Written
<1>. QED BY <1>1, <1>2 DEF CNext

(* Where the verdicts on a command come from.                              *)
LEMMA StatusKinds ==
  ASSUME [CNext]_cvars
  PROVE  \/ status' = status
         \/ ResolveFailed /\ status' = result
         \/ Analyze /\ Stop(status')
         \/ CompileModule /\ status' = "circular delegates"
         \/ status' \in {"ok", "cannot create", "cannot write"}
<1>1. CASE UNCHANGED cvars
  BY <1>1 DEF cvars, pvars
<1>2. CASE Resolving \/ ResolveFailed \/ Begin \/ PopMachine
  BY <1>2 DEF Resolving, ResolveFailed, Begin, PopMachine, Stop, pvars
<1>3. CASE Analyze
  BY <1>3 DEF Analyze, Stop
<1>4. CASE CompileModule
  BY <1>4 DEF CompileModule, Stop
<1>5. CASE MakeDir \/ MakeDirFails \/ Skip \/ Sort \/ PopStruct
  BY <1>5 DEF MakeDir, MakeDirFails, Skip, NextModule, Sort, PopStruct, Stop
<1>6. CASE EmitC \/ EmitRust \/ WriteFails \/ Written
  BY <1>6 DEF EmitC, EmitRust, WriteFails, Written, NextModule, Stop
<1>7. CASE Write
  BY <1>7 DEF Write, pvars
<1>. QED BY <1>1, <1>2, <1>3, <1>4, <1>5, <1>6, <1>7 DEF CNext, Compiling, PNext

(* A name that is no alias means itself: the chain of aliases that         *)
(* resolve_type_name follows is constant.                                  *)
LEMMA FollowsNoAlias ==
  ASSUME NEW f, NEW n, ~IsAlias(f, n)
  PROVE  Follow(f, n) = n
<1> DEFINE Link(c, i) == IF i = 0 THEN n ELSE TargetOf(f, c[i - 1])
           Chain(c) == c = [i \in 0 .. AliasDepth |-> Link(c, i)]
           chain == CHOOSE c : Chain(c)
           const == [i \in 0 .. AliasDepth |-> n]
           Wrong == { i \in 0 .. AliasDepth : chain[i] # n }
<1>1. TargetOf(f, n) = n /\ AliasDepth \in Nat
  BY PipelineAssumption DEF TargetOf
<1>2. Follow(f, n) = chain[AliasDepth]
  BY DEF Follow
<1>3. Chain(chain)
  <2>1. ASSUME NEW i \in 0 .. AliasDepth
        PROVE  Link(const, i) = n
    <3>1. CASE i = 0
      BY <3>1
    <3>2. CASE i # 0
      <4>1. i - 1 \in 0 .. AliasDepth
        BY <1>1, <3>2
      <4>. QED BY <1>1, <3>2, <4>1
    <3>. QED BY <3>1, <3>2
  <2>2. Chain(const)
    BY <2>1
  <2>. QED BY <2>2
<1>4. \A i \in 0 .. AliasDepth : chain[i] = Link(chain, i)
  BY <1>3
<1>. HIDE DEF chain
<1>5. Wrong = {}
  <2>. SUFFICES ASSUME Wrong # {} PROVE FALSE
    OBVIOUS
  <2>0. Wrong \subseteq Nat
    BY <1>1
  <2>1. PICK i \in Wrong : \A j \in Wrong : i <= j
    <3>. HIDE DEF Wrong
    <3>. QED BY <2>0, LeastElement
  <2>2. i # 0 /\ i - 1 \in 0 .. AliasDepth /\ ~(i <= i - 1)
    BY <1>1, <1>4, <2>1
  <2>3. chain[i - 1] = n
    BY <2>1, <2>2
  <2>. QED BY <1>1, <1>4, <2>1, <2>2, <2>3
<1>. QED BY <1>1, <1>2, <1>5

(* The module at work comes after those that are compiled.                 *)
LEMMA AtIsNew ==
  ASSUME PInv, step \in {"analyze", "delegates"}
  PROVE  /\ at \in DOMAIN order
         /\ \A i \in DOMAIN compiled : i \in DOMAIN order /\ i < at /\ order[i] # order[at]
         /\ \A j \in 1 .. at - 1 : j \in DOMAIN compiled
<1>1. /\ Len(compiled) \in Nat /\ DOMAIN compiled = 1 .. Len(compiled)
      /\ Len(order) \in Nat /\ DOMAIN order = 1 .. Len(order)
      /\ at = Len(compiled) + 1 /\ at <= Len(order)
  BY OrderFacts, LenProperties DEF PInv, VInv, PipelineTypeOK
<1>2. \A i, j \in DOMAIN order : order[i] = order[j] => i = j
  BY DEF PInv, VInv, IInv, EachModuleOnce
<1>3. at \in DOMAIN order /\ \A i \in DOMAIN compiled : i \in DOMAIN order /\ i < at
  BY <1>1
<1>4. \A j \in 1 .. at - 1 : j \in DOMAIN compiled
  BY <1>1
<1>5. ASSUME NEW i \in DOMAIN compiled
      PROVE  order[i] # order[at]
  BY <1>1, <1>2, <1>3
<1>. QED BY <1>3, <1>4, <1>5

(* In a project whose names are all different, a name of the module at     *)
(* work is declared there and nowhere else.                                *)
LEMMA OwnName ==
  ASSUME PInv, WellImported, step = "analyze", NEW f, f = order[at], NEW d \in fs.decls[f]
  PROVE  /\ Named(f, d.name) = {d} /\ Declared(f, d.name) = d
         /\ d.name \notin DOMAIN registry
         /\ d.name \notin Reserved /\ d.name \notin Primitives
<1>1. f \in Range(order)
  BY AtIsNew DEF Range
<1>2. \A e \in fs.decls[f] : e.name = d.name => e = d
  BY <1>1 DEF WellImported
<1>3. Named(f, d.name) = {d}
  BY <1>2 DEF Named
<1>4. Declared(f, d.name) = d
  BY <1>3 DEF Declared
<1>5. d.name \notin Reserved /\ d.name \notin Primitives
  BY <1>1 DEF WellImported, NamesOf
<1>6. ASSUME d.name \in DOMAIN registry
      PROVE  FALSE
  <2>1. PICK i \in DOMAIN compiled : registry[d.name].from = order[i]
    BY <1>6 DEF PInv, PipelineTypeOK
  <2>2. PICK e \in fs.decls[order[i]] : e.name = d.name
    BY <1>6, <2>1 DEF PInv, PipelineTypeOK, NamesOf
  <2>3. order[i] \in Range(order) /\ order[i] # f
    BY AtIsNew DEF Range
  <2>. QED BY <1>1, <2>2, <2>3 DEF WellImported
<1>. QED BY <1>3, <1>4, <1>5, <1>6

(* No declaration of such a project is refused.                            *)
LEMMA NothingRefused ==
  ASSUME PInv, WellImported, step = "analyze", NEW d \in fs.decls[order[at]]
  PROVE  ~Refused(order[at], d)
<1>1. Cardinality({d}) = 1
  BY FS_Singleton
<1>2. ~(Cardinality({d}) > 1)
  BY <1>1
<1>. QED BY <1>2, OwnName DEF Refused

(* A type of its own, or one it imports, resolves.                         *)
LEMMA TypeFound ==
  ASSUME WInv, WellImported, step = "analyze", NEW n \in OwnOrImported(order[at])
  PROVE  Kind(order[at], n) \in {"primitive", "packet", "varint"}
<1> DEFINE f == order[at]
<1>0. f \in Range(order) /\ PInv
  BY AtIsNew DEF WInv, Range
<1>1. ASSUME NEW d \in fs.decls[f], IsAlias(f, n), d.name = n
      PROVE  d.kind = "alias"
  <2>1. PICK e \in fs.decls[f] : e.kind = "alias" /\ e.name = n
    BY <1>1 DEF IsAlias, NamesOf, OfKind
  <2>. QED BY <1>0, <1>1, <2>1 DEF WellImported
<1>2. IsAlias(f, n) => \E d \in fs.decls[f] : d.name = n
  BY DEF IsAlias, NamesOf, OfKind
<1>3. CASE n \in Primitives
  <2>1. ~IsAlias(f, n)
    BY <1>0, <1>2, <1>3, OwnName
  <2>. QED BY <1>3, <2>1, FollowsNoAlias DEF Kind, KindOf
<1>4. CASE n \in NamesOf(OfKind(f, {"packet", "varint"}))
  <2>1. PICK d \in fs.decls[f] : d.name = n /\ d.kind \in {"packet", "varint"}
    BY <1>4 DEF NamesOf, OfKind
  <2>2. ~IsAlias(f, n)
    BY <1>1, <2>1
  <2>3. Named(f, n) = {d} /\ Declared(f, n) = d /\ n \notin Primitives
    BY <1>0, <2>1, OwnName
  <2>. QED BY <2>1, <2>2, <2>3, FollowsNoAlias DEF Kind, KindOf
<1>5. CASE \E j \in DOMAIN fs.imports[f] :
             /\ fs.imports[f][j].item = n
             /\ n \in NamesOf(OfKind(Dep(fs, f, j), {"packet", "varint"}))
  <2>1. PICK j \in DOMAIN fs.imports[f] :
          n \in NamesOf(OfKind(Dep(fs, f, j), {"packet", "varint"}))
    BY <1>5
  <2>2. PICK i \in 1 .. at - 1 : order[i] = Dep(fs, f, j)
    BY <1>0, AtIsNew DEF PInv, VInv, DepsFirst
  <2>3. i \in DOMAIN compiled /\ order[i] # f /\ order[i] \in Range(order)
    BY <1>0, AtIsNew DEF Range
  <2>4. PICK d \in fs.decls[order[i]] : d.name = n /\ d.kind \in {"packet", "varint"}
    BY <2>1, <2>2 DEF NamesOf, OfKind
  <2>5. n \in DOMAIN registry /\ registry[n].from = order[i]
    <3>1. n \in NamesOf(OfKind(order[i], Types))
      BY <2>4 DEF NamesOf, OfKind, Types
    <3>. QED BY <1>0, <2>3, <3>1 DEF PInv, TypesRegistered
  <2>6. registry[n].kind = d.kind
    <3>1. PICK e \in fs.decls[order[i]] : e.name = n /\ e.kind = registry[n].kind
      BY <2>5 DEF WInv, KindsRegistered
    <3>. QED BY <2>3, <2>4, <3>1 DEF WellImported
  <2>7. \A e \in fs.decls[f] : e.name # n
    BY <1>0, <2>3, <2>4 DEF WellImported
  <2>8. ~IsAlias(f, n) /\ Named(f, n) = {}
    BY <1>2, <2>7 DEF Named
  <2>9. n \notin Primitives
    BY <2>3, <2>4 DEF WellImported, NamesOf
  <2>. QED BY <2>4, <2>5, <2>6, <2>8, <2>9, FollowsNoAlias DEF Kind, KindOf
<1>. QED BY <1>3, <1>4, <1>5 DEF OwnOrImported

LEMMA SameNames ==
  ASSUME UNCHANGED <<fs, order>>
  PROVE  WellImported' <=> WellImported
<1>1. ASSUME NEW f
      PROVE  OwnOrImported(f)' = OwnOrImported(f)
  BY DEF OwnOrImported, NamesOf, OfKind
<1>. QED BY <1>1 DEF WellImported, NamesOf, OfKind

LEMMA RefusalKept ==
  ASSUME WInv, [CNext]_cvars
  PROVE  RefusalHasCause'
<1>1. CASE status' \notin {"duplicate", "bad type"}
  BY <1>1 DEF RefusalHasCause
<1>2. CASE status' = status /\ status \in {"duplicate", "bad type"}
  <2>1. step = "exit" /\ ~WellImported
    BY <1>2 DEF WInv, RefusalHasCause
  <2>2. UNCHANGED <<step, fs, order, status>>
    BY <2>1, ExitStays DEF cvars, vars, pvars
  <2>. QED BY <2>1, <2>2, SameNames DEF RefusalHasCause
<1>3. CASE Analyze /\ Stop(status')
  <2>1. step = "analyze" /\ UNCHANGED <<fs, order>> /\ step' = "exit"
    BY <1>3 DEF Analyze, Stop, vars
  <2>2. ~WellImported
    <3>. SUFFICES ASSUME WellImported PROVE FALSE
      OBVIOUS
    <3>1. \A d \in fs.decls[order[at]] : ~Refused(order[at], d)
      BY <2>1, NothingRefused DEF WInv
    <3>2. order[at] \in Range(order)
      BY <2>1, AtIsNew DEF WInv, Range
    <3>3. TypesResolve(order[at])
      BY <2>1, <3>2, TypeFound DEF TypesResolve, WellImported
    <3>4. step' = "delegates"
      BY <1>3, <3>1, <3>3 DEF Analyze
    <3>. QED BY <2>1, <3>4
  <2>. QED BY <2>1, <2>2, SameNames DEF RefusalHasCause
<1>4. result \notin {"duplicate", "bad type"}
  BY DEF WInv, PInv, VInv, IInv, TypeOK, Faults
<1>. QED BY <1>1, <1>2, <1>3, <1>4, StatusKinds

LEMMA KindsKept ==
  ASSUME WInv, [CNext]_cvars
  PROVE  KindsRegistered'
<1>1. CASE UNCHANGED <<fs, registry>>
  BY <1>1 DEF WInv, KindsRegistered
<1>2. CASE Resolving
  <2>1. registry' = registry /\ compiled = << >>
    BY <1>2 DEF Resolving, pvars, WInv, PInv
  <2>2. DOMAIN compiled = {}
    BY <2>1
  <2>3. DOMAIN registry = {}
    BY <2>2 DEF WInv, PInv, PipelineTypeOK
  <2>. QED BY <2>1, <2>3 DEF KindsRegistered
<1>3. CASE CompileModule /\ registry' = Collected(order[at])
  <2>1. fs' = fs /\ step = "delegates" /\ PInv
    BY <1>3 DEF CompileModule, vars, WInv
  <2>2. ASSUME NEW n \in DOMAIN registry'
        PROVE  \E d \in fs.decls[registry'[n].from] : d.name = n /\ d.kind = registry'[n].kind
    <3>1. CASE n \in DOMAIN registry
      <4>1. registry'[n] = registry[n]
        BY <2>1, <3>1, NextKeepsTypes
      <4>. QED BY <3>1, <4>1 DEF WInv, KindsRegistered
    <3>2. CASE n \in NamesOf(OfKind(order[at], Types))
      <4>1. registry'[n] = [from |-> order[at], kind |-> Declared(order[at], n).kind]
        BY <1>3, <3>2 DEF Collected
      <4>2. Declared(order[at], n) \in Named(order[at], n)
        BY <3>2 DEF Declared, Named, NamesOf, OfKind
      <4>. QED BY <4>1, <4>2 DEF Named
    <3>. QED BY <1>3, <3>1, <3>2 DEF Collected
  <2>. QED BY <2>1, <2>2 DEF KindsRegistered
<1>4. \/ UNCHANGED <<fs, registry>> \/ Resolving
      \/ (CompileModule /\ registry' = Collected(order[at]))
  BY StepKinds DEF Begin, Analyze, CompileModule, Stop, vars
<1>. QED BY <1>1, <1>2, <1>3, <1>4

LEMMA NextWInv == WInv /\ [CNext]_cvars => WInv'
BY NextPInv, KindsKept, RefusalKept DEF WInv

LEMMA WInvInvariant == CSpec => []WInv
<1>1. CInit => WInv
  <2>. SUFFICES ASSUME CInit PROVE WInv
    OBVIOUS
  <2>. QED BY InitPInv DEF CInit, PInit, WInv, KindsRegistered, RefusalHasCause
<1>. QED BY <1>1, NextWInv, PTL DEF CSpec

(* For every project that names its declarations differently and whose     *)
(* packets name primitives, types of their own module and types they       *)
(* import: no module is refused for a duplicate or an unknown type. The    *)
(* order of compilation and the flat registry deliver what the imports     *)
(* promise.                                                                *)
THEOREM ImportsSuffice == CSpec => []WellImportedCompiles
<1>1. WInv => WellImportedCompiles
  BY DEF WInv, RefusalHasCause, WellImportedCompiles
<1>. QED BY <1>1, WInvInvariant, PTL

---------------------------------------------------------------------------
(* The delegates of a project's machines                                   *)

(* While a module's machines are ordered, the books of the run are kept.   *)
KahnBooks ==
  step = "delegates" => KInv(kahn, Parents(Delegates(order[at])))

(* The modules compiled so far have no circle of their own, and what their *)
(* machines are and hold is registered; no later module declares it again. *)
DelegatesBooks ==
  \A m \in DOMAIN compiled :
    LET own == compiled[m].delegates
    IN  /\ Acyclic(Parents(own))
        /\ DOMAIN own \subseteq DOMAIN registry
        /\ \A n \in DOMAIN own : own[n] \subseteq DOMAIN registry
        /\ \A j \in DOMAIN compiled : j > m =>
             \A x \in DOMAIN compiled[j].delegates :
               /\ x \notin DOMAIN own
               /\ \A n \in DOMAIN own : x \notin own[n]

VerdictHasCause ==
  status = "circular delegates" =>
    step = "exit" /\ Circular(Parents(Delegates(order[at])))

DInv == PInv /\ KahnBooks /\ DelegatesBooks /\ VerdictHasCause

---------------------------------------------------------------------------
(* Delegates of one module                                                 *)

(* They depend on the project and the registry only.                       *)
LEMMA SameDelegates ==
  ASSUME UNCHANGED <<fs, registry>>, NEW f
  PROVE  Delegates(f)' = Delegates(f)
BY DEF Named, OfKind, IsAlias, NamesOf, Declared, TargetOf, Follow, KindOf, Kind, Children, Delegates

(* The graph the analyzer orders.                                          *)
LEMMA DelegatesGraph ==
  ASSUME IInv, NEW f \in fs.files
  PROVE  /\ Graph(Parents(Delegates(f)))
         /\ DOMAIN Parents(Delegates(f)) = NamesOf(OfKind(f, {"machine"}))
         /\ IsFiniteSet(OfKind(f, {"machine"}))
<1> DEFINE M == OfKind(f, {"machine"})
           g == [d \in M |-> d.name]
<1>1. IsFiniteSet(M)
  <2>1. IsFiniteSet(fs.decls[f])
    BY PipelineAssumption DEF IInv, TypeOK, Described
  <2>. QED BY <2>1, FS_Subset DEF OfKind
<1>2. g \in Surjection(M, NamesOf(M))
  BY DEF Surjection, NamesOf
<1>3. IsFiniteSet(NamesOf(M))
  BY <1>1, <1>2, FS_Surjection
<1>4. DOMAIN Parents(Delegates(f)) = NamesOf(M)
  BY DEF Parents, Delegates
<1>5. \A n \in DOMAIN Parents(Delegates(f)) :
        Parents(Delegates(f))[n] \subseteq DOMAIN Parents(Delegates(f))
  BY DEF Parents
<1>. HIDE DEF M
<1>6. Graph(Parents(Delegates(f)))
  BY <1>3, <1>4, <1>5 DEF Graph
<1>. QED BY <1>1, <1>4, <1>6 DEF M

(* While its machines are ordered, a module declares each name once: there *)
(* are as many machines as names of machines.                              *)
LEMMA MachinesAreNames ==
  ASSUME PInv, step = "delegates"
  PROVE  Cardinality(OfKind(order[at], {"machine"}))
           = Cardinality(NamesOf(OfKind(order[at], {"machine"})))
<1> DEFINE f == order[at]
           M == OfKind(f, {"machine"})
           g == [d \in M |-> d.name]
<1>1. f \in fs.files
  <2>1. at \in 1 .. Len(order)
    BY AtFacts
  <2>. QED BY <2>1, OrderFacts, ElementOfSeq DEF PInv, VInv
<1>2. IsFiniteSet(M) /\ IsFiniteSet(fs.decls[f])
  BY <1>1, DelegatesGraph, PipelineAssumption DEF PInv, VInv, IInv, TypeOK, Described
<1>3. ASSUME NEW d \in M, NEW e \in M, d.name = e.name
      PROVE  d = e
  <2>1. d \in Named(f, d.name) /\ e \in Named(f, d.name)
    BY <1>3 DEF OfKind, Named
  <2>2. IsFiniteSet(Named(f, d.name))
    BY <1>2, FS_Subset DEF Named
  <2>3. ~(Cardinality(Named(f, d.name)) > 1)
    BY DEF PInv, NamesAreFree, OfKind
  <2>. QED BY <2>1, <2>2, <2>3, TwoElements
<1>4. g \in Surjection(M, NamesOf(M))
  BY DEF Surjection, NamesOf
<1>5. g \in Injection(M, NamesOf(M))
  BY <1>3 DEF Injection, IsInjective, NamesOf
<1>6. Cardinality(NamesOf(M)) = Cardinality(M)
  <2>. HIDE DEF M, g
  <2>. QED BY <1>2, <1>4, <1>5, FS_Surjection
<1>. QED BY <1>6

(* What a machine holds is a machine of its module or one registered.      *)
LEMMA ChildrenKnown ==
  ASSUME NEW f, NEW n \in DOMAIN Delegates(f), NEW x \in Delegates(f)[n]
  PROVE  x \in NamesOf(OfKind(f, {"machine"})) \/ x \in DOMAIN registry
<1>1. PICK r : x = Follow(f, r) /\ Kind(f, r) = "machine"
  BY DEF Delegates, Children
<1>2. KindOf(f, x) = "machine"
  BY <1>1 DEF Kind
<1>3. \/ Named(f, x) # {} /\ Declared(f, x).kind = "machine"
      \/ x \in DOMAIN registry
  BY <1>2 DEF KindOf
<1>4. CASE Named(f, x) # {} /\ Declared(f, x).kind = "machine"
  <2>1. Declared(f, x) \in Named(f, x)
    BY <1>4 DEF Declared
  <2>. QED BY <1>4, <2>1 DEF Named, NamesOf, OfKind
<1>. QED BY <1>3, <1>4

---------------------------------------------------------------------------
(* The invariant                                                           *)

LEMMA InitDInv == CInit => DInv
<1>. SUFFICES ASSUME CInit PROVE DInv
  OBVIOUS
<1>1. compiled = << >> /\ step = "resolve" /\ status = "running"
  BY DEF CInit, PInit
<1>. QED
  BY <1>1, InitPInv DEF DInv, KahnBooks, DelegatesBooks, VerdictHasCause

(* The module at work is a file of the project.                            *)
LEMMA AtFile ==
  ASSUME PInv, step \in {"analyze", "delegates"}
  PROVE  order[at] \in fs.files
<1>1. at \in 1 .. Len(order)
  BY OrderFacts, LenProperties DEF PInv, VInv, PipelineTypeOK
<1>. QED BY <1>1, OrderFacts, ElementOfSeq DEF PInv, VInv

LEMMA KahnBooksKept ==
  ASSUME DInv, [CNext]_cvars
  PROVE  KahnBooks'
<1>1. CASE step' # "delegates"
  BY <1>1 DEF KahnBooks
<1>2. CASE UNCHANGED <<vars, step, at, registry, kahn>>
  <2>1. PICK f : f = order[at]
    OBVIOUS
  <2>2. f = (order[at])' /\ Delegates(f)' = Delegates(f)
    BY <1>2, <2>1, SameDelegates DEF vars
  <2>. QED BY <1>2, <2>1, <2>2 DEF DInv, KahnBooks
<1>3. CASE /\ UNCHANGED <<vars, at, registry>> /\ step \in {"analyze", "delegates"}
           /\ \/ kahn' \in Starts(Parents(Delegates(order[at])))
              \/ /\ step = "delegates" /\ kahn.queue # << >>
                 /\ kahn' \in Pops(kahn, Parents(Delegates(order[at])))
  <2>1. PICK f : f = order[at]
    OBVIOUS
  <2>2. f = (order[at])' /\ Delegates(f)' = Delegates(f)
    BY <1>3, <2>1, SameDelegates DEF vars
  <2>3. Graph(Parents(Delegates(f)))
    BY <1>3, <2>1, AtFile, DelegatesGraph DEF DInv, PInv, VInv
  <2>4. KInv(kahn', Parents(Delegates(f)))
    <3>1. CASE kahn' \in Starts(Parents(Delegates(f)))
      BY <2>3, <3>1, StartsKInv
    <3>2. CASE /\ step = "delegates" /\ kahn.queue # << >>
               /\ kahn' \in Pops(kahn, Parents(Delegates(f)))
      <4>1. KInv(kahn, Parents(Delegates(f)))
        BY <2>1, <3>2 DEF DInv, KahnBooks
      <4>. QED BY <2>3, <3>2, <4>1, PopsKInv
    <3>. QED BY <1>3, <2>1, <3>1, <3>2
  <2>. QED BY <2>1, <2>2, <2>4 DEF KahnBooks
<1>4. \/ step' # "delegates"
      \/ UNCHANGED <<vars, step, at, registry, kahn>>
      \/ /\ UNCHANGED <<vars, at, registry>> /\ step \in {"analyze", "delegates"}
         /\ \/ kahn' \in Starts(Parents(Delegates(order[at])))
            \/ /\ step = "delegates" /\ kahn.queue # << >>
               /\ kahn' \in Pops(kahn, Parents(Delegates(order[at])))
  <2>1. CASE UNCHANGED cvars
    BY <2>1 DEF cvars, pvars
  <2>2. CASE Compiling
    <3>1. CASE Resolving \/ ResolveFailed \/ Begin
      BY <3>1 DEF Resolving, ResolveFailed, Begin, Stop, pvars
    <3>2. CASE Analyze
      BY <3>2 DEF Analyze, Stop
    <3>3. CASE PopMachine
      BY <3>3 DEF PopMachine
    <3>4. CASE CompileModule
      BY <3>4 DEF CompileModule, Stop
    <3>. QED BY <2>2, <3>1, <3>2, <3>3, <3>4 DEF Compiling, PNext
  <2>3. CASE MakeDir \/ MakeDirFails \/ Skip \/ Sort \/ PopStruct
    BY <2>3 DEF MakeDir, MakeDirFails, Skip, NextModule, Sort, PopStruct, Stop
  <2>4. CASE EmitC \/ EmitRust \/ WriteFails \/ Written
    BY <2>4 DEF EmitC, EmitRust, WriteFails, Written, NextModule, Stop
  <2>5. CASE Write
    BY <2>5 DEF Write, pvars
  <2>. QED BY <2>1, <2>2, <2>3, <2>4, <2>5 DEF CNext
<1>. QED BY <1>1, <1>2, <1>3, <1>4

(* The verdict on a module's delegates: circular if machines are left over *)
(* when the queue is empty.                                                *)
LEMMA Verdict ==
  ASSUME DInv, step = "delegates", kahn.queue = << >>
  PROVE  Len(kahn.done) < Cardinality(OfKind(order[at], {"machine"}))
           <=> Circular(Parents(Delegates(order[at])))
<1> DEFINE preds == Parents(Delegates(order[at]))
<1>1. order[at] \in fs.files
  BY AtFile DEF DInv
<1>2. /\ Graph(preds) /\ DOMAIN preds = NamesOf(OfKind(order[at], {"machine"}))
      /\ KInv(kahn, preds)
  BY <1>1, DelegatesGraph DEF DInv, PInv, VInv, KahnBooks
<1>3. Cardinality(DOMAIN preds) = Cardinality(OfKind(order[at], {"machine"}))
  BY <1>2, MachinesAreNames DEF DInv
<1>4. Len(kahn.done) \in Nat /\ Cardinality(DOMAIN preds) \in Nat
  <2>1. kahn.done \in Seq(DOMAIN preds)
    BY <1>2 DEF KInv
  <2>. HIDE DEF preds
  <2>. QED BY <1>2, <2>1, LenProperties, FS_CardinalityType DEF Graph
<1>5. /\ Len(kahn.done) <= Cardinality(DOMAIN preds)
      /\ Len(kahn.done) = Cardinality(DOMAIN preds) <=> Acyclic(preds)
  <2>. HIDE DEF preds
  <2>. QED BY <1>2, KahnIsRight
<1>. HIDE DEF preds
<1>6. Len(kahn.done) < Cardinality(DOMAIN preds) <=> Circular(preds)
  BY <1>4, <1>5 DEF Acyclic
<1>. QED BY <1>3, <1>6 DEF preds

LEMMA VerdictKept ==
  ASSUME DInv, [CNext]_cvars
  PROVE  VerdictHasCause'
<1>1. CASE status' # "circular delegates"
  BY <1>1 DEF VerdictHasCause
<1>2. CASE /\ UNCHANGED <<vars, at, registry>> /\ step' = "exit"
           /\ Circular(Parents(Delegates(order[at])))
  <2>1. PICK f : f = order[at]
    OBVIOUS
  <2>2. f = (order[at])' /\ Delegates(f)' = Delegates(f)
    BY <1>2, <2>1, SameDelegates DEF vars
  <2>. QED BY <1>2, <2>1, <2>2 DEF VerdictHasCause
<1>3. CASE status = "circular delegates"
  <2>1. step = "exit" /\ Circular(Parents(Delegates(order[at])))
    BY <1>3 DEF DInv, VerdictHasCause
  <2>2. UNCHANGED cvars
    BY <2>1, ExitStays
  <2>. QED BY <1>2, <2>1, <2>2 DEF cvars, pvars
<1>4. CASE CompileModule /\ Stop("circular delegates")
  <2>1. step = "delegates" /\ kahn.queue = << >> /\ UNCHANGED vars
    BY <1>4 DEF CompileModule
  <2>2. UNCHANGED <<at, registry>> /\ step' = "exit"
    BY <1>4 DEF Stop
  <2>3. CASE Len(kahn.done) < Cardinality(OfKind(order[at], {"machine"}))
    BY <1>2, <2>1, <2>2, <2>3, Verdict
  <2>4. CASE ~(Len(kahn.done) < Cardinality(OfKind(order[at], {"machine"})))
    <3>1. UNCHANGED status
      BY <1>4, <2>4 DEF CompileModule
    <3>. QED BY <1>1, <1>3, <3>1
  <2>. QED BY <2>3, <2>4
<1>5. result # "circular delegates"
  BY DEF DInv, PInv, VInv, IInv, TypeOK, Faults
<1>6. CASE CompileModule /\ ~Stop("circular delegates")
  <2>1. UNCHANGED status
    BY <1>6 DEF CompileModule
  <2>. QED BY <1>1, <1>3, <2>1
<1>7. CASE Analyze
  <2>1. status' # "circular delegates" \/ status' = status
    BY <1>7 DEF Analyze, Stop
  <2>. QED BY <1>1, <1>3, <2>1
<1>. QED BY <1>1, <1>3, <1>4, <1>5, <1>6, <1>7, StatusKinds

LEMMA DelegatesKept ==
  ASSUME DInv, [CNext]_cvars
  PROVE  DelegatesBooks'
<1>1. CASE UNCHANGED <<registry, compiled>>
  BY <1>1 DEF DInv, DelegatesBooks
<1>2. CASE CompileModule /\ ~\E why : Stop(why)
  <2> DEFINE f == order[at]
             n == Len(compiled)
             own == Delegates(f)
  <2>1. /\ step = "delegates" /\ registry' = Collected(f)
        /\ n \in Nat /\ DOMAIN compiled = 1 .. n /\ DOMAIN compiled' = 1 .. n + 1
        /\ \A m \in 1 .. n : compiled'[m] = compiled[m]
        /\ compiled'[n + 1].delegates = own
    BY <1>2, CompileFacts DEF DInv
  <2>2. DOMAIN registry \subseteq DOMAIN registry'
    BY NextKeepsTypes DEF DInv
  <2>3. DOMAIN own = NamesOf(OfKind(f, {"machine"}))
    BY DEF Delegates
  <2>4. DOMAIN own \subseteq DOMAIN registry' /\ DOMAIN own \cap DOMAIN registry = {}
    <3>1. DOMAIN own \subseteq NamesOf(OfKind(f, Types))
      BY <2>3 DEF NamesOf, OfKind, Types
    <3>2. NamesOf(OfKind(f, Types)) \subseteq DOMAIN registry'
      BY <2>1 DEF Collected
    <3>3. \A d \in fs.decls[f] : d.name \notin DOMAIN registry
      BY <2>1 DEF DInv, PInv, NamesAreFree
    <3>4. \A x \in NamesOf(OfKind(f, Types)) : x \notin DOMAIN registry
      BY <3>3 DEF NamesOf, OfKind
    <3>. QED BY <3>1, <3>2, <3>4
  <2>5. \A x \in DOMAIN own : own[x] \subseteq DOMAIN registry'
    BY <2>2, <2>3, <2>4, ChildrenKnown
  <2>6. Acyclic(Parents(own))
    <3>1. kahn.queue = << >>
      BY <1>2 DEF CompileModule
    <3>2. ~(Len(kahn.done) < Cardinality(OfKind(f, {"machine"})))
      BY <1>2 DEF CompileModule
    <3>. QED BY <2>1, <3>1, <3>2, Verdict DEF Acyclic
  <2>. HIDE DEF f, own
  <2>7. ASSUME NEW m \in 1 .. n
        PROVE  /\ Acyclic(Parents(compiled[m].delegates))
               /\ DOMAIN compiled[m].delegates \subseteq DOMAIN registry
               /\ \A k \in DOMAIN compiled[m].delegates : compiled[m].delegates[k] \subseteq DOMAIN registry
               /\ \A j \in 1 .. n : j > m =>
                    \A x \in DOMAIN compiled[j].delegates :
                      /\ x \notin DOMAIN compiled[m].delegates
                      /\ \A k \in DOMAIN compiled[m].delegates : x \notin compiled[m].delegates[k]
    BY <2>1, <2>7 DEF DInv, DelegatesBooks
  <2>8. ASSUME NEW m \in 1 .. n + 1
        PROVE  LET o == compiled'[m].delegates
               IN  /\ Acyclic(Parents(o))
                   /\ DOMAIN o \subseteq DOMAIN registry'
                   /\ \A k \in DOMAIN o : o[k] \subseteq DOMAIN registry'
                   /\ \A j \in 1 .. n + 1 : j > m =>
                        \A x \in DOMAIN compiled'[j].delegates :
                          /\ x \notin DOMAIN o
                          /\ \A k \in DOMAIN o : x \notin o[k]
    <3>1. CASE m = n + 1
      <4>1. \A j \in 1 .. n + 1 : ~(j > m)
        BY <2>1, <3>1
      <4>. QED BY <2>1, <2>4, <2>5, <2>6, <3>1, <4>1
    <3>2. CASE m \in 1 .. n
      <4>1. compiled'[m] = compiled[m]
        BY <2>1, <3>2
      <4>2. ASSUME NEW j \in 1 .. n + 1, j > m, NEW x \in DOMAIN compiled'[j].delegates
            PROVE  /\ x \notin DOMAIN compiled[m].delegates
                   /\ \A k \in DOMAIN compiled[m].delegates : x \notin compiled[m].delegates[k]
        <5>1. CASE j \in 1 .. n
          BY <2>1, <2>7, <3>2, <4>2, <5>1
        <5>2. CASE j = n + 1
          BY <2>1, <2>4, <2>7, <3>2, <4>2, <5>2
        <5>. QED BY <2>1, <4>2, <5>1, <5>2
      <4>. QED BY <2>2, <2>7, <3>2, <4>1, <4>2
    <3>. QED BY <2>1, <2>8, <3>1, <3>2
  <2>. QED BY <2>1, <2>8 DEF DelegatesBooks
<1>3. UNCHANGED <<registry, compiled>> \/ (CompileModule /\ ~\E why : Stop(why))
  BY StepKinds DEF Resolving, Begin, Analyze, Stop, pvars
<1>. QED BY <1>1, <1>2, <1>3

LEMMA NextDInv == DInv /\ [CNext]_cvars => DInv'
BY NextPInv, KahnBooksKept, DelegatesKept, VerdictKept DEF DInv

LEMMA DInvInvariant == CSpec => []DInv
BY InitDInv, NextDInv, PTL DEF CSpec

---------------------------------------------------------------------------
(* All modules                                                             *)

LEMMA NoCircleAcrossModules ==
  ASSUME DInv
  PROVE  Acyclic(Parents(AllDelegates))
<1> DEFINE Of(m) == compiled[m].delegates
           C == DOMAIN compiled
           A == AllDelegates
<1> SUFFICES ASSUME NEW S \in SUBSET DOMAIN Parents(A), S # {},
                    \A n \in S : Parents(A)[n] \cap S # {}
             PROVE  FALSE
  BY DEF Acyclic, Circular
<1>1. DOMAIN Parents(A) = UNION { DOMAIN Of(m) : m \in C } /\ DOMAIN A = DOMAIN Parents(A)
  BY DEF Parents, AllDelegates
<1>2. \A n \in DOMAIN A : A[n] = UNION { Of(m)[n] : m \in { k \in C : n \in DOMAIN Of(k) } }
  BY DEF AllDelegates
<1>3. Len(compiled) \in Nat /\ C = 1 .. Len(compiled)
  BY LenProperties DEF DInv, PInv, PipelineTypeOK
<1> DEFINE I == { m \in C : DOMAIN Of(m) \cap S # {} }
<1>4. I # {} /\ I \subseteq 0 .. Len(compiled)
  BY <1>1, <1>3
<1>5. PICK i \in I : \A j \in I : j <= i
  <2>. HIDE DEF I
  <2>. QED BY <1>3, <1>4, GreatestElement
<1> DEFINE T == DOMAIN Of(i) \cap S
<1>6. ASSUME NEW n \in T
      PROVE  Parents(Of(i))[n] \cap T # {}
  <2>1. PICK p \in Parents(A)[n] : p \in S
    BY <1>6
  <2>2. p \in DOMAIN A /\ n \in A[p]
    BY <1>1, <1>6, <2>1 DEF Parents
  <2>3. PICK k \in C : p \in DOMAIN Of(k) /\ n \in Of(k)[p]
    BY <1>2, <2>2
  <2>4. k \in I /\ k <= i
    BY <1>5, <2>1, <2>3
  <2>5. k = i
    <3>1. i > k => n \notin Of(k)[p]
      BY <1>5, <1>6, <2>3 DEF DInv, DelegatesBooks
    <3>. QED BY <1>3, <1>5, <2>3, <2>4, <3>1
  <2>6. p \in T /\ p \in Parents(Of(i))[n]
    BY <1>6, <2>1, <2>3, <2>5 DEF Parents
  <2>. QED BY <2>6
<1>7. T # {} /\ T \subseteq DOMAIN Parents(Of(i))
  BY <1>5 DEF Parents
<1>8. Circular(Parents(Of(i)))
  BY <1>6, <1>7 DEF Circular
<1>9. Acyclic(Parents(Of(i)))
  BY <1>5 DEF DInv, DelegatesBooks
<1>. QED BY <1>8, <1>9 DEF Acyclic

(* For every project: over all modules compiled no machine is among its    *)
(* own descendants, so that the generated Rust types are finite and        *)
(* forwarded events go down a finite chain; and a module is refused for    *)
(* its delegates only if they do close a circle (sema, analyzer/mod.rs).   *)
THEOREM MachinesAreWellFounded == CSpec => []DelegationIsAcyclic
<1>1. DInv => DelegationIsAcyclic
  BY NoCircleAcrossModules DEF DInv, VerdictHasCause, DelegationIsAcyclic
<1>. QED BY <1>1, DInvInvariant, PTL

---------------------------------------------------------------------------
(* The files compile writes                                                *)

OwnPath(m, e) == Append(Prefix(order[m]), e)
Extensions == IF fs.cli.target = "c" THEN {".h", ".c"} ELSE {".rs"}

(* What a module imports, by whatever name, is a type of a module before   *)
(* it.                                                                     *)
EarlierImports ==
  \A m \in DOMAIN compiled : \A x \in compiled[m].imports :
    \E j \in 1 .. m - 1 : x.from = order[j] /\ x.name \in NamesOf(OfKind(order[j], Types))

(* Where the command is, and which files there can be then.                *)
Place ==
  /\ step \in {"resolve", "analyze", "delegates", "mkdir", "emit", "sort", "write", "exit"}
  /\ at \in 0 .. Len(order)
  /\ pending \in Seq(Range(pending))
  /\ step = "resolve" => at = 0
  /\ step = "mkdir" => at = 1
  /\ step = "sort" => fs.cli.target = "c"
  /\ step \in {"resolve", "analyze", "delegates", "mkdir"} => disk = << >>
  /\ step \in {"resolve", "analyze", "delegates", "mkdir", "emit", "sort"} => pending = << >>
  /\ step \in {"mkdir", "emit", "sort", "write"} \/ pending # << >> \/ disk # << >> =>
       at >= 1 /\ Len(compiled) = Len(order)
  /\ status = "ok" => step = "exit" /\ pending = << >> /\ at = Len(order)

(* The structs of a header h.                                              *)
StructsInOrder(h) ==
  /\ Range(h.structs) = Structs(h.from) /\ NoRepeat(h.structs)
  /\ Acyclic(Held(h.from)) => Ordered(h.structs, Held(h.from))

(* The includes of the header h of the module m, and the types its state   *)
(* machines name.                                                          *)
NamesDeclared(m, h) ==
  /\ h.includes = { Prefix(x.from) : x \in compiled[m].imports }
  /\ \A x \in h.stateNames :
       \/ x[1] = Prefix(h.from) /\ ImportedFrom(m, x[2]) = {}
       \/ \E y \in compiled[m].imports : x = <<Prefix(y.from), y.name>>

(* The file a at the path q is one of the module m.                        *)
ArtifactOf(m, q, a) ==
  /\ a.from = order[m]
  /\ q[Len(q)] = ".h" =>
       /\ fs.cli.target = "c" /\ q = OwnPath(m, ".h")
       /\ StructsInOrder(a) /\ NamesDeclared(m, a)

ToWrite == \A a \in Range(pending) : ArtifactOf(at, a.path, a.file)
OnDisk == \A q \in DOMAIN disk : \E m \in 1 .. at : ArtifactOf(m, q, disk[q])

(* The module's own files are on disk or still to be written.              *)
OwnFiles ==
  step = "write" \/ status = "ok" =>
    \A e \in Extensions :
      \/ \E a \in Range(pending) : a.path = OwnPath(at, e)
      \/ OwnPath(at, e) \in DOMAIN disk /\ disk[OwnPath(at, e)].from = order[at]

(* With --recursive no header of an earlier module is missing.             *)
EarlierHeaders ==
  /\ fs.cli.recursive /\ OwnPaths /\ fs.cli.target = "c"
  /\ step \in {"emit", "sort", "write"} \/ disk # << >>
  => \A j \in 1 .. at - 1 : OwnPath(j, ".h") \in DOMAIN disk

SortBooks == step = "sort" => KInv(kahn, Held(order[at]))

CliInv ==
  /\ WInv
  /\ EarlierImports
  /\ Place
  /\ SortBooks
  /\ ToWrite
  /\ OnDisk
  /\ OwnFiles
  /\ EarlierHeaders
---------------------------------------------------------------------------
(* Sequences of artifacts                                                  *)

LEMMA OverRange ==
  ASSUME NEW S, NEW s \in Seq(S)
  PROVE  s \in Seq(Range(s)) /\ Len(s) \in Nat /\ DOMAIN s = 1 .. Len(s)
<1>1. Len(s) \in Nat /\ DOMAIN s = 1 .. Len(s) /\ s \in [1 .. Len(s) -> S]
  BY LenProperties
<1>2. s \in [1 .. Len(s) -> Range(s)]
  BY <1>1 DEF Range
<1>. QED BY <1>1, <1>2, SeqDef

LEMMA JoinFacts ==
  ASSUME NEW S, NEW s \in Seq(S), NEW t \in Seq(S)
  PROVE  s \o t \in Seq(S) /\ Range(s \o t) = Range(s) \cup Range(t)
<1> DEFINE m == Len(s)
           n == Len(t)
           u == s \o t
<1>1. m \in Nat /\ DOMAIN s = 1 .. m /\ n \in Nat /\ DOMAIN t = 1 .. n
  BY LenProperties
<1>2. /\ u \in Seq(S) /\ Len(u) = m + n
      /\ \A i \in 1 .. m + n : u[i] = IF i <= m THEN s[i] ELSE t[i - m]
  BY ConcatProperties
<1>3. DOMAIN u = 1 .. m + n
  BY <1>2, LenProperties
<1>0. /\ Range(s) = { s[i] : i \in 1 .. m } /\ Range(t) = { t[i] : i \in 1 .. n }
      /\ Range(u) = { u[i] : i \in 1 .. m + n }
  BY <1>1, <1>3 DEF Range
<1>. HIDE DEF m, n, u
<1>4. ASSUME NEW i \in 1 .. m + n
      PROVE  u[i] \in Range(s) \cup Range(t)
  <2>1. CASE i <= m
    <3>1. i \in 1 .. m /\ u[i] = s[i]
      BY <1>1, <1>2, <2>1
    <3>. QED BY <1>0, <3>1
  <2>2. CASE ~(i <= m)
    <3>1. i - m \in 1 .. n /\ u[i] = t[i - m]
      BY <1>1, <1>2, <2>2
    <3>. QED BY <1>0, <3>1
  <2>. QED BY <2>1, <2>2
<1>5. \A i \in 1 .. m : i \in 1 .. m + n /\ u[i] = s[i]
  BY <1>1, <1>2
<1>6. \A i \in 1 .. n : i + m \in 1 .. m + n /\ u[i + m] = t[i]
  BY <1>1, <1>2
<1>7. Range(u) = Range(s) \cup Range(t)
  <2>1. Range(s) \subseteq Range(u)
    BY <1>0, <1>5
  <2>2. Range(t) \subseteq Range(u)
    <3>1. \A i \in 1 .. n : t[i] \in Range(u)
      BY <1>0, <1>6
    <3>. QED BY <1>0, <3>1
  <2>3. Range(u) \subseteq Range(s) \cup Range(t)
    BY <1>0, <1>4
  <2>. QED BY <2>1, <2>2, <2>3
<1>. QED BY <1>2, <1>7 DEF u

LEMMA LastOfConcat ==
  ASSUME NEW S, NEW s \in Seq(S), NEW t \in Seq(S), t # << >>
  PROVE  (s \o t)[Len(s \o t)] = t[Len(t)]
<1> DEFINE m == Len(s)
           n == Len(t)
<1>1. m \in Nat /\ n \in Nat \ {0}
  BY LenProperties, EmptySeq
<1>2. /\ Len(s \o t) = m + n
      /\ \A i \in 1 .. m + n : (s \o t)[i] = IF i <= m THEN s[i] ELSE t[i - m]
  BY ConcatProperties
<1>. HIDE DEF m, n
<1>3. m + n \in 1 .. m + n /\ ~(m + n <= m) /\ (m + n) - m = n
  BY <1>1
<1>. QED BY <1>2, <1>3 DEF n

LEMMA Triple ==
  ASSUME NEW T, NEW x \in T, NEW y \in T, NEW z \in T
  PROVE  /\ <<x, y, z>> \in Seq(T) /\ <<x, y, z>> # << >>
         /\ <<x, y, z>>[Len(<<x, y, z>>)] = z
<1>1. Len(<<x, y, z>>) = 3 /\ <<x, y, z>>[3] = z
  OBVIOUS
<1>2. <<x, y, z>> \in Seq(T) /\ <<x, y, z>> # << >>
  OBVIOUS
<1>. QED BY <1>1, <1>2

LEMMA DropFirst ==
  ASSUME NEW S, NEW s \in Seq(S), s # << >>
  PROVE  /\ s[1] \in Range(s) /\ Tail(s) \in Seq(Range(Tail(s)))
         /\ Range(s) = {s[1]} \cup Range(Tail(s))
<1> DEFINE n == Len(s)
           t == Tail(s)
<1>1. n \in Nat \ {0} /\ DOMAIN s = 1 .. n
  BY LenProperties, EmptySeq
<1>2. /\ t \in Seq(S) /\ Len(t) = n - 1
      /\ \A i \in 1 .. n - 1 : t[i] = s[i + 1]
  BY HeadTailProperties
<1>3. t \in Seq(Range(t)) /\ DOMAIN t = 1 .. n - 1
  BY <1>2, OverRange
<1>0. Range(s) = { s[i] : i \in 1 .. n } /\ Range(t) = { t[i] : i \in 1 .. n - 1 }
  BY <1>1, <1>3 DEF Range
<1>. HIDE DEF n, t
<1>4. \A i \in 1 .. n : i = 1 \/ (i - 1 \in 1 .. n - 1 /\ s[i] = t[i - 1])
  <2>1. \A i \in 1 .. n : i = 1 \/ (i - 1 \in 1 .. n - 1 /\ (i - 1) + 1 = i)
    BY <1>1
  <2>. QED BY <1>2, <2>1
<1>5. \A i \in 1 .. n - 1 : i + 1 \in 1 .. n /\ t[i] = s[i + 1]
  BY <1>1, <1>2
<1>6. 1 \in 1 .. n
  BY <1>1
<1>7. Range(s) \subseteq {s[1]} \cup Range(t)
  BY <1>0, <1>4
<1>8. s[1] \in Range(s)
  BY <1>0, <1>6
<1>9. Range(t) \subseteq Range(s)
  <2>1. \A i \in 1 .. n - 1 : t[i] \in Range(s)
    BY <1>0, <1>5
  <2>. QED BY <1>0, <2>1
<1>. QED BY <1>3, <1>7, <1>8, <1>9 DEF t

---------------------------------------------------------------------------
(* Files of the project                                                    *)

LEMMA PrefixSeq ==
  ASSUME CliInv, NEW f \in fs.files
  PROVE  \E S : S # {} /\ Prefix(f) \in Seq(S)
<1> DEFINE R == Range(fs.name[f])
           n == Len(fs.name[f])
<1>1. fs \in Projects
  BY DEF CliInv, WInv, PInv, VInv, IInv, TypeOK
<1>2. fs.name[f] \in Seq(R)
  BY <1>1, CliAssumption
<1>3. n \in Nat /\ DOMAIN fs.name[f] = 1 .. n
  BY <1>2, LenProperties
<1>4. Prefix(f) \in [1 .. n -> R \cup {"_"}]
  BY <1>3 DEF Prefix, Range
<1>5. Prefix(f) \in Seq(R \cup {"_"})
  BY <1>3, <1>4, SeqDef
<1>. QED BY <1>5

(* A path ends with its extension.                                         *)
LEMMA LastOfPath ==
  ASSUME CliInv, NEW f \in fs.files, NEW e
  PROVE  Append(Prefix(f), e)[Len(Append(Prefix(f), e))] = e
<1>1. PICK S : Prefix(f) \in Seq(S)
  BY PrefixSeq
<1> DEFINE T == S \cup {e}
<1>2. Prefix(f) \in Seq(T) /\ e \in T
  BY <1>1, SeqMonotonic
<1>3. /\ Append(Prefix(f), e)[Len(Prefix(f)) + 1] = e
      /\ Len(Append(Prefix(f), e)) = Len(Prefix(f)) + 1
  <2>. HIDE DEF T
  <2>. QED BY <1>2, AppendProperties
<1>. QED BY <1>3

(* Paths of one module apart, paths tell the prefixes apart.               *)
LEMMA SamePrefix ==
  ASSUME CliInv, NEW f \in fs.files, NEW g \in fs.files, NEW e,
         Append(Prefix(f), e) = Append(Prefix(g), e)
  PROVE  Prefix(f) = Prefix(g)
<1>1. PICK S : Prefix(f) \in Seq(S)
  BY PrefixSeq
<1>2. PICK T : Prefix(g) \in Seq(T)
  BY PrefixSeq
<1> DEFINE U == (S \cup T) \cup {e}
<1>3. Prefix(f) \in Seq(U) /\ Prefix(g) \in Seq(U) /\ e \in U
  <2>1. S \subseteq U /\ T \subseteq U
    OBVIOUS
  <2>. HIDE DEF U
  <2>2. Prefix(f) \in Seq(U) /\ Prefix(g) \in Seq(U)
    BY <1>1, <1>2, <2>1, SeqMonotonic
  <2>. QED BY <2>2 DEF U
<1>. HIDE DEF U
<1>. QED BY <1>3, AppendInjective

(* The graph of the structs of a header.                                   *)
LEMMA HeldGraph ==
  ASSUME CliInv, NEW f \in fs.files
  PROVE  Graph(Held(f)) /\ DOMAIN Held(f) = Structs(f) /\ IsFiniteSet(Structs(f))
<1> DEFINE M == OfKind(f, {"packet"})
           g == [d \in M |-> d.name]
<1>1. IsFiniteSet(M)
  <2>1. IsFiniteSet(fs.decls[f])
    BY PipelineAssumption DEF CliInv, WInv, PInv, VInv, IInv, TypeOK, Described
  <2>. QED BY <2>1, FS_Subset DEF OfKind
<1>2. g \in Surjection(M, NamesOf(M))
  BY DEF Surjection, NamesOf
<1>3. IsFiniteSet(Structs(f))
  <2>. HIDE DEF M, g
  <2>1. IsFiniteSet(NamesOf(M))
    BY <1>1, <1>2, FS_Surjection
  <2>. QED BY <2>1 DEF M, Structs
<1>4. DOMAIN Held(f) = Structs(f) /\ \A n \in Structs(f) : Held(f)[n] \subseteq Structs(f)
  BY DEF Held
<1>. QED BY <1>3, <1>4 DEF Graph

(* The module being emitted.                                               *)
LEMMA EmitFacts ==
  ASSUME CliInv, \/ step \in {"mkdir", "emit", "sort", "write"}
                 \/ pending # << >> \/ disk # << >>
  PROVE  /\ Len(order) \in Nat /\ DOMAIN order = 1 .. Len(order) /\ order \in Seq(fs.files)
         /\ at \in DOMAIN order /\ order[at] \in fs.files
         /\ DOMAIN compiled = DOMAIN order
<1>1. Len(order) \in Nat /\ DOMAIN order = 1 .. Len(order) /\ order \in Seq(fs.files)
  BY OrderFacts DEF CliInv, WInv, PInv, VInv
<1>2. at \in 1 .. Len(order) /\ Len(compiled) = Len(order)
  <2>1. at \in 0 .. Len(order) /\ at >= 1 /\ Len(compiled) = Len(order)
    BY DEF CliInv, Place
  <2>. QED BY <1>1, <2>1
<1>3. DOMAIN compiled = 1 .. Len(compiled)
  BY LenProperties DEF CliInv, WInv, PInv, PipelineTypeOK
<1>. QED BY <1>1, <1>2, <1>3, ElementOfSeq

---------------------------------------------------------------------------
(* What a step leaves as it is                                             *)

LEMMA SameHeld ==
  ASSUME UNCHANGED fs, NEW f
  PROVE  Held(f)' = Held(f) /\ Structs(f)' = Structs(f) /\ Prefix(f)' = Prefix(f)
<1>1. Structs(f)' = Structs(f)
  BY DEF Structs, OfKind, NamesOf
<1>2. \A n : Declared(f, n)' = Declared(f, n)
  BY DEF Declared, Named
<1>3. \A n : Follow(f, n)' = Follow(f, n)
  BY DEF Follow, TargetOf, IsAlias, OfKind, NamesOf, Declared, Named
<1>4. Held(f)' = Held(f)
  BY <1>1, <1>2, <1>3 DEF Held
<1>. QED BY <1>1, <1>4 DEF Prefix

LEMMA SameArtifact ==
  ASSUME UNCHANGED <<fs, order, compiled>>, NEW m, NEW q, NEW a, ArtifactOf(m, q, a)
  PROVE  ArtifactOf(m, q, a)'
<1>1. \A f : Prefix(f)' = Prefix(f)
  BY SameHeld
<1>2. OwnPath(m, ".h")' = OwnPath(m, ".h")
  BY <1>1 DEF OwnPath
<1>3. StructsInOrder(a)' <=> StructsInOrder(a)
  <2>1. PICK f : f = a.from
    OBVIOUS
  <2>2. Held(f)' = Held(f) /\ Structs(f)' = Structs(f)
    BY SameHeld
  <2>. QED BY <2>1, <2>2 DEF StructsInOrder
<1>4. NamesDeclared(m, a)' <=> NamesDeclared(m, a)
  BY <1>1 DEF NamesDeclared, ImportedFrom
<1>. QED BY <1>2, <1>3, <1>4 DEF ArtifactOf

LEMMA SamePaths ==
  ASSUME UNCHANGED <<fs, order>>
  PROVE  /\ OwnPaths' <=> OwnPaths
         /\ Extensions' = Extensions
         /\ \A j, e : OwnPath(j, e)' = OwnPath(j, e)
<1>1. \A f : Prefix(f)' = Prefix(f)
  BY SameHeld
<1>. QED BY <1>1 DEF OwnPaths, Extensions, OwnPath

(* The files are those of the modules so far, whatever module is next.     *)
LEMMA DiskKept ==
  ASSUME CliInv, UNCHANGED <<fs, order, compiled, disk>>, at' \in Nat, at <= at'
  PROVE  OnDisk'
<1>1. at \in Nat
  BY DEF CliInv, Place
<1>2. ASSUME NEW q \in DOMAIN disk
      PROVE  \E m \in 1 .. at' : ArtifactOf(m, q, disk[q])'
  <2>1. PICK m \in 1 .. at : ArtifactOf(m, q, disk[q])
    BY <1>2 DEF CliInv, OnDisk
  <2>2. PICK a : a = disk[q]
    OBVIOUS
  <2>3. ArtifactOf(m, q, a)'
    BY <2>1, <2>2, SameArtifact
  <2>4. m \in 1 .. at'
    BY <1>1, <2>1
  <2>5. a = disk'[q]
    BY <2>2
  <2>. QED BY <2>3, <2>4, <2>5
<1>. QED BY <1>2 DEF OnDisk

LEMMA ToWriteKept ==
  ASSUME CliInv, UNCHANGED <<fs, order, compiled, at, pending>>
  PROVE  ToWrite'
<1>1. PICK m : m = at
  OBVIOUS
<1>2. \A a \in Range(pending) : ArtifactOf(m, a.path, a.file)
  BY <1>1 DEF CliInv, ToWrite
<1>3. \A a \in Range(pending) : ArtifactOf(m, a.path, a.file)'
  BY <1>2, SameArtifact
<1>. QED BY <1>1, <1>3 DEF ToWrite

LEMMA EarlierHeadersKept ==
  ASSUME CliInv, UNCHANGED <<fs, order, disk, at>>,
         step' \in {"emit", "sort", "write"} => step \in {"emit", "sort", "write"}
  PROVE  EarlierHeaders'
BY SamePaths DEF CliInv, EarlierHeaders

---------------------------------------------------------------------------
(* The steps of the command                                                *)

FilesInv == Place /\ SortBooks /\ ToWrite /\ OnDisk /\ OwnFiles /\ EarlierHeaders

LEMMA EarlierImportsKept ==
  ASSUME CliInv, [CNext]_cvars
  PROVE  EarlierImports'
<1>0. PInv
  BY DEF CliInv, WInv
<1>1. CASE UNCHANGED <<fs, order, compiled>>
  BY <1>1 DEF CliInv, EarlierImports, NamesOf, OfKind
<1>2. CASE Resolving
  <2>1. compiled' = << >>
    BY <1>0, <1>2 DEF PInv, Resolving, pvars
  <2>. QED BY <2>1 DEF EarlierImports
<1>3. CASE CompileModule /\ ~\E why : Stop(why)
  <2> DEFINE f == order[at]
             n == Len(compiled)
  <2>1. /\ UNCHANGED <<fs, order>> /\ n \in Nat /\ DOMAIN compiled = 1 .. n
        /\ DOMAIN compiled' = 1 .. n + 1
        /\ \A m \in 1 .. n : compiled'[m] = compiled[m]
        /\ compiled'[n + 1].imports = Imported(f)
    BY <1>0, <1>3, CompileFacts DEF vars
  <2>2. ASSUME NEW x \in Imported(f)
        PROVE  \E j \in 1 .. n : x.from = order[j] /\ x.name \in NamesOf(OfKind(order[j], Types))
    <3>1. PICK k \in DOMAIN registry : x = [name |-> k, from |-> registry[k].from]
      BY DEF Imported
    <3>2. PICK j \in 1 .. n : registry[k].from = order[j]
      BY <1>0, <2>1, <3>1 DEF PInv, PipelineTypeOK
    <3>3. PICK d \in fs.decls[order[j]] : d.name = k /\ d.kind = registry[k].kind
      BY <3>1, <3>2 DEF CliInv, WInv, KindsRegistered
    <3>4. registry[k].kind \in Types
      BY <1>0, <3>1 DEF PInv, PipelineTypeOK
    <3>5. k \in NamesOf(OfKind(order[j], Types))
      BY <3>3, <3>4 DEF NamesOf, OfKind
    <3>. QED BY <3>1, <3>2, <3>5
  <2>. HIDE DEF f, n
  <2>3. ASSUME NEW m \in 1 .. n + 1, NEW x \in compiled'[m].imports
        PROVE  \E j \in 1 .. m - 1 :
                 x.from = order[j] /\ x.name \in NamesOf(OfKind(order[j], Types))
    <3>1. CASE m \in 1 .. n
      BY <2>1, <2>3, <3>1 DEF CliInv, EarlierImports
    <3>2. CASE m = n + 1
      <4>1. m - 1 = n
        BY <2>1, <3>2
      <4>. QED BY <2>1, <2>2, <2>3, <3>2, <4>1
    <3>. QED BY <2>1, <2>3, <3>1, <3>2
  <2>4. \A j : NamesOf(OfKind(order[j], Types))' = NamesOf(OfKind(order[j], Types))
    BY <2>1 DEF NamesOf, OfKind, Types
  <2>. QED BY <2>1, <2>3, <2>4 DEF EarlierImports
<1>4. \/ UNCHANGED <<fs, order, compiled>> \/ Resolving
      \/ (CompileModule /\ ~\E why : Stop(why))
  BY StepKinds DEF Begin, Analyze, CompileModule, Stop, vars
<1>. QED BY <1>1, <1>2, <1>3, <1>4

(* While modules are compiled there are no files.                          *)
LEMMA CompilingPlace ==
  ASSUME CliInv, Compiling
  PROVE  Place' /\ pending' = << >> /\ disk' = << >> /\ step' # "sort" /\ step' # "write"
                /\ step' # "emit" /\ status' # "ok"
<1>0. PInv /\ VInv /\ IInv /\ Place
  BY DEF CliInv, WInv, PInv, VInv
<1>1. /\ step \in {"resolve", "analyze", "delegates"} /\ UNCHANGED <<pending, disk>>
      /\ pending = << >> /\ disk = << >> /\ status # "ok"
  <2>1. step \in {"resolve", "analyze", "delegates"} /\ UNCHANGED <<pending, disk>>
    BY DEF Compiling, PNext, Resolving, ResolveFailed, Begin, Analyze, PopMachine, CompileModule
  <2>. QED BY <1>0, <2>1 DEF Place
<1>2. << >> \in Seq(Range(<< >>))
  OBVIOUS
<1> DEFINE Now == /\ at' \in 0 .. Len(order') /\ status' # "ok"
                  /\ \/ step' = "resolve" /\ at' = 0
                     \/ step' \in {"analyze", "delegates", "exit"}
                     \/ step' = "mkdir" /\ at' = 1 /\ Len(compiled') = Len(order')
<1>3. Now => Place'
  BY <1>1, <1>2 DEF Place
<1>4. Len(order) \in Nat /\ at \in 0 .. Len(order)
  BY <1>0, OrderFacts DEF Place
<1>5. CASE Resolving
  <2>1. Len(order') \in Nat
    <3>1. order' \in Seq(fs'.files)
      BY <1>0, <1>5, NextIInv DEF Resolving, IInv, TypeOK
    <3>. QED BY <3>1, LenProperties
  <2>2. step' = "resolve" /\ at' = 0 /\ status' = status
    BY <1>0, <1>5 DEF Resolving, pvars, Place
  <2>. QED BY <1>1, <1>3, <2>1, <2>2
<1>6. CASE ResolveFailed
  BY <1>1, <1>3, <1>4, <1>6 DEF ResolveFailed, Stop, vars
<1>7. CASE Begin
  <2>1. Len(order) > 0
    BY <1>0, <1>7, OkHasOrder DEF Begin
  <2>. QED BY <1>1, <1>3, <1>4, <1>7, <2>1 DEF Begin, vars
<1>8. CASE Analyze
  BY <1>1, <1>3, <1>4, <1>8 DEF Analyze, Stop, vars
<1>9. CASE PopMachine
  BY <1>1, <1>3, <1>4, <1>9 DEF PopMachine, vars
<1>10. CASE CompileModule /\ \E why : Stop(why)
  <2>1. step' = "exit" /\ at' = at /\ order' = order
    BY <1>10 DEF CompileModule, Stop, vars
  <2>2. status' # "ok"
    BY <1>1, <1>10 DEF CompileModule, Stop
  <2>. QED BY <1>1, <1>3, <1>4, <2>1, <2>2
<1>11. CASE CompileModule /\ ~\E why : Stop(why)
  <2>1. /\ step = "delegates" /\ UNCHANGED <<order, status>>
        /\ \/ at < Len(order) /\ at' = at + 1 /\ step' = "analyze"
           \/ at >= Len(order) /\ at' = 1 /\ step' = "mkdir"
        /\ Len(compiled') = Len(compiled) + 1
    BY <1>0, <1>11, CompileFacts DEF vars
  <2>2. at = Len(compiled) + 1 /\ at <= Len(order) /\ Len(compiled) \in Nat
    BY <1>0, <2>1, AtFacts
  <2>. QED BY <1>1, <1>3, <1>4, <2>1, <2>2
<1>. QED BY <1>1, <1>5, <1>6, <1>7, <1>8, <1>9, <1>10, <1>11 DEF Compiling, PNext

LEMMA CompilingStep ==
  ASSUME CliInv, Compiling
  PROVE  FilesInv'
<1>1. Place' /\ pending' = << >> /\ disk' = << >> /\ step' # "sort" /\ step' # "write"
             /\ step' # "emit" /\ status' # "ok"
  BY CompilingPlace
<1>2. Range(pending') = {} /\ DOMAIN disk' = {}
  BY <1>1 DEF Range
<1>3. SortBooks' /\ OwnFiles' /\ EarlierHeaders'
  BY <1>1 DEF SortBooks, OwnFiles, EarlierHeaders
<1>4. ToWrite' /\ OnDisk'
  BY <1>2 DEF ToWrite, OnDisk
<1>. QED BY <1>1, <1>3, <1>4 DEF FilesInv

LEMMA StutterStep ==
  ASSUME CliInv, UNCHANGED cvars
  PROVE  FilesInv'
<1>1. /\ UNCHANGED <<fs, order, compiled, step, at, registry, kahn, status, pending, disk>>
      /\ at \in Nat
  BY DEF cvars, vars, pvars, CliInv, Place
<1>2. Place'
  BY <1>1 DEF CliInv, Place
<1>3. SortBooks'
  <2>1. PICK f : f = order[at]
    OBVIOUS
  <2>2. f = (order[at])' /\ Held(f)' = Held(f)
    BY <1>1, <2>1, SameHeld
  <2>. QED BY <1>1, <2>1, <2>2 DEF CliInv, SortBooks
<1>4. ToWrite' /\ OnDisk' /\ EarlierHeaders'
  BY <1>1, ToWriteKept, DiskKept, EarlierHeadersKept
<1>5. OwnFiles'
  BY <1>1, SamePaths DEF CliInv, OwnFiles
<1>. QED BY <1>2, <1>3, <1>4, <1>5 DEF FilesInv

(* The output directory is created, or the command ends on an error.       *)
LEMMA NoFilesStep ==
  ASSUME CliInv, MakeDir \/ MakeDirFails \/ WriteFails
  PROVE  FilesInv'
<1>1. /\ UNCHANGED <<fs, order, compiled, at, pending, disk>>
      /\ \/ step = "mkdir" /\ step' = "emit" /\ status' = status
         \/ step \in {"mkdir", "write"} /\ step' = "exit" /\ status' # "ok"
  BY DEF MakeDir, MakeDirFails, WriteFails, Stop, vars
<1>2. Place'
  BY <1>1 DEF CliInv, Place
<1>3. SortBooks' /\ OwnFiles'
  <2>1. step' # "sort" /\ step' # "write" /\ status' # "ok"
    BY <1>1 DEF CliInv, Place
  <2>. QED BY <2>1 DEF SortBooks, OwnFiles
<1>4. ToWrite' /\ OnDisk'
  BY <1>1, ToWriteKept, DiskKept DEF CliInv, Place
<1>5. EarlierHeaders'
  <2>1. CASE step = "mkdir"
    <3>1. at' = 1 /\ 1 .. at' - 1 = {}
      BY <1>1, <2>1 DEF CliInv, Place
    <3>. QED BY <3>1 DEF EarlierHeaders
  <2>2. CASE step = "write" /\ step' = "exit"
    BY <1>1, <2>2, EarlierHeadersKept
  <2>. QED BY <1>1, <2>1, <2>2
<1>. QED BY <1>2, <1>3, <1>4, <1>5 DEF FilesInv

(* On to the next module, or to the end: the files of this one are written *)
(* if it is selected.                                                      *)
LEMMA NextModuleStep ==
  ASSUME CliInv, Skip \/ Written
  PROVE  FilesInv'
<1>1. /\ UNCHANGED <<fs, order, compiled, pending, disk>> /\ pending = << >>
      /\ step \in {"emit", "write"} /\ NextModule
      /\ \/ step = "emit" /\ ~Selected(at)
         \/ step = "write"
  BY DEF Skip, Written, vars, CliInv, Place
<1>2. /\ Len(order) \in Nat /\ DOMAIN order = 1 .. Len(order) /\ at \in DOMAIN order
      /\ at >= 1 /\ Len(compiled) = Len(order) /\ status # "ok"
  <2>1. at >= 1 /\ Len(compiled) = Len(order) /\ status # "ok"
    BY <1>1 DEF CliInv, Place
  <2>. QED BY <1>1, <2>1, EmitFacts
<1>3. at = Len(order) => step = "write"
  BY <1>1 DEF Selected, IsEntry
<1>4. \/ at < Len(order) /\ at' = at + 1 /\ step' = "emit" /\ status' = status
      \/ at = Len(order) /\ at' = at /\ step' = "exit" /\ status' = "ok" /\ step = "write"
  <2>1. at < Len(order) \/ (at = Len(order) /\ ~(at < Len(order)))
    BY <1>2
  <2>. QED BY <1>1, <1>3, <2>1 DEF NextModule
<1>5. at' \in 0 .. Len(order) /\ at' \in Nat /\ at <= at' /\ at' >= 1
  BY <1>2, <1>4
<1>6. Place'
  BY <1>1, <1>2, <1>4, <1>5 DEF CliInv, Place
<1>7. SortBooks'
  BY <1>4 DEF SortBooks
<1>8. ToWrite'
  <2>1. Range(pending') = {}
    BY <1>1 DEF Range
  <2>. QED BY <2>1 DEF ToWrite
<1>9. OnDisk'
  BY <1>1, <1>5, DiskKept
<1>10. step = "write" => \A e \in Extensions :
         OwnPath(at, e) \in DOMAIN disk /\ disk[OwnPath(at, e)].from = order[at]
  <2>1. Range(pending) = {}
    BY <1>1 DEF Range
  <2>. QED BY <2>1 DEF CliInv, OwnFiles
<1>11. OwnFiles'
  <2>1. CASE step' = "emit"
    BY <1>2, <1>4, <2>1 DEF OwnFiles
  <2>2. CASE step' = "exit" /\ at' = at /\ step = "write"
    BY <1>1, <1>10, <2>2, SamePaths DEF OwnFiles
  <2>. QED BY <1>4, <2>1, <2>2
<1>12. EarlierHeaders'
  <2>1. CASE at' = at
    BY <1>1, <1>4, <2>1, EarlierHeadersKept
  <2>2. CASE at' = at + 1
    <3>. SUFFICES ASSUME fs.cli.recursive, OwnPaths, fs.cli.target = "c",
                         NEW j \in 1 .. at' - 1
                  PROVE  OwnPath(j, ".h") \in DOMAIN disk
      BY <1>1, SamePaths DEF EarlierHeaders
    <3>1. step = "write" /\ ".h" \in Extensions
      BY <1>1 DEF Selected, Extensions
    <3>2. CASE j = at
      BY <1>10, <3>1, <3>2
    <3>3. CASE j \in 1 .. at - 1
      BY <3>1, <3>3 DEF CliInv, EarlierHeaders
    <3>. QED BY <1>2, <2>2, <3>2, <3>3
  <2>. QED BY <1>4, <2>1, <2>2
<1>. QED BY <1>6, <1>7, <1>8, <1>9, <1>11, <1>12 DEF FilesInv

(* The structs of the header are ordered.                                  *)
LEMMA SortStep ==
  ASSUME CliInv, Sort \/ PopStruct
  PROVE  FilesInv'
<1>1. /\ UNCHANGED <<fs, order, compiled, at, pending, disk, status>>
      /\ step \in {"emit", "sort"} /\ step' = "sort" /\ fs.cli.target = "c"
  BY DEF Sort, PopStruct, vars, CliInv, Place
<1>2. Place'
  BY <1>1 DEF CliInv, Place
<1>3. SortBooks'
  <2>1. PICK f : f = order[at]
    OBVIOUS
  <2>2. f \in fs.files
    BY <1>1, <2>1, EmitFacts
  <2>3. f = (order[at])' /\ Held(f)' = Held(f) /\ Graph(Held(f))
    BY <1>1, <2>1, <2>2, SameHeld, HeldGraph
  <2>4. KInv(kahn', Held(f))
    <3>1. CASE Sort
      BY <2>1, <2>3, <3>1, StartsKInv DEF Sort
    <3>2. CASE PopStruct
      <4>1. KInv(kahn, Held(f)) /\ kahn.queue # << >> /\ kahn' \in Pops(kahn, Held(f))
        BY <2>1, <3>2 DEF PopStruct, CliInv, SortBooks
      <4>. QED BY <2>3, <4>1, PopsKInv
    <3>. QED BY <3>1, <3>2
  <2>. QED BY <2>1, <2>3, <2>4 DEF SortBooks
<1>4. ToWrite' /\ OnDisk' /\ EarlierHeaders'
  BY <1>1, ToWriteKept, DiskKept, EarlierHeadersKept DEF CliInv, Place
<1>5. OwnFiles'
  BY <1>1 DEF CliInv, Place, OwnFiles
<1>. QED BY <1>2, <1>3, <1>4, <1>5 DEF FilesInv

LEMMA LastOfHarness ==
  ASSUME CliInv, NEW f \in fs.files, NEW q, q = Prefix(f) \o <<"_", "fuzz", ".c">>
  PROVE  q[Len(q)] = ".c"
<1>1. PICK S : Prefix(f) \in Seq(S)
  BY PrefixSeq
<1>2. PICK T : T = S \cup {"_", "fuzz", ".c"}
  OBVIOUS
<1>3. PICK t : t = <<"_", "fuzz", ".c">>
  OBVIOUS
<1>4. "_" \in T /\ "fuzz" \in T /\ ".c" \in T /\ S \subseteq T
  BY <1>2
<1>5. Prefix(f) \in Seq(T)
  BY <1>1, <1>4, SeqMonotonic
<1>6. PICK x, y, z : x = "_" /\ y = "fuzz" /\ z = ".c"
  OBVIOUS
<1>7. x \in T /\ y \in T /\ z \in T /\ t = <<x, y, z>>
  BY <1>3, <1>4, <1>6
<1>8. t \in Seq(T) /\ t # << >> /\ t[Len(t)] = z
  BY <1>7, Triple
<1>9. q = Prefix(f) \o t
  BY <1>3
<1>. QED BY <1>5, <1>6, <1>8, <1>9, LastOfConcat

(* The structs that Kahn's algorithm took, then the rest: each once, and   *)
(* if the graph is acyclic each after those it holds.                      *)
LEMMA StructsSorted ==
  ASSUME CliInv, step = "sort", kahn.queue = << >>, NEW f, f = order[at],
         NEW rest \in Orders(Structs(f) \ Range(kahn.done))
  PROVE  /\ Range(kahn.done \o rest) = Structs(f) /\ NoRepeat(kahn.done \o rest)
         /\ Acyclic(Held(f)) => Ordered(kahn.done \o rest, Held(f))
<1> DEFINE D == Range(kahn.done)
           R == Structs(f) \ D
<1>1. f \in fs.files
  BY EmitFacts
<1>2. Graph(Held(f)) /\ DOMAIN Held(f) = Structs(f) /\ IsFiniteSet(Structs(f))
  BY <1>1, HeldGraph
<1>3. KInv(kahn, Held(f))
  BY DEF CliInv, SortBooks
<1>4. /\ kahn.done \in Seq(Structs(f)) /\ NoRepeat(kahn.done) /\ Ordered(kahn.done, Held(f))
      /\ Acyclic(Held(f)) => D = Structs(f)
  BY <1>2, <1>3, KahnIsRight DEF KInv
<1>5. D \subseteq Structs(f)
  BY <1>4, LenProperties DEF Range
<1>6. IsFiniteSet(R)
  BY <1>2, FS_Subset
<1>7. rest \in Seq(R) /\ Range(rest) = R /\ NoRepeat(rest)
  <2>. HIDE DEF R
  <2>1. rest \in Orders(R)
    BY DEF R
  <2>. QED BY <1>6, <2>1, OrdersFacts
<1>8. rest \in Seq(Structs(f))
  <2>1. R \subseteq Structs(f)
    OBVIOUS
  <2>. HIDE DEF R
  <2>. QED BY <1>7, <2>1, SeqMonotonic
<1>9. NoRepeat(kahn.done \o rest) /\ Range(kahn.done \o rest) = D \cup R
  <2>1. D \cap R = {}
    OBVIOUS
  <2>. HIDE DEF R
  <2>. QED BY <1>4, <1>7, <1>8, <2>1, ConcatFacts
<1>10. ASSUME Acyclic(Held(f)) PROVE kahn.done \o rest = kahn.done
  <2>1. R = {}
    BY <1>4, <1>10
  <2>2. rest = << >>
    <3>1. Len(rest) \in Nat /\ DOMAIN rest = 1 .. Len(rest)
      BY <1>8, LenProperties
    <3>2. DOMAIN rest = {}
      BY <1>7, <2>1 DEF Range
    <3>3. Len(rest) = 0
      BY <3>1, <3>2
    <3>. QED BY <1>8, <3>3, EmptySeq
  <2>. QED BY <1>4, <2>2, ConcatEmptySeq
<1>. QED BY <1>4, <1>5, <1>9, <1>10

(* What the state machines of a module name comes from an import or is the *)
(* module's own.                                                           *)
LEMMA HeaderNames ==
  ASSUME NEW m, NEW s
  PROVE  NamesDeclared(m, Header(m, s))
<1> DEFINE h == Header(m, s)
<1>1. /\ h.from = order[m] /\ h.stateNames = StateNames(m)
      /\ h.includes = { Prefix(x.from) : x \in compiled[m].imports }
  BY DEF Header
<1>2. ASSUME NEW x \in StateNames(m)
      PROVE  \/ x[1] = Prefix(order[m]) /\ ImportedFrom(m, x[2]) = {}
             \/ \E y \in compiled[m].imports : x = <<Prefix(y.from), y.name>>
  <2>1. PICK n : x = <<Prefix(Owner(m, n)), n>>
    BY DEF StateNames
  <2>2. CASE ImportedFrom(m, n) = {}
    BY <2>1, <2>2 DEF Owner
  <2>3. CASE ImportedFrom(m, n) # {}
    <3>1. Owner(m, n) \in ImportedFrom(m, n)
      BY <2>3 DEF Owner
    <3>2. PICK y \in compiled[m].imports : y.name = n /\ Owner(m, n) = y.from
      BY <3>1 DEF ImportedFrom
    <3>. QED BY <2>1, <3>2
  <2>. QED BY <2>2, <2>3
<1>. HIDE DEF h
<1>. QED BY <1>1, <1>2 DEF NamesDeclared, h

LEMMA EmitCStep ==
  ASSUME CliInv, EmitC
  PROVE  FilesInv'
<1>1. PICK m : m = at
  OBVIOUS
<1>2. PICK f : f = order[m]
  OBVIOUS
<1>3. /\ UNCHANGED <<fs, order, compiled, at, disk, status>> /\ step = "sort" /\ step' = "write"
      /\ kahn.queue = << >> /\ fs.cli.target = "c"
  BY DEF EmitC, vars, CliInv, Place
<1>4. PICK rest \in Orders(Structs(f) \ Range(kahn.done)) :
        pending' = CArtifacts(m, kahn.done \o rest)
  BY <1>1, <1>2 DEF EmitC
<1>5. f \in fs.files
  BY <1>1, <1>2, <1>3, EmitFacts
<1> DEFINE s == kahn.done \o rest
           h == Header(m, s)
           A == [path |-> Append(Prefix(f), ".h"), file |-> h]
           B == [path |-> Append(Prefix(f), ".c"), file |-> Plain(m)]
           G == [path |-> Prefix(f) \o <<"_", "fuzz", ".c">>, file |-> Plain(m)]
           ab == <<A, B>>
           g == IF fs.cli.fuzz /\ s # << >> THEN <<G>> ELSE << >>
<1>6. pending' = ab \o g
  BY <1>2, <1>4 DEF CArtifacts
<1>7. StructsInOrder(h) /\ NamesDeclared(m, h) /\ h.from = f
  <2>1. /\ Range(s) = Structs(f) /\ NoRepeat(s)
        /\ Acyclic(Held(f)) => Ordered(s, Held(f))
    BY <1>1, <1>2, <1>3, StructsSorted
  <2>2. h.from = f /\ h.structs = s
    BY <1>2 DEF Header
  <2>3. NamesDeclared(m, h)
    BY HeaderNames
  <2>. HIDE DEF s, h
  <2>. QED BY <2>1, <2>2, <2>3 DEF StructsInOrder
<1>8. Plain(m).from = f
  BY <1>2 DEF Plain
<1>. HIDE DEF s, h
<1>9. ArtifactOf(m, A.path, A.file)
  BY <1>2, <1>3, <1>7 DEF ArtifactOf, OwnPath
<1>10. ArtifactOf(m, B.path, B.file) /\ ArtifactOf(m, G.path, G.file)
  <2>1. /\ B.path[Len(B.path)] = ".c" /\ G.path[Len(G.path)] = ".c"
        /\ B.file = Plain(m) /\ G.file = Plain(m)
    BY <1>5, LastOfPath, LastOfHarness
  <2>. HIDE DEF B, G
  <2>. QED BY <1>2, <1>8, <2>1 DEF ArtifactOf
<1>11. /\ pending' \in Seq(Range(pending'))
       /\ Range(pending') \subseteq {A, B, G} /\ A \in Range(pending') /\ B \in Range(pending')
  <2> DEFINE T == {A, B, G}
  <2>. HIDE DEF A, B, G
  <2>1. ab \in Seq(T) /\ g \in Seq(T)
    <3>1. A \in T /\ B \in T /\ G \in T
      OBVIOUS
    <3>. HIDE DEF T
    <3>2. <<A, B>> \in Seq(T) /\ <<G>> \in Seq(T) /\ << >> \in Seq(T)
      BY <3>1
    <3>. QED BY <3>2
  <2>2. Range(ab) = {A, B} /\ Range(g) \subseteq {G}
    <3>1. DOMAIN ab = {1, 2} /\ ab[1] = A /\ ab[2] = B
      OBVIOUS
    <3>2. Range(ab) = {A, B}
      BY <3>1 DEF Range
    <3>3. \A i \in DOMAIN g : g[i] = G
      OBVIOUS
    <3>. QED BY <3>2, <3>3 DEF Range
  <2>3. ab \o g \in Seq(T) /\ Range(ab \o g) = Range(ab) \cup Range(g)
    <3>. HIDE DEF T, ab, g
    <3>. QED BY <2>1, JoinFacts
  <2>4. pending' \in Seq(T)
    BY <1>6, <2>3
  <2>5. pending' \in Seq(Range(pending'))
    <3>. HIDE DEF T
    <3>. QED BY <2>4, OverRange
  <2>. QED BY <1>6, <2>2, <2>3, <2>5
<1>12. A.path = OwnPath(m, ".h") /\ B.path = OwnPath(m, ".c")
  BY <1>2 DEF OwnPath
<1>. HIDE DEF A, B, G, ab, g
<1>13. Place'
  <2>1. at >= 1 /\ Len(compiled) = Len(order) /\ status # "ok" /\ at \in 0 .. Len(order)
    BY <1>3 DEF CliInv, Place
  <2>. QED BY <1>3, <1>11, <2>1 DEF Place
<1>14. SortBooks'
  BY <1>3 DEF SortBooks
<1>15. ToWrite'
  <2>1. \A a \in Range(pending') : ArtifactOf(m, a.path, a.file)
    BY <1>9, <1>10, <1>11
  <2>2. \A a \in Range(pending') : ArtifactOf(m, a.path, a.file)'
    BY <1>3, <2>1, SameArtifact
  <2>. QED BY <1>1, <1>3, <2>2 DEF ToWrite
<1>16. OnDisk' /\ EarlierHeaders'
  BY <1>3, DiskKept, EarlierHeadersKept DEF CliInv, Place
<1>17. OwnFiles'
  <2>1. Extensions' = {".h", ".c"}
    BY <1>3 DEF Extensions
  <2>2. \A e \in {".h", ".c"} : \E a \in Range(pending') : a.path = OwnPath(m, e)
    BY <1>11, <1>12
  <2>3. \A e : OwnPath(at, e)' = OwnPath(m, e)
    BY <1>1, <1>3, SamePaths
  <2>. QED BY <2>1, <2>2, <2>3 DEF OwnFiles
<1>. QED BY <1>13, <1>14, <1>15, <1>16, <1>17 DEF FilesInv

LEMMA EmitRustStep ==
  ASSUME CliInv, EmitRust
  PROVE  FilesInv'
<1>1. PICK m : m = at
  OBVIOUS
<1>2. PICK f : f = order[m]
  OBVIOUS
<1> DEFINE A == [path |-> Append(Prefix(f), ".rs"), file |-> Plain(m)]
<1>3. /\ UNCHANGED <<fs, order, compiled, at, disk, status>> /\ step = "emit" /\ step' = "write"
      /\ fs.cli.target = "rust" /\ pending' = <<A>>
  BY <1>1, <1>2 DEF EmitRust, vars
<1>4. f \in fs.files
  BY <1>1, <1>2, <1>3, EmitFacts
<1>5. ArtifactOf(m, A.path, A.file)
  <2>1. A.path[Len(A.path)] = ".rs" /\ A.file.from = f
    BY <1>2, <1>4, LastOfPath DEF Plain
  <2>. HIDE DEF A
  <2>. QED BY <1>2, <2>1 DEF ArtifactOf
<1>6. A.path = OwnPath(m, ".rs")
  BY <1>2 DEF OwnPath
<1>. HIDE DEF A
<1>7. pending' \in Seq(Range(pending')) /\ Range(pending') = {A}
  <2>1. <<A>> \in Seq({A}) /\ DOMAIN <<A>> = {1} /\ <<A>>[1] = A
    OBVIOUS
  <2>2. Range(<<A>>) = {A}
    BY <2>1 DEF Range
  <2>. QED BY <1>3, <2>1, <2>2
<1>8. Place'
  <2>1. at >= 1 /\ Len(compiled) = Len(order) /\ status # "ok" /\ at \in 0 .. Len(order)
    BY <1>3 DEF CliInv, Place
  <2>. QED BY <1>3, <1>7, <2>1 DEF Place
<1>9. SortBooks' /\ OnDisk' /\ EarlierHeaders'
  BY <1>3, DiskKept, EarlierHeadersKept DEF CliInv, Place, SortBooks
<1>10. ToWrite'
  <2>1. \A a \in Range(pending') : ArtifactOf(m, a.path, a.file)'
    BY <1>3, <1>5, <1>7, SameArtifact
  <2>. QED BY <1>1, <1>3, <2>1 DEF ToWrite
<1>11. OwnFiles'
  <2>1. Extensions' = {".rs"}
    BY <1>3 DEF Extensions
  <2>2. \A e : OwnPath(at, e)' = OwnPath(m, e)
    BY <1>1, <1>3, SamePaths
  <2>. QED BY <1>6, <1>7, <2>1, <2>2 DEF OwnFiles
<1>. QED BY <1>8, <1>9, <1>10, <1>11 DEF FilesInv

LEMMA WriteStep ==
  ASSUME CliInv, Write
  PROVE  FilesInv'
<1>1. PICK a : a = pending[1]
  OBVIOUS
<1>2. PICK m : m = at
  OBVIOUS
<1>3. /\ UNCHANGED <<fs, order, compiled, at, step, status>> /\ step = "write"
      /\ pending # << >> /\ pending' = Tail(pending) /\ disk' = Stored(a.path, a.file)
  BY <1>1 DEF Write, vars, pvars
<1>4. /\ at \in Nat /\ at >= 1 /\ at \in 0 .. Len(order) /\ Len(compiled) = Len(order)
      /\ pending \in Seq(Range(pending)) /\ status # "ok"
  BY <1>3 DEF CliInv, Place
<1>5. /\ a \in Range(pending) /\ pending' \in Seq(Range(pending'))
      /\ Range(pending) = {a} \cup Range(pending')
  BY <1>1, <1>3, <1>4, DropFirst
<1>6. /\ DOMAIN disk' = DOMAIN disk \cup {a.path} /\ disk'[a.path] = a.file
      /\ \A q \in DOMAIN disk : q # a.path => disk'[q] = disk[q]
  BY <1>3 DEF Stored
<1>7. \A b \in Range(pending) : ArtifactOf(m, b.path, b.file)
  BY <1>2 DEF CliInv, ToWrite
<1>8. Place'
  BY <1>3, <1>4, <1>5 DEF Place
<1>9. SortBooks'
  BY <1>3 DEF SortBooks
<1>10. ToWrite'
  <2>1. \A b \in Range(pending') : ArtifactOf(m, b.path, b.file)'
    BY <1>3, <1>5, <1>7, SameArtifact
  <2>. QED BY <1>2, <1>3, <2>1 DEF ToWrite
<1>11. OnDisk'
  <2>1. ASSUME NEW q \in DOMAIN disk'
        PROVE  \E k \in 1 .. at' : ArtifactOf(k, q, disk[q])'
    <3>1. PICK b : b = disk'[q]
      OBVIOUS
    <3>2. PICK k \in 1 .. at : ArtifactOf(k, q, b)
      <4>1. CASE q = a.path
        <5>1. m \in 1 .. at /\ b = a.file
          BY <1>2, <1>4, <1>6, <3>1, <4>1
        <5>. QED BY <1>5, <1>7, <4>1, <5>1
      <4>2. CASE q # a.path
        <5>1. q \in DOMAIN disk /\ b = disk[q]
          BY <1>6, <2>1, <3>1, <4>2
        <5>. QED BY <5>1 DEF CliInv, OnDisk
      <4>. QED BY <4>1, <4>2
    <3>3. ArtifactOf(k, q, b)'
      BY <1>3, <3>2, SameArtifact
    <3>. QED BY <1>3, <3>1, <3>2, <3>3
  <2>. QED BY <2>1 DEF OnDisk
<1>12. OwnFiles'
  <2>1. ASSUME NEW e \in Extensions, NEW q, q = OwnPath(at, e)
        PROVE  \/ \E b \in Range(pending') : b.path = q
               \/ q \in DOMAIN disk' /\ disk'[q].from = order[m]
    <3>1. CASE q = a.path
      BY <1>5, <1>6, <1>7, <3>1 DEF ArtifactOf
    <3>2. CASE q # a.path /\ \E b \in Range(pending) : b.path = q
      BY <1>5, <3>2
    <3>3. CASE q # a.path /\ q \in DOMAIN disk /\ disk[q].from = order[m]
      BY <1>6, <3>3
    <3>. QED BY <1>2, <1>3, <2>1, <3>1, <3>2, <3>3 DEF CliInv, OwnFiles
  <2>. QED BY <1>2, <1>3, <2>1, SamePaths DEF OwnFiles
<1>13. EarlierHeaders'
  <2>1. DOMAIN disk \subseteq DOMAIN disk'
    BY <1>6
  <2>. QED BY <1>3, <2>1, SamePaths DEF CliInv, EarlierHeaders
<1>. QED BY <1>8, <1>9, <1>10, <1>11, <1>12, <1>13 DEF FilesInv

LEMMA CliInvInvariant == CSpec => []CliInv
<1>1. CInit => CliInv
  <2>. SUFFICES ASSUME CInit PROVE CliInv
    OBVIOUS
  <2>1. /\ step = "resolve" /\ at = 0 /\ status = "running" /\ pending = << >> /\ disk = << >>
        /\ compiled = << >> /\ order = << >>
    BY DEF CInit, PInit, Init
  <2>2. << >> \in Seq(Range(<< >>)) /\ Range(<< >>) = {} /\ Len(<< >>) = 0
    BY DEF Range
  <2>3. WInv
    BY InitPInv DEF CInit, PInit, WInv, KindsRegistered, RefusalHasCause
  <2>4. EarlierImports /\ SortBooks /\ ToWrite /\ OnDisk /\ OwnFiles /\ EarlierHeaders
    BY <2>1, <2>2 DEF EarlierImports, SortBooks, ToWrite, OnDisk, OwnFiles, EarlierHeaders
  <2>5. Place
    BY <2>1, <2>2 DEF Place
  <2>. QED BY <2>3, <2>4, <2>5 DEF CliInv
<1>2. CliInv /\ [CNext]_cvars => CliInv'
  <2>. SUFFICES ASSUME CliInv, [CNext]_cvars PROVE CliInv'
    OBVIOUS
  <2>1. WInv' /\ EarlierImports'
    BY NextWInv, EarlierImportsKept DEF CliInv
  <2>2. FilesInv'
    BY CompilingStep, NoFilesStep, NextModuleStep, SortStep, EmitCStep, EmitRustStep, WriteStep,
       StutterStep DEF CNext
  <2>. QED BY <2>1, <2>2 DEF CliInv, FilesInv
<1>. QED BY <1>1, <1>2, PTL DEF CSpec
---------------------------------------------------------------------------
(* What the command promises                                               *)

LEMMA HeaderFacts ==
  ASSUME CliInv, NEW q \in Headers
  PROVE  \E m \in 1 .. at :
           /\ m \in DOMAIN order /\ DOMAIN compiled = DOMAIN order
           /\ disk[q].from = order[m] /\ fs.cli.target = "c" /\ q = OwnPath(m, ".h")
           /\ StructsInOrder(disk[q]) /\ NamesDeclared(m, disk[q])
<1>1. q \in DOMAIN disk /\ q[Len(q)] = ".h"
  BY DEF Headers
<1>2. disk # << >>
  BY <1>1
<1>3. PICK m \in 1 .. at : ArtifactOf(m, q, disk[q])
  BY <1>1 DEF CliInv, OnDisk
<1>4. m \in DOMAIN order /\ DOMAIN compiled = DOMAIN order
  BY <1>2, EmitFacts
<1>. QED BY <1>1, <1>3, <1>4 DEF ArtifactOf

(* The type invariant of wirespec compile, for every project: it works on  *)
(* the modules of the order only, and what it still has to write and what  *)
(* it wrote are theirs (cmd_compile and emit_module of cli.rs).            *)
THEOREM CliTypeCorrect == CSpec => []CliTypeOK
<1>1. CliInv => CliTypeOK
  <2>. SUFFICES ASSUME CliInv PROVE CliTypeOK
    OBVIOUS
  <2>1. Place
    BY DEF CliInv
  <2>2. \A a \in Range(pending) : a.file.from = order[at]
    BY DEF CliInv, ToWrite, ArtifactOf
  <2>3. ASSUME NEW q \in DOMAIN disk PROVE disk[q].from \in Range(order)
    <3>1. PICK m \in 1 .. at : ArtifactOf(m, q, disk[q])
      BY DEF CliInv, OnDisk
    <3>2. disk # << >>
      BY <2>3
    <3>3. m \in DOMAIN order
      BY <3>2, EmitFacts
    <3>. QED BY <3>1, <3>3 DEF ArtifactOf, Range
  <2>. QED BY <2>1, <2>2, <2>3 DEF Place, CliTypeOK
<1>. QED BY <1>1, CliInvInvariant, PTL

(* Whatever structs a module has and whatever they hold, its header on     *)
(* disk has each of them once, and unless they hold each other in a        *)
(* circle, each after those it holds (the sort by Kahn's algorithm of the  *)
(* C backend's header.rs).                                                 *)
THEOREM StructsFollowMembers == CSpec => []StructsAfterMembers
<1>1. CliInv => StructsAfterMembers
  <2>. SUFFICES ASSUME CliInv, NEW q \in Headers, NEW h, h = disk[q]
                PROVE  LET s == h.structs
                           members == [n \in Range(s) |->
                             { Follow(h.from, x) : x \in Declared(h.from, n).refs } \cap Range(s)]
                       IN  /\ Range(s) = Structs(h.from)
                           /\ \A i, j \in DOMAIN s : s[i] = s[j] => i = j
                           /\ Acyclic(members) =>
                                \A i \in DOMAIN s : \A n \in members[s[i]] :
                                  \E j \in 1 .. i - 1 : s[j] = n
    BY DEF StructsAfterMembers
  <2> DEFINE s == h.structs
             members == [n \in Range(s) |->
               { Follow(h.from, x) : x \in Declared(h.from, n).refs } \cap Range(s)]
  <2>1. StructsInOrder(h)
    BY HeaderFacts
  <2>2. Range(s) = Structs(h.from) /\ NoRepeat(s)
    BY <2>1 DEF StructsInOrder
  <2>3. members = Held(h.from)
    BY <2>2 DEF Held
  <2>4. Acyclic(members) => Ordered(s, members)
    BY <2>1, <2>3 DEF StructsInOrder
  <2>. HIDE DEF members
  <2>. QED BY <2>2, <2>4 DEF NoRepeat, Ordered, members
<1>. QED BY <1>1, CliInvInvariant, PTL

(* With --recursive and output paths that differ, at every moment of every *)
(* compilation, a failed one included: the headers a header includes are   *)
(* there, and each type its state machines name that the module declares   *)
(* or imports by name is declared under the prefix the header gives it, in *)
(* that header or in one it includes (emit_module of cli.rs,               *)
(* build_import_prefix_map of header.rs).                                  *)
THEOREM IncludesAreThere == CSpec => []IncludesNeverDangle
<1>1. CliInv => IncludesNeverDangle
  <2>. SUFFICES ASSUME CliInv, fs.cli.recursive, OwnPaths, NEW q \in Headers
                PROVE  /\ \A p \in disk[q].includes : Append(p, ".h") \in Headers
                       /\ \A i \in DOMAIN compiled : \A x \in disk[q].stateNames :
                            order[i] = disk[q].from /\ DeclaredOrImported(i, x[2]) =>
                              \/ /\ x[1] = Prefix(disk[q].from)
                                 /\ x[2] \in NamesOf(OfKind(disk[q].from, Types))
                              \/ /\ x[1] \in disk[q].includes
                                 /\ x[2] \in NamesOf(OfKind(disk[Append(x[1], ".h")].from, Types))
    BY DEF IncludesNeverDangle
  <2>1. PICK m \in 1 .. at : /\ m \in DOMAIN order /\ DOMAIN compiled = DOMAIN order
                             /\ disk[q].from = order[m] /\ fs.cli.target = "c"
                             /\ NamesDeclared(m, disk[q])
    BY HeaderFacts
  <2>2. disk # << >>
    BY DEF Headers
  <2>3. ASSUME NEW y \in compiled[m].imports, NEW p, p = Append(Prefix(y.from), ".h")
        PROVE  p \in Headers /\ y.name \in NamesOf(OfKind(disk[p].from, Types))
    <3>1. PICK j \in 1 .. m - 1 : y.from = order[j] /\ y.name \in NamesOf(OfKind(order[j], Types))
      BY <2>1 DEF CliInv, EarlierImports
    <3>2. at \in Nat /\ DOMAIN order = 1 .. Len(order) /\ Len(order) \in Nat
          /\ order \in Seq(fs.files) /\ at \in DOMAIN order
      BY <2>2, EmitFacts
    <3>3. j \in 1 .. at - 1 /\ j \in DOMAIN order
      BY <2>1, <3>2
    <3>4. p = OwnPath(j, ".h")
      BY <2>3, <3>1 DEF OwnPath
    <3>5. p \in DOMAIN disk
      BY <2>1, <2>2, <3>3, <3>4 DEF CliInv, EarlierHeaders
    <3>6. order[j] \in fs.files
      BY <3>2, <3>3, ElementOfSeq
    <3>7. p[Len(p)] = ".h"
      BY <3>4, <3>6, LastOfPath DEF OwnPath
    <3>8. p \in Headers
      BY <3>5, <3>7 DEF Headers
    <3>9. PICK k \in 1 .. at : k \in DOMAIN order /\ disk[p].from = order[k] /\ p = OwnPath(k, ".h")
      BY <3>8, HeaderFacts
    <3>10. order[k] \in fs.files
      BY <3>2, <3>9, ElementOfSeq
    <3>11. Prefix(order[j]) = Prefix(order[k])
      BY <3>4, <3>6, <3>9, <3>10, SamePrefix DEF OwnPath
    <3>12. k = j
      BY <3>3, <3>9, <3>11 DEF OwnPaths
    <3>. QED BY <3>1, <3>8, <3>9, <3>12
  <2>4. \A p \in disk[q].includes : Append(p, ".h") \in Headers
    BY <2>1, <2>3 DEF NamesDeclared
  <2>5. ASSUME NEW x \in disk[q].stateNames,
               ~(x[1] = Prefix(disk[q].from) /\ ImportedFrom(m, x[2]) = {})
        PROVE  /\ x[1] \in disk[q].includes
               /\ x[2] \in NamesOf(OfKind(disk[Append(x[1], ".h")].from, Types))
    <3>1. PICK y \in compiled[m].imports : x = <<Prefix(y.from), y.name>>
      BY <2>1, <2>5 DEF NamesDeclared
    <3>2. x[1] = Prefix(y.from) /\ x[2] = y.name
      BY <3>1
    <3>3. x[1] \in disk[q].includes
      BY <2>1, <3>2 DEF NamesDeclared
    <3>4. PICK p : p = Append(Prefix(y.from), ".h")
      OBVIOUS
    <3>5. y.name \in NamesOf(OfKind(disk[p].from, Types))
      BY <2>3, <3>4
    <3>. QED BY <3>2, <3>3, <3>4, <3>5
  <2>6. ASSUME NEW i \in DOMAIN compiled, order[i] = disk[q].from
        PROVE  i = m
    BY <2>1, <2>6 DEF OwnPaths
  <2>7. ASSUME NEW x \in disk[q].stateNames, DeclaredOrImported(m, x[2]),
               x[1] = Prefix(disk[q].from), ImportedFrom(m, x[2]) = {}
        PROVE  x[2] \in NamesOf(OfKind(disk[q].from, Types))
    BY <2>1, <2>7 DEF DeclaredOrImported
  <2>. QED BY <2>4, <2>5, <2>6, <2>7
<1>. QED BY <1>1, CliInvInvariant, PTL

(* Whichever other modules were written before it, and even where one has  *)
(* the entry's name or its path, wirespec compile does not succeed without *)
(* the entry's own files on disk (cmd_compile's loop takes the entry last).*)
THEOREM EntrySurvives == CSpec => []EntryIsWritten
<1>1. CliInv => EntryIsWritten
  <2>. SUFFICES ASSUME CliInv, status = "ok",
                       NEW e \in IF fs.cli.target = "c" THEN {".h", ".c"} ELSE {".rs"}
                PROVE  LET q == Append(Prefix(order[Len(order)]), e)
                       IN  q \in DOMAIN disk /\ disk[q].from = order[Len(order)]
    BY DEF EntryIsWritten
  <2>1. at = Len(order) /\ pending = << >>
    BY DEF CliInv, Place
  <2>2. Range(pending) = {}
    BY <2>1 DEF Range
  <2>3. e \in Extensions
    BY DEF Extensions
  <2>4. OwnPath(at, e) \in DOMAIN disk /\ disk[OwnPath(at, e)].from = order[at]
    BY <2>2, <2>3 DEF CliInv, OwnFiles
  <2>. QED BY <2>1, <2>4 DEF OwnPath
<1>. QED BY <1>1, CliInvInvariant, PTL
=============================================================================
