------------------------------ MODULE Folding ------------------------------
(***************************************************************************)
(* What a fold over a sequence keeps. The operator that is folded is a     *)
(* constant of this module: an INSTANCE gives it, and the relation that it *)
(* keeps. a and b are what the operator is given besides the state and the *)
(* element, d is what the relation may speak of, i how many elements have  *)
(* been seen; it relates two states, of two folds of the operator or of    *)
(* one.                                                                    *)
(***************************************************************************)
EXTENDS NatSets, SequencesExt

CONSTANTS Step(_, _, _, _), Good(_, _, _, _)

Fold(a, b, base, seq) == FoldLeft(LAMBDA t, x : Step(a, b, t, x), base, seq)

(* What holds at 0 and is passed on holds up to n.                         *)
LEMMA Upwards ==
  ASSUME NEW n \in Nat, NEW S, 0 \in S, \A i \in 1 .. n : i - 1 \in S => i \in S
  PROVE  \A i \in 0 .. n : i \in S
<1> DEFINE Bad == { i \in 0 .. n : i \notin S }
<1>1. SUFFICES ASSUME Bad # {}
               PROVE  FALSE
  OBVIOUS
<1>2. PICK x \in Bad : \A y \in Bad : x <= y
  <2>1. Bad \subseteq Nat
    OBVIOUS
  <2>. HIDE DEF Bad
  <2>. QED BY <1>1, <2>1, LeastElement
<1>3. x \in 1 .. n /\ x - 1 \in 0 .. n
  OBVIOUS
<1>4. x - 1 \notin Bad
  BY <1>2, <1>3
<1>. QED BY <1>3, <1>4

(* The greatest of the first k numbers and of numbers below it.            *)
LEMMA GreatestIs ==
  ASSUME NEW k \in Nat, NEW s \in SUBSET (1 .. k), s # {}
  PROVE  Max(s) \in s /\ \A y \in s : y <= Max(s)
<1>1. s \subseteq 0 .. k
  OBVIOUS
<1>2. \E x \in s : \A y \in s : y <= x
  BY <1>1, GreatestElement
<1>3. \E x \in s : \A y \in s : x >= y
  BY <1>2
<1>4. Max(s) \in s /\ \A y \in s : Max(s) >= y
  BY <1>3 DEF Max
<1>. QED BY <1>4

(* The states a fold goes through.                                         *)
Runs(run, a, b, base, seq, n) ==
  /\ run[0] = base
  /\ \A i \in 1 .. n : run[i] = Step(a, b, run[i - 1], seq[i])
  /\ run[n] = Fold(a, b, base, seq)

LEMMA FoldRuns ==
  ASSUME NEW a, NEW b, NEW base, NEW seq, NEW n \in Nat, DOMAIN seq = 1 .. n
  PROVE  \E run : Runs(run, a, b, base, seq, n)
<1> DEFINE Value(g, s) == IF s = {} THEN base ELSE Step(a, b, g[s \ {Max(s)}], seq[Max(s)])
           Defined(k) == \E g : g = [s \in SUBSET (1 .. k) |-> Value(g, s)]
           S == { k \in 0 .. n : Defined(k) }
<1>1. 0 \in S
  <2> DEFINE g == [s \in SUBSET (1 .. 0) |-> base]
  <2>1. \A s \in SUBSET (1 .. 0) : s = {}
    OBVIOUS
  <2>2. \A s \in SUBSET (1 .. 0) : Value(g, s) = base
    BY <2>1
  <2>3. g = [s \in SUBSET (1 .. 0) |-> Value(g, s)]
    BY <2>2
  <2>. QED BY <2>3
<1>2. ASSUME NEW k \in 1 .. n, k - 1 \in S
      PROVE  k \in S
  <2>1. PICK f : f = [s \in SUBSET (1 .. k - 1) |-> Value(f, s)]
    BY <1>2
  <2> DEFINE g == [s \in SUBSET (1 .. k) |-> IF k \in s THEN Step(a, b, f[s \ {k}], seq[k]) ELSE f[s]]
  <2>2. ASSUME NEW s \in SUBSET (1 .. k)
        PROVE  g[s] = Value(g, s)
    <3>1. CASE k \in s
      <4>1. Max(s) = k
        <5>1. Max(s) \in s /\ \A y \in s : y <= Max(s)
          <6>1. s # {} /\ k \in Nat
            BY <3>1
          <6>. QED BY <6>1, GreatestIs
        <5> DEFINE m == Max(s)
        <5>2. m \in 1 .. k /\ k <= m
          BY <3>1, <5>1
        <5>. HIDE DEF m
        <5>3. m = k
          BY <5>2
        <5>. QED BY <5>3 DEF m
      <4>2. s \ {k} \in SUBSET (1 .. k - 1) /\ s \ {k} \in SUBSET (1 .. k)
        OBVIOUS
      <4>3. k \notin s \ {k}
        OBVIOUS
      <4>4. g[s \ {k}] = f[s \ {k}]
        BY <4>2, <4>3
      <4>5. g[s] = Step(a, b, f[s \ {k}], seq[k])
        BY <3>1
      <4>. QED BY <3>1, <4>1, <4>4, <4>5
    <3>2. CASE k \notin s
      <4>1. s \in SUBSET (1 .. k - 1)
        BY <3>2
      <4>2. f[s] = Value(f, s) /\ g[s] = f[s]
        BY <2>1, <3>2, <4>1
      <4>3. CASE s = {}
        BY <4>2, <4>3
      <4>4. CASE s # {}
        <5>1. s \ {Max(s)} \in SUBSET (1 .. k) /\ k \notin s \ {Max(s)}
          BY <3>2
        <5>2. g[s \ {Max(s)}] = f[s \ {Max(s)}]
          BY <5>1
        <5>. QED BY <4>2, <4>4, <5>2
      <4>. QED BY <4>3, <4>4
    <3>. QED BY <3>1, <3>2
  <2>3. g = [s \in SUBSET (1 .. k) |-> Value(g, s)]
    BY <2>2
  <2>. HIDE DEF g
  <2>4. Defined(k)
    BY <2>3
  <2>. HIDE DEF Defined
  <2>. QED BY <2>4
<1>3. n \in S
  <2>. HIDE DEF S
  <2>1. \A k \in 0 .. n : k \in S
    BY <1>1, <1>2, Upwards
  <2>. QED BY <2>1
<1> DEFINE iter == CHOOSE g : g = [s \in SUBSET (1 .. n) |-> Value(g, s)]
<1>4. iter = [s \in SUBSET (1 .. n) |-> Value(iter, s)]
  BY <1>3
<1>5. Fold(a, b, base, seq) = iter[1 .. n]
  BY DEF Fold, FoldLeft, MapThenFoldSet
<1>. HIDE DEF iter
<1> DEFINE run == [i \in 0 .. n |-> iter[1 .. i]]
<1>6. run[0] = base
  <2>1. 1 .. 0 = {} /\ {} \in SUBSET (1 .. n) /\ 0 \in 0 .. n
    OBVIOUS
  <2>2. iter[{}] = base
    BY <1>4, <2>1
  <2>. QED BY <2>1, <2>2
<1>7. ASSUME NEW i \in 1 .. n
      PROVE  run[i] = Step(a, b, run[i - 1], seq[i])
  <2>1. 1 .. i \in SUBSET (1 .. n) /\ 1 .. i # {} /\ i \in 1 .. i /\ i - 1 \in 0 .. n /\ i \in 0 .. n /\ i \in Nat
    OBVIOUS
  <2>2. Max(1 .. i) = i
    <3> DEFINE s == 1 .. i
               m == Max(s)
    <3>1. s \in SUBSET (1 .. i) /\ s # {}
      BY <2>1
    <3>2. m \in s /\ \A y \in s : y <= m
      <4>. HIDE DEF s
      <4>. QED BY <2>1, <3>1, GreatestIs
    <3>3. m \in 1 .. i /\ i <= m
      <4>. HIDE DEF m
      <4>. QED BY <2>1, <3>2
    <3>. HIDE DEF m
    <3>4. m = i
      BY <3>3
    <3>. QED BY <3>4 DEF m, s
  <2>3. (1 .. i) \ {i} = 1 .. i - 1
    OBVIOUS
  <2>4. iter[1 .. i] = Step(a, b, iter[1 .. i - 1], seq[i])
    BY <1>4, <2>1, <2>2, <2>3
  <2>. QED BY <2>1, <2>4
<1>8. run[n] = Fold(a, b, base, seq)
  BY <1>5
<1>. HIDE DEF run
<1>9. Runs(run, a, b, base, seq, n)
  BY <1>6, <1>7, <1>8 DEF Runs
<1>. QED BY <1>9

(* What each step keeps, the fold keeps.                                   *)
THEOREM FoldKeeps ==
  ASSUME NEW a, NEW b, NEW base, NEW seq, NEW n \in Nat, DOMAIN seq = 1 .. n, NEW d,
         Good(d, 0, base, base),
         \A i \in 1 .. n : \A t : Good(d, i - 1, t, t) =>
           Good(d, i, Step(a, b, t, seq[i]), Step(a, b, t, seq[i]))
  PROVE  Good(d, n, Fold(a, b, base, seq), Fold(a, b, base, seq))
<1>1. PICK run : Runs(run, a, b, base, seq, n)
  BY FoldRuns
<1> DEFINE S == { i \in 0 .. n : Good(d, i, run[i], run[i]) }
<1>2. 0 \in S
  BY <1>1 DEF Runs
<1>3. \A i \in 1 .. n : i - 1 \in S => i \in S
  BY <1>1 DEF Runs
<1>4. n \in S
  <2>. HIDE DEF S
  <2>1. \A i \in 0 .. n : i \in S
    BY <1>2, <1>3, Upwards
  <2>. QED BY <2>1
<1>. QED BY <1>1, <1>4 DEF Runs

(* Two folds of the same length stay related if their steps are.           *)
THEOREM FoldsAgree ==
  ASSUME NEW n \in Nat, NEW d,
         NEW a, NEW b, NEW base, NEW seq, DOMAIN seq = 1 .. n,
         NEW a2, NEW b2, NEW base2, NEW seq2, DOMAIN seq2 = 1 .. n,
         Good(d, 0, base, base2),
         \A i \in 1 .. n : \A t, u : Good(d, i - 1, t, u) =>
           Good(d, i, Step(a, b, t, seq[i]), Step(a2, b2, u, seq2[i]))
  PROVE  Good(d, n, Fold(a, b, base, seq), Fold(a2, b2, base2, seq2))
<1>1. PICK run : Runs(run, a, b, base, seq, n)
  BY FoldRuns
<1>2. PICK run2 : Runs(run2, a2, b2, base2, seq2, n)
  BY FoldRuns
<1> DEFINE S == { i \in 0 .. n : Good(d, i, run[i], run2[i]) }
<1>3. 0 \in S
  BY <1>1, <1>2 DEF Runs
<1>4. \A i \in 1 .. n : i - 1 \in S => i \in S
  BY <1>1, <1>2 DEF Runs
<1>5. n \in S
  <2>. HIDE DEF S
  <2>1. \A i \in 0 .. n : i \in S
    BY <1>3, <1>4, Upwards
  <2>. QED BY <2>1
<1>. QED BY <1>1, <1>2, <1>5 DEF Runs

(* A fold over one element more is one step more.                          *)
LEMMA FoldOneMore ==
  ASSUME NEW a, NEW b, NEW base, NEW n \in Nat,
         NEW seq, DOMAIN seq = 1 .. n + 1, NEW front, DOMAIN front = 1 .. n,
         \A i \in 1 .. n : front[i] = seq[i]
  PROVE  Fold(a, b, base, seq) = Step(a, b, Fold(a, b, base, front), seq[n + 1])
<1>0. n + 1 \in Nat
  OBVIOUS
<1>1. PICK run : Runs(run, a, b, base, seq, n + 1)
  BY <1>0, FoldRuns
<1>2. PICK run0 : Runs(run0, a, b, base, front, n)
  BY FoldRuns
<1> DEFINE S == { i \in 0 .. n : run[i] = run0[i] }
<1>3. 0 \in S
  BY <1>1, <1>2 DEF Runs
<1>4. \A i \in 1 .. n : i - 1 \in S => i \in S
  BY <1>1, <1>2 DEF Runs
<1>5. n \in S
  <2>. HIDE DEF S
  <2>1. \A i \in 0 .. n : i \in S
    BY <1>3, <1>4, Upwards
  <2>. QED BY <2>1
<1>6. run[n + 1] = Step(a, b, run[n], seq[n + 1])
  BY <1>1 DEF Runs
<1>. QED BY <1>1, <1>2, <1>5, <1>6 DEF Runs
=============================================================================
