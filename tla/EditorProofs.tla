---------------------------- MODULE EditorProofs ----------------------------
(***************************************************************************)
(* Theorems about the language server's document (Editor) and the lexer,   *)
(* for every text a client can type: the inductive invariant is the        *)
(* document's type, and what is computed of a text holds of any sequence   *)
(* of bytes that encodes characters.                                       *)
(***************************************************************************)
EXTENDS Editor, NatSets, FiniteSetTheorems, SequenceTheorems

---------------------------------------------------------------------------
(* Recursion over a text: each step jumps ahead                            *)

(* What holds at an offset when it holds behind it, holds everywhere.      *)
LEMMA Backwards ==
  ASSUME NEW n \in Nat, NEW S,
         \A i \in 0 .. n : (\A j \in i + 1 .. n : j \in S) => i \in S
  PROVE  \A i \in 0 .. n : i \in S
<1> DEFINE Bad == { i \in 0 .. n : i \notin S }
<1>1. SUFFICES ASSUME Bad # {}
               PROVE  FALSE
  OBVIOUS
<1>2. PICK x \in Bad : \A y \in Bad : y <= x
  <2>1. Bad \subseteq 0 .. n
    OBVIOUS
  <2>. HIDE DEF Bad
  <2>. QED BY <1>1, <2>1, GreatestElement
<1>3. \A j \in x + 1 .. n : j \in S
  BY <1>2
<1>. QED BY <1>2, <1>3

(* A scan jumps ahead until it stops, collecting what it passes except     *)
(* where it is quiet.                                                      *)
Scan(n, stop, base, quiet, head, next) ==
  CHOOSE f : f = [i \in 0 .. n |->
    IF i \in stop THEN base[i] ELSE IF i \in quiet THEN f[next[i]] ELSE head[i] \o f[next[i]]]

(* It is defined everywhere.                                               *)
LEMMA ScanExists ==
  ASSUME NEW n \in Nat, NEW stop, NEW base, NEW quiet, NEW head, NEW next,
         \A i \in 0 .. n : i \notin stop => next[i] \in i + 1 .. n
  PROVE  LET scan == Scan(n, stop, base, quiet, head, next)
         IN  /\ scan = [i \in 0 .. n |-> scan[i]]
             /\ \A i \in 0 .. n :
                  scan[i] = IF i \in stop THEN base[i]
                            ELSE IF i \in quiet THEN scan[next[i]] ELSE head[i] \o scan[next[i]]
<1> DEFINE Value(f, k) == IF k \in stop THEN base[k]
                          ELSE IF k \in quiet THEN f[next[k]] ELSE head[k] \o f[next[k]]
           S == { i \in 0 .. n : \E f : f = [k \in i .. n |-> Value(f, k)] }
<1>1. ASSUME NEW i \in 0 .. n, \A j \in i + 1 .. n : j \in S
      PROVE  i \in S
  <2>1. PICK f : f = [k \in i + 1 .. n |-> Value(f, k)]
    <3>1. CASE i = n
      <4>1. i + 1 .. n = {}
        BY <3>1
      <4>2. \A f : [k \in i + 1 .. n |-> Value(f, k)] = [k \in {} |-> k]
        BY <4>1
      <4>. QED BY <4>2
    <3>2. CASE i # n
      <4>1. i + 1 \in i + 1 .. n
        BY <3>2
      <4>. QED BY <1>1, <4>1
    <3>. QED BY <3>1, <3>2
  <2> DEFINE g == [k \in i .. n |-> IF k = i THEN Value(f, i) ELSE f[k]]
  <2>2. ASSUME NEW k \in i .. n
        PROVE  g[k] = Value(g, k)
    <3>1. k \notin stop => next[k] \in k + 1 .. n /\ next[k] \in i .. n /\ next[k] # i
      OBVIOUS
    <3>2. k \notin stop => g[next[k]] = f[next[k]]
      BY <3>1
    <3>3. CASE k = i
      BY <3>2, <3>3
    <3>4. CASE k # i
      <4>1. k \in i + 1 .. n
        BY <3>4
      <4>2. f[k] = Value(f, k)
        BY <2>1, <4>1
      <4>. QED BY <3>2, <3>4, <4>2
    <3>. QED BY <3>3, <3>4
  <2>3. g = [k \in i .. n |-> Value(g, k)]
    BY <2>2
  <2>. HIDE DEF g
  <2>. QED BY <2>3
<1>2. \A i \in 0 .. n : i \in S
  <2>. HIDE DEF S
  <2>. QED BY <1>1, Backwards
<1>3. 0 \in S
  <2>. HIDE DEF S
  <2>. QED BY <1>2
<1> DEFINE scan == Scan(n, stop, base, quiet, head, next)
<1>4. scan = [k \in 0 .. n |-> Value(scan, k)]
  BY <1>3 DEF Scan
<1>. HIDE DEF scan
<1>. QED BY <1>4 DEF scan

---------------------------------------------------------------------------
(* Texts                                                                   *)

(* The bytes of a text: each that continues a character follows another    *)
(* byte of that character.                                                 *)
Encoded(s) ==
  /\ s \in Seq(STRING)
  /\ \A k \in 1 .. Len(s) :
       /\ s[k] # "none"
       /\ s[k] = "cont" => k > 1 /\ s[k - 1] \in {"lead", "cont"}

LEMMA EncodedConcat ==
  ASSUME NEW s, Encoded(s), NEW c, Character(c)
  PROVE  Encoded(s \o c)
<1>1. s \o c \in Seq(STRING) /\ Len(s \o c) = Len(s) + Len(c) /\ Len(s) \in Nat /\ Len(c) \in Nat \ {0}
  BY DEF Encoded, Character
<1>2. ASSUME NEW k \in 1 .. Len(s \o c)
      PROVE  /\ (s \o c)[k] # "none"
             /\ (s \o c)[k] = "cont" => k > 1 /\ (s \o c)[k - 1] \in {"lead", "cont"}
  <2>1. CASE k <= Len(s)
    <3>1. (s \o c)[k] = s[k] /\ (k > 1 => (s \o c)[k - 1] = s[k - 1])
      BY <1>1, <2>1 DEF Encoded, Character
    <3>. QED BY <1>1, <2>1, <3>1 DEF Encoded
  <2>2. CASE k = Len(s) + 1
    <3>1. (s \o c)[k] = c[1] /\ c[1] \notin {"cont", "none"}
      BY <1>1, <2>2 DEF Encoded, Character
    <3>. QED BY <3>1
  <2>3. CASE k > Len(s) + 1
    <3> DEFINE j == k - Len(s)
    <3>1. j \in 2 .. Len(c) /\ j - 1 \in 1 .. Len(c)
      BY <1>1, <2>3
    <3>2. (s \o c)[k] = c[j] /\ (s \o c)[k - 1] = c[j - 1]
      BY <1>1, <2>3, <3>1 DEF Encoded, Character
    <3>3. c[j] = "cont" /\ c[j - 1] \in {"lead", "cont"}
      BY <3>1, <1>1 DEF Character
    <3>. QED BY <3>2, <3>3, <1>1, <2>3
  <2>. QED BY <2>1, <2>2, <2>3, <1>1
<1>. QED BY <1>1, <1>2 DEF Encoded

LEMMA BytesEncoded ==
  ASSUME NEW cs \in Seq(Chars)
  PROVE  Encoded(Bytes(cs))
<1>1. CASE Len(cs) = 0
  <2>1. Bytes(cs) = << >>
    BY <1>1, EmptySeq DEF Bytes, FlattenSeq
  <2>. QED BY <2>1 DEF Encoded
<1>2. CASE Len(cs) # 0
  <2> DEFINE n == Len(cs)
             Value(f, i) == IF i = 1 THEN cs[i] ELSE f[i - 1] \o cs[i]
             flatten == CHOOSE f : f = [i \in 1 .. n |-> Value(f, i)]
             Works == { k \in 1 .. n : \E f : f = [i \in 1 .. k |-> Value(f, i)] }
             Bad == { k \in 1 .. n : k \notin Works }
  <2>1. n \in Nat \ {0}
    BY <1>2
  <2>2. Bad = {}
    <3>1. SUFFICES ASSUME Bad # {}
                   PROVE  FALSE
      OBVIOUS
    <3>2. PICK x \in Bad : \A y \in Bad : x <= y
      <4>1. Bad \subseteq Nat
        <5>. HIDE DEF Works
        <5>. QED BY <2>1
      <4>. HIDE DEF Bad
      <4>. QED BY <3>1, <4>1, LeastElement
    <3>3. x # 1
      <4> DEFINE g == [i \in 1 .. 1 |-> cs[i]]
      <4>1. g = [i \in 1 .. 1 |-> Value(g, i)]
        OBVIOUS
      <4>. HIDE DEF g
      <4>. QED BY <4>1, <3>2
    <3>4. x - 1 \in 1 .. n /\ x - 1 \in Works
      <4>. HIDE DEF Works
      <4>. QED BY <2>1, <3>2, <3>3
    <3>5. PICK f : f = [i \in 1 .. x - 1 |-> Value(f, i)]
      BY <3>4
    <3> DEFINE g == [i \in 1 .. x |-> IF i = x THEN Value(f, i) ELSE f[i]]
    <3>6. \A i \in 1 .. x : g[i] = Value(g, i)
      <4>1. TAKE i \in 1 .. x
      <4>2. CASE i = x
        <5>1. x - 1 \in 1 .. x /\ x - 1 # x
          BY <3>2, <3>4
        <5>. QED BY <4>2, <5>1, <3>3
      <4>3. CASE i # x
        <5>1. i \in 1 .. x - 1 /\ (i # 1 => i - 1 \in 1 .. x /\ i - 1 # x)
          BY <3>2, <4>3
        <5>2. f[i] = Value(f, i)
          BY <3>5, <5>1
        <5>. QED BY <4>3, <5>1, <5>2
      <4>. QED BY <4>2, <4>3
    <3>7. g = [i \in 1 .. x |-> Value(g, i)]
      BY <3>6
    <3>. HIDE DEF g
    <3>. QED BY <3>7, <3>2
  <2>3. flatten = [i \in 1 .. n |-> Value(flatten, i)]
    <3>1. n \in 1 .. n
      BY <2>1
    <3>2. \E f : f = [i \in 1 .. n |-> Value(f, i)]
      BY <3>1, <2>2
    <3>. QED BY <3>2
  <2>4. \A i \in 1 .. n : flatten[i] = Value(flatten, i)
    <3>. HIDE DEF flatten
    <3>. QED BY <2>3
  <2>. HIDE DEF flatten
  <2> DEFINE Worse == { i \in 1 .. n : ~ Encoded(flatten[i]) }
  <2>5. Worse = {}
    <3>1. SUFFICES ASSUME Worse # {}
                   PROVE  FALSE
      OBVIOUS
    <3>2. PICK x \in Worse : \A y \in Worse : x <= y
      <4>1. Worse \subseteq Nat
        BY <2>1
      <4>. HIDE DEF Worse
      <4>. QED BY <3>1, <4>1, LeastElement
    <3>3. Character(cs[x])
      BY <3>2, EditorAssumption
    <3>4. CASE x = 1
      <4>1. Encoded(<< >>) /\ << >> \o cs[x] = cs[x]
        BY <3>3 DEF Encoded, Character
      <4>2. Encoded(<< >> \o cs[x])
        BY <3>3, <4>1, EncodedConcat
      <4>3. flatten[x] = cs[x]
        BY <2>4, <3>2, <3>4
      <4>. QED BY <3>2, <4>1, <4>2, <4>3
    <3>5. CASE x # 1
      <4>1. x - 1 \in 1 .. n /\ Encoded(flatten[x - 1])
        BY <2>1, <3>2, <3>5
      <4>2. flatten[x] = flatten[x - 1] \o cs[x]
        BY <2>4, <3>2, <3>5
      <4>3. Encoded(flatten[x - 1] \o cs[x])
        BY <3>3, <4>1, EncodedConcat
      <4>. QED BY <3>2, <4>2, <4>3
    <3>. QED BY <3>4, <3>5
  <2>6. Encoded(flatten[n])
    BY <2>1, <2>5
  <2>7. Bytes(cs) = flatten[n]
    BY <1>2 DEF Bytes, FlattenSeq, flatten
  <2>. QED BY <2>6, <2>7
<1>. QED BY <1>1, <1>2

(* Every offset has its byte, the one behind the text none.                *)
LEMMA ByteFacts ==
  ASSUME NEW s, Encoded(s)
  PROVE  /\ Len(s) \in Nat
         /\ \A i \in Nat : i >= Len(s) <=> Byte(s, i) = "none"
         /\ \A i \in 0 .. Len(s) : i \in Boundaries(s) <=> Byte(s, i) # "cont"
         /\ \A i \in 0 .. Len(s) - 1 : Byte(s, i) \notin {"lead", "cont"} => i + 1 \in Boundaries(s)
         /\ Boundaries(s) \subseteq 0 .. Len(s)
         /\ 0 \in Boundaries(s)
<1>1. Len(s) \in Nat
  BY DEF Encoded
<1>2. \A i \in Nat : i >= Len(s) <=> Byte(s, i) = "none"
  <2>1. TAKE i \in Nat
  <2>2. CASE i >= Len(s)
    BY <1>1, <2>2 DEF Byte
  <2>3. CASE i < Len(s)
    <3>1. i + 1 \in 1 .. Len(s)
      BY <1>1, <2>3
    <3>. QED BY <1>1, <2>3, <3>1 DEF Byte, Encoded
  <2>. QED BY <1>1, <2>2, <2>3
<1>3. \A i \in 0 .. Len(s) : i \in Boundaries(s) <=> Byte(s, i) # "cont"
  BY <1>1 DEF Boundaries, CharStarts, Byte
<1>4. ASSUME NEW i \in 0 .. Len(s) - 1, Byte(s, i) \notin {"lead", "cont"}
      PROVE  i + 1 \in Boundaries(s)
  <2>1. CASE i + 1 = Len(s)
    BY <2>1 DEF Boundaries
  <2>2. CASE i + 1 < Len(s)
    <3>1. i + 2 \in 1 .. Len(s) /\ i + 1 \in 0 .. Len(s)
      BY <1>1, <2>2
    <3>2. Byte(s, i) = s[i + 1] /\ Byte(s, i + 1) = s[i + 2]
      BY <1>1, <2>2 DEF Byte
    <3>3. s[i + 2] = "cont" => s[i + 2 - 1] \in {"lead", "cont"}
      BY <3>1 DEF Encoded
    <3>4. s[i + 2] # "cont"
      BY <1>1, <1>4, <3>2, <3>3
    <3>. QED BY <1>3, <3>1, <3>2, <3>4
  <2>. QED BY <1>1, <2>1, <2>2
<1>5. Boundaries(s) \subseteq 0 .. Len(s)
  BY <1>1 DEF Boundaries, CharStarts
<1>6. 0 \in Boundaries(s)
  <2>1. CASE Len(s) = 0
    BY <2>1 DEF Boundaries
  <2>2. CASE Len(s) > 0
    BY <1>1, <1>3, <2>2 DEF Byte, Encoded
  <2>. QED BY <1>1, <2>1, <2>2
<1>. QED BY <1>1, <1>2, <1>3, <1>4, <1>5, <1>6

(* What a run of bytes stops at.                                           *)
LEMMA RunStops ==
  ASSUME NEW s, Encoded(s), NEW i \in 0 .. Len(s), NEW S, "none" \notin S
  PROVE  /\ Run(s, i, S) \in i .. Len(s)
         /\ \A k \in i .. Run(s, i, S) - 1 : Byte(s, k) \in S
         /\ Byte(s, Run(s, i, S)) \notin S
<1> DEFINE Out == { k \in i .. Len(s) : Byte(s, k) \notin S }
<1>1. Len(s) \in Nat /\ Byte(s, Len(s)) = "none"
  BY ByteFacts
<1>2. Out \subseteq Nat /\ Len(s) \in Out
  BY <1>1
<1>3. PICK j \in Out : \A y \in Out : j <= y
  <2>. HIDE DEF Out
  <2>. QED BY <1>2, LeastElement
<1>4. \A k \in i .. j - 1 : Byte(s, k) \in S
  BY <1>1, <1>3
<1>. QED BY <1>1, <1>3, <1>4 DEF Run

(* A run of bytes that are characters ends between characters.             *)
LEMMA RunEnds ==
  ASSUME NEW s, Encoded(s), NEW i \in Boundaries(s), NEW S,
         S \cap {"none", "lead", "cont"} = {}
  PROVE  Run(s, i, S) \in Boundaries(s)
<1> DEFINE j == Run(s, i, S)
<1>1. Len(s) \in Nat /\ i \in 0 .. Len(s)
  BY ByteFacts
<1>2. j \in i .. Len(s) /\ \A k \in i .. j - 1 : Byte(s, k) \in S
  BY <1>1, RunStops
<1>3. CASE j = i
  BY <1>3
<1>4. CASE j # i
  <2>1. j - 1 \in i .. j - 1 /\ j - 1 \in 0 .. Len(s) - 1
    BY <1>1, <1>2, <1>4
  <2>2. Byte(s, j - 1) \notin {"lead", "cont"}
    BY <1>2, <2>1
  <2>3. (j - 1) + 1 \in Boundaries(s)
    BY <2>1, <2>2, ByteFacts
  <2>. QED BY <1>1, <1>2, <2>3
<1>. QED BY <1>3, <1>4

(* Where a line ends.                                                      *)
LEMMA LineEnds ==
  ASSUME NEW s, Encoded(s), NEW i \in 0 .. Len(s)
  PROVE  /\ LineEnd(s, i) \in i .. Len(s)
         /\ LineEnd(s, i) \in Boundaries(s)
         /\ \A k \in i .. LineEnd(s, i) - 1 : Byte(s, k) # "\n"
         /\ Byte(s, LineEnd(s, i)) \in {"\n", "none"}
<1> DEFINE Out == { k \in i .. Len(s) : Byte(s, k) \in {"\n", "none"} }
<1>1. Len(s) \in Nat /\ Byte(s, Len(s)) = "none"
  BY ByteFacts
<1>2. Out \subseteq Nat /\ Len(s) \in Out
  BY <1>1
<1>3. PICK j \in Out : \A y \in Out : j <= y
  <2>. HIDE DEF Out
  <2>. QED BY <1>2, LeastElement
<1>4. \A k \in i .. j - 1 : Byte(s, k) # "\n"
  BY <1>1, <1>3
<1>5. /\ LineEnd(s, i) \in i .. Len(s)
      /\ \A k \in i .. LineEnd(s, i) - 1 : Byte(s, k) # "\n"
      /\ Byte(s, LineEnd(s, i)) \in {"\n", "none"}
  BY <1>1, <1>3, <1>4 DEF LineEnd
<1>. QED BY <1>1, <1>5, ByteFacts

---------------------------------------------------------------------------
(* Positions                                                               *)

Newlines(s, o) == { i \in 0 .. o - 1 : Byte(s, i) = "\n" }

(* The line and the column of an offset are natural numbers.               *)
LEMMA PositionFacts ==
  ASSUME NEW s, NEW o \in Nat
  PROVE  /\ IsFiniteSet(Newlines(s, o))
         /\ LineOf(s, o) = Cardinality(Newlines(s, o))
         /\ LineOf(s, o) \in Nat
         /\ LineStart(s, o) \in 0 .. o
<1>1. IsFiniteSet(0 .. o - 1)
  BY FS_Interval
<1>2. IsFiniteSet(Newlines(s, o))
  BY <1>1, FS_Subset DEF Newlines
<1>3. LineOf(s, o) = Cardinality(Newlines(s, o))
  BY DEF LineOf, Newlines
<1>4. LineOf(s, o) \in Nat
  BY <1>2, <1>3, FS_CardinalityType
<1>5. LineStart(s, o) \in 0 .. o
  <2>1. CASE Newlines(s, o) = {}
    BY <2>1 DEF LineStart, Newlines
  <2>2. CASE Newlines(s, o) # {}
    <3>1. Newlines(s, o) \subseteq 0 .. o
      BY DEF Newlines
    <3>2. PICK x \in Newlines(s, o) : \A y \in Newlines(s, o) : y <= x
      BY <2>2, <3>1, GreatestElement
    <3>3. \A y \in Newlines(s, o) : x >= y
      BY <3>1, <3>2
    <3>4. Max(Newlines(s, o)) \in Newlines(s, o)
      BY <3>2, <3>3 DEF Max
    <3>5. LineStart(s, o) = Max(Newlines(s, o)) + 1
      BY <2>2 DEF LineStart, Newlines
    <3>. QED BY <3>4, <3>5 DEF Newlines
  <2>. QED BY <2>1, <2>2
<1>. QED BY <1>2, <1>3, <1>4, <1>5

(* Lines are counted upwards, and a line starts at one place.              *)
LEMMA LinesInOrder ==
  ASSUME NEW s, NEW a \in Nat, NEW b \in Nat, a <= b
  PROVE  /\ LineOf(s, a) <= LineOf(s, b)
         /\ LineOf(s, a) = LineOf(s, b) => LineStart(s, a) = LineStart(s, b)
<1>1. Newlines(s, a) \subseteq Newlines(s, b)
  BY DEF Newlines
<1>2. IsFiniteSet(Newlines(s, b))
  BY PositionFacts
<1>3. /\ Cardinality(Newlines(s, a)) <= Cardinality(Newlines(s, b))
      /\ Cardinality(Newlines(s, a)) = Cardinality(Newlines(s, b)) => Newlines(s, a) = Newlines(s, b)
  BY <1>1, <1>2, FS_Subset
<1>4. Newlines(s, a) = Newlines(s, b) => LineStart(s, a) = LineStart(s, b)
  BY DEF Newlines, LineStart
<1>. QED BY <1>3, <1>4, PositionFacts

(* The conversions undo each other.                                        *)
LEMMA RoundTrip ==
  ASSUME NEW s, Encoded(s), NEW o \in Boundaries(s)
  PROVE  PositionToOffset(s, OffsetToPosition(s, o)) = o
<1> DEFINE p == OffsetToPosition(s, o)
           found == { i \in CharStarts(s) : LineOf(s, i) = p.line /\ i - LineStart(s, i) >= p.character }
<1>1. Len(s) \in Nat /\ o \in 0 .. Len(s) /\ CharStarts(s) \subseteq 0 .. Len(s) - 1
  BY ByteFacts DEF CharStarts
<1>2. p.line = LineOf(s, o) /\ p.character = o - LineStart(s, o)
  BY DEF OffsetToPosition
<1>3. \A i \in CharStarts(s) : LineOf(s, i) = LineOf(s, o) => LineStart(s, i) = LineStart(s, o)
  <2>1. TAKE i \in CharStarts(s)
  <2>2. i \in Nat /\ o \in Nat
    BY <1>1
  <2>3. i <= o \/ o <= i
    BY <2>2
  <2>. QED BY <2>2, <2>3, LinesInOrder
<1>4. LineStart(s, o) \in 0 .. o
  BY <1>1, PositionFacts
<1>5. \A i \in found : i >= o
  BY <1>1, <1>2, <1>3, <1>4
<1>6. CASE o \in CharStarts(s)
  <2>1. o \in found
    BY <1>1, <1>2, <1>4, <1>6
  <2>2. \A i \in found : o =< i
    BY <1>1, <1>5
  <2>3. found \subseteq Nat
    BY <1>1
  <2>4. Min(found) = o
    <3>. HIDE DEF found
    <3>1. Min(found) \in found /\ \A i \in found : Min(found) =< i
      BY <2>1, <2>2 DEF Min
    <3>2. o \in Nat
      BY <1>1
    <3>3. Min(found) \in Nat
      BY <2>3, <3>1
    <3>4. o <= Min(found) /\ Min(found) <= o
      BY <1>5, <2>1, <3>1, <3>2
    <3>. QED BY <3>2, <3>3, <3>4
  <2>. QED BY <2>1, <2>4 DEF PositionToOffset
<1>7. CASE o = Len(s)
  <2>1. found = {}
    BY <1>1, <1>5, <1>7
  <2>. QED BY <1>7, <2>1 DEF PositionToOffset
<1>. QED BY <1>6, <1>7 DEF Boundaries

---------------------------------------------------------------------------
(* The lexer                                                               *)

(* skip_whitespace_and_comments, one step of the loop at a time.           *)
LEMMA SkipUnfolds ==
  ASSUME NEW s, Encoded(s), NEW i \in 0 .. Len(s)
  PROVE  Skip(s, i) = IF Byte(s, i) \in Space THEN Skip(s, i + 1)
                      ELSE IF StartsComment(s, i) THEN Skip(s, LineEnd(s, i)) ELSE i
<1> DEFINE n == Len(s)
           Value(f, k) == IF Byte(s, k) \in Space THEN f[k + 1]
                          ELSE IF StartsComment(s, k) THEN f[LineEnd(s, k)] ELSE k
           skip == CHOOSE f : f = [k \in 0 .. n |-> Value(f, k)]
           stop == { k \in 0 .. n : Byte(s, k) \notin Space /\ ~ StartsComment(s, k) }
           next == [k \in 0 .. n |-> IF Byte(s, k) \in Space THEN k + 1 ELSE LineEnd(s, k)]
           base == [k \in 0 .. n |-> k]
           scan == Scan(n, stop, base, 0 .. n, base, next)
<1>1. n \in Nat
  BY ByteFacts
<1>2. \A k \in 0 .. n : k \notin stop => next[k] \in k + 1 .. n
  <2>1. TAKE k \in 0 .. n
  <2>2. HAVE k \notin stop
  <2>3. k # n
    <3>1. Byte(s, n) = "none"
      BY <1>1, ByteFacts
    <3>. QED BY <2>2, <3>1 DEF Space, StartsComment
  <2>4. CASE Byte(s, k) \in Space
    BY <1>1, <2>3, <2>4
  <2>5. CASE Byte(s, k) \notin Space
    <3>1. next[k] = LineEnd(s, k) /\ StartsComment(s, k)
      BY <2>2, <2>5
    <3>2. LineEnd(s, k) \in k .. Len(s) /\ Byte(s, LineEnd(s, k)) \in {"\n", "none"}
      BY LineEnds
    <3>3. LineEnd(s, k) # k
      BY <3>1, <3>2 DEF StartsComment
    <3>. QED BY <1>1, <3>1, <3>2, <3>3
  <2>. QED BY <2>4, <2>5
<1>3. /\ scan = [k \in 0 .. n |-> scan[k]]
      /\ \A k \in 0 .. n : scan[k] = IF k \in stop THEN base[k]
                                     ELSE IF k \in 0 .. n THEN scan[next[k]]
                                     ELSE base[k] \o scan[next[k]]
  <2>. HIDE DEF n, stop, next, base
  <2>. QED BY <1>1, <1>2, ScanExists
<1>4. skip = [k \in 0 .. n |-> Value(skip, k)]
  <2>. HIDE DEF scan
  <2>1. \A k \in 0 .. n : scan[k] = Value(scan, k)
    BY <1>3
  <2>2. scan = [k \in 0 .. n |-> Value(scan, k)]
    BY <1>3, <2>1
  <2>. QED BY <2>2
<1>5. \A k : Skip(s, k) = skip[k]
  BY DEF Skip
<1>. HIDE DEF skip
<1>6. skip[i] = Value(skip, i)
  BY <1>4
<1>. QED BY <1>5, <1>6

(* White space and comments end between characters, where something else   *)
(* begins.                                                                 *)
LEMMA SkipFacts ==
  ASSUME NEW s, Encoded(s), NEW i \in Boundaries(s)
  PROVE  /\ Skip(s, i) \in i .. Len(s)
         /\ Skip(s, i) \in Boundaries(s)
         /\ ~ StartsComment(s, Skip(s, i))
<1> DEFINE n == Len(s)
           Right(k) == k \in Boundaries(s) => /\ Skip(s, k) \in k .. n
                                              /\ Skip(s, k) \in Boundaries(s)
                                              /\ ~ StartsComment(s, Skip(s, k))
           S == { k \in 0 .. n : Right(k) }
<1>1. n \in Nat /\ i \in 0 .. n /\ Byte(s, n) = "none" /\ "none" \notin Space
  BY ByteFacts DEF Space
<1>2. ASSUME NEW k \in 0 .. n, \A j \in k + 1 .. n : j \in S
      PROVE  k \in S
  <2>1. CASE Byte(s, k) \in Space
    <3>1. k \in 0 .. n - 1
      BY <1>1, <2>1
    <3>2. Byte(s, k) \notin {"lead", "cont"}
      BY <2>1 DEF Space
    <3>3. k + 1 \in Boundaries(s)
      BY <3>1, <3>2, ByteFacts
    <3>4. Right(k + 1)
      BY <1>1, <1>2, <3>1
    <3>5. Skip(s, k) = Skip(s, k + 1)
      BY <2>1, SkipUnfolds
    <3>. QED BY <1>1, <3>1, <3>3, <3>4, <3>5
  <2>2. CASE Byte(s, k) \notin Space /\ StartsComment(s, k)
    <3> DEFINE e == LineEnd(s, k)
    <3>1. e \in k .. n /\ e \in Boundaries(s) /\ Byte(s, e) \in {"\n", "none"}
      BY LineEnds
    <3>2. e # k
      BY <2>2, <3>1 DEF StartsComment
    <3>3. e \in k + 1 .. n
      BY <1>1, <3>1, <3>2
    <3>4. Right(e)
      BY <1>2, <3>3
    <3>5. Skip(s, k) = Skip(s, e)
      BY <2>2, SkipUnfolds
    <3>. HIDE DEF e
    <3>. QED BY <1>1, <3>1, <3>3, <3>4, <3>5
  <2>3. CASE Byte(s, k) \notin Space /\ ~ StartsComment(s, k)
    <3>1. Skip(s, k) = k
      BY <2>3, SkipUnfolds
    <3>. QED BY <1>1, <2>3, <3>1
  <2>. QED BY <2>1, <2>2, <2>3
<1>3. \A k \in 0 .. n : k \in S
  <2>. HIDE DEF S
  <2>. QED BY <1>1, <1>2, Backwards
<1>. QED BY <1>1, <1>3

LEMMA QuoteIsNone ==
  Quote \notin {"none", "lead", "cont", "\\", "#", "/", "\n", "n", "t"}
BY Zenon DEF Quote

(* A string's bytes, from an offset in it.                                 *)
Str(s, start) ==
  CHOOSE f : f = [j \in 0 .. Len(s) |->
    IF Byte(s, j) = "none" THEN Error(start)
    ELSE IF Byte(s, j) = Quote THEN Token("string", start, j + 1)
    ELSE IF Byte(s, j) # "\\" THEN f[j + 1]
    ELSE IF Byte(s, j + 1) = "none" THEN Error(start)
    ELSE IF Byte(s, j + 1) \in Escaped THEN f[j + 2]
    ELSE Error(j + 1)]

(* lex_string, one step of the loop at a time.                             *)
LEMMA StrUnfolds ==
  ASSUME NEW s, Encoded(s), NEW start, NEW j \in 0 .. Len(s)
  PROVE  /\ LexString(s, start) = Str(s, start)[start + 1]
         /\ Str(s, start)[j] =
              IF Byte(s, j) = "none" THEN Error(start)
              ELSE IF Byte(s, j) = Quote THEN Token("string", start, j + 1)
              ELSE IF Byte(s, j) # "\\" THEN Str(s, start)[j + 1]
              ELSE IF Byte(s, j + 1) = "none" THEN Error(start)
              ELSE IF Byte(s, j + 1) \in Escaped THEN Str(s, start)[j + 2]
              ELSE Error(j + 1)
<1> DEFINE n == Len(s)
           Value(f, k) ==
             IF Byte(s, k) = "none" THEN Error(start)
             ELSE IF Byte(s, k) = Quote THEN Token("string", start, k + 1)
             ELSE IF Byte(s, k) # "\\" THEN f[k + 1]
             ELSE IF Byte(s, k + 1) = "none" THEN Error(start)
             ELSE IF Byte(s, k + 1) \in Escaped THEN f[k + 2]
             ELSE Error(k + 1)
           stop == { k \in 0 .. n : \/ Byte(s, k) \in {"none", Quote}
                                    \/ Byte(s, k) = "\\" /\ Byte(s, k + 1) \notin Escaped }
           next == [k \in 0 .. n |-> IF Byte(s, k) = "\\" THEN k + 2 ELSE k + 1]
           base == [k \in 0 .. n |->
                      IF Byte(s, k) = "none" THEN Error(start)
                      ELSE IF Byte(s, k) = Quote THEN Token("string", start, k + 1)
                      ELSE IF Byte(s, k + 1) = "none" THEN Error(start) ELSE Error(k + 1)]
           scan == Scan(n, stop, base, 0 .. n, base, next)
<1>1. n \in Nat
  BY ByteFacts
<1>2. \A k \in 0 .. n : k \notin stop => next[k] \in k + 1 .. n
  <2>1. TAKE k \in 0 .. n
  <2>2. HAVE k \notin stop
  <2>. k \in Nat /\ k + 1 \in Nat
    BY <1>1
  <2>3. k < n
    <3>1. Byte(s, k) # "none"
      BY <2>2
    <3>. QED BY <1>1, <3>1, ByteFacts
  <2>4. CASE Byte(s, k) = "\\"
    <3>1. Byte(s, k + 1) # "none"
      <4>1. Byte(s, k + 1) \in Escaped
        BY <2>2, <2>4
      <4>. QED BY <4>1, QuoteIsNone DEF Escaped
    <3>2. k + 1 < n
      BY <1>1, <3>1, ByteFacts
    <3>. QED BY <1>1, <2>4, <3>2
  <2>5. CASE Byte(s, k) # "\\"
    BY <1>1, <2>3, <2>5
  <2>. QED BY <2>4, <2>5
<1>3. /\ scan = [k \in 0 .. n |-> scan[k]]
      /\ \A k \in 0 .. n : scan[k] = IF k \in stop THEN base[k]
                                     ELSE IF k \in 0 .. n THEN scan[next[k]]
                                     ELSE base[k] \o scan[next[k]]
  <2>. HIDE DEF n, stop, next, base
  <2>. QED BY <1>1, <1>2, ScanExists
<1>4. Str(s, start) = [k \in 0 .. n |-> Value(Str(s, start), k)]
  <2>. HIDE DEF scan
  <2>1. \A k \in 0 .. n : scan[k] = Value(scan, k)
    <3>1. TAKE k \in 0 .. n
    <3>2. CASE Byte(s, k) \in {"none", Quote}
      BY <1>3, <3>2
    <3>3. CASE Byte(s, k) = "\\"
      BY <1>3, <3>3 DEF Escaped
    <3>4. CASE Byte(s, k) \notin {"none", Quote, "\\"}
      BY <1>3, <3>4
    <3>. QED BY <3>2, <3>3, <3>4
  <2>2. scan = [k \in 0 .. n |-> Value(scan, k)]
    BY <1>3, <2>1
  <2>. QED BY <2>2 DEF Str
<1>5. LexString(s, start) = Str(s, start)[start + 1]
  BY DEF LexString, Str
<1>6. Str(s, start)[j] = Value(Str(s, start), j)
  BY <1>4
<1>. QED BY <1>5, <1>6

(* What a token that starts at i spans: characters, at least one; an error *)
(* is between characters.                                                  *)
Kinds == {"string", "integer", "name", "operator", "error"}
Spans(s) == [kind : Kinds, at : Boundaries(s), end : Boundaries(s)]

SpanRight(s, i, t) ==
  /\ t \in Spans(s)
  /\ i <= t.at
  /\ t.kind = "error" => t.end = t.at
  /\ t.kind # "error" => t.at = i /\ i < t.end

LEMMA TokenSpans ==
  ASSUME NEW s, NEW at \in Boundaries(s), NEW end \in Boundaries(s), NEW kind \in Kinds
  PROVE  /\ Token(kind, at, end) \in Spans(s)
         /\ Token(kind, at, end).kind = kind
         /\ Token(kind, at, end).at = at
         /\ Token(kind, at, end).end = end
         /\ Error(at) \in Spans(s)
         /\ Error(at).kind = "error" /\ Error(at).at = at /\ Error(at).end = at
BY DEF Token, Error, Spans, Kinds

LEMMA StringFacts ==
  ASSUME NEW s, Encoded(s), NEW i \in Boundaries(s), Byte(s, i) = Quote
  PROVE  SpanRight(s, i, LexString(s, i))
<1> DEFINE n == Len(s)
           S == { j \in 0 .. n : i < j => SpanRight(s, i, Str(s, i)[j]) }
<1>1. n \in Nat /\ i \in 0 .. n /\ Byte(s, n) = "none"
  BY ByteFacts
<1>2. i + 1 \in 0 .. n /\ i < i + 1
  <2>1. i # n
    BY <1>1, QuoteIsNone
  <2>. QED BY <1>1, <2>1
<1>3. SpanRight(s, i, Error(i))
  BY <1>1, TokenSpans DEF SpanRight, Kinds
<1>4. ASSUME NEW j \in 0 .. n, \A k \in j + 1 .. n : k \in S
      PROVE  j \in S
  <2>1. SUFFICES ASSUME i < j
                 PROVE  SpanRight(s, i, Str(s, i)[j])
    OBVIOUS
  <2>2. Byte(s, j) # "none" => j \in 0 .. n - 1
    BY <1>1
  <2>3. CASE Byte(s, j) = "none"
    <3>1. Str(s, i)[j] = Error(i)
      BY <2>3, QuoteIsNone, StrUnfolds
    <3>. QED BY <1>3, <3>1
  <2>4. CASE Byte(s, j) = Quote
    <3>1. Str(s, i)[j] = Token("string", i, j + 1)
      BY <2>4, QuoteIsNone, StrUnfolds
    <3>2. j + 1 \in Boundaries(s)
      BY <2>2, <2>4, QuoteIsNone, ByteFacts
    <3>3. i < j + 1
      BY <1>1, <2>1
    <3>. QED BY <1>1, <3>1, <3>2, <3>3, TokenSpans DEF SpanRight, Kinds
  <2>5. CASE Byte(s, j) \notin {"none", Quote, "\\"}
    <3>1. Str(s, i)[j] = Str(s, i)[j + 1]
      BY <2>5, QuoteIsNone, StrUnfolds
    <3>2. j + 1 \in S /\ i < j + 1
      BY <1>1, <1>4, <2>1, <2>2, <2>5
    <3>. QED BY <3>1, <3>2
  <2>6. CASE Byte(s, j) = "\\"
    <3>1. CASE Byte(s, j + 1) = "none"
      <4>1. Str(s, i)[j] = Error(i)
        BY <2>6, <3>1, QuoteIsNone, StrUnfolds
      <4>. QED BY <1>3, <4>1
    <3>2. CASE Byte(s, j + 1) # "none" /\ Byte(s, j + 1) \in Escaped
      <4>1. Str(s, i)[j] = Str(s, i)[j + 2]
        BY <2>6, <3>2, QuoteIsNone, StrUnfolds
      <4>2. j + 1 \in Nat /\ j + 1 < n
        <5>1. j + 1 \in Nat
          OBVIOUS
        <5>. QED BY <1>1, <3>2, <5>1, ByteFacts
      <4>3. j + 2 \in S /\ i < j + 2
        BY <1>1, <1>4, <2>1, <4>2
      <4>. QED BY <4>1, <4>3
    <3>3. CASE Byte(s, j + 1) # "none" /\ Byte(s, j + 1) \notin Escaped
      <4>1. Str(s, i)[j] = Error(j + 1)
        BY <2>6, <3>3, QuoteIsNone, StrUnfolds
      <4>2. j + 1 \in Boundaries(s)
        BY <2>2, <2>6, ByteFacts
      <4>3. i <= j + 1
        BY <1>1, <2>1
      <4>. QED BY <4>1, <4>2, <4>3, TokenSpans DEF SpanRight, Kinds
    <3>. QED BY <3>1, <3>2, <3>3
  <2>. QED BY <2>3, <2>4, <2>5, <2>6
<1>5. \A j \in 0 .. n : j \in S
  <2>. HIDE DEF S
  <2>. QED BY <1>1, <1>4, Backwards
<1>6. LexString(s, i) = Str(s, i)[i + 1]
  BY <1>2, StrUnfolds
<1>. QED BY <1>2, <1>5, <1>6

(* The bytes of a number or a name.                                        *)
LEMMA WordBytes ==
  /\ Word \cap {"none", "lead", "cont", Quote, "#", "/"} = {}
  /\ HexDigits \cup {"_"} \subseteq Word /\ Digits \cup {"_"} \subseteq Word
  /\ Letters \cup {"_"} \subseteq Word /\ {"0", "1"} \subseteq Word
BY DEF Word, HexDigits, Digits, Letters

LEMMA RunSpans ==
  ASSUME NEW s, Encoded(s), NEW i \in Boundaries(s), NEW j \in Boundaries(s), i <= j,
         NEW S, S \subseteq Word, Byte(s, j) \in S, NEW kind \in Kinds, kind # "error"
  PROVE  SpanRight(s, i, Token(kind, i, Run(s, j, S)))
<1>1. Len(s) \in Nat /\ i \in 0 .. Len(s) /\ j \in 0 .. Len(s)
  BY ByteFacts
<1>2. S \cap {"none", "lead", "cont"} = {}
  BY WordBytes
<1>3. /\ Run(s, j, S) \in j .. Len(s)
      /\ Byte(s, Run(s, j, S)) \notin S
  BY <1>1, <1>2, RunStops
<1>4. Run(s, j, S) \in Boundaries(s)
  BY <1>2, RunEnds
<1>5. i < Run(s, j, S)
  <2>1. Run(s, j, S) # j
    BY <1>3
  <2>. QED BY <1>1, <1>3, <2>1
<1> DEFINE t == Token(kind, i, Run(s, j, S))
<1>6. t \in Spans(s) /\ t.kind = kind /\ t.at = i /\ t.end = Run(s, j, S)
  BY <1>4, TokenSpans
<1>7. i <= i
  BY <1>1
<1>. HIDE DEF t
<1>8. SpanRight(s, i, t)
  BY <1>5, <1>6, <1>7 DEF SpanRight
<1>. QED BY <1>8 DEF t

LEMMA RadixFacts ==
  ASSUME NEW s, Encoded(s), NEW i \in Boundaries(s), NEW digits, digits \subseteq Word
  PROVE  SpanRight(s, i, LexRadix(s, i, digits))
<1>1. Len(s) \in Nat /\ i \in 0 .. Len(s) /\ i \in Nat /\ i + 2 \in Nat
  BY ByteFacts
<1>2. CASE Byte(s, i + 2) \notin digits
  BY <1>1, <1>2, TokenSpans DEF LexRadix, SpanRight, Kinds
<1>3. CASE Byte(s, i + 2) \in digits
  <2>1. Byte(s, i + 2) \notin {"none", "cont"}
    BY <1>3, WordBytes
  <2>2. i + 2 \in 0 .. Len(s)
    BY <1>1, <2>1, ByteFacts
  <2>3. i + 2 \in Boundaries(s) /\ i <= i + 2
    BY <1>1, <2>1, <2>2, ByteFacts
  <2>4. digits \cup {"_"} \subseteq Word
    BY WordBytes
  <2>5. SpanRight(s, i, Token("integer", i, Run(s, i + 2, digits \cup {"_"})))
    BY <1>3, <2>3, <2>4, RunSpans DEF Kinds
  <2>. QED BY <1>3, <2>5 DEF LexRadix
<1>. QED BY <1>2, <1>3

LEMMA MarkBytes ==
  /\ Marks \cap {"none", "lead", "cont", Quote, "#"} = {}
  /\ {":", ".", "=", "-", ">", "+", "!", "<", "~", "?"}
       \cap {"none", "lead", "cont", Quote, "#", "/"} = {}
BY Zenon DEF Marks, Quote

LEMMA OperatorBytes ==
  ASSUME NEW o \in Operators
  PROVE  /\ Len(o) \in 1 .. 3
         /\ DOMAIN o = 1 .. Len(o)
         /\ \A k \in DOMAIN o : o[k] \notin {"none", "lead", "cont", Quote, "#"}
         /\ \A k \in DOMAIN o : o[k] = "/" => Len(o) = 1
<1>1. CASE o \in Singles
  <2>1. PICK c \in Marks : o = <<c>>
    BY <1>1 DEF Singles
  <2>. QED BY <2>1, MarkBytes
<1>2. CASE o \in Longer
  <2>1. /\ Len(o) \in 1 .. 3
        /\ DOMAIN o = 1 .. Len(o)
        /\ \A k \in DOMAIN o : o[k] \in {":", ".", "=", "-", ">", "+", "!", "<", "~", "?"}
    BY <1>2 DEF Longer
  <2>. QED BY <2>1, MarkBytes
<1>. QED BY <1>1, <1>2 DEF Operators

(* An operator's token has its bytes, which are characters.                *)
LEMMA OperatorFacts ==
  ASSUME NEW s, Encoded(s), NEW i \in Boundaries(s), i < Len(s)
  PROVE  /\ SpanRight(s, i, LexOperator(s, i))
         /\ LexOperator(s, i).kind # "error" =>
              \E o \in Operators :
                /\ LexOperator(s, i) = Token("operator", i, i + Len(o))
                /\ \A k \in DOMAIN o : Byte(s, i + k - 1) = o[k]
<1> DEFINE here == { o \in Operators : \A k \in DOMAIN o : Byte(s, i + k - 1) = o[k] }
           longest == CHOOSE x \in here : \A y \in here : Len(y) <= Len(x)
<1>1. Len(s) \in Nat /\ i \in 0 .. Len(s)
  BY ByteFacts
<1>2. CASE here = {}
  <2>1. LexOperator(s, i) = Error(i)
    BY <1>2 DEF LexOperator
  <2>. QED BY <1>1, <2>1, TokenSpans DEF SpanRight, Kinds
<1>3. CASE here # {}
  <2> DEFINE Lengths == { Len(y) : y \in here }
  <2>1. here \subseteq Operators
    OBVIOUS
  <2>2. PICK m \in Lengths : \A l \in Lengths : l <= m
    <3>1. Lengths \subseteq 0 .. 3 /\ Lengths # {}
      <4>1. \A y \in here : Len(y) \in 0 .. 3
        BY <2>1, OperatorBytes
      <4>. HIDE DEF here
      <4>. QED BY <1>3, <4>1
    <3>2. 3 \in Nat
      OBVIOUS
    <3>. HIDE DEF Lengths
    <3>. QED BY <3>1, <3>2, GreatestElement
  <2>3. \E x \in here : \A y \in here : Len(y) <= Len(x)
    <3>. HIDE DEF here
    <3>. QED BY <2>2
  <2>4. longest \in here
    <3>. HIDE DEF here
    <3>. QED BY <2>3
  <2>5. LexOperator(s, i) = Token("operator", i, i + Len(longest))
    BY <1>3 DEF LexOperator
  <2>. HIDE DEF longest
  <2>6. /\ Len(longest) \in 1 .. 3 /\ longest \in Operators
        /\ Byte(s, i + Len(longest) - 1) = longest[Len(longest)]
        /\ longest[Len(longest)] \notin {"none", "lead", "cont"}
    <3>1. Len(longest) \in 1 .. 3 /\ DOMAIN longest = 1 .. Len(longest)
      BY <2>4, OperatorBytes
    <3>2. Len(longest) \in DOMAIN longest
      BY <3>1
    <3>. QED BY <2>4, <3>1, <3>2, OperatorBytes
  <2> DEFINE last == i + Len(longest) - 1
  <2>7. last \in 0 .. Len(s) - 1
    <3>1. last \in Nat
      <4>1. i \in Nat /\ Len(longest) \in 1 .. 3
        BY <1>1, <2>6
      <4>. QED BY <4>1
    <3>2. last < Len(s)
      <4>. HIDE DEF last
      <4>. QED BY <1>1, <2>6, <3>1, ByteFacts DEF last
    <3>. QED BY <1>1, <3>1, <3>2
  <2>8. last + 1 \in Boundaries(s)
    BY <2>6, <2>7, ByteFacts
  <2>9. last + 1 = i + Len(longest) /\ i < i + Len(longest) /\ i <= i
    BY <1>1, <2>6
  <2>10. SpanRight(s, i, Token("operator", i, i + Len(longest)))
    BY <2>8, <2>9, TokenSpans DEF SpanRight, Kinds
  <2>11. \A k \in DOMAIN longest : Byte(s, i + k - 1) = longest[k]
    BY <2>4
  <2>. QED BY <2>4, <2>5, <2>10, <2>11
<1>. QED BY <1>2, <1>3

(* Where something begins, a token of characters does, or an error is      *)
(* found between characters.                                               *)
LEMMA TokenFacts ==
  ASSUME NEW s, Encoded(s), NEW i \in Boundaries(s), i < Len(s)
  PROVE  SpanRight(s, i, NextToken(s, i))
<1>1. Len(s) \in Nat /\ i \in 0 .. Len(s) /\ i <= i
  BY ByteFacts
<1>2. CASE Byte(s, i) = Quote
  BY <1>2, StringFacts DEF NextToken
<1>3. CASE Byte(s, i) # Quote /\ Byte(s, i) = "0" /\ Byte(s, i + 1) = "x"
  <2>1. HexDigits \subseteq Word
    BY WordBytes
  <2>. QED BY <1>3, <2>1, RadixFacts DEF NextToken
<1>4. CASE Byte(s, i) # Quote /\ Byte(s, i) = "0" /\ Byte(s, i + 1) = "b"
  <2>1. {"0", "1"} \subseteq Word
    BY WordBytes
  <2>. QED BY <1>4, <2>1, RadixFacts DEF NextToken
<1>5. CASE /\ Byte(s, i) # Quote /\ ~ (Byte(s, i) = "0" /\ Byte(s, i + 1) \in {"x", "b"})
           /\ Byte(s, i) \in Digits
  <2>1. Byte(s, i) \in Digits \cup {"_"} /\ Digits \cup {"_"} \subseteq Word
    BY <1>5, WordBytes
  <2>2. SpanRight(s, i, Token("integer", i, Run(s, i, Digits \cup {"_"})))
    BY <1>1, <2>1, RunSpans DEF Kinds
  <2>. QED BY <1>5, <2>2 DEF NextToken
<1>6. CASE Byte(s, i) \notin Digits \cup {Quote} /\ Byte(s, i) \in Letters \cup {"_"}
  <2>1. Byte(s, i) \in Word
    BY <1>6, WordBytes
  <2>2. SpanRight(s, i, Token("name", i, Run(s, i, Word)))
    BY <1>1, <2>1, RunSpans DEF Kinds
  <2>3. NextToken(s, i) = Token("name", i, Run(s, i, Word))
    BY <1>6 DEF NextToken, Digits
  <2>. QED BY <2>2, <2>3
<1>7. CASE Byte(s, i) \notin Digits \cup Letters \cup {"_", Quote}
  <2>1. NextToken(s, i) = LexOperator(s, i)
    BY <1>7 DEF NextToken, Digits
  <2>. QED BY <2>1, OperatorFacts
<1>. QED BY <1>2, <1>3, <1>4, <1>5, <1>6, <1>7

(* Inside a character nothing begins.                                      *)
LEMMA NothingInside ==
  ASSUME NEW s, Encoded(s), NEW i \in 0 .. Len(s), Byte(s, i) = "cont"
  PROVE  Skip(s, i) = i /\ NextToken(s, i).kind = "error"
<1>1. Len(s) \in Nat /\ i \in Nat
  BY ByteFacts
<1>2. Skip(s, i) = i
  BY SkipUnfolds DEF Space, StartsComment
<1>3. NextToken(s, i) = LexOperator(s, i)
  BY QuoteIsNone DEF NextToken, Digits, Letters
<1>4. { o \in Operators : \A k \in DOMAIN o : Byte(s, i + k - 1) = o[k] } = {}
  <2>1. SUFFICES ASSUME NEW o \in Operators, \A k \in DOMAIN o : Byte(s, i + k - 1) = o[k]
                 PROVE  FALSE
    OBVIOUS
  <2>2. Len(o) \in 1 .. 3 /\ DOMAIN o = 1 .. Len(o)
    BY OperatorBytes
  <2>3. 1 \in DOMAIN o
    BY <2>2
  <2>4. Byte(s, i + 1 - 1) = o[1] /\ o[1] # "cont"
    BY <2>1, <2>3, OperatorBytes
  <2>5. i + 1 - 1 = i
    BY <1>1
  <2>. QED BY <2>4, <2>5
<1>5. LexOperator(s, i) = Error(i)
  BY <1>4 DEF LexOperator
<1>. QED BY <1>2, <1>3, <1>5 DEF Error

(* The tokens from an offset on.                                           *)
Tokens(s) ==
  CHOOSE f : f = [i \in 0 .. Len(s) |->
    LET j == Skip(s, i)
    IN  IF j = Len(s) THEN << >>
        ELSE LET t == NextToken(s, j)
             IN  IF t.kind = "error" THEN <<t>> ELSE <<t>> \o f[t.end]]

(* tokenize, one token at a time.                                          *)
LEMMA TokensUnfold ==
  ASSUME NEW s, Encoded(s), NEW i \in 0 .. Len(s)
  PROVE  /\ Tokenize(s) = Tokens(s)[0]
         /\ Tokens(s)[i] =
              LET j == Skip(s, i)
                  t == NextToken(s, j)
              IN  IF j = Len(s) THEN << >>
                  ELSE IF t.kind = "error" THEN <<t>> ELSE <<t>> \o Tokens(s)[t.end]
<1> DEFINE n == Len(s)
           T(k) == NextToken(s, Skip(s, k))
           Value(f, k) == IF Skip(s, k) = n THEN << >>
                          ELSE IF T(k).kind = "error" THEN <<T(k)>> ELSE <<T(k)>> \o f[T(k).end]
           stop == { k \in 0 .. n : Skip(s, k) = n \/ T(k).kind = "error" }
           next == [k \in 0 .. n |-> T(k).end]
           base == [k \in 0 .. n |-> IF Skip(s, k) = n THEN << >> ELSE <<T(k)>>]
           head == [k \in 0 .. n |-> <<T(k)>>]
           scan == Scan(n, stop, base, {}, head, next)
<1>1. n \in Nat
  BY ByteFacts
<1>2. \A k \in 0 .. n : k \notin stop => next[k] \in k + 1 .. n
  <2>1. TAKE k \in 0 .. n
  <2>2. HAVE k \notin stop
  <2>3. Skip(s, k) # n /\ T(k).kind # "error"
    BY <2>2
  <2>4. CASE Byte(s, k) = "cont"
    BY <2>3, <2>4, NothingInside
  <2>5. CASE Byte(s, k) # "cont"
    <3>1. k \in Boundaries(s)
      BY <2>5, ByteFacts
    <3>2. Skip(s, k) \in k .. n /\ Skip(s, k) \in Boundaries(s)
      BY <3>1, SkipFacts
    <3>3. SpanRight(s, Skip(s, k), T(k))
      BY <1>1, <2>3, <3>2, TokenFacts
    <3>4. Skip(s, k) < T(k).end /\ T(k).end \in Boundaries(s)
      BY <2>3, <3>3 DEF SpanRight, Spans
    <3>5. T(k).end \in 0 .. n
      BY <3>4, ByteFacts
    <3>6. next[k] = T(k).end
      OBVIOUS
    <3>. HIDE DEF next, T
    <3>. QED BY <1>1, <3>2, <3>4, <3>5, <3>6
  <2>. QED BY <2>4, <2>5
<1>3. /\ scan = [k \in 0 .. n |-> scan[k]]
      /\ \A k \in 0 .. n : scan[k] = IF k \in stop THEN base[k]
                                     ELSE IF k \in {} THEN scan[next[k]]
                                     ELSE head[k] \o scan[next[k]]
  <2>. HIDE DEF n, stop, next, base, head
  <2>. QED BY <1>1, <1>2, ScanExists
<1>4. Tokens(s) = [k \in 0 .. n |-> Value(Tokens(s), k)]
  <2>. HIDE DEF scan
  <2>1. \A k \in 0 .. n : scan[k] = Value(scan, k)
    BY <1>3
  <2>2. scan = [k \in 0 .. n |-> Value(scan, k)]
    BY <1>3, <2>1
  <2>. QED BY <2>2 DEF Tokens
<1>5. Tokenize(s) = Tokens(s)[0]
  BY DEF Tokenize, Tokens
<1>6. Tokens(s)[i] = Value(Tokens(s), i)
  BY <1>4
<1>. QED BY <1>5, <1>6

(* Tokens are spans of characters, in the order of the text.               *)
LEMMA TokensFacts ==
  ASSUME NEW s, Encoded(s), NEW i \in Boundaries(s)
  PROVE  /\ Tokens(s)[i] \in Seq(Spans(s))
         /\ \A k \in DOMAIN Tokens(s)[i] : i <= Tokens(s)[i][k].at
<1> DEFINE n == Len(s)
           Right(k) == k \in Boundaries(s) =>
                         /\ Tokens(s)[k] \in Seq(Spans(s))
                         /\ \A l \in DOMAIN Tokens(s)[k] : k <= Tokens(s)[k][l].at
           S == { k \in 0 .. n : Right(k) }
<1>1. n \in Nat /\ i \in 0 .. n
  BY ByteFacts
<1>2. ASSUME NEW k \in 0 .. n, \A j \in k + 1 .. n : j \in S
      PROVE  k \in S
  <2>1. SUFFICES ASSUME k \in Boundaries(s)
                 PROVE  /\ Tokens(s)[k] \in Seq(Spans(s))
                        /\ \A l \in DOMAIN Tokens(s)[k] : k <= Tokens(s)[k][l].at
    OBVIOUS
  <2> DEFINE j == Skip(s, k)
             t == NextToken(s, j)
  <2>2. j \in k .. n /\ j \in Boundaries(s)
    BY <2>1, SkipFacts
  <2>3. CASE j = n
    <3>1. Tokens(s)[k] = << >>
      BY <2>3, TokensUnfold
    <3>. QED BY <3>1
  <2>4. CASE j # n
    <3>1. SpanRight(s, j, t)
      BY <1>1, <2>2, <2>4, TokenFacts
    <3>2. t \in Spans(s) /\ k <= t.at
      BY <1>1, <2>2, <3>1, ByteFacts DEF SpanRight, Spans
    <3>. HIDE DEF t
    <3>3. CASE t.kind = "error"
      <4>1. Tokens(s)[k] = <<t>>
        BY <2>4, <3>3, TokensUnfold DEF t
      <4>. QED BY <3>2, <4>1
    <3>4. CASE t.kind # "error"
      <4> DEFINE rest == Tokens(s)[t.end]
      <4>1. Tokens(s)[k] = <<t>> \o rest
        BY <2>4, <3>4, TokensUnfold DEF t
      <4>2. t.end \in k + 1 .. n /\ t.end \in Boundaries(s)
        BY <1>1, <2>2, <3>1, <3>4, ByteFacts DEF SpanRight, Spans
      <4>3. rest \in Seq(Spans(s)) /\ \A l \in DOMAIN rest : t.end <= rest[l].at
        BY <1>2, <4>2
      <4>. HIDE DEF rest
      <4>4. <<t>> \in Seq(Spans(s)) /\ Len(<<t>>) = 1
        BY <3>2
      <4>5. <<t>> \o rest \in Seq(Spans(s))
        BY <4>3, <4>4
      <4>6. ASSUME NEW l \in DOMAIN (<<t>> \o rest)
            PROVE  k <= (<<t>> \o rest)[l].at
        <5>1. CASE l = 1
          BY <3>2, <4>3, <4>4, <5>1
        <5>2. CASE l # 1
          <6>1. l - 1 \in DOMAIN rest /\ (<<t>> \o rest)[l] = rest[l - 1]
            BY <4>3, <4>4, <5>2
          <6>2. rest[l - 1].at \in Boundaries(s)
            <7>1. rest[l - 1] \in Spans(s)
              BY <4>3, <6>1
            <7>. QED BY <7>1 DEF Spans
          <6>3. rest[l - 1].at \in 0 .. n
            BY <6>2, ByteFacts
          <6>4. t.end <= rest[l - 1].at
            BY <4>3, <6>1
          <6>5. k <= rest[l - 1].at
            BY <1>1, <4>2, <6>3, <6>4
          <6>. QED BY <6>1, <6>5
        <5>. QED BY <5>1, <5>2
      <4>. QED BY <4>1, <4>5, <4>6
    <3>. QED BY <3>3, <3>4
  <2>. QED BY <2>3, <2>4
<1>3. \A k \in 0 .. n : k \in S
  <2>. HIDE DEF S
  <2>. QED BY <1>1, <1>2, Backwards
<1>. QED BY <1>1, <1>3

---------------------------------------------------------------------------
(* The scan for comments                                                   *)

(* Where the string around an offset ends, one byte at a time.             *)
LEMMA StringEndUnfolds ==
  ASSUME NEW s, Encoded(s), NEW i \in 0 .. Len(s) + 1
  PROVE  StringEnd(s, i) = IF Byte(s, i) \in {Quote, "none"} THEN i + 1
                           ELSE IF Byte(s, i) = "\\" THEN StringEnd(s, i + 2)
                           ELSE StringEnd(s, i + 1)
<1> DEFINE n == Len(s) + 1
           Value(f, k) == IF Byte(s, k) \in {Quote, "none"} THEN k + 1
                          ELSE IF Byte(s, k) = "\\" THEN f[k + 2] ELSE f[k + 1]
           end == CHOOSE f : f = [k \in 0 .. n |-> Value(f, k)]
           stop == { k \in 0 .. n : Byte(s, k) \in {Quote, "none"} }
           next == [k \in 0 .. n |-> IF Byte(s, k) = "\\" THEN k + 2 ELSE k + 1]
           base == [k \in 0 .. n |-> k + 1]
           scan == Scan(n, stop, base, 0 .. n, base, next)
<1>1. n \in Nat /\ Len(s) \in Nat
  BY ByteFacts
<1>2. \A k \in 0 .. n : k \notin stop => next[k] \in k + 1 .. n
  <2>1. TAKE k \in 0 .. n
  <2>2. HAVE k \notin stop
  <2>3. k \in Nat /\ Byte(s, k) # "none"
    BY <1>1, <2>2
  <2>4. k < Len(s)
    BY <1>1, <2>3, ByteFacts
  <2>. QED BY <1>1, <2>3, <2>4
<1>3. /\ scan = [k \in 0 .. n |-> scan[k]]
      /\ \A k \in 0 .. n : scan[k] = IF k \in stop THEN base[k]
                                     ELSE IF k \in 0 .. n THEN scan[next[k]]
                                     ELSE base[k] \o scan[next[k]]
  <2>. HIDE DEF n, stop, next, base
  <2>. QED BY <1>1, <1>2, ScanExists
<1>4. end = [k \in 0 .. n |-> Value(end, k)]
  <2>. HIDE DEF scan
  <2>1. \A k \in 0 .. n : scan[k] = Value(scan, k)
    BY <1>3
  <2>2. scan = [k \in 0 .. n |-> Value(scan, k)]
    BY <1>3, <2>1
  <2>. QED BY <2>2
<1>5. \A k : StringEnd(s, k) = end[k]
  BY DEF StringEnd
<1>. HIDE DEF end
<1>6. end[i] = Value(end, i)
  BY <1>4
<1>. QED BY <1>5, <1>6

LEMMA StringEndFacts ==
  ASSUME NEW s, Encoded(s), NEW i \in 0 .. Len(s) + 1
  PROVE  StringEnd(s, i) \in i + 1 .. Len(s) + 2
<1> DEFINE n == Len(s) + 1
           S == { k \in 0 .. n : StringEnd(s, k) \in k + 1 .. n + 1 }
<1>1. n \in Nat /\ Len(s) \in Nat
  BY ByteFacts
<1>2. ASSUME NEW k \in 0 .. n, \A j \in k + 1 .. n : j \in S
      PROVE  k \in S
  <2>1. CASE Byte(s, k) \in {Quote, "none"}
    <3>1. StringEnd(s, k) = k + 1
      BY <2>1, StringEndUnfolds
    <3>. QED BY <1>1, <3>1
  <2>2. CASE Byte(s, k) \notin {Quote, "none"}
    <3>1. k < Len(s)
      BY <1>1, <2>2, ByteFacts
    <3>2. PICK j \in {k + 1, k + 2} : StringEnd(s, k) = StringEnd(s, j)
      BY <2>2, StringEndUnfolds
    <3>3. j \in k + 1 .. n
      BY <1>1, <3>1
    <3>4. j \in S
      BY <1>2, <3>3
    <3>. QED BY <1>1, <3>2, <3>3, <3>4
  <2>. QED BY <2>1, <2>2
<1>3. \A k \in 0 .. n : k \in S
  <2>. HIDE DEF S
  <2>. QED BY <1>1, <1>2, Backwards
<1>. QED BY <1>1, <1>3

(* The comments found from an offset on.                                   *)
Found(s) ==
  CHOOSE f : f = [i \in 0 .. Len(s) + 2 |->
    IF Byte(s, i) = "none" THEN << >>
    ELSE IF StartsComment(s, i) THEN <<[at |-> i, end |-> LineEnd(s, i)]>> \o f[LineEnd(s, i)]
    ELSE IF Byte(s, i) = Quote THEN f[StringEnd(s, i + 1)]
    ELSE f[i + 1]]

(* collect_comments, one step of the loop at a time.                       *)
LEMMA FoundUnfolds ==
  ASSUME NEW s, Encoded(s), NEW i \in 0 .. Len(s) + 2
  PROVE  /\ Comments(s) = Found(s)[0]
         /\ Found(s)[i] =
              IF Byte(s, i) = "none" THEN << >>
              ELSE IF StartsComment(s, i)
                THEN <<[at |-> i, end |-> LineEnd(s, i)]>> \o Found(s)[LineEnd(s, i)]
              ELSE IF Byte(s, i) = Quote THEN Found(s)[StringEnd(s, i + 1)]
              ELSE Found(s)[i + 1]
<1> DEFINE n == Len(s) + 2
           Value(f, k) ==
             IF Byte(s, k) = "none" THEN << >>
             ELSE IF StartsComment(s, k)
               THEN <<[at |-> k, end |-> LineEnd(s, k)]>> \o f[LineEnd(s, k)]
             ELSE IF Byte(s, k) = Quote THEN f[StringEnd(s, k + 1)]
             ELSE f[k + 1]
           stop == { k \in 0 .. n : Byte(s, k) = "none" }
           quiet == { k \in 0 .. n : ~ StartsComment(s, k) }
           next == [k \in 0 .. n |-> IF StartsComment(s, k) THEN LineEnd(s, k)
                                     ELSE IF Byte(s, k) = Quote THEN StringEnd(s, k + 1)
                                     ELSE k + 1]
           base == [k \in 0 .. n |-> << >>]
           head == [k \in 0 .. n |-> <<[at |-> k, end |-> LineEnd(s, k)]>>]
           scan == Scan(n, stop, base, quiet, head, next)
<1>1. n \in Nat /\ Len(s) \in Nat
  BY ByteFacts
<1>2. \A k \in 0 .. n : k \notin stop => next[k] \in k + 1 .. n
  <2>1. TAKE k \in 0 .. n
  <2>2. HAVE k \notin stop
  <2>3. k \in Nat /\ Byte(s, k) # "none"
    BY <1>1, <2>2
  <2>4. k < Len(s)
    BY <1>1, <2>3, ByteFacts
  <2>5. CASE StartsComment(s, k)
    <3>1. LineEnd(s, k) \in k .. Len(s) /\ Byte(s, LineEnd(s, k)) \in {"\n", "none"}
      BY <1>1, <2>4, LineEnds
    <3>2. LineEnd(s, k) # k
      BY <2>5, <3>1 DEF StartsComment
    <3>. QED BY <1>1, <2>5, <3>1, <3>2
  <2>6. CASE ~ StartsComment(s, k) /\ Byte(s, k) = Quote
    <3>1. StringEnd(s, k + 1) \in k + 1 + 1 .. Len(s) + 2
      BY <1>1, <2>4, StringEndFacts
    <3>. QED BY <1>1, <2>6, <3>1
  <2>7. CASE ~ StartsComment(s, k) /\ Byte(s, k) # Quote
    BY <1>1, <2>4, <2>7
  <2>. QED BY <2>5, <2>6, <2>7
<1>3. /\ scan = [k \in 0 .. n |-> scan[k]]
      /\ \A k \in 0 .. n : scan[k] = IF k \in stop THEN base[k]
                                     ELSE IF k \in quiet THEN scan[next[k]]
                                     ELSE head[k] \o scan[next[k]]
  <2>. HIDE DEF n, stop, quiet, next, base, head
  <2>. QED BY <1>1, <1>2, ScanExists
<1>4. Found(s) = [k \in 0 .. n |-> Value(Found(s), k)]
  <2>. HIDE DEF scan
  <2>1. \A k \in 0 .. n : scan[k] = Value(scan, k)
    BY <1>3
  <2>2. scan = [k \in 0 .. n |-> Value(scan, k)]
    BY <1>3, <2>1
  <2>. QED BY <2>2 DEF Found
<1>5. Comments(s) = Found(s)[0]
  BY DEF Comments, Found
<1>6. Found(s)[i] = Value(Found(s), i)
  BY <1>4
<1>. QED BY <1>5, <1>6

(* Comments are spans of characters.                                       *)
Places(s) == [at : Boundaries(s), end : Boundaries(s)]

LEMMA CommentStarts ==
  ASSUME NEW s, Encoded(s), NEW i \in Nat, StartsComment(s, i)
  PROVE  /\ i \in 0 .. Len(s) - 1 /\ i \in Boundaries(s)
         /\ LineEnd(s, i) \in i + 1 .. Len(s) /\ LineEnd(s, i) \in Boundaries(s)
<1>1. Len(s) \in Nat /\ Byte(s, i) \notin {"none", "cont"}
  BY ByteFacts DEF StartsComment
<1>2. i < Len(s)
  BY <1>1, ByteFacts
<1>3. i \in 0 .. Len(s)
  BY <1>1, <1>2
<1>4. i \in Boundaries(s)
  BY <1>1, <1>3, ByteFacts
<1>5. /\ LineEnd(s, i) \in i .. Len(s) /\ LineEnd(s, i) \in Boundaries(s)
      /\ Byte(s, LineEnd(s, i)) \in {"\n", "none"}
  BY <1>3, LineEnds
<1>6. LineEnd(s, i) # i
  BY <1>5 DEF StartsComment
<1>. QED BY <1>1, <1>2, <1>3, <1>4, <1>5, <1>6

LEMMA FoundFacts ==
  ASSUME NEW s, Encoded(s), NEW i \in 0 .. Len(s) + 2
  PROVE  Found(s)[i] \in Seq(Places(s))
<1> DEFINE n == Len(s) + 2
           S == { k \in 0 .. n : Found(s)[k] \in Seq(Places(s)) }
<1>1. n \in Nat /\ Len(s) \in Nat
  BY ByteFacts
<1>2. ASSUME NEW k \in 0 .. n, \A j \in k + 1 .. n : j \in S
      PROVE  k \in S
  <2>1. CASE Byte(s, k) = "none"
    <3>1. Found(s)[k] = << >>
      BY <2>1, FoundUnfolds
    <3>2. << >> \in Seq(Places(s))
      OBVIOUS
    <3>. QED BY <3>1, <3>2
  <2>2. CASE Byte(s, k) # "none" /\ StartsComment(s, k)
    <3> DEFINE c == [at |-> k, end |-> LineEnd(s, k)]
               rest == Found(s)[LineEnd(s, k)]
    <3>1. Found(s)[k] = <<c>> \o rest
      BY <2>2, FoundUnfolds
    <3>2. /\ k \in Boundaries(s)
          /\ LineEnd(s, k) \in k + 1 .. Len(s) /\ LineEnd(s, k) \in Boundaries(s)
      BY <2>2, CommentStarts
    <3>3. c \in Places(s)
      BY <3>2 DEF Places
    <3>4. rest \in Seq(Places(s))
      BY <1>1, <1>2, <3>2
    <3>. HIDE DEF c, rest
    <3>5. <<c>> \o rest \in Seq(Places(s))
      BY <3>3, <3>4
    <3>. QED BY <3>1, <3>5
  <2>3. CASE Byte(s, k) # "none" /\ ~ StartsComment(s, k)
    <3>1. k < Len(s)
      BY <1>1, <2>3, ByteFacts
    <3>2. StringEnd(s, k + 1) \in k + 1 + 1 .. n
      BY <1>1, <3>1, StringEndFacts
    <3>3. PICK j \in {k + 1, StringEnd(s, k + 1)} : Found(s)[k] = Found(s)[j]
      BY <2>3, FoundUnfolds
    <3>4. j \in k + 1 .. n
      BY <1>1, <3>1, <3>2
    <3>5. j \in S
      BY <1>2, <3>4
    <3>. QED BY <3>3, <3>5
  <2>. QED BY <2>1, <2>2, <2>3
<1>3. \A k \in 0 .. n : k \in S
  <2>. HIDE DEF S
  <2>. QED BY <1>1, <1>2, Backwards
<1>. QED BY <1>3

---------------------------------------------------------------------------
(* The document                                                            *)

(* Tokens and comments of a text, all at once.                             *)
LEMMA SpansOfText ==
  ASSUME NEW s, Encoded(s)
  PROVE  /\ Tokenize(s) \in Seq(Spans(s)) /\ Comments(s) \in Seq(Places(s))
         /\ \A t \in ToSet(Tokenize(s)) \cup ToSet(Comments(s)) :
              t.at \in Boundaries(s) /\ t.end \in Boundaries(s)
<1>1. Len(s) \in Nat /\ 0 \in 0 .. Len(s) /\ 0 \in 0 .. Len(s) + 2 /\ 0 \in Boundaries(s)
  BY ByteFacts
<1>2. Tokenize(s) \in Seq(Spans(s))
  BY <1>1, TokensUnfold, TokensFacts
<1>3. Comments(s) \in Seq(Places(s))
  BY <1>1, FoundUnfolds, FoundFacts
<1>4. \A t \in ToSet(Tokenize(s)) : t \in Spans(s)
  BY <1>2 DEF ToSet
<1>5. \A t \in ToSet(Comments(s)) : t \in Places(s)
  BY <1>3 DEF ToSet
<1>6. \A t \in Spans(s) \cup Places(s) : t.at \in Boundaries(s) /\ t.end \in Boundaries(s)
  BY DEF Spans, Places
<1>. QED BY <1>2, <1>3, <1>4, <1>5, <1>6

(* A diagnostic is at a position, if there is one.                         *)
Shown(d) == d = NoDiagnostic \/ (d.line \in Nat /\ d.character \in Nat)

LEMMA DiagnosticShown ==
  ASSUME NEW s, Encoded(s)
  PROVE  Shown(Diagnostic(s))
<1>1. CASE Lexes(s)
  BY <1>1 DEF Diagnostic, Shown
<1>2. CASE ~ Lexes(s)
  <2> DEFINE toks == Tokenize(s)
             o == toks[Len(toks)].at
  <2>1. toks \in Seq(Spans(s)) /\ toks # << >>
    BY <1>2, SpansOfText DEF Lexes
  <2>2. toks[Len(toks)] \in Spans(s)
    <3>. HIDE DEF toks
    <3>1. Len(toks) \in 1 .. Len(toks)
      BY <2>1
    <3>. QED BY <2>1, <3>1
  <2>3. o \in Boundaries(s)
    BY <2>2 DEF Spans
  <2>4. o \in Nat
    BY <2>3, ByteFacts
  <2>5. Diagnostic(s) = OffsetToPosition(s, o)
    BY <1>2 DEF Diagnostic
  <2>. HIDE DEF o
  <2>6. LineOf(s, o) \in Nat /\ o - LineStart(s, o) \in Nat
    <3>1. LineStart(s, o) \in 0 .. o /\ LineOf(s, o) \in Nat
      BY <2>4, PositionFacts
    <3>. QED BY <2>4, <3>1
  <2>. QED BY <2>5, <2>6 DEF OffsetToPosition, Shown
<1>. QED BY <1>1, <1>2

Texts == UNION { [1 .. n -> Chars] : n \in 0 .. MaxChars }

LEMMA TextFacts ==
  /\ << >> \in Texts
  /\ \A c \in Chars : <<c>> \in Texts
  /\ \A cs \in Texts : cs \in Seq(Chars) /\ Encoded(Bytes(cs))
  /\ \A cs \in Texts, c \in Chars : Len(cs) < MaxChars => Append(cs, c) \in Texts
<1>1. MaxChars \in Nat \ {0}
  BY EditorAssumption
<1>2. << >> \in Texts
  <2>1. << >> \in [1 .. 0 -> Chars] /\ 0 \in 0 .. MaxChars
    BY <1>1
  <2>. QED BY <2>1 DEF Texts
<1>3. ASSUME NEW c \in Chars
      PROVE  <<c>> \in Texts
  <2>1. <<c>> \in [1 .. 1 -> Chars] /\ 1 \in 0 .. MaxChars
    BY <1>1
  <2>. QED BY <2>1 DEF Texts
<1>4. ASSUME NEW cs \in Texts
      PROVE  cs \in Seq(Chars) /\ Encoded(Bytes(cs))
  <2>1. cs \in Seq(Chars)
    BY <1>1 DEF Texts
  <2>. QED BY <2>1, BytesEncoded
<1>5. ASSUME NEW cs \in Texts, NEW c \in Chars, Len(cs) < MaxChars
      PROVE  Append(cs, c) \in Texts
  <2>1. cs \in Seq(Chars) /\ Len(cs) \in Nat
    BY <1>4
  <2>2. Append(cs, c) \in [1 .. Len(cs) + 1 -> Chars]
    <3>1. Append(cs, c) \in Seq(Chars) /\ Len(Append(cs, c)) = Len(cs) + 1
      BY <2>1
    <3> DEFINE longer == Append(cs, c)
    <3>. HIDE DEF longer
    <3>2. longer \in [1 .. Len(longer) -> Chars]
      BY <3>1, LenProperties DEF longer
    <3>. QED BY <3>1, <3>2 DEF longer
  <2>3. Len(cs) + 1 \in 0 .. MaxChars
    BY <1>1, <1>5, <2>1
  <2>. QED BY <2>2, <2>3 DEF Texts
<1>. QED BY <1>2, <1>3, <1>4, <1>5

LEMMA TypeIs ==
  EditorTypeOK <=> /\ open \in BOOLEAN
                   /\ source \in Texts
                   /\ Shown(shown)
                   /\ ~ open => source = << >> /\ shown = NoDiagnostic
BY DEF EditorTypeOK, Texts, Shown

LEMMA InitTyped == EInit => EditorTypeOK
BY TextFacts, TypeIs DEF EInit, Shown

LEMMA NextTyped == EditorTypeOK /\ [ENext]_evars => EditorTypeOK'
<1>. SUFFICES ASSUME EditorTypeOK, [ENext]_evars
              PROVE  EditorTypeOK'
  OBVIOUS
<1>0. Shown(NoDiagnostic)
  BY DEF Shown
<1>1. CASE DidOpen
  <2>1. PICK c \in {<< >>} \cup { <<x>> : x \in Chars } : source' = c /\ shown' = Diagnostic(Bytes(c))
    BY <1>1 DEF DidOpen
  <2>2. c \in Texts
    BY <2>1, TextFacts
  <2>3. Shown(Diagnostic(Bytes(c)))
    BY <2>2, TextFacts, DiagnosticShown
  <2>. QED BY <1>1, <2>1, <2>2, <2>3 DEF DidOpen, EditorTypeOK, Texts, Shown
<1>2. CASE DidChange
  <2>1. PICK c \in Chars : source' = Append(source, c) /\ shown' = Diagnostic(Bytes(Append(source, c)))
    BY <1>2 DEF DidChange
  <2>2. Append(source, c) \in Texts
    BY <1>2, <2>1, TypeIs, TextFacts DEF DidChange
  <2>3. Shown(Diagnostic(Bytes(Append(source, c))))
    BY <2>2, TextFacts, DiagnosticShown
  <2>. QED BY <1>2, <2>1, <2>2, <2>3 DEF DidChange, EditorTypeOK, Texts, Shown
<1>3. CASE DidClose
  <2>1. open' = FALSE /\ source' = << >> /\ shown' = NoDiagnostic
    BY <1>3 DEF DidClose
  <2>2. << >> \in Texts
    BY TextFacts
  <2>. QED BY <1>0, <2>1, <2>2 DEF EditorTypeOK, Texts, Shown
<1>4. CASE UNCHANGED evars
  BY <1>4 DEF evars, EditorTypeOK
<1>. QED BY <1>1, <1>2, <1>3, <1>4 DEF ENext

(* The state has its shape; in particular a text that does not lex has an  *)
(* error to show, at a line and a column that exist as unsigned integers   *)
(* (publish_diagnostics, offset_to_line_col).                              *)
THEOREM EditorTypeCorrect == ESpec => []EditorTypeOK
BY InitTyped, NextTyped, PTL DEF ESpec

LEMMA SourceEncoded == EditorTypeOK => Encoded(Source)
BY TypeIs, TextFacts DEF Source

(* In every text, the position the server reports for an offset between    *)
(* two characters is taken back for that offset (position_to_offset,       *)
(* offset_to_line_col).                                                    *)
THEOREM RoundTripsAlways == ESpec => []PositionsRoundTrip
<1>1. EditorTypeOK => PositionsRoundTrip
  BY SourceEncoded, RoundTrip DEF PositionsRoundTrip
<1>. QED BY <1>1, EditorTypeCorrect, PTL

---------------------------------------------------------------------------
(* Slices                                                                  *)

(* The word around an offset between characters begins and ends there too. *)
LEMMA WordFacts ==
  ASSUME NEW s, Encoded(s), NEW o \in Boundaries(s)
  PROVE  WordAt(s, o).from \in Boundaries(s) /\ WordAt(s, o).to \in Boundaries(s)
<1> DEFINE Before(i) == /\ \A k \in i .. o - 1 : Byte(s, k) \in Word
                        /\ i > 0 => Byte(s, i - 1) \notin Word
           from == CHOOSE i \in 0 .. o : Before(i)
           Starts == { i \in 0 .. o : \A k \in i .. o - 1 : Byte(s, k) \in Word }
<1>1. Len(s) \in Nat /\ o \in 0 .. Len(s)
  BY ByteFacts
<1>2. \E i \in 0 .. o : Before(i)
  <2>1. Starts \subseteq Nat /\ o \in Starts
    BY <1>1
  <2>2. PICK i \in Starts : \A j \in Starts : i <= j
    <3>. HIDE DEF Starts
    <3>. QED BY <2>1, LeastElement
  <2>3. i > 0 => Byte(s, i - 1) \notin Word
    <3>1. SUFFICES ASSUME i > 0, Byte(s, i - 1) \in Word
                   PROVE  FALSE
      OBVIOUS
    <3>2. i - 1 \in 0 .. o /\ \A k \in i - 1 .. o - 1 : Byte(s, k) \in Word
      BY <1>1, <2>2, <3>1
    <3>3. i - 1 \in Starts /\ ~ (i <= i - 1)
      BY <1>1, <3>2
    <3>. HIDE DEF Starts
    <3>. QED BY <2>2, <3>3
  <2>. QED BY <2>2, <2>3
<1>3. from \in 0 .. o /\ Before(from)
  <2>. HIDE DEF Before
  <2>. QED BY <1>2
<1>4. WordAt(s, o).from = from /\ WordAt(s, o).to = Run(s, o, Word)
  BY DEF WordAt
<1>. HIDE DEF from
<1>5. from \in Boundaries(s)
  <2>1. CASE from = o
    BY <2>1
  <2>2. CASE from # o
    <3>1. Byte(s, from) \in Word
      BY <1>1, <1>3, <2>2
    <3>2. Byte(s, from) # "cont"
      BY <3>1, WordBytes
    <3>3. from \in 0 .. Len(s)
      BY <1>1, <1>3
    <3>. QED BY <3>2, <3>3, ByteFacts
  <2>. QED BY <2>1, <2>2
<1>6. Run(s, o, Word) \in Boundaries(s)
  BY WordBytes, RunEnds
<1>. QED BY <1>4, <1>5, <1>6

LEMMA OffsetFacts ==
  ASSUME NEW s, Encoded(s), NEW p
  PROVE  PositionToOffset(s, p) \in Boundaries(s)
<1> DEFINE found == { i \in CharStarts(s) : LineOf(s, i) = p.line /\ i - LineStart(s, i) >= p.character }
<1>1. Len(s) \in Boundaries(s) /\ CharStarts(s) \subseteq Boundaries(s) /\ Boundaries(s) \subseteq 0 .. Len(s)
      /\ Len(s) \in Nat
  BY ByteFacts DEF Boundaries
<1>2. CASE found = {}
  BY <1>1, <1>2 DEF PositionToOffset
<1>3. CASE found # {}
  <2>1. found \subseteq Nat /\ found \subseteq Boundaries(s)
    BY <1>1
  <2>2. PositionToOffset(s, p) = Min(found)
    BY <1>3 DEF PositionToOffset
  <2>. HIDE DEF found
  <2>3. PICK x \in found : \A y \in found : x <= y
    BY <1>3, <2>1, LeastElement
  <2>4. \E y \in found : \A z \in found : y =< z
    BY <2>3
  <2>5. Min(found) \in found
    BY <2>4 DEF Min
  <2>. QED BY <2>1, <2>2, <2>5
<1>. QED BY <1>2, <1>3

(* Whatever is asked of whatever text, the server slices the text between  *)
(* characters: no request can end it (position_to_offset, word_at_offset,  *)
(* collect_comments, tokenize).                                            *)
THEOREM SlicesAreWhole == ESpec => []NothingInsideACharacter
<1>1. ASSUME EditorTypeOK
      PROVE  NothingInsideACharacter
  <2> DEFINE s == Source
             spans == ToSet(Tokenize(s)) \cup ToSet(Comments(s))
             asked == { PositionToOffset(s, [line |-> l, character |-> c]) :
                          l \in 0 .. LineOf(s, Len(s)) + 1, c \in 0 .. Len(s) + 1 }
             words == { WordAt(s, o) : o \in asked }
  <2>1. Encoded(s)
    BY <1>1, SourceEncoded
  <2>. HIDE DEF s
  <2>2. ASSUME NEW o \in asked
        PROVE  o \in Boundaries(s)
    <3>1. PICK l \in 0 .. LineOf(s, Len(s)) + 1, c \in 0 .. Len(s) + 1 :
            o = PositionToOffset(s, [line |-> l, character |-> c])
      OBVIOUS
    <3>. QED BY <2>1, <3>1, OffsetFacts
  <2>3. \A t \in spans : t.at \in Boundaries(s) /\ t.end \in Boundaries(s)
    BY <2>1, SpansOfText
  <2>4. \A w \in words : w.from \in Boundaries(s) /\ w.to \in Boundaries(s)
    <3>. HIDE DEF asked
    <3>. QED BY <2>1, <2>2, WordFacts
  <2>5. asked \cup { t.at : t \in spans } \cup { t.end : t \in spans }
          \cup { w.from : w \in words } \cup { w.to : w \in words } \subseteq Boundaries(s)
    <3>. HIDE DEF asked, spans, words
    <3>. QED BY <2>2, <2>3, <2>4
  <2>. QED BY <2>5 DEF NothingInsideACharacter, s
<1>. QED BY <1>1, EditorTypeCorrect, PTL

---------------------------------------------------------------------------
(* Delta encoding                                                          *)

(* The k-th smallest of a finite set of numbers exists.                    *)
Rank(S, x) == Cardinality({ y \in S : y < x })

LEMMA RankExists ==
  ASSUME NEW S, S \subseteq Nat, IsFiniteSet(S), NEW k \in 1 .. Cardinality(S)
  PROVE  \E x \in S : Rank(S, x) = k - 1
<1>1. Cardinality(S) \in Nat
  BY FS_CardinalityType
<1> DEFINE Bad == { j \in 1 .. Cardinality(S) : \A x \in S : Rank(S, x) # j - 1 }
<1>2. SUFFICES ASSUME Bad # {}
               PROVE  FALSE
  OBVIOUS
<1>3. PICK j \in Bad : \A i \in Bad : j <= i
  <2>1. Bad \subseteq Nat
    BY <1>1
  <2>. HIDE DEF Bad
  <2>. QED BY <1>2, <2>1, LeastElement
<1>4. j \in 1 .. Cardinality(S) /\ \A x \in S : Rank(S, x) # j - 1
  BY <1>3
<1>5. PICK L \in SUBSET S : /\ Cardinality(L) = j - 1
                            /\ \A x \in L, y \in S \ L : x < y
  <2>1. CASE j = 1
    <3>1. {} \in SUBSET S /\ Cardinality({}) = j - 1
      BY <2>1, FS_EmptySet
    <3>. QED BY <3>1
  <2>2. CASE j # 1
    <3>1. j - 1 \in 1 .. Cardinality(S) /\ j - 1 \notin Bad
      BY <1>1, <1>3, <1>4, <2>2
    <3>2. PICK x \in S : Rank(S, x) = (j - 1) - 1
      BY <3>1
    <3> DEFINE A == { y \in S : y < x }
               L == A \cup {x}
    <3>3. IsFiniteSet(A) /\ x \notin A
      <4>1. A \in SUBSET S /\ x \in Nat
        OBVIOUS
      <4>. QED BY <4>1, FS_Subset
    <3>4. Cardinality(L) = Cardinality(A) + 1
      BY <3>3, FS_AddElement
    <3>5. Cardinality(A) = (j - 1) - 1 /\ j \in Nat
      BY <1>1, <1>4, <3>2 DEF Rank
    <3>6. \A y \in L, z \in S \ L : y < z
      OBVIOUS
    <3>7. L \in SUBSET S
      OBVIOUS
    <3>. QED BY <3>4, <3>5, <3>6, <3>7
  <2>. QED BY <2>1, <2>2
<1>6. S \ L # {}
  <2>1. SUFFICES ASSUME S \ L = {}
                 PROVE  FALSE
    OBVIOUS
  <2>2. L = S
    BY <2>1
  <2>. QED BY <1>1, <1>4, <1>5, <2>2
<1>7. PICK x \in S \ L : \A y \in S \ L : x <= y
  <2>1. S \ L \subseteq Nat
    OBVIOUS
  <2>. QED BY <1>6, <2>1, LeastElement
<1>8. { y \in S : y < x } = L
  <2>1. \A y \in S : y \in Nat /\ x \in Nat
    OBVIOUS
  <2>2. \A y \in S \ L : ~ (y < x)
    BY <1>7, <2>1
  <2>. QED BY <1>5, <2>2
<1>9. Rank(S, x) = j - 1
  BY <1>5, <1>8 DEF Rank
<1>. QED BY <1>4, <1>9

(* The tokens' offsets, in order.                                          *)
LEMMA RawFacts ==
  ASSUME NEW s, Encoded(s)
  PROVE  \E n \in Nat :
           /\ Raw(s) \in [1 .. n -> 0 .. Len(s)]
           /\ \A k \in 2 .. n : Raw(s)[k - 1] < Raw(s)[k]
<1> DEFINE ats == { t.at : t \in ToSet(Comments(s)) \cup ToSet(Tokenize(s)) }
           n == Cardinality(ats)
<1>1. Len(s) \in Nat
  BY ByteFacts
<1>2. ats \subseteq 0 .. Len(s)
  BY SpansOfText, ByteFacts
<1>3. Raw(s) = [k \in 1 .. n |-> CHOOSE x \in ats : Rank(ats, x) = k - 1]
  BY DEF Raw, Rank
<1>. HIDE DEF ats
<1>4. IsFiniteSet(ats) /\ ats \subseteq Nat
  <2>1. IsFiniteSet(0 .. Len(s)) /\ ats \in SUBSET (0 .. Len(s))
    BY <1>1, <1>2, FS_Interval
  <2>2. IsFiniteSet(ats)
    BY <2>1, FS_Subset
  <2>3. \A x \in ats : x \in Nat
    BY <1>1, <1>2
  <2>. QED BY <2>2, <2>3
<1>5. n \in Nat
  BY <1>4, FS_CardinalityType
<1>6. ASSUME NEW k \in 1 .. n
      PROVE  Raw(s)[k] \in ats /\ Rank(ats, Raw(s)[k]) = k - 1
  <2>1. \E x \in ats : Rank(ats, x) = k - 1
    BY <1>4, RankExists
  <2>. QED BY <1>3, <2>1
<1>7. Raw(s) \in [1 .. n -> 0 .. Len(s)]
  <2>1. Raw(s) = [k \in 1 .. n |-> Raw(s)[k]]
    BY <1>3
  <2>. QED BY <1>2, <1>6, <2>1
<1>8. ASSUME NEW k \in 2 .. n
      PROVE  Raw(s)[k - 1] < Raw(s)[k]
  <2> DEFINE a == Raw(s)[k - 1]
             b == Raw(s)[k]
  <2>1. k - 1 \in 1 .. n /\ k \in 1 .. n
    BY <1>5
  <2>2. a \in ats /\ b \in ats /\ Rank(ats, a) = (k - 1) - 1 /\ Rank(ats, b) = k - 1
    BY <1>6, <2>1
  <2>. HIDE DEF a, b
  <2>3. SUFFICES ASSUME ~ (a < b)
                 PROVE  FALSE
    BY DEF a, b
  <2>4. a \in Nat /\ b \in Nat /\ b <= a
    BY <1>4, <2>2, <2>3
  <2>5. { y \in ats : y < b } \subseteq { y \in ats : y < a }
    <3>1. \A y \in ats : y \in Nat /\ (y < b => y < a)
      BY <1>4, <2>4
    <3>. QED BY <3>1
  <2>6. IsFiniteSet({ y \in ats : y < a })
    BY <1>4, FS_Subset
  <2>7. Rank(ats, b) <= Rank(ats, a)
    BY <2>5, <2>6, FS_Subset DEF Rank
  <2>. QED BY <1>5, <2>1, <2>2, <2>7
<1>. QED BY <1>5, <1>7, <1>8

(* What the deltas are relative to: the start of the text, then each token.*)
Pos(s, i) == IF i = 0 THEN [line |-> 0, character |-> 0] ELSE OffsetToPosition(s, Raw(s)[i])

(* Positions do not go backwards, so that no delta is negative.            *)
LEMMA DeltaFacts ==
  ASSUME NEW s, Encoded(s), NEW n \in Nat, Raw(s) \in [1 .. n -> 0 .. Len(s)],
         \A k \in 2 .. n : Raw(s)[k - 1] < Raw(s)[k], NEW i \in 1 .. n
  PROVE  LET d == Deltas(s, Raw(s))[i]
         IN  /\ d.line \in Nat /\ d.start \in Nat
             /\ Pos(s, i) = [line |-> Pos(s, i - 1).line + d.line,
                             character |-> d.start + IF d.line = 0 THEN Pos(s, i - 1).character ELSE 0]
<1> DEFINE d == Deltas(s, Raw(s))[i]
           o == Raw(s)[i]
           prev == Pos(s, i - 1)
<1>1. Len(s) \in Nat /\ o \in 0 .. Len(s) /\ o \in Nat
  BY ByteFacts
<1>2. /\ LineOf(s, o) \in Nat /\ LineStart(s, o) \in 0 .. o
      /\ Pos(s, i) = [line |-> LineOf(s, o), character |-> o - LineStart(s, o)]
  BY <1>1, PositionFacts DEF Pos, OffsetToPosition
<1>3. /\ prev.line \in Nat /\ prev.character \in Nat
      /\ prev.line <= LineOf(s, o)
      /\ prev.line = LineOf(s, o) => prev.character <= o - LineStart(s, o)
  <2>1. CASE i = 1
    <3>1. prev = [line |-> 0, character |-> 0]
      BY <2>1 DEF Pos
    <3>. QED BY <1>1, <1>2, <3>1
  <2>2. CASE i # 1
    <3> DEFINE q == Raw(s)[i - 1]
    <3>1. i - 1 \in 1 .. n /\ i \in 2 .. n
      BY <2>2
    <3>2. q \in Nat /\ q < o
      BY <1>1, <3>1
    <3>3. prev = [line |-> LineOf(s, q), character |-> q - LineStart(s, q)]
      BY <3>1 DEF Pos, OffsetToPosition
    <3>. HIDE DEF q, o
    <3>4. LineOf(s, q) \in Nat /\ LineStart(s, q) \in 0 .. q
      BY <3>2, PositionFacts
    <3>5. /\ LineOf(s, q) <= LineOf(s, o)
          /\ LineOf(s, q) = LineOf(s, o) => LineStart(s, q) = LineStart(s, o)
      BY <1>1, <3>2, LinesInOrder
    <3>. QED BY <1>1, <1>2, <3>2, <3>3, <3>4, <3>5
  <2>. QED BY <2>1, <2>2
<1>4. d = [line |-> LineOf(s, o) - prev.line,
           start |-> IF LineOf(s, o) - prev.line = 0 THEN o - LineStart(s, o) - prev.character
                     ELSE o - LineStart(s, o)]
  BY <1>2 DEF Deltas, Pos
<1>. HIDE DEF d, o, prev
<1>5. d.line \in Nat /\ d.start \in Nat
  <2> DEFINE line == LineOf(s, o) - prev.line
             column == o - LineStart(s, o)
  <2>1. line \in Nat /\ column \in Nat
    BY <1>1, <1>2, <1>3
  <2>2. line = 0 => column - prev.character \in Nat
    BY <1>1, <1>2, <1>3
  <2>. HIDE DEF line, column
  <2>3. d = [line |-> line, start |-> IF line = 0 THEN column - prev.character ELSE column]
    BY <1>4 DEF line, column
  <2>. QED BY <2>1, <2>2, <2>3
<1>6. Pos(s, i) = [line |-> prev.line + d.line,
                   character |-> d.start + IF d.line = 0 THEN prev.character ELSE 0]
  BY <1>1, <1>2, <1>3, <1>4
<1>. QED BY <1>5, <1>6 DEF d, prev

(* The client's sums are the positions.                                    *)
LEMMA DecodedFacts ==
  ASSUME NEW s, Encoded(s), NEW n \in Nat, Raw(s) \in [1 .. n -> 0 .. Len(s)],
         \A k \in 2 .. n : Raw(s)[k - 1] < Raw(s)[k]
  PROVE  Decoded(Deltas(s, Raw(s))) = [i \in 1 .. n |-> Pos(s, i)]
<1> DEFINE deltas == Deltas(s, Raw(s))
           Value(f, i) ==
             IF i = 0 THEN [line |-> 0, character |-> 0]
             ELSE [line |-> f[i - 1].line + deltas[i].line,
                   character |-> deltas[i].start + IF deltas[i].line = 0 THEN f[i - 1].character ELSE 0]
           sums == CHOOSE f : f = [i \in 0 .. n |-> Value(f, i)]
           positions == [i \in 0 .. n |-> Pos(s, i)]
<1>1. DOMAIN deltas = 1 .. n /\ Len(deltas) = n
  BY DEF Deltas
<1>2. \A i \in 0 .. n : positions[i] = Value(positions, i)
  <2>1. TAKE i \in 0 .. n
  <2>2. CASE i = 0
    BY <2>2 DEF Pos
  <2>3. CASE i # 0
    <3>1. i \in 1 .. n /\ i - 1 \in 0 .. n
      BY <2>3
    <3>2. Pos(s, i) = [line |-> Pos(s, i - 1).line + deltas[i].line,
                       character |-> deltas[i].start
                         + IF deltas[i].line = 0 THEN Pos(s, i - 1).character ELSE 0]
      BY <3>1, DeltaFacts
    <3>3. positions[i] = Pos(s, i) /\ positions[i - 1] = Pos(s, i - 1)
      BY <3>1
    <3>. HIDE DEF deltas, positions
    <3>. QED BY <2>3, <3>2, <3>3
  <2>. QED BY <2>2, <2>3
<1>3. positions = [i \in 0 .. n |-> Value(positions, i)]
  BY <1>2
<1>. HIDE DEF positions
<1>4. sums = [i \in 0 .. n |-> Value(sums, i)]
  BY <1>3
<1>5. Decoded(deltas) = [i \in 1 .. n |-> sums[i]]
  BY <1>1 DEF Decoded
<1>. HIDE DEF sums, deltas
<1> DEFINE Bad == { i \in 0 .. n : sums[i] # positions[i] }
<1>6. Bad = {}
  <2>1. SUFFICES ASSUME Bad # {}
                 PROVE  FALSE
    OBVIOUS
  <2>2. PICK i \in Bad : \A j \in Bad : i <= j
    <3>1. Bad \subseteq Nat
      OBVIOUS
    <3>. HIDE DEF Bad
    <3>. QED BY <2>1, <3>1, LeastElement
  <2>3. sums[i] = Value(sums, i) /\ positions[i] = Value(positions, i)
    BY <1>2, <1>4
  <2>4. i # 0
    BY <2>2, <2>3
  <2>5. i - 1 \in 0 .. n /\ i - 1 \notin Bad
    BY <2>2, <2>4
  <2>6. sums[i - 1] = positions[i - 1]
    BY <2>5
  <2>. QED BY <2>2, <2>3, <2>6
<1>7. \A i \in 1 .. n : sums[i] = Pos(s, i)
  <2>1. \A i \in 1 .. n : i \in 0 .. n /\ sums[i] = positions[i]
    BY <1>6
  <2>. QED BY <2>1 DEF positions
<1>. QED BY <1>5, <1>7 DEF deltas

(* The client that adds up the deltas of the semantic tokens gets every    *)
(* token where it is, and no difference of the unsigned line and column    *)
(* wraps around (delta_encode).                                            *)
THEOREM DeltasAlwaysDecode == ESpec => []DeltasDecode
<1>1. ASSUME EditorTypeOK
      PROVE  DeltasDecode
  <2> DEFINE s == Source
             deltas == Deltas(s, Raw(s))
  <2>1. Encoded(s)
    BY <1>1, SourceEncoded
  <2>. HIDE DEF s
  <2>2. PICK n \in Nat : /\ Raw(s) \in [1 .. n -> 0 .. Len(s)]
                         /\ \A k \in 2 .. n : Raw(s)[k - 1] < Raw(s)[k]
    BY <2>1, RawFacts
  <2>3. DOMAIN deltas = 1 .. n
    BY <2>2 DEF Deltas
  <2>4. \A i \in 1 .. n : deltas[i].line \in Nat /\ deltas[i].start \in Nat
    BY <2>1, <2>2, DeltaFacts
  <2>5. Decoded(deltas) = [i \in 1 .. n |-> Pos(s, i)]
    BY <2>1, <2>2, DecodedFacts
  <2>6. \A i \in 1 .. n : Pos(s, i) = OffsetToPosition(s, Raw(s)[i])
    BY DEF Pos
  <2>. HIDE DEF deltas
  <2>7. /\ \A i \in DOMAIN deltas : deltas[i].line >= 0 /\ deltas[i].start >= 0
        /\ Decoded(deltas) = [i \in DOMAIN deltas |-> OffsetToPosition(s, Raw(s)[i])]
    BY <2>3, <2>4, <2>5, <2>6
  <2>. QED BY <2>7 DEF DeltasDecode, deltas, s
<1>. QED BY <1>1, EditorTypeCorrect, PTL

---------------------------------------------------------------------------
(* Two scans, one set of comments                                          *)

(* A string ends for both where its closing quote is.                      *)
LEMMA StringsAgree ==
  ASSUME NEW s, Encoded(s), NEW i \in 0 .. Len(s) - 1, LexString(s, i).kind # "error"
  PROVE  LexString(s, i).end = StringEnd(s, i + 1)
<1> DEFINE n == Len(s)
           S == { j \in 0 .. n : Str(s, i)[j].kind # "error" => Str(s, i)[j].end = StringEnd(s, j) }
<1>1. n \in Nat
  BY ByteFacts
<1>2. Error(i).kind = "error" /\ \A k : Error(k).kind = "error"
  BY DEF Error
<1>3. ASSUME NEW j \in 0 .. n, \A k \in j + 1 .. n : k \in S
      PROVE  j \in S
  <2>1. j \in 0 .. n + 1 /\ (Byte(s, j) # "none" => j < n)
    BY <1>1, ByteFacts
  <2>2. CASE Byte(s, j) = "none"
    BY <1>2, <2>2, StrUnfolds
  <2>3. CASE Byte(s, j) = Quote
    <3>1. Str(s, i)[j] = Token("string", i, j + 1)
      BY <2>3, QuoteIsNone, StrUnfolds
    <3>2. Str(s, i)[j].end = j + 1
      BY <3>1 DEF Token
    <3>3. StringEnd(s, j) = j + 1
      BY <2>1, <2>3, StringEndUnfolds
    <3>. QED BY <3>2, <3>3
  <2>4. CASE Byte(s, j) \notin {"none", Quote, "\\"}
    <3>1. Str(s, i)[j] = Str(s, i)[j + 1] /\ StringEnd(s, j) = StringEnd(s, j + 1)
      BY <2>1, <2>4, StrUnfolds, StringEndUnfolds
    <3>2. j + 1 \in S
      BY <1>1, <1>3, <2>1, <2>4
    <3>. QED BY <3>1, <3>2
  <2>5. CASE Byte(s, j) = "\\" /\ Byte(s, j + 1) \notin Escaped
    <3>1. Str(s, i)[j] \in {Error(i), Error(j + 1)}
      BY <2>5, QuoteIsNone, StrUnfolds
    <3>. QED BY <1>2, <3>1
  <2>6. CASE Byte(s, j) = "\\" /\ Byte(s, j + 1) \in Escaped
    <3>1. Byte(s, j + 1) # "none"
      BY <2>6, QuoteIsNone DEF Escaped
    <3>2. Str(s, i)[j] = Str(s, i)[j + 2]
      BY <2>6, <3>1, QuoteIsNone, StrUnfolds
    <3>3. StringEnd(s, j) = StringEnd(s, j + 2)
      BY <2>1, <2>6, QuoteIsNone, StringEndUnfolds
    <3>4. j + 1 \in Nat
      OBVIOUS
    <3>5. j + 1 < n
      BY <3>1, <3>4, ByteFacts
    <3>6. j + 2 \in S
      BY <1>1, <1>3, <3>5
    <3>. QED BY <3>2, <3>3, <3>6
  <2>. QED BY <2>2, <2>3, <2>4, <2>5, <2>6
<1>4. \A j \in 0 .. n : j \in S
  <2>. HIDE DEF S
  <2>. QED BY <1>1, <1>3, Backwards
<1>5. i + 1 \in 0 .. n
  BY <1>1
<1>6. LexString(s, i) = Str(s, i)[i + 1]
  BY <1>5, StrUnfolds
<1>. QED BY <1>4, <1>5, <1>6

(* Bytes that neither open a string nor begin a comment.                   *)
Quiet(s, i, e) == \A k \in i .. e - 1 : Byte(s, k) # Quote /\ ~ StartsComment(s, k)

LEMMA WordIsQuiet ==
  ASSUME NEW s, NEW k, Byte(s, k) \in Word
  PROVE  Byte(s, k) # Quote /\ ~ StartsComment(s, k)
<1>1. Quote \notin Word
  BY Zenon DEF Quote, Word, Letters, Digits
<1>. QED BY <1>1, WordBytes DEF StartsComment

LEMMA RunIsQuiet ==
  ASSUME NEW s, Encoded(s), NEW i \in 0 .. Len(s), NEW S, S \subseteq Word
  PROVE  Quiet(s, i, Run(s, i, S))
<1>1. "none" \notin S
  BY WordBytes
<1>2. \A k \in i .. Run(s, i, S) - 1 : Byte(s, k) \in S
  BY <1>1, RunStops
<1>. QED BY <1>2, WordIsQuiet DEF Quiet

LEMMA RadixIsQuiet ==
  ASSUME NEW s, Encoded(s), NEW i \in 0 .. Len(s), NEW digits, digits \subseteq Word,
         Byte(s, i) \in Word, Byte(s, i + 1) \in Word, LexRadix(s, i, digits).kind # "error"
  PROVE  Quiet(s, i, LexRadix(s, i, digits).end)
<1> DEFINE e == Run(s, i + 2, digits \cup {"_"})
<1>1. Len(s) \in Nat /\ i \in Nat /\ i + 2 \in Nat
  BY ByteFacts
<1>2. Byte(s, i + 2) \in digits
  BY DEF LexRadix, Error
<1>3. Byte(s, i + 2) # "none"
  BY <1>2, WordBytes
<1>4. i + 2 \in 0 .. Len(s)
  BY <1>1, <1>3, ByteFacts
<1>5. digits \cup {"_"} \subseteq Word /\ "none" \notin digits \cup {"_"}
  BY WordBytes
<1>6. Quiet(s, i + 2, e) /\ e \in i + 2 .. Len(s)
  BY <1>4, <1>5, RunIsQuiet, RunStops
<1>7. LexRadix(s, i, digits).end = e
  BY <1>2 DEF LexRadix, Token
<1>. HIDE DEF e
<1>8. \A k \in i .. e - 1 : k = i \/ k = i + 1 \/ k \in i + 2 .. e - 1
  BY <1>1, <1>6
<1>. QED BY <1>6, <1>7, <1>8, WordIsQuiet DEF Quiet

(* Only a string opens a string, and no token begins a comment.            *)
LEMMA TokenIsQuiet ==
  ASSUME NEW s, Encoded(s), NEW i \in Boundaries(s), i < Len(s),
         Byte(s, i) # Quote, ~ StartsComment(s, i), NextToken(s, i).kind # "error"
  PROVE  Quiet(s, i, NextToken(s, i).end)
<1>1. Len(s) \in Nat /\ i \in 0 .. Len(s) /\ i \in Nat
  BY ByteFacts
<1>2. CASE Byte(s, i) = "0" /\ Byte(s, i + 1) = "x"
  <2>1. NextToken(s, i) = LexRadix(s, i, HexDigits)
    BY <1>2 DEF NextToken
  <2>2. HexDigits \subseteq Word /\ "0" \in Word /\ "x" \in Word
    BY DEF HexDigits, Word, Digits, Letters
  <2>. QED BY <1>1, <1>2, <2>1, <2>2, RadixIsQuiet
<1>3. CASE Byte(s, i) = "0" /\ Byte(s, i + 1) = "b"
  <2>1. NextToken(s, i) = LexRadix(s, i, {"0", "1"})
    BY <1>3 DEF NextToken
  <2>2. {"0", "1"} \subseteq Word /\ "0" \in Word /\ "b" \in Word
    BY DEF Word, Digits, Letters
  <2>. QED BY <1>1, <1>3, <2>1, <2>2, RadixIsQuiet
<1>4. CASE ~ (Byte(s, i) = "0" /\ Byte(s, i + 1) \in {"x", "b"}) /\ Byte(s, i) \in Digits
  <2> DEFINE e == Run(s, i, Digits \cup {"_"})
  <2>1. NextToken(s, i) = Token("integer", i, e)
    BY <1>4 DEF NextToken
  <2>2. Digits \cup {"_"} \subseteq Word
    BY DEF Word
  <2>3. Quiet(s, i, e)
    BY <1>1, <2>2, RunIsQuiet
  <2>. HIDE DEF e
  <2>4. NextToken(s, i).end = e
    BY <2>1 DEF Token
  <2>. QED BY <2>3, <2>4
<1>5. CASE Byte(s, i) \notin Digits /\ Byte(s, i) \in Letters \cup {"_"}
  <2>1. NextToken(s, i) = Token("name", i, Run(s, i, Word))
    BY <1>5 DEF NextToken, Digits
  <2>. QED BY <1>1, <2>1, RunIsQuiet DEF Token
<1>6. CASE Byte(s, i) \notin Digits \cup Letters \cup {"_"}
  <2>1. NextToken(s, i) = LexOperator(s, i)
    BY <1>6 DEF NextToken, Digits
  <2>2. PICK o \in Operators : /\ LexOperator(s, i) = Token("operator", i, i + Len(o))
                               /\ \A k \in DOMAIN o : Byte(s, i + k - 1) = o[k]
    BY <2>1, OperatorFacts
  <2> DEFINE e == i + Len(o)
  <2>3. NextToken(s, i).end = e
    BY <2>1, <2>2 DEF Token
  <2>4. Len(o) \in 1 .. 3 /\ DOMAIN o = 1 .. Len(o)
    BY OperatorBytes
  <2>5. ASSUME NEW k \in i .. e - 1
        PROVE  Byte(s, k) # Quote /\ ~ StartsComment(s, k)
    <3> DEFINE j == k - i + 1
    <3>1. j \in DOMAIN o /\ i + j - 1 = k
      BY <1>1, <2>4
    <3>2. Byte(s, k) = o[j] /\ o[j] \notin {Quote, "#"} /\ (o[j] = "/" => Len(o) = 1)
      BY <2>2, <3>1, OperatorBytes
    <3>3. Len(o) = 1 => k = i
      BY <1>1
    <3>. HIDE DEF j
    <3>. QED BY <3>2, <3>3 DEF StartsComment
  <2>. HIDE DEF e
  <2>6. Quiet(s, i, e)
    BY <2>5 DEF Quiet
  <2>. QED BY <2>3, <2>6
<1>. QED BY <1>2, <1>3, <1>4, <1>5, <1>6

(* Over quiet bytes the scan for comments finds nothing.                   *)
LEMMA QuietFindsNothing ==
  ASSUME NEW s, Encoded(s), NEW i \in 0 .. Len(s), NEW e \in i .. Len(s), Quiet(s, i, e)
  PROVE  Found(s)[i] = Found(s)[e]
<1> DEFINE S == { k \in 0 .. e : k \in i .. e => Found(s)[k] = Found(s)[e] }
<1>1. Len(s) \in Nat /\ e \in Nat /\ i \in Nat
  BY ByteFacts
<1>2. ASSUME NEW k \in 0 .. e, \A j \in k + 1 .. e : j \in S
      PROVE  k \in S
  <2>1. CASE k = e \/ k \notin i .. e
    BY <2>1
  <2>2. CASE k \in i .. e - 1
    <3>1. Byte(s, k) # Quote /\ ~ StartsComment(s, k)
      BY <2>2 DEF Quiet
    <3>2. k \in Nat /\ ~ (k >= Len(s)) /\ k \in 0 .. Len(s) + 2
      BY <1>1, <2>2
    <3>3. Byte(s, k) # "none"
      BY <3>2, ByteFacts
    <3>4. Found(s)[k] = Found(s)[k + 1]
      BY <3>1, <3>2, <3>3, FoundUnfolds
    <3>5. k + 1 \in S /\ k + 1 \in i .. e
      BY <1>1, <1>2, <2>2
    <3>. QED BY <3>4, <3>5
  <2>. QED BY <1>1, <2>1, <2>2
<1>3. \A k \in 0 .. e : k \in S
  <2>. HIDE DEF S
  <2>. QED BY <1>1, <1>2, Backwards
<1>. QED BY <1>1, <1>3

(* What a sequence holds when one element is put before it.                *)
LEMMA SetOfRest ==
  ASSUME NEW S, NEW x \in S, NEW rest \in Seq(S)
  PROVE  ToSet(<<x>> \o rest) = {x} \cup ToSet(rest)
<1> DEFINE q == <<x>> \o rest
<1>1. /\ Len(rest) \in Nat /\ DOMAIN rest = 1 .. Len(rest)
      /\ DOMAIN q = 1 .. Len(rest) + 1
      /\ q[1] = x /\ \A k \in 1 .. Len(rest) : q[k + 1] = rest[k]
  OBVIOUS
<1>. HIDE DEF q
<1>2. \A y : y \in ToSet(q) <=> \E k \in 1 .. Len(rest) + 1 : y = q[k]
  BY <1>1 DEF ToSet
<1>3. \A y : y \in ToSet(rest) <=> \E k \in 1 .. Len(rest) : y = rest[k]
  BY <1>1 DEF ToSet
<1>4. ASSUME NEW y \in ToSet(q)
      PROVE  y \in {x} \cup ToSet(rest)
  <2>1. PICK k \in 1 .. Len(rest) + 1 : y = q[k]
    BY <1>2
  <2>2. k = 1 \/ k - 1 \in 1 .. Len(rest)
    BY <1>1
  <2>3. CASE k = 1
    BY <1>1, <2>1, <2>3
  <2>4. CASE k - 1 \in 1 .. Len(rest)
    <3>1. q[k - 1 + 1] = rest[k - 1] /\ k - 1 + 1 = k
      BY <1>1, <2>4
    <3>. QED BY <1>3, <2>1, <2>4, <3>1
  <2>. QED BY <2>2, <2>3, <2>4
<1>5. ASSUME NEW y \in {x} \cup ToSet(rest)
      PROVE  y \in ToSet(q)
  <2>1. CASE y = x
    <3>1. 1 \in 1 .. Len(rest) + 1
      BY <1>1
    <3>. QED BY <1>1, <1>2, <2>1, <3>1
  <2>2. CASE y \in ToSet(rest)
    <3>1. PICK k \in 1 .. Len(rest) : y = rest[k]
      BY <1>3, <2>2
    <3>2. k + 1 \in 1 .. Len(rest) + 1 /\ q[k + 1] = rest[k]
      BY <1>1
    <3>. QED BY <1>2, <3>1, <3>2
  <2>. QED BY <2>1, <2>2
<1>6. ToSet(q) = {x} \cup ToSet(rest)
  BY <1>4, <1>5
<1>. QED BY <1>6 DEF q

(* A comment ends before one that begins in it.                            *)
LEMMA LineEndsAgree ==
  ASSUME NEW s, Encoded(s), NEW i \in 0 .. Len(s), NEW l \in i .. LineEnd(s, i)
  PROVE  LineEnd(s, l) <= LineEnd(s, i)
<1> DEFINE e == LineEnd(s, i)
           m == LineEnd(s, l)
<1>1. Len(s) \in Nat /\ e \in i .. Len(s) /\ Byte(s, e) \in {"\n", "none"}
  BY ByteFacts, LineEnds
<1>2. l \in 0 .. Len(s)
  BY <1>1
<1>3. m \in l .. Len(s) /\ \A k \in l .. m - 1 : Byte(s, k) # "\n"
  BY <1>2, LineEnds
<1>. HIDE DEF e, m
<1>4. SUFFICES ASSUME ~ (m <= e)
               PROVE  FALSE
  BY DEF e, m
<1>5. e \in l .. m - 1 /\ e \in Nat
  BY <1>1, <1>2, <1>3, <1>4 DEF e
<1>6. Byte(s, e) = "none"
  BY <1>1, <1>3, <1>5
<1>7. e >= Len(s)
  BY <1>5, <1>6, ByteFacts
<1>. QED BY <1>1, <1>3, <1>4, <1>5, <1>7

(* The comments the lexer skips from an offset on.                         *)
InToken(s, i, k) == \E t \in ToSet(Tokens(s)[i]) : t.at <= k /\ k < t.end
Starts(s, i) == { k \in i .. Len(s) - 1 : StartsComment(s, k) /\ ~ InToken(s, i, k) }
Firsts(s, i) == { k \in Starts(s, i) : \A l \in Starts(s, i) : l < k => LineEnd(s, l) <= k }
Ats(s, i) == { c.at : c \in ToSet(Found(s)[i]) }

(* Where the lexer skips a space or reads a token, neither scan finds a    *)
(* comment.                                                                *)
LEMMA NothingSkipped ==
  ASSUME NEW s, Encoded(s), NEW i \in 0 .. Len(s), NEW e \in i .. Len(s),
         Found(s)[i] = Found(s)[e],
         \A k \in i .. e - 1 : StartsComment(s, k) => InToken(s, i, k),
         \A k \in e .. Len(s) - 1 : InToken(s, i, k) <=> InToken(s, e, k)
  PROVE  Ats(s, i) = Ats(s, e) /\ Firsts(s, i) = Firsts(s, e)
<1>1. Len(s) \in Nat /\ i \in Nat /\ e \in Nat /\ i <= e
  BY ByteFacts
<1>2. \A k \in i .. Len(s) - 1 : k \in i .. e - 1 \/ k \in e .. Len(s) - 1
  BY <1>1
<1>3. e .. Len(s) - 1 \subseteq i .. Len(s) - 1
  BY <1>1
<1>4. \A k \in Starts(s, i) : k \in Starts(s, e)
  BY <1>2 DEF Starts
<1>5. \A k \in Starts(s, e) : k \in Starts(s, i)
  BY <1>3 DEF Starts
<1>6. Starts(s, i) = Starts(s, e)
  BY <1>4, <1>5
<1>. QED BY <1>6 DEF Firsts, Ats

(* Where the lexer skips a comment, both scans find it and go on behind it.*)
LEMMA CommentSkipped ==
  ASSUME NEW s, Encoded(s), NEW i \in Boundaries(s), StartsComment(s, i),
         Ats(s, LineEnd(s, i)) = Firsts(s, LineEnd(s, i))
  PROVE  Ats(s, i) = Firsts(s, i)
<1> DEFINE e == LineEnd(s, i)
           c == [at |-> i, end |-> e]
<1>1. Len(s) \in Nat /\ i \in Nat /\ i \in 0 .. Len(s) - 1 /\ e \in i + 1 .. Len(s) /\ e \in Boundaries(s)
  <2>1. i \in Nat
    BY ByteFacts
  <2>. QED BY <2>1, ByteFacts, CommentStarts
<1>2. Byte(s, i) \notin Space \cup {"none"}
  BY DEF Space, StartsComment
<1>. /\ i \in 0 .. Len(s) /\ i \in 0 .. Len(s) + 2
     /\ e \in 0 .. Len(s) /\ e \in 0 .. Len(s) + 2
  BY <1>1
<1>3. Found(s)[i] = <<c>> \o Found(s)[e]
  BY <1>2, FoundUnfolds
<1>4. Skip(s, i) = Skip(s, e)
  BY <1>1, <1>2, SkipUnfolds
<1>. HIDE DEF e
<1>5. Ats(s, i) = {i} \cup Ats(s, e)
  <2>1. c \in Places(s) /\ c.at = i
    BY <1>1 DEF Places
  <2>2. Found(s)[e] \in Seq(Places(s))
    BY FoundFacts
  <2>. HIDE DEF c
  <2>3. ToSet(Found(s)[i]) = {c} \cup ToSet(Found(s)[e])
    BY <1>3, <2>1, <2>2, SetOfRest
  <2>. QED BY <2>1, <2>3 DEF Ats
<1>6. Tokens(s)[i] = Tokens(s)[e]
  BY <1>4, TokensUnfold
<1>7. \A k : InToken(s, i, k) <=> InToken(s, e, k)
  BY <1>6 DEF InToken
<1>8. \A k \in i .. e - 1 : ~ InToken(s, e, k)
  <2>1. Tokens(s)[e] \in Seq(Spans(s)) /\ \A j \in DOMAIN Tokens(s)[e] : e <= Tokens(s)[e][j].at
    BY <1>1, TokensFacts
  <2>2. \A j \in DOMAIN Tokens(s)[e] : Tokens(s)[e][j] \in Spans(s)
    BY <2>1
  <2>3. \A t \in Spans(s) : t.at \in Nat
    BY ByteFacts DEF Spans
  <2>4. \A t \in ToSet(Tokens(s)[e]) : e <= t.at /\ t.at \in Nat
    BY <2>1, <2>2, <2>3 DEF ToSet
  <2>. QED BY <1>1, <2>4 DEF InToken
<1>9. i \in Starts(s, i)
  BY <1>1, <1>7, <1>8 DEF Starts
<1>10. ASSUME NEW l \in Starts(s, i)
       PROVE  l \in i .. Len(s) - 1 /\ (l < e => LineEnd(s, l) <= e) /\ (l >= e => l \in Starts(s, e))
  <2>1. l \in i .. Len(s) - 1 /\ StartsComment(s, l) /\ ~ InToken(s, e, l)
    BY <1>7 DEF Starts
  <2>2. l < e => LineEnd(s, l) <= e
    <3>1. HAVE l < e
    <3>2. l \in i .. e
      BY <1>1, <2>1, <3>1
    <3>. QED BY <1>1, <3>2, LineEndsAgree DEF e
  <2>3. l >= e => l \in e .. Len(s) - 1
    BY <1>1, <2>1
  <2>. QED BY <2>1, <2>2, <2>3 DEF Starts
<1>11. \A l \in Starts(s, e) : l \in Starts(s, i) /\ l \in e .. Len(s) - 1
  <2>1. e .. Len(s) - 1 \subseteq i .. Len(s) - 1
    BY <1>1
  <2>. QED BY <1>7, <2>1 DEF Starts
<1>12. i \in Firsts(s, i)
  BY <1>1, <1>9, <1>10 DEF Firsts
<1>13. ASSUME NEW k \in Firsts(s, i), k # i
       PROVE  k \in Firsts(s, e)
  <2>1. k \in Starts(s, i) /\ \A l \in Starts(s, i) : l < k => LineEnd(s, l) <= k
    BY DEF Firsts
  <2>2. k \in i .. Len(s) - 1 /\ i < k
    BY <1>1, <1>10, <1>13, <2>1
  <2>3. e <= k
    BY <1>9, <2>1, <2>2 DEF e
  <2>4. k \in Starts(s, e)
    BY <1>1, <1>10, <2>1, <2>2, <2>3
  <2>. QED BY <1>11, <2>1, <2>4 DEF Firsts
<1>14. ASSUME NEW k \in Firsts(s, e)
       PROVE  k \in Firsts(s, i)
  <2>1. k \in Starts(s, e) /\ \A l \in Starts(s, e) : l < k => LineEnd(s, l) <= k
    BY DEF Firsts
  <2>2. k \in Starts(s, i) /\ k \in e .. Len(s) - 1
    BY <1>11, <2>1
  <2>3. ASSUME NEW l \in Starts(s, i), l < k
        PROVE  LineEnd(s, l) <= k
    <3>1. l \in i .. Len(s) - 1 /\ l \in Nat
      BY <1>1, <1>10
    <3>2. CASE l >= e
      BY <1>10, <2>1, <2>3, <3>2
    <3>3. CASE l < e
      <4>1. LineEnd(s, l) <= e
        BY <1>10, <3>3
      <4>2. LineEnd(s, l) \in l .. Len(s)
        <5>1. l \in 0 .. Len(s)
          BY <1>1, <3>1
        <5>. QED BY <5>1, LineEnds
      <4>. QED BY <1>1, <2>2, <3>1, <4>1, <4>2
    <3>. QED BY <1>1, <3>1, <3>2, <3>3
  <2>. QED BY <2>2, <2>3 DEF Firsts
<1>15. Firsts(s, i) = {i} \cup Firsts(s, e)
  BY <1>12, <1>13, <1>14
<1>. QED BY <1>5, <1>15 DEF e

Free(s, i) == \A t \in ToSet(Tokens(s)[i]) : t.kind # "error"

(* Over a token the scan for comments finds nothing.                       *)
LEMMA TokenFound ==
  ASSUME NEW s, Encoded(s), NEW i \in Boundaries(s), i < Len(s), ~ StartsComment(s, i),
         NextToken(s, i).kind # "error"
  PROVE  Found(s)[i] = Found(s)[NextToken(s, i).end]
<1> DEFINE e == NextToken(s, i).end
<1>1. Len(s) \in Nat /\ i \in Nat /\ i \in 0 .. Len(s) /\ i \in 0 .. Len(s) + 2
  BY ByteFacts
<1>2. e \in i .. Len(s)
  <2>1. e \in Boundaries(s) /\ i < e
    BY TokenFacts DEF SpanRight, Spans
  <2>2. e \in 0 .. Len(s)
    BY <2>1, ByteFacts
  <2>. QED BY <1>1, <2>1, <2>2
<1>3. CASE Byte(s, i) = Quote
  <2>1. NextToken(s, i) = LexString(s, i)
    BY <1>3 DEF NextToken
  <2>2. e = StringEnd(s, i + 1)
    BY <1>1, <1>3, <2>1, StringsAgree
  <2>3. Byte(s, i) # "none"
    BY <1>3, QuoteIsNone
  <2>4. Found(s)[i] = Found(s)[StringEnd(s, i + 1)]
    BY <1>1, <1>3, <2>3, FoundUnfolds
  <2>. QED BY <2>2, <2>4
<1>4. CASE Byte(s, i) # Quote
  <2>1. Quiet(s, i, e)
    BY <1>4, TokenIsQuiet
  <2>. HIDE DEF e
  <2>2. Found(s)[i] = Found(s)[e]
    BY <1>1, <1>2, <2>1, QuietFindsNothing
  <2>. QED BY <2>2 DEF e
<1>. QED BY <1>3, <1>4

(* From every place the lexer gets to, both scans find the same comments.  *)
LEMMA CommentsFound ==
  ASSUME NEW s, Encoded(s), NEW i \in Boundaries(s), Free(s, i)
  PROVE  Ats(s, i) = Firsts(s, i)
<1> DEFINE n == Len(s)
           S == { k \in 0 .. n : k \in Boundaries(s) /\ Free(s, k) => Ats(s, k) = Firsts(s, k) }
<1>1. n \in Nat /\ i \in 0 .. n /\ Byte(s, n) = "none" /\ "none" \notin Space /\ Quote \notin Space
  <2>1. "none" \notin Space /\ Quote \notin Space
    BY Zenon DEF Space, Quote
  <2>. QED BY <2>1, ByteFacts
<1>2. ASSUME NEW k \in 0 .. n, \A j \in k + 1 .. n : j \in S
      PROVE  k \in S
  <2>1. SUFFICES ASSUME k \in Boundaries(s), Free(s, k)
                 PROVE  Ats(s, k) = Firsts(s, k)
    OBVIOUS
  <2>. k \in Nat /\ k \in 0 .. n + 2
    BY <1>1
  <2>2. CASE Byte(s, k) \in Space
    <3>1. k \in 0 .. n - 1 /\ k + 1 \in 0 .. n /\ k + 1 \in k .. n
      BY <1>1, <2>2
    <3>2. Byte(s, k) \notin {"lead", "cont"} /\ ~ StartsComment(s, k)
      BY <2>2 DEF Space, StartsComment
    <3>3. k + 1 \in Boundaries(s)
      BY <3>1, <3>2, ByteFacts
    <3>4. Skip(s, k) = Skip(s, k + 1)
      BY <2>2, SkipUnfolds
    <3>5. Tokens(s)[k] = Tokens(s)[k + 1]
      BY <3>1, <3>4, TokensUnfold
    <3>6. Found(s)[k] = Found(s)[k + 1]
      BY <1>1, <2>2, <3>2, FoundUnfolds
    <3>7. k + 1 \in S
      BY <1>1, <1>2, <3>1
    <3>8. Ats(s, k + 1) = Firsts(s, k + 1)
      BY <2>1, <3>3, <3>5, <3>7 DEF Free
    <3>9. \A j \in k .. k + 1 - 1 : j = k
      OBVIOUS
    <3>10. \A j : InToken(s, k, j) <=> InToken(s, k + 1, j)
      BY <3>5 DEF InToken
    <3>11. Ats(s, k) = Ats(s, k + 1) /\ Firsts(s, k) = Firsts(s, k + 1)
      BY <3>1, <3>2, <3>6, <3>9, <3>10, NothingSkipped
    <3>. QED BY <3>8, <3>11
  <2>3. CASE Byte(s, k) \notin Space /\ StartsComment(s, k)
    <3> DEFINE e == LineEnd(s, k)
    <3>1. e \in k + 1 .. n /\ e \in 0 .. n /\ e \in Boundaries(s)
      BY <1>1, <2>3, CommentStarts
    <3>2. Skip(s, k) = Skip(s, e)
      BY <2>3, SkipUnfolds
    <3>. HIDE DEF e
    <3>3. Tokens(s)[k] = Tokens(s)[e]
      BY <3>1, <3>2, TokensUnfold
    <3>4. e \in S
      BY <1>2, <3>1
    <3>5. Ats(s, e) = Firsts(s, e)
      BY <2>1, <3>1, <3>3, <3>4 DEF Free
    <3>. QED BY <2>1, <2>3, <3>5, CommentSkipped DEF e
  <2>4. CASE Byte(s, k) \notin Space /\ ~ StartsComment(s, k) /\ k = n
    <3>1. Found(s)[k] = << >>
      BY <1>1, <2>4, FoundUnfolds
    <3>2. Ats(s, k) = {}
      BY <3>1 DEF Ats, ToSet
    <3>3. Starts(s, k) = {}
      BY <1>1, <2>4 DEF Starts
    <3>. QED BY <3>2, <3>3 DEF Firsts
  <2>5. CASE Byte(s, k) \notin Space /\ ~ StartsComment(s, k) /\ k # n
    <3> DEFINE t == NextToken(s, k)
               e == t.end
    <3>1. Skip(s, k) = k /\ k < n
      BY <1>1, <2>5, SkipUnfolds
    <3>2. SpanRight(s, k, t)
      BY <2>1, <3>1, TokenFacts
    <3>3. t.kind # "error"
      <4>1. SUFFICES ASSUME t.kind = "error"
                     PROVE  FALSE
        OBVIOUS
      <4>. HIDE DEF t
      <4>2. Tokens(s)[k] = <<t>>
        BY <2>5, <3>1, <4>1, TokensUnfold DEF t
      <4>3. t \in ToSet(Tokens(s)[k])
        BY <4>2 DEF ToSet
      <4>. QED BY <2>1, <4>1, <4>3 DEF Free
    <3>4. t.at = k /\ k < e /\ e \in Boundaries(s) /\ t \in Spans(s)
      BY <3>2, <3>3 DEF SpanRight, Spans
    <3>5. e \in 0 .. n /\ e \in k + 1 .. n /\ e \in k .. n
      <4>1. e \in 0 .. n
        BY <3>4, ByteFacts
      <4>. QED BY <1>1, <3>4, <4>1
    <3>6. Tokens(s)[k] = <<t>> \o Tokens(s)[e]
      BY <2>5, <3>1, <3>3, TokensUnfold
    <3>7. Tokens(s)[e] \in Seq(Spans(s))
      BY <3>4, TokensFacts
    <3>8. Found(s)[k] = Found(s)[e]
      BY <2>1, <2>5, <3>1, <3>3, TokenFound
    <3>. HIDE DEF t, e
    <3>9. ToSet(Tokens(s)[k]) = {t} \cup ToSet(Tokens(s)[e])
      BY <3>4, <3>6, <3>7, SetOfRest
    <3>10. Free(s, e)
      BY <2>1, <3>9 DEF Free
    <3>11. e \in S
      BY <1>2, <3>5
    <3>12. \A j \in k .. e - 1 : InToken(s, k, j)
      BY <3>4, <3>5, <3>9 DEF InToken, e
    <3>13. \A j \in e .. n - 1 : InToken(s, k, j) <=> InToken(s, e, j)
      BY <3>5, <3>9 DEF InToken, e
    <3>14. Ats(s, k) = Ats(s, e) /\ Firsts(s, k) = Firsts(s, e)
      BY <3>5, <3>8, <3>12, <3>13, NothingSkipped
    <3>. QED BY <3>4, <3>10, <3>11, <3>14
  <2>. QED BY <2>2, <2>3, <2>4, <2>5
<1>3. \A k \in 0 .. n : k \in S
  <2>. HIDE DEF S
  <2>. QED BY <1>1, <1>2, Backwards
<1>. QED BY <1>1, <1>3

(* The scan that colours comments finds, of every text that lexes, exactly *)
(* the comments the lexer skips, though it knows neither operators nor     *)
(* names (collect_comments, skip_whitespace_and_comments).                 *)
THEOREM CommentsAlwaysAgree == ESpec => []CommentsAgree
<1>1. ASSUME EditorTypeOK, Lexes(Source)
      PROVE  { c.at : c \in ToSet(Comments(Source)) } = LexedComments(Source)
  <2> DEFINE s == Source
  <2>1. Encoded(s)
    BY <1>1, SourceEncoded
  <2>2. Lexes(s)
    BY <1>1
  <2>. HIDE DEF s
  <2>3. 0 \in 0 .. Len(s) /\ 0 \in 0 .. Len(s) + 2 /\ 0 \in Boundaries(s)
    BY <2>1, ByteFacts
  <2>4. Tokenize(s) = Tokens(s)[0] /\ Comments(s) = Found(s)[0]
    BY <2>1, <2>3, TokensUnfold, FoundUnfolds
  <2>5. Free(s, 0)
    BY <2>2, <2>4 DEF Free, Lexes, ToSet
  <2>6. Ats(s, 0) = Firsts(s, 0)
    BY <2>1, <2>3, <2>5, CommentsFound
  <2>7. LexedComments(s) = Firsts(s, 0)
    BY <2>4 DEF LexedComments, Firsts, Starts, InToken
  <2>8. { c.at : c \in ToSet(Comments(s)) } = LexedComments(s)
    BY <2>4, <2>6, <2>7 DEF Ats
  <2>. QED BY <2>8 DEF s
<1>2. EditorTypeOK => CommentsAgree
  BY <1>1 DEF CommentsAgree
<1>. QED BY <1>2, EditorTypeCorrect, PTL
=============================================================================
