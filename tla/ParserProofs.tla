---------------------------- MODULE ParserProofs ----------------------------
(***************************************************************************)
(* Theorems about the generated parsers (Codec): what those of the Rust    *)
(* code do, and that the C code follows them read by read.                 *)
(***************************************************************************)
EXTENDS Codec, Typing, NatSets, SequenceTheorems

(* States of a run of parse code.                                          *)

Fields == {"data", "calls", "cur", "env", "groups", "err", "v", "views", "at"}

(* A cursor over bytes, and a slice that was taken before it.              *)
Window(c, bytes) == /\ c \in [lo : Nat, pos : Nat, hi : Nat]
                    /\ c.lo <= c.pos /\ c.pos <= c.hi /\ c.hi <= Len(bytes)

InScope(w, c) == /\ w \in [view : [from : Nat, to : Nat], lo : Nat, hi : Nat]
                 /\ w.lo <= w.view.from /\ w.view.to <= w.hi /\ w.view.to <= c.pos

Forward(c, e) == e.lo = c.lo /\ e.hi = c.hi /\ c.pos <= e.pos

(* What a parse function leaves: the cursor it got, moved forward.         *)
Leaves(bytes, c, o) ==
  o.err = "ok" => Window(o.cur, bytes) /\ Forward(c, o.cur) /\ \A w \in o.views : InScope(w, o.cur)

Compiled(n) == n \in DOMAIN Schemas /\ Accepted(Schemas[n])

CallsLeave(bytes, calls) ==
  \A n, c : Compiled(n) /\ Window(c, bytes) => Leaves(bytes, c, calls[[name |-> n, cur |-> c]])

Sane(s) ==
  /\ DOMAIN s = Fields
  /\ s.data \in Seq(Nat)
  /\ CallsLeave(s.data, s.calls)
  /\ s.err = "ok" => Window(s.cur, s.data) /\ \A w \in s.views : InScope(w, s.cur)

(* From s the code got to r, and r is sane: it stayed in the window.       *)
Moves(s, r) ==
  /\ Sane(r) /\ r.data = s.data /\ r.calls = s.calls
  /\ r.err = "ok" => s.err = "ok" /\ Forward(s.cur, r.cur)

(* And it assigned no variable.                                            *)
Reads(s, r) == Moves(s, r) /\ r.env = s.env /\ r.groups = s.groups /\ r.at = s.at

(* What the loops of an array keep.                                        *)
ReadsOn(s, i, t, u) == Reads(s, t)

Listed(x, n) == (\E S : x \in Seq(S)) /\ Len(x) = n

FillsOn(d, i, t, u) ==
  /\ Reads(d.start, t)
  /\ t.err = "ok" /\ t.cur.pos # t.cur.hi => i <= d.max /\ Listed(t.v, i)

(* What is known of the variables: those of a kind hold values of it, and   *)
(* the names are among them.                                               *)
EnvTyped(env, k) ==
  \A n \in DOMAIN env : /\ n \in k.ints => env[n] \in Nat
                        /\ n \in k.opts => (env[n] # <<>> => env[n][1] \in Nat)

Knows(env, k, names) == EnvTyped(env, k) /\ names \subseteq DOMAIN env
Has(s, k, names) == Knows(s.env, k, names)

(* Every declaration of a name holds what its kind says.                   *)
KindsKept(items, k) ==
  \A i \in DOMAIN items : items[i].it # "require" =>
    /\ items[i].name \in k.ints => Whole(items[i]) \/ items[i].it = "let"
    /\ items[i].name \in k.opts => Optional(items[i])

(* The members of the groups read so far are bound.                        *)
GroupsKnown(s, items) ==
  \A j \in DOMAIN items :
    items[j].it = "field" /\ items[j].group \in s.groups => items[j].name \in DOMAIN s.env

(* The items of a scope and what is known of its names.                    *)
Scope(items, n, k, outer) ==
  n \in Nat /\ DOMAIN items = 1 .. n /\ KindsKept(items, k) /\ ScopeTyped(items, k, outer)

(* Between two items: the names of those before i are assigned.            *)
Between(s, items, i, k, outer) ==
  Knows(s.env, k, NamesBefore(items, i, outer)) /\ GroupsKnown(s, items)

(* Only env differs; the members seen so far have been bound.              *)
OnlyBinds(s, t) ==
  /\ DOMAIN t = Fields /\ t.data = s.data /\ t.calls = s.calls /\ t.cur = s.cur
  /\ t.groups = s.groups /\ t.err = s.err /\ t.v = s.v /\ t.views = s.views /\ t.at = s.at

MembersOn(d, i, t, u) ==
  /\ OnlyBinds(d.start, t)
  /\ Knows(t.env, d.k, DOMAIN d.start.env)
  /\ \A j \in 1 .. i : R!InGroup(d.items[j], d.g) => d.items[j].name \in DOMAIN t.env

(* Each operator a parse folds over, as a step of module Folding, with     *)
(* what the fold keeps.                                                    *)
TwoStep(a, b, t, x) == 2 * t
Natural(d, i, t, u) == t \in Nat
FT == INSTANCE Folding WITH Step <- TwoStep, Good <- Natural

DigitStep(a, b, t, x) == t * R!Base + x
FD == INSTANCE Folding WITH Step <- DigitStep, Good <- Natural

ChunkStep(vi, bs, t, i) == t + (R!Chunk(vi, bs[i]) * R!TwoTo[(i - 1) * vi.bits])
FV == INSTANCE Folding WITH Step <- ChunkStep, Good <- Natural

CountStep(ty, b, t, i) == IF t.err # "ok" THEN t ELSE R!ReadElement(t, ty, t.v)
FC == INSTANCE Folding WITH Step <- CountStep, Good <- ReadsOn

FillStep(ty, b, t, i) ==
  IF t.err # "ok" \/ R!Remaining(t.cur) = 0 THEN t
  ELSE IF Len(t.v) >= ty.max THEN R!Fail(t, "Capacity")
  ELSE R!ReadElement(t, ty, t.v)
FF == INSTANCE Folding WITH Step <- FillStep, Good <- FillsOn

MemberStep(g, b, t, x) == R!BindMember(t, g, x)
FM == INSTANCE Folding WITH Step <- MemberStep, Good <- MembersOn

ItemStep(items, b, t, x) == R!ParseItem(t, items, x)
ItemsOn(d, i, t, u) ==
  /\ Moves(d.start, t) /\ t.at = d.start.at
  /\ t.err = "ok" => Between(t, d.items, d.first + i, d.k, d.outer)
FI == INSTANCE Folding WITH Step <- ItemStep, Good <- ItemsOn

TrackStep(s, items, t, x) == R!ParseItems(R!AtChecksum(s, t, items, x), items, <<x>>)
TrackedOn(d, i, t, u) ==
  /\ Moves(d.start, t)
  /\ t.err = "ok" => Has(t, d.k, NamesBefore(d.items, i + 1, d.outer))
FK == INSTANCE Folding WITH Step <- TrackStep, Good <- TrackedOn

GenStep(bytes, b, calls, i) == [x \in R!Calls(bytes) |-> R!Body(bytes, calls, x)]
LevelOn(bytes, i, t, u) == CallsLeave(bytes, t)
FG == INSTANCE Folding WITH Step <- GenStep, Good <- LevelOn

---------------------------------------------------------------------------
(* Powers of two, and the numbers bytes make                               *)

(* The powers of two exist.                                                *)
LEMMA TwoToIs == R!TwoTo = [n \in Nat |-> IF n = 0 THEN 1 ELSE 2 * R!TwoTo[n - 1]]
<1> DEFINE up(n) == [i \in 1 .. n |-> i]
           f == [n \in Nat |-> FT!Fold(0, 0, 1, up(n))]
<1>1. ASSUME NEW n \in Nat, n # 0
      PROVE  f[n] = 2 * f[n - 1]
  <2> DEFINE m == n - 1
  <2>1. m \in Nat /\ n = m + 1
    BY <1>1
  <2>. HIDE DEF m
  <2>2. DOMAIN up(m + 1) = 1 .. m + 1 /\ DOMAIN up(m) = 1 .. m /\ \A i \in 1 .. m : up(m)[i] = up(m + 1)[i]
    BY <2>1
  <2>. HIDE DEF up
  <2>3. FT!Fold(0, 0, 1, up(m + 1)) = TwoStep(0, 0, FT!Fold(0, 0, 1, up(m)), up(m + 1)[m + 1])
    BY <2>1, <2>2, FT!FoldOneMore
  <2>4. f[n] = FT!Fold(0, 0, 1, up(m + 1)) /\ f[m] = FT!Fold(0, 0, 1, up(m))
    BY <2>1
  <2>. HIDE DEF f
  <2>5. f[n] = 2 * f[m]
    BY <2>3, <2>4 DEF TwoStep
  <2>. QED BY <2>5 DEF m
<1>2. f[0] = 1
  <2>1. DOMAIN up(0) = 1 .. 0
    OBVIOUS
  <2>2. PICK run : FT!Runs(run, 0, 0, 1, up(0), 0)
    <3>. HIDE DEF up
    <3>. QED BY <2>1, FT!FoldRuns
  <2>3. FT!Fold(0, 0, 1, up(0)) = 1
    BY <2>2 DEF FT!Runs
  <2>. QED BY <2>3
<1>3. \E g : g = [n \in Nat |-> IF n = 0 THEN 1 ELSE 2 * g[n - 1]]
  <2>1. f = [n \in Nat |-> f[n]]
    OBVIOUS
  <2>. HIDE DEF f
  <2>2. f = [n \in Nat |-> IF n = 0 THEN 1 ELSE 2 * f[n - 1]]
    BY <1>1, <1>2, <2>1
  <2>. QED BY <2>2
<1>. QED BY <1>3 DEF R!TwoTo

LEMMA TwoToNat == \A n \in Nat : R!TwoTo[n] \in Nat /\ R!TwoTo[n] > 0
<1> SUFFICES ASSUME NEW n \in Nat
             PROVE  R!TwoTo[n] \in Nat /\ R!TwoTo[n] > 0
  OBVIOUS
<1> DEFINE g == R!TwoTo
           S == { i \in 0 .. n : g[i] \in Nat /\ g[i] > 0 }
<1>0. g[0] = 1 /\ \A i \in Nat : i # 0 => g[i] = 2 * g[i - 1]
  BY TwoToIs
<1>. HIDE DEF g
<1>1. 0 \in S
  BY <1>0
<1>2. \A i \in 1 .. n : i - 1 \in S => i \in S
  BY <1>0
<1>3. n \in S
  <2>. HIDE DEF S
  <2>1. \A i \in 0 .. n : i \in S
    BY <1>1, <1>2, FT!Upwards
  <2>. QED BY <2>1
<1>. QED BY <1>3 DEF g

LEMMA BaseNat == R!Base \in Nat /\ R!Base > 0
BY TwoToNat, ByteBitsAssumption DEF R!Base

LEMMA ProductNat == \A m \in Nat, n \in Nat : m * n \in Nat
OBVIOUS

LEMMA DivNat == \A m \in Nat, n \in Nat : n > 0 => m \div n \in Nat
OBVIOUS

LEMMA ModNat == \A m \in Nat, n \in Nat : n > 0 => m % n \in Nat /\ m % n < n
OBVIOUS

LEMMA NumberIsNat ==
  ASSUME NEW bs \in Seq(Nat), NEW e
  PROVE  R!Number(bs, e) \in Nat
<1> DEFINE ds == IF e = "little" THEN R!Reverse(bs) ELSE bs
           n == Len(bs)
<1>1. n \in Nat /\ DOMAIN ds = 1 .. n /\ \A i \in 1 .. n : ds[i] \in Nat
  BY DEF R!Reverse
<1>. HIDE DEF ds, n
<1>2. Natural(0, 0, 0, 0)
  BY DEF Natural
<1>3. \A i \in 1 .. n : \A t : Natural(0, i - 1, t, t) =>
        Natural(0, i, DigitStep(0, 0, t, ds[i]), DigitStep(0, 0, t, ds[i]))
  <2>1. ASSUME NEW i \in 1 .. n, NEW t \in Nat
        PROVE  t * R!Base + ds[i] \in Nat
    <3>1. t * R!Base \in Nat
      BY BaseNat, ProductNat
    <3>. QED BY <1>1, <3>1
  <2>. QED BY <2>1 DEF Natural, DigitStep
<1>4. FD!Fold(0, 0, 0, ds) \in Nat
  <2>1. Natural(0, n, FD!Fold(0, 0, 0, ds), FD!Fold(0, 0, 0, ds))
    BY <1>1, <1>2, <1>3, FD!FoldKeeps
  <2>. QED BY <2>1 DEF Natural
<1>5. FD!Fold(0, 0, 0, ds) = R!Number(bs, e)
  BY DEF FD!Fold, R!Number, FD!FoldLeft, R!FoldLeft, DigitStep, R!MapThenFoldSet,
     FD!MapThenFoldSet, R!Max, FD!Max, ds
<1>. QED BY <1>4, <1>5

(* A variable-length integer is a natural number, read from the bytes that *)
(* are there.                                                              *)
VarintRead(r, bs) == r.err = "ok" => r.v \in Nat /\ r.n \in 0 .. Len(bs)

LEMMA PrefixReads ==
  ASSUME NEW bs \in Seq(Nat), NEW vi, VarintWritten(vi), vi.enc = "prefix"
  PROVE  VarintRead(R!RustParsePrefix(vi, bs), bs)
<1>1. CASE bs = <<>> \/ R!PrefixArms(vi, bs) = {}
  BY <1>1 DEF R!RustParsePrefix, VarintRead, R!NotParsed
<1>2. CASE bs # <<>> /\ R!PrefixArms(vi, bs) # {}
  <2> DEFINE i == R!FirstArm(vi, bs)
             n == R!TotalBytes(vi, vi.branches[i])
  <2>1. i \in R!PrefixArms(vi, bs)
    <3>1. R!PrefixArms(vi, bs) \subseteq Nat
      BY DEF R!PrefixArms, VarintWritten, R!Branches, Branches
    <3>2. \E x \in R!PrefixArms(vi, bs) : \A y \in R!PrefixArms(vi, bs) : x <= y
      BY <1>2, <3>1, LeastElement
    <3>. QED BY <3>2 DEF R!FirstArm
  <2>2. vi.bits \in 0 .. ByteBits /\ vi.branches[i].value_bits \in Nat
    BY <2>1 DEF R!PrefixArms, VarintWritten, R!Branches, Branches
  <2>. HIDE DEF i
  <2>3. n \in Nat
    <3> DEFINE q == vi.bits + vi.branches[i].value_bits + ByteBits - 1
    <3>1. q \in Nat
      BY <2>2, ByteBitsAssumption
    <3>2. n = q \div ByteBits
      BY DEF R!TotalBytes
    <3>. HIDE DEF q, n
    <3>. QED BY <3>1, <3>2, DivNat, ByteBitsAssumption
  <2>. HIDE DEF n
  <2>4. ASSUME n <= Len(bs)
        PROVE  R!BelowPrefix(vi, bs, n) \in Nat
    <3>1. ByteBits - vi.bits \in Nat
      BY <2>2, ByteBitsAssumption
    <3>2. bs[1] \in Nat
      BY <1>2
    <3>3. bs[1] % R!TwoTo[ByteBits - vi.bits] \in Nat
      BY <3>1, <3>2, TwoToNat, ModNat
    <3>4. SubSeq(bs, 2, n) \in Seq(Nat)
      BY <2>3, <2>4
    <3>5. <<bs[1] % R!TwoTo[ByteBits - vi.bits]>> \o SubSeq(bs, 2, n) \in Seq(Nat)
      BY <3>3, <3>4
    <3>. QED BY <3>5, NumberIsNat DEF R!BelowPrefix
  <2>5. R!RustParsePrefix(vi, bs) = R!RustTake(vi, bs, i, n)
    BY <1>2 DEF R!RustParsePrefix, R!RustBranch, i, n
  <2>. QED BY <2>3, <2>4, <2>5 DEF R!RustTake, VarintRead, R!NotParsed, R!Parsed
<1>. QED BY <1>1, <1>2

LEMMA ValueIsNat ==
  ASSUME NEW bs \in Seq(Nat), NEW vi, vi.bits \in Nat, NEW n \in 0 .. Len(bs)
  PROVE  R!Value(vi, bs, n) \in Nat
<1> DEFINE up == [i \in 1 .. n |-> i]
<1>1. DOMAIN up = 1 .. n /\ n \in Nat
  OBVIOUS
<1>2. Natural(0, 0, 0, 0)
  BY DEF Natural
<1>3. ASSUME NEW i \in 1 .. n, NEW t \in Nat
      PROVE  ChunkStep(vi, bs, t, i) \in Nat
  <2>1. bs[i] \in Nat /\ i - 1 \in Nat
    OBVIOUS
  <2>2. R!Chunk(vi, bs[i]) \in Nat
    BY <2>1, TwoToNat, ModNat DEF R!Chunk
  <2>3. (i - 1) * vi.bits \in Nat
    BY <2>1
  <2>4. R!TwoTo[(i - 1) * vi.bits] \in Nat
    BY <2>3, TwoToNat
  <2>5. R!Chunk(vi, bs[i]) * R!TwoTo[(i - 1) * vi.bits] \in Nat
    BY <2>2, <2>4, ProductNat
  <2>. QED BY <2>5 DEF ChunkStep
<1>4. \A i \in 1 .. n : \A t : Natural(0, i - 1, t, t) =>
        Natural(0, i, ChunkStep(vi, bs, t, up[i]), ChunkStep(vi, bs, t, up[i]))
  BY <1>3 DEF Natural
<1>5. FV!Fold(vi, bs, 0, up) \in Nat
  <2>. HIDE DEF up
  <2>1. Natural(0, n, FV!Fold(vi, bs, 0, up), FV!Fold(vi, bs, 0, up))
    BY <1>1, <1>2, <1>4, FV!FoldKeeps
  <2>. QED BY <2>1 DEF Natural
<1> DEFINE sum == FoldLeft(LAMBDA v, i : v + (R!Chunk(vi, bs[i]) * R!TwoTo[(i - 1) * vi.bits]), 0,
                           [i \in 1 .. n |-> i])
<1>6. FV!Fold(vi, bs, 0, up) = sum
  BY DEF FV!Fold, FoldLeft, FV!FoldLeft, ChunkStep, MapThenFoldSet, FV!MapThenFoldSet, Max, FV!Max
<1>7. R!Value(vi, bs, n) = sum % (R!MaxWord + 1)
  BY DEF R!Value, FoldLeft, R!FoldLeft, MapThenFoldSet, R!MapThenFoldSet, Max, R!Max
<1>. HIDE DEF sum
<1>8. R!MaxWord + 1 \in Nat /\ R!MaxWord + 1 > 0
  BY TwoToNat, WordBitsAssumption DEF R!MaxWord
<1>. QED BY <1>5, <1>6, <1>7, <1>8, ModNat

LEMMA ContReads ==
  ASSUME NEW bs \in Seq(Nat), NEW vi, VarintWritten(vi), vi.enc # "prefix"
  PROVE  VarintRead(R!RustParseCont(vi, bs), bs)
<1>1. CASE R!LastByte(vi, bs) = {}
  BY <1>1 DEF R!RustParseCont, VarintRead, R!NotParsed
<1>2. CASE R!LastByte(vi, bs) # {}
  <2> DEFINE n == R!OnlyOne(R!LastByte(vi, bs))
  <2>1. n \in R!LastByte(vi, bs)
    BY <1>2 DEF R!OnlyOne
  <2>2. n \in 0 .. Len(bs)
    BY <2>1 DEF R!LastByte, R!SmallerOf, VarintWritten
  <2>. HIDE DEF n
  <2>3. R!Value(vi, bs, n) \in Nat
    BY <2>2, ValueIsNat DEF VarintWritten
  <2>4. R!RustParseCont(vi, bs) = R!Parsed(R!Value(vi, bs, n), n)
    BY <1>2 DEF R!RustParseCont, R!RustTakeCont, n
  <2>. QED BY <2>2, <2>3, <2>4 DEF VarintRead, R!Parsed
<1>. QED BY <1>1, <1>2

LEMMA VarintReads ==
  ASSUME NEW bs \in Seq(Nat), NEW vi, VarintWritten(vi)
  PROVE  VarintRead(R!RustParse(vi, bs), bs)
BY PrefixReads, ContReads DEF R!RustParse

---------------------------------------------------------------------------
(* Steps of a run of parse code                                            *)

LEMMA MovesOn ==
  ASSUME NEW s, NEW r, NEW q, Sane(s), Moves(s, r), Moves(r, q)
  PROVE  Moves(s, q)
BY DEF Moves, Sane, Forward, Window

LEMMA StaysPut == ASSUME NEW s, Sane(s) PROVE Reads(s, s)
BY DEF Reads, Moves, Sane, Forward, Window

LEMMA Fails == ASSUME NEW s, Sane(s), NEW e, e # "ok" PROVE Reads(s, R!Fail(s, e))
BY DEF Reads, Moves, Sane, Fields, R!Fail

LEMMA Yields == ASSUME NEW s, Sane(s), NEW x PROVE Reads(s, R!Yield(s, x))
BY DEF Reads, Moves, Sane, Fields, R!Yield, Forward, Window

LEMMA PartIs ==
  ASSUME NEW bs \in Seq(Nat), NEW a \in Nat, NEW b \in Nat, a <= b, b <= Len(bs)
  PROVE  /\ SubSeq(bs, a + 1, b) \in Seq(Nat)
         /\ Len(SubSeq(bs, a + 1, b)) = b - a
         /\ \A i \in 1 .. b - a : SubSeq(bs, a + 1, b)[i] = bs[a + i]
OBVIOUS

LEMMA NumberReads ==
  ASSUME NEW s, Sane(s), s.err = "ok", NEW n \in Nat, NEW e
  PROVE  /\ Reads(s, R!ReadNumber(s, n, e))
         /\ R!ReadNumber(s, n, e).err = "ok" => R!ReadNumber(s, n, e).v \in Nat
<1>1. CASE ~R!Fits(s.cur, n)
  <2>1. R!ReadNumber(s, n, e) = R!Fail(s, "ShortBuffer")
    BY <1>1 DEF R!ReadNumber
  <2>2. R!Fail(s, "ShortBuffer").err # "ok"
    BY DEF R!Fail, Sane, Fields
  <2>. QED BY <2>1, <2>2, Fails
<1>2. CASE R!Fits(s.cur, n)
  <2> DEFINE r == R!ReadNumber(s, n, e)
             x == R!Number(R!Slice(s.data, R!View(s.cur, n)), e)
  <2>1. r = [s EXCEPT !.v = x, !.cur = R!Advance(@, n)]
    BY <1>2 DEF R!ReadNumber
  <2>2. x \in Nat
    <3> DEFINE bs == s.data
               lo == s.cur.pos
               hi == s.cur.pos + n
    <3>0. bs \in Seq(Nat) /\ lo \in Nat /\ hi \in Nat /\ lo <= hi /\ hi <= Len(bs)
      BY <1>2 DEF Sane, Window, R!Fits
    <3>. HIDE DEF bs, lo, hi
    <3>1. R!Slice(s.data, R!View(s.cur, n)) \in Seq(Nat)
      <4>1. SubSeq(bs, lo + 1, hi) \in Seq(Nat)
        BY <3>0, PartIs
      <4>2. R!Slice(s.data, R!View(s.cur, n)) = SubSeq(bs, lo + 1, hi)
        BY DEF R!Slice, R!View, bs, lo, hi
      <4>. QED BY <4>1, <4>2
    <3>. QED BY <3>1, NumberIsNat
  <2>. HIDE DEF x
  <2>3. R!Advance(s.cur, n) = [s.cur EXCEPT !.pos = s.cur.pos + n]
    BY DEF R!Advance
  <2>4. Window(R!Advance(s.cur, n), s.data) /\ Forward(s.cur, R!Advance(s.cur, n))
    BY <1>2, <2>3 DEF Sane, Window, Forward, R!Fits
  <2>5. r.v = x /\ r.cur = R!Advance(s.cur, n) /\ DOMAIN r = Fields
        /\ r.data = s.data /\ r.calls = s.calls /\ r.env = s.env /\ r.groups = s.groups /\ r.at = s.at
        /\ r.err = "ok" /\ r.views = s.views
    BY <2>1 DEF Sane, Fields
  <2>. HIDE DEF r
  <2>6. \A w \in r.views : InScope(w, r.cur)
    BY <2>4, <2>5 DEF Sane, InScope, Forward, Window
  <2>7. Reads(s, r)
    BY <2>4, <2>5, <2>6 DEF Reads, Moves, Sane
  <2>. QED BY <2>2, <2>5, <2>7 DEF r
<1>. QED BY <1>1, <1>2

LEMMA BytesReads ==
  ASSUME NEW s, Sane(s), s.err = "ok", NEW n \in Nat
  PROVE  Reads(s, R!ReadBytes(s, n))
<1>1. CASE ~R!Fits(s.cur, n)
  BY <1>1, Fails DEF R!ReadBytes
<1>2. CASE R!Fits(s.cur, n)
  <2> DEFINE r == R!ReadBytes(s, n)
             w == [view |-> R!View(s.cur, n), lo |-> s.cur.lo, hi |-> s.cur.hi]
             x == R!Slice(s.data, R!View(s.cur, n))
  <2>1. r = [s EXCEPT !.v = x, !.cur = R!Advance(@, n), !.views = @ \cup {w}]
    BY <1>2 DEF R!ReadBytes
  <2>2. R!Advance(s.cur, n) = [s.cur EXCEPT !.pos = s.cur.pos + n]
    BY DEF R!Advance
  <2>3. n \in Nat /\ s.cur.pos + n <= s.cur.hi /\ Window(s.cur, s.data)
    BY <1>2 DEF Sane, R!Fits
  <2>4. Window(R!Advance(s.cur, n), s.data) /\ Forward(s.cur, R!Advance(s.cur, n))
    BY <2>2, <2>3 DEF Window, Forward
  <2>5. InScope(w, R!Advance(s.cur, n))
    BY <2>2, <2>3 DEF Window, InScope, R!View
  <2>. HIDE DEF x, w
  <2>6. r.cur = R!Advance(s.cur, n) /\ DOMAIN r = Fields
        /\ r.data = s.data /\ r.calls = s.calls /\ r.env = s.env /\ r.groups = s.groups /\ r.at = s.at
        /\ r.err = "ok" /\ r.views = s.views \cup {w}
    BY <1>2, <2>1 DEF Sane, Fields
  <2>. HIDE DEF r
  <2>7. \A y \in r.views : InScope(y, r.cur)
    <3>1. \A y \in s.views : InScope(y, R!Advance(s.cur, n))
      BY <2>4 DEF Sane, InScope, Forward, Window
    <3>. QED BY <2>5, <2>6, <3>1
  <2>8. Reads(s, r)
    BY <2>4, <2>6, <2>7 DEF Reads, Moves, Sane
  <2>. QED BY <2>8 DEF r
<1>. QED BY <1>1, <1>2

LEMMA RemainingReads ==
  ASSUME NEW s, Sane(s), s.err = "ok"
  PROVE  Reads(s, R!ReadRemaining(s))
<1>1. R!Remaining(s.cur) \in Nat
  BY DEF Sane, Window, R!Remaining
<1>. QED BY <1>1, BytesReads DEF R!ReadRemaining

LEMMA VarintFieldReads ==
  ASSUME NEW s, Sane(s), s.err = "ok", NEW vi, VarintWritten(vi)
  PROVE  /\ Reads(s, R!ReadVarint(s, vi))
         /\ R!ReadVarint(s, vi).err = "ok" => R!ReadVarint(s, vi).v \in Nat
<1> DEFINE bs == R!Ahead(s)
           o == R!RustParse(vi, bs)
           r == R!ReadVarint(s, vi)
<1>0. Window(s.cur, s.data)
  BY DEF Sane
<1>1. bs \in Seq(Nat) /\ Len(bs) = s.cur.hi - s.cur.pos
  <2>1. bs = SubSeq(s.data, s.cur.pos + 1, s.cur.hi)
    BY DEF R!Ahead, R!Slice
  <2>2. s.data \in Seq(Nat) /\ s.cur.pos \in Nat /\ s.cur.hi \in Nat
        /\ s.cur.pos <= s.cur.hi /\ s.cur.hi <= Len(s.data)
    BY <1>0 DEF Sane, Window
  <2>. HIDE DEF bs
  <2>. QED BY <2>1, <2>2, PartIs
<1>2. r = [s EXCEPT !.v = o.v, !.err = o.err, !.cur = R!Advance(@, o.n)]
  BY DEF R!ReadVarint, R!Took
<1>. HIDE DEF bs
<1>3. VarintRead(o, bs)
  BY <1>1, VarintReads
<1>. HIDE DEF o
<1>4. r.v = o.v /\ r.err = o.err /\ r.cur = R!Advance(s.cur, o.n) /\ DOMAIN r = Fields
      /\ r.data = s.data /\ r.calls = s.calls /\ r.env = s.env /\ r.groups = s.groups /\ r.at = s.at
      /\ r.views = s.views
  BY <1>2 DEF Sane, Fields
<1>. HIDE DEF r
<1>5. CASE r.err # "ok"
  <2>1. Reads(s, r)
    BY <1>4, <1>5 DEF Reads, Moves, Sane
  <2>. QED BY <1>5, <2>1 DEF r
<1>6. CASE r.err = "ok"
  <2>1. o.v \in Nat /\ o.n \in 0 .. Len(bs)
    BY <1>3, <1>4, <1>6 DEF VarintRead
  <2>2. r.cur = [s.cur EXCEPT !.pos = s.cur.pos + o.n]
    BY <1>4 DEF R!Advance
  <2> DEFINE m == o.n
  <2>6. m \in Nat /\ m <= s.cur.hi - s.cur.pos
    BY <1>0, <1>1, <2>1 DEF Window
  <2>7. r.cur = [s.cur EXCEPT !.pos = s.cur.pos + m]
    BY <2>2
  <2>. HIDE DEF m
  <2>3. Window(r.cur, s.data) /\ Forward(s.cur, r.cur)
    BY <1>0, <2>6, <2>7 DEF Window, Forward
  <2>4. \A w \in r.views : InScope(w, r.cur)
    BY <1>4, <2>3 DEF Sane, InScope, Forward, Window
  <2>5. Reads(s, r)
    BY <1>4, <2>3, <2>4 DEF Reads, Moves, Sane
  <2>. QED BY <1>4, <2>1, <2>5 DEF r
<1>. QED BY <1>5, <1>6

LEMMA TypeReads ==
  ASSUME NEW s, Sane(s), s.err = "ok", NEW name, Compiled(name)
  PROVE  Reads(s, R!ParseType(s, name))
<1> DEFINE o == s.calls[[name |-> name, cur |-> s.cur]]
           r == R!ParseType(s, name)
<1>0. Window(s.cur, s.data) /\ CallsLeave(s.data, s.calls)
  BY DEF Sane
<1>1. Leaves(s.data, s.cur, o)
  BY <1>0 DEF CallsLeave
<1>2. r = [s EXCEPT !.v = o.v, !.err = o.err, !.cur = o.cur, !.views = @ \cup o.views]
  BY DEF R!ParseType
<1>. HIDE DEF o
<1>3. r.err = o.err /\ r.cur = o.cur /\ DOMAIN r = Fields
      /\ r.data = s.data /\ r.calls = s.calls /\ r.env = s.env /\ r.groups = s.groups /\ r.at = s.at
      /\ r.views = s.views \cup o.views
  BY <1>2 DEF Sane, Fields
<1>. HIDE DEF r
<1>4. r.err = "ok" => Window(r.cur, s.data) /\ Forward(s.cur, r.cur) /\ \A w \in o.views : InScope(w, r.cur)
  BY <1>1, <1>3 DEF Leaves
<1>5. r.err = "ok" => \A w \in s.views : InScope(w, r.cur)
  BY <1>0, <1>4 DEF Sane, InScope, Forward, Window
<1>6. Reads(s, r)
  BY <1>3, <1>4, <1>5 DEF Reads, Moves, Sane
<1>. QED BY <1>6 DEF r

LEMMA ValueReads ==
  ASSUME NEW s, Sane(s), s.err = "ok", NEW ty, Readable(ty), NEW e
  PROVE  /\ Reads(s, R!ReadValue(s, ty, e))
         /\ IntegerLike(ty) /\ R!ReadValue(s, ty, e).err = "ok" => R!ReadValue(s, ty, e).v \in Nat
<1>1. CASE ty.k \in {"num", "enum"} /\ ty.w \in Nat
  <2>1. R!ReadValue(s, ty, e) \in { R!ReadNumber(s, ty.w, e), R!ReadNumber(s, ty.w, ty.e) }
    BY <1>1 DEF R!ReadValue
  <2>. QED BY <1>1, <2>1, NumberReads
<1>2. CASE ty.k = "varint" /\ VarintWritten(ty.vi)
  <2>1. R!ReadValue(s, ty, e) = R!ReadVarint(s, ty.vi)
    BY <1>2 DEF R!ReadValue
  <2>. QED BY <1>2, <2>1, VarintFieldReads
<1>3. CASE ty.k = "type" /\ Compiled(ty.of)
  <2>1. R!ReadValue(s, ty, e) = R!ParseType(s, ty.of)
    BY <1>3 DEF R!ReadValue
  <2>2. ~IntegerLike(ty)
    BY <1>3 DEF IntegerLike
  <2>. QED BY <1>3, <2>1, <2>2, TypeReads
<1>. QED BY <1>1, <1>2, <1>3 DEF Readable, Compiled

---------------------------------------------------------------------------
(* What is computed from the variables                                     *)

LEMMA EvalIsNat ==
  ASSUME NEW env, NEW k, EnvTyped(env, k), NEW e, IsInteger(e, k), ExprRefs(e) \subseteq DOMAIN env
  PROVE  R!Eval(e, env) \in Nat
<1>1. CASE e.op = "lit" /\ e.v \in Nat
  BY <1>1 DEF R!Eval
<1>2. CASE e.op \in {"ref", "ge"} /\ e.f \in k.ints
  BY <1>2 DEF R!Eval, EnvTyped, ExprRefs
<1>3. CASE e.op = "sub" /\ e.f \in k.ints /\ e.w \in Nat /\ e.v \in 0 .. TwoTo[e.w] - 1
  <2>1. env[e.f] \in Nat /\ TwoTo[e.w] = R!TwoTo[e.w] /\ R!TwoTo[e.w] \in Nat
    BY <1>3, TwoToNat DEF EnvTyped, ExprRefs, TwoTo, R!TwoTo
  <2>2. R!Eval(e, env) = R!Less(env[e.f], e.v, e.w)
    BY <1>3 DEF R!Eval
  <2>. QED BY <1>3, <2>1, <2>2 DEF R!Less
<1>4. CASE e.op = "bit" /\ e.f \in k.ints /\ e.v \in Nat \ {0}
  <2>1. env[e.f] \in Nat
    BY <1>4 DEF EnvTyped, ExprRefs
  <2>3. \A m \in Nat : m % 2 \in Nat
    OBVIOUS
  <2>4. env[e.f] \div e.v \in Nat
    BY <1>4, <2>1, DivNat
  <2>5. R!Eval(e, env) = (env[e.f] \div e.v) % 2
    BY <1>4 DEF R!Eval
  <2>. QED BY <2>3, <2>4, <2>5
<1>5. CASE e.op = "or0" /\ e.f \in k.opts /\ e.v \in Nat
  BY <1>5 DEF R!Eval, EnvTyped, ExprRefs
<1>. QED BY <1>1, <1>2, <1>3, <1>4, <1>5 DEF IsInteger

Assigned(es, env) == \A e \in es : ExprRefs(e) \subseteq DOMAIN env

LEMMA BytesFieldReads ==
  ASSUME NEW s, Sane(s), s.err = "ok", NEW k, EnvTyped(s.env, k),
         NEW ty, BytesTyped(ty, k), Assigned(Sizes(ty), s.env)
  PROVE  Reads(s, R!ReadBytesField(s, ty))
<1>1. CASE ty.kind = "fixed" /\ ty.n \in Nat
  BY <1>1, BytesReads DEF R!ReadBytesField
<1>2. CASE ty.kind = "length" /\ IsInteger(ty.n, k)
  <2>1. Sizes(ty) = {ty.n}
    BY <1>2 DEF Sizes, BytesTyped
  <2>2. R!Eval(ty.n, s.env) \in Nat
    BY <1>2, <2>1, EvalIsNat DEF Assigned
  <2>. QED BY <1>2, <2>2, BytesReads DEF R!ReadBytesField
<1>3. CASE ty.kind = "remaining"
  BY <1>3, RemainingReads DEF R!ReadBytesField
<1>4. CASE ty.kind = "lor" /\ ty.n.op = "ref" /\ ty.n.f \in k.opts
  <2>1. Sizes(ty) = {ty.n}
    BY <1>4 DEF Sizes, BytesTyped
  <2>2. s.env[ty.n.f] # <<>> => s.env[ty.n.f][1] \in Nat
    BY <1>4, <2>1 DEF Assigned, ExprRefs, EnvTyped
  <2>. QED BY <1>4, <2>2, BytesReads, RemainingReads DEF R!ReadBytesField
<1>. QED BY <1>1, <1>2, <1>3, <1>4 DEF BytesTyped

---------------------------------------------------------------------------
(* Arrays                                                                  *)

LEMMA ReadsAll ==
  ASSUME NEW s, NEW r, NEW q, Sane(s), Reads(s, r), Reads(r, q)
  PROVE  Reads(s, q)
BY MovesOn DEF Reads

LEMMA ElementReads ==
  ASSUME NEW s, Sane(s), s.err = "ok", NEW ty, Readable(ty.el), NEW xs
  PROVE  /\ Reads(s, R!ReadElement(s, ty, xs))
         /\ LET r == R!ReadElement(s, ty, xs)
            IN  r.err = "ok" => r.v = Append(xs, R!ReadValue(s, ty.el, "none").v)
<1> DEFINE q == R!ReadValue(s, ty.el, "none")
           r == R!ReadElement(s, ty, xs)
<1>1. Reads(s, q)
  BY ValueReads
<1>2. r = IF q.err # "ok" THEN q ELSE R!Yield(q, Append(xs, q.v))
  BY DEF R!ReadElement, R!Appended
<1>. HIDE DEF q, r
<1>3. Sane(q)
  BY <1>1 DEF Reads, Moves
<1>4. Reads(q, r)
  BY <1>2, <1>3, Yields, StaysPut
<1>5. q.err = "ok" => r.v = Append(xs, q.v)
  BY <1>2, <1>3 DEF R!Yield, Sane, Fields
<1>6. r.err = "ok" => q.err = "ok"
  BY <1>2
<1>7. Reads(s, r)
  BY <1>1, <1>4, ReadsAll
<1>. QED BY <1>5, <1>6, <1>7 DEF q, r

LEMMA CountedReads ==
  ASSUME NEW s, Sane(s), s.err = "ok", NEW ty, Readable(ty.el), NEW n \in Nat
  PROVE  Reads(s, R!ReadCounted(s, ty, n))
<1>1. CASE n > ty.max
  BY <1>1, Fails DEF R!ReadCounted
<1>2. CASE ~(n > ty.max)
  <2> DEFINE up == [i \in 1 .. n |-> i]
             base == R!Yield(s, <<>>)
  <2>1. DOMAIN up = 1 .. n
    OBVIOUS
  <2>. HIDE DEF up
  <2>2. ReadsOn(s, 0, base, base)
    BY Yields DEF ReadsOn
  <2>3. ASSUME NEW i, NEW t, Reads(s, t)
        PROVE  Reads(s, CountStep(ty, 0, t, i))
    <3>1. CASE t.err # "ok"
      BY <2>3, <3>1 DEF CountStep
    <3>2. CASE t.err = "ok"
      <4>1. Sane(t)
        BY <2>3 DEF Reads, Moves
      <4>2. Reads(t, R!ReadElement(t, ty, t.v))
        BY <3>2, <4>1, ElementReads
      <4>3. CountStep(ty, 0, t, i) = R!ReadElement(t, ty, t.v)
        BY <3>2 DEF CountStep
      <4>. QED BY <2>3, <4>2, <4>3, ReadsAll
    <3>. QED BY <3>1, <3>2
  <2>4. \A i \in 1 .. n : \A t : ReadsOn(s, i - 1, t, t) =>
          ReadsOn(s, i, CountStep(ty, 0, t, up[i]), CountStep(ty, 0, t, up[i]))
    BY <2>3 DEF ReadsOn
  <2>5. Reads(s, FC!Fold(ty, 0, base, up))
    <3>. HIDE DEF base
    <3>1. ReadsOn(s, n, FC!Fold(ty, 0, base, up), FC!Fold(ty, 0, base, up))
      BY <2>1, <2>2, <2>4, FC!FoldKeeps
    <3>. QED BY <3>1 DEF ReadsOn
  <2>6. R!ReadCounted(s, ty, n) =
          FoldLeft(LAMBDA t, i : IF t.err # "ok" THEN t ELSE R!ReadElement(t, ty, t.v), base, up)
    BY <1>2 DEF R!ReadCounted, up, FoldLeft, R!FoldLeft, MapThenFoldSet, R!MapThenFoldSet, Max, R!Max
  <2>7. FC!Fold(ty, 0, base, up) =
          FoldLeft(LAMBDA t, i : IF t.err # "ok" THEN t ELSE R!ReadElement(t, ty, t.v), base, up)
    BY DEF FC!Fold, FoldLeft, FC!FoldLeft, CountStep, MapThenFoldSet, FC!MapThenFoldSet, Max, FC!Max
  <2>. QED BY <2>5, <2>6, <2>7
<1>. QED BY <1>1, <1>2

LEMMA ListedEmpty == Listed(<<>>, 0)
<1>1. <<>> \in Seq({})
  OBVIOUS
<1>. QED BY <1>1 DEF Listed

LEMMA ListedAppend ==
  ASSUME NEW x, NEW n \in Nat, Listed(x, n), NEW e
  PROVE  Listed(Append(x, e), n + 1)
<1>1. PICK S : x \in Seq(S)
  BY DEF Listed
<1>2. x \in Seq(S \cup {e})
  BY <1>1
<1>3. Append(x, e) \in Seq(S \cup {e}) /\ Len(Append(x, e)) = Len(x) + 1
  BY <1>2
<1>. QED BY <1>3 DEF Listed

(* An array without a count reads its scope to the end.                    *)
LEMMA FillReads ==
  ASSUME NEW s, Sane(s), NEW ty, Readable(ty.el), ty.max \in Nat
  PROVE  /\ Reads(s, R!ReadFill(s, ty))
         /\ R!ReadFill(s, ty).err = "ok" => R!ReadFill(s, ty).cur.pos = R!ReadFill(s, ty).cur.hi
<1> DEFINE n == ty.max + 1
           up == [i \in 1 .. n |-> i]
           base == R!Yield(s, <<>>)
           d == [start |-> s, max |-> ty.max]
<1>1. n \in Nat /\ DOMAIN up = 1 .. n
  OBVIOUS
<1>2. FillsOn(d, 0, base, base)
  <2>1. Reads(s, base)
    BY Yields
  <2>2. base.v = <<>>
    BY DEF R!Yield, Sane, Fields
  <2>. HIDE DEF base
  <2>. QED BY <2>1, <2>2, ListedEmpty DEF FillsOn
<1>3. ASSUME NEW i \in 1 .. n, NEW t, FillsOn(d, i - 1, t, t)
      PROVE  FillsOn(d, i, FillStep(ty, 0, t, i), FillStep(ty, 0, t, i))
  <2> DEFINE r == FillStep(ty, 0, t, i)
  <2>0. Sane(t) /\ Reads(s, t)
    BY <1>3 DEF FillsOn, Reads, Moves
  <2>1. CASE t.err # "ok" \/ R!Remaining(t.cur) = 0
    <3>1. r = t
      BY <2>1 DEF FillStep
    <3>2. t.err = "ok" => t.cur.pos = t.cur.hi
      BY <2>0, <2>1 DEF Sane, Window, R!Remaining
    <3>. QED BY <2>0, <3>1, <3>2 DEF FillsOn
  <2>2. CASE t.err = "ok" /\ R!Remaining(t.cur) # 0 /\ Len(t.v) >= ty.max
    <3>1. r = R!Fail(t, "Capacity")
      BY <2>2 DEF FillStep
    <3>2. r.err # "ok"
      BY <2>0, <3>1 DEF R!Fail, Sane, Fields
    <3>3. Reads(t, r)
      BY <2>0, <3>1, Fails
    <3>. HIDE DEF r
    <3>4. Reads(s, r)
      BY <2>0, <3>3, ReadsAll
    <3>5. FillsOn(d, i, r, r)
      BY <3>2, <3>4 DEF FillsOn
    <3>. QED BY <3>5 DEF r
  <2>3. CASE t.err = "ok" /\ R!Remaining(t.cur) # 0 /\ ~(Len(t.v) >= ty.max)
    <3>1. r = R!ReadElement(t, ty, t.v)
      BY <2>3 DEF FillStep
    <3>2. t.cur.pos # t.cur.hi
      BY <2>0, <2>3 DEF Sane, Window, R!Remaining
    <3> DEFINE j == i - 1
    <3>0. j \in Nat /\ i = j + 1
      OBVIOUS
    <3>3. Listed(t.v, j) /\ j <= ty.max
      BY <1>3, <2>3, <3>2 DEF FillsOn
    <3>4. Reads(t, r) /\ (r.err = "ok" => r.v = Append(t.v, R!ReadValue(t, ty.el, "none").v))
      BY <2>0, <2>3, <3>1, ElementReads
    <3>. HIDE DEF r, j
    <3>5. i <= ty.max
      BY <2>3, <3>0, <3>3 DEF Listed
    <3>6. r.err = "ok" => Listed(r.v, j + 1)
      BY <3>0, <3>3, <3>4, ListedAppend
    <3>7. Reads(s, r)
      BY <2>0, <3>4, ReadsAll
    <3>8. FillsOn(d, i, r, r)
      BY <3>0, <3>5, <3>6, <3>7 DEF FillsOn
    <3>. QED BY <3>8 DEF r
  <2>. QED BY <2>1, <2>2, <2>3
<1> DEFINE r == FF!Fold(ty, 0, base, up)
<1>4. FillsOn(d, n, r, r)
  <2>1. \A i \in 1 .. n : up[i] = i
    OBVIOUS
  <2>2. \A i \in 1 .. n : \A t : FillsOn(d, i - 1, t, t) =>
          FillsOn(d, i, FillStep(ty, 0, t, up[i]), FillStep(ty, 0, t, up[i]))
    BY <1>3, <2>1
  <2>. HIDE DEF d, base, up, n
  <2>. QED BY <1>1, <1>2, <2>2, FF!FoldKeeps
<1> DEFINE q == FoldLeft(LAMBDA t, i : IF t.err # "ok" \/ R!Remaining(t.cur) = 0 THEN t
                                       ELSE IF Len(t.v) >= ty.max THEN R!Fail(t, "Capacity")
                                       ELSE R!ReadElement(t, ty, t.v),
                         R!Yield(s, <<>>), [i \in 1 .. ty.max + 1 |-> i])
<1>5. R!ReadFill(s, ty) = q
  BY DEF R!ReadFill, FoldLeft, R!FoldLeft, MapThenFoldSet, R!MapThenFoldSet, Max, R!Max
<1>6. r = q
  BY DEF FF!Fold, FoldLeft, FF!FoldLeft, FillStep, MapThenFoldSet, FF!MapThenFoldSet, Max, FF!Max
<1>7. R!ReadFill(s, ty) = r
  BY <1>5, <1>6
<1>. HIDE DEF r, q
<1>8. Reads(s, r) /\ (r.err = "ok" /\ r.cur.pos # r.cur.hi => n <= ty.max)
  BY <1>4 DEF FillsOn
<1>. QED BY <1>7, <1>8

(* A cursor over the next n bytes.                                         *)
LEMMA WithinIs ==
  ASSUME NEW s, Sane(s), s.err = "ok", NEW n \in Nat
  PROVE  LET w == R!Within(s, n)
         IN  /\ Sane(w) /\ w.data = s.data /\ w.calls = s.calls /\ w.env = s.env
             /\ w.groups = s.groups /\ w.at = s.at /\ w.views = s.views
             /\ w.err = "ok" => /\ n \in Nat /\ s.cur.pos + n <= s.cur.hi
                                /\ w.cur.lo = s.cur.pos /\ w.cur.pos = s.cur.pos /\ w.cur.hi = s.cur.pos + n
<1> DEFINE w == R!Within(s, n)
<1>0. Window(s.cur, s.data)
  BY DEF Sane
<1>1. CASE ~R!Fits(s.cur, n)
  <2>1. w = R!Fail(s, "ShortBuffer")
    BY <1>1 DEF R!Within
  <2>2. w.err # "ok" /\ w.views = s.views
    BY <2>1 DEF R!Fail, Sane, Fields
  <2>3. Reads(s, w)
    BY <2>1, Fails
  <2>. QED BY <2>2, <2>3 DEF Reads, Moves
<1>2. CASE R!Fits(s.cur, n)
  <2>1. w = [s EXCEPT !.cur = R!SubCursor(@, n)]
    BY <1>2 DEF R!Within
  <2>2. n \in Nat /\ s.cur.pos + n <= s.cur.hi
    BY <1>0, <1>2 DEF R!Fits, Window
  <2>3. R!SubCursor(s.cur, n) = [lo |-> s.cur.pos, pos |-> s.cur.pos, hi |-> s.cur.pos + n]
    BY DEF R!SubCursor, R!NewCursor
  <2>4. Window(R!SubCursor(s.cur, n), s.data) /\ R!SubCursor(s.cur, n).pos = s.cur.pos
    BY <1>0, <2>2, <2>3 DEF Window
  <2>5. w.cur = R!SubCursor(s.cur, n) /\ w.err = s.err /\ w.data = s.data /\ w.calls = s.calls /\ w.env = s.env
        /\ w.groups = s.groups /\ w.at = s.at /\ w.views = s.views /\ DOMAIN w = Fields
    BY <2>1 DEF Sane, Fields
  <2>. HIDE DEF w
  <2>6. \A v \in w.views : InScope(v, w.cur)
    BY <2>4, <2>5 DEF Sane, InScope
  <2>7. Sane(w)
    BY <2>4, <2>5, <2>6 DEF Sane
  <2>. QED BY <2>2, <2>3, <2>5, <2>7 DEF w
<1>. QED BY <1>1, <1>2

LEMMA BehindMoves ==
  ASSUME NEW s, Sane(s), s.err = "ok", NEW n \in Nat, NEW r, Moves(R!Within(s, n), r),
         NEW q, q = R!Behind(s, n, r)
  PROVE  /\ Moves(s, q) /\ q.err = r.err /\ q.env = r.env /\ q.groups = r.groups /\ q.at = r.at
         /\ q.v = r.v /\ q.views = r.views
         /\ q.err = "ok" => n \in Nat /\ q.cur.pos = s.cur.pos + n
                            /\ r.cur.pos <= r.cur.hi /\ r.cur.hi = s.cur.pos + n
<1> DEFINE w == R!Within(s, n)
<1>0. Window(s.cur, s.data) /\ Sane(r) /\ r.data = s.data /\ r.calls = s.calls
  BY WithinIs DEF Sane, Moves
<1>1. CASE r.err # "ok"
  <2>1. q = r
    BY <1>1 DEF R!Behind
  <2>. QED BY <1>0, <1>1, <2>1 DEF Moves
<1>2. CASE r.err = "ok"
  <2>0. w.err = "ok" /\ Forward(w.cur, r.cur)
    BY <1>2 DEF Moves
  <2>1. q = [r EXCEPT !.cur = R!Advance(s.cur, n)]
    BY <1>2 DEF R!Behind
  <2>2. n \in Nat /\ s.cur.pos + n <= s.cur.hi
        /\ w.cur.lo = s.cur.pos /\ w.cur.pos = s.cur.pos /\ w.cur.hi = s.cur.pos + n
    BY <2>0, WithinIs
  <2>3. R!Advance(s.cur, n) = [lo |-> s.cur.lo, pos |-> s.cur.pos + n, hi |-> s.cur.hi]
    BY <1>0 DEF R!Advance, Window
  <2>4. Window(R!Advance(s.cur, n), s.data) /\ Forward(s.cur, R!Advance(s.cur, n))
    BY <1>0, <2>2, <2>3 DEF Window, Forward
  <2>5. r.cur.pos <= r.cur.hi /\ r.cur.hi = s.cur.pos + n
    BY <1>0, <1>2, <2>0, <2>2 DEF Sane, Window, Forward
  <2>6. \A v \in r.views : InScope(v, R!Advance(s.cur, n))
    BY <1>0, <1>2, <2>2, <2>3, <2>5 DEF Sane, InScope, Window
  <2>7. q.cur = R!Advance(s.cur, n) /\ q.err = "ok" /\ q.data = r.data /\ q.calls = r.calls /\ q.env = r.env
        /\ q.groups = r.groups /\ q.at = r.at /\ q.v = r.v /\ q.views = r.views /\ DOMAIN q = Fields
    BY <1>0, <1>2, <2>1 DEF Sane, Fields
  <2>8. Moves(s, q)
    BY <1>0, <2>4, <2>6, <2>7 DEF Moves, Sane
  <2>. QED BY <1>2, <2>2, <2>3, <2>5, <2>7, <2>8
<1>. QED BY <1>1, <1>2

LEMMA FillWithinReads ==
  ASSUME NEW s, Sane(s), s.err = "ok", NEW ty, Readable(ty.el), ty.max \in Nat, NEW n \in Nat
  PROVE  Reads(s, R!ReadFillWithin(s, ty, n))
<1> DEFINE w == R!Within(s, n)
           r == R!ReadFill(w, ty)
<1>1. Sane(w) /\ w.env = s.env /\ w.groups = s.groups /\ w.at = s.at
  BY WithinIs
<1>2. Reads(w, r)
  <2>. HIDE DEF w
  <2>. QED BY <1>1, FillReads
<1>. HIDE DEF r
<1> DEFINE q == R!ReadFillWithin(s, ty, n)
<1>3. q = R!Behind(s, n, r)
  BY DEF R!ReadFillWithin, r
<1>. HIDE DEF q
<1>4. Moves(s, q) /\ q.env = r.env /\ q.groups = r.groups /\ q.at = r.at
  <2>1. Moves(R!Within(s, n), r)
    BY <1>2 DEF Reads
  <2>. QED BY <1>3, <2>1, BehindMoves
<1>. QED BY <1>1, <1>2, <1>4 DEF Reads, q

LEMMA ArrayReads ==
  ASSUME NEW s, Sane(s), s.err = "ok", NEW k, EnvTyped(s.env, k),
         NEW ty, ArrayTyped(ty, k), Assigned(Sizes(ty), s.env)
  PROVE  Reads(s, R!ReadArray(s, ty))
<1>0. Sizes(ty) = Range(ty.count) \cup Range(ty.within) /\ Readable(ty.el) /\ ty.max \in Nat
  BY DEF Sizes, ArrayTyped
<1>1. CASE ty.count # <<>>
  <2>1. IsInteger(ty.count[1], k) /\ ty.count[1] \in Range(ty.count)
    BY <1>1 DEF ArrayTyped, OneInteger, Range
  <2>2. R!Eval(ty.count[1], s.env) \in Nat
    BY <1>0, <2>1, EvalIsNat DEF Assigned
  <2>. QED BY <1>0, <1>1, <2>2, CountedReads DEF R!ReadArray
<1>2. CASE ty.count = <<>> /\ ty.within # <<>>
  <2>1. IsInteger(ty.within[1], k) /\ ty.within[1] \in Range(ty.within)
    BY <1>2 DEF ArrayTyped, OneInteger, Range
  <2>2. R!Eval(ty.within[1], s.env) \in Nat
    BY <1>0, <2>1, EvalIsNat DEF Assigned
  <2>. QED BY <1>0, <1>2, <2>2, FillWithinReads DEF R!ReadArray
<1>3. CASE ty.count = <<>> /\ ty.within = <<>>
  BY <1>0, <1>3, FillReads DEF R!ReadArray
<1>. QED BY <1>1, <1>2, <1>3

---------------------------------------------------------------------------
(* Fields                                                                  *)

(* An optional field holds nothing or one value.                           *)
LEMMA ConditionalReads ==
  ASSUME NEW s, Sane(s), s.err = "ok", NEW k, EnvTyped(s.env, k),
         NEW f, OneInteger(f.cond, k), Readable(f.ty) \/ BytesTyped(f.ty, k), Assigned(Sizes(f.ty), s.env)
  PROVE  LET r == R!ReadConditional(s, f)
         IN  /\ Reads(s, r)
             /\ r.err = "ok" /\ IntegerLike(f.ty) /\ r.v # <<>> => r.v[1] \in Nat
<1> DEFINE r == R!ReadConditional(s, f)
           q == IF f.ty.k = "bytes" THEN R!ReadBytesField(s, f.ty) ELSE R!ReadValue(s, f.ty, f.e)
<1>1. CASE ~R!Holds(f.cond[1], s.env)
  <2>1. r = R!Yield(s, <<>>)
    BY <1>1 DEF R!ReadConditional
  <2>2. r.v = <<>>
    BY <2>1 DEF R!Yield, Sane, Fields
  <2>3. Reads(s, r)
    BY <2>1, Yields
  <2>. QED BY <2>2, <2>3
<1>2. CASE R!Holds(f.cond[1], s.env)
  <2>1. Reads(s, q) /\ (IntegerLike(f.ty) /\ q.err = "ok" => q.v \in Nat)
    <3>1. CASE f.ty.k = "bytes"
      <4>1. BytesTyped(f.ty, k) /\ ~IntegerLike(f.ty)
        BY <3>1 DEF Readable, IntegerLike
      <4>. QED BY <3>1, <4>1, BytesFieldReads
    <3>2. CASE f.ty.k # "bytes"
      <4>1. Readable(f.ty)
        BY <3>2 DEF BytesTyped
      <4>. QED BY <3>2, <4>1, ValueReads
    <3>. QED BY <3>1, <3>2
  <2>2. r = IF q.err # "ok" THEN q ELSE R!Yield(q, <<q.v>>)
    BY <1>2 DEF R!ReadConditional, R!Some
  <2>. HIDE DEF q, r
  <2>3. Sane(q)
    BY <2>1 DEF Reads, Moves
  <2>4. Reads(q, r)
    BY <2>2, <2>3, Yields, StaysPut
  <2>5. r.err = "ok" => q.err = "ok" /\ r.v = <<q.v>>
    BY <2>2, <2>3 DEF R!Yield, Sane, Fields
  <2>6. Reads(s, r)
    BY <2>1, <2>4, ReadsAll
  <2>7. r.err = "ok" /\ IntegerLike(f.ty) => r.v[1] \in Nat
    BY <2>1, <2>5
  <2>. QED BY <2>6, <2>7 DEF r
<1>. QED BY <1>1, <1>2

(* A value of the name's kind is bound to it.                              *)
OfKind(x, name, k) == /\ name \in k.ints => x \in Nat
                      /\ name \in k.opts => (x # <<>> => x[1] \in Nat)

LEMMA AssignKnows ==
  ASSUME NEW env, NEW k, NEW names, Knows(env, k, names), NEW name, NEW x, OfKind(x, name, k)
  PROVE  Knows(R!Assign(env, name, x), k, names)
<1> DEFINE e == R!Assign(env, name, x)
<1>1. /\ DOMAIN e = DOMAIN env \cup {name} /\ e[name] = x
      /\ \A n \in DOMAIN env : n # name => e[n] = env[n]
  BY DEF R!Assign
<1>. HIDE DEF e
<1>2. ASSUME NEW n \in DOMAIN e
      PROVE  /\ n \in k.ints => e[n] \in Nat
             /\ n \in k.opts => (e[n] # <<>> => e[n][1] \in Nat)
  <2>1. CASE n = name
    BY <1>1, <2>1 DEF OfKind
  <2>2. CASE n # name
    <3>1. n \in DOMAIN env /\ e[n] = env[n]
      BY <1>1, <2>2
    <3>. QED BY <3>1 DEF Knows, EnvTyped
  <2>. QED BY <2>1, <2>2
<1>3. EnvTyped(e, k)
  BY <1>2 DEF EnvTyped
<1>4. Knows(e, k, names)
  BY <1>1, <1>3 DEF Knows
<1>. QED BY <1>4 DEF e

LEMMA Binds ==
  ASSUME NEW s, NEW r, NEW name, NEW k, NEW names, NEW q,
         Sane(s), s.err = "ok", Reads(s, r), Has(s, k, names),
         r.err = "ok" => OfKind(r.v, name, k), q = R!Bind(r, name)
  PROVE  /\ Moves(s, q) /\ q.groups = s.groups /\ q.at = s.at
         /\ q.err = "ok" => /\ Has(q, k, names) /\ name \in DOMAIN q.env
                            /\ DOMAIN s.env \subseteq DOMAIN q.env
<1>0. /\ Moves(s, r) /\ Sane(r) /\ r.env = s.env /\ r.groups = s.groups /\ r.at = s.at
      /\ Knows(s.env, k, names)
  BY DEF Reads, Moves, Has
<1>1. CASE r.err # "ok"
  <2>1. q = r
    BY <1>1 DEF R!Bind
  <2>. QED BY <1>0, <1>1, <2>1
<1>2. CASE r.err = "ok"
  <2> DEFINE env == R!Assign(r.env, name, r.v)
  <2>1. q = [r EXCEPT !.env = env]
    BY <1>2 DEF R!Bind
  <2>2. Knows(env, k, names) /\ name \in DOMAIN env /\ DOMAIN s.env \subseteq DOMAIN env
    <3>1. Knows(env, k, names)
      BY <1>0, <1>2, AssignKnows
    <3>2. DOMAIN env = DOMAIN r.env \cup {name}
      BY DEF R!Assign
    <3>. QED BY <1>0, <3>1, <3>2
  <2>. HIDE DEF env
  <2>3. q.env = env /\ q.err = r.err /\ q.cur = r.cur /\ q.data = r.data /\ q.calls = r.calls
        /\ q.groups = r.groups /\ q.at = r.at /\ q.views = r.views /\ DOMAIN q = Fields
    BY <1>0, <2>1 DEF Sane, Fields
  <2>4. Moves(s, q)
    BY <1>0, <2>3 DEF Moves, Sane
  <2>. QED BY <1>0, <2>2, <2>3, <2>4 DEF Has
<1>. QED BY <1>1, <1>2

(* One read binds every member of a bit group.                             *)
LEMMA MembersBound ==
  ASSUME NEW s, Sane(s), s.err = "ok", s.v \in Nat, NEW k, EnvTyped(s.env, k),
         NEW items, NEW n \in Nat, DOMAIN items = 1 .. n, KindsKept(items, k),
         \A i \in 1 .. n : ItemTyped(items[i], k), NEW g, g # 0
  PROVE  LET r == R!BindMembers(s, items, g)
         IN  /\ OnlyBinds(s, r)
             /\ Knows(r.env, k, DOMAIN s.env)
             /\ \A i \in 1 .. n : R!InGroup(items[i], g) => items[i].name \in DOMAIN r.env
<1> DEFINE d == [start |-> s, k |-> k, items |-> items, g |-> g]
           r == FM!Fold(g, 0, s, items)
<1>1. MembersOn(d, 0, s, s)
  <2>1. OnlyBinds(s, s)
    BY DEF Sane, OnlyBinds
  <2>2. Knows(s.env, k, DOMAIN s.env)
    BY DEF Knows
  <2>. QED BY <2>1, <2>2 DEF MembersOn
<1>2. ASSUME NEW i \in 1 .. n, NEW t, MembersOn(d, i - 1, t, t)
      PROVE  MembersOn(d, i, MemberStep(g, 0, t, items[i]), MemberStep(g, 0, t, items[i]))
  <2> DEFINE x == items[i]
  <2>0. /\ OnlyBinds(s, t) /\ Knows(t.env, k, DOMAIN s.env) /\ DOMAIN t = Fields /\ t.v \in Nat
        /\ \A j \in 1 .. i - 1 : R!InGroup(items[j], g) => items[j].name \in DOMAIN t.env
    BY <1>2 DEF MembersOn, OnlyBinds, Sane, Fields
  <2>1. CASE ~R!InGroup(x, g)
    <3>1. MemberStep(g, 0, t, x) = t
      BY <2>1 DEF MemberStep, R!BindMember
    <3>2. \A j \in 1 .. i : R!InGroup(items[j], g) => items[j].name \in DOMAIN t.env
      BY <2>0, <2>1
    <3>3. MembersOn(d, i, t, t)
      BY <2>0, <3>2 DEF MembersOn
    <3>. QED BY <3>1, <3>3
  <2>2. CASE R!InGroup(x, g)
    <3>1. x.it = "field" /\ x.group # 0 /\ x.strategy = "BitGroup" /\ x.ty.n \in Nat /\ x.shift \in Nat
      BY <2>2 DEF R!InGroup, R!IsField, ItemTyped, Placed
    <3> DEFINE val == R!Extract(t.v, x.shift, x.ty.n)
               env == R!Assign(t.env, x.name, val)
               q == MemberStep(g, 0, t, x)
    <3>2. val \in Nat
      <4>1. R!TwoTo[x.shift] \in Nat /\ R!TwoTo[x.shift] > 0 /\ R!TwoTo[x.ty.n] \in Nat /\ R!TwoTo[x.ty.n] > 0
        BY <3>1, TwoToNat
      <4>2. t.v \div R!TwoTo[x.shift] \in Nat
        BY <2>0, <4>1, DivNat
      <4>. QED BY <4>1, <4>2, ModNat DEF R!Extract
    <3>3. OfKind(val, x.name, k)
      BY <3>1, <3>2 DEF OfKind, KindsKept, Optional
    <3>4. Knows(env, k, DOMAIN s.env) /\ DOMAIN env = DOMAIN t.env \cup {x.name}
      <4>1. Knows(env, k, DOMAIN s.env)
        BY <2>0, <3>3, AssignKnows
      <4>2. DOMAIN env = DOMAIN t.env \cup {x.name}
        BY DEF R!Assign
      <4>. QED BY <4>1, <4>2
    <3>5. q = [t EXCEPT !.env = env]
      BY <2>2 DEF MemberStep, R!BindMember
    <3>. HIDE DEF env
    <3>6. q.env = env /\ OnlyBinds(s, q)
      BY <2>0, <3>5 DEF OnlyBinds, Fields
    <3>. HIDE DEF q
    <3>7. \A j \in 1 .. i : R!InGroup(items[j], g) => items[j].name \in DOMAIN q.env
      BY <2>0, <3>4, <3>6
    <3>8. MembersOn(d, i, q, q)
      BY <3>4, <3>6, <3>7 DEF MembersOn
    <3>. QED BY <3>8 DEF q
  <2>. QED BY <2>1, <2>2
<1>3. MembersOn(d, n, r, r)
  <2>1. \A i \in 1 .. n : \A t : MembersOn(d, i - 1, t, t) =>
          MembersOn(d, i, MemberStep(g, 0, t, items[i]), MemberStep(g, 0, t, items[i]))
    BY <1>2
  <2>. HIDE DEF d
  <2>. QED BY <1>1, <2>1, FM!FoldKeeps
<1>4. R!BindMembers(s, items, g) = r
  BY DEF R!BindMembers, FM!Fold, R!FoldLeft, FM!FoldLeft, MemberStep, R!MapThenFoldSet,
     FM!MapThenFoldSet, R!Max, FM!Max
<1>. HIDE DEF r
<1>. QED BY <1>3, <1>4 DEF MembersOn

LEMMA ContainerIsNat ==
  ASSUME NEW bits \in Nat, bits <= 8 * ByteBits
  PROVE  R!ContainerBytes(bits) \in Nat
<1> DEFINE S == { n \in {1, 2, 4, 8} : n * ByteBits >= bits }
<1>1. S \subseteq Nat /\ S # {}
  BY ByteBitsAssumption
<1>2. \E x \in S : \A y \in S : x <= y
  <2>. HIDE DEF S
  <2>. QED BY <1>1, LeastElement
<1>3. \E n \in {1, 2, 4, 8} : /\ n * ByteBits >= bits
                              /\ \A m \in {1, 2, 4, 8} : m * ByteBits >= bits => n <= m
  BY <1>2
<1>4. R!ContainerBytes(bits) \in {1, 2, 4, 8}
  BY <1>3 DEF R!ContainerBytes
<1>. QED BY <1>4

LEMMA GroupMoves ==
  ASSUME NEW s, Sane(s), s.err = "ok", NEW k,
         NEW items, NEW n \in Nat, DOMAIN items = 1 .. n, KindsKept(items, k),
         \A i \in 1 .. n : ItemTyped(items[i], k),
         NEW i \in 1 .. n, items[i].it = "field", items[i].strategy = "BitGroup",
         NEW names, Has(s, k, names), GroupsKnown(s, items),
         NEW q, q = R!ReadGroup(s, items, items[i])
  PROVE  /\ Moves(s, q) /\ q.at = s.at
         /\ q.err = "ok" => /\ Has(q, k, names) /\ items[i].name \in DOMAIN q.env
                            /\ GroupsKnown(q, items)
<1> DEFINE f == items[i]
           g == f.group
           r == R!ReadNumber(s, R!ContainerBytes(f.total), f.order)
           m == R!BindMembers(r, items, g)
<1>1. g # 0 /\ f.total \in Nat /\ f.total <= 8 * ByteBits
  BY DEF ItemTyped, Placed, FieldTyped
<1>2. Reads(s, r) /\ (r.err = "ok" => r.v \in Nat)
  <2>1. R!ContainerBytes(f.total) \in Nat
    BY <1>1, ContainerIsNat
  <2>. QED BY <2>1, NumberReads
<1>3. q = IF r.err # "ok" THEN r ELSE [m EXCEPT !.groups = @ \cup {g}]
  BY DEF R!ReadGroup, R!BindGroup
<1>. HIDE DEF r
<1>4. Sane(r) /\ Moves(s, r) /\ r.env = s.env /\ r.at = s.at /\ r.groups = s.groups
  BY <1>2 DEF Reads, Moves
<1>5. CASE r.err # "ok"
  BY <1>3, <1>4, <1>5
<1>6. CASE r.err = "ok"
  <2>1. /\ OnlyBinds(r, m) /\ Knows(m.env, k, DOMAIN r.env)
        /\ \A j \in 1 .. n : R!InGroup(items[j], g) => items[j].name \in DOMAIN m.env
    <3>1. EnvTyped(r.env, k) /\ r.v \in Nat
      BY <1>2, <1>4, <1>6 DEF Knows, Has
    <3>. HIDE DEF g
    <3>. QED BY <1>1, <1>4, <1>6, <3>1, MembersBound
  <2>. HIDE DEF m
  <2>2. q.env = m.env /\ q.groups = s.groups \cup {g} /\ q.err = "ok" /\ q.cur = r.cur /\ q.data = r.data
        /\ q.calls = r.calls /\ q.at = s.at /\ q.views = r.views /\ DOMAIN q = Fields
    BY <1>3, <1>4, <1>6, <2>1 DEF OnlyBinds, Fields
  <2>3. Moves(s, q)
    BY <1>4, <1>6, <2>2 DEF Moves, Sane
  <2>4. Has(q, k, names) /\ f.name \in DOMAIN q.env
    <3>1. R!InGroup(f, g)
      BY DEF R!InGroup, R!IsField
    <3>2. f.name \in DOMAIN m.env /\ names \subseteq DOMAIN m.env
      BY <1>4, <2>1, <3>1 DEF Knows, Has
    <3>. QED BY <2>1, <2>2, <3>2 DEF Knows, Has
  <2>5. GroupsKnown(q, items)
    <3>1. ASSUME NEW j \in DOMAIN items, items[j].it = "field", items[j].group \in q.groups
          PROVE  items[j].name \in DOMAIN q.env
      <4>1. CASE items[j].group = g
        BY <2>1, <2>2, <3>1, <4>1 DEF R!InGroup, R!IsField
      <4>2. CASE items[j].group \in s.groups
        BY <1>4, <2>1, <2>2, <3>1, <4>2 DEF GroupsKnown, Knows
      <4>. QED BY <2>2, <3>1, <4>1, <4>2
    <3>. QED BY <3>1 DEF GroupsKnown
  <2>. QED BY <2>2, <2>3, <2>4, <2>5
<1>. QED BY <1>5, <1>6

---------------------------------------------------------------------------
(* Items of a scope                                                        *)

LEMMA NamesGrow ==
  ASSUME NEW items, NEW n \in Nat, NEW i \in 1 .. n, NEW outer
  PROVE  /\ items[i].it # "require" =>
              NamesBefore(items, i + 1, outer) = NamesBefore(items, i, outer) \cup {items[i].name}
         /\ items[i].it = "require" => NamesBefore(items, i + 1, outer) = NamesBefore(items, i, outer)
<1>1. \A j : j \in 1 .. (i + 1) - 1 <=> j \in 1 .. i - 1 \/ j = i
  OBVIOUS
<1>. QED BY <1>1 DEF NamesBefore

LEMMA SizesAssigned ==
  ASSUME NEW f, f.it = "field", NEW env, ItemRefs(f) \subseteq DOMAIN env
  PROVE  Assigned(Sizes(f.ty), env) /\ Assigned(Range(f.cond), env)
<1>1. ItemRefs(f) = UNION { ExprRefs(e) : e \in Sizes(f.ty) \cup Range(f.cond) }
  BY DEF ItemRefs, IsField, FieldRefs
<1>2. ASSUME NEW e \in Sizes(f.ty) \cup Range(f.cond)
      PROVE  ExprRefs(e) \subseteq DOMAIN env
  BY <1>1, <1>2
<1>. QED BY <1>2 DEF Assigned

(* What the fields that are no members of a group are bound to.            *)
LEMMA FieldRead ==
  ASSUME NEW s, Sane(s), s.err = "ok", NEW k, EnvTyped(s.env, k),
         NEW items, KindsKept(items, k), NEW i \in DOMAIN items,
         items[i].it = "field", items[i].strategy # "BitGroup", FieldTyped(items[i], k),
         Assigned(Sizes(items[i].ty), s.env)
  PROVE  \E r : /\ R!ParseField(s, items, items[i]) = R!Bind(r, items[i].name)
                /\ Reads(s, r)
                /\ r.err = "ok" => OfKind(r.v, items[i].name, k)
<1> DEFINE f == items[i]
<1>0. /\ f.name \in k.ints => Whole(f)
      /\ f.name \in k.opts => Optional(f)
  BY DEF KindsKept
<1>1. CASE f.strategy \in {"Primitive", "Checksum", "Struct", "VarInt"} /\ Readable(f.ty)
  <2> DEFINE r == R!ReadValue(s, f.ty, f.e)
  <2>1. R!ParseField(s, items, f) = R!Bind(r, f.name)
    BY <1>1 DEF R!ParseField
  <2>2. Reads(s, r) /\ (IntegerLike(f.ty) /\ r.err = "ok" => r.v \in Nat)
    BY <1>1, ValueReads
  <2>. HIDE DEF r
  <2>3. r.err = "ok" => OfKind(r.v, f.name, k)
    BY <1>0, <1>1, <2>2 DEF OfKind, Whole, Optional
  <2>. QED BY <2>1, <2>2, <2>3
<1>2. CASE f.strategy \in {"fixed", "length", "remaining", "lor"} /\ BytesTyped(f.ty, k)
  <2> DEFINE r == R!ReadBytesField(s, f.ty)
  <2>1. R!ParseField(s, items, f) = R!Bind(r, f.name)
    BY <1>2 DEF R!ParseField
  <2>2. Reads(s, r)
    BY <1>2, BytesFieldReads
  <2>. HIDE DEF r
  <2>3. OfKind(r.v, f.name, k)
    BY <1>0, <1>2 DEF OfKind, Whole, Optional, BytesTyped, IntegerLike
  <2>. QED BY <2>1, <2>2, <2>3
<1>3. CASE f.strategy = "Conditional" /\ OneInteger(f.cond, k) /\ (Readable(f.ty) \/ BytesTyped(f.ty, k))
  <2> DEFINE r == R!ReadConditional(s, f)
  <2>1. R!ParseField(s, items, f) = R!Bind(r, f.name)
    BY <1>3 DEF R!ParseField
  <2>2. Reads(s, r) /\ (r.err = "ok" /\ IntegerLike(f.ty) /\ r.v # <<>> => r.v[1] \in Nat)
    BY <1>3, ConditionalReads
  <2>. HIDE DEF r
  <2>3. r.err = "ok" => OfKind(r.v, f.name, k)
    BY <1>0, <1>3, <2>2 DEF OfKind, Whole, Optional
  <2>. QED BY <2>1, <2>2, <2>3
<1>4. CASE f.strategy = "Array" /\ ArrayTyped(f.ty, k)
  <2> DEFINE r == R!ReadArray(s, f.ty)
  <2>1. R!ParseField(s, items, f) = R!Bind(r, f.name)
    BY <1>4 DEF R!ParseField
  <2>2. Reads(s, r)
    BY <1>4, ArrayReads
  <2>. HIDE DEF r
  <2>3. OfKind(r.v, f.name, k)
    BY <1>0, <1>4 DEF OfKind, Whole, Optional, ArrayTyped, IntegerLike
  <2>. QED BY <2>1, <2>2, <2>3
<1>. QED BY <1>1, <1>2, <1>3, <1>4 DEF FieldTyped

LEMMA GroupsStayKnown ==
  ASSUME NEW s, NEW q, NEW items, GroupsKnown(s, items), q.groups = s.groups, DOMAIN s.env \subseteq DOMAIN q.env
  PROVE  GroupsKnown(q, items)
BY DEF GroupsKnown

LEMMA FieldMoves ==
  ASSUME NEW s, Sane(s), s.err = "ok", NEW k, NEW items, NEW n, NEW outer, Scope(items, n, k, outer),
         NEW i \in 1 .. n, items[i].it = "field", Between(s, items, i, k, outer),
         NEW q, q = R!ParseField(s, items, items[i])
  PROVE  /\ Moves(s, q) /\ q.at = s.at
         /\ q.err = "ok" => Between(q, items, i + 1, k, outer)
<1> DEFINE names == NamesBefore(items, i, outer)
<1>1. /\ n \in Nat /\ DOMAIN items = 1 .. n /\ KindsKept(items, k)
      /\ \A j \in 1 .. n : ItemTyped(items[j], k)
      /\ ItemRefs(items[i]) \subseteq names
      /\ Has(s, k, names) /\ Knows(s.env, k, names) /\ GroupsKnown(s, items)
  BY DEF Scope, ScopeTyped, Between, Has
<1>2. NamesBefore(items, i + 1, outer) = names \cup {items[i].name}
  BY <1>1, NamesGrow
<1>3. CASE items[i].strategy = "BitGroup" /\ items[i].group \notin s.groups
  <2>1. q = R!ReadGroup(s, items, items[i])
    BY <1>3 DEF R!ParseField
  <2>2. /\ Moves(s, q) /\ q.at = s.at
        /\ q.err = "ok" => /\ Has(q, k, names) /\ items[i].name \in DOMAIN q.env
                           /\ GroupsKnown(q, items)
    BY <1>1, <1>3, <2>1, GroupMoves
  <2>. QED BY <1>2, <2>2 DEF Between, Has, Knows
<1>4. CASE items[i].strategy = "BitGroup" /\ items[i].group \in s.groups
  <2>1. q = s
    BY <1>4 DEF R!ParseField
  <2>2. items[i].name \in DOMAIN s.env
    BY <1>1, <1>4 DEF GroupsKnown
  <2>3. Moves(s, s)
    BY StaysPut DEF Reads
  <2>4. Knows(s.env, k, names \cup {items[i].name})
    BY <1>1, <2>2 DEF Knows
  <2>. QED BY <1>1, <1>2, <2>1, <2>3, <2>4 DEF Between
<1>5. CASE items[i].strategy # "BitGroup"
  <2>1. FieldTyped(items[i], k)
    BY <1>1 DEF ItemTyped
  <2>2. Assigned(Sizes(items[i].ty), s.env) /\ EnvTyped(s.env, k)
    <3>1. ItemRefs(items[i]) \subseteq DOMAIN s.env
      BY <1>1 DEF Knows
    <3>. QED BY <1>1, <3>1, SizesAssigned DEF Knows
  <2>3. PICK r : /\ q = R!Bind(r, items[i].name) /\ Reads(s, r)
                 /\ r.err = "ok" => OfKind(r.v, items[i].name, k)
    BY <1>1, <1>5, <2>1, <2>2, FieldRead
  <2>4. /\ Moves(s, q) /\ q.groups = s.groups /\ q.at = s.at
        /\ q.err = "ok" => /\ Has(q, k, names) /\ items[i].name \in DOMAIN q.env
                           /\ DOMAIN s.env \subseteq DOMAIN q.env
    BY <1>1, <2>3, Binds
  <2>5. q.err = "ok" => GroupsKnown(q, items)
    BY <1>1, <2>4, GroupsStayKnown
  <2>. QED BY <1>2, <2>4, <2>5 DEF Between, Has, Knows
<1>. QED BY <1>3, <1>4, <1>5

(* A field, a let or a require.                                            *)
LEMMA ItemMoves ==
  ASSUME NEW s, Sane(s), NEW k, NEW items, NEW n, NEW outer, Scope(items, n, k, outer),
         NEW i \in 1 .. n, s.err = "ok" => Between(s, items, i, k, outer),
         NEW q, q = R!ParseItem(s, items, items[i])
  PROVE  /\ Moves(s, q) /\ q.at = s.at
         /\ q.err = "ok" => Between(q, items, i + 1, k, outer)
<1> DEFINE names == NamesBefore(items, i, outer)
           x == items[i]
<1>0. CASE s.err # "ok"
  <2>1. q = s
    BY <1>0 DEF R!ParseItem
  <2>. QED BY <1>0, <2>1, StaysPut DEF Reads
<1>1. ASSUME s.err = "ok"
      PROVE  /\ KindsKept(items, k) /\ i \in DOMAIN items /\ ItemTyped(x, k) /\ ItemRefs(x) \subseteq names
             /\ Has(s, k, names) /\ Knows(s.env, k, names) /\ GroupsKnown(s, items) /\ n \in Nat
  BY <1>1 DEF Scope, ScopeTyped, Between, Has
<1>2. CASE s.err = "ok" /\ x.it = "field"
  <2>1. q = R!ParseField(s, items, x)
    BY <1>2 DEF R!ParseItem
  <2>. QED BY <1>2, <2>1, FieldMoves
<1>3. CASE s.err = "ok" /\ x.it = "let"
  <2> DEFINE val == R!Eval(x.e, s.env)
             r == R!Yield(s, val)
  <2>1. q = R!Bind(r, x.name)
    BY <1>3 DEF R!ParseItem
  <2>2. val \in Nat
    <3>1. IsInteger(x.e, k) /\ ExprRefs(x.e) \subseteq DOMAIN s.env /\ EnvTyped(s.env, k)
      BY <1>1, <1>3 DEF ItemTyped, ItemRefs, IsField, Knows
    <3>. QED BY <3>1, EvalIsNat
  <2>. HIDE DEF val
  <2>3. Reads(s, r) /\ r.v = val
    BY Yields DEF R!Yield, Sane, Fields
  <2>. HIDE DEF r
  <2>4. OfKind(r.v, x.name, k)
    BY <1>1, <1>3, <2>2, <2>3 DEF OfKind, KindsKept, Whole, Optional, IsField
  <2>. HIDE DEF names
  <2>5. /\ Moves(s, q) /\ q.groups = s.groups /\ q.at = s.at
        /\ q.err = "ok" => /\ Has(q, k, names) /\ x.name \in DOMAIN q.env
                           /\ DOMAIN s.env \subseteq DOMAIN q.env
    BY <1>1, <1>3, <2>1, <2>3, <2>4, Binds
  <2>6. NamesBefore(items, i + 1, outer) = names \cup {x.name}
    BY <1>1, <1>3, NamesGrow DEF names
  <2>7. q.err = "ok" => GroupsKnown(q, items)
    BY <1>1, <1>3, <2>5, GroupsStayKnown
  <2>. QED BY <2>5, <2>6, <2>7 DEF Between, Has, Knows
<1>4. CASE s.err = "ok" /\ x.it = "require"
  <2>1. q \in {s, R!Fail(s, "Constraint")}
    BY <1>4 DEF R!ParseItem
  <2>2. NamesBefore(items, i + 1, outer) = names
    BY <1>1, <1>4, NamesGrow
  <2>3. CASE q = s
    BY <1>4, <2>2, <2>3, StaysPut DEF Reads, Between
  <2>4. CASE q = R!Fail(s, "Constraint")
    <3>1. Reads(s, q)
      BY <2>4, Fails
    <3>2. q.err # "ok"
      BY <2>4 DEF R!Fail, Sane, Fields
    <3>. QED BY <3>1, <3>2 DEF Reads
  <2>. QED BY <2>1, <2>3, <2>4
<1>5. s.err = "ok" => x.it \in {"field", "let", "require"}
  BY <1>1 DEF ItemTyped
<1>. QED BY <1>0, <1>2, <1>3, <1>4, <1>5

(* m items of a scope in order, from the item called first.                *)
Part(these, m, items, n, first) ==
  /\ first \in Nat /\ m \in Nat /\ DOMAIN these = 1 .. m
  /\ \A j \in 1 .. m : first + j - 1 \in 1 .. n /\ these[j] = items[first + j - 1]

LEMMA ItemsMove ==
  ASSUME NEW s, Sane(s), NEW k, NEW items, NEW n, NEW outer, Scope(items, n, k, outer),
         NEW first, NEW m, NEW these, Part(these, m, items, n, first),
         s.err = "ok" => Has(s, k, NamesBefore(items, first, outer)),
         NEW q, q = R!ParseItems(s, items, these)
  PROVE  /\ Moves(s, q) /\ q.at = s.at
         /\ q.err = "ok" => Has(q, k, NamesBefore(items, first + m, outer))
<1>. USE DEF Part
<1> DEFINE base == [s EXCEPT !.groups = {}]
           d == [start |-> s, items |-> items, first |-> first, k |-> k, outer |-> outer]
<1>1. /\ base.env = s.env /\ base.err = s.err /\ base.cur = s.cur /\ base.data = s.data /\ base.calls = s.calls
      /\ base.groups = {} /\ base.at = s.at /\ base.views = s.views /\ DOMAIN base = Fields
  BY DEF Sane, Fields
<1>. HIDE DEF base
<1>2. ItemsOn(d, 0, base, base)
  <2>1. Moves(s, base)
    BY <1>1 DEF Moves, Sane, Forward, Window
  <2>2. base.err = "ok" => Between(base, items, first + 0, k, outer)
    BY <1>1 DEF Between, Has, GroupsKnown
  <2>. QED BY <1>1, <2>1, <2>2 DEF ItemsOn
<1>3. ASSUME NEW j \in 1 .. m, NEW t, ItemsOn(d, j - 1, t, t)
      PROVE  ItemsOn(d, j, ItemStep(items, 0, t, these[j]), ItemStep(items, 0, t, these[j]))
  <2> DEFINE i == first + j - 1
             r == R!ParseItem(t, items, items[i])
  <2>1. i \in 1 .. n /\ these[j] = items[i] /\ first + (j - 1) = i /\ first + j = i + 1
    OBVIOUS
  <2>2. Moves(s, t) /\ t.at = s.at /\ Sane(t) /\ (t.err = "ok" => Between(t, items, i, k, outer))
    BY <1>3, <2>1 DEF ItemsOn, Moves
  <2>3. ItemStep(items, 0, t, these[j]) = r
    BY <2>1 DEF ItemStep
  <2>. HIDE DEF i
  <2>4. Moves(t, r) /\ r.at = t.at /\ (r.err = "ok" => Between(r, items, i + 1, k, outer))
    BY <2>1, <2>2, ItemMoves
  <2>. HIDE DEF r
  <2>5. Moves(s, r)
    BY <2>2, <2>4, MovesOn
  <2>6. ItemsOn(d, j, r, r)
    BY <2>1, <2>2, <2>4, <2>5 DEF ItemsOn
  <2>. QED BY <2>3, <2>6
<1> DEFINE r == FI!Fold(items, 0, base, these)
<1>4. ItemsOn(d, m, r, r)
  <2>1. \A j \in 1 .. m : \A t : ItemsOn(d, j - 1, t, t) =>
          ItemsOn(d, j, ItemStep(items, 0, t, these[j]), ItemStep(items, 0, t, these[j]))
    BY <1>3
  <2>. HIDE DEF d
  <2>. QED BY <1>2, <2>1, FI!FoldKeeps
<1>5. R!ParseItems(s, items, these) = r
  BY DEF R!ParseItems, FI!Fold, R!FoldLeft, FI!FoldLeft, ItemStep, R!MapThenFoldSet,
     FI!MapThenFoldSet, R!Max, FI!Max, base
<1>. HIDE DEF r
<1>. QED BY <1>4, <1>5 DEF ItemsOn, Between, Has

LEMMA ScopeMoves ==
  ASSUME NEW s, Sane(s), NEW k, NEW items, NEW n, NEW outer, Scope(items, n, k, outer),
         s.err = "ok" => Has(s, k, outer),
         NEW q, q = R!ParseItems(s, items, items)
  PROVE  /\ Moves(s, q) /\ q.at = s.at
         /\ q.err = "ok" => Has(q, k, NamesBefore(items, n + 1, outer))
<1>1. n \in Nat /\ DOMAIN items = 1 .. n /\ 1 + n = n + 1
  BY DEF Scope
<1>2. NamesBefore(items, 1, outer) = outer
  <2>1. 1 .. 1 - 1 = {}
    OBVIOUS
  <2>. QED BY <2>1 DEF NamesBefore
<1>3. Part(items, n, items, n, 1)
  BY <1>1 DEF Part
<1>4. /\ Moves(s, q) /\ q.at = s.at
      /\ q.err = "ok" => Has(q, k, NamesBefore(items, 1 + n, outer))
  BY <1>1, <1>2, <1>3, ItemsMove
<1>. QED BY <1>1, <1>4

(* The items one at a time, noting where the checksum field starts.        *)
LEMMA TrackedMoves ==
  ASSUME NEW s, Sane(s), NEW k, NEW items, NEW n, NEW outer, Scope(items, n, k, outer),
         s.err = "ok" => Has(s, k, outer),
         NEW q, q = R!ParseTracked(s, items)
  PROVE  /\ Moves(s, q)
         /\ q.err = "ok" => Has(q, k, NamesBefore(items, n + 1, outer))
<1> DEFINE base == [s EXCEPT !.at = 0]
           d == [start |-> s, items |-> items, k |-> k, outer |-> outer]
<1>0. n \in Nat /\ DOMAIN items = 1 .. n
  BY DEF Scope
<1>1. /\ base.env = s.env /\ base.err = s.err /\ base.cur = s.cur /\ base.data = s.data /\ base.calls = s.calls
      /\ base.views = s.views /\ DOMAIN base = Fields
  BY DEF Sane, Fields
<1>. HIDE DEF base
<1>2. TrackedOn(d, 0, base, base)
  <2>1. Moves(s, base)
    BY <1>1 DEF Moves, Sane, Forward, Window
  <2>2. NamesBefore(items, 0 + 1, outer) = outer
    <3>1. 1 .. (0 + 1) - 1 = {}
      OBVIOUS
    <3>. QED BY <3>1 DEF NamesBefore
  <2>. QED BY <1>1, <2>1, <2>2 DEF TrackedOn, Has
<1>3. ASSUME NEW i \in 1 .. n, NEW t, TrackedOn(d, i - 1, t, t)
      PROVE  TrackedOn(d, i, TrackStep(s, items, t, items[i]), TrackStep(s, items, t, items[i]))
  <2> DEFINE u == R!AtChecksum(s, t, items, items[i])
             r == R!ParseItems(u, items, <<items[i]>>)
  <2>1. Moves(s, t) /\ Sane(t) /\ (t.err = "ok" => Has(t, k, NamesBefore(items, (i - 1) + 1, outer)))
    BY <1>3 DEF TrackedOn, Moves
  <2>2. /\ u.env = t.env /\ u.err = t.err /\ u.cur = t.cur /\ u.data = t.data /\ u.calls = t.calls
        /\ u.views = t.views /\ DOMAIN u = Fields
    BY <2>1 DEF Sane, Fields, R!AtChecksum
  <2>3. TrackStep(s, items, t, items[i]) = r
    BY DEF TrackStep
  <2>. HIDE DEF u
  <2>4. Moves(t, u) /\ Sane(u)
    BY <2>1, <2>2 DEF Moves, Sane, Forward, Window
  <2>5. u.err = "ok" => Has(u, k, NamesBefore(items, i, outer))
    <3>1. (i - 1) + 1 = i
      OBVIOUS
    <3>. QED BY <2>1, <2>2, <3>1 DEF Has
  <2>6. Moves(u, r) /\ (r.err = "ok" => Has(r, k, NamesBefore(items, i + 1, outer)))
    <3>1. Part(<<items[i]>>, 1, items, n, i)
      BY <1>0 DEF Part
    <3>. QED BY <2>4, <2>5, <3>1, ItemsMove
  <2>. HIDE DEF r
  <2>7. Moves(s, r)
    <3>1. Moves(s, u)
      BY <2>1, <2>4, MovesOn
    <3>. QED BY <2>6, <3>1, MovesOn
  <2>8. TrackedOn(d, i, r, r)
    BY <2>6, <2>7 DEF TrackedOn
  <2>. QED BY <2>3, <2>8
<1> DEFINE r == FK!Fold(s, items, base, items)
<1>4. TrackedOn(d, n, r, r)
  <2>1. \A i \in 1 .. n : \A t : TrackedOn(d, i - 1, t, t) =>
          TrackedOn(d, i, TrackStep(s, items, t, items[i]), TrackStep(s, items, t, items[i]))
    BY <1>3
  <2>. HIDE DEF d
  <2>. QED BY <1>0, <1>2, <2>1, FK!FoldKeeps
<1>5. R!ParseTracked(s, items) = r
  BY DEF R!ParseTracked, FK!Fold, R!FoldLeft, FK!FoldLeft, TrackStep, R!MapThenFoldSet,
     FK!MapThenFoldSet, R!Max, FK!Max, base
<1>. HIDE DEF r
<1>. QED BY <1>4, <1>5 DEF TrackedOn

---------------------------------------------------------------------------
(* Declarations                                                            *)

LEMMA KindsAreKept ==
  ASSUME NEW all, NEW outer, NEW items, Range(items) \subseteq Range(all)
  PROVE  KindsKept(items, Kinds(all, outer))
<1> DEFINE k == Kinds(all, outer)
<1>1. ASSUME NEW i \in DOMAIN items, items[i].it # "require"
      PROVE  /\ items[i].name \in k.ints => Whole(items[i]) \/ items[i].it = "let"
             /\ items[i].name \in k.opts => Optional(items[i])
  <2>1. items[i] \in Declared(all)
    BY <1>1 DEF Declared, Range
  <2>2. /\ \A n \in k.ints : \A x \in { y \in Declared(all) : y.name = n } : Whole(x) \/ x.it = "let"
        /\ \A n \in k.opts : \A x \in { y \in Declared(all) : y.name = n } : Optional(x)
    BY DEF Kinds
  <2>. HIDE DEF k
  <2>. QED BY <2>1, <2>2
<1>. QED BY <1>1 DEF KindsKept

LEMMA ScopeIs ==
  ASSUME NEW items, NEW k, NEW outer, ScopeTyped(items, k, outer), KindsKept(items, k)
  PROVE  Scope(items, Len(items), k, outer)
<1>1. items \in Seq(Range(items))
  BY DEF ScopeTyped
<1>2. Len(items) \in Nat /\ DOMAIN items = 1 .. Len(items)
  BY <1>1
<1>. QED BY <1>2 DEF Scope

(* The state a parse function starts in.                                   *)
LEMMA StartIs ==
  ASSUME NEW bytes \in Seq(Nat), NEW calls, CallsLeave(bytes, calls), NEW c, Window(c, bytes)
  PROVE  LET s == R!Start(bytes, calls, c)
         IN  /\ Sane(s) /\ s.err = "ok" /\ s.data = bytes /\ s.calls = calls /\ s.cur = c
             /\ \A k : Has(s, k, {})
BY DEF R!Start, Sane, Fields, Has, Knows, EnvTyped

LEMMA VerifiedMoves ==
  ASSUME NEW s, NEW r, Sane(r), NEW items, NEW q, q = R!Verified(s, r, items)
  PROVE  Reads(r, q)
<1>1. q \in {r, R!Fail(r, "Checksum")}
  BY DEF R!Verified
<1>. QED BY <1>1, StaysPut, Fails

LEMMA PacketMoves ==
  ASSUME NEW s, Sane(s), s.err = "ok", NEW d, d.kind = "packet", WellTyped(d), \A k : Has(s, k, {}),
         NEW q, q = R!ParsePacket(s, d)
  PROVE  Moves(s, q)
<1> DEFINE k == Kinds(d.items, {})
           n == Len(d.items)
<1>1. Scope(d.items, n, k, {})
  <2>1. ScopeTyped(d.items, k, {})
    BY DEF WellTyped
  <2>2. KindsKept(d.items, k)
    BY KindsAreKept
  <2>. QED BY <2>1, <2>2, ScopeIs
<1>. HIDE DEF k, n
<1> DEFINE a == R!ParseItems(s, d.items, d.items)
           b == R!ParseTracked(s, d.items)
<1>2. Moves(s, a) /\ Moves(s, b)
  BY <1>1, ScopeMoves, TrackedMoves
<1>3. q = a \/ q = R!Verified(s, a, d.items) \/ q = R!Verified(s, b, d.items)
  BY DEF R!ParsePacket
<1>. HIDE DEF a, b
<1>4. Sane(a) /\ Sane(b)
  BY <1>2 DEF Moves
<1>5. Reads(a, R!Verified(s, a, d.items)) /\ Reads(b, R!Verified(s, b, d.items))
  BY <1>4, VerifiedMoves
<1>. QED BY <1>2, <1>3, <1>5, MovesOn DEF Reads

(* A match with a wildcard has an arm for every tag.                       *)
LEMMA ArmIs ==
  ASSUME NEW vs, HasDefault(vs), NEW tag
  PROVE  R!Arm(vs, tag) \in DOMAIN vs
<1> DEFINE S == { i \in DOMAIN vs : R!Matches(vs[i], tag) }
<1>1. DOMAIN vs = 1 .. Len(vs) /\ Len(vs) \in Nat
  BY DEF HasDefault
<1>2. S \subseteq Nat /\ S # {}
  BY <1>1 DEF HasDefault, R!Matches
<1>3. PICK i \in S : \A j \in S : i <= j
  <2>. HIDE DEF S
  <2>. QED BY <1>2, LeastElement
<1>4. \A j \in 1 .. i - 1 : ~R!Matches(vs[j], tag)
  BY <1>1, <1>3
<1>. QED BY <1>3, <1>4 DEF R!Arm

LEMMA VariantMoves ==
  ASSUME NEW t, Sane(t), t.err = "ok", t.v \in Nat, NEW d, NEW items, FrameTyped(d, items), NEW arm,
         NEW q, q = R!ParseVariant(t, d, arm, items)
  PROVE  Moves(t, q)
<1> DEFINE k == Kinds(items, {d.tagname})
           n == Len(items)
           u == [t EXCEPT !.env = R!Assign(<<>>, d.tagname, t.v)]
           r == R!ParseItems(u, items, items)
<1>1. Scope(items, n, k, {d.tagname})
  <2>1. ScopeTyped(items, k, {d.tagname})
    BY DEF FrameTyped
  <2>2. KindsKept(items, k)
    BY KindsAreKept
  <2>. QED BY <2>1, <2>2, ScopeIs
<1>2. d.tagname \notin k.opts
  BY DEF Kinds
<1>. HIDE DEF k, n
<1>3. /\ u.env = R!Assign(<<>>, d.tagname, t.v) /\ u.err = t.err /\ u.cur = t.cur /\ u.data = t.data
      /\ u.calls = t.calls /\ u.views = t.views /\ DOMAIN u = Fields
  BY DEF Sane, Fields
<1>. HIDE DEF u
<1>4. Moves(t, u) /\ Sane(u)
  BY <1>3 DEF Moves, Sane, Forward, Window
<1>5. Has(u, k, {d.tagname})
  <2> DEFINE e == R!Assign(<<>>, d.tagname, t.v)
  <2>1. DOMAIN e = {d.tagname} /\ e[d.tagname] = t.v
    BY DEF R!Assign
  <2>. HIDE DEF e
  <2>2. Knows(e, k, {d.tagname})
    BY <1>2, <2>1 DEF Knows, EnvTyped
  <2>. QED BY <1>3, <2>2 DEF Has, e
<1>6. Moves(u, r)
  BY <1>1, <1>4, <1>5, ScopeMoves
<1>7. \E x : q = R!Yield(r, x)
  BY DEF R!ParseVariant, R!FrameOf, u
<1>. HIDE DEF r
<1>8. Moves(r, q)
  BY <1>6, <1>7, Yields DEF Moves, Reads
<1>9. Moves(t, r)
  BY <1>4, <1>6, MovesOn
<1>. QED BY <1>8, <1>9, MovesOn

LEMMA FrameMoves ==
  ASSUME NEW s, Sane(s), s.err = "ok", NEW d, d.kind = "frame", WellTyped(d),
         NEW q, q = R!ParseFrame(s, d)
  PROVE  Moves(s, q)
<1> DEFINE t == R!ReadValue(s, d.tag, R!Endianness(d.tag, d.order))
           arm == R!Arm(d.variants, t.v)
<1>1. /\ HasDefault(d.variants) /\ IntegerLike(d.tag) /\ Readable(d.tag)
      /\ \A i \in DOMAIN d.variants : FrameTyped(d, d.variants[i].items)
  BY DEF WellTyped
<1>2. Reads(s, t) /\ (t.err = "ok" => t.v \in Nat)
  BY <1>1, ValueReads
<1>3. q = IF t.err # "ok" THEN t ELSE R!ParseVariant(t, d, arm, d.variants[arm].items)
  BY DEF R!ParseFrame, R!ParseTagged, R!ParseArm
<1>. HIDE DEF t
<1>4. Sane(t) /\ Moves(s, t)
  BY <1>2 DEF Reads, Moves
<1>5. CASE t.err # "ok"
  BY <1>3, <1>4, <1>5
<1>6. CASE t.err = "ok"
  <2>1. arm \in DOMAIN d.variants
    BY <1>1, ArmIs
  <2>. HIDE DEF arm
  <2>2. FrameTyped(d, d.variants[arm].items)
    BY <1>1, <2>1
  <2>3. Moves(t, q)
    BY <1>2, <1>3, <1>4, <1>6, <2>2, VariantMoves
  <2>. QED BY <1>4, <2>3, MovesOn
<1>. QED BY <1>5, <1>6

(* The payload of a capsule, on its cursor.                                *)
LEMMA PayloadMoves ==
  ASSUME NEW h, Sane(h), h.err = "ok", NEW k, NEW items, NEW m, NEW outer, Scope(items, m, k, outer),
         Has(h, k, outer), NEW n \in Nat, NEW q, q = R!ReadPayload(h, items, n)
  PROVE  Moves(h, q)
<1> DEFINE w == R!Within(h, n)
           r == R!ParseItems(w, items, items)
<1>1. Sane(w) /\ w.env = h.env
  BY WithinIs
<1>2. Has(w, k, outer)
  BY <1>1 DEF Has
<1>3. q = R!Behind(h, n, r)
  BY DEF R!ReadPayload
<1>4. Moves(w, r)
  <2>. HIDE DEF w
  <2>. QED BY <1>1, <1>2, ScopeMoves
<1>. HIDE DEF r
<1>. QED BY <1>3, <1>4, BehindMoves

(* The two scopes of a capsule: its header, and one of its payloads.       *)
LEMMA CapsuleScopes ==
  ASSUME NEW d, NEW items, NEW k, k = Kinds(d.items \o items, {}), CapsuleTyped(d, items, k)
  PROVE  Scope(d.items, Len(d.items), k, {}) /\ Scope(items, Len(items), k, HeaderNames(d))
<1>1. ScopeTyped(d.items, k, {}) /\ ScopeTyped(items, k, HeaderNames(d))
  BY DEF CapsuleTyped
<1>2. KindsKept(d.items, k) /\ KindsKept(items, k)
  <2>1. d.items \in Seq(Range(d.items)) /\ items \in Seq(Range(items))
    BY <1>1 DEF ScopeTyped
  <2>2. Range(d.items) \subseteq Range(d.items \o items) /\ Range(items) \subseteq Range(d.items \o items)
    <3> DEFINE a == d.items
               b == items
               c == a \o b
    <3>1. /\ Len(a) \in Nat /\ Len(b) \in Nat /\ DOMAIN a = 1 .. Len(a) /\ DOMAIN b = 1 .. Len(b)
          /\ DOMAIN c = 1 .. Len(a) + Len(b) /\ \A i \in 1 .. Len(a) : c[i] = a[i]
          /\ \A i \in 1 .. Len(b) : c[Len(a) + i] = b[i]
      BY <2>1
    <3>. HIDE DEF c
    <3>2. ASSUME NEW y \in Range(a)
          PROVE  y \in Range(c)
      BY <3>1 DEF Range
    <3>3. ASSUME NEW y \in Range(b)
          PROVE  y \in Range(c)
      <4>1. PICK i \in 1 .. Len(b) : y = b[i]
        BY <3>1 DEF Range
      <4>2. Len(a) + i \in DOMAIN c /\ c[Len(a) + i] = y
        BY <3>1, <4>1
      <4>. QED BY <4>2 DEF Range
    <3>. QED BY <3>2, <3>3 DEF c
  <2>. QED BY <2>2, KindsAreKept
<1>. QED BY <1>1, <1>2, ScopeIs

LEMMA CapsuleMoves ==
  ASSUME NEW s, Sane(s), s.err = "ok", NEW d, d.kind = "capsule", WellTyped(d), \A k : Has(s, k, {}),
         NEW q, q = R!ParseCapsule(s, d)
  PROVE  Moves(s, q)
<1> DEFINE h == R!ParseItems(s, d.items, d.items)
           n == Len(d.items)
           arm == R!Arm(d.variants, R!Eval(d.tag, h.env))
           items == d.variants[arm].items
           k == Kinds(d.items \o items, {})
           x == h.env[d.within]
           r == R!ReadPayload(h, items, x)
<1>1. arm \in DOMAIN d.variants
  <2>1. HasDefault(d.variants)
    BY DEF WellTyped
  <2>. HIDE DEF h
  <2>. QED BY <2>1, ArmIs
<1>2. CapsuleTyped(d, items, k)
  <2>1. \A i \in DOMAIN d.variants :
          CapsuleTyped(d, d.variants[i].items, Kinds(d.items \o d.variants[i].items, {}))
    BY DEF WellTyped
  <2>. HIDE DEF arm
  <2>. QED BY <1>1, <2>1
<1>3. q = IF h.err # "ok" THEN h ELSE R!ParsePayload(h, d, arm, items)
  BY DEF R!ParseCapsule, R!AfterHeader, R!ParseHeaded
<1>4. R!ParsePayload(h, d, arm, items) = R!CapsuleOf(h, r, d.items, arm, items)
  BY DEF R!ParsePayload
<1>. HIDE DEF arm
<1>5. /\ ScopeTyped(d.items, k, {}) /\ ScopeTyped(items, k, HeaderNames(d))
      /\ d.within \in k.ints /\ d.within \in HeaderNames(d)
  BY <1>2 DEF CapsuleTyped
<1>. HIDE DEF items
<1>7. Scope(d.items, n, k, {}) /\ Scope(items, Len(items), k, HeaderNames(d))
  BY <1>2, CapsuleScopes
<1>. HIDE DEF k
<1>8. Moves(s, h) /\ (h.err = "ok" => Has(h, k, HeaderNames(d)))
  BY <1>7, ScopeMoves DEF HeaderNames
<1>. HIDE DEF h, n
<1>9. CASE h.err # "ok"
  BY <1>3, <1>8, <1>9
<1>10. CASE h.err = "ok"
  <2>1. Sane(h) /\ Has(h, k, HeaderNames(d))
    BY <1>8, <1>10 DEF Moves
  <2>2. x \in Nat
    BY <1>5, <2>1 DEF Has, Knows, EnvTyped
  <2>. HIDE DEF x
  <2>3. Moves(h, r)
    BY <1>7, <1>10, <2>1, <2>2, PayloadMoves
  <2>4. \E y : q = R!Yield(r, y)
    BY <1>3, <1>4, <1>10 DEF R!CapsuleOf
  <2>. HIDE DEF r
  <2>5. Moves(r, q)
    BY <2>3, <2>4, Yields DEF Moves, Reads
  <2>6. Moves(s, r)
    BY <1>8, <2>3, MovesOn
  <2>. QED BY <2>5, <2>6, MovesOn
<1>. QED BY <1>9, <1>10

---------------------------------------------------------------------------
(* The generated functions                                                 *)

LEMMA BodyLeaves ==
  ASSUME Typed, NEW bytes \in Seq(Nat), NEW calls, CallsLeave(bytes, calls),
         NEW c, Window(c, bytes), NEW name, Compiled(name)
  PROVE  Leaves(bytes, c, R!Body(bytes, calls, [name |-> name, cur |-> c]))
<1> DEFINE s == R!Start(bytes, calls, c)
           d == Defs[name]
           q == R!ParseBody(s, d)
           o == R!Body(bytes, calls, [name |-> name, cur |-> c])
<1>1. /\ Sane(s) /\ s.err = "ok" /\ s.data = bytes /\ s.calls = calls /\ s.cur = c
      /\ \A k : Has(s, k, {})
  BY StartIs
<1>2. WellTyped(d)
  BY DEF Compiled, Typed, Defs
<1>3. o.err = q.err /\ o.cur = q.cur /\ o.views = q.views
  BY DEF R!Body, R!Returned
<1>4. Moves(s, q)
  <2>1. d.kind \in {"packet", "frame", "capsule"}
    BY <1>2 DEF WellTyped
  <2>2. q = CASE d.kind = "packet" -> R!ParsePacket(s, d)
              [] d.kind = "frame" -> R!ParseFrame(s, d)
              [] d.kind = "capsule" -> R!ParseCapsule(s, d)
    BY DEF R!ParseBody
  <2>. HIDE DEF s, d, q
  <2>3. CASE d.kind = "packet"
    BY <1>1, <1>2, <2>2, <2>3, PacketMoves
  <2>4. CASE d.kind = "frame"
    BY <1>1, <1>2, <2>2, <2>4, FrameMoves
  <2>5. CASE d.kind = "capsule"
    BY <1>1, <1>2, <2>2, <2>5, CapsuleMoves
  <2>. QED BY <2>1, <2>3, <2>4, <2>5
<1>. HIDE DEF q, s
<1>5. Leaves(bytes, c, o)
  <2>. HIDE DEF o
  <2>. QED BY <1>1, <1>3, <1>4 DEF Leaves, Moves, Sane
<1>. QED BY <1>5

LEMMA GeneratedLeave ==
  ASSUME Typed, NEW bytes \in Seq(Nat), NEW depth \in Nat
  PROVE  CallsLeave(bytes, R!Generated(bytes, depth))
<1> DEFINE base == [x \in R!Calls(bytes) |-> R!TooDeep(x)]
           up == [k \in 1 .. depth |-> k]
<1>1. ASSUME NEW name, NEW c, Compiled(name), Window(c, bytes)
      PROVE  [name |-> name, cur |-> c] \in R!Calls(bytes)
  BY <1>1 DEF R!Calls, Window, Compiled, Defs
<1>2. LevelOn(bytes, 0, base, base)
  <2>1. ASSUME NEW name, NEW c, Compiled(name), Window(c, bytes)
        PROVE  Leaves(bytes, c, base[[name |-> name, cur |-> c]])
    BY <1>1, <2>1 DEF Leaves, R!TooDeep
  <2>. HIDE DEF base
  <2>. QED BY <2>1 DEF LevelOn, CallsLeave
<1>3. ASSUME NEW t, CallsLeave(bytes, t), NEW x
      PROVE  CallsLeave(bytes, GenStep(bytes, 0, t, x))
  <2> DEFINE g == GenStep(bytes, 0, t, x)
  <2>1. ASSUME NEW name, NEW c, Compiled(name), Window(c, bytes)
        PROVE  Leaves(bytes, c, g[[name |-> name, cur |-> c]])
    <3>1. g[[name |-> name, cur |-> c]] = R!Body(bytes, t, [name |-> name, cur |-> c])
      BY <1>1, <2>1 DEF GenStep
    <3>. QED BY <1>3, <2>1, <3>1, BodyLeaves
  <2>. HIDE DEF g
  <2>2. CallsLeave(bytes, g)
    BY <2>1 DEF CallsLeave
  <2>. QED BY <2>2 DEF g
<1>4. DOMAIN up = 1 .. depth
  OBVIOUS
<1>5. R!Generated(bytes, depth) = FG!Fold(bytes, 0, base, up)
  BY DEF R!Generated, FG!Fold, FG!FoldLeft, R!FoldLeft, GenStep, R!MapThenFoldSet,
     FG!MapThenFoldSet, R!Max, FG!Max
<1>. HIDE DEF base, up
<1>6. \A i \in 1 .. depth : \A t : LevelOn(bytes, i - 1, t, t) =>
        LevelOn(bytes, i, GenStep(bytes, 0, t, up[i]), GenStep(bytes, 0, t, up[i]))
  BY <1>3 DEF LevelOn
<1>7. LevelOn(bytes, depth, FG!Fold(bytes, 0, base, up), FG!Fold(bytes, 0, base, up))
  BY <1>2, <1>4, <1>6, FG!FoldKeeps
<1>. QED BY <1>5, <1>7 DEF LevelOn

LEMMA RustParseLeaves ==
  ASSUME Typed, NEW bytes \in Seq(Nat), NEW name, Compiled(name)
  PROVE  Leaves(bytes, R!NewCursor(0, Len(bytes)), R!RustParseType(name, bytes))
<1> DEFINE c == R!NewCursor(0, Len(bytes))
<1>1. Window(c, bytes)
  BY DEF Window, R!NewCursor
<1>2. CallsLeave(bytes, R!Generated(bytes, MaxNesting))
  BY GeneratedLeave, CodecAssumption
<1>. HIDE DEF c
<1>3. Leaves(bytes, c, R!Body(bytes, R!Generated(bytes, MaxNesting), [name |-> name, cur |-> c]))
  BY <1>1, <1>2, BodyLeaves
<1>. QED BY <1>3 DEF R!RustParseType, c

---------------------------------------------------------------------------
(* The harness                                                             *)

(* A phase after a parse that succeeded.                                   *)
After == Phases \ (Before \cup {"rejected"})

(* What the first half of the harness passes on: obj is what the parser of *)
(* an accepted declaration returned for the input.                         *)
Parsing ==
  /\ schema \in DOMAIN Schemas /\ data \in Seq(Nat) /\ from \in Languages /\ to \in Languages
  /\ phase \in Phases
  /\ phase \notin {"compile", "refused"} => Accepted(Schemas[schema])
  /\ phase \in Before => obj = Nothing
  /\ phase \notin Before => obj = ParseBy(from, schema, data)
  /\ phase \in After => obj.err = "ok"

LEMMA InputsAreBytes ==
  ASSUME schema \in DOMAIN Schemas
  PROVE  Inputs \subseteq Seq(Nat)
<1>1. MaxInput[schema] \in Nat
  BY CodecAssumption
<1>2. Byte \subseteq Nat
  BY BaseNat DEF Byte, Base, R!Base, TwoTo, R!TwoTo
<1>3. ASSUME NEW bytes \in Inputs
      PROVE  bytes \in Seq(Nat)
  <2>1. PICK n \in 0 .. MaxInput[schema] : bytes \in [1 .. n -> Byte]
    BY <1>3 DEF Inputs
  <2>2. bytes \in [1 .. n -> Nat] /\ n \in Nat
    <3>1. \A i \in 1 .. n : bytes[i] \in Nat
      BY <1>2, <2>1
    <3>. QED BY <1>1, <2>1, <3>1
  <2>. QED BY <2>2
<1>. QED BY <1>3

LEMMA ParsingInductive == Parsing /\ [Next]_vars => Parsing'
<1> SUFFICES ASSUME Parsing, [Next]_vars
             PROVE  Parsing'
  OBVIOUS
<1>. USE DEF Parsing, After, Phases, Before, Languages
<1>1. CASE Compile
  BY <1>1 DEF Compile
<1>2. CASE Receive
  BY <1>2, InputsAreBytes DEF Receive
<1>3. CASE Parse
  BY <1>3 DEF Parse, Nothing
<1>4. CASE Serialize
  BY <1>4 DEF Serialize
<1>5. CASE Reparse
  BY <1>5 DEF Reparse
<1>6. CASE Reserialize
  BY <1>6 DEF Reserialize
<1>7. CASE UNCHANGED vars
  BY <1>7 DEF vars
<1>. QED BY <1>1, <1>2, <1>3, <1>4, <1>5, <1>6, <1>7 DEF Next

LEMMA ParsingHolds == Spec => []Parsing
<1>1. Init => Parsing
  BY DEF Init, Parsing, Phases, Before, After, Languages
<1>. QED BY <1>1, ParsingInductive, PTL DEF Spec

LEMMA RustObject ==
  ASSUME Typed, Parsing, from = "rust", obj.err = "ok", phase \notin Before
  PROVE  \E c : /\ Window(c, data) /\ Forward(R!NewCursor(0, Len(data)), c)
                /\ obj.used = c.pos /\ \A w \in obj.views : InScope(w, c)
<1> DEFINE r == R!RustParseType(schema, data)
<1>1. data \in Seq(Nat) /\ Compiled(schema) /\ obj = ParseBy(from, schema, data)
  BY DEF Parsing, Compiled, Before
<1>2. Leaves(data, R!NewCursor(0, Len(data)), r)
  BY <1>1, RustParseLeaves
<1>3. obj = ParseResult(r)
  BY <1>1 DEF ParseBy
<1>. HIDE DEF r
<1>4. r.err = "ok" /\ obj.used = r.cur.pos /\ obj.views = r.views
  BY <1>3 DEF ParseResult
<1>. QED BY <1>2, <1>4 DEF Leaves

(* What a parse of the Rust code uses lies in the input, of any length and *)
(* for any set of declarations that rustc accepts the code of.             *)
THEOREM RustTypeOK ==
  ASSUME Typed
  PROVE  Spec => [](from = "rust" => TypeOK)
<1>1. ASSUME Parsing, from = "rust"
      PROVE  TypeOK
  <2>1. CASE phase \in Before \cup {"rejected"}
    BY <1>1, <2>1 DEF TypeOK, Parsing, Before, Phases
  <2>2. CASE phase \notin Before \cup {"rejected"}
    <3>1. obj.err = "ok" /\ phase \notin Before
      BY <1>1, <2>2 DEF Parsing, After
    <3>2. obj.used \in 0 .. Len(data)
      BY <1>1, <3>1, RustObject DEF Window
    <3>. QED BY <1>1, <2>2, <3>1, <3>2 DEF TypeOK, Parsing
  <2>. QED BY <2>1, <2>2
<1>2. Parsing => (from = "rust" => TypeOK)
  BY <1>1
<1>. QED BY <1>2, ParsingHolds, PTL

(* A slice the Rust code hands out never leaves the bytes that a within, a *)
(* length or a payload gave it, nor what the parse consumed.               *)
THEOREM RustViewsInScope ==
  ASSUME Typed
  PROVE  Spec => [](from = "rust" => ViewsInScope)
<1>1. ASSUME Parsing, from = "rust", phase = "serialize"
      PROVE  \A w \in obj.views : w.lo <= w.view.from /\ w.view.to <= w.hi /\ w.view.to <= obj.used
  <2>1. obj.err = "ok" /\ phase \notin Before
    BY <1>1 DEF Parsing, After, Phases, Before
  <2>. QED BY <1>1, <2>1, RustObject DEF InScope
<1>2. Parsing => (from = "rust" => ViewsInScope)
  BY <1>1 DEF ViewsInScope, Parsed1
<1>. QED BY <1>2, ParsingHolds, PTL

---------------------------------------------------------------------------
(* The Rust code and the C code side by side. Where the Rust code reads a  *)
(* value from an input, the C code reads it from the input cut off behind  *)
(* what the Rust code consumed, or anywhere behind that.                   *)

CFields == Fields \cup {"outer"}

(* A cursor over the input cut off after m bytes.                          *)
CutTo(c, e, m) ==
  /\ e \in [lo : Nat, pos : Nat, hi : Nat]
  /\ e.lo = c.lo /\ e.pos = c.pos /\ e.hi = IF c.hi <= m THEN c.hi ELSE m

(* What parse functions return to callers that hold such cursors: the      *)
(* first one for the whole input, the second one for what was cut off. If  *)
(* nothing was, also their errors are the same.                            *)
Same(bytes, o, p, m) ==
  /\ o.err = "ok" /\ o.cur.pos <= m => p.err = "ok" /\ p.v = o.v /\ CutTo(o.cur, p.cur, m)
  /\ m = Len(bytes) => p.err = o.err /\ (o.err = "ok" => p.views = o.views)

Callable(name) == Compiled(name) /\ Plain(Defs[name])

CallsAgree(bytes, calls, ccalls, m) ==
  \A name, c, e : Callable(name) /\ Window(c, bytes) /\ c.pos <= m /\ CutTo(c, e, m) =>
    Same(bytes, calls[[name |-> name, cur |-> c]], ccalls[[name |-> name, cur |-> e]], m)

(* The two runs are at the same place, with the same variables.            *)
Context(s, u, m) ==
  /\ m \in Nat /\ m <= Len(s.data) /\ DOMAIN u = CFields
  /\ u.data = SubSeq(s.data, 1, m) /\ CallsAgree(s.data, s.calls, u.calls, m)

Level(s, u, m) ==
  /\ s.err = "ok" /\ u.err = "ok" /\ s.cur.pos <= m /\ CutTo(s.cur, u.cur, m)
  /\ u.env = s.env /\ u.groups = s.groups /\ u.v = s.v /\ u.at = s.at
  /\ m = Len(s.data) => u.views = s.views

Pair(s, u, m) == Sane(s) /\ Context(s, u, m) /\ Level(s, u, m)

(* The two runs got from s and u to r and q. If the Rust code is beyond    *)
(* the cut by then, nothing is known of the C code.                        *)
Follows(s, u, r, q, m) ==
  /\ r.err = "ok" /\ r.cur.pos <= m => Pair(r, q, m) /\ q.outer = u.outer
  /\ m = Len(s.data) => q.err = r.err /\ DOMAIN q = CFields

(* The operators the C code folds over, as steps of module Folding.        *)
CountStepC(ty, b, t, i) == IF t.err # "ok" THEN t ELSE C!ReadElement(t, ty, t.v)
HC == INSTANCE Folding WITH Step <- CountStepC, Good <- Natural

FillStepC(ty, b, t, i) ==
  IF t.err # "ok" \/ C!CurRemaining(t) = 0 THEN t
  ELSE IF Len(t.v) >= ty.max THEN C!Fail(t, "Capacity")
  ELSE C!ReadElement(t, ty, t.v)
HF == INSTANCE Folding WITH Step <- FillStepC, Good <- Natural

---------------------------------------------------------------------------
(* What the two backends share                                             *)

LEMMA SameRuntime ==
  /\ \A c, n : C!Fits(c, n) = R!Fits(c, n) /\ C!Advance(c, n) = R!Advance(c, n)
               /\ C!View(c, n) = R!View(c, n) /\ C!SubCursor(c, n) = R!SubCursor(c, n)
               /\ C!NewCursor(c, n) = R!NewCursor(c, n)
  /\ \A c : C!Remaining(c) = R!Remaining(c)
  /\ \A bs, w : C!Slice(bs, w) = R!Slice(bs, w)
BY DEF C!Fits, R!Fits, C!Advance, R!Advance, C!View, R!View, C!SubCursor, R!SubCursor, C!NewCursor,
   R!NewCursor, C!Remaining, R!Remaining, C!Slice, R!Slice

LEMMA SameNumbers == C!TwoTo = R!TwoTo /\ \A bs, e : C!Number(bs, e) = R!Number(bs, e)
<1>1. C!TwoTo = R!TwoTo
  BY DEF C!TwoTo, R!TwoTo
<1>2. C!Base = R!Base
  BY <1>1 DEF C!Base, R!Base
<1>3. ASSUME NEW bs, NEW e
      PROVE  C!Number(bs, e) = R!Number(bs, e)
  BY <1>2 DEF C!Number, R!Number, C!Reverse, R!Reverse, C!FoldLeft, R!FoldLeft, C!MapThenFoldSet,
     R!MapThenFoldSet, C!Max, R!Max
<1>. QED BY <1>1, <1>3

LEMMA SameExpressions ==
  /\ \A e, env : C!Eval(e, env) = R!Eval(e, env) /\ C!Holds(e, env) = R!Holds(e, env)
  /\ \A env, n, x : C!Assign(env, n, x) = R!Assign(env, n, x)
<1>1. \A e, env : C!Eval(e, env) = R!Eval(e, env)
  BY SameNumbers DEF C!Eval, R!Eval, C!Less, R!Less
<1>2. \A e, env : C!Holds(e, env) = R!Holds(e, env)
  BY <1>1 DEF C!Holds, R!Holds
<1>. QED BY <1>1, <1>2 DEF C!Assign, R!Assign

(* The differences that C takes in an int are not negative.                *)
Ordered(es, env) ==
  \A e \in es : e.op = "sub" /\ e.w < IntBits => env[e.f] >= e.v

(* Then C means by the expression what Rust does, and what it is cast to.  *)
LEMMA PromotedAlike ==
  ASSUME NEW env, NEW k, EnvTyped(env, k), NEW e, IsInteger(e, k), ExprRefs(e) \subseteq DOMAIN env,
         Ordered({e}, env)
  PROVE  /\ R!Eval(e, env) \in Nat
         /\ C!Promoted(e, env) = R!Eval(e, env) /\ C!SizeOf(e, env) = R!Eval(e, env)
         /\ ~Wide(e) => C!CountOf(e, env) = R!Eval(e, env)
<1>1. R!Eval(e, env) \in Nat
  BY EvalIsNat
<1>2. C!Promoted(e, env) = R!Eval(e, env)
  <2>1. CASE e.op = "sub" /\ e.w < IntBits
    <3>1. R!Eval(e, env) = R!Less(env[e.f], e.v, e.w) /\ env[e.f] >= e.v
      BY <2>1 DEF R!Eval, Ordered
    <3>. QED BY <2>1, <3>1 DEF R!Less, C!Promoted
  <2>2. CASE ~(e.op = "sub" /\ e.w < IntBits)
    BY <2>2, SameExpressions DEF C!Promoted
  <2>. QED BY <2>1, <2>2
<1>3. C!SizeOf(e, env) = R!Eval(e, env)
  BY <1>1, <1>2 DEF C!SizeOf
<1>4. C!Wide(e) <=> Wide(e)
  BY DEF C!Wide, Wide, C!TwoTo, TwoTo
<1>. QED BY <1>1, <1>2, <1>3, <1>4 DEF C!CountOf

LEMMA SameGroups ==
  /\ \A x, g : C!InGroup(x, g) = R!InGroup(x, g)
  /\ \A v, a, b : C!Extract(v, a, b) = R!Extract(v, a, b)
  /\ \A n : C!ContainerBytes(n) = R!ContainerBytes(n)
<1>1. \A x, g : C!InGroup(x, g) = R!InGroup(x, g)
  BY DEF C!InGroup, R!InGroup, C!IsField, R!IsField
<1>2. \A v, a, b : C!Extract(v, a, b) = R!Extract(v, a, b)
  BY SameNumbers DEF C!Extract, R!Extract
<1>. QED BY <1>1, <1>2 DEF C!ContainerBytes, R!ContainerBytes

LEMMA SameSums ==
  /\ \A x : C!IsField(x) = R!IsField(x)
  /\ \A items : C!HasChecksum(items) = R!HasChecksum(items)
  /\ \A items : C!ChecksumField(items) = R!ChecksumField(items)
<1>1. \A x : C!IsField(x) = R!IsField(x)
  BY DEF C!IsField, R!IsField
<1>2. \A items : C!ChecksumFields(items) = R!ChecksumFields(items)
  BY <1>1 DEF C!ChecksumFields, R!ChecksumFields
<1>. QED BY <1>1, <1>2 DEF C!HasChecksum, R!HasChecksum, C!ChecksumField, R!ChecksumField

(* A part of what was cut off.                                             *)
LEMMA CutPart ==
  ASSUME NEW bs \in Seq(Nat), NEW m \in Nat, m <= Len(bs), NEW a \in Nat, NEW b \in Nat, a <= b, b <= m
  PROVE  SubSeq(SubSeq(bs, 1, m), a + 1, b) = SubSeq(bs, a + 1, b)
<1> DEFINE cs == SubSeq(bs, 1, m)
<1>1. cs \in Seq(Nat) /\ Len(cs) = m /\ \A i \in 1 .. m : cs[i] = bs[i]
  BY PartIs
<1>. HIDE DEF cs
<1> DEFINE x == SubSeq(cs, a + 1, b)
           y == SubSeq(bs, a + 1, b)
<1>2. x \in Seq(Nat) /\ Len(x) = b - a /\ \A i \in 1 .. b - a : x[i] = cs[a + i]
  BY <1>1, PartIs
<1>3. y \in Seq(Nat) /\ Len(y) = b - a /\ \A i \in 1 .. b - a : y[i] = bs[a + i]
  BY PartIs
<1>. HIDE DEF x, y
<1>4. ASSUME NEW i \in 1 .. b - a
      PROVE  x[i] = y[i]
  <2>1. a + i \in 1 .. m
    OBVIOUS
  <2>. QED BY <1>1, <1>2, <1>3, <2>1
<1>5. x = y
  <2>1. DOMAIN x = 1 .. b - a /\ DOMAIN y = 1 .. b - a
    BY <1>2, <1>3
  <2>2. x = [i \in 1 .. b - a |-> x[i]] /\ y = [i \in 1 .. b - a |-> y[i]]
    BY <1>2, <1>3, <2>1
  <2>. QED BY <1>4, <2>2
<1>. QED BY <1>5 DEF x, y, cs

---------------------------------------------------------------------------
(* Reads                                                                   *)

(* Two reads that ended at the same place with the same value.             *)
LEMMA ReadsPair ==
  ASSUME NEW s, NEW u, NEW m, Pair(s, u, m), NEW r, NEW q, Reads(s, r), r.err = "ok", r.cur.pos <= m,
         DOMAIN q = CFields, q.data = u.data, q.calls = u.calls, q.err = "ok", q.outer = u.outer,
         q.env = u.env, q.groups = u.groups, q.at = u.at, q.v = r.v, CutTo(r.cur, q.cur, m),
         m = Len(s.data) => q.views = r.views
  PROVE  Follows(s, u, r, q, m)
BY DEF Pair, Context, Level, Reads, Moves, Follows

(* Both failed, or the Rust code alone, which it never does if nothing was *)
(* cut off.                                                                *)
LEMMA FailsAlike ==
  ASSUME NEW s, NEW u, NEW r, NEW q, NEW m, r.err # "ok",
         m = Len(s.data) => q.err = r.err /\ DOMAIN q = CFields
  PROVE  Follows(s, u, r, q, m)
BY DEF Follows

(* The Rust code is beyond the cut.                                        *)
LEMMA Beyond ==
  ASSUME NEW s, NEW r, Moves(s, r), r.err = "ok", NEW m \in Nat, r.cur.pos > m, m <= Len(s.data),
         NEW u, NEW q
  PROVE  Follows(s, u, r, q, m)
<1>1. r.cur.pos <= Len(s.data) /\ r.cur.pos \in Nat
  BY DEF Moves, Sane, Window
<1>. QED BY <1>1 DEF Follows

LEMMA Advanced ==
  ASSUME NEW c, NEW bytes, Window(c, bytes), NEW e, NEW m \in Nat, CutTo(c, e, m), NEW n \in Nat,
         R!Fits(c, n), c.pos + n <= m
  PROVE  /\ R!Fits(e, n) /\ CutTo(R!Advance(c, n), R!Advance(e, n), m)
         /\ R!Advance(c, n).pos = c.pos + n /\ R!View(e, n) = R!View(c, n)
<1>1. R!Advance(c, n) = [c EXCEPT !.pos = c.pos + n] /\ R!Advance(e, n) = [e EXCEPT !.pos = e.pos + n]
  BY DEF R!Advance
<1>2. R!Fits(e, n) /\ CutTo(R!Advance(c, n), R!Advance(e, n), m) /\ R!Advance(c, n).pos = c.pos + n
  BY <1>1 DEF Window, CutTo, R!Fits
<1>. QED BY <1>2 DEF R!View, CutTo

(* What does not fit the window does not fit a smaller one.                *)
LEMMA FitsNeither ==
  ASSUME NEW c, NEW bytes, Window(c, bytes), NEW e, NEW m \in Nat, CutTo(c, e, m), NEW n \in Nat,
         ~R!Fits(c, n)
  PROVE  ~R!Fits(e, n)
BY DEF Window, CutTo, R!Fits

(* The bytes of a window that are not cut off.                             *)
LEMMA SameBytes ==
  ASSUME NEW s, NEW u, NEW m, Pair(s, u, m), NEW n \in Nat, R!Fits(s.cur, n), s.cur.pos + n <= m
  PROVE  C!Slice(u.data, C!View(u.cur, n)) = R!Slice(s.data, R!View(s.cur, n))
<1> DEFINE bs == s.data
           lo == s.cur.pos
           hi == s.cur.pos + n
<1>1. bs \in Seq(Nat) /\ m \in Nat /\ m <= Len(bs) /\ lo \in Nat /\ hi \in Nat /\ lo <= hi /\ hi <= m
  BY DEF Pair, Context, Sane, Level, Window
<1>2. u.data = SubSeq(bs, 1, m) /\ u.cur.pos = lo
  BY DEF Pair, Context, Level, CutTo
<1>. HIDE DEF bs, lo
<1>3. SubSeq(SubSeq(bs, 1, m), lo + 1, hi) = SubSeq(bs, lo + 1, hi)
  <2>. HIDE DEF hi
  <2>. QED BY <1>1, CutPart
<1>4. R!Slice(s.data, R!View(s.cur, n)) = SubSeq(bs, lo + 1, hi)
  BY DEF R!Slice, R!View, bs, lo
<1>5. C!Slice(u.data, C!View(u.cur, n)) = SubSeq(SubSeq(bs, 1, m), lo + 1, hi)
  BY <1>2 DEF C!Slice, C!View, lo
<1>. QED BY <1>3, <1>4, <1>5

LEMMA PairIs ==
  ASSUME NEW s, NEW u, NEW m, Pair(s, u, m)
  PROVE  /\ Sane(s) /\ s.err = "ok" /\ u.err = "ok" /\ Window(s.cur, s.data) /\ CutTo(s.cur, u.cur, m)
         /\ m \in Nat /\ m <= Len(s.data) /\ DOMAIN u = CFields /\ DOMAIN s = Fields /\ s.data \in Seq(Nat)
         /\ u.env = s.env /\ s.cur.pos <= m /\ u.data = SubSeq(s.data, 1, m)
BY DEF Pair, Context, Level, Sane

LEMMA NumberFollows ==
  ASSUME NEW s, NEW u, NEW m, Pair(s, u, m), NEW n \in Nat, NEW e
  PROVE  Follows(s, u, R!ReadNumber(s, n, e), C!CursorRead(u, n, e), m)
<1> DEFINE r == R!ReadNumber(s, n, e)
           q == C!CursorRead(u, n, e)
<1>0. /\ Sane(s) /\ s.err = "ok" /\ Window(s.cur, s.data) /\ CutTo(s.cur, u.cur, m)
      /\ m \in Nat /\ m <= Len(s.data) /\ DOMAIN u = CFields /\ DOMAIN s = Fields
  BY PairIs
<1>1. Reads(s, r)
  BY <1>0, NumberReads
<1>2. CASE ~R!Fits(s.cur, n)
  <2>1. ~C!Fits(u.cur, n)
    BY <1>0, <1>2, FitsNeither, SameRuntime
  <2>2. r.err = "ShortBuffer" /\ q.err = "ShortBuffer" /\ DOMAIN q = CFields
    BY <1>0, <1>2, <2>1 DEF R!ReadNumber, C!CursorRead, R!Fail, C!Fail, Fields, CFields
  <2>. HIDE DEF r, q
  <2>3. Follows(s, u, r, q, m)
    BY <2>2, FailsAlike
  <2>. QED BY <2>3 DEF r, q
<1>3. CASE R!Fits(s.cur, n)
  <2> DEFINE x == R!Number(R!Slice(s.data, R!View(s.cur, n)), e)
  <2>1. r = [s EXCEPT !.v = x, !.cur = R!Advance(@, n)]
    BY <1>3 DEF R!ReadNumber
  <2>. HIDE DEF x
  <2>2. r.v = x /\ r.cur = R!Advance(s.cur, n) /\ r.err = "ok" /\ r.views = s.views
    BY <1>0, <2>1 DEF Fields
  <2>. HIDE DEF r
  <2>3. r.cur.pos = s.cur.pos + n
    BY <1>0, <2>2 DEF R!Advance, Window
  <2>4. CASE s.cur.pos + n > m
    <3>1. Follows(s, u, r, q, m)
      <4>. HIDE DEF q
      <4>. QED BY <1>0, <1>1, <2>2, <2>3, <2>4, Beyond DEF Reads
    <3>. QED BY <3>1 DEF r
  <2>5. CASE ~(s.cur.pos + n > m)
    <3>0. s.cur.pos + n <= m
      BY <1>0, <2>5 DEF Window
    <3>1. C!Fits(u.cur, n) /\ CutTo(r.cur, R!Advance(u.cur, n), m)
      BY <1>0, <1>3, <2>2, <3>0, Advanced, SameRuntime
    <3> DEFINE y == C!Number(C!Slice(u.data, C!View(u.cur, n)), e)
    <3>2. y = x
      BY <1>3, <3>0, SameBytes, SameNumbers DEF x
    <3>3. q = [u EXCEPT !.v = y, !.cur = C!Advance(@, n)]
      BY <3>1 DEF C!CursorRead
    <3>. HIDE DEF y
    <3>4. /\ q.v = y /\ q.cur = C!Advance(u.cur, n) /\ q.data = u.data /\ q.calls = u.calls /\ q.err = u.err
          /\ q.outer = u.outer /\ q.env = u.env /\ q.groups = u.groups /\ q.at = u.at /\ q.views = u.views
          /\ DOMAIN q = CFields
      BY <1>0, <3>3 DEF CFields, Fields
    <3>. HIDE DEF q
    <3>5. CutTo(r.cur, q.cur, m) /\ q.err = "ok" /\ (m = Len(s.data) => q.views = r.views)
      BY <1>0, <2>2, <3>1, <3>4, SameRuntime DEF Pair, Level
    <3>6. Follows(s, u, r, q, m)
      BY <1>1, <2>2, <2>3, <3>0, <3>2, <3>4, <3>5, ReadsPair
    <3>. QED BY <3>6 DEF r, q
  <2>. QED BY <2>4, <2>5
<1>. QED BY <1>2, <1>3

(* A slice of n bytes, however the C code moves on behind it.              *)
LEMMA SliceFollows ==
  ASSUME NEW s, NEW u, NEW m, Pair(s, u, m), NEW n \in Nat, R!Fits(s.cur, n),
         NEW q, DOMAIN q = CFields, q.data = u.data, q.calls = u.calls, q.err = u.err, q.outer = u.outer,
         q.env = u.env, q.groups = u.groups, q.at = u.at, q.v = C!Slice(u.data, C!View(u.cur, n)),
         q.cur = C!Advance(u.cur, n),
         q.views = u.views \cup {[view |-> C!View(u.cur, n), lo |-> u.cur.lo, hi |-> u.cur.hi]}
  PROVE  Follows(s, u, R!ReadBytes(s, n), q, m)
<1> DEFINE r == R!ReadBytes(s, n)
           x == R!Slice(s.data, R!View(s.cur, n))
           w == [view |-> R!View(s.cur, n), lo |-> s.cur.lo, hi |-> s.cur.hi]
<1>0. /\ Sane(s) /\ s.err = "ok" /\ Window(s.cur, s.data) /\ CutTo(s.cur, u.cur, m)
      /\ m \in Nat /\ m <= Len(s.data) /\ DOMAIN u = CFields /\ DOMAIN s = Fields /\ u.err = "ok"
  BY PairIs
<1>1. Reads(s, r)
  BY <1>0, BytesReads
<1>2. r = [s EXCEPT !.v = x, !.cur = R!Advance(@, n), !.views = @ \cup {w}]
  BY <1>0 DEF R!ReadBytes
<1>. HIDE DEF x, w
<1>3. r.v = x /\ r.cur = R!Advance(s.cur, n) /\ r.err = "ok" /\ r.views = s.views \cup {w}
  BY <1>0, <1>2 DEF Fields
<1>. HIDE DEF r
<1>4. r.cur.pos = s.cur.pos + n
  BY <1>0, <1>3 DEF R!Advance, Window
<1>5. CASE s.cur.pos + n > m
  <2>1. Follows(s, u, r, q, m)
    BY <1>0, <1>1, <1>3, <1>4, <1>5, Beyond DEF Reads
  <2>. QED BY <2>1 DEF r
<1>6. CASE ~(s.cur.pos + n > m)
  <2>0. s.cur.pos + n <= m
    BY <1>0, <1>6 DEF Window
  <2>1. CutTo(r.cur, R!Advance(u.cur, n), m) /\ R!View(u.cur, n) = R!View(s.cur, n)
    BY <1>0, <1>3, <2>0, Advanced
  <2>2. CutTo(r.cur, q.cur, m) /\ q.err = "ok" /\ C!View(u.cur, n) = R!View(s.cur, n)
    BY <1>0, <2>1, SameRuntime
  <2>3. q.v = r.v
    BY <1>3, <2>0, SameBytes DEF x
  <2>4. ASSUME m = Len(s.data)
        PROVE  q.views = r.views
    <3>1. u.views = s.views /\ u.cur.lo = s.cur.lo /\ u.cur.hi = s.cur.hi
      BY <1>0, <2>4 DEF Pair, Level, CutTo, Window
    <3>. QED BY <1>3, <2>2, <3>1 DEF w
  <2>5. Follows(s, u, r, q, m)
    BY <1>1, <1>3, <1>4, <2>0, <2>2, <2>3, <2>4, ReadsPair
  <2>. QED BY <2>5 DEF r
<1>. QED BY <1>5, <1>6

LEMMA BytesFollow ==
  ASSUME NEW s, NEW u, NEW m, Pair(s, u, m), NEW n \in Nat
  PROVE  Follows(s, u, R!ReadBytes(s, n), C!CursorReadBytes(u, n), m)
<1> DEFINE r == R!ReadBytes(s, n)
           q == C!CursorReadBytes(u, n)
<1>0. /\ Sane(s) /\ s.err = "ok" /\ Window(s.cur, s.data) /\ CutTo(s.cur, u.cur, m)
      /\ m \in Nat /\ m <= Len(s.data) /\ DOMAIN u = CFields /\ DOMAIN s = Fields /\ u.err = "ok"
  BY PairIs
<1>1. CASE ~R!Fits(s.cur, n)
  <2>1. ~C!Fits(u.cur, n)
    BY <1>0, <1>1, FitsNeither, SameRuntime
  <2>2. r.err = "ShortBuffer" /\ q.err = "ShortBuffer" /\ DOMAIN q = CFields
    BY <1>0, <1>1, <2>1 DEF R!ReadBytes, C!CursorReadBytes, R!Fail, C!Fail, Fields, CFields
  <2>. HIDE DEF r, q
  <2>3. Follows(s, u, r, q, m)
    BY <2>2, FailsAlike
  <2>. QED BY <2>3 DEF r, q
<1>2. CASE R!Fits(s.cur, n)
  <2>1. n \in Nat /\ R!Fits(s.cur, n)
    BY <1>2
  <2>2. CASE s.cur.pos + n > m
    <3>1. Reads(s, r)
      BY <1>0, BytesReads
    <3>2. r.err = "ok" /\ r.cur = R!Advance(s.cur, n)
      BY <1>0, <1>2 DEF R!ReadBytes, Fields
    <3>. HIDE DEF r, q
    <3>3. r.cur.pos = s.cur.pos + n
      BY <1>0, <3>2 DEF R!Advance, Window
    <3>4. Follows(s, u, r, q, m)
      BY <1>0, <2>2, <3>1, <3>2, <3>3, Beyond DEF Reads
    <3>. QED BY <3>4 DEF r, q
  <2>3. CASE ~(s.cur.pos + n > m)
    <3>0. s.cur.pos + n <= m
      BY <1>0, <2>1, <2>3 DEF Window
    <3>1. C!Fits(u.cur, n)
      BY <1>0, <2>1, <3>0, Advanced, SameRuntime
    <3>2. q = C!PointAt(u, n)
      BY <2>1, <3>1 DEF C!CursorReadBytes
    <3> DEFINE x == C!Slice(u.data, C!View(u.cur, n))
               y == C!Advance(u.cur, n)
               w == [view |-> C!View(u.cur, n), lo |-> u.cur.lo, hi |-> u.cur.hi]
    <3>3. q = [u EXCEPT !.v = x, !.cur = y, !.views = @ \cup {w}]
      BY <3>2 DEF C!PointAt
    <3>. HIDE DEF q, x, y, w
    <3>4. /\ DOMAIN q = CFields /\ q.data = u.data /\ q.calls = u.calls /\ q.err = u.err /\ q.outer = u.outer
          /\ q.env = u.env /\ q.groups = u.groups /\ q.at = u.at /\ q.v = x /\ q.cur = y
          /\ q.views = u.views \cup {w}
      BY <1>0, <3>3 DEF CFields, Fields
    <3>5. Follows(s, u, r, q, m)
      <4>. HIDE DEF r
      <4>. QED BY <2>1, <3>4, SliceFollows DEF r, x, y, w
    <3>. QED BY <3>5 DEF q
  <2>. QED BY <2>2, <2>3
<1>. QED BY <1>1, <1>2

(* What remains of a window that was cut off is less.                      *)
LEMMA RemainingFollows ==
  ASSUME NEW s, NEW u, NEW m, Pair(s, u, m)
  PROVE  Follows(s, u, R!ReadRemaining(s), C!PointAtRest(u, C!Remaining(u.cur)), m)
<1> DEFINE n == R!Remaining(s.cur)
           r == R!ReadBytes(s, n)
           q == C!PointAtRest(u, C!Remaining(u.cur))
<1>0. /\ Sane(s) /\ s.err = "ok" /\ Window(s.cur, s.data) /\ CutTo(s.cur, u.cur, m)
      /\ m \in Nat /\ m <= Len(s.data) /\ DOMAIN u = CFields /\ DOMAIN s = Fields /\ u.err = "ok"
      /\ s.cur.pos <= m
  BY PairIs
<1>1. n \in Nat /\ R!Fits(s.cur, n) /\ s.cur.pos + n = s.cur.hi
  BY <1>0 DEF Window, R!Remaining, R!Fits
<1>2. R!ReadRemaining(s) = r
  BY DEF R!ReadRemaining
<1>. HIDE DEF n
<1>3. CASE s.cur.hi > m
  <2>1. Reads(s, r)
    BY <1>0, <1>1, BytesReads
  <2>2. r.err = "ok" /\ r.cur = R!Advance(s.cur, n)
    BY <1>0, <1>1 DEF R!ReadBytes, Fields
  <2>. HIDE DEF r, q
  <2>3. r.cur.pos = s.cur.pos + n
    BY <1>0, <2>2 DEF R!Advance, Window
  <2>4. Follows(s, u, r, q, m)
    BY <1>0, <1>1, <1>3, <2>1, <2>2, <2>3, Beyond DEF Reads
  <2>. QED BY <1>2, <2>4 DEF q
<1>4. CASE ~(s.cur.hi > m)
  <2>1. C!Remaining(u.cur) = n /\ u.cur.hi = s.cur.hi /\ u.cur.pos = s.cur.pos
    BY <1>0, <1>4, SameRuntime DEF CutTo, Window, R!Remaining, n
  <2> DEFINE p == C!PointAt(u, n)
             x == C!Slice(u.data, C!View(u.cur, n))
             w == [view |-> C!View(u.cur, n), lo |-> u.cur.lo, hi |-> u.cur.hi]
             y == C!Advance(u.cur, n)
  <2>2. p = [u EXCEPT !.v = x, !.cur = y, !.views = @ \cup {w}]
    BY DEF C!PointAt
  <2>3. q = [p EXCEPT !.cur.pos = u.cur.hi]
    BY <2>1 DEF C!PointAtRest
  <2>4. y = [u.cur EXCEPT !.pos = u.cur.pos + n]
    BY DEF C!Advance
  <2>. HIDE DEF q, x, p, w, y
  <2>5. /\ DOMAIN p = CFields /\ p.data = u.data /\ p.calls = u.calls /\ p.err = u.err /\ p.outer = u.outer
        /\ p.env = u.env /\ p.groups = u.groups /\ p.at = u.at /\ p.v = x /\ p.cur = y
        /\ p.views = u.views \cup {w}
    BY <1>0, <2>2 DEF CFields, Fields
  <2>6. [y EXCEPT !.pos = u.cur.hi] = y
    BY <1>0, <1>1, <2>1, <2>4 DEF CutTo
  <2>7. /\ DOMAIN q = CFields /\ q.data = u.data /\ q.calls = u.calls /\ q.err = u.err /\ q.outer = u.outer
        /\ q.env = u.env /\ q.groups = u.groups /\ q.at = u.at /\ q.v = x /\ q.cur = y
        /\ q.views = u.views \cup {w}
    BY <2>3, <2>5, <2>6 DEF CFields, Fields
  <2>8. Follows(s, u, r, q, m)
    <3>. HIDE DEF r
    <3>. QED BY <1>1, <2>7, SliceFollows DEF r, x, y, w
  <2>. QED BY <1>2, <2>8 DEF q
<1>. QED BY <1>3, <1>4

---------------------------------------------------------------------------
(* Variable-length integers                                                *)

LEMMA WholeIs ==
  ASSUME NEW bs \in Seq(Nat)
  PROVE  SubSeq(bs, 1, Len(bs)) = bs
OBVIOUS

LEMMA PartOfPart ==
  ASSUME NEW bs \in Seq(Nat), NEW a \in Nat, NEW b \in Nat, a <= b, b <= Len(bs), NEW l \in Nat, a + l <= b
  PROVE  SubSeq(SubSeq(bs, a + 1, b), 1, l) = SubSeq(bs, a + 1, a + l)
<1> DEFINE cs == SubSeq(bs, a + 1, b)
           x == SubSeq(cs, 1, l)
           hi == a + l
           y == SubSeq(bs, a + 1, hi)
<1>1. cs \in Seq(Nat) /\ Len(cs) = b - a /\ \A i \in 1 .. b - a : cs[i] = bs[a + i]
  BY PartIs
<1>. HIDE DEF cs
<1>2. l <= b - a /\ hi \in Nat /\ hi <= Len(bs) /\ a <= hi /\ hi - a = l
  OBVIOUS
<1>3. x \in Seq(Nat) /\ Len(x) = l /\ \A i \in 1 .. l : x[i] = cs[i]
  BY <1>1, <1>2
<1>4. y \in Seq(Nat) /\ Len(y) = l /\ \A i \in 1 .. l : y[i] = bs[a + i]
  <2>. HIDE DEF hi
  <2>1. y \in Seq(Nat) /\ Len(y) = hi - a /\ \A i \in 1 .. hi - a : y[i] = bs[a + i]
    BY <1>2, PartIs
  <2>. QED BY <1>2, <2>1
<1>. HIDE DEF x, y
<1>5. x = y
  <2>1. DOMAIN x = 1 .. l /\ DOMAIN y = 1 .. l
    BY <1>3, <1>4
  <2>2. x = [i \in 1 .. l |-> x[i]] /\ y = [i \in 1 .. l |-> y[i]]
    BY <1>3, <1>4, <2>1
  <2>3. ASSUME NEW i \in 1 .. l
        PROVE  x[i] = y[i]
    <3>1. i \in 1 .. b - a
      BY <1>2
    <3>. QED BY <1>1, <1>3, <1>4, <3>1
  <2>4. [i \in 1 .. l |-> x[i]] = [i \in 1 .. l |-> y[i]]
    BY <2>3
  <2>. QED BY <2>2, <2>4
<1>. QED BY <1>5 DEF x, y, cs, hi

(* The results of the two decoders on bytes and on the first l of them.    *)
SameNumber(bs, o, p, l) ==
  /\ o.err = "ok" /\ o.n <= l => p.err = "ok" /\ p.v = o.v /\ p.n = o.n
  /\ l = Len(bs) => p.err = o.err

LEMMA PrefixAgrees ==
  ASSUME NEW bs \in Seq(Nat), NEW l \in Nat, l <= Len(bs), NEW vi, VarintWritten(vi), VarintPortable(vi),
         vi.enc = "prefix"
  PROVE  SameNumber(bs, R!RustParsePrefix(vi, bs), C!CParsePrefix(vi, SubSeq(bs, 1, l)), l)
<1> DEFINE cs == SubSeq(bs, 1, l)
           o == R!RustParsePrefix(vi, bs)
           p == C!CParsePrefix(vi, cs)
           arms == R!PrefixArms(vi, bs)
<1>0. cs \in Seq(Nat) /\ Len(cs) = l /\ \A i \in 1 .. l : cs[i] = bs[i]
  OBVIOUS
<1>1. l = Len(bs) => cs = bs
  BY WholeIs
<1>. HIDE DEF cs
<1>2. \A i, j \in arms : i = j /\ i \in Nat /\ vi.branches[i].prefix = i - 1
                         /\ vi.branches[i].value_bits \in Nat
  BY DEF R!PrefixArms, R!Branches, VarintWritten, VarintPortable, Branches
<1>3. l # 0 => cs # <<>> /\ bs # <<>> /\ C!PrefixArms(vi, cs) = arms
  <2>1. \A b : C!PrefixOf(vi, b) = R!PrefixOf(vi, b)
    BY SameNumbers DEF C!PrefixOf, R!PrefixOf
  <2>. QED BY <1>0, <2>1 DEF C!PrefixArms, R!PrefixArms, C!Branches, R!Branches
<1>4. CASE bs = <<>> \/ arms = {}
  <2>1. o.err = IF bs = <<>> THEN "ShortBuffer" ELSE "InvalidTag"
    BY <1>4 DEF R!RustParsePrefix, R!NotParsed
  <2>2. l = Len(bs) => p.err = IF bs = <<>> THEN "ShortBuffer" ELSE "InvalidTag"
    BY <1>1, <1>3, <1>4 DEF C!CParsePrefix, C!NotParsed
  <2>. HIDE DEF o, p
  <2>3. SameNumber(bs, o, p, l)
    BY <2>1, <2>2 DEF SameNumber
  <2>. QED BY <2>3 DEF o, p, cs
<1>5. CASE ~(bs = <<>> \/ arms = {})
  <2> DEFINE i == R!FirstArm(vi, bs)
             b == vi.branches[i]
             n == R!TotalBytes(vi, b)
             x == R!BelowPrefix(vi, bs, n)
  <2>1. i \in arms
    <3>1. \E y \in arms : \A z \in arms : y <= z
      BY <1>2, <1>5
    <3>. QED BY <3>1 DEF R!FirstArm
  <2>2. arms = {i}
    BY <1>2, <2>1
  <2>3. i \in Nat /\ b.prefix = i - 1 /\ b.value_bits \in Nat /\ vi.bits \in Nat \ {0}
    BY <1>2, <2>1 DEF VarintWritten, VarintPortable
  <2>. HIDE DEF i
  <2>4. n \in Nat /\ n > 0
    <3> DEFINE a == vi.bits + b.value_bits + ByteBits - 1
    <3>1. a \in Nat /\ a >= ByteBits
      BY <2>3, ByteBitsAssumption
    <3>2. n = a \div ByteBits
      BY DEF R!TotalBytes
    <3>3. \A y \in Nat, z \in Nat \ {0} : y >= z => y \div z \in Nat /\ y \div z > 0
      OBVIOUS
    <3>. HIDE DEF a, n
    <3>. QED BY <3>1, <3>2, <3>3, ByteBitsAssumption
  <2>5. C!TotalBytes(vi, b) = n
    BY DEF C!TotalBytes, R!TotalBytes
  <2>. HIDE DEF n, b
  <2>6. n <= l => C!BelowPrefix(vi, cs, n) = x
    <3>1. n <= l => SubSeq(cs, 1 + 1, n) = SubSeq(bs, 1 + 1, n)
      BY <2>4, CutPart DEF cs
    <3>2. n <= l => SubSeq(cs, 2, n) = SubSeq(bs, 2, n) /\ cs[1] = bs[1]
      BY <1>0, <2>4, <3>1
    <3>. QED BY <3>2, SameNumbers DEF C!BelowPrefix, R!BelowPrefix
  <2>7. o = R!RustTake(vi, bs, i, n)
    BY <1>5 DEF R!RustParsePrefix, R!RustBranch, i, n, b
  <2>8. l # 0 => p = C!CTake(vi, cs, i - 1, n)
    <3>1. l # 0 => C!OnlyOne(C!PrefixArms(vi, cs)) = i
      BY <1>3, <2>2 DEF C!OnlyOne
    <3>2. l # 0 => p = C!CBranch(vi, cs, vi.branches[i])
      BY <1>3, <1>5, <3>1 DEF C!CParsePrefix
    <3>. QED BY <2>3, <2>5, <3>2 DEF C!CBranch, b
  <2>9. C!CNotCanonical(vi, i - 1, x) <=> R!NotCanonical(vi, i, x)
    <3>1. \A y : C!MaxValue(y) = R!MaxValue(y)
      BY SameNumbers DEF C!MaxValue, R!MaxValue, C!SmallerOf, R!SmallerOf, C!MaxWord, R!MaxWord
    <3>2. i - 1 > 0 <=> i > 1
      BY <2>3
    <3>. QED BY <3>1, <3>2 DEF C!CNotCanonical, R!NotCanonical
  <2>. HIDE DEF x
  <2>10. o = IF n > Len(bs) THEN R!NotParsed("ShortBuffer", Len(bs))
             ELSE IF R!NotCanonical(vi, i, x) THEN R!NotParsed("Noncanonical", n) ELSE R!Parsed(x, n)
    BY <2>7 DEF R!RustTake, x
  <2>11. l # 0 /\ n <= l => p = IF R!NotCanonical(vi, i, x) THEN C!NotParsed("Noncanonical", 0)
                                ELSE C!Parsed(x, n)
    BY <1>0, <2>4, <2>6, <2>8, <2>9 DEF C!CTake
  <2>12. l # 0 /\ n > l => p = C!NotParsed("ShortBuffer", 0)
    BY <1>0, <2>8 DEF C!CTake
  <2>13. l = Len(bs) => l # 0
    BY <1>5
  <2>. HIDE DEF o, p
  <2>14. SameNumber(bs, o, p, l)
    BY <2>4, <2>10, <2>11, <2>12, <2>13 DEF SameNumber, R!NotParsed, R!Parsed, C!NotParsed, C!Parsed
  <2>. QED BY <2>14 DEF o, p, cs
<1>. QED BY <1>4, <1>5

(* The value of n bytes is that of bytes that begin with them.             *)
LEMMA ValueOfPart ==
  ASSUME NEW bs, NEW cs, NEW n \in Nat, \A i \in 1 .. n : cs[i] = bs[i], NEW vi
  PROVE  C!Value(vi, cs, n) = R!Value(vi, bs, n)
<1> DEFINE up == [i \in 1 .. n |-> i]
           f == FV!Fold(vi, bs, 0, up)
           g == FV!Fold(vi, cs, 0, up)
<1>1. DOMAIN up = 1 .. n /\ \A i \in 1 .. n : up[i] = i
  OBVIOUS
<1>2. f = g
  <2>. HIDE DEF up
  <2>1. PICK run : FV!Runs(run, vi, bs, 0, up, n)
    BY <1>1, FV!FoldRuns
  <2>2. PICK run2 : FV!Runs(run2, vi, cs, 0, up, n)
    BY <1>1, FV!FoldRuns
  <2> DEFINE S == { i \in 0 .. n : run[i] = run2[i] }
  <2>3. 0 \in S
    BY <2>1, <2>2 DEF FV!Runs
  <2>4. \A i \in 1 .. n : i - 1 \in S => i \in S
    <3>1. ASSUME NEW i \in 1 .. n, run[i - 1] = run2[i - 1]
          PROVE  run[i] = run2[i]
      BY <1>1, <2>1, <2>2, <3>1 DEF FV!Runs, ChunkStep
    <3>. QED BY <3>1
  <2>5. n \in S
    <3>. HIDE DEF S
    <3>1. \A i \in 0 .. n : i \in S
      BY <2>3, <2>4, FV!Upwards
    <3>. QED BY <3>1
  <2>. QED BY <2>1, <2>2, <2>5 DEF FV!Runs
<1> DEFINE sum(x) == FoldLeft(LAMBDA v, i : v + (R!Chunk(vi, x[i]) * R!TwoTo[(i - 1) * vi.bits]), 0,
                              [i \in 1 .. n |-> i])
<1>3. f = sum(bs) /\ g = sum(cs)
  BY DEF FV!Fold, FoldLeft, FV!FoldLeft, ChunkStep, MapThenFoldSet, FV!MapThenFoldSet, Max, FV!Max
<1>4. R!Value(vi, bs, n) = sum(bs) % (R!MaxWord + 1)
  BY DEF R!Value, FoldLeft, R!FoldLeft, MapThenFoldSet, R!MapThenFoldSet, Max, R!Max
<1>5. C!TwoTo = R!TwoTo
  BY SameNumbers
<1>6. C!Value(vi, cs, n) = sum(cs) % (C!MaxWord + 1)
  BY <1>5 DEF C!Value, C!Chunk, R!Chunk, FoldLeft, C!FoldLeft, MapThenFoldSet, C!MapThenFoldSet, Max, C!Max
<1>7. C!MaxWord = R!MaxWord
  BY SameNumbers DEF C!MaxWord, R!MaxWord
<1>. HIDE DEF sum, f, g
<1>. QED BY <1>2, <1>3, <1>4, <1>6, <1>7

LEMMA ContinuesAlike ==
  ASSUME NEW vi, vi.bits = ByteBits - 1, NEW b \in Nat
  PROVE  C!More(b) <=> ~R!Stops(vi, b)
<1> DEFINE h == R!TwoTo[vi.bits]
<1>1. vi.bits \in Nat /\ ByteBits # 0 /\ ByteBits \in Nat
  BY ByteBitsAssumption
<1>2. h \in Nat /\ h > 0 /\ C!Base = 2 * h
  BY <1>1, SameNumbers, TwoToIs, TwoToNat DEF C!Base
<1>. HIDE DEF h
<1>3. C!Base \div 2 = h
  BY <1>2
<1>4. b % h = b <=> b < h
  BY <1>2, ModNat
<1>. QED BY <1>2, <1>3, <1>4 DEF C!More, R!Stops, R!Chunk, h

LEMMA ContAgrees ==
  ASSUME NEW bs \in Seq(Nat), NEW l \in Nat, l <= Len(bs), NEW vi, VarintWritten(vi), VarintPortable(vi),
         vi.enc # "prefix"
  PROVE  SameNumber(bs, R!RustParseCont(vi, bs), C!CParseCont(vi, SubSeq(bs, 1, l)), l)
<1> DEFINE cs == SubSeq(bs, 1, l)
           o == R!RustParseCont(vi, bs)
           p == C!CParseCont(vi, cs)
           S == R!LastByte(vi, bs)
           T == C!CLastByte(vi, cs)
<1>0. cs \in Seq(Nat) /\ Len(cs) = l /\ (\A i \in 1 .. l : cs[i] = bs[i]) /\ \A i \in 1 .. l : cs[i] \in Nat
  OBVIOUS
<1>1. l = Len(bs) => cs = bs
  BY WholeIs
<1>. HIDE DEF cs
<1>2. vi.bits = ByteBits - 1 /\ vi.max \in Nat /\ vi.order # "big"
  BY DEF VarintWritten, VarintPortable
<1>3. \A i \in 1 .. l : C!More(cs[i]) <=> ~R!Stops(vi, bs[i])
  BY <1>0, <1>2, ContinuesAlike
<1>4. \A n : n \in S => n \in Nat /\ n >= 1 /\ n <= vi.max /\ n <= Len(bs) /\ R!Stops(vi, bs[n])
                        /\ \A k \in 1 .. n - 1 : ~R!Stops(vi, bs[k])
  BY <1>2 DEF R!LastByte, R!SmallerOf
<1>5. \A n : n \in T <=> n \in S /\ n <= l
  <2>1. C!SmallerOf(vi.max, Len(cs)) \in Nat /\ R!SmallerOf(vi.max, Len(bs)) \in Nat
    BY <1>0, <1>2 DEF C!SmallerOf, R!SmallerOf
  <2>2. \A n \in Nat : n <= C!SmallerOf(vi.max, Len(cs)) <=> n <= R!SmallerOf(vi.max, Len(bs)) /\ n <= l
    BY <1>0, <1>2 DEF C!SmallerOf, R!SmallerOf
  <2>3. ASSUME NEW n \in Nat, n >= 1, n <= l
        PROVE  /\ C!More(cs[n]) <=> ~R!Stops(vi, bs[n])
               /\ (\A k \in 1 .. n - 1 : C!More(cs[k])) <=> (\A k \in 1 .. n - 1 : ~R!Stops(vi, bs[k]))
    BY <1>3, <2>3
  <2>4. \A n \in T : n \in Nat /\ n >= 1 /\ n <= l
    BY <2>1, <2>2 DEF C!CLastByte
  <2>5. \A n \in Nat : n >= 1 /\ n <= l => (n \in T <=> n \in S)
    BY <2>1, <2>2, <2>3 DEF C!CLastByte, R!LastByte
  <2>6. \A n \in S : n \in Nat /\ n >= 1
    BY <1>4
  <2>. HIDE DEF S, T
  <2>. QED BY <2>4, <2>5, <2>6
<1>6. \A i, j \in S : i = j
  <2>1. ASSUME NEW i \in S, NEW j \in S
        PROVE  ~(i < j)
    <3>1. i \in Nat /\ j \in Nat /\ i >= 1 /\ R!Stops(vi, bs[i]) /\ \A k \in 1 .. j - 1 : ~R!Stops(vi, bs[k])
      BY <1>4
    <3>. QED BY <3>1
  <2>2. \A i \in S : i \in Nat
    BY <1>4
  <2>. HIDE DEF S
  <2>. QED BY <2>1, <2>2
<1>7. CASE S = {}
  <2>1. T = {}
    BY <1>5, <1>7
  <2>2. o = IF Len(bs) < vi.max THEN R!NotParsed("ShortBuffer", Len(bs)) ELSE R!NotParsed("Overflow", vi.max)
    BY <1>7 DEF R!RustParseCont
  <2>3. p = C!NotParsed(IF Len(cs) < vi.max THEN "ShortBuffer" ELSE "Overflow", 0)
    BY <2>1 DEF C!CParseCont
  <2>. HIDE DEF o, p
  <2>4. SameNumber(bs, o, p, l)
    BY <1>0, <2>2, <2>3 DEF SameNumber, R!NotParsed, C!NotParsed
  <2>. QED BY <2>4 DEF o, p, cs
<1>8. CASE S # {}
  <2> DEFINE n == R!OnlyOne(S)
  <2>1. n \in S /\ n \in Nat /\ n <= Len(bs)
    BY <1>4, <1>8 DEF R!OnlyOne
  <2>. HIDE DEF n
  <2>2. o = R!Parsed(R!Value(vi, bs, n), n)
    BY <1>8 DEF R!RustParseCont, R!RustTakeCont, n
  <2>3. ASSUME n <= l
        PROVE  p = C!Parsed(R!Value(vi, bs, n), n)
    <3>1. T # {} /\ C!OnlyOne(T) = n
      BY <1>5, <1>6, <2>1, <2>3 DEF C!OnlyOne
    <3>2. C!Value(vi, cs, n) = R!Value(vi, bs, n)
      <4>1. \A i \in 1 .. n : cs[i] = bs[i]
        BY <1>0, <2>1, <2>3
      <4>. QED BY <2>1, <4>1, ValueOfPart
    <3>3. p = C!CTakeCont(vi, cs, n)
      BY <3>1 DEF C!CParseCont
    <3>. QED BY <1>2, <3>2, <3>3 DEF C!CTakeCont, C!CValue
  <2>. HIDE DEF o, p
  <2>4. SameNumber(bs, o, p, l)
    BY <2>1, <2>2, <2>3 DEF SameNumber, R!Parsed, C!Parsed
  <2>. QED BY <2>4 DEF o, p, cs
<1>. QED BY <1>7, <1>8

LEMMA VarintsAgree ==
  ASSUME NEW bs \in Seq(Nat), NEW l \in Nat, l <= Len(bs), NEW vi, VarintWritten(vi), VarintPortable(vi)
  PROVE  SameNumber(bs, R!RustParse(vi, bs), C!CParse(vi, SubSeq(bs, 1, l)), l)
BY PrefixAgrees, ContAgrees DEF R!RustParse, C!CParse

LEMMA VarintFollows ==
  ASSUME NEW s, NEW u, NEW m, Pair(s, u, m), NEW vi, VarintWritten(vi), VarintPortable(vi)
  PROVE  Follows(s, u, R!ReadVarint(s, vi), C!ReadVarint(u, vi), m)
<1> DEFINE lo == s.cur.pos
           hi == s.cur.hi
           end == u.cur.hi
           l == end - lo
           bs == R!Ahead(s)
           cs == SubSeq(bs, 1, l)
           o == R!RustParse(vi, bs)
           p == C!CParse(vi, cs)
           r == R!ReadVarint(s, vi)
           q == C!ReadVarint(u, vi)
<1>0. /\ Sane(s) /\ s.err = "ok" /\ Window(s.cur, s.data) /\ CutTo(s.cur, u.cur, m) /\ s.data \in Seq(Nat)
      /\ m \in Nat /\ m <= Len(s.data) /\ DOMAIN u = CFields /\ DOMAIN s = Fields /\ u.err = "ok"
      /\ s.cur.pos <= m /\ u.data = SubSeq(s.data, 1, m)
  BY PairIs
<1>1. /\ lo \in Nat /\ hi \in Nat /\ lo <= hi /\ hi <= Len(s.data) /\ end \in Nat /\ lo <= end
      /\ end <= hi /\ end <= m /\ l \in Nat /\ lo + l = end /\ (hi <= m => end = hi) /\ (m < hi => end = m)
  BY <1>0 DEF Window, CutTo
<1>2. bs = SubSeq(s.data, lo + 1, hi)
  BY DEF R!Ahead, R!Slice
<1>3. C!Slice(u.data, [from |-> u.cur.pos, to |-> u.cur.hi]) = SubSeq(SubSeq(s.data, 1, m), lo + 1, end)
  BY <1>0 DEF C!Slice, CutTo
<1>. HIDE DEF bs, l
<1>4. bs \in Seq(Nat) /\ Len(bs) = hi - lo /\ l <= Len(bs)
  <2>. HIDE DEF lo, hi, end
  <2>1. bs \in Seq(Nat) /\ Len(bs) = hi - lo
    BY <1>0, <1>1, <1>2, PartIs
  <2>. QED BY <1>1, <2>1
<1>5. cs = C!Slice(u.data, [from |-> u.cur.pos, to |-> u.cur.hi])
  <2>. HIDE DEF lo, hi, end
  <2>1. SubSeq(SubSeq(s.data, 1, m), lo + 1, end) = SubSeq(s.data, lo + 1, end)
    BY <1>0, <1>1, CutPart
  <2>2. SubSeq(SubSeq(s.data, lo + 1, hi), 1, l) = SubSeq(s.data, lo + 1, lo + l)
    BY <1>0, <1>1, PartOfPart
  <2>. QED BY <1>1, <1>2, <1>3, <2>1, <2>2
<1>6. SameNumber(bs, o, p, l)
  BY <1>1, <1>4, VarintsAgree
<1>7. VarintRead(o, bs)
  BY <1>4, VarintReads
<1>8. r = [s EXCEPT !.v = o.v, !.err = o.err, !.cur = R!Advance(@, o.n)]
  BY DEF R!ReadVarint, R!Took, bs
<1>9. q = [u EXCEPT !.v = p.v, !.err = p.err, !.cur = C!Advance(@, p.n)]
  BY <1>5 DEF C!ReadVarint, C!Took
<1>10. Reads(s, r)
  BY <1>0, VarintFieldReads
<1>. HIDE DEF lo, hi, end, cs, o, p, r, q
<1>11. /\ r.v = o.v /\ r.err = o.err /\ r.cur = R!Advance(s.cur, o.n) /\ r.views = s.views
  BY <1>0, <1>8 DEF Fields
<1>12. /\ q.v = p.v /\ q.err = p.err /\ q.cur = C!Advance(u.cur, p.n) /\ q.views = u.views
       /\ q.data = u.data /\ q.calls = u.calls /\ q.outer = u.outer /\ q.env = u.env /\ q.groups = u.groups
       /\ q.at = u.at /\ DOMAIN q = CFields
  BY <1>0, <1>9 DEF CFields, Fields
<1>13. m = Len(s.data) => l = Len(bs)
  BY <1>1, <1>4
<1>14. CASE o.err # "ok"
  <2>1. Follows(s, u, r, q, m)
    BY <1>6, <1>11, <1>12, <1>13, <1>14, FailsAlike DEF SameNumber
  <2>. QED BY <2>1 DEF r, q
<1>15. CASE o.err = "ok"
  <2> DEFINE n == o.n
  <2>1. n \in Nat /\ n <= Len(bs)
    BY <1>4, <1>7, <1>15 DEF VarintRead
  <2>. HIDE DEF n
  <2>2. r.cur = R!Advance(s.cur, n) /\ r.cur.pos = lo + n
    BY <1>0, <1>11 DEF n, R!Advance, Window, lo
  <2>3. CASE lo + n > m
    <3>1. Follows(s, u, r, q, m)
      BY <1>0, <1>10, <1>11, <1>15, <2>2, <2>3, Beyond DEF Reads
    <3>. QED BY <3>1 DEF r, q
  <2>4. CASE ~(lo + n > m)
    <3>0. lo + n <= m /\ n <= l /\ lo + n <= hi
      <4>1. m \in Nat /\ n <= hi - lo
        BY <1>0, <1>4, <2>1
      <4>2. hi <= m \/ m < hi
        BY <1>1, <4>1
      <4>. QED BY <1>1, <2>1, <2>4, <4>1, <4>2
    <3>1. p.err = "ok" /\ p.v = o.v /\ p.n = n
      BY <1>6, <1>15, <3>0 DEF SameNumber, n
    <3>2. R!Fits(s.cur, n) /\ s.cur.pos + n <= m
      BY <3>0 DEF R!Fits, lo, hi
    <3>3. CutTo(r.cur, R!Advance(u.cur, n), m)
      BY <1>0, <2>1, <2>2, <3>2, Advanced
    <3>4. CutTo(r.cur, q.cur, m) /\ q.err = "ok" /\ q.v = r.v
      BY <1>11, <1>12, <3>1, <3>3, SameRuntime
    <3>5. m = Len(s.data) => q.views = r.views
      BY <1>11, <1>12 DEF Pair, Level
    <3>6. Follows(s, u, r, q, m)
      BY <1>10, <1>11, <1>12, <1>15, <2>2, <3>0, <3>4, <3>5, ReadsPair
    <3>. QED BY <3>6 DEF r, q
  <2>. QED BY <2>3, <2>4
<1>. QED BY <1>14, <1>15

---------------------------------------------------------------------------
(* Values                                                                  *)

LEMMA TypeFollows ==
  ASSUME NEW s, NEW u, NEW m, Pair(s, u, m), NEW name, Callable(name)
  PROVE  Follows(s, u, R!ParseType(s, name), C!ParseCursor(u, name), m)
<1> DEFINE r == R!ParseType(s, name)
           q == C!ParseCursor(u, name)
           o == s.calls[[name |-> name, cur |-> s.cur]]
           p == u.calls[[name |-> name, cur |-> u.cur]]
<1>0. /\ Sane(s) /\ s.err = "ok" /\ Window(s.cur, s.data) /\ CutTo(s.cur, u.cur, m)
      /\ m \in Nat /\ m <= Len(s.data) /\ DOMAIN u = CFields /\ DOMAIN s = Fields /\ u.err = "ok"
      /\ s.cur.pos <= m
  BY PairIs
<1>1. CallsAgree(s.data, s.calls, u.calls, m)
  BY DEF Pair, Context
<1>2. Same(s.data, o, p, m)
  BY <1>0, <1>1 DEF CallsAgree
<1>3. Reads(s, r)
  BY <1>0, TypeReads DEF Callable
<1>4. r = [s EXCEPT !.v = o.v, !.err = o.err, !.cur = o.cur, !.views = @ \cup o.views]
  BY DEF R!ParseType
<1>5. q = [u EXCEPT !.v = p.v, !.err = p.err, !.cur = p.cur, !.views = @ \cup p.views]
  BY DEF C!ParseCursor
<1>. HIDE DEF o, p, r, q
<1>6. r.v = o.v /\ r.err = o.err /\ r.cur = o.cur /\ r.views = s.views \cup o.views
  BY <1>0, <1>4 DEF Fields
<1>7. /\ q.v = p.v /\ q.err = p.err /\ q.cur = p.cur /\ q.views = u.views \cup p.views
      /\ q.data = u.data /\ q.calls = u.calls /\ q.outer = u.outer /\ q.env = u.env /\ q.groups = u.groups
      /\ q.at = u.at /\ DOMAIN q = CFields
  BY <1>0, <1>5 DEF CFields, Fields
<1>8. CASE o.err # "ok"
  <2>1. Follows(s, u, r, q, m)
    BY <1>2, <1>6, <1>7, <1>8, FailsAlike DEF Same
  <2>. QED BY <2>1 DEF r, q
<1>9. CASE o.err = "ok" /\ o.cur.pos > m
  <2>1. Follows(s, u, r, q, m)
    BY <1>0, <1>3, <1>6, <1>9, Beyond DEF Reads
  <2>. QED BY <2>1 DEF r, q
<1>10. CASE o.err = "ok" /\ ~(o.cur.pos > m)
  <2>1. r.cur.pos <= m
    BY <1>0, <1>3, <1>6, <1>10 DEF Reads, Moves, Sane, Window
  <2>2. CutTo(r.cur, q.cur, m) /\ q.err = "ok" /\ q.v = r.v
    BY <1>2, <1>6, <1>7, <1>10, <2>1 DEF Same
  <2>3. m = Len(s.data) => q.views = r.views
    BY <1>2, <1>6, <1>7, <1>10 DEF Pair, Level, Same
  <2>4. Follows(s, u, r, q, m)
    BY <1>3, <1>6, <1>7, <1>10, <2>1, <2>2, <2>3, ReadsPair
  <2>. QED BY <2>4 DEF r, q
<1>. QED BY <1>8, <1>9, <1>10

(* Types of which both backends read the same values.                      *)
Shared(ty) == Readable(ty) /\ TypePortable(ty)

LEMMA ValueFollows ==
  ASSUME NEW s, NEW u, NEW m, Pair(s, u, m), NEW ty, Shared(ty), NEW e
  PROVE  Follows(s, u, R!ReadValue(s, ty, e), C!ReadValue(u, ty, e), m)
<1>1. CASE ty.k = "num" /\ ty.w \in Nat
  BY <1>1, NumberFollows DEF R!ReadValue, C!ReadValue
<1>2. CASE ty.k = "enum" /\ ty.w \in Nat
  BY <1>2, NumberFollows DEF R!ReadValue, C!ReadValue
<1>3. CASE ty.k = "varint" /\ VarintWritten(ty.vi)
  BY <1>3, VarintFollows DEF R!ReadValue, C!ReadValue, Shared, TypePortable
<1>4. CASE ty.k = "type" /\ Compiled(ty.of)
  <2>1. Callable(ty.of)
    BY <1>4 DEF Shared, TypePortable, Callable, Compiled, Defs
  <2>2. R!ReadValue(s, ty, e) = R!ParseType(s, ty.of) /\ C!ReadValue(u, ty, e) = C!ParseCursor(u, ty.of)
    BY <1>4 DEF R!ReadValue, C!ReadValue
  <2>. QED BY <2>1, <2>2, TypeFollows
<1>. QED BY <1>1, <1>2, <1>3, <1>4 DEF Shared, Readable, Compiled

---------------------------------------------------------------------------
(* One step after the other                                                *)

LEMMA FollowsOn ==
  ASSUME NEW s, NEW u, NEW m \in Nat, NEW r, NEW q, Follows(s, u, r, q, m), Moves(s, r), m <= Len(s.data),
         NEW r2, NEW q2, Moves(r, r2), Pair(r, q, m) => Follows(r, q, r2, q2, m),
         r.err # "ok" => r2.err = r.err,
         q.err # "ok" /\ DOMAIN q = CFields => q2.err = q.err /\ DOMAIN q2 = CFields
  PROVE  Follows(s, u, r2, q2, m)
<1>1. Sane(r) /\ Sane(r2) /\ r.data = s.data
  BY DEF Moves
<1>2. r.err = "ok" => Window(r.cur, s.data) /\ r.cur.pos <= Len(s.data) /\ r.cur.pos \in Nat
  BY <1>1 DEF Sane, Window
<1>3. ASSUME r2.err = "ok", r2.cur.pos <= m
      PROVE  Pair(r2, q2, m) /\ q2.outer = u.outer
  <2>1. r.err = "ok" /\ r.cur.pos <= m
    BY <1>1, <1>2, <1>3 DEF Moves, Forward, Sane, Window
  <2>2. Pair(r, q, m) /\ q.outer = u.outer
    BY <2>1 DEF Follows
  <2>. QED BY <1>3, <2>2 DEF Follows
<1>4. ASSUME m = Len(s.data)
      PROVE  q2.err = r2.err /\ DOMAIN q2 = CFields
  <2>1. CASE r.err = "ok"
    <3>1. Pair(r, q, m)
      BY <1>2, <1>4, <2>1 DEF Follows
    <3>. QED BY <1>1, <1>4, <3>1 DEF Follows
  <2>2. CASE r.err # "ok"
    BY <1>4, <2>2 DEF Follows
  <2>. QED BY <2>1, <2>2
<1>. QED BY <1>3, <1>4 DEF Follows

LEMMA PairFollows ==
  ASSUME NEW r, NEW q, NEW m, Pair(r, q, m), NEW s, NEW u, q.outer = u.outer
  PROVE  Follows(s, u, r, q, m)
BY DEF Pair, Context, Level, Follows

LEMMA FailsFollow ==
  ASSUME NEW s, NEW u, NEW m, Pair(s, u, m), NEW e, e # "ok"
  PROVE  Follows(s, u, R!Fail(s, e), C!Fail(u, e), m)
<1> DEFINE r == R!Fail(s, e)
           q == C!Fail(u, e)
<1>1. r.err = e /\ q.err = e /\ DOMAIN q = CFields
  BY PairIs DEF R!Fail, C!Fail, Fields, CFields
<1>. HIDE DEF r, q
<1>2. Follows(s, u, r, q, m)
  BY <1>1, FailsAlike
<1>. QED BY <1>2 DEF r, q

(* The C state but for the cursors.                                        *)
Likewise(u, q) ==
  /\ DOMAIN q = CFields /\ q.data = u.data /\ q.calls = u.calls /\ q.env = u.env /\ q.groups = u.groups
  /\ q.err = u.err /\ q.views = u.views /\ q.at = u.at

LEMMA PairYields ==
  ASSUME NEW s, NEW u, NEW m, Pair(s, u, m), NEW x
  PROVE  Pair(R!Yield(s, x), C!Yield(u, x), m) /\ C!Yield(u, x).outer = u.outer
<1> DEFINE r == R!Yield(s, x)
           q == C!Yield(u, x)
<1>0. DOMAIN s = Fields /\ DOMAIN u = CFields
  BY PairIs
<1>1. /\ r.v = x /\ r.data = s.data /\ r.calls = s.calls /\ r.cur = s.cur /\ r.env = s.env
      /\ r.groups = s.groups /\ r.err = s.err /\ r.views = s.views /\ r.at = s.at /\ DOMAIN r = Fields
  BY <1>0 DEF R!Yield, Fields
<1>2. q.v = x /\ q.cur = u.cur /\ q.outer = u.outer /\ Likewise(u, q)
  BY <1>0 DEF C!Yield, Fields, CFields, Likewise
<1>. HIDE DEF r, q
<1>3. Pair(r, q, m)
  BY <1>1, <1>2 DEF Pair, Context, Level, Sane, Likewise
<1>. QED BY <1>2, <1>3 DEF r, q

(* Both hand on the same value, made of what they read.                    *)
LEMMA YieldsFollow ==
  ASSUME NEW s, NEW u, NEW m \in Nat, m <= Len(s.data), NEW r, NEW q, Follows(s, u, r, q, m), Moves(s, r),
         NEW x, NEW y, Pair(r, q, m) => y = x,
         NEW r2, r2 = (IF r.err # "ok" THEN r ELSE R!Yield(r, x)),
         NEW q2, q2 = (IF q.err # "ok" THEN q ELSE C!Yield(q, y))
  PROVE  Follows(s, u, r2, q2, m)
<1>1. Sane(r)
  BY DEF Moves
<1>2. Moves(r, r2)
  BY <1>1, Yields, StaysPut DEF Reads
<1>3. ASSUME Pair(r, q, m)
      PROVE  Follows(r, q, r2, q2, m)
  <2>1. r2 = R!Yield(r, x) /\ q2 = C!Yield(q, x)
    BY <1>3, PairIs
  <2>2. Pair(r2, q2, m) /\ q2.outer = q.outer
    BY <1>3, <2>1, PairYields
  <2>. QED BY <2>2, PairFollows
<1>. QED BY <1>2, <1>3, FollowsOn

LEMMA ElementFollows ==
  ASSUME NEW s, NEW u, NEW m, Pair(s, u, m), NEW ty, Shared(ty.el), NEW xs
  PROVE  Follows(s, u, R!ReadElement(s, ty, xs), C!ReadElement(u, ty, xs), m)
<1> DEFINE r == R!ReadValue(s, ty.el, "none")
           q == C!ReadValue(u, ty.el, "none")
           r2 == R!ReadElement(s, ty, xs)
           q2 == C!ReadElement(u, ty, xs)
<1>0. Sane(s) /\ s.err = "ok" /\ m \in Nat /\ m <= Len(s.data)
  BY PairIs
<1>1. Follows(s, u, r, q, m)
  BY ValueFollows
<1>2. Reads(s, r)
  BY <1>0, ValueReads DEF Shared
<1>3. r2 = IF r.err # "ok" THEN r ELSE R!Yield(r, Append(xs, r.v))
  BY DEF R!ReadElement, R!Appended
<1>4. q2 = IF q.err # "ok" THEN q ELSE C!Yield(q, Append(xs, q.v))
  BY DEF C!ReadElement, C!Appended
<1>. HIDE DEF r, q, r2, q2
<1> DEFINE x == Append(xs, r.v)
           y == Append(xs, q.v)
<1>5. Pair(r, q, m) => y = x
  BY DEF Pair, Level
<1>. HIDE DEF x, y
<1>6. Follows(s, u, r2, q2, m)
  BY <1>0, <1>1, <1>2, <1>3, <1>4, <1>5, YieldsFollow DEF Reads, x, y
<1>. QED BY <1>6 DEF r2, q2

---------------------------------------------------------------------------
(* Arrays                                                                  *)

LEMMA CountedFollows ==
  ASSUME NEW s, NEW u, NEW m, Pair(s, u, m), NEW ty, Shared(ty.el), NEW n \in Nat
  PROVE  Follows(s, u, R!ReadCounted(s, ty, n), C!ReadCounted(u, ty, n), m)
<1>0. Sane(s) /\ s.err = "ok" /\ m \in Nat /\ m <= Len(s.data)
  BY PairIs
<1>1. CASE n > ty.max
  BY <1>1, FailsFollow DEF R!ReadCounted, C!ReadCounted
<1>2. CASE ~(n > ty.max)
  <2> DEFINE up == [i \in 1 .. n |-> i]
             base == R!Yield(s, <<>>)
             base2 == C!Yield(u, <<>>)
             f == FC!Fold(ty, 0, base, up)
             g == HC!Fold(ty, 0, base2, up)
  <2>1. DOMAIN up = 1 .. n
    OBVIOUS
  <2>2. R!ReadCounted(s, ty, n) = f
    BY <1>2 DEF R!ReadCounted, FC!Fold, R!FoldLeft, FC!FoldLeft, CountStep, R!MapThenFoldSet,
       FC!MapThenFoldSet, R!Max, FC!Max
  <2>3. C!ReadCounted(u, ty, n) = g
    BY <1>2 DEF C!ReadCounted, HC!Fold, C!FoldLeft, HC!FoldLeft, CountStepC, C!MapThenFoldSet,
       HC!MapThenFoldSet, C!Max, HC!Max
  <2>4. Reads(s, base) /\ Follows(s, u, base, base2, m)
    BY <1>0, Yields, PairYields, PairFollows
  <2>. HIDE DEF up, base, base2
  <2>5. PICK run : FC!Runs(run, ty, 0, base, up, n)
    BY <2>1, FC!FoldRuns
  <2>6. PICK run2 : HC!Runs(run2, ty, 0, base2, up, n)
    BY <2>1, HC!FoldRuns
  <2>. HIDE DEF f, g
  <2> DEFINE S == { i \in 0 .. n : Reads(s, run[i]) /\ Follows(s, u, run[i], run2[i], m) }
  <2>7. 0 \in S
    BY <2>1, <2>4, <2>5, <2>6 DEF FC!Runs, HC!Runs
  <2>8. ASSUME NEW i \in 1 .. n, i - 1 \in S
        PROVE  i \in S
    <3> DEFINE t == run[i - 1]
               v == run2[i - 1]
               t2 == run[i]
               v2 == run2[i]
    <3>1. t2 = CountStep(ty, 0, t, up[i]) /\ v2 = CountStepC(ty, 0, v, up[i])
      BY <2>5, <2>6 DEF FC!Runs, HC!Runs
    <3>2. Reads(s, t) /\ Follows(s, u, t, v, m)
      BY <2>8
    <3>. HIDE DEF t, v, t2, v2
    <3>3. Sane(t) /\ Moves(s, t)
      BY <3>2 DEF Reads, Moves
    <3>4. Reads(t, t2)
      BY <3>1, <3>3, StaysPut, ElementReads DEF CountStep, Shared
    <3>5. ASSUME Pair(t, v, m)
          PROVE  Follows(t, v, t2, v2, m)
      <4>1. t2 = R!ReadElement(t, ty, t.v) /\ v2 = C!ReadElement(v, ty, t.v)
        BY <3>1, <3>5, PairIs DEF CountStep, CountStepC, Pair, Level
      <4>. QED BY <3>5, <4>1, ElementFollows
    <3>6. (t.err # "ok" => t2.err = t.err) /\ (v.err # "ok" => v2 = v)
      BY <3>1 DEF CountStep, CountStepC
    <3>7. Follows(s, u, t2, v2, m)
      BY <1>0, <3>2, <3>3, <3>4, <3>5, <3>6, FollowsOn DEF Reads
    <3>8. Reads(s, t2)
      BY <1>0, <3>2, <3>4, ReadsAll
    <3>. QED BY <3>7, <3>8 DEF t2, v2
  <2>9. n \in S
    <3>. HIDE DEF S
    <3>1. \A i \in 0 .. n : i \in S
      BY <2>1, <2>7, <2>8, FC!Upwards
    <3>. QED BY <2>1, <3>1
  <2>10. Follows(s, u, f, g, m)
    BY <2>5, <2>6, <2>9 DEF FC!Runs, HC!Runs, f, g
  <2>. QED BY <2>2, <2>3, <2>10
<1>. QED BY <1>1, <1>2

(* An array that reads its scope to the end: where the window was cut off, *)
(* the Rust code goes beyond the cut.                                      *)
LEMMA FillFollows ==
  ASSUME NEW s, NEW u, NEW m, Pair(s, u, m), u.outer = <<>>, NEW ty, Shared(ty.el), ty.max \in Nat
  PROVE  Follows(s, u, R!ReadFill(s, ty), C!ReadFill(u, ty), m)
<1> DEFINE r == R!ReadFill(s, ty)
           q == C!ReadFill(u, ty)
<1>0. /\ Sane(s) /\ s.err = "ok" /\ m \in Nat /\ m <= Len(s.data) /\ Window(s.cur, s.data)
      /\ CutTo(s.cur, u.cur, m) /\ DOMAIN s = Fields /\ DOMAIN u = CFields
  BY PairIs
<1>1. Reads(s, r) /\ (r.err = "ok" => r.cur.pos = r.cur.hi)
  BY <1>0, FillReads DEF Shared
<1>2. CASE s.cur.hi > m
  <2>. HIDE DEF r, q
  <2>1. r.err = "ok" => r.cur.pos = s.cur.hi
    BY <1>1 DEF Reads, Moves, Forward
  <2>2. CASE r.err = "ok"
    <3>1. Follows(s, u, r, q, m)
      BY <1>0, <1>1, <1>2, <2>1, <2>2, Beyond DEF Reads
    <3>. QED BY <3>1 DEF r, q
  <2>3. CASE r.err # "ok"
    <3>1. m # Len(s.data)
      BY <1>0, <1>2 DEF Window
    <3>2. Follows(s, u, r, q, m)
      BY <2>3, <3>1, FailsAlike
    <3>. QED BY <3>2 DEF r, q
  <2>. QED BY <2>2, <2>3
<1>3. CASE ~(s.cur.hi > m)
  <2> DEFINE k == ty.max + 1
             up == [i \in 1 .. k |-> i]
             base == R!Yield(s, <<>>)
             base2 == C!Yield(u, <<>>)
             f == FF!Fold(ty, 0, base, up)
             g == HF!Fold(ty, 0, base2, up)
             x == FoldLeft(LAMBDA t, i : IF t.err # "ok" \/ R!Remaining(t.cur) = 0 THEN t
                                         ELSE IF Len(t.v) >= ty.max THEN R!Fail(t, "Capacity")
                                         ELSE R!ReadElement(t, ty, t.v),
                           R!Yield(s, <<>>), [i \in 1 .. ty.max + 1 |-> i])
             y == FoldLeft(LAMBDA t, i : IF t.err # "ok" \/ C!CurRemaining(t) = 0 THEN t
                                         ELSE IF Len(t.v) >= ty.max THEN C!Fail(t, "Capacity")
                                         ELSE C!ReadElement(t, ty, t.v),
                           C!Yield(u, <<>>), [i \in 1 .. ty.max + 1 |-> i])
  <2>1. k \in Nat /\ DOMAIN up = 1 .. k
    OBVIOUS
  <2>2. r = f
    <3>1. r = x
      BY DEF R!ReadFill, FoldLeft, R!FoldLeft, MapThenFoldSet, R!MapThenFoldSet, Max, R!Max
    <3>2. f = x
      BY DEF FF!Fold, FoldLeft, FF!FoldLeft, FillStep, MapThenFoldSet, FF!MapThenFoldSet, Max, FF!Max
    <3>. QED BY <3>1, <3>2
  <2>3. q = g
    <3>1. q = y
      BY DEF C!ReadFill, FoldLeft, C!FoldLeft, MapThenFoldSet, C!MapThenFoldSet, Max, C!Max
    <3>2. g = y
      BY DEF HF!Fold, FoldLeft, HF!FoldLeft, FillStepC, MapThenFoldSet, HF!MapThenFoldSet, Max, HF!Max
    <3>. QED BY <3>1, <3>2
  <2>. HIDE DEF x, y, r, q
  <2>4. Reads(s, base) /\ Follows(s, u, base, base2, m)
    BY <1>0, Yields, PairYields, PairFollows
  <2>. HIDE DEF up, k, base, base2
  <2>5. PICK run : FF!Runs(run, ty, 0, base, up, k)
    BY <2>1, FF!FoldRuns
  <2>6. PICK run2 : HF!Runs(run2, ty, 0, base2, up, k)
    BY <2>1, HF!FoldRuns
  <2>. HIDE DEF f, g
  <2> DEFINE S == { i \in 0 .. k : Reads(s, run[i]) /\ Follows(s, u, run[i], run2[i], m) }
  <2>7. 0 \in S
    BY <2>1, <2>4, <2>5, <2>6 DEF FF!Runs, HF!Runs
  <2>8. ASSUME NEW i \in 1 .. k, i - 1 \in S
        PROVE  i \in S
    <3> DEFINE t == run[i - 1]
               v == run2[i - 1]
               t2 == run[i]
               v2 == run2[i]
    <3>1. t2 = FillStep(ty, 0, t, up[i]) /\ v2 = FillStepC(ty, 0, v, up[i])
      BY <2>5, <2>6 DEF FF!Runs, HF!Runs
    <3>2. Reads(s, t) /\ Follows(s, u, t, v, m)
      BY <2>8
    <3>. HIDE DEF t, v, t2, v2
    <3>3. Sane(t) /\ Moves(s, t)
      BY <3>2 DEF Reads, Moves
    <3>4. Reads(t, t2)
      BY <3>1, <3>3, StaysPut, Fails, ElementReads DEF FillStep, Shared
    <3>5. ASSUME Pair(t, v, m)
          PROVE  Follows(t, v, t2, v2, m)
      <4>1. t.err = "ok" /\ v.err = "ok" /\ v.v = t.v
        BY <3>5, PairIs DEF Pair, Level
      <4>2. v.outer = <<>>
        BY <3>2, <3>5 DEF Pair, Level, Follows
      <4>3. C!CurRemaining(v) = R!Remaining(t.cur)
        <5>1. t.cur.hi = s.cur.hi /\ CutTo(t.cur, v.cur, m)
          BY <3>3, <3>5, <4>1 DEF Moves, Forward, Pair, Level
        <5>2. v.cur.hi = t.cur.hi /\ v.cur.pos = t.cur.pos
          BY <1>0, <1>3, <5>1 DEF CutTo, Window
        <5>. QED BY <4>2, <5>2 DEF C!CurRemaining, C!Remaining, R!Remaining
      <4>4. CASE R!Remaining(t.cur) = 0
        <5>1. t2 = t /\ v2 = v
          BY <3>1, <4>3, <4>4 DEF FillStep, FillStepC
        <5>. QED BY <3>5, <5>1, PairFollows
      <4>5. CASE R!Remaining(t.cur) # 0 /\ Len(t.v) >= ty.max
        <5>1. t2 = R!Fail(t, "Capacity") /\ v2 = C!Fail(v, "Capacity")
          BY <3>1, <4>1, <4>3, <4>5 DEF FillStep, FillStepC
        <5>. QED BY <3>5, <5>1, FailsFollow
      <4>6. CASE R!Remaining(t.cur) # 0 /\ ~(Len(t.v) >= ty.max)
        <5>1. t2 = R!ReadElement(t, ty, t.v) /\ v2 = C!ReadElement(v, ty, t.v)
          BY <3>1, <4>1, <4>3, <4>6 DEF FillStep, FillStepC
        <5>. QED BY <3>5, <5>1, ElementFollows
      <4>. QED BY <4>4, <4>5, <4>6
    <3>6. (t.err # "ok" => t2.err = t.err) /\ (v.err # "ok" => v2 = v)
      BY <3>1 DEF FillStep, FillStepC
    <3>7. Follows(s, u, t2, v2, m)
      BY <1>0, <3>2, <3>3, <3>4, <3>5, <3>6, FollowsOn DEF Reads
    <3>8. Reads(s, t2)
      BY <1>0, <3>2, <3>4, ReadsAll
    <3>. QED BY <3>7, <3>8 DEF t2, v2
  <2>9. k \in S
    <3>. HIDE DEF S
    <3>1. \A i \in 0 .. k : i \in S
      BY <2>1, <2>7, <2>8, FF!Upwards
    <3>. QED BY <2>1, <3>1
  <2>10. Follows(s, u, f, g, m)
    BY <2>5, <2>6, <2>9 DEF FF!Runs, HF!Runs, f, g
  <2>. QED BY <2>2, <2>3, <2>10 DEF r, q
<1>. QED BY <1>2, <1>3

---------------------------------------------------------------------------
(* Cursors of their own                                                    *)

LEMMA SubPair ==
  ASSUME NEW s, NEW u, NEW m, Pair(s, u, m), NEW n \in Nat, R!Fits(s.cur, n), s.cur.pos + n <= m,
         NEW v, Likewise(u, v), v.v = u.v, v.cur = C!SubCursor(u.cur, n)
  PROVE  Pair(R!Within(s, n), v, m)
<1> DEFINE w == R!Within(s, n)
           c == R!SubCursor(s.cur, n)
<1>0. /\ Sane(s) /\ s.err = "ok" /\ Window(s.cur, s.data) /\ CutTo(s.cur, u.cur, m)
      /\ m \in Nat /\ m <= Len(s.data) /\ DOMAIN u = CFields /\ DOMAIN s = Fields
  BY PairIs
<1>1. w = [s EXCEPT !.cur = c]
  BY DEF R!Within
<1>2. c = [lo |-> s.cur.pos, pos |-> s.cur.pos, hi |-> s.cur.pos + n]
  BY DEF R!SubCursor, R!NewCursor
<1>3. v.cur = [lo |-> s.cur.pos, pos |-> s.cur.pos, hi |-> s.cur.pos + n]
  BY <1>0 DEF C!SubCursor, C!NewCursor, CutTo
<1>. HIDE DEF c
<1>4. /\ w.cur = c /\ w.data = s.data /\ w.calls = s.calls /\ w.env = s.env /\ w.groups = s.groups
      /\ w.err = s.err /\ w.v = s.v /\ w.views = s.views /\ w.at = s.at
  BY <1>0, <1>1 DEF Fields
<1>5. Sane(w)
  BY <1>0, <1>4, WithinIs
<1>. HIDE DEF w
<1>6. CutTo(w.cur, v.cur, m) /\ w.cur.pos <= m
  BY <1>0, <1>2, <1>3, <1>4 DEF CutTo, Window
<1>7. Pair(w, v, m)
  BY <1>0, <1>4, <1>5, <1>6 DEF Pair, Context, Level, Likewise
<1>. QED BY <1>7 DEF w

(* Behind the bytes of the inner cursor.                                   *)
LEMMA BehindPair ==
  ASSUME NEW s, NEW u, NEW m, Pair(s, u, m), NEW n \in Nat, NEW r0, Moves(R!Within(s, n), r0),
         NEW q0, Pair(r0, q0, m), s.cur.pos + n <= m, NEW r, r = R!Behind(s, n, r0),
         NEW q, Likewise(q0, q), q.v = q0.v, q.cur = C!Advance(u.cur, n)
  PROVE  Pair(r, q, m)
<1>0. /\ Sane(s) /\ s.err = "ok" /\ Window(s.cur, s.data) /\ CutTo(s.cur, u.cur, m)
      /\ m \in Nat /\ m <= Len(s.data) /\ DOMAIN u = CFields /\ DOMAIN s = Fields
  BY PairIs
<1>1. /\ Moves(s, r) /\ r.err = r0.err /\ r.env = r0.env /\ r.groups = r0.groups /\ r.at = r0.at
      /\ r.v = r0.v /\ r.views = r0.views
      /\ r.err = "ok" => n \in Nat /\ r.cur.pos = s.cur.pos + n /\ s.cur.pos + n <= s.cur.hi
  <2>1. r0.err = "ok" => r0.cur.hi = R!Within(s, n).cur.hi /\ R!Within(s, n).err = "ok"
    BY DEF Moves, Forward
  <2>2. R!Within(s, n).err = "ok" => s.cur.pos + n <= s.cur.hi
    BY <1>0, WithinIs
  <2>. QED BY <1>0, <2>1, <2>2, BehindMoves
<1>2. r0.err = "ok" /\ DOMAIN r0 = Fields
  BY PairIs
<1>3. n \in Nat /\ R!Fits(s.cur, n)
  BY <1>1, <1>2 DEF R!Fits
<1>4. r.cur = R!Advance(s.cur, n)
  BY <1>2 DEF R!Behind, Fields
<1>5. CutTo(r.cur, q.cur, m)
  BY <1>0, <1>3, <1>4, Advanced, SameRuntime
<1>6. r.data = s.data /\ r.calls = s.calls /\ r0.data = s.data /\ r0.calls = s.calls /\ Sane(r)
  <2>1. R!Within(s, n).data = s.data /\ R!Within(s, n).calls = s.calls
    BY <1>0, WithinIs
  <2>. QED BY <1>1, <2>1 DEF Moves
<1>. QED BY <1>0, <1>1, <1>2, <1>3, <1>5, <1>6 DEF Pair, Context, Level, Likewise

(* The loop of an array does nothing after an error.                       *)
LEMMA FailedFill ==
  ASSUME NEW s, DOMAIN s = Fields, s.err # "ok", NEW ty, ty.max \in Nat
  PROVE  R!ReadFill(s, ty).err = s.err
<1> DEFINE k == ty.max + 1
           up == [i \in 1 .. k |-> i]
           base == R!Yield(s, <<>>)
           f == FF!Fold(ty, 0, base, up)
           x == FoldLeft(LAMBDA t, i : IF t.err # "ok" \/ R!Remaining(t.cur) = 0 THEN t
                                       ELSE IF Len(t.v) >= ty.max THEN R!Fail(t, "Capacity")
                                       ELSE R!ReadElement(t, ty, t.v),
                         R!Yield(s, <<>>), [i \in 1 .. ty.max + 1 |-> i])
<1>1. k \in Nat /\ DOMAIN up = 1 .. k
  OBVIOUS
<1>2. R!ReadFill(s, ty) = f
  <2>1. R!ReadFill(s, ty) = x
    BY DEF R!ReadFill, FoldLeft, R!FoldLeft, MapThenFoldSet, R!MapThenFoldSet, Max, R!Max
  <2>2. f = x
    BY DEF FF!Fold, FoldLeft, FF!FoldLeft, FillStep, MapThenFoldSet, FF!MapThenFoldSet, Max, FF!Max
  <2>. QED BY <2>1, <2>2
<1>3. base.err = s.err
  BY DEF R!Yield, Fields
<1>. HIDE DEF up, k, base, x
<1>4. PICK run : FF!Runs(run, ty, 0, base, up, k)
  BY <1>1, FF!FoldRuns
<1>. HIDE DEF f
<1> DEFINE S == { i \in 0 .. k : run[i].err = s.err }
<1>5. 0 \in S
  BY <1>1, <1>3, <1>4 DEF FF!Runs
<1>6. ASSUME NEW i \in 1 .. k, i - 1 \in S
      PROVE  i \in S
  <2>1. run[i] = run[i - 1]
    BY <1>4, <1>6 DEF FF!Runs, FillStep
  <2>. QED BY <1>6, <2>1
<1>7. k \in S
  <2>. HIDE DEF S
  <2>1. \A i \in 0 .. k : i \in S
    BY <1>1, <1>5, <1>6, FF!Upwards
  <2>. QED BY <1>1, <2>1
<1>. QED BY <1>2, <1>4, <1>7 DEF FF!Runs, f

LEMMA FillWithinFollows ==
  ASSUME NEW s, NEW u, NEW m, Pair(s, u, m), NEW ty, Shared(ty.el), ty.max \in Nat, NEW n \in Nat
  PROVE  Follows(s, u, R!ReadFillWithin(s, ty, n), C!ReadFillWithin(u, ty, n), m)
<1> DEFINE w == R!Within(s, n)
           r0 == R!ReadFill(w, ty)
           r == R!ReadFillWithin(s, ty, n)
           v == [u EXCEPT !.cur = C!SubCursor(@, n), !.outer = <<>>]
           q0 == C!ReadFill(v, ty)
           q == C!ReadFillWithin(u, ty, n)
<1>0. /\ Sane(s) /\ s.err = "ok" /\ Window(s.cur, s.data) /\ CutTo(s.cur, u.cur, m)
      /\ m \in Nat /\ m <= Len(s.data) /\ DOMAIN u = CFields /\ DOMAIN s = Fields /\ u.err = "ok"
      /\ s.cur.pos <= m
  BY PairIs
<1>1. r = R!Behind(s, n, r0)
  BY DEF R!ReadFillWithin
<1>2. Moves(w, r0)
  <2>1. Sane(w)
    BY <1>0, WithinIs
  <2>. HIDE DEF w
  <2>. QED BY <2>1, FillReads DEF Shared, Reads
<1>3. Reads(s, r)
  BY <1>0, FillWithinReads DEF Shared
<1>4. /\ r.err = r0.err
      /\ r.err = "ok" => /\ n \in Nat /\ r.cur.pos = s.cur.pos + n /\ r0.cur.pos <= s.cur.pos + n
                         /\ s.cur.pos + n <= s.cur.hi
  <2>1. r0.err = "ok" => w.err = "ok" /\ r0.cur.hi = w.cur.hi
    BY <1>2 DEF Moves, Forward
  <2>2. w.err = "ok" => s.cur.pos + n <= s.cur.hi
    BY <1>0, WithinIs
  <2>. HIDE DEF r, r0
  <2>. QED BY <1>0, <1>1, <1>2, <2>1, <2>2, BehindMoves
<1>5. CASE ~R!Fits(s.cur, n)
  <2>1. ~C!Fits(u.cur, n)
    BY <1>0, <1>5, FitsNeither, SameRuntime
  <2>2. q.err = "ShortBuffer" /\ DOMAIN q = CFields
    BY <1>0, <2>1 DEF C!ReadFillWithin, C!Fail, CFields, Fields
  <2>3. w.err = "ShortBuffer" /\ DOMAIN w = Fields
    BY <1>0, <1>5 DEF R!Within, R!Fail, Fields
  <2>4. r0.err = "ShortBuffer"
    <3>. HIDE DEF w
    <3>. QED BY <2>3, FailedFill
  <2>. HIDE DEF q, r, r0
  <2>5. Follows(s, u, r, q, m)
    BY <1>4, <2>2, <2>4, FailsAlike
  <2>. QED BY <2>5 DEF r, q
<1>6. CASE R!Fits(s.cur, n) /\ s.cur.pos + n > m
  <2>1. m # Len(s.data)
    BY <1>0, <1>6 DEF Window, R!Fits
  <2>. HIDE DEF r, r0, q
  <2>2. CASE r.err = "ok"
    <3>1. Follows(s, u, r, q, m)
      BY <1>0, <1>3, <1>4, <1>6, <2>2, Beyond DEF Reads
    <3>. QED BY <3>1 DEF r, q
  <2>3. CASE r.err # "ok"
    <3>1. Follows(s, u, r, q, m)
      BY <2>1, <2>3, FailsAlike
    <3>. QED BY <3>1 DEF r, q
  <2>. QED BY <2>2, <2>3
<1>7. CASE R!Fits(s.cur, n) /\ s.cur.pos + n <= m
  <2>1. n \in Nat /\ R!Fits(s.cur, n)
    BY <1>7
  <2>2. C!Fits(u.cur, n)
    BY <1>0, <1>7, <2>1, Advanced, SameRuntime
  <2>3. Likewise(u, v) /\ v.v = u.v /\ v.cur = C!SubCursor(u.cur, n) /\ v.outer = <<>>
    BY <1>0 DEF Likewise, CFields, Fields
  <2>4. q = [q0 EXCEPT !.cur = C!Advance(u.cur, n), !.outer = u.outer]
    BY <2>1, <2>2 DEF C!ReadFillWithin
  <2>. HIDE DEF v
  <2>5. Pair(w, v, m)
    BY <1>7, <2>1, <2>3, SubPair
  <2>6. Follows(w, v, r0, q0, m)
    <3>. HIDE DEF w
    <3>. QED BY <2>3, <2>5, FillFollows
  <2>7. w.data = s.data
    BY <1>0, WithinIs
  <2>. HIDE DEF r, r0, q, q0
  <2>8. DOMAIN q0 = CFields => /\ Likewise(q0, q) /\ q.v = q0.v /\ q.cur = C!Advance(u.cur, n)
                               /\ q.outer = u.outer
    BY <2>4 DEF Likewise, CFields, Fields
  <2>9. ASSUME r.err = "ok"
        PROVE  Pair(r, q, m) /\ q.outer = u.outer
    <3>1. Pair(r0, q0, m)
      <4>1. r0.err = "ok" /\ r0.cur.pos <= s.cur.pos + n /\ s.cur.pos + n <= m
        BY <1>4, <1>7, <2>9
      <4>2. r0.cur.pos \in Nat /\ s.cur.pos \in Nat
        BY <1>0, <1>2, <4>1 DEF Moves, Sane, Window
      <4>3. r0.cur.pos <= m
        BY <1>0, <4>1, <4>2
      <4>. QED BY <2>6, <4>1, <4>3 DEF Follows
    <3>2. DOMAIN q0 = CFields
      BY <3>1, PairIs
    <3>3. Pair(r, q, m)
      BY <1>1, <1>2, <1>7, <2>8, <3>1, <3>2, BehindPair
    <3>. QED BY <2>8, <3>2, <3>3
  <2>10. m = Len(s.data) => q.err = r.err /\ DOMAIN q = CFields
    BY <1>4, <2>6, <2>7, <2>8 DEF Follows, Likewise
  <2>11. Follows(s, u, r, q, m)
    BY <2>9, <2>10 DEF Follows
  <2>. QED BY <2>11 DEF r, q
<1>8. s.cur.pos + n <= m \/ s.cur.pos + n > m
  BY <1>0 DEF Window
<1>. HIDE DEF w, r0, r, v, q0, q
<1>. QED BY <1>5, <1>6, <1>7, <1>8

LEMMA ArrayFollows ==
  ASSUME NEW s, NEW u, NEW m, Pair(s, u, m), NEW k, EnvTyped(s.env, k),
         NEW ty, ArrayTyped(ty, k), TypePortable(ty.el), Assigned(Sizes(ty), s.env), Ordered(Sizes(ty), s.env),
         \A e \in Range(ty.count) : ~Wide(e),
         u.outer = <<>> \/ ty.count # <<>> \/ ty.within # <<>>
  PROVE  Follows(s, u, R!ReadArray(s, ty), C!ReadArray(u, ty), m)
<1>0. /\ Sizes(ty) = Range(ty.count) \cup Range(ty.within) /\ Shared(ty.el) /\ ty.max \in Nat
      /\ u.env = s.env
  BY PairIs DEF Sizes, ArrayTyped, Shared
<1>1. CASE ty.count # <<>>
  <2>1. IsInteger(ty.count[1], k) /\ ty.count[1] \in Range(ty.count)
    BY <1>1 DEF ArrayTyped, OneInteger, Range
  <2>2. /\ R!Eval(ty.count[1], s.env) \in Nat
        /\ C!CountOf(ty.count[1], u.env) = R!Eval(ty.count[1], s.env)
    BY <1>0, <2>1, PromotedAlike DEF Assigned, Ordered
  <2>. QED BY <1>0, <1>1, <2>2, CountedFollows DEF R!ReadArray, C!ReadArray
<1>2. CASE ty.count = <<>> /\ ty.within # <<>>
  <2>1. IsInteger(ty.within[1], k) /\ ty.within[1] \in Range(ty.within)
    BY <1>2 DEF ArrayTyped, OneInteger, Range
  <2>2. /\ R!Eval(ty.within[1], s.env) \in Nat
        /\ C!SizeOf(ty.within[1], u.env) = R!Eval(ty.within[1], s.env)
    BY <1>0, <2>1, PromotedAlike DEF Assigned, Ordered
  <2>. QED BY <1>0, <1>2, <2>2, FillWithinFollows DEF R!ReadArray, C!ReadArray
<1>3. CASE ty.count = <<>> /\ ty.within = <<>>
  BY <1>0, <1>3, FillFollows DEF R!ReadArray, C!ReadArray
<1>. QED BY <1>1, <1>2, <1>3
=============================================================================
