---------------------------- MODULE CodecProofs -----------------------------
(***************************************************************************)
(* Theorems about the round trip (Codec): the two parsers agree, and none  *)
(* looks behind what it consumes. ParserProofs has what this says of two   *)
(* runs of parse code (Follows), and that their reads do it; here are the  *)
(* items of a scope, the declarations and the generated functions.         *)
(***************************************************************************)
EXTENDS ParserProofs

(* More operators the C code folds over.                                   *)
MemberStepC(g, b, t, x) == C!BindMember(t, g, x)
HM == INSTANCE Folding WITH Step <- MemberStepC, Good <- Natural

ItemStepC(items, b, t, x) == C!ParseItem(t, items, x)
HI == INSTANCE Folding WITH Step <- ItemStepC, Good <- Natural

PayloadStepC(items, b, t, x) == C!ParseItem([t EXCEPT !.groups = {}], items, x)
HP == INSTANCE Folding WITH Step <- PayloadStepC, Good <- Natural

GenStepC(bytes, b, calls, i) == [x \in C!Calls(bytes) |-> C!Body(bytes, calls, x)]
HG == INSTANCE Folding WITH Step <- GenStepC, Good <- Natural

---------------------------------------------------------------------------
(* Fields                                                                  *)

LEMMA BytesFieldFollows ==
  ASSUME NEW s, NEW u, NEW m, Pair(s, u, m), NEW k, EnvTyped(s.env, k),
         NEW ty, BytesTyped(ty, k), Assigned(Sizes(ty), s.env), Ordered(Sizes(ty), s.env),
         u.outer = <<>> \/ ty.kind # "lor"
  PROVE  Follows(s, u, R!ReadBytesField(s, ty), C!ReadBytesField(u, ty), m)
<1>0. u.env = s.env
  BY PairIs
<1>1. CASE ty.kind = "fixed" /\ ty.n \in Nat
  BY <1>1, BytesFollow DEF R!ReadBytesField, C!ReadBytesField
<1>2. CASE ty.kind = "length" /\ IsInteger(ty.n, k)
  <2>1. Sizes(ty) = {ty.n}
    BY <1>2 DEF Sizes, BytesTyped
  <2>2. R!Eval(ty.n, s.env) \in Nat /\ C!SizeOf(ty.n, u.env) = R!Eval(ty.n, s.env)
    BY <1>0, <1>2, <2>1, PromotedAlike DEF Assigned
  <2>. QED BY <1>2, <2>2, BytesFollow DEF R!ReadBytesField, C!ReadBytesField
<1>3. CASE ty.kind = "remaining"
  BY <1>3, RemainingFollows DEF R!ReadBytesField, C!ReadBytesField
<1>4. CASE ty.kind = "lor" /\ ty.n.op = "ref" /\ ty.n.f \in k.opts
  <2>1. Sizes(ty) = {ty.n}
    BY <1>4 DEF Sizes, BytesTyped
  <2>2. ty.n.f \in DOMAIN s.env
    BY <1>4, <2>1 DEF Assigned, ExprRefs
  <2>3. CASE s.env[ty.n.f] # <<>>
    <3>1. s.env[ty.n.f][1] \in Nat
      BY <1>4, <2>2, <2>3 DEF EnvTyped
    <3>. QED BY <1>0, <1>4, <2>3, <3>1, BytesFollow DEF R!ReadBytesField, C!ReadBytesField
  <2>4. CASE s.env[ty.n.f] = <<>>
    <3>1. C!CurRemaining(u) = C!Remaining(u.cur)
      BY <1>4 DEF C!CurRemaining
    <3>. QED BY <1>0, <1>4, <2>4, <3>1, RemainingFollows DEF R!ReadBytesField, C!ReadBytesField
  <2>. QED BY <2>3, <2>4
<1>. QED BY <1>1, <1>2, <1>3, <1>4 DEF BytesTyped

LEMMA ConditionalFollows ==
  ASSUME NEW s, NEW u, NEW m, Pair(s, u, m), NEW f, Shared(f.ty), f.ty.k # "bytes"
  PROVE  Follows(s, u, R!ReadConditional(s, f), C!ReadConditional(u, f), m)
<1>0. Sane(s) /\ s.err = "ok" /\ u.env = s.env /\ m \in Nat /\ m <= Len(s.data)
  BY PairIs
<1>1. C!Holds(f.cond[1], u.env) <=> R!Holds(f.cond[1], s.env)
  BY <1>0, SameExpressions
<1>2. CASE ~R!Holds(f.cond[1], s.env)
  <2>1. Follows(s, u, R!Yield(s, <<>>), C!Yield(u, <<>>), m)
    BY PairYields, PairFollows
  <2>. QED BY <1>1, <1>2, <2>1 DEF R!ReadConditional, C!ReadConditional
<1>3. CASE R!Holds(f.cond[1], s.env)
  <2> DEFINE r == R!ReadValue(s, f.ty, f.e)
             q == C!ReadValue(u, f.ty, f.e)
             r2 == R!ReadConditional(s, f)
             q2 == C!ReadConditional(u, f)
             x == <<r.v>>
             y == <<q.v>>
  <2>1. Follows(s, u, r, q, m)
    BY ValueFollows
  <2>2. Moves(s, r)
    BY <1>0, ValueReads DEF Shared, Reads
  <2>3. r2 = IF r.err # "ok" THEN r ELSE R!Yield(r, x)
    BY <1>3 DEF R!ReadConditional, R!Some
  <2>4. q2 = IF q.err # "ok" THEN q ELSE C!Yield(q, y)
    BY <1>1, <1>3 DEF C!ReadConditional, C!Some
  <2>. HIDE DEF r, q, r2, q2
  <2>5. Pair(r, q, m) => y = x
    BY DEF Pair, Level
  <2>. HIDE DEF x, y
  <2>6. Follows(s, u, r2, q2, m)
    BY <1>0, <2>1, <2>2, <2>3, <2>4, <2>5, YieldsFollow
  <2>. QED BY <2>6 DEF r2, q2
<1>. QED BY <1>2, <1>3

(* Steps that take the Rust code no further.                               *)
LEMMA FollowsHere ==
  ASSUME NEW s, NEW u, NEW m, m \in Nat, m <= Len(s.data), NEW r, NEW q, Follows(s, u, r, q, m), Moves(s, r),
         NEW r2, r2.err = r.err, r2.cur = r.cur,
         NEW q2, Pair(r, q, m) => Pair(r2, q2, m) /\ q2.outer = q.outer,
         q.err # "ok" /\ DOMAIN q = CFields => q2.err = q.err /\ DOMAIN q2 = CFields
  PROVE  Follows(s, u, r2, q2, m)
<1>1. r.err = "ok" => r.cur.pos \in Nat /\ r.cur.pos <= Len(s.data)
  BY DEF Moves, Sane, Window
<1>2. ASSUME r2.err = "ok", r2.cur.pos <= m
      PROVE  Pair(r2, q2, m) /\ q2.outer = u.outer
  BY <1>2 DEF Follows
<1>3. ASSUME m = Len(s.data)
      PROVE  q2.err = r2.err /\ DOMAIN q2 = CFields
  <2>1. CASE r.err = "ok"
    <3>1. Pair(r2, q2, m)
      BY <1>1, <1>3, <2>1 DEF Follows
    <3>. QED BY <3>1, PairIs
  <2>2. CASE r.err # "ok"
    BY <1>3, <2>2 DEF Follows
  <2>. QED BY <2>1, <2>2
<1>. QED BY <1>2, <1>3 DEF Follows

Sets(s, env, r) == r = [s EXCEPT !.env = env]

LEMMA PairSets ==
  ASSUME NEW s, NEW u, NEW m, Pair(s, u, m), NEW env, NEW r, Sets(s, env, r), NEW q, Sets(u, env, q)
  PROVE  Pair(r, q, m) /\ q.outer = u.outer /\ q.v = u.v
<1>0. DOMAIN s = Fields /\ DOMAIN u = CFields
  BY PairIs
<1>3. /\ r.v = s.v /\ r.data = s.data /\ r.calls = s.calls /\ r.cur = s.cur /\ r.env = env
      /\ r.groups = s.groups /\ r.err = s.err /\ r.views = s.views /\ r.at = s.at /\ DOMAIN r = Fields
  BY <1>0 DEF Fields, Sets
<1>4. /\ q.v = u.v /\ q.data = u.data /\ q.calls = u.calls /\ q.cur = u.cur /\ q.env = env
      /\ q.groups = u.groups /\ q.err = u.err /\ q.views = u.views /\ q.at = u.at /\ DOMAIN q = CFields
      /\ q.outer = u.outer
  BY <1>0 DEF CFields, Fields, Sets
<1>. QED BY <1>3, <1>4 DEF Pair, Context, Level, Sane

LEMMA BindFollows ==
  ASSUME NEW s, NEW u, NEW m, m \in Nat, m <= Len(s.data), NEW r, NEW q, Follows(s, u, r, q, m), Moves(s, r),
         NEW name
  PROVE  Follows(s, u, R!Bind(r, name), C!Bind(q, name), m)
<1> DEFINE r2 == R!Bind(r, name)
           q2 == C!Bind(q, name)
<1>1. r2.err = r.err /\ r2.cur = r.cur
  BY DEF R!Bind, Moves, Sane, Fields
<1>2. q.err # "ok" => q2 = q
  BY DEF C!Bind
<1>3. ASSUME Pair(r, q, m)
      PROVE  Pair(r2, q2, m) /\ q2.outer = q.outer
  <2>1. r.err = "ok" /\ q.err = "ok" /\ q.v = r.v
    BY <1>3 DEF Pair, Level
  <2> DEFINE env == R!Assign(r.env, name, r.v)
  <2>2. Sets(r, env, r2)
    BY <2>1 DEF R!Bind, Sets
  <2>3. C!Assign(q.env, name, q.v) = env
    BY <1>3, <2>1, PairIs, SameExpressions
  <2>4. Sets(q, env, q2)
    BY <2>1, <2>3 DEF C!Bind, Sets
  <2>. HIDE DEF r2, q2, env
  <2>. QED BY <1>3, <2>2, <2>4, PairSets
<1>. HIDE DEF r2, q2
<1>4. Follows(s, u, r2, q2, m)
  BY <1>1, <1>2, <1>3, FollowsHere
<1>. QED BY <1>4 DEF r2, q2

---------------------------------------------------------------------------
(* Bit groups: the C code marks the group first, then binds the members.   *)

Marked(t, g) == [t EXCEPT !.groups = @ \cup {g}]

LEMMA PairMarked ==
  ASSUME NEW s, NEW u, NEW m, Pair(s, u, m), NEW g
  PROVE  Pair(Marked(s, g), Marked(u, g), m) /\ Marked(u, g).outer = u.outer /\ Marked(u, g).v = u.v
<1> DEFINE r == Marked(s, g)
           q == Marked(u, g)
<1>0. DOMAIN s = Fields /\ DOMAIN u = CFields /\ u.groups = s.groups
  BY PairIs DEF Pair, Level
<1>3. /\ r.v = s.v /\ r.data = s.data /\ r.calls = s.calls /\ r.cur = s.cur /\ r.env = s.env
      /\ r.groups = s.groups \cup {g} /\ r.err = s.err /\ r.views = s.views /\ r.at = s.at /\ DOMAIN r = Fields
  BY <1>0 DEF Fields, Marked
<1>4. /\ q.v = u.v /\ q.data = u.data /\ q.calls = u.calls /\ q.cur = u.cur /\ q.env = u.env
      /\ q.groups = u.groups \cup {g} /\ q.err = u.err /\ q.views = u.views /\ q.at = u.at /\ DOMAIN q = CFields
      /\ q.outer = u.outer
  BY <1>0 DEF CFields, Fields, Marked
<1>. HIDE DEF r, q
<1>5. Pair(r, q, m)
  BY <1>0, <1>3, <1>4 DEF Pair, Context, Level, Sane
<1>. QED BY <1>4, <1>5 DEF r, q

LEMMA MembersFollow ==
  ASSUME NEW s, NEW u, NEW m, Pair(s, u, m), NEW items, NEW n \in Nat, DOMAIN items = 1 .. n, NEW g,
         NEW r, r = R!BindMembers(s, items, g), NEW q, q = C!BindMembers(Marked(u, g), items, g)
  PROVE  /\ Pair(Marked(r, g), q, m) /\ q.outer = u.outer
         /\ r.cur = s.cur /\ r.err = s.err
<1> DEFINE f == FM!Fold(g, 0, s, items)
           v == Marked(u, g)
           h == HM!Fold(g, 0, v, items)
<1>1. r = f
  BY DEF R!BindMembers, FM!Fold, R!FoldLeft, FM!FoldLeft, MemberStep, R!MapThenFoldSet,
     FM!MapThenFoldSet, R!Max, FM!Max
<1>2. q = h
  BY DEF C!BindMembers, HM!Fold, C!FoldLeft, HM!FoldLeft, MemberStepC, C!MapThenFoldSet,
     HM!MapThenFoldSet, C!Max, HM!Max
<1>3. Pair(Marked(s, g), v, m) /\ v.outer = u.outer /\ v.v = u.v /\ u.v = s.v /\ DOMAIN s = Fields
  BY PairMarked, PairIs DEF Pair, Level
<1>. HIDE DEF v
<1>4. PICK run : FM!Runs(run, g, 0, s, items, n)
  BY FM!FoldRuns
<1>5. PICK run2 : HM!Runs(run2, g, 0, v, items, n)
  BY HM!FoldRuns
<1>. HIDE DEF f, h
<1> DEFINE Keeps(t, w) == /\ Pair(Marked(t, g), w, m) /\ w.outer = u.outer
                          /\ t.cur = s.cur /\ t.err = s.err /\ t.v = s.v /\ w.v = s.v /\ DOMAIN t = Fields
           S == { i \in 0 .. n : Keeps(run[i], run2[i]) }
<1>6. 0 \in S
  BY <1>3, <1>4, <1>5 DEF FM!Runs, HM!Runs
<1>7. ASSUME NEW i \in 1 .. n, i - 1 \in S
      PROVE  i \in S
  <2> DEFINE t == run[i - 1]
             w == run2[i - 1]
             t2 == run[i]
             w2 == run2[i]
             x == items[i]
  <2>1. t2 = R!BindMember(t, g, x) /\ w2 = C!BindMember(w, g, x)
    BY <1>4, <1>5 DEF FM!Runs, HM!Runs, MemberStep, MemberStepC
  <2>2. Keeps(t, w)
    BY <1>7
  <2>. HIDE DEF t, w, t2, w2
  <2>3. CASE ~R!InGroup(x, g)
    <3>1. t2 = t /\ w2 = w
      BY <2>1, <2>3, SameGroups DEF R!BindMember, C!BindMember
    <3>2. Keeps(t2, w2)
      BY <2>2, <3>1
    <3>. QED BY <3>2 DEF t2, w2
  <2>4. CASE R!InGroup(x, g)
    <3> DEFINE p == Marked(t, g)
               p2 == Marked(t2, g)
               env == R!Assign(t.env, x.name, R!Extract(t.v, x.shift, x.ty.n))
    <3>1. t2 = [t EXCEPT !.env = env]
      BY <2>1, <2>4 DEF R!BindMember
    <3>2. w.env = t.env /\ w.v = t.v
      <4>1. w.env = p.env
        BY <2>2, PairIs
      <4>. QED BY <2>2, <4>1 DEF Marked, Fields
    <3>3. C!Assign(w.env, x.name, C!Extract(w.v, x.shift, x.ty.n)) = env
      BY <3>2, SameExpressions, SameGroups
    <3>4. Sets(w, env, w2)
      BY <2>1, <2>4, <3>3, SameGroups DEF C!BindMember, Sets
    <3>. HIDE DEF env
    <3>5. Sets(p, env, p2)
      BY <2>2, <3>1 DEF Sets, Marked, Fields
    <3>6. t2.cur = t.cur /\ t2.err = t.err /\ t2.v = t.v /\ DOMAIN t2 = Fields
      BY <2>2, <3>1 DEF Fields
    <3>. HIDE DEF p, p2
    <3>7. Pair(p2, w2, m) /\ w2.outer = w.outer /\ w2.v = w.v
      <4>1. Pair(p, w, m)
        BY <2>2 DEF p
      <4>. QED BY <3>4, <3>5, <4>1, PairSets
    <3>8. Keeps(t2, w2)
      BY <2>2, <3>6, <3>7 DEF p2
    <3>. QED BY <3>8 DEF t2, w2
  <2>. QED BY <2>3, <2>4
<1>8. n \in S
  <2>. HIDE DEF S
  <2>1. \A i \in 0 .. n : i \in S
    BY <1>6, <1>7, FM!Upwards
  <2>. QED BY <2>1
<1>9. run[n] = r /\ run2[n] = q
  BY <1>1, <1>2, <1>4, <1>5 DEF FM!Runs, HM!Runs, f, h
<1>. QED BY <1>8, <1>9

LEMMA GroupFollows ==
  ASSUME NEW s, NEW u, NEW m, Pair(s, u, m), NEW k, NEW items, NEW n \in Nat, DOMAIN items = 1 .. n,
         KindsKept(items, k), \A i \in 1 .. n : ItemTyped(items[i], k),
         NEW i \in 1 .. n, items[i].it = "field", items[i].strategy = "BitGroup", NEW names, Has(s, k, names)
  PROVE  Follows(s, u, R!ReadGroup(s, items, items[i]), C!ReadGroup(u, items, items[i]), m)
<1> DEFINE x == items[i]
           w == R!ContainerBytes(x.total)
           r == R!ReadNumber(s, w, x.order)
           q == C!CursorRead(u, w, x.order)
           g == x.group
           r2 == R!ReadGroup(s, items, x)
           q2 == C!ReadGroup(u, items, x)
           ms == R!BindMembers(r, items, g)
           cs == C!BindMembers(Marked(q, g), items, g)
<1>0. Sane(s) /\ s.err = "ok" /\ m \in Nat /\ m <= Len(s.data)
  BY PairIs
<1>1. g # 0 /\ x.total \in Nat /\ x.total <= 8 * ByteBits
  BY DEF ItemTyped, Placed, FieldTyped
<1>2. r2 = IF r.err # "ok" THEN r ELSE Marked(ms, g)
  BY DEF R!ReadGroup, R!BindGroup, Marked
<1>3. q2 = IF q.err # "ok" THEN q ELSE cs
  BY SameGroups DEF C!ReadGroup, C!BindGroup, Marked
<1>4. w \in Nat
  BY <1>1, ContainerIsNat
<1>. HIDE DEF w
<1>5. Follows(s, u, r, q, m) /\ Moves(s, r) /\ r.env = s.env /\ (r.err = "ok" => r.v \in Nat)
  BY <1>0, <1>4, NumberFollows, NumberReads DEF Reads
<1>. HIDE DEF r, q, r2, q2, g
<1>6. r.err = "ok" => OnlyBinds(r, ms)
  <2>1. Sane(r) /\ EnvTyped(r.env, k)
    BY <1>5 DEF Moves, Has, Knows
  <2>. QED BY <1>1, <1>5, <2>1, MembersBound
<1>7. ASSUME Pair(r, q, m)
      PROVE  Pair(r2, q2, m) /\ q2.outer = q.outer
  <2>1. r2 = Marked(ms, g) /\ q2 = cs
    BY <1>2, <1>3, <1>7, PairIs
  <2>2. Pair(Marked(ms, g), cs, m) /\ cs.outer = q.outer
    <3>. HIDE DEF ms, cs
    <3>. QED BY <1>7, MembersFollow DEF ms, cs
  <2>. QED BY <2>1, <2>2
<1>. HIDE DEF ms, cs
<1>8. r2.err = r.err /\ r2.cur = r.cur
  BY <1>2, <1>6 DEF OnlyBinds, Marked, Fields
<1>9. Follows(s, u, r2, q2, m)
  BY <1>0, <1>3, <1>5, <1>7, <1>8, FollowsHere
<1>. QED BY <1>9 DEF r2, q2

---------------------------------------------------------------------------
(* Items of a scope                                                        *)

(* The guard before item i held.                                           *)
Held(s, items, i) ==
  i - 1 \in DOMAIN items /\ items[i - 1].it = "require" => R!Holds(items[i - 1].e, s.env)

LEMMA HeldAfter ==
  ASSUME NEW s, DOMAIN s = Fields, NEW items, NEW i \in Nat, NEW q, q = R!ParseItem(s, items, items[i]), q.err = "ok"
  PROVE  Held(q, items, i + 1)
<1>1. CASE s.err = "ok" /\ items[i].it = "require"
  <2>1. q = IF R!Holds(items[i].e, s.env) THEN s ELSE R!Fail(s, "Constraint")
    BY <1>1 DEF R!ParseItem
  <2>2. R!Fail(s, "Constraint").err # "ok"
    BY DEF R!Fail, Fields
  <2>. QED BY <2>1, <2>2 DEF Held
<1>2. CASE s.err # "ok"
  BY <1>2 DEF R!ParseItem
<1>. QED BY <1>1, <1>2 DEF Held

LEMMA GuardHolds ==
  ASSUME NEW s, NEW k, NEW items, NEW n, NEW outer, Scope(items, n, k, outer), EnvTyped(s.env, k),
         NEW i \in 1 .. n, Held(s, items, i), FieldPortable(items, i), Assigned(Sizes(items[i].ty), s.env)
  PROVE  Ordered(Sizes(items[i].ty), s.env)
<1>1. ASSUME NEW e \in Sizes(items[i].ty), e.op = "sub", e.w < IntBits
      PROVE  s.env[e.f] >= e.v
  <2> DEFINE x == items[i - 1]
  <2>1. i - 1 \in DOMAIN items /\ Guards(x, e)
    BY <1>1 DEF FieldPortable, SamePromoted
  <2>2. R!Eval(x.e, s.env) # 0 /\ x.e.op = "ge" /\ x.e.f = e.f /\ e.v \in 0 .. x.e.v
    BY <2>1 DEF Held, Guards, R!Holds
  <2>3. s.env[e.f] >= x.e.v
    BY <2>2 DEF R!Eval
  <2>4. x.e.f \in k.ints /\ x.e.v \in Nat
    BY <2>1, <2>2 DEF Guards, Scope, ScopeTyped, ItemTyped, IsInteger
  <2>5. s.env[e.f] \in Nat
    BY <1>1, <2>2, <2>4 DEF Assigned, ExprRefs, EnvTyped
  <2>. QED BY <2>2, <2>3, <2>4, <2>5
<1>. QED BY <1>1 DEF Ordered

(* Fields that do not ask what remains of the outer cursor.                *)
Inner(x) ==
  /\ x.strategy \notin {"BitGroup", "lor"}
  /\ x.strategy = "Array" => x.ty.count # <<>> \/ x.ty.within # <<>>

LEMMA FieldFollows ==
  ASSUME NEW s, NEW u, NEW m, Pair(s, u, m), NEW k, NEW items, NEW n, NEW outer, Scope(items, n, k, outer),
         NEW i \in 1 .. n, items[i].it = "field", Between(s, items, i, k, outer),
         Held(s, items, i), FieldPortable(items, i), u.outer = <<>> \/ Inner(items[i])
  PROVE  Follows(s, u, R!ParseField(s, items, items[i]), C!ParseField(u, items, items[i]), m)
<1> DEFINE x == items[i]
           names == NamesBefore(items, i, outer)
<1>0. Sane(s) /\ s.err = "ok" /\ m \in Nat /\ m <= Len(s.data) /\ u.groups = s.groups
  BY PairIs DEF Pair, Level
<1>1. /\ n \in Nat /\ DOMAIN items = 1 .. n /\ KindsKept(items, k)
      /\ \A j \in 1 .. n : ItemTyped(items[j], k)
      /\ ItemRefs(x) \subseteq names
      /\ Has(s, k, names) /\ Knows(s.env, k, names) /\ EnvTyped(s.env, k)
  BY DEF Scope, ScopeTyped, Between, Has, Knows
<1>2. FieldTyped(x, k)
  BY <1>1 DEF ItemTyped
<1>3. Assigned(Sizes(x.ty), s.env) /\ Ordered(Sizes(x.ty), s.env)
  <2>1. ItemRefs(x) \subseteq DOMAIN s.env
    BY <1>1 DEF Knows
  <2>2. Assigned(Sizes(x.ty), s.env)
    BY <2>1, SizesAssigned
  <2>. QED BY <1>1, <2>2, GuardHolds
<1>4. \A ty : Readable(ty) => ty.k # "array" /\ ty.k # "bytes"
  BY DEF Readable
<1>5. /\ TypePortable(ElementType(x.ty)) /\ (x.strategy = "Conditional" => x.ty.k # "bytes")
      /\ x.ty.k = "array" => \A e \in Range(x.ty.count) : ~Wide(e)
  BY DEF FieldPortable
<1>6. CASE x.strategy \in {"Primitive", "Checksum", "Struct", "VarInt"} /\ Readable(x.ty)
  <2> DEFINE r == R!ReadValue(s, x.ty, x.e)
             q == C!ReadValue(u, x.ty, x.e)
  <2>1. R!ParseField(s, items, x) = R!Bind(r, x.name) /\ C!ParseField(u, items, x) = C!Bind(q, x.name)
    BY <1>6 DEF R!ParseField, C!ParseField
  <2>2. Shared(x.ty)
    BY <1>4, <1>5, <1>6 DEF Shared, ElementType
  <2>3. Follows(s, u, r, q, m) /\ Moves(s, r)
    BY <1>0, <1>6, <2>2, ValueFollows, ValueReads DEF Reads
  <2>. HIDE DEF r, q
  <2>. QED BY <1>0, <2>1, <2>3, BindFollows
<1>7. CASE x.strategy = "BitGroup" /\ x.group \in s.groups
  <2>1. R!ParseField(s, items, x) = s /\ C!ParseField(u, items, x) = u
    BY <1>0, <1>7 DEF R!ParseField, C!ParseField
  <2>. QED BY <2>1, PairFollows
<1>8. CASE x.strategy = "BitGroup" /\ x.group \notin s.groups
  <2>1. R!ParseField(s, items, x) = R!ReadGroup(s, items, x) /\ C!ParseField(u, items, x) = C!ReadGroup(u, items, x)
    BY <1>0, <1>8 DEF R!ParseField, C!ParseField
  <2>. QED BY <1>1, <1>8, <2>1, GroupFollows
<1>9. CASE x.strategy \in {"fixed", "length", "remaining", "lor"} /\ BytesTyped(x.ty, k) /\ x.ty.kind = x.strategy
  <2> DEFINE r == R!ReadBytesField(s, x.ty)
             q == C!ReadBytesField(u, x.ty)
  <2>1. R!ParseField(s, items, x) = R!Bind(r, x.name) /\ C!ParseField(u, items, x) = C!Bind(q, x.name)
    BY <1>9 DEF R!ParseField, C!ParseField
  <2>2. u.outer = <<>> \/ x.ty.kind # "lor"
    BY <1>9 DEF Inner
  <2>3. Follows(s, u, r, q, m) /\ Moves(s, r)
    BY <1>0, <1>1, <1>3, <1>9, <2>2, BytesFieldFollows, BytesFieldReads DEF Reads
  <2>. HIDE DEF r, q
  <2>. QED BY <1>0, <2>1, <2>3, BindFollows
<1>10. CASE x.strategy = "Conditional" /\ OneInteger(x.cond, k) /\ (Readable(x.ty) \/ BytesTyped(x.ty, k))
  <2> DEFINE r == R!ReadConditional(s, x)
             q == C!ReadConditional(u, x)
  <2>1. R!ParseField(s, items, x) = R!Bind(r, x.name) /\ C!ParseField(u, items, x) = C!Bind(q, x.name)
    BY <1>10 DEF R!ParseField, C!ParseField
  <2>2. Shared(x.ty) /\ x.ty.k # "bytes"
    BY <1>4, <1>5, <1>10 DEF Shared, ElementType, BytesTyped
  <2>3. Follows(s, u, r, q, m) /\ Moves(s, r)
    BY <1>0, <1>1, <1>3, <1>10, <2>2, ConditionalFollows, ConditionalReads DEF Reads
  <2>. HIDE DEF r, q
  <2>. QED BY <1>0, <2>1, <2>3, BindFollows
<1>11. CASE x.strategy = "Array" /\ ArrayTyped(x.ty, k)
  <2> DEFINE r == R!ReadArray(s, x.ty)
             q == C!ReadArray(u, x.ty)
  <2>1. R!ParseField(s, items, x) = R!Bind(r, x.name) /\ C!ParseField(u, items, x) = C!Bind(q, x.name)
    BY <1>11 DEF R!ParseField, C!ParseField
  <2>2. /\ TypePortable(x.ty.el) /\ (u.outer = <<>> \/ x.ty.count # <<>> \/ x.ty.within # <<>>)
        /\ \A e \in Range(x.ty.count) : ~Wide(e)
    BY <1>5, <1>11 DEF ArrayTyped, ElementType, Inner
  <2>3. Follows(s, u, r, q, m) /\ Moves(s, r)
    BY <1>0, <1>1, <1>3, <1>11, <2>2, ArrayFollows, ArrayReads DEF Reads
  <2>. HIDE DEF r, q
  <2>. QED BY <1>0, <2>1, <2>3, BindFollows
<1>. QED BY <1>2, <1>6, <1>7, <1>8, <1>9, <1>10, <1>11 DEF FieldTyped

LEMMA ItemFollows ==
  ASSUME NEW s, NEW u, NEW m, Pair(s, u, m), NEW k, NEW items, NEW n, NEW outer, Scope(items, n, k, outer),
         NEW i \in 1 .. n, Between(s, items, i, k, outer), Held(s, items, i),
         IsField(items[i]) => FieldPortable(items, i) /\ (u.outer = <<>> \/ Inner(items[i]))
  PROVE  Follows(s, u, R!ParseItem(s, items, items[i]), C!ParseItem(u, items, items[i]), m)
<1> DEFINE x == items[i]
<1>0. Sane(s) /\ s.err = "ok" /\ u.err = "ok" /\ m \in Nat /\ m <= Len(s.data) /\ u.env = s.env
  BY PairIs
<1>1. CASE x.it = "field"
  <2>1. R!ParseItem(s, items, x) = R!ParseField(s, items, x) /\ C!ParseItem(u, items, x) = C!ParseField(u, items, x)
    BY <1>0, <1>1 DEF R!ParseItem, C!ParseItem
  <2>. QED BY <1>1, <2>1, FieldFollows DEF IsField
<1>2. CASE x.it = "let"
  <2> DEFINE val == R!Eval(x.e, s.env)
             r == R!Yield(s, val)
             q == C!Yield(u, val)
  <2>0. C!Eval(x.e, u.env) = val
    BY <1>0, SameExpressions
  <2>1. R!ParseItem(s, items, x) = R!Bind(r, x.name)
    BY <1>0, <1>2 DEF R!ParseItem
  <2>2. C!ParseItem(u, items, x) = C!Bind(q, x.name)
    BY <1>0, <1>2, <2>0 DEF C!ParseItem
  <2>. HIDE DEF val
  <2>3. Follows(s, u, r, q, m) /\ Moves(s, r)
    BY <1>0, PairYields, PairFollows, Yields DEF Reads
  <2>. HIDE DEF r, q
  <2>. QED BY <1>0, <2>1, <2>2, <2>3, BindFollows
<1>3. CASE x.it = "require" /\ R!Holds(x.e, s.env)
  <2>1. R!ParseItem(s, items, x) = s /\ C!ParseItem(u, items, x) = u
    BY <1>0, <1>3, SameExpressions DEF R!ParseItem, C!ParseItem
  <2>. QED BY <2>1, PairFollows
<1>4. CASE x.it = "require" /\ ~R!Holds(x.e, s.env)
  <2>1. /\ R!ParseItem(s, items, x) = R!Fail(s, "Constraint")
        /\ C!ParseItem(u, items, x) = C!Fail(u, "Constraint")
    BY <1>0, <1>4, SameExpressions DEF R!ParseItem, C!ParseItem
  <2>. QED BY <2>1, FailsFollow
<1>5. x.it \in {"field", "let", "require"}
  BY DEF Scope, ScopeTyped, ItemTyped
<1>. QED BY <1>1, <1>2, <1>3, <1>4, <1>5

Forgets(t) == [t EXCEPT !.groups = {}]

LEMMA PairForgets ==
  ASSUME NEW s, NEW u, NEW m, Pair(s, u, m)
  PROVE  Pair(Forgets(s), Forgets(u), m) /\ Forgets(u).outer = u.outer
<1> DEFINE r == Forgets(s)
           q == Forgets(u)
<1>0. DOMAIN s = Fields /\ DOMAIN u = CFields
  BY PairIs
<1>1. /\ r.v = s.v /\ r.data = s.data /\ r.calls = s.calls /\ r.cur = s.cur /\ r.env = s.env
      /\ r.groups = {} /\ r.err = s.err /\ r.views = s.views /\ r.at = s.at /\ DOMAIN r = Fields
  BY <1>0 DEF Fields, Forgets
<1>2. /\ q.v = u.v /\ q.data = u.data /\ q.calls = u.calls /\ q.cur = u.cur /\ q.env = u.env
      /\ q.groups = {} /\ q.err = u.err /\ q.views = u.views /\ q.at = u.at /\ DOMAIN q = CFields
      /\ q.outer = u.outer
  BY <1>0 DEF CFields, Fields, Forgets
<1>. HIDE DEF r, q
<1>3. Pair(r, q, m)
  BY <1>1, <1>2 DEF Pair, Context, Level, Sane
<1>. QED BY <1>2, <1>3 DEF r, q

(* From a pair of states to a pair of states, then one step more.          *)
LEMMA FromPair ==
  ASSUME NEW s, NEW u, NEW b, NEW c, s.data = b.data, c.outer = u.outer, NEW r, NEW q, NEW m, Follows(b, c, r, q, m)
  PROVE  Follows(s, u, r, q, m)
BY DEF Follows

LEMMA ItemsFollow ==
  ASSUME NEW s, NEW u, NEW m, Pair(s, u, m), u.outer = <<>>, NEW k, NEW items, NEW n, NEW outer,
         Scope(items, n, k, outer), NEW first, NEW l, NEW these, Part(these, l, items, n, first),
         Has(s, k, NamesBefore(items, first, outer)), Held(s, items, first), ScopePortable(items)
  PROVE  Follows(s, u, R!ParseItems(s, items, these), C!ParseItems(u, items, these), m)
<1>. USE DEF Part
<1> DEFINE base == Forgets(s)
           base2 == Forgets(u)
           f == FI!Fold(items, 0, base, these)
           g == HI!Fold(items, 0, base2, these)
<1>0. Sane(s) /\ s.err = "ok" /\ m \in Nat /\ m <= Len(s.data) /\ DOMAIN s = Fields
  BY PairIs
<1>1. R!ParseItems(s, items, these) = f
  BY DEF R!ParseItems, FI!Fold, R!FoldLeft, FI!FoldLeft, ItemStep, R!MapThenFoldSet,
     FI!MapThenFoldSet, R!Max, FI!Max, Forgets
<1>2. C!ParseItems(u, items, these) = g
  BY DEF C!ParseItems, HI!Fold, C!FoldLeft, HI!FoldLeft, ItemStepC, C!MapThenFoldSet,
     HI!MapThenFoldSet, C!Max, HI!Max, Forgets
<1>3. /\ base.env = s.env /\ base.err = s.err /\ base.cur = s.cur /\ base.data = s.data /\ base.calls = s.calls
      /\ base.groups = {} /\ base.at = s.at /\ base.views = s.views /\ DOMAIN base = Fields
  BY <1>0 DEF Fields, Forgets
<1>4. Pair(base, base2, m) /\ base2.outer = u.outer
  BY PairForgets
<1>. HIDE DEF base, base2
<1>5. PICK run : FI!Runs(run, items, 0, base, these, l)
  BY FI!FoldRuns
<1>6. PICK run2 : HI!Runs(run2, items, 0, base2, these, l)
  BY HI!FoldRuns
<1>. HIDE DEF f, g
<1> DEFINE Keeps(j, t, v) == /\ Moves(s, t) /\ Follows(s, u, t, v, m)
                             /\ t.err = "ok" => /\ Between(t, items, first + j, k, outer)
                                                /\ Held(t, items, first + j)
           S == { j \in 0 .. l : Keeps(j, run[j], run2[j]) }
<1>7. 0 \in S
  <2>1. Moves(s, base)
    BY <1>0, <1>3 DEF Moves, Sane, Forward, Window
  <2>2. base.err = "ok" => Between(base, items, first + 0, k, outer) /\ Held(base, items, first + 0)
    BY <1>3 DEF Between, Has, GroupsKnown, Held
  <2>3. Follows(s, u, base, base2, m)
    BY <1>4, PairFollows
  <2>4. Keeps(0, run[0], run2[0])
    BY <1>5, <1>6, <2>1, <2>2, <2>3 DEF FI!Runs, HI!Runs
  <2>. QED BY <2>4
<1>8. ASSUME NEW j \in 1 .. l, j - 1 \in S
      PROVE  j \in S
  <2> DEFINE i == first + j - 1
             t == run[j - 1]
             v == run2[j - 1]
             t2 == run[j]
             v2 == run2[j]
             x == items[i]
  <2>0. first \in Nat /\ l \in Nat /\ n \in Nat /\ first \in 1 .. n /\ first + l - 1 <= n
    BY DEF Scope
  <2>1. i \in 1 .. n /\ these[j] = x /\ first + (j - 1) = i /\ first + j = i + 1
    BY <2>0
  <2>2. t2 = R!ParseItem(t, items, x) /\ v2 = C!ParseItem(v, items, x)
    BY <1>5, <1>6, <2>1 DEF FI!Runs, HI!Runs, ItemStep, ItemStepC
  <2>3. Keeps(j - 1, t, v)
    BY <1>8
  <2>. HIDE DEF i, t, v, t2, v2
  <2>4. /\ Moves(s, t) /\ Sane(t) /\ Follows(s, u, t, v, m)
        /\ t.err = "ok" => Between(t, items, i, k, outer) /\ Held(t, items, i)
    BY <2>1, <2>3 DEF Moves
  <2>5. Moves(t, t2) /\ (t2.err = "ok" => Between(t2, items, i + 1, k, outer))
    BY <2>1, <2>2, <2>4, ItemMoves
  <2>5a. t2.err = "ok" => Held(t2, items, i + 1)
    BY <2>1, <2>2, <2>4, HeldAfter DEF Sane
  <2>6. ASSUME Pair(t, v, m)
        PROVE  Follows(t, v, t2, v2, m)
    <3>1. t.err = "ok" /\ v.outer = <<>>
      BY <2>4, <2>6 DEF Pair, Level, Follows
    <3>2. IsField(x) => FieldPortable(items, i)
      BY <2>1 DEF ScopePortable, Scope
    <3>. QED BY <2>1, <2>2, <2>4, <2>6, <3>1, <3>2, ItemFollows
  <2>7. (t.err # "ok" => t2 = t) /\ (v.err # "ok" => v2 = v)
    BY <2>2 DEF R!ParseItem, C!ParseItem
  <2>8. Follows(s, u, t2, v2, m)
    BY <1>0, <2>4, <2>5, <2>6, <2>7, FollowsOn
  <2>9. Moves(s, t2)
    BY <1>0, <2>4, <2>5, MovesOn
  <2>10. Keeps(j, t2, v2)
    BY <2>1, <2>5, <2>5a, <2>8, <2>9
  <2>. QED BY <2>10 DEF t2, v2
<1>9. l \in S
  <2>. HIDE DEF S
  <2>1. \A j \in 0 .. l : j \in S
    BY <1>7, <1>8, FI!Upwards
  <2>. QED BY <2>1
<1>10. run[l] = f /\ run2[l] = g
  BY <1>5, <1>6 DEF FI!Runs, HI!Runs, f, g
<1>. QED BY <1>1, <1>2, <1>9, <1>10

LEMMA ScopeFollows ==
  ASSUME NEW s, NEW u, NEW m, Pair(s, u, m), u.outer = <<>>, NEW k, NEW items, NEW n, NEW outer,
         Scope(items, n, k, outer), Has(s, k, outer), ScopePortable(items)
  PROVE  Follows(s, u, R!ParseItems(s, items, items), C!ParseItems(u, items, items), m)
<1>1. n \in Nat /\ DOMAIN items = 1 .. n
  BY DEF Scope
<1>2. NamesBefore(items, 1, outer) = outer
  <2>1. 1 .. 1 - 1 = {}
    OBVIOUS
  <2>. QED BY <2>1 DEF NamesBefore
<1>3. Part(items, n, items, n, 1) /\ Held(s, items, 1)
  BY <1>1 DEF Part, Held
<1>. QED BY <1>2, <1>3, ItemsFollow

LEMMA OneItem ==
  ASSUME NEW s, NEW items, NEW x
  PROVE  R!ParseItems(s, items, <<x>>) = R!ParseItem(Forgets(s), items, x)
<1> DEFINE base == Forgets(s)
           these == <<x>>
           f == FI!Fold(items, 0, base, these)
<1>1. R!ParseItems(s, items, these) = f
  BY DEF R!ParseItems, FI!Fold, R!FoldLeft, FI!FoldLeft, ItemStep, R!MapThenFoldSet,
     FI!MapThenFoldSet, R!Max, FI!Max, Forgets
<1>2. DOMAIN these = 1 .. 1 /\ these[1] = x
  OBVIOUS
<1>. HIDE DEF base, these
<1>3. PICK run : FI!Runs(run, items, 0, base, these, 1)
  BY <1>2, FI!FoldRuns
<1>4. f = R!ParseItem(base, items, x)
  BY <1>2, <1>3 DEF FI!Runs, ItemStep
<1>. QED BY <1>1, <1>4 DEF base, these

(* Nothing is read after an error.                                         *)
LEMMA FailedItems ==
  ASSUME NEW s, DOMAIN s = Fields, s.err # "ok", NEW items, NEW these, NEW l \in Nat, DOMAIN these = 1 .. l
  PROVE  R!ParseItems(s, items, these).err = s.err
<1> DEFINE base == Forgets(s)
           f == FI!Fold(items, 0, base, these)
<1>1. R!ParseItems(s, items, these) = f
  BY DEF R!ParseItems, FI!Fold, R!FoldLeft, FI!FoldLeft, ItemStep, R!MapThenFoldSet,
     FI!MapThenFoldSet, R!Max, FI!Max, Forgets
<1>2. base.err = s.err
  BY DEF Fields, Forgets
<1>. HIDE DEF base
<1>3. PICK run : FI!Runs(run, items, 0, base, these, l)
  BY FI!FoldRuns
<1>. HIDE DEF f
<1> DEFINE S == { i \in 0 .. l : run[i].err = s.err }
<1>4. 0 \in S
  BY <1>2, <1>3 DEF FI!Runs
<1>5. ASSUME NEW i \in 1 .. l, i - 1 \in S
      PROVE  i \in S
  <2>1. run[i] = run[i - 1]
    BY <1>3, <1>5 DEF FI!Runs, ItemStep, R!ParseItem
  <2>. QED BY <1>5, <2>1
<1>6. l \in S
  <2>. HIDE DEF S
  <2>1. \A i \in 0 .. l : i \in S
    BY <1>4, <1>5, FI!Upwards
  <2>. QED BY <2>1
<1>. QED BY <1>1, <1>3, <1>6 DEF FI!Runs, f

LEMMA FailedItemsC ==
  ASSUME NEW u, DOMAIN u = CFields, u.err # "ok", NEW items, NEW these, NEW l \in Nat, DOMAIN these = 1 .. l
  PROVE  C!ParseItems(u, items, these).err = u.err /\ DOMAIN C!ParseItems(u, items, these) = CFields
<1> DEFINE base == Forgets(u)
           f == HI!Fold(items, 0, base, these)
<1>1. C!ParseItems(u, items, these) = f
  BY DEF C!ParseItems, HI!Fold, C!FoldLeft, HI!FoldLeft, ItemStepC, C!MapThenFoldSet,
     HI!MapThenFoldSet, C!Max, HI!Max, Forgets
<1>2. base.err = u.err /\ DOMAIN base = CFields
  BY DEF CFields, Fields, Forgets
<1>. HIDE DEF base
<1>3. PICK run : HI!Runs(run, items, 0, base, these, l)
  BY HI!FoldRuns
<1>. HIDE DEF f
<1> DEFINE S == { i \in 0 .. l : run[i].err = u.err /\ DOMAIN run[i] = CFields }
<1>4. 0 \in S
  BY <1>2, <1>3 DEF HI!Runs
<1>5. ASSUME NEW i \in 1 .. l, i - 1 \in S
      PROVE  i \in S
  <2>1. run[i] = run[i - 1]
    BY <1>3, <1>5 DEF HI!Runs, ItemStepC, C!ParseItem
  <2>. QED BY <1>5, <2>1
<1>6. l \in S
  <2>. HIDE DEF S
  <2>1. \A i \in 0 .. l : i \in S
    BY <1>4, <1>5, HI!Upwards
  <2>. QED BY <2>1
<1>. QED BY <1>1, <1>3, <1>6 DEF HI!Runs, f

---------------------------------------------------------------------------
(* The offset of a checksum                                                *)

Notes(s, x, r) == r = [s EXCEPT !.at = x]

LEMMA PairNotes ==
  ASSUME NEW s, NEW u, NEW m, Pair(s, u, m), NEW x, NEW r, Notes(s, x, r), NEW q, Notes(u, x, q)
  PROVE  Pair(r, q, m) /\ q.outer = u.outer
<1>0. DOMAIN s = Fields /\ DOMAIN u = CFields
  BY PairIs
<1>1. /\ r.v = s.v /\ r.data = s.data /\ r.calls = s.calls /\ r.cur = s.cur /\ r.env = s.env
      /\ r.groups = s.groups /\ r.err = s.err /\ r.views = s.views /\ r.at = x /\ DOMAIN r = Fields
  BY <1>0 DEF Fields, Notes
<1>2. /\ q.v = u.v /\ q.data = u.data /\ q.calls = u.calls /\ q.cur = u.cur /\ q.env = u.env
      /\ q.groups = u.groups /\ q.err = u.err /\ q.views = u.views /\ q.at = x /\ DOMAIN q = CFields
      /\ q.outer = u.outer
  BY <1>0 DEF CFields, Fields, Notes
<1>. QED BY <1>1, <1>2 DEF Pair, Context, Level, Sane

TrackStepC(items, b, t, x) == C!ParseItems(C!AtChecksum(t, items, x), items, <<x>>)
HK == INSTANCE Folding WITH Step <- TrackStepC, Good <- Natural

(* At the top the offset in the window is the one from where the packet    *)
(* starts.                                                                 *)
LEMMA TrackedFollows ==
  ASSUME NEW s, NEW u, NEW m, Pair(s, u, m), u.outer = <<>>, s.cur.lo = s.cur.pos,
         NEW k, NEW items, NEW n, NEW outer, Scope(items, n, k, outer), Has(s, k, outer), ScopePortable(items)
  PROVE  Follows(s, u, R!ParseTracked(s, items), C!ParseTracked(u, items), m)
<1> DEFINE base == [s EXCEPT !.at = 0]
           base2 == [u EXCEPT !.at = 0]
           f == FK!Fold(s, items, base, items)
           g == HK!Fold(items, 0, base2, items)
<1>0. Sane(s) /\ s.err = "ok" /\ m \in Nat /\ m <= Len(s.data) /\ DOMAIN s = Fields /\ Window(s.cur, s.data)
  BY PairIs
<1>1. n \in Nat /\ DOMAIN items = 1 .. n
  BY DEF Scope
<1>2. R!ParseTracked(s, items) = f
  BY DEF R!ParseTracked, FK!Fold, R!FoldLeft, FK!FoldLeft, TrackStep, R!MapThenFoldSet,
     FK!MapThenFoldSet, R!Max, FK!Max
<1>3. C!ParseTracked(u, items) = g
  BY DEF C!ParseTracked, HK!Fold, C!FoldLeft, HK!FoldLeft, TrackStepC, C!MapThenFoldSet,
     HK!MapThenFoldSet, C!Max, HK!Max
<1>4. /\ base.env = s.env /\ base.err = s.err /\ base.cur = s.cur /\ base.data = s.data /\ base.calls = s.calls
      /\ base.views = s.views /\ DOMAIN base = Fields
  BY <1>0 DEF Fields
<1>5. Notes(s, 0, base) /\ Notes(u, 0, base2)
  BY DEF Notes
<1>. HIDE DEF base, base2
<1>6. Pair(base, base2, m) /\ base2.outer = u.outer
  BY <1>5, PairNotes
<1>7. PICK run : FK!Runs(run, s, items, base, items, n)
  BY <1>1, FK!FoldRuns
<1>8. PICK run2 : HK!Runs(run2, items, 0, base2, items, n)
  BY <1>1, HK!FoldRuns
<1>. HIDE DEF f, g
<1> DEFINE Keeps(j, t, v) == /\ Moves(s, t) /\ Follows(s, u, t, v, m)
                             /\ t.err = "ok" => /\ Has(t, k, NamesBefore(items, j + 1, outer))
                                                /\ Held(t, items, j + 1)
           S == { j \in 0 .. n : Keeps(j, run[j], run2[j]) }
<1>9. 0 \in S
  <2>1. Moves(s, base)
    BY <1>0, <1>4 DEF Moves, Sane, Forward, Window
  <2>2. NamesBefore(items, 0 + 1, outer) = outer
    <3>1. 1 .. (0 + 1) - 1 = {}
      OBVIOUS
    <3>. QED BY <3>1 DEF NamesBefore
  <2>3. Follows(s, u, base, base2, m)
    BY <1>6, PairFollows
  <2>4. Keeps(0, run[0], run2[0])
    BY <1>1, <1>4, <1>7, <1>8, <2>1, <2>2, <2>3 DEF FK!Runs, HK!Runs, Has, Held
  <2>. QED BY <1>1, <2>4
<1>10. ASSUME NEW j \in 1 .. n, j - 1 \in S
       PROVE  j \in S
  <2> DEFINE t == run[j - 1]
             v == run2[j - 1]
             t2 == run[j]
             v2 == run2[j]
             x == items[j]
             a == R!AtChecksum(s, t, items, x)
             b == C!AtChecksum(v, items, x)
  <2>1. t2 = R!ParseItems(a, items, <<x>>) /\ v2 = C!ParseItems(b, items, <<x>>)
    BY <1>7, <1>8 DEF FK!Runs, HK!Runs, TrackStep, TrackStepC
  <2>2. Keeps(j - 1, t, v) /\ (j - 1) + 1 = j
    BY <1>10
  <2>3. Part(<<x>>, 1, items, n, j) /\ DOMAIN <<x>> = 1 .. 1
    BY <1>1 DEF Part
  <2>. HIDE DEF t, v, t2, v2
  <2>4. /\ Moves(s, t) /\ Sane(t) /\ Follows(s, u, t, v, m)
        /\ t.err = "ok" => Has(t, k, NamesBefore(items, j, outer)) /\ Held(t, items, j)
    BY <2>2 DEF Moves
  <2>5. /\ a.env = t.env /\ a.err = t.err /\ a.cur = t.cur /\ a.data = t.data /\ a.calls = t.calls
        /\ a.views = t.views /\ DOMAIN a = Fields
    BY <2>4 DEF Sane, Fields, R!AtChecksum
  <2>6. DOMAIN v = CFields => DOMAIN b = CFields /\ b.err = v.err
    BY DEF CFields, Fields, C!AtChecksum
  <2>7. ASSUME Pair(t, v, m)
        PROVE  Pair(a, b, m) /\ b.outer = <<>>
    <3>0. v.outer = <<>>
      BY <2>4, <2>7 DEF Pair, Level, Follows
    <3>1. C!IsField(x) /\ x = C!ChecksumField(items) <=> R!IsField(x) /\ x = R!ChecksumField(items)
      BY SameSums
    <3>2. CASE R!IsField(x) /\ x = R!ChecksumField(items)
      <4> DEFINE at == t.cur.pos - s.cur.pos
      <4>1. v.cur.pos - v.cur.lo = at
        <5>1. t.cur.lo = s.cur.lo
          BY <2>4, <2>7 DEF Moves, Forward, Pair, Level
        <5>. QED BY <2>7, <5>1 DEF Pair, Level, CutTo
      <4>2. Notes(t, at, a)
        BY <3>2 DEF R!AtChecksum, Notes
      <4>3. Notes(v, at, b)
        BY <3>1, <3>2, <4>1 DEF C!AtChecksum, Notes
      <4>. HIDE DEF a, b, at
      <4>. QED BY <2>7, <3>0, <4>2, <4>3, PairNotes
    <3>3. CASE ~(R!IsField(x) /\ x = R!ChecksumField(items))
      <4>1. a = t /\ b = v
        BY <3>1, <3>3 DEF R!AtChecksum, C!AtChecksum
      <4>. QED BY <2>7, <3>0, <4>1
    <3>. QED BY <3>2, <3>3
  <2>. HIDE DEF a, b
  <2>8. Moves(t, a) /\ Sane(a)
    BY <2>4, <2>5 DEF Moves, Sane, Forward, Window
  <2>9. a.err = "ok" => Has(a, k, NamesBefore(items, j, outer)) /\ Held(a, items, j)
    BY <2>4, <2>5 DEF Has, Held
  <2>10. Moves(a, t2) /\ (t2.err = "ok" => Has(t2, k, NamesBefore(items, j + 1, outer)))
    BY <2>1, <2>3, <2>8, <2>9, ItemsMove
  <2>10a. t2.err = "ok" => Held(t2, items, j + 1)
    <3>1. t2 = R!ParseItem(Forgets(a), items, x) /\ DOMAIN Forgets(a) = Fields
      BY <2>1, <2>5, OneItem DEF Forgets
    <3>. QED BY <3>1, HeldAfter
  <2>11. Moves(t, t2)
    BY <2>4, <2>8, <2>10, MovesOn
  <2>12. ASSUME Pair(t, v, m)
         PROVE  Follows(t, v, t2, v2, m)
    <3>1. Pair(a, b, m) /\ b.outer = <<>> /\ v.outer = <<>> /\ a.err = "ok"
      BY <2>4, <2>7, <2>12, PairIs DEF Follows, Pair, Level
    <3>2. Follows(a, b, t2, v2, m)
      BY <2>1, <2>3, <2>9, <3>1, ItemsFollow
    <3>. QED BY <2>5, <3>1, <3>2, FromPair
  <2>13. t.err # "ok" => t2.err = t.err
    BY <2>1, <2>3, <2>5, FailedItems
  <2>14. v.err # "ok" /\ DOMAIN v = CFields => v2.err = v.err /\ DOMAIN v2 = CFields
    BY <2>1, <2>3, <2>6, FailedItemsC
  <2>15. Follows(s, u, t2, v2, m)
    BY <1>0, <2>4, <2>11, <2>12, <2>13, <2>14, FollowsOn
  <2>16. Moves(s, t2)
    BY <1>0, <2>4, <2>11, MovesOn
  <2>17. Keeps(j, t2, v2)
    BY <2>10, <2>10a, <2>15, <2>16
  <2>. QED BY <2>17 DEF t2, v2
<1>11. n \in S
  <2>. HIDE DEF S
  <2>1. \A j \in 0 .. n : j \in S
    BY <1>1, <1>9, <1>10, FK!Upwards
  <2>. QED BY <1>1, <2>1
<1>12. run[n] = f /\ run2[n] = g
  BY <1>7, <1>8 DEF FK!Runs, HK!Runs, f, g
<1>. QED BY <1>2, <1>3, <1>11, <1>12

---------------------------------------------------------------------------
(* Declarations                                                            *)

LEMMA MembersAlike ==
  ASSUME NEW s, NEW u, NEW m, Pair(s, u, m), NEW items
  PROVE  C!Members(u, items) = R!Members(s, items)
<1>1. s.err = "ok" /\ u.err = "ok" /\ u.env = s.env
  BY PairIs
<1>2. C!Named(items) = R!Named(items)
  BY DEF C!Named, R!Named, C!Range, R!Range
<1>. QED BY <1>1, <1>2 DEF C!Members, R!Members, C!Restrict, R!Restrict

(* The match of the one and the switch of the other: at most one pattern   *)
(* but the wildcard has the tag.                                           *)
LEMMA ArmsAgree ==
  ASSUME NEW vs, HasDefault(vs), TagsDisjoint(vs), NEW tag \in Int
  PROVE  C!Arms(vs, tag) # {} /\ C!Arm(vs, tag) = R!Arm(vs, tag)
<1> DEFINE S == C!Arms(vs, tag)
           n == Len(vs)
<1>1. DOMAIN vs = 1 .. n /\ n \in Nat
  BY DEF HasDefault
<1>2. S = { i \in DOMAIN vs : R!Matches(vs[i], tag) }
  BY DEF C!Arms, C!Matches, R!Matches
<1>3. S \subseteq Nat /\ S # {}
  BY <1>1, <1>2 DEF HasDefault, R!Matches
<1>4. PICK i \in S : \A j \in S : i <= j
  <2>. HIDE DEF S
  <2>. QED BY <1>3, LeastElement
<1>5. i \in 1 .. n /\ R!Matches(vs[i], tag)
  BY <1>1, <1>2
<1>. HIDE DEF n
<1>6. R!Arm(vs, tag) = i
  <2> DEFINE P(k) == k \in DOMAIN vs /\ R!Matches(vs[k], tag) /\ \A j \in 1 .. k - 1 : ~R!Matches(vs[j], tag)
  <2>1. P(i)
    BY <1>1, <1>2, <1>4, <1>5
  <2>2. ASSUME NEW k, P(k)
        PROVE  k = i
    <3>1. k \in S /\ k \in 1 .. n
      BY <1>1, <1>2, <2>2
    <3>2. i <= k
      BY <1>4, <3>1
    <3>3. ~(i < k)
      BY <1>1, <1>5, <2>2, <3>1
    <3>. QED BY <1>1, <1>5, <3>1, <3>2, <3>3
  <2>3. R!Arm(vs, tag) = CHOOSE k : P(k)
    BY DEF R!Arm
  <2>. HIDE DEF P
  <2>. QED BY <2>1, <2>2, <2>3
<1>7. ASSUME NEW j \in S, j # i
      PROVE  C!Before(vs, i, j) /\ ~C!Before(vs, j, i)
  <2>1. j \in 1 .. n /\ R!Matches(vs[j], tag) /\ i < j
    BY <1>1, <1>2, <1>4, <1>5, <1>7
  <2>2. /\ ~vs[i].wild /\ (vs[j].wild \/ vs[i].hi < vs[j].lo \/ vs[j].hi < vs[i].lo)
        /\ vs[i].lo \in Int /\ vs[i].hi \in Int /\ vs[j].lo \in Int /\ vs[j].hi \in Int
    BY <1>1, <1>5, <2>1 DEF TagsDisjoint
  <2>3. vs[j].wild
    BY <1>5, <2>1, <2>2 DEF R!Matches
  <2>4. C!Rank(vs[j]) = 3 /\ C!Rank(vs[i]) \in {1, 2}
    BY <2>2, <2>3 DEF C!Rank
  <2>. QED BY <2>4 DEF C!Before
<1>8. C!Arm(vs, tag) = i
  <2> DEFINE P(k) == k \in S /\ \A j \in S \ {k} : C!Before(vs, k, j)
  <2>1. P(i)
    BY <1>7
  <2>2. ASSUME NEW k, P(k)
        PROVE  k = i
    <3>1. k # i => C!Before(vs, k, i)
      BY <2>2
    <3>. QED BY <1>7, <2>2, <3>1
  <2>3. C!Arm(vs, tag) = CHOOSE k : P(k)
    BY DEF C!Arm
  <2>. HIDE DEF P
  <2>. QED BY <2>1, <2>2, <2>3
<1>. QED BY <1>3, <1>6, <1>8

(* What the Rust code of a packet reads, before it verifies a checksum.    *)
Unverified(s, d) ==
  IF C!Recomputes(d.items) THEN R!ParseTracked(s, d.items) ELSE R!ParseItems(s, d.items, d.items)

LEMMA PacketFollows ==
  ASSUME NEW d, d.kind = "packet", WellTyped(d), MeansTheSame(d),
         NEW s, NEW u, NEW m, Pair(s, u, m), u.outer = <<>>, s.cur.lo = s.cur.pos \/ ~C!Recomputes(d.items),
         \A k : Has(s, k, {})
  PROVE  Follows(s, u, Unverified(s, d), C!ParsePacket(u, d), m)
<1> DEFINE k == Kinds(d.items, {})
           n == Len(d.items)
<1>1. ScopeTyped(d.items, k, {}) /\ ScopePortable(d.items)
  BY DEF WellTyped, MeansTheSame
<1>2. Scope(d.items, n, k, {})
  BY <1>1, KindsAreKept, ScopeIs
<1>. HIDE DEF k, n
<1>3. Has(s, k, {})
  OBVIOUS
<1>4. CASE C!Recomputes(d.items)
  BY <1>1, <1>2, <1>3, <1>4, TrackedFollows DEF Unverified, C!ParsePacket
<1>5. CASE ~C!Recomputes(d.items)
  BY <1>1, <1>2, <1>3, <1>5, ScopeFollows DEF Unverified, C!ParsePacket
<1>. QED BY <1>4, <1>5

LEMMA VariantFollows ==
  ASSUME NEW t, NEW v, NEW m, Pair(t, v, m), t.v \in Nat, v.outer = <<>>,
         NEW d, NEW items, FrameTyped(d, items), ScopePortable(items), NEW arm
  PROVE  Follows(t, v, R!ParseVariant(t, d, arm, items), C!ParseVariant(v, d, arm, items), m)
<1> DEFINE k == Kinds(items, {d.tagname})
           n == Len(items)
           e == R!Assign(<<>>, d.tagname, t.v)
           u == [t EXCEPT !.env = e]
           w == [v EXCEPT !.env = e]
           r == R!ParseItems(u, items, items)
           q == C!ParseItems(w, items, items)
           x == [tag |-> t.v, arm |-> arm, env |-> R!Members(r, items)]
           y == [tag |-> v.v, arm |-> arm, env |-> C!Members(q, items)]
           r2 == R!Yield(r, x)
           q2 == C!Yield(q, y)
<1>1. Scope(items, n, k, {d.tagname})
  <2>1. ScopeTyped(items, k, {d.tagname})
    BY DEF FrameTyped
  <2>2. KindsKept(items, k)
    BY KindsAreKept
  <2>. QED BY <2>1, <2>2, ScopeIs
<1>2. d.tagname \notin k.opts
  BY DEF Kinds
<1>. HIDE DEF k, n
<1>3. v.v = t.v /\ Sane(t) /\ t.err = "ok" /\ m \in Nat /\ m <= Len(t.data) /\ DOMAIN v = CFields
  BY PairIs DEF Pair, Level
<1>4. R!ParseVariant(t, d, arm, items) = r2
  BY DEF R!ParseVariant, R!FrameOf
<1>5. C!ParseVariant(v, d, arm, items) = q2
  BY <1>3, SameExpressions DEF C!ParseVariant, C!FrameOf
<1>6. /\ u.env = e /\ u.err = t.err /\ u.cur = t.cur /\ u.data = t.data
      /\ u.calls = t.calls /\ u.views = t.views /\ DOMAIN u = Fields
  BY <1>3 DEF Sane, Fields
<1>7. Sets(t, e, u) /\ Sets(v, e, w)
  BY DEF Sets
<1>. HIDE DEF u, w
<1>8. Moves(t, u) /\ Sane(u)
  BY <1>3, <1>6 DEF Moves, Sane, Forward, Window
<1>9. Has(u, k, {d.tagname})
  <2>1. DOMAIN e = {d.tagname} /\ e[d.tagname] = t.v
    BY DEF R!Assign
  <2>. HIDE DEF e
  <2>2. Knows(e, k, {d.tagname})
    BY <1>2, <2>1 DEF Knows, EnvTyped
  <2>. QED BY <1>6, <2>2 DEF Has
<1>. HIDE DEF e
<1>10. Pair(u, w, m) /\ w.outer = <<>>
  BY <1>7, PairSets
<1>11. Follows(u, w, r, q, m)
  BY <1>1, <1>9, <1>10, ScopeFollows
<1>12. Moves(u, r)
  BY <1>1, <1>8, <1>9, ScopeMoves
<1>. HIDE DEF r, q
<1>13. ASSUME Pair(r, q, m)
       PROVE  Pair(r2, q2, m) /\ q2.outer = q.outer
  <2>1. x = y
    BY <1>3, <1>13, MembersAlike
  <2>. HIDE DEF x, y
  <2>. QED BY <1>13, <2>1, PairYields
<1>. HIDE DEF x, y
<1>14. r2.err = r.err /\ r2.cur = r.cur
  BY <1>12 DEF Moves, Sane, Fields, R!Yield
<1>15. q.err # "ok" /\ DOMAIN q = CFields => q2.err = q.err /\ DOMAIN q2 = CFields
  BY DEF C!Yield, CFields, Fields
<1>. HIDE DEF r2, q2
<1>16. Follows(u, w, r2, q2, m)
  BY <1>3, <1>6, <1>11, <1>12, <1>13, <1>14, <1>15, FollowsHere
<1>17. Follows(t, v, r2, q2, m)
  BY <1>6, <1>10, <1>16, FromPair
<1>. QED BY <1>4, <1>5, <1>17

LEMMA FrameFollows ==
  ASSUME NEW d, d.kind = "frame", WellTyped(d), MeansTheSame(d),
         NEW s, NEW u, NEW m, Pair(s, u, m), u.outer = <<>>
  PROVE  Follows(s, u, R!ParseFrame(s, d), C!ParseFrame(u, d), m)
<1> DEFINE e == R!Endianness(d.tag, d.order)
           t == R!ReadValue(s, d.tag, e)
           v == C!ReadValue(u, d.tag, e)
           arm == R!Arm(d.variants, t.v)
           r == R!ParseFrame(s, d)
           q == C!ParseFrame(u, d)
<1>1. /\ HasDefault(d.variants) /\ IntegerLike(d.tag) /\ Readable(d.tag)
      /\ \A i \in DOMAIN d.variants : FrameTyped(d, d.variants[i].items)
  BY DEF WellTyped
<1>2. /\ TagsDisjoint(d.variants) /\ TypePortable(d.tag)
      /\ \A i \in DOMAIN d.variants : ScopePortable(d.variants[i].items)
  BY DEF MeansTheSame
<1>3. Sane(s) /\ s.err = "ok" /\ m \in Nat /\ m <= Len(s.data)
  BY PairIs
<1>4. Reads(s, t) /\ (t.err = "ok" => t.v \in Nat)
  BY <1>1, <1>3, ValueReads
<1>5. Follows(s, u, t, v, m)
  BY <1>1, <1>2, ValueFollows DEF Shared
<1>6. r = IF t.err # "ok" THEN t ELSE R!ParseVariant(t, d, arm, d.variants[arm].items)
  BY DEF R!ParseFrame, R!ParseTagged, R!ParseArm
<1>7. q = IF v.err # "ok" THEN v
          ELSE IF C!Arms(d.variants, v.v) = {} THEN C!Fail(v, "InvalidTag")
          ELSE LET a == C!Arm(d.variants, v.v) IN C!ParseVariant(v, d, a, d.variants[a].items)
  <2>1. C!Endianness(d.tag, d.order) = e
    BY DEF C!Endianness, R!Endianness
  <2>. QED BY <2>1 DEF C!ParseFrame, C!ParseTagged, C!ParseArm
<1>. HIDE DEF t, v, r, q
<1>8. Sane(t) /\ Moves(s, t)
  BY <1>4 DEF Reads, Moves
<1>9. CASE t.err # "ok"
  <2>1. r = t
    BY <1>6, <1>9
  <2>2. m = Len(s.data) => q.err = r.err /\ DOMAIN q = CFields
    BY <1>5, <1>7, <1>9, <2>1 DEF Follows
  <2>. HIDE DEF r, q
  <2>3. Follows(s, u, r, q, m)
    BY <1>9, <2>1, <2>2, FailsAlike
  <2>. QED BY <2>3 DEF r, q
<1>10. CASE t.err = "ok"
  <2>1. arm \in DOMAIN d.variants
    BY <1>1, ArmIs
  <2>2. C!Arms(d.variants, t.v) # {} /\ C!Arm(d.variants, t.v) = arm
    BY <1>1, <1>2, <1>4, <1>10, ArmsAgree
  <2>. HIDE DEF arm
  <2>3. FrameTyped(d, d.variants[arm].items) /\ ScopePortable(d.variants[arm].items)
    BY <1>1, <1>2, <2>1
  <2>4. r = R!ParseVariant(t, d, arm, d.variants[arm].items)
    BY <1>6, <1>10
  <2>5. Moves(t, r)
    BY <1>4, <1>8, <1>10, <2>3, <2>4, VariantMoves
  <2>6. ASSUME Pair(t, v, m)
        PROVE  Follows(t, v, r, q, m)
    <3>1. v.err = "ok" /\ v.v = t.v
      BY <2>6 DEF Pair, Level
    <3>2. v.outer = <<>>
      <4>1. t.cur.pos <= m
        BY <2>6 DEF Pair, Level
      <4>. QED BY <1>5, <1>10, <4>1 DEF Follows
    <3>3. q = C!ParseVariant(v, d, arm, d.variants[arm].items)
      BY <1>7, <2>2, <3>1
    <3>. QED BY <1>4, <1>10, <2>3, <2>4, <2>6, <3>2, <3>3, VariantFollows
  <2>7. v.err # "ok" /\ DOMAIN v = CFields => q.err = v.err /\ DOMAIN q = CFields
    BY <1>7
  <2>8. Follows(s, u, r, q, m)
    BY <1>3, <1>5, <1>8, <1>10, <2>5, <2>6, <2>7, FollowsOn
  <2>. QED BY <2>8 DEF r, q
<1>. QED BY <1>9, <1>10

---------------------------------------------------------------------------
(* Payloads                                                                *)

LEMMA ItemKeepsGroups ==
  ASSUME NEW s, Sane(s), s.err = "ok", NEW k, NEW items, NEW n, NEW outer, Scope(items, n, k, outer),
         NEW i \in 1 .. n, Between(s, items, i, k, outer),
         IsField(items[i]) => items[i].strategy # "BitGroup",
         NEW q, q = R!ParseItem(s, items, items[i])
  PROVE  q.groups = s.groups
<1> DEFINE x == items[i]
           names == NamesBefore(items, i, outer)
<1>1. /\ n \in Nat /\ DOMAIN items = 1 .. n /\ KindsKept(items, k) /\ ItemTyped(x, k)
      /\ ItemRefs(x) \subseteq names /\ Knows(s.env, k, names) /\ EnvTyped(s.env, k)
  BY DEF Scope, ScopeTyped, Between, Has, Knows
<1>2. ASSUME NEW r, Reads(s, r), NEW name
      PROVE  R!Bind(r, name).groups = s.groups
  BY <1>2 DEF Reads, Moves, Sane, R!Bind, Fields
<1>3. CASE x.it = "field"
  <2>1. FieldTyped(x, k) /\ x.strategy # "BitGroup"
    BY <1>1, <1>3 DEF ItemTyped, IsField
  <2>2. Assigned(Sizes(x.ty), s.env)
    <3>1. ItemRefs(x) \subseteq DOMAIN s.env
      BY <1>1 DEF Knows
    <3>. QED BY <1>3, <3>1, SizesAssigned
  <2>3. PICK r : R!ParseField(s, items, x) = R!Bind(r, x.name) /\ Reads(s, r)
    BY <1>1, <1>3, <2>1, <2>2, FieldRead
  <2>4. q = R!Bind(r, x.name)
    BY <1>3, <2>3 DEF R!ParseItem
  <2>. QED BY <1>2, <2>3, <2>4
<1>4. CASE x.it = "let"
  <2> DEFINE r == R!Yield(s, R!Eval(x.e, s.env))
  <2>1. q = R!Bind(r, x.name)
    BY <1>4 DEF R!ParseItem
  <2>2. Reads(s, r)
    BY Yields
  <2>. HIDE DEF r
  <2>. QED BY <1>2, <2>1, <2>2
<1>5. CASE x.it = "require"
  <2>1. q \in {s, R!Fail(s, "Constraint")}
    BY <1>5 DEF R!ParseItem
  <2>. QED BY <2>1 DEF R!Fail, Sane, Fields
<1>. QED BY <1>1, <1>3, <1>4, <1>5 DEF ItemTyped

(* bytes[remaining] leaves nothing of its window.                          *)
LEMMA RemainingUsesUp ==
  ASSUME NEW s, Sane(s), s.err = "ok", NEW k, NEW items, NEW n, NEW outer, Scope(items, n, k, outer),
         NEW i \in 1 .. n, IsField(items[i]), items[i].strategy = "remaining",
         NEW q, q = R!ParseItem(s, items, items[i])
  PROVE  q.cur.pos = q.cur.hi
<1> DEFINE x == items[i]
           l == R!Remaining(s.cur)
           r == R!ReadBytes(s, l)
<1>1. ItemTyped(x, k) /\ x.it = "field"
  BY DEF Scope, ScopeTyped, IsField
<1>2. x.ty.kind = "remaining"
  BY <1>1 DEF ItemTyped, FieldTyped
<1>3. q = R!Bind(r, x.name)
  BY <1>1, <1>2 DEF R!ParseItem, R!ParseField, R!ReadBytesField, R!ReadRemaining
<1>4. l \in Nat /\ R!Fits(s.cur, l) /\ s.cur.pos + l = s.cur.hi
  BY DEF Sane, Window, R!Remaining, R!Fits
<1>. HIDE DEF l
<1>5. r.cur = R!Advance(s.cur, l) /\ DOMAIN r = Fields
  BY <1>4 DEF R!ReadBytes, Sane, Fields
<1>. HIDE DEF r
<1>6. q.cur = r.cur
  BY <1>3, <1>5 DEF R!Bind, Fields
<1>7. r.cur.pos = s.cur.pos + l /\ r.cur.hi = s.cur.hi
  BY <1>5 DEF R!Advance, Sane, Window
<1>. QED BY <1>4, <1>6, <1>7

(* The items of a payload, from inner cursors on: C forgets the bit groups *)
(* before each of them, and there are none.                                *)
LEMMA InnerItemsFollow ==
  ASSUME NEW s, NEW u, NEW m, Pair(s, u, m), NEW k, NEW items, NEW n, NEW outer,
         Scope(items, n, k, outer), Has(s, k, outer), PayloadPortable(items), n = Len(items)
  PROVE  /\ Follows(s, u, R!ParseItems(s, items, items), C!ReadPayload(u, items), m)
         /\ R!ParseItems(s, items, items).err = "ok" =>
              R!ParseItems(s, items, items).cur.pos = R!ParseItems(s, items, items).cur.hi
<1> DEFINE base == Forgets(s)
           base2 == Forgets(u)
           f == FI!Fold(items, 0, base, items)
           g == HP!Fold(items, 0, u, items)
<1>0. /\ Sane(s) /\ s.err = "ok" /\ m \in Nat /\ m <= Len(s.data) /\ DOMAIN s = Fields
      /\ n \in Nat /\ DOMAIN items = 1 .. n /\ DOMAIN u = CFields
  BY PairIs DEF Scope
<1>01. /\ n \in DOMAIN items /\ IsField(items[n]) /\ items[n].strategy = "remaining"
       /\ \A i \in 1 .. n : IsField(items[i]) => FieldPortable(items, i) /\ Inner(items[i])
  BY <1>0 DEF PayloadPortable, ScopePortable, Inner
<1>1. R!ParseItems(s, items, items) = f
  BY DEF R!ParseItems, FI!Fold, R!FoldLeft, FI!FoldLeft, ItemStep, R!MapThenFoldSet,
     FI!MapThenFoldSet, R!Max, FI!Max, Forgets
<1>2. C!ReadPayload(u, items) = g
  BY DEF C!ReadPayload, HP!Fold, C!FoldLeft, HP!FoldLeft, PayloadStepC, C!MapThenFoldSet,
     HP!MapThenFoldSet, C!Max, HP!Max
<1>3. /\ base.env = s.env /\ base.err = s.err /\ base.cur = s.cur /\ base.data = s.data /\ base.calls = s.calls
      /\ base.groups = {} /\ base.at = s.at /\ base.views = s.views /\ DOMAIN base = Fields
  BY <1>0 DEF Fields, Forgets
<1>4. Pair(base, base2, m) /\ base2.outer = u.outer
  BY PairForgets
<1>5. Forgets(base2) = Forgets(u)
  BY <1>0 DEF Forgets
<1>. HIDE DEF base, base2
<1>6. PICK run : FI!Runs(run, items, 0, base, items, n)
  BY <1>0, FI!FoldRuns
<1>7. PICK run2 : HP!Runs(run2, items, 0, u, items, n)
  BY <1>0, HP!FoldRuns
<1>. HIDE DEF f, g
<1> DEFINE C2(j) == IF j = 0 THEN base2 ELSE run2[j]
           Keeps(j, t, v) == /\ Moves(s, t) /\ Follows(s, u, t, v, m)
                             /\ t.err = "ok" => /\ Between(t, items, j + 1, k, outer) /\ t.groups = {}
                                                /\ Held(t, items, j + 1)
                                                /\ j = n => t.cur.pos = t.cur.hi
           S == { j \in 0 .. n : Keeps(j, run[j], C2(j)) }
<1>8. 0 \in S
  <2>1. Moves(s, base)
    BY <1>0, <1>3 DEF Moves, Sane, Forward, Window
  <2>2. base.err = "ok" => Between(base, items, 0 + 1, k, outer) /\ Held(base, items, 0 + 1)
    <3>1. 1 .. (0 + 1) - 1 = {}
      OBVIOUS
    <3>2. NamesBefore(items, 0 + 1, outer) = outer
      BY <3>1 DEF NamesBefore
    <3>. QED BY <1>0, <1>3, <3>2 DEF Between, Has, GroupsKnown, Held
  <2>3. Follows(s, u, base, base2, m)
    BY <1>4, PairFollows
  <2>4. Keeps(0, run[0], C2(0))
    BY <1>0, <1>01, <1>3, <1>6, <2>1, <2>2, <2>3 DEF FI!Runs
  <2>. QED BY <1>0, <2>4
<1>9. ASSUME NEW j \in 1 .. n, j - 1 \in S
      PROVE  j \in S
  <2> DEFINE t == run[j - 1]
             v == C2(j - 1)
             t2 == run[j]
             v2 == C2(j)
             x == items[j]
  <2>1. t2 = R!ParseItem(t, items, x)
    BY <1>6 DEF FI!Runs, ItemStep
  <2>2. v2 = C!ParseItem(Forgets(v), items, x)
    <3>1. v2 = run2[j] /\ run2[j] = C!ParseItem(Forgets(run2[j - 1]), items, x)
      BY <1>7 DEF HP!Runs, PayloadStepC, Forgets
    <3>2. CASE j = 1
      <4>1. run2[j - 1] = u /\ v = base2
        BY <1>7, <3>2 DEF HP!Runs
      <4>. QED BY <1>5, <3>1, <4>1
    <3>3. CASE j # 1
      <4>1. v = run2[j - 1]
        BY <3>3
      <4>. QED BY <3>1, <4>1
    <3>. QED BY <3>2, <3>3
  <2>3. Keeps(j - 1, t, v) /\ (j - 1) + 1 = j /\ j - 1 # n /\ j \in Nat
    BY <1>0, <1>9
  <2>. HIDE DEF t, v, t2, v2
  <2>4. /\ Moves(s, t) /\ Sane(t) /\ Follows(s, u, t, v, m)
        /\ t.err = "ok" => Between(t, items, j, k, outer) /\ t.groups = {} /\ Held(t, items, j)
    BY <2>3 DEF Moves
  <2>5. Moves(t, t2) /\ (t2.err = "ok" => Between(t2, items, j + 1, k, outer))
    BY <2>1, <2>4, ItemMoves
  <2>5a. t2.err = "ok" => Held(t2, items, j + 1)
    BY <2>1, <2>4, HeldAfter DEF Sane
  <2>6. IsField(x) => FieldPortable(items, j) /\ Inner(x) /\ x.strategy # "BitGroup"
    BY <1>01 DEF Inner
  <2>7. t.err # "ok" => t2 = t
    BY <2>1 DEF R!ParseItem
  <2>8. t2.err = "ok" => t2.groups = {}
    <3>1. CASE t.err = "ok"
      BY <2>1, <2>4, <2>6, <3>1, ItemKeepsGroups
    <3>. QED BY <2>7, <3>1
  <2>9. t2.err = "ok" /\ j = n => t2.cur.pos = t2.cur.hi
    <3>1. CASE t.err = "ok" /\ j = n
      BY <1>01, <2>1, <2>4, <3>1, RemainingUsesUp
    <3>. QED BY <2>7, <3>1
  <2>10. ASSUME Pair(t, v, m)
         PROVE  Follows(t, v, t2, v2, m)
    <3>1. t.err = "ok" /\ DOMAIN t = Fields
      BY <2>10, PairIs
    <3> DEFINE b == Forgets(t)
               c == Forgets(v)
    <3>2. /\ b.v = t.v /\ b.data = t.data /\ b.calls = t.calls /\ b.cur = t.cur /\ b.env = t.env
          /\ b.groups = t.groups /\ b.err = t.err /\ b.views = t.views /\ b.at = t.at
      BY <2>4, <3>1 DEF Forgets, Fields
    <3>3. Pair(t, c, m) /\ c.outer = v.outer
      <4>1. Pair(b, c, m) /\ c.outer = v.outer
        BY <2>10, PairForgets
      <4>. HIDE DEF b, c
      <4>. QED BY <2>4, <3>1, <3>2, <4>1 DEF Pair, Context, Level
    <3>4. Follows(t, Forgets(v), t2, v2, m)
      BY <2>1, <2>2, <2>4, <2>6, <3>1, <3>3, ItemFollows
    <3>. QED BY <3>3, <3>4, FromPair
  <2>11. v.err # "ok" /\ DOMAIN v = CFields => v2.err = v.err /\ DOMAIN v2 = CFields
    BY <2>2 DEF C!ParseItem, Forgets, CFields, Fields
  <2>12. Follows(s, u, t2, v2, m)
    BY <1>0, <2>4, <2>5, <2>7, <2>10, <2>11, FollowsOn
  <2>13. Moves(s, t2)
    BY <1>0, <2>4, <2>5, MovesOn
  <2>14. Keeps(j, t2, v2)
    BY <2>5, <2>5a, <2>8, <2>9, <2>12, <2>13
  <2>. QED BY <2>14 DEF t2, v2
<1>10. n \in S
  <2>. HIDE DEF S
  <2>1. \A j \in 0 .. n : j \in S
    BY <1>0, <1>8, <1>9, FI!Upwards
  <2>. QED BY <1>0, <2>1
<1>11. run[n] = f /\ C2(n) = g
  BY <1>0, <1>01, <1>6, <1>7 DEF FI!Runs, HP!Runs, f, g
<1>. QED BY <1>1, <1>2, <1>10, <1>11

(* The payload of a capsule and what is made of it. C looks whether it     *)
(* fits before anything else; Rust finds out when it makes the cursor.     *)
LEMMA PayloadFollows ==
  ASSUME NEW h, NEW u, NEW m, Pair(h, u, m), u.outer = <<>>,
         NEW k, NEW items, NEW l, NEW outer, Scope(items, l, k, outer), l = Len(items), Has(h, k, outer),
         PayloadPortable(items), NEW n \in Nat, NEW header, NEW arm,
         NEW r, r = R!CapsuleOf(h, R!ReadPayload(h, items, n), header, arm, items),
         NEW v, v = [u EXCEPT !.cur = C!SubCursor(@, n), !.outer = <<C!Advance(u.cur, n)>>],
         NEW q, q = (IF ~C!Fits(u.cur, n) THEN C!Fail(u, "ShortBuffer")
                     ELSE C!CapsuleOf(u, C!UsedUp(C!ReadPayload(v, items)), n, header, arm, items))
  PROVE  Follows(h, u, r, q, m)
<1> DEFINE w == R!Within(h, n)
           r0 == R!ParseItems(w, items, items)
           b == R!Behind(h, n, r0)
           p == C!ReadPayload(v, items)
           p1 == C!UsedUp(p)
           x == [env |-> R!Members(h, header), arm |-> arm, payload |-> R!Members(b, items)]
           y == [env |-> C!Members(u, header), arm |-> arm, payload |-> C!Members(p1, items)]
           q0 == [p1 EXCEPT !.cur = C!Advance(u.cur, n), !.outer = <<>>]
<1>0. /\ Sane(h) /\ h.err = "ok" /\ Window(h.cur, h.data) /\ CutTo(h.cur, u.cur, m)
      /\ m \in Nat /\ m <= Len(h.data) /\ DOMAIN u = CFields /\ DOMAIN h = Fields /\ u.err = "ok"
      /\ h.cur.pos <= m
  BY PairIs
<1>1. Sane(w) /\ w.env = h.env /\ w.data = h.data
  BY <1>0, WithinIs
<1>2. Moves(w, r0)
  <2>1. Has(w, k, outer)
    BY <1>1 DEF Has
  <2>. HIDE DEF w
  <2>. QED BY <1>1, <2>1, ScopeMoves
<1>3. r = R!Yield(b, x)
  BY DEF R!CapsuleOf, R!ReadPayload
<1>4. /\ Moves(h, b) /\ b.err = r0.err /\ b.env = r0.env
      /\ b.err = "ok" => b.cur.pos = h.cur.pos + n /\ r0.cur.pos <= h.cur.pos + n /\ h.cur.pos + n <= h.cur.hi
  <2>1. r0.err = "ok" => w.err = "ok" /\ r0.cur.hi = w.cur.hi
    BY <1>2 DEF Moves, Forward
  <2>2. w.err = "ok" => h.cur.pos + n <= h.cur.hi
    BY <1>0, WithinIs
  <2>3. \E b2 : b2 = b
    OBVIOUS
  <2>. HIDE DEF b, r0
  <2>4. b = R!Behind(h, n, r0)
    BY DEF b
  <2>. QED BY <1>0, <1>2, <2>1, <2>2, <2>4, BehindMoves
<1>5. w.data = h.data /\ (~R!Fits(h.cur, n) => w.err = "ShortBuffer") /\ DOMAIN w = Fields
  BY <1>0, <1>1 DEF R!Within, R!Fail, Fields, Sane
<1>6. ~R!Fits(h.cur, n) => r0.err = "ShortBuffer"
  <2>1. l \in Nat /\ DOMAIN items = 1 .. l
    BY DEF Scope
  <2>. HIDE DEF w
  <2>. QED BY <1>5, <2>1, FailedItems
<1>. HIDE DEF x, y
<1>7. Moves(h, r) /\ r.err = b.err /\ r.cur = b.cur
  <2>. HIDE DEF b
  <2>1. Sane(b) /\ Moves(h, b)
    BY <1>4 DEF Moves
  <2>2. r.err = b.err /\ r.cur = b.cur
    BY <1>3, <2>1 DEF R!Yield, Sane, Fields
  <2>3. Moves(b, r)
    BY <1>3, <2>1, Yields DEF Reads
  <2>. QED BY <1>0, <2>1, <2>2, <2>3, MovesOn
<1>. HIDE DEF b, r0
<1>8. CASE ~R!Fits(h.cur, n)
  <2>1. ~C!Fits(u.cur, n)
    BY <1>0, <1>8, FitsNeither, SameRuntime
  <2>2. q.err = "ShortBuffer" /\ DOMAIN q = CFields
    BY <1>0, <2>1 DEF C!Fail, CFields, Fields
  <2>. QED BY <1>4, <1>6, <1>7, <1>8, <2>2, FailsAlike
<1>9. CASE R!Fits(h.cur, n) /\ h.cur.pos + n > m
  <2>1. m # Len(h.data)
    BY <1>0, <1>9 DEF Window, R!Fits
  <2>2. CASE r.err = "ok"
    BY <1>0, <1>4, <1>7, <1>9, <2>2, Beyond
  <2>3. CASE r.err # "ok"
    BY <2>1, <2>3, FailsAlike
  <2>. QED BY <2>2, <2>3
<1>10. CASE R!Fits(h.cur, n) /\ ~(h.cur.pos + n > m)
  <2>0. h.cur.pos + n <= m
    BY <1>0, <1>10 DEF Window
  <2>1. C!Fits(u.cur, n)
    BY <1>0, <1>10, <2>0, Advanced, SameRuntime
  <2>2. q = C!Yield(q0, y)
    BY <2>1 DEF C!CapsuleOf, y
  <2>3. Likewise(u, v) /\ v.v = u.v /\ v.cur = C!SubCursor(u.cur, n)
    BY <1>0 DEF Likewise, CFields, Fields
  <2>4. Pair(w, v, m)
    BY <1>10, <2>0, <2>3, SubPair
  <2>5. /\ Follows(w, v, r0, p, m)
        /\ r0.err = "ok" => r0.cur.pos = r0.cur.hi
    <3>1. Has(w, k, outer)
      BY <1>1 DEF Has
    <3>. HIDE DEF w
    <3>. QED BY <2>4, <3>1, InnerItemsFollow DEF r0
  <2>. HIDE DEF p, w
  <2>6. ASSUME r.err = "ok"
        PROVE  Pair(r0, p, m)
    <3>1. r0.err = "ok" /\ r0.cur.pos <= h.cur.pos + n
      BY <1>4, <1>7, <2>6
    <3>2. r0.cur.pos \in Nat /\ h.cur.pos + n \in Nat
      BY <1>0, <1>2, <3>1 DEF Moves, Sane, Window
    <3>3. r0.cur.pos <= m
      BY <1>0, <2>0, <3>1, <3>2
    <3>. QED BY <2>5, <3>1, <3>3 DEF Follows
  <2>7. ASSUME r.err = "ok"
        PROVE  p1 = p
    <3>1. r0.err = "ok" /\ r0.cur.pos = r0.cur.hi
      BY <1>4, <1>7, <2>5, <2>7
    <3>2. CutTo(r0.cur, p.cur, m) /\ Window(r0.cur, r0.data) /\ r0.cur.pos <= m
      BY <2>6, <2>7, PairIs
    <3>3. p.cur.hi = p.cur.pos /\ p.cur.pos \in Nat
      BY <3>1, <3>2 DEF CutTo, Window
    <3>4. C!Remaining(p.cur) = 0
      BY <3>3 DEF C!Remaining
    <3>. QED BY <3>4 DEF C!UsedUp
  <2>8. DOMAIN p1 = CFields => /\ Likewise(p1, q0) /\ q0.v = p1.v /\ q0.cur = C!Advance(u.cur, n)
                               /\ q0.outer = <<>>
    <3>. HIDE DEF p1
    <3>. QED BY DEF Likewise, CFields, Fields
  <2>. HIDE DEF q0
  <2>9. ASSUME r.err = "ok"
        PROVE  Pair(r, q, m) /\ q.outer = u.outer
    <3>1. Pair(r0, p1, m) /\ p1 = p
      BY <2>6, <2>7, <2>9
    <3>2. DOMAIN p1 = CFields
      BY <3>1, PairIs
    <3>3. Pair(b, q0, m)
      <4>1. b = R!Behind(h, n, r0) /\ Moves(R!Within(h, n), r0)
        BY <1>2 DEF b, w
      <4>. HIDE DEF p1
      <4>. QED BY <2>0, <2>8, <3>1, <3>2, <4>1, BehindPair
    <3>4. x = y
      <4>1. C!Members(u, header) = R!Members(h, header)
        BY MembersAlike
      <4>2. C!Members(p1, items) = R!Members(r0, items)
        BY <3>1, MembersAlike
      <4>3. R!Members(r0, items) = R!Members(b, items)
        BY <1>4 DEF R!Members
      <4>. QED BY <4>1, <4>2, <4>3 DEF x, y
    <3>. QED BY <1>3, <2>2, <2>8, <3>2, <3>3, <3>4, PairYields
  <2>10. ASSUME m = Len(h.data)
         PROVE  q.err = r.err /\ DOMAIN q = CFields
    <3>1. p.err = r0.err /\ DOMAIN p = CFields
      BY <1>1, <2>5, <2>10 DEF Follows
    <3>2. p1 = p
      <4>1. r.err # "ok" => p1 = p
        BY <1>4, <1>7, <3>1 DEF C!UsedUp
      <4>. QED BY <2>7, <4>1
    <3>3. DOMAIN q0 = CFields /\ q0.err = r0.err
      BY <2>8, <3>1, <3>2 DEF Likewise
    <3>. QED BY <1>4, <1>7, <2>2, <3>3 DEF C!Yield, CFields, Fields
  <2>. QED BY <2>9, <2>10 DEF Follows
<1>. QED BY <1>8, <1>9, <1>10

(* A capsule: the header, and the payload that the tag selects.            *)
LEMMA CapsuleFollows ==
  ASSUME NEW d, d.kind = "capsule", WellTyped(d), MeansTheSame(d),
         NEW s, NEW u, NEW m, Pair(s, u, m), u.outer = <<>>, \A k : Has(s, k, {})
  PROVE  Follows(s, u, R!ParseCapsule(s, d), C!ParseCapsule(u, d), m)
<1> DEFINE h == R!ParseItems(s, d.items, d.items)
           g == C!ParseItems(u, d.items, d.items)
           l == Len(d.items)
           tag == R!Eval(d.tag, h.env)
           arm == R!Arm(d.variants, tag)
           items == d.variants[arm].items
           k == Kinds(d.items \o items, {})
           n == h.env[d.within]
           r == R!ParseCapsule(s, d)
           q == C!ParseCapsule(u, d)
<1>1. arm \in DOMAIN d.variants
  <2>1. HasDefault(d.variants)
    BY DEF WellTyped
  <2>. HIDE DEF tag
  <2>. QED BY <2>1, ArmIs
<1>2. /\ HasDefault(d.variants) /\ TagsDisjoint(d.variants) /\ ScopePortable(d.items)
      /\ CapsuleTyped(d, items, k) /\ PayloadPortable(items)
  <2>1. \A i \in DOMAIN d.variants :
          CapsuleTyped(d, d.variants[i].items, Kinds(d.items \o d.variants[i].items, {}))
    BY DEF WellTyped
  <2>2. \A i \in DOMAIN d.variants : PayloadPortable(d.variants[i].items)
    BY DEF MeansTheSame
  <2>3. HasDefault(d.variants) /\ TagsDisjoint(d.variants) /\ ScopePortable(d.items)
    BY DEF WellTyped, MeansTheSame
  <2>. HIDE DEF arm
  <2>. QED BY <1>1, <2>1, <2>2, <2>3
<1>3. r = IF h.err # "ok" THEN h ELSE R!ParsePayload(h, d, arm, items)
  BY DEF R!ParseCapsule, R!AfterHeader, R!ParseHeaded
<1>4. R!ParsePayload(h, d, arm, items) = R!CapsuleOf(h, R!ReadPayload(h, items, n), d.items, arm, items)
  BY DEF R!ParsePayload
<1>5. q = IF g.err # "ok" THEN g ELSE C!AfterHeader(g, d, C!Promoted(d.tag, g.env), g.env[d.within])
  BY DEF C!ParseCapsule, C!ParseHeader
<1>. HIDE DEF arm, items
<1>6. Scope(d.items, l, k, {}) /\ Scope(items, Len(items), k, HeaderNames(d))
  BY <1>2, CapsuleScopes
<1>7. /\ IsInteger(d.tag, k) /\ ExprRefs(d.tag) \subseteq HeaderNames(d)
      /\ d.within \in k.ints /\ d.within \in HeaderNames(d) /\ Ordered({d.tag}, h.env)
  <2>1. d.tag.op = "sub" => d.tag.w >= IntBits
    BY DEF MeansTheSame
  <2>2. IsInteger(d.tag, k) /\ (d.tag.op = "sub" => d.tag.w \in Nat)
    BY <1>2 DEF CapsuleTyped, IsInteger
  <2>3. Ordered({d.tag}, h.env)
    BY <2>1, <2>2, IntBitsAssumption DEF Ordered
  <2>. QED BY <1>2, <2>2, <2>3 DEF CapsuleTyped
<1>. HIDE DEF k
<1>8. Sane(s) /\ s.err = "ok" /\ m \in Nat /\ m <= Len(s.data) /\ Has(s, k, {})
  BY PairIs
<1>9. Moves(s, h) /\ (h.err = "ok" => Has(h, k, HeaderNames(d)))
  BY <1>6, <1>8, ScopeMoves DEF HeaderNames
<1>10. Follows(s, u, h, g, m)
  BY <1>2, <1>6, <1>8, ScopeFollows
<1>. HIDE DEF h, g, r, q, l
<1>11. CASE h.err # "ok"
  <2>1. r = h
    BY <1>3, <1>11
  <2>2. m = Len(s.data) => q.err = r.err /\ DOMAIN q = CFields
    BY <1>5, <1>10, <1>11, <2>1 DEF Follows
  <2>3. Follows(s, u, r, q, m)
    BY <1>11, <2>1, <2>2, FailsAlike
  <2>. QED BY <2>3 DEF r, q
<1>12. CASE h.err = "ok"
  <2>1. Sane(h) /\ Has(h, k, HeaderNames(d))
    BY <1>9, <1>12 DEF Moves
  <2>2. n \in Nat
    BY <1>2, <1>7, <2>1 DEF Has, Knows, EnvTyped
  <2>3. tag \in Nat /\ C!Promoted(d.tag, h.env) = tag
    BY <1>7, <2>1, PromotedAlike DEF Has, Knows
  <2>4. C!Arms(d.variants, tag) # {} /\ C!Arm(d.variants, tag) = arm
    BY <1>2, <2>3, ArmsAgree DEF arm
  <2>5. r = R!CapsuleOf(h, R!ReadPayload(h, items, n), d.items, arm, items)
    BY <1>3, <1>4, <1>12
  <2>6. Moves(h, r)
    <3>1. Moves(h, R!ReadPayload(h, items, n))
      BY <1>6, <1>12, <2>1, <2>2, PayloadMoves
    <3>2. \E y : r = R!Yield(R!ReadPayload(h, items, n), y)
      BY <2>5 DEF R!CapsuleOf
    <3>3. Moves(R!ReadPayload(h, items, n), r)
      BY <3>1, <3>2, Yields DEF Moves, Reads
    <3>. QED BY <2>1, <3>1, <3>3, MovesOn
  <2>7. ASSUME Pair(h, g, m)
        PROVE  Follows(h, g, r, q, m)
    <3>1. g.err = "ok" /\ g.env = h.env
      BY <2>7 DEF Pair, Level
    <3>2. g.outer = <<>>
      <4>1. h.cur.pos <= m
        BY <2>7 DEF Pair, Level
      <4>. QED BY <1>10, <1>12, <4>1 DEF Follows
    <3>3. C!Promoted(d.tag, g.env) = tag /\ g.env[d.within] = n
      BY <2>3, <3>1
    <3> DEFINE v == [g EXCEPT !.cur = C!SubCursor(@, n), !.outer = <<C!Advance(g.cur, n)>>]
               q0 == IF ~C!Fits(g.cur, n) THEN C!Fail(g, "ShortBuffer")
                     ELSE C!CapsuleOf(g, C!UsedUp(C!ReadPayload(v, items)), n, d.items, arm, items)
    <3>4. q = q0
      <4>1. q = C!AfterHeader(g, d, tag, n)
        BY <1>5, <3>1, <3>3
      <4>2. C!ParseHeaded(g, n, d, arm) = C!ParsePayload(g, n, d, arm, items)
        BY DEF C!ParseHeaded, items
      <4>3. C!ParsePayload(g, n, d, arm, items)
              = C!CapsuleOf(g, C!UsedUp(C!ReadPayload(v, items)), n, d.items, arm, items)
        BY DEF C!ParsePayload
      <4>. HIDE DEF v, tag, n
      <4>. QED BY <2>4, <4>1, <4>2, <4>3 DEF C!AfterHeader
    <3>5. Follows(h, g, R!CapsuleOf(h, R!ReadPayload(h, items, n), d.items, arm, items), q0, m)
      <4> DEFINE r0 == R!CapsuleOf(h, R!ReadPayload(h, items, n), d.items, arm, items)
      <4>1. \E v0 : v0 = v
        OBVIOUS
      <4>2. \E r1 : r1 = r0
        OBVIOUS
      <4>3. q0 = (IF ~C!Fits(g.cur, n) THEN C!Fail(g, "ShortBuffer")
                  ELSE C!CapsuleOf(g, C!UsedUp(C!ReadPayload(v, items)), n, d.items, arm, items))
        OBVIOUS
      <4>. HIDE DEF q0, n
      <4>. QED BY <1>2, <1>6, <2>1, <2>2, <2>7, <3>2, <4>3, PayloadFollows
    <3>. QED BY <2>5, <3>4, <3>5
  <2>8. h.err # "ok" => r.err = h.err
    BY <1>12
  <2>9. g.err # "ok" /\ DOMAIN g = CFields => q.err = g.err /\ DOMAIN q = CFields
    BY <1>5
  <2>10. Follows(s, u, r, q, m)
    BY <1>8, <1>9, <1>10, <2>6, <2>7, <2>8, <2>9, FollowsOn
  <2>. QED BY <2>10 DEF r, q
<1>. QED BY <1>11, <1>12

---------------------------------------------------------------------------
(* The generated functions                                                 *)

LEMMA SameChecksums ==
  /\ \A bs : C!InternetSum(bs) = R!InternetSum(bs)
  /\ \A bs, at : C!FletcherOf(bs, at) = R!FletcherOf(bs, at)
<1>1. C!Base = R!Base
  BY SameNumbers DEF C!Base, R!Base
<1>2. C!WordMax = R!WordMax
  BY <1>1 DEF C!WordMax, R!WordMax
<1>3. C!Carried = R!Carried
  BY <1>2 DEF C!Carried, R!Carried
<1>4. ASSUME NEW bs
      PROVE  C!InternetSum(bs) = R!InternetSum(bs)
  BY <1>1, <1>2, <1>3 DEF C!InternetSum, R!InternetSum, C!FoldLeftDomain, R!FoldLeftDomain,
     C!FoldLeft, R!FoldLeft, C!MapThenFoldSet, R!MapThenFoldSet, C!Max, R!Max
<1>5. ASSUME NEW bs, NEW at
      PROVE  C!FletcherOf(bs, at) = R!FletcherOf(bs, at)
  BY <1>1 DEF C!FletcherOf, R!FletcherOf, C!Fletcher, R!Fletcher, C!Zeroed, R!Zeroed, C!FoldLeft, R!FoldLeft,
     C!MapThenFoldSet, R!MapThenFoldSet, C!Max, R!Max
<1>. QED BY <1>4, <1>5

(* The states a parse function starts in.                                  *)
LEMMA StartsPair ==
  ASSUME NEW bytes \in Seq(Nat), NEW m \in Nat, m <= Len(bytes), NEW calls, NEW ccalls, CallsLeave(bytes, calls),
         CallsAgree(bytes, calls, ccalls, m), NEW c, Window(c, bytes), c.pos <= m, NEW e, CutTo(c, e, m),
         NEW s, s = R!Start(bytes, calls, c), NEW u, u = C!Start(SubSeq(bytes, 1, m), ccalls, e)
  PROVE  Pair(s, u, m) /\ u.outer = <<>>
<1> DEFINE cut == SubSeq(bytes, 1, m)
<1>1. /\ Sane(s) /\ s.err = "ok" /\ s.data = bytes /\ s.calls = calls /\ s.cur = c
  BY StartIs
<1>2. /\ s.env = <<>> /\ s.groups = {} /\ s.v = 0 /\ s.at = 0 /\ s.views = {}
  BY DEF R!Start
<1>. HIDE DEF cut
<1>3. /\ u.err = "ok" /\ u.data = cut /\ u.calls = ccalls /\ u.cur = e /\ DOMAIN u = CFields
      /\ u.env = <<>> /\ u.groups = {} /\ u.v = 0 /\ u.at = 0 /\ u.views = {} /\ u.outer = <<>>
  BY DEF C!Start, CFields, Fields, cut
<1>. QED BY <1>1, <1>2, <1>3 DEF Pair, Context, Level, cut

(* What a body without the checksum is read as.                            *)
Unchecked(s, d) == IF d.kind = "packet" THEN Unverified(s, d) ELSE R!ParseBody(s, d)

LEMMA UncheckedMoves ==
  ASSUME NEW s, Sane(s), s.err = "ok", NEW d, WellTyped(d), \A k : Has(s, k, {}), NEW q, q = Unchecked(s, d)
  PROVE  Moves(s, q)
<1>1. CASE d.kind = "packet"
  <2> DEFINE k == Kinds(d.items, {})
             n == Len(d.items)
  <2>1. ScopeTyped(d.items, k, {})
    BY <1>1 DEF WellTyped
  <2>2. Scope(d.items, n, k, {})
    BY <2>1, KindsAreKept, ScopeIs
  <2>. HIDE DEF k, n
  <2>3. q = R!ParseTracked(s, d.items) \/ q = R!ParseItems(s, d.items, d.items)
    BY <1>1 DEF Unchecked, Unverified
  <2>4. Has(s, k, {})
    OBVIOUS
  <2>. QED BY <2>2, <2>3, <2>4, ScopeMoves, TrackedMoves
<1>2. CASE d.kind = "frame"
  <2>1. q = R!ParseFrame(s, d)
    BY <1>2 DEF Unchecked, R!ParseBody
  <2>. QED BY <1>2, <2>1, FrameMoves
<1>3. CASE d.kind = "capsule"
  <2>1. q = R!ParseCapsule(s, d)
    BY <1>3 DEF Unchecked, R!ParseBody
  <2>. QED BY <1>3, <2>1, CapsuleMoves
<1>. QED BY <1>1, <1>2, <1>3 DEF WellTyped

LEMMA UncheckedFollows ==
  ASSUME NEW d, WellTyped(d), MeansTheSame(d),
         NEW s, NEW u, NEW m, Pair(s, u, m), u.outer = <<>>, \A k : Has(s, k, {}),
         s.cur.lo = s.cur.pos \/ Plain(d)
  PROVE  Follows(s, u, Unchecked(s, d), C!ParseBody(u, d), m)
<1>1. CASE d.kind = "packet"
  <2>1. C!ParseBody(u, d) = C!ParsePacket(u, d)
    BY <1>1 DEF C!ParseBody
  <2>2. Plain(d) => ~C!Recomputes(d.items)
    BY <1>1, SameSums DEF Plain, HasChecksum, C!HasChecksum, R!HasChecksum, ChecksumFields, C!ChecksumFields,
       R!ChecksumFields, IsField, C!IsField, R!IsField, C!Recomputes
  <2>3. Unchecked(s, d) = Unverified(s, d)
    BY <1>1 DEF Unchecked
  <2>. QED BY <1>1, <2>1, <2>2, <2>3, PacketFollows
<1>2. CASE d.kind = "frame"
  <2>1. Unchecked(s, d) = R!ParseFrame(s, d) /\ C!ParseBody(u, d) = C!ParseFrame(u, d)
    BY <1>2 DEF Unchecked, R!ParseBody, C!ParseBody
  <2>. QED BY <1>2, <2>1, FrameFollows
<1>3. CASE d.kind = "capsule"
  <2>1. Unchecked(s, d) = R!ParseCapsule(s, d) /\ C!ParseBody(u, d) = C!ParseCapsule(u, d)
    BY <1>3 DEF Unchecked, R!ParseBody, C!ParseBody
  <2>. QED BY <1>3, <2>1, CapsuleFollows
<1>. QED BY <1>1, <1>2, <1>3 DEF WellTyped

(* What the two leave their callers.                                       *)
LEMMA ReturnedAlike ==
  ASSUME NEW d, NEW s, NEW u, NEW m \in Nat, m <= Len(s.data), NEW r, NEW q, Moves(s, r), Follows(s, u, r, q, m)
  PROVE  Same(s.data, R!Returned(r, d), C!Returned(q, d), m)
<1> DEFINE o == R!Returned(r, d)
           p == C!Returned(q, d)
<1>1. o.err = r.err /\ o.cur = r.cur /\ o.views = r.views /\ p.err = q.err /\ p.cur = q.cur /\ p.views = q.views
  BY DEF R!Returned, C!Returned
<1>2. ASSUME Pair(r, q, m)
      PROVE  q.err = "ok" /\ p.v = o.v /\ CutTo(r.cur, q.cur, m)
  <2>1. q.err = "ok" /\ q.v = r.v /\ CutTo(r.cur, q.cur, m)
    BY <1>2 DEF Pair, Level
  <2>2. C!Members(q, d.items) = R!Members(r, d.items)
    BY <1>2, MembersAlike
  <2>. QED BY <2>1, <2>2 DEF R!Returned, C!Returned
<1>. HIDE DEF o, p
<1>3. ASSUME m = Len(s.data)
      PROVE  p.err = o.err /\ (o.err = "ok" => p.views = o.views)
  <2>1. q.err = r.err
    BY <1>3 DEF Follows
  <2>2. r.err = "ok" => r.cur.pos <= m
    BY <1>3 DEF Moves, Sane, Window
  <2>3. r.err = "ok" => Pair(r, q, m) /\ r.data = s.data
    BY <2>2 DEF Follows, Moves
  <2>4. r.err = "ok" => q.views = r.views
    BY <1>3, <2>3 DEF Pair, Level
  <2>. QED BY <1>1, <2>1, <2>4
<1>4. Same(s.data, o, p, m)
  BY <1>1, <1>2, <1>3 DEF Same, Follows
<1>. QED BY <1>4 DEF o, p

LEMMA BodyAgrees ==
  ASSUME Typed, Portable, NEW bytes \in Seq(Nat), NEW m \in Nat, m <= Len(bytes),
         NEW calls, NEW ccalls, CallsLeave(bytes, calls), CallsAgree(bytes, calls, ccalls, m),
         NEW c, Window(c, bytes), c.pos <= m, NEW e, CutTo(c, e, m), NEW name, Callable(name)
  PROVE  Same(bytes, R!Body(bytes, calls, [name |-> name, cur |-> c]),
              C!Body(SubSeq(bytes, 1, m), ccalls, [name |-> name, cur |-> e]), m)
<1> DEFINE s == R!Start(bytes, calls, c)
           u == C!Start(SubSeq(bytes, 1, m), ccalls, e)
           d == Defs[name]
           q == C!ParseBody(u, d)
<1>1. WellTyped(d) /\ MeansTheSame(d) /\ Plain(d)
  BY DEF Callable, Compiled, Typed, Portable, Defs
<1>2. /\ Sane(s) /\ s.err = "ok" /\ s.data = bytes /\ \A k : Has(s, k, {})
  BY StartIs
<1>3. Pair(s, u, m) /\ u.outer = <<>>
  BY StartsPair
<1>4. R!Body(bytes, calls, [name |-> name, cur |-> c]) = R!Returned(R!ParseBody(s, d), d)
  BY DEF R!Body
<1>5. C!Body(SubSeq(bytes, 1, m), ccalls, [name |-> name, cur |-> e]) = C!Returned(q, d)
  BY DEF C!Body
<1>. HIDE DEF s, u, d
<1>6. R!ParseBody(s, d) = Unchecked(s, d)
  <2>1. CASE d.kind = "packet"
    <3>1. ~R!HasChecksum(d.items) /\ ~C!Recomputes(d.items)
      BY <1>1, <2>1, SameSums DEF Plain, HasChecksum, C!HasChecksum, R!HasChecksum, ChecksumFields,
         C!ChecksumFields, R!ChecksumFields, IsField, C!IsField, R!IsField, C!Recomputes
    <3>. QED BY <2>1, <3>1 DEF R!ParseBody, R!ParsePacket, Unchecked, Unverified
  <2>2. CASE d.kind # "packet"
    BY <2>2 DEF Unchecked
  <2>. QED BY <2>1, <2>2
<1> DEFINE r == Unchecked(s, d)
<1>7. Moves(s, r)
  BY <1>1, <1>2, UncheckedMoves
<1>8. Follows(s, u, r, q, m)
  BY <1>1, <1>2, <1>3, UncheckedFollows
<1>. HIDE DEF r, q
<1>9. Same(s.data, R!Returned(r, d), C!Returned(q, d), m)
  BY <1>2, <1>7, <1>8, ReturnedAlike
<1>. QED BY <1>2, <1>4, <1>5, <1>6, <1>9 DEF r

(* The functions that nested types call agree at every depth.              *)
LEMMA GeneratedAgree ==
  ASSUME Typed, Portable, NEW bytes \in Seq(Nat), NEW m \in Nat, m <= Len(bytes), NEW depth \in Nat
  PROVE  CallsAgree(bytes, R!Generated(bytes, depth), C!Generated(SubSeq(bytes, 1, m), depth), m)
<1> DEFINE cut == SubSeq(bytes, 1, m)
           base == [x \in R!Calls(bytes) |-> R!TooDeep(x)]
           base2 == [x \in C!Calls(cut) |-> C!TooDeep(x)]
           up == [k \in 1 .. depth |-> k]
           f == FG!Fold(bytes, 0, base, up)
           g == HG!Fold(cut, 0, base2, up)
<1>1. ASSUME NEW name, NEW c, Callable(name), Window(c, bytes)
      PROVE  [name |-> name, cur |-> c] \in R!Calls(bytes)
  BY <1>1 DEF R!Calls, Window, Callable, Compiled, Defs
<1>2. ASSUME NEW name, NEW c, Callable(name), Window(c, bytes), c.pos <= m, NEW e, CutTo(c, e, m)
      PROVE  [name |-> name, cur |-> e] \in C!Calls(cut)
  <2>1. Len(cut) = m
    OBVIOUS
  <2>. HIDE DEF cut
  <2>. QED BY <1>2, <2>1 DEF C!Calls, Window, CutTo, Callable, Compiled, Defs
<1>3. DOMAIN up = 1 .. depth
  OBVIOUS
<1>4. R!Generated(bytes, depth) = f
  BY DEF R!Generated, FG!Fold, FG!FoldLeft, R!FoldLeft, GenStep, R!MapThenFoldSet,
     FG!MapThenFoldSet, R!Max, FG!Max
<1>5. C!Generated(cut, depth) = g
  BY DEF C!Generated, HG!Fold, HG!FoldLeft, C!FoldLeft, GenStepC, C!MapThenFoldSet,
     HG!MapThenFoldSet, C!Max, HG!Max
<1>6. CallsAgree(bytes, base, base2, m)
  <2>1. ASSUME NEW name, NEW c, NEW e, Callable(name), Window(c, bytes), c.pos <= m, CutTo(c, e, m)
        PROVE  Same(bytes, base[[name |-> name, cur |-> c]], base2[[name |-> name, cur |-> e]], m)
    <3>1. base[[name |-> name, cur |-> c]].err = "TooDeep"
      BY <1>1, <2>1 DEF R!TooDeep
    <3>2. base2[[name |-> name, cur |-> e]].err = "TooDeep"
      BY <1>2, <2>1 DEF C!TooDeep
    <3>. HIDE DEF base, base2
    <3>. QED BY <3>1, <3>2 DEF Same
  <2>. HIDE DEF base, base2
  <2>. QED BY <2>1 DEF CallsAgree
<1>7. CallsLeave(bytes, base)
  <2>1. base = R!Generated(bytes, 0)
    <3> DEFINE none == [k \in 1 .. 0 |-> k]
    <3>1. none = <<>>
      OBVIOUS
    <3>2. R!Generated(bytes, 0) = FG!Fold(bytes, 0, base, none)
      BY DEF R!Generated, FG!Fold, FG!FoldLeft, R!FoldLeft, GenStep, R!MapThenFoldSet,
         FG!MapThenFoldSet, R!Max, FG!Max
    <3>3. DOMAIN none = 1 .. 0 /\ 0 \in Nat
      OBVIOUS
    <3>. HIDE DEF none, base
    <3>4. PICK run : FG!Runs(run, bytes, 0, base, none, 0)
      BY <3>3, FG!FoldRuns
    <3>. QED BY <3>2, <3>4 DEF FG!Runs
  <2>2. CallsLeave(bytes, R!Generated(bytes, 0))
    BY GeneratedLeave
  <2>. QED BY <2>1, <2>2
<1>8. ASSUME NEW t, NEW v, CallsLeave(bytes, t), CallsAgree(bytes, t, v, m), NEW x, NEW y
      PROVE  /\ CallsLeave(bytes, GenStep(bytes, 0, t, x))
             /\ CallsAgree(bytes, GenStep(bytes, 0, t, x), GenStepC(cut, 0, v, y), m)
  <2> DEFINE a == GenStep(bytes, 0, t, x)
             b == GenStepC(cut, 0, v, y)
  <2>1. ASSUME NEW name, NEW c, NEW e, Callable(name), Window(c, bytes), c.pos <= m, CutTo(c, e, m)
        PROVE  Same(bytes, a[[name |-> name, cur |-> c]], b[[name |-> name, cur |-> e]], m)
    <3>1. a[[name |-> name, cur |-> c]] = R!Body(bytes, t, [name |-> name, cur |-> c])
      BY <1>1, <2>1 DEF GenStep
    <3>2. b[[name |-> name, cur |-> e]] = C!Body(cut, v, [name |-> name, cur |-> e])
      BY <1>2, <2>1 DEF GenStepC
    <3>. HIDE DEF a, b
    <3>. QED BY <1>8, <2>1, <3>1, <3>2, BodyAgrees
  <2>2. ASSUME NEW name, NEW c, Compiled(name), Window(c, bytes)
        PROVE  Leaves(bytes, c, a[[name |-> name, cur |-> c]])
    <3>1. [name |-> name, cur |-> c] \in R!Calls(bytes)
      BY <2>2 DEF R!Calls, Window, Compiled, Defs
    <3>2. a[[name |-> name, cur |-> c]] = R!Body(bytes, t, [name |-> name, cur |-> c])
      BY <3>1 DEF GenStep
    <3>. HIDE DEF a
    <3>. QED BY <1>8, <2>2, <3>2, BodyLeaves
  <2>. HIDE DEF a, b
  <2>3. CallsLeave(bytes, a)
    BY <2>2 DEF CallsLeave
  <2>4. CallsAgree(bytes, a, b, m)
    BY <2>1 DEF CallsAgree
  <2>. QED BY <2>3, <2>4 DEF a, b
<1>. HIDE DEF base, base2, up, cut
<1>9. PICK run : FG!Runs(run, bytes, 0, base, up, depth)
  BY <1>3, FG!FoldRuns
<1>10. PICK run2 : HG!Runs(run2, cut, 0, base2, up, depth)
  BY <1>3, HG!FoldRuns
<1>. HIDE DEF f, g
<1> DEFINE S == { j \in 0 .. depth : CallsLeave(bytes, run[j]) /\ CallsAgree(bytes, run[j], run2[j], m) }
<1>11. 0 \in S
  BY <1>6, <1>7, <1>9, <1>10 DEF FG!Runs, HG!Runs
<1>12. ASSUME NEW j \in 1 .. depth, j - 1 \in S
       PROVE  j \in S
  <2>1. run[j] = GenStep(bytes, 0, run[j - 1], up[j])
    BY <1>9 DEF FG!Runs
  <2>2. run2[j] = GenStepC(cut, 0, run2[j - 1], up[j])
    BY <1>10 DEF HG!Runs
  <2>3. CallsLeave(bytes, run[j - 1]) /\ CallsAgree(bytes, run[j - 1], run2[j - 1], m)
    BY <1>12
  <2>4. CallsLeave(bytes, run[j]) /\ CallsAgree(bytes, run[j], run2[j], m)
    BY <1>8, <2>1, <2>2, <2>3
  <2>. QED BY <2>4
<1>13. depth \in S
  <2>. HIDE DEF S
  <2>1. \A j \in 0 .. depth : j \in S
    BY <1>11, <1>12, FG!Upwards
  <2>. QED BY <2>1
<1>14. run[depth] = f /\ run2[depth] = g
  BY <1>9, <1>10 DEF FG!Runs, HG!Runs, f, g
<1>. QED BY <1>4, <1>5, <1>13, <1>14 DEF cut

(* The checksum of a packet, over what was consumed of it.                 *)
LEMMA ChecksumsAgree ==
  ASSUME NEW bytes \in Seq(Nat), NEW m, NEW r, NEW q, Pair(r, q, m), r.data = bytes,
         NEW d, d.kind = "packet", R!HasChecksum(d.items), d.items \in Seq(Range(d.items)),
         NEW p, p = C!Returned(q, d)
  PROVE  C!SumHolds(SubSeq(SubSeq(bytes, 1, m), 1, p.cur.pos), p, C!ChecksumField(d.items))
           = R!SumHolds(R!Slice(bytes, [from |-> 0, to |-> r.cur.pos]), r, R!ChecksumField(d.items))
<1> DEFINE items == d.items
           f == R!ChecksumField(items)
           cut == SubSeq(bytes, 1, m)
           end == r.cur.pos
           part == SubSeq(bytes, 1, end)
<1>1. /\ p.cur = q.cur /\ p.at = q.at /\ p.v = C!Members(q, items)
  BY DEF C!Returned
<1>2. /\ q.cur.pos = end /\ q.at = r.at /\ r.err = "ok" /\ m \in Nat /\ m <= Len(bytes) /\ end \in Nat /\ end <= m
      /\ C!Members(q, items) = R!Members(r, items)
  BY MembersAlike DEF Pair, Level, Context, CutTo, Sane, Window
<1>3. C!ChecksumField(items) = f
  BY SameSums
<1>4. f \in Range(items) /\ f.it = "field"
  <2> DEFINE cs == R!ChecksumFields(items)
             P(i) == i \in cs /\ \A j \in cs : i <= j
             least == CHOOSE i : P(i)
  <2>1. cs # {} /\ cs \subseteq DOMAIN items /\ \A i \in cs : items[i].it = "field"
    BY DEF R!HasChecksum, R!ChecksumFields, R!IsField
  <2>. HIDE DEF cs
  <2>2. cs \subseteq Nat
    <3>1. DOMAIN items = 1 .. Len(items) /\ Len(items) \in Nat
      OBVIOUS
    <3>. QED BY <2>1, <3>1
  <2>3. \E i : P(i)
    BY <2>1, <2>2, LeastElement
  <2>4. P(least)
    BY <2>3
  <2>5. f = items[least]
    BY DEF R!ChecksumField, cs
  <2>. HIDE DEF least
  <2>. QED BY <2>1, <2>4, <2>5 DEF Range
<1>5. p.v[f.name] = r.env[f.name]
  <2> DEFINE names == { x.name : x \in R!Named(items) }
  <2>1. f.name \in names
    BY <1>4 DEF R!Named, R!Range, Range
  <2>2. R!Members(r, items) = [x \in names |-> r.env[x]]
    BY <1>2 DEF R!Members, R!Restrict
  <2>. HIDE DEF names
  <2>. QED BY <1>1, <1>2, <2>1, <2>2
<1>6. SubSeq(cut, 1, p.cur.pos) = part
  <2>1. SubSeq(SubSeq(bytes, 1, m), 0 + 1, end) = SubSeq(bytes, 0 + 1, end)
    <3>1. 0 \in Nat /\ 0 <= end
      BY <1>2
    <3>. QED BY <1>2, <3>1, CutPart
  <2>. QED BY <1>1, <1>2, <2>1
<1>7. R!Slice(bytes, [from |-> 0, to |-> end]) = part
  <2> DEFINE w == [from |-> 0, to |-> end]
  <2>1. w.from + 1 = 1 /\ w.to = end
    OBVIOUS
  <2>2. R!Slice(bytes, w) = SubSeq(bytes, w.from + 1, w.to)
    BY DEF R!Slice
  <2>. HIDE DEF w
  <2>3. R!Slice(bytes, w) = part
    BY <2>1, <2>2
  <2>. QED BY <2>3 DEF w
<1>8. C!SumHolds(part, p, f) = R!SumHolds(part, r, f)
  <2>. HIDE DEF part, f
  <2>1. p.at = r.at
    BY <1>1, <1>2
  <2>. QED BY <1>5, <2>1, SameChecksums DEF C!SumHolds, R!SumHolds
<1>. HIDE DEF part, f, cut, end
<1>. QED BY <1>3, <1>6, <1>7, <1>8 DEF cut, end, f

(* The public functions: what the Rust code reads from an input, the C     *)
(* code reads from what is left of it, if that is what Rust consumed or    *)
(* more.                                                                   *)
LEMMA ParsersAgree ==
  ASSUME Typed, Portable, NEW bytes \in Seq(Nat), NEW m \in Nat, m <= Len(bytes), NEW name, Compiled(name)
  PROVE  Same(bytes, R!RustParseType(name, bytes), C!CParseType(name, SubSeq(bytes, 1, m)), m)
<1> DEFINE cut == SubSeq(bytes, 1, m)
           c == R!NewCursor(0, Len(bytes))
           e == C!NewCursor(0, Len(cut))
           calls == R!Generated(bytes, MaxNesting)
           ccalls == C!Generated(cut, MaxNesting)
           s == R!Start(bytes, calls, c)
           u == C!Start(cut, ccalls, e)
           d == Defs[name]
           r0 == Unchecked(s, d)
           q == C!ParseBody(u, d)
           o0 == R!Returned(r0, d)
           p == C!Returned(q, d)
           r == R!ParseBody(s, d)
           o == R!RustParseType(name, bytes)
           p2 == C!CParseType(name, cut)
<1>1. WellTyped(d) /\ MeansTheSame(d)
  BY DEF Compiled, Typed, Portable, Defs
<1>2. Window(c, bytes) /\ c.pos = 0 /\ c.lo = 0
  BY DEF R!NewCursor, Window
<1>3. CutTo(c, e, m)
  <2>1. Len(cut) = m
    OBVIOUS
  <2>. HIDE DEF cut
  <2>. QED BY <2>1 DEF C!NewCursor, R!NewCursor, CutTo
<1>4. CallsLeave(bytes, calls) /\ CallsAgree(bytes, calls, ccalls, m)
  BY GeneratedLeave, GeneratedAgree, CodecAssumption
<1>5. o = R!Returned(r, d)
  BY DEF R!RustParseType, R!Body
<1>6. p2 = C!Checked(cut, p, d)
  BY DEF C!CParseType, C!Body
<1>. HIDE DEF calls, ccalls, c, e, d
<1>7. Pair(s, u, m) /\ u.outer = <<>>
  BY <1>2, <1>3, <1>4, StartsPair DEF cut
<1>8. /\ Sane(s) /\ s.err = "ok" /\ s.data = bytes /\ s.cur = c /\ \A k : Has(s, k, {})
  BY <1>2, <1>4, StartIs
<1>. HIDE DEF s, u, cut, o, p2
<1>9. Moves(s, r0)
  BY <1>1, <1>8, UncheckedMoves
<1>10. Follows(s, u, r0, q, m)
  BY <1>1, <1>2, <1>7, <1>8, UncheckedFollows
<1>. HIDE DEF r0, q, r
<1>11. Same(bytes, o0, p, m)
  BY <1>8, <1>9, <1>10, ReturnedAlike
<1>12. CASE d.kind # "packet" \/ ~R!HasChecksum(d.items)
  <2>1. C!HasChecksum(d.items) = R!HasChecksum(d.items)
    BY SameSums
  <2>2. p2 = p
    BY <1>6, <1>12, <2>1 DEF C!Checked
  <2>3. r = r0
    <3>1. CASE d.kind = "packet"
      <4>1. ~R!HasChecksum(d.items) /\ ~C!Recomputes(d.items)
        BY <1>12, <2>1, <3>1 DEF C!Recomputes
      <4>2. r = R!ParsePacket(s, d)
        BY <3>1 DEF r, R!ParseBody
      <4>. QED BY <3>1, <4>1, <4>2 DEF r0, R!ParsePacket, Unchecked, Unverified
    <3>2. CASE d.kind # "packet"
      BY <3>2 DEF r, r0, Unchecked
    <3>. QED BY <3>1, <3>2
  <2>. QED BY <1>5, <1>11, <2>2, <2>3 DEF o, p2, cut
<1>13. CASE d.kind = "packet" /\ R!HasChecksum(d.items)
  <2> DEFINE f == R!ChecksumField(d.items)
             x == R!SumHolds(R!Slice(r0.data, [from |-> s.cur.pos, to |-> r0.cur.pos]), r0, f)
             y == C!SumHolds(SubSeq(cut, 1, p.cur.pos), p, C!ChecksumField(d.items))
  <2>1. C!HasChecksum(d.items) /\ C!ChecksumField(d.items) = f
    BY <1>13, SameSums
  <2>2. r = R!Verified(s, r0, d.items)
    <3>1. r = R!ParsePacket(s, d)
      BY <1>13 DEF r, R!ParseBody
    <3>. QED BY <1>13, <2>1, <3>1 DEF r0, R!ParsePacket, Unchecked, Unverified, C!Recomputes
  <2>3. r = IF r0.err # "ok" THEN r0 ELSE IF x THEN r0 ELSE R!Fail(r0, "Checksum")
    BY <2>2 DEF R!Verified
  <2>4. p2 = IF p.err # "ok" THEN p ELSE IF y THEN p ELSE [p EXCEPT !.err = "Checksum"]
    BY <1>6, <1>13, <2>1 DEF C!Checked, C!Verified
  <2>5. ASSUME Pair(r0, q, m)
        PROVE  x <=> y
    <3>1. r0.data = bytes
      BY <1>8, <1>9 DEF Moves
    <3>2. d.items \in Seq(Range(d.items))
      BY <1>1, <1>13 DEF WellTyped, ScopeTyped
    <3>3. p = C!Returned(q, d)
      OBVIOUS
    <3>. HIDE DEF p
    <3>4. C!SumHolds(SubSeq(SubSeq(bytes, 1, m), 1, p.cur.pos), p, C!ChecksumField(d.items))
            = R!SumHolds(R!Slice(bytes, [from |-> 0, to |-> r0.cur.pos]), r0, R!ChecksumField(d.items))
      BY <1>13, <2>5, <3>1, <3>2, <3>3, ChecksumsAgree
    <3>5. s.cur.pos = 0
      BY <1>2, <1>8
    <3>. QED BY <3>1, <3>4, <3>5 DEF cut
  <2>6. DOMAIN r0 = Fields /\ DOMAIN p = {"v", "err", "cur", "views", "at"} /\ p.err = q.err
    BY <1>9 DEF Moves, Sane, C!Returned
  <2>7. o0.err = r0.err /\ o0.cur = r0.cur
    BY DEF R!Returned
  <2>. HIDE DEF x, y, p
  <2>8. ASSUME o.err = "ok"
        PROVE  r = r0 /\ x /\ r0.err = "ok"
    <3>1. r.err = "ok"
      BY <1>5, <2>8 DEF R!Returned
    <3>. QED BY <2>3, <2>6, <3>1 DEF R!Fail, Fields
  <2>9. ASSUME o.err = "ok", o.cur.pos <= m
        PROVE  p2 = p /\ o = o0
    <3>1. o = o0
      BY <1>5, <2>8, <2>9
    <3>2. Pair(r0, q, m)
      BY <1>10, <2>7, <2>8, <2>9, <3>1 DEF Follows
    <3>3. y
      BY <2>5, <2>8, <2>9, <3>2
    <3>. QED BY <2>4, <3>1, <3>3
  <2>10. ASSUME m = Len(bytes)
         PROVE  p2.err = o.err
    <3>1. q.err = r0.err
      BY <1>8, <1>10, <2>10 DEF Follows
    <3>2. o.err = r.err
      BY <1>5 DEF R!Returned
    <3>3. CASE r0.err # "ok"
      BY <2>3, <2>4, <2>6, <3>1, <3>2, <3>3
    <3>4. CASE r0.err = "ok"
      <4>1. r0.cur.pos <= m
        BY <1>8, <1>9, <2>10, <3>4 DEF Moves, Sane, Window
      <4>2. x <=> y
        BY <1>10, <2>5, <3>4, <4>1 DEF Follows
      <4>3. CASE x
        BY <2>3, <2>4, <2>6, <3>1, <3>2, <3>4, <4>2, <4>3
      <4>4. CASE ~x
        <5>1. r.err = "Checksum"
          BY <2>3, <2>6, <3>4, <4>4 DEF R!Fail, Fields
        <5>2. p2.err = "Checksum"
          BY <2>4, <2>6, <3>1, <3>4, <4>2, <4>4
        <5>. QED BY <3>2, <5>1, <5>2
      <4>. QED BY <4>3, <4>4
    <3>. QED BY <3>3, <3>4
  <2>11. ASSUME m = Len(bytes), o.err = "ok"
         PROVE  p2.views = o.views
    <3>1. o = o0 /\ r0.err = "ok"
      BY <1>5, <2>8, <2>11
    <3>2. o.cur.pos <= m
      BY <1>8, <1>9, <2>7, <2>11, <3>1 DEF Moves, Sane, Window
    <3>. QED BY <1>11, <2>9, <2>11, <3>1, <3>2 DEF Same
  <2>12. Same(bytes, o, p2, m)
    BY <1>11, <2>9, <2>10, <2>11 DEF Same
  <2>. QED BY <2>12 DEF o, p2, cut
<1>. QED BY <1>12, <1>13

---------------------------------------------------------------------------
(* The harness                                                             *)

(* The languages do not differ on an input.                                *)
LEMMA ResultsAgree ==
  ASSUME Typed, Portable, NEW bytes \in Seq(Nat), NEW name, Compiled(name), NEW l \in Languages
  PROVE  ParseBy(l, name, bytes) = ParseResult(R!RustParseType(name, bytes))
<1> DEFINE o == R!RustParseType(name, bytes)
           p == C!CParseType(name, bytes)
<1>1. Same(bytes, o, p, Len(bytes))
  <2>1. SubSeq(bytes, 1, Len(bytes)) = bytes /\ Len(bytes) \in Nat /\ Len(bytes) <= Len(bytes)
    BY WholeIs
  <2>2. Same(bytes, o, C!CParseType(name, SubSeq(bytes, 1, Len(bytes))), Len(bytes))
    BY <2>1, ParsersAgree
  <2>. QED BY <2>1, <2>2
<1>2. Leaves(bytes, R!NewCursor(0, Len(bytes)), o)
  BY RustParseLeaves
<1>3. ParseBy("rust", name, bytes) = ParseResult(o)
  BY DEF ParseBy
<1>4. ParseBy("c", name, bytes) = ParseResult(p)
  BY DEF ParseBy
<1>. HIDE DEF o, p
<1>5. p.err = o.err
  BY <1>1 DEF Same
<1>6. o.err = "ok" => p.v = o.v /\ p.views = o.views /\ p.cur.pos = o.cur.pos
  BY <1>1, <1>2 DEF Same, Leaves, Window, CutTo
<1>7. ParseResult(p) = ParseResult(o)
  BY <1>5, <1>6 DEF ParseResult
<1>. QED BY <1>3, <1>4, <1>7 DEF Languages, o

(* What is left of an input, cut off behind what was consumed of it.       *)
LEMMA ConsumedAgrees ==
  ASSUME Typed, Portable, NEW bytes \in Seq(Nat), NEW name, Compiled(name), NEW l \in Languages,
         NEW x, x = ParseResult(R!RustParseType(name, bytes)), x.err = "ok",
         NEW y, y = ParseBy(l, name, SubSeq(bytes, 1, x.used))
  PROVE  y.err = "ok" /\ y.v = x.v /\ y.used = x.used
<1> DEFINE o == R!RustParseType(name, bytes)
           m == x.used
           cut == SubSeq(bytes, 1, m)
           p == C!CParseType(name, cut)
<1>1. Leaves(bytes, R!NewCursor(0, Len(bytes)), o)
  BY RustParseLeaves
<1>. HIDE DEF o
<1>2. o.err = "ok" /\ o.cur.pos = m /\ x.v = o.v
  BY DEF ParseResult, o
<1>3. m \in Nat /\ m <= Len(bytes)
  BY <1>1, <1>2 DEF Leaves, Window
<1>4. Same(bytes, o, p, m)
  <2>. HIDE DEF m
  <2>. QED BY <1>3, ParsersAgree DEF o
<1>5. cut \in Seq(Nat)
  BY <1>3
<1>6. y = ParseResult(p)
  <2>1. "c" \in Languages
    BY DEF Languages
  <2>2. y = ParseBy(l, name, cut)
    OBVIOUS
  <2>3. ParseBy("c", name, cut) = ParseResult(p)
    BY DEF ParseBy
  <2>. HIDE DEF cut, p
  <2>. QED BY <1>5, <2>1, <2>2, <2>3, ResultsAgree
<1>. HIDE DEF p, cut
<1>7. p.err = "ok" /\ p.v = o.v /\ p.cur.pos = m
  BY <1>2, <1>3, <1>4 DEF Same, CutTo
<1>. QED BY <1>2, <1>6, <1>7 DEF ParseResult

(* What the first half of the harness passes on, whatever its language.    *)
LEMMA ObjectIs ==
  ASSUME Typed, Portable, Parsing, phase \notin Before
  PROVE  /\ data \in Seq(Nat) /\ Compiled(schema) /\ from \in Languages /\ to \in Languages
         /\ obj = ParseResult(R!RustParseType(schema, data))
         /\ obj.err = "ok" => \E c : /\ Window(c, data) /\ obj.used = c.pos
                                     /\ \A w \in obj.views : InScope(w, c)
<1> DEFINE r == R!RustParseType(schema, data)
<1>1. /\ data \in Seq(Nat) /\ Compiled(schema) /\ from \in Languages /\ to \in Languages
      /\ obj = ParseBy(from, schema, data)
  BY DEF Parsing, Compiled, Before
<1>2. obj = ParseResult(r)
  BY <1>1, ResultsAgree
<1>3. Leaves(data, R!NewCursor(0, Len(data)), r)
  BY <1>1, RustParseLeaves
<1>. HIDE DEF r
<1>4. obj.err = "ok" => r.err = "ok" /\ obj.used = r.cur.pos /\ obj.views = r.views
  BY <1>2 DEF ParseResult
<1>5. obj.err = "ok" => \E c : /\ Window(c, data) /\ obj.used = c.pos
                               /\ \A w \in obj.views : InScope(w, c)
  BY <1>3, <1>4 DEF Leaves
<1>. QED BY <1>1, <1>2, <1>5 DEF r

(* The parse functions of the two backends accept the same inputs, refuse  *)
(* the others with the same error, and read the same value from the same   *)
(* number of bytes, handing out the same slices: for every input of every  *)
(* declaration that code is generated for, if the declarations are typed   *)
(* and mean the same to both backends.                                     *)
THEOREM CodecBackendsAgree ==
  ASSUME Typed, Portable
  PROVE  Spec => []BackendsAgree
<1>1. ASSUME Parsing, phase \in {"serialize", "rejected"}
      PROVE  ParseBy(to, schema, data) = obj
  <2>1. phase \notin Before
    BY <1>1 DEF Before
  <2>. QED BY <1>1, <2>1, ObjectIs, ResultsAgree
<1>2. Parsing => BackendsAgree
  BY <1>1 DEF BackendsAgree
<1>. QED BY <1>2, ParsingHolds, PTL

(* No parse function looks behind what it consumes: given these bytes only *)
(* it reads the same value from all of them, in both languages.            *)
THEOREM CodecNothingBehindIsRead ==
  ASSUME Typed, Portable
  PROVE  Spec => []NothingBehindIsRead
<1>1. ASSUME Parsing, phase = "serialize"
      PROVE  ReadsAgain(ParseBy(from, schema, SubSeq(data, 1, obj.used)))
  <2>1. phase \notin Before /\ obj.err = "ok"
    BY <1>1 DEF Parsing, After, Phases, Before
  <2> DEFINE y == ParseBy(from, schema, SubSeq(data, 1, obj.used))
  <2>2. y.err = "ok" /\ y.v = obj.v /\ y.used = obj.used
    BY <1>1, <2>1, ObjectIs, ConsumedAgrees
  <2>. HIDE DEF y
  <2>3. ReadsAgain(y)
    BY <2>2 DEF ReadsAgain
  <2>. QED BY <2>3 DEF y
<1>2. Parsing => NothingBehindIsRead
  BY <1>1 DEF NothingBehindIsRead, Parsed1
<1>. QED BY <1>2, ParsingHolds, PTL

(* What a parse uses lies in the input, whatever the language.             *)
THEOREM CodecTypeOK ==
  ASSUME Typed, Portable
  PROVE  Spec => []TypeOK
<1>1. ASSUME Parsing
      PROVE  TypeOK
  <2>1. CASE phase \in Before \cup {"rejected"}
    BY <1>1, <2>1 DEF TypeOK, Parsing, Before, Phases
  <2>2. CASE phase \notin Before \cup {"rejected"}
    <3>1. obj.err = "ok" /\ phase \notin Before
      BY <1>1, <2>2 DEF Parsing, After
    <3>2. obj.used \in 0 .. Len(data)
      BY <1>1, <3>1, ObjectIs DEF Window
    <3>. QED BY <1>1, <2>2, <3>1, <3>2 DEF TypeOK, Parsing
  <2>. QED BY <2>1, <2>2
<1>2. Parsing => TypeOK
  BY <1>1
<1>. QED BY <1>2, ParsingHolds, PTL

(* A slice that either parser hands out stays in the scope it was read in  *)
(* and in what the parse consumed.                                         *)
THEOREM CodecViewsInScope ==
  ASSUME Typed, Portable
  PROVE  Spec => []ViewsInScope
<1>1. ASSUME Parsing, phase = "serialize"
      PROVE  \A w \in obj.views : w.lo <= w.view.from /\ w.view.to <= w.hi /\ w.view.to <= obj.used
  <2>1. obj.err = "ok" /\ phase \notin Before
    BY <1>1 DEF Parsing, After, Phases, Before
  <2>. QED BY <1>1, <2>1, ObjectIs DEF InScope
<1>2. Parsing => ViewsInScope
  BY <1>1 DEF ViewsInScope, Parsed1
<1>. QED BY <1>2, ParsingHolds, PTL

(* The lets and requires of a declaration read back only, which the        *)
(* analyzer does not ask of them.                                          *)
LetsReadBack(d) ==
  /\ d.kind \in {"packet", "frame", "capsule"}
  /\ \A s \in Scopes(d) : \A i \in DOMAIN s[1] :
       ~IsField(s[1][i]) => ExprRefs(s[1][i].e) \subseteq NamesBefore(s[1], i, s[2])

(* What is accepted has the fields of each of its scopes checked, with the *)
(* names that the scope inherits.                                          *)
LEMMA ScopesAreChecked ==
  ASSUME NEW d, d.kind \in {"packet", "frame", "capsule"}, Accepted(d), NEW s \in Scopes(d)
  PROVE  FieldsAccepted(s[1], s[2])
<1>1. CASE d.kind = "packet"
  <2>1. s = <<d.items, {}>> /\ ScopeAccepted(d.items, {})
    BY <1>1 DEF Scopes, Accepted
  <2>. QED BY <2>1 DEF ScopeAccepted
<1>2. CASE d.kind = "frame"
  <2>1. VariantsAccepted(d.variants, {d.tagname}) /\ Scopes(d) = { <<v.items, {d.tagname}>> : v \in Range(d.variants) }
    BY <1>2 DEF Scopes, Accepted
  <2>2. PICK i \in DOMAIN d.variants : s = <<d.variants[i].items, {d.tagname}>>
    BY <2>1 DEF Range
  <2>. QED BY <2>1, <2>2 DEF VariantsAccepted, ScopeAccepted
<1>3. CASE d.kind = "capsule"
  <2> DEFINE names == NamesBefore(d.items, Len(d.items) + 1, {})
  <2>1. FieldsAccepted(d.items, {}) /\ VariantsAccepted(d.variants, names)
    BY <1>3 DEF Accepted
  <2>2. Scopes(d) = {<<d.items, {}>>} \cup { <<v.items, names>> : v \in Range(d.variants) }
    BY <1>3 DEF Scopes
  <2>. HIDE DEF names
  <2>3. CASE s = <<d.items, {}>>
    BY <2>1, <2>3
  <2>4. CASE s # <<d.items, {}>>
    <3>1. PICK i \in DOMAIN d.variants : s = <<d.variants[i].items, names>>
      BY <2>2, <2>4 DEF Range
    <3>. QED BY <2>1, <3>1 DEF VariantsAccepted, ScopeAccepted
  <2>. QED BY <2>3, <2>4
<1>. QED BY <1>1, <1>2, <1>3

(* The generated code reads no variable before it assigned it, in a header *)
(* or in a branch: the analyzer's one check of references is enough for    *)
(* sizes, counts and conditions, given that lets and requires read back.   *)
THEOREM CodecReadsAreBound ==
  ASSUME \A n \in DOMAIN Schemas : Accepted(Schemas[n]) => LetsReadBack(Schemas[n])
  PROVE  Spec => []ReadsAreBound
<1>1. ASSUME Parsing, phase = "receive"
      PROVE  BoundBeforeUse(Schemas[schema])
  <2> DEFINE d == Schemas[schema]
  <2>1. Accepted(d) /\ LetsReadBack(d)
    BY <1>1 DEF Parsing
  <2>. HIDE DEF d
  <2>2. ASSUME NEW s \in Scopes(d), NEW i \in DOMAIN s[1]
        PROVE  ItemRefs(s[1][i]) \subseteq NamesBefore(s[1], i, s[2])
    <3>1. CASE IsField(s[1][i])
      <4>1. FieldsAccepted(s[1], s[2])
        BY <2>1, ScopesAreChecked DEF LetsReadBack
      <4>. QED BY <3>1, <4>1 DEF FieldsAccepted, FieldAccepted, NoForwardRefs, ItemRefs
    <3>2. CASE ~IsField(s[1][i])
      BY <2>1, <3>2 DEF LetsReadBack, ItemRefs
    <3>. QED BY <3>1, <3>2
  <2>3. BoundBeforeUse(d)
    BY <2>2 DEF BoundBeforeUse
  <2>. QED BY <2>3 DEF d
<1>2. Parsing => ReadsAreBound
  BY <1>1 DEF ReadsAreBound
<1>. QED BY <1>2, ParsingHolds, PTL
=============================================================================
