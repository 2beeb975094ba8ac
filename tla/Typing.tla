------------------------------- MODULE Typing -------------------------------
(***************************************************************************)
(* What rustc and the C compiler ask of the code generated for a           *)
(* declaration, which the analyzer does not ask of the declaration: that a *)
(* size, a condition or a tag is computed from integers assigned before.   *)
(* And the declarations that mean the same to both backends.               *)
(*                                                                         *)
(* A declaration here is a lowered one (CodecIR).                          *)
(***************************************************************************)
EXTENDS Sema, Varint

(* The names of a scope by what every declaration of them holds: a number, *)
(* an optional number. outer are numbers from outside, the tag of a frame. *)
Declared(items) == { x \in Range(items) : x.it # "require" }

Whole(x) == IsField(x) /\ IntegerLike(x.ty) /\ x.strategy # "Conditional"
Optional(x) == IsField(x) /\ IntegerLike(x.ty) /\ x.strategy = "Conditional"

Kinds(items, outer) ==
  LET names == outer \cup { x.name : x \in Declared(items) }
      Named(n) == { x \in Declared(items) : x.name = n }
  IN  [ints |-> { n \in names : \A x \in Named(n) : Whole(x) \/ x.it = "let" },
       opts |-> { n \in names \ outer : \A x \in Named(n) : Optional(x) }]

(* The expression has an unsigned integer for a value.                     *)
IsInteger(e, k) ==
  \/ e.op = "lit" /\ e.v \in Nat
  \/ e.op = "ref" /\ e.f \in k.ints
  \/ e.op = "ge" /\ e.f \in k.ints /\ e.v \in Nat
  \/ e.op = "sub" /\ e.f \in k.ints /\ e.w \in Nat /\ e.v \in 0 .. TwoTo[e.w] - 1
  \/ e.op = "bit" /\ e.f \in k.ints /\ e.v \in Nat \ {0}
  \/ e.op = "or0" /\ e.f \in k.opts /\ e.v \in Nat

OneInteger(es, k) == DOMAIN es = {1} /\ IsInteger(es[1], k)

(* A variable-length integer as the grammar has it.                        *)
VarintWritten(vi) ==
  IF vi.enc = "prefix"
  THEN /\ vi.bits \in 0 .. ByteBits
       /\ \A i \in Branches(vi) : i \in Nat /\ vi.branches[i].value_bits \in Nat
  ELSE vi.bits \in Nat /\ vi.max \in Nat

(* A type with a read function: an integer or a generated type. More than  *)
(* has: an optional enum, an array of variable-length integers or a tag    *)
(* that is one may pass here, for which no code that compiles is written.  *)
Readable(ty) ==
  \/ ty.k \in {"num", "enum"} /\ ty.w \in Nat
  \/ ty.k = "varint" /\ VarintWritten(ty.vi)
  \/ ty.k = "type" /\ ty.of \in DOMAIN Schemas /\ Accepted(Schemas[ty.of])

BytesTyped(ty, k) ==
  /\ ty.k = "bytes"
  /\ \/ ty.kind = "fixed" /\ ty.n \in Nat
     \/ ty.kind = "length" /\ IsInteger(ty.n, k)
     \/ ty.kind = "remaining"
     \/ ty.kind = "lor" /\ ty.n.op = "ref" /\ ty.n.f \in k.opts

ArrayTyped(ty, k) ==
  /\ ty.k = "array" /\ Readable(ty.el) /\ ty.max \in Nat
  /\ ty.count # <<>> => OneInteger(ty.count, k)
  /\ ty.within # <<>> => OneInteger(ty.within, k)

(* An optional field is no array: no read code is generated for one.       *)
FieldTyped(x, k) ==
  \/ x.strategy \in {"Primitive", "Checksum", "Struct", "VarInt"} /\ Readable(x.ty)
  \/ x.strategy = "BitGroup" /\ x.ty.k = "bits" /\ x.total <= 8 * ByteBits
  \/ x.strategy \in {"fixed", "length", "remaining", "lor"}
     /\ BytesTyped(x.ty, k) /\ x.ty.kind = x.strategy
  \/ x.strategy = "Conditional" /\ OneInteger(x.cond, k) /\ (Readable(x.ty) \/ BytesTyped(x.ty, k))
  \/ x.strategy = "Array" /\ ArrayTyped(x.ty, k)

(* A member of a bit group, and only it, has a place in one.               *)
Placed(x) ==
  IF x.strategy = "BitGroup" THEN x.ty.n \in Nat /\ x.shift \in Nat /\ x.total \in Nat /\ x.group # 0
  ELSE x.group = 0

ItemTyped(x, k) ==
  \/ x.it = "field" /\ FieldTyped(x, k) /\ Placed(x)
  \/ x.it \in {"let", "require"} /\ IsInteger(x.e, k)

ScopeTyped(items, k, outer) ==
  /\ items \in Seq(Range(items))
  /\ \A i \in DOMAIN items : /\ ItemTyped(items[i], k)
                             /\ ItemRefs(items[i]) \subseteq NamesBefore(items, i, outer)

HeaderNames(d) == NamesBefore(d.items, Len(d.items) + 1, {})

FrameTyped(d, items) == ScopeTyped(items, Kinds(items, {d.tagname}), {d.tagname})

CapsuleTyped(d, items, k) ==
  /\ ScopeTyped(d.items, k, {})
  /\ ScopeTyped(items, k, HeaderNames(d))
  /\ IsInteger(d.tag, k) /\ ExprRefs(d.tag) \subseteq HeaderNames(d)
  /\ d.within \in k.ints \cap HeaderNames(d)

HasDefault(vs) == vs \in Seq(Range(vs)) /\ \E i \in DOMAIN vs : vs[i].wild

WellTyped(d) ==
  \/ d.kind = "packet" /\ ScopeTyped(d.items, Kinds(d.items, {}), {})
  \/ d.kind = "frame" /\ HasDefault(d.variants) /\ IntegerLike(d.tag) /\ Readable(d.tag)
     /\ \A i \in DOMAIN d.variants : FrameTyped(d, d.variants[i].items)
  \/ d.kind = "capsule" /\ HasDefault(d.variants)
     /\ \A i \in DOMAIN d.variants :
          CapsuleTyped(d, d.variants[i].items, Kinds(d.items \o d.variants[i].items, {}))

(* The declarations in scope that code is generated for.                   *)
Typed == \A n \in DOMAIN Schemas : Accepted(Schemas[n]) => WellTyped(Lower(Schemas[n]))

-----------------------------------------------------------------------------
(* A variable-length integer that both backends decode the same way: C     *)
(* takes the branches for numbered by their prefixes, the topmost bit for  *)
(* the one that asks for another byte, and honours the byte order.         *)
VarintPortable(vi) ==
  IF vi.enc = "prefix"
  THEN vi.bits > 0 /\ \A i \in Branches(vi) : vi.branches[i].prefix = i - 1
  ELSE vi.bits = ByteBits - 1 /\ vi.order # "big"

(* C verifies the checksum of the outermost packet only.                   *)
Plain(d) == d.kind = "packet" => ~HasChecksum(d.items)

TypePortable(ty) ==
  /\ ty.k = "varint" => VarintPortable(ty.vi)
  /\ ty.k = "type" => Plain(Lower(Schemas[ty.of]))

(* A difference that a require right before it keeps from being negative,  *)
(* unless it wraps around at the same width in C.                          *)
Guards(x, e) == x.it = "require" /\ x.e.op = "ge" /\ x.e.f = e.f /\ e.v \in 0 .. x.e.v

SamePromoted(e, items, i) ==
  e.op = "sub" /\ e.w < IntBits => i - 1 \in DOMAIN items /\ Guards(items[i - 1], e)

(* A count is cut to 32 bits in C.                                         *)
FieldPortable(items, i) ==
  LET x == items[i]
  IN  /\ TypePortable(ElementType(x.ty))
      /\ x.strategy = "Conditional" => x.ty.k # "bytes"
      /\ x.ty.k = "array" => \A e \in Range(x.ty.count) : ~Wide(e)
      /\ \A e \in Sizes(x.ty) : SamePromoted(e, items, i)

ScopePortable(items) == \A i \in DOMAIN items : IsField(items[i]) => FieldPortable(items, i)

(* In a payload C forgets the bit groups between two fields, takes what    *)
(* remains for what remains of the outer cursor, and wants all of it read. *)
PayloadPortable(items) ==
  /\ ScopePortable(items)
  /\ \A i \in DOMAIN items : IsField(items[i]) =>
       /\ items[i].strategy \notin {"BitGroup", "lor"}
       /\ items[i].strategy = "Array" => items[i].ty.count # <<>> \/ items[i].ty.within # <<>>
  /\ Len(items) \in DOMAIN items
  /\ IsField(items[Len(items)]) /\ items[Len(items)].strategy = "remaining"

(* No tag has two patterns, and the wildcard comes last.                   *)
TagsDisjoint(vs) ==
  /\ \A i \in DOMAIN vs : vs[i].lo \in Int /\ vs[i].hi \in Int
  /\ \A i, j \in DOMAIN vs : i < j =>
       ~vs[i].wild /\ (vs[j].wild \/ vs[i].hi < vs[j].lo \/ vs[j].hi < vs[i].lo)

MeansTheSame(d) ==
  \/ d.kind = "packet" /\ ScopePortable(d.items)
  \/ d.kind = "frame" /\ TagsDisjoint(d.variants) /\ TypePortable(d.tag)
     /\ \A i \in DOMAIN d.variants : ScopePortable(d.variants[i].items)
  \/ d.kind = "capsule" /\ TagsDisjoint(d.variants) /\ ScopePortable(d.items)
     /\ (d.tag.op = "sub" => d.tag.w >= IntBits)
     /\ \A i \in DOMAIN d.variants : PayloadPortable(d.variants[i].items)

(* Code is generated for declarations only that mean the same to both.     *)
Portable == \A n \in DOMAIN Schemas : Accepted(Schemas[n]) => MeansTheSame(Lower(Schemas[n]))
=============================================================================
