------------------------------ MODULE CodecIR ------------------------------
(***************************************************************************)
(* The lowering of a packet, frame or capsule to what the generators work  *)
(* from (crates/wirespec-codec): each wire field gets a strategy, a byte   *)
(* order and its place in a bit group; items keep their order.             *)
(*                                                                         *)
(* A scope is a sequence of items:                                         *)
(*   [it |-> "field", name, ty, cond, alg]   cond = <<>> or <<expression>> *)
(*   [it |-> "let", name, e]                                               *)
(*   [it |-> "require", e]                                                 *)
(* A type is one of                                                        *)
(*   [k |-> "num", w, e]      unsigned, w bytes, own byte order or "none"  *)
(*   [k |-> "enum", w, e]     an enum over such an integer                 *)
(*   [k |-> "bits", n]                                                     *)
(*   [k |-> "varint", vi]     a declaration of module Varint               *)
(*   [k |-> "bytes", kind, n] fixed, length, remaining, lor                *)
(*   [k |-> "type", of]       another packet or capsule, by name           *)
(*   [k |-> "array", el, count, within, max]                               *)
(* and an expression, about a field f or a literal v, with the width w in  *)
(* bits of the integer type its value has, one of                          *)
(*   [op |-> "lit", v]           v                                         *)
(*   [op |-> "ref", f, w]        f                                         *)
(*   [op |-> "sub", f, v, w]     f - v                                     *)
(*   [op |-> "ge", f, v]         f >= v                                    *)
(*   [op |-> "bit", f, v]        whether the bit v of f is set             *)
(*   [op |-> "or0", f, v, w]     the value of the optional f, or else v    *)
(***************************************************************************)
EXTENDS Layout

(* f - v in a type of w bits, where it wraps around.                       *)
Less(n, v, w) == IF n >= v THEN n - v ELSE n - v + TwoTo[w]

(* Expressions over the fields read so far.                                *)
Eval(e, env) ==
  CASE e.op = "lit" -> e.v
    [] e.op = "ref" -> env[e.f]
    [] e.op = "sub" -> Less(env[e.f], e.v, e.w)
    [] e.op = "ge"  -> IF env[e.f] >= e.v THEN 1 ELSE 0
    [] e.op = "bit" -> (env[e.f] \div e.v) % 2
    [] e.op = "or0" -> IF env[e.f] = <<>> THEN e.v ELSE env[e.f][1]

(* In C too: a difference is zero at any width, or at none.                *)
Holds(e, env) == Eval(e, env) # 0

(* An integer of more than 32 bits, which C cuts when it is a count.       *)
Wide(e) == \/ e.op = "lit" /\ e.v >= TwoTo[IntBits]
           \/ e.op \in {"ref", "sub", "or0"} /\ e.w > IntBits

(* A variable is declared, or declared again.                              *)
Assign(env, name, val) == [n \in DOMAIN env \cup {name} |-> IF n = name THEN val ELSE env[n]]

(* type_based_strategy                                                     *)
TypeStrategy(ty) ==
  CASE ty.k = "varint" -> "VarInt"
    [] ty.k = "bytes" -> ty.kind
    [] ty.k \in {"type", "enum"} -> "Struct"
    [] ty.k = "array" -> "Array"
    [] ty.k \in {"num", "bits"} -> "Primitive"

(* assign_strategy: bit group before checksum before condition before the  *)
(* type. The lower ones of a field are forgotten.                          *)
Strategy(f) ==
  CASE f.ty.k = "bits" -> "BitGroup"
    [] f.ty.k # "bits" -> IF f.alg # "none" THEN "Checksum"
                          ELSE IF f.cond # <<>> THEN "Conditional" ELSE TypeStrategy(f.ty)

(* resolve_type_endianness: the module's byte order reaches integers of    *)
(* several bytes, and nothing inside an array or an enum.                  *)
Endianness(ty, module) ==
  IF ty.k # "num" THEN "none"
  ELSE IF ty.e # "none" THEN ty.e
  ELSE IF ty.w = 1 THEN "none" ELSE module

IsField(item) == item.it = "field"
Widths(items) == [i \in DOMAIN items |-> IF items[i].ty.k = "bits" THEN items[i].ty.n ELSE 0]

(* lower_field, with the group of a bit field named by its first member.   *)
LowerField(f, ws, i, module) ==
  [it |-> "field", name |-> f.name, ty |-> f.ty, cond |-> f.cond, alg |-> f.alg,
   strategy |-> Strategy(f), e |-> Endianness(f.ty, module),
   group |-> IF ws[i] > 0 THEN GroupFirst(ws, i) ELSE 0,
   total |-> IF ws[i] > 0 THEN TotalBits(ws, i) ELSE 0,
   shift |-> IF ws[i] > 0 THEN Offset(ws, i, module) ELSE 0,
   order |-> module]

(* lower_fields and lower_items: bit groups are found among the wire       *)
(* fields, which a let or a require between them does not interrupt.       *)
LowerScope(items, module) ==
  LET fields == SelectSeq(items, IsField)
      ws == Widths(fields)
      At(i) == Cardinality({ j \in 1 .. i : IsField(items[j]) })
  IN  [i \in DOMAIN items |->
         IF IsField(items[i]) THEN LowerField(items[i], ws, At(i), module) ELSE items[i]]

LowerVariants(vs, module) ==
  [i \in DOMAIN vs |-> [vs[i] EXCEPT !.items = LowerScope(@, module)]]

(* lower: a declaration of kind packet, frame or capsule.                  *)
Lower(d) ==
  CASE d.kind = "packet" -> [d EXCEPT !.items = LowerScope(@, d.order)]
    [] d.kind = "frame" -> [d EXCEPT !.variants = LowerVariants(@, d.order)]
    [] d.kind = "capsule" -> [d EXCEPT !.items = LowerScope(@, d.order),
                                       !.variants = LowerVariants(@, d.order)]

FieldsOf(items) == SelectSeq(items, IsField)
InGroup(x, g) == IsField(x) /\ x.group = g
GroupMembers(items, g) == SelectSeq(items, LAMBDA x : InGroup(x, g))

(* synthesize_checksum_plan: the first annotated field of the scope.       *)
ChecksumFields(items) == { i \in DOMAIN items : IsField(items[i]) /\ items[i].alg # "none" }
HasChecksum(items) == ChecksumFields(items) # {}
ChecksumField(items) ==
  items[CHOOSE i \in ChecksumFields(items) : \A j \in ChecksumFields(items) : i <= j]

(* The pattern of an arm: a value, a range lo .. hi, or the wildcard.      *)
Matches(v, tag) == v.wild \/ (v.lo <= tag /\ tag <= v.hi)
=============================================================================
