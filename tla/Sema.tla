-------------------------------- MODULE Sema --------------------------------
(***************************************************************************)
(* What the analyzer and the layout accept of a packet, frame or capsule   *)
(* (crates/wirespec-sema: lower_packet, lower_frame, lower_capsule and     *)
(* validate.rs; crates/wirespec-layout: finalize_group). The errors are    *)
(* conditions; which of several the user reads is left out.                *)
(***************************************************************************)
EXTENDS CodecIR

CONSTANTS Schemas,   \* the declarations in scope, by name
          Profile    \* the compliance profile

ASSUME ProfileAssumption == Profile \in {"strict", "extended"}

(* checksum_catalog.rs: the algorithms a profile has.                      *)
Algorithms == {"internet", "crc32", "crc32c"}
              \cup (IF Profile = "extended" THEN {"fletcher16"} ELSE {})
RequiredBytes(alg) == IF alg \in {"crc32", "crc32c"} THEN 4 ELSE 2

(* collect_expr_refs, collect_type_expr_refs                               *)
ExprRefs(e) == IF e.op = "lit" THEN {} ELSE {e.f}
Sizes(ty) ==
  CASE ty.k = "bytes" /\ ty.kind \in {"length", "lor"} -> {ty.n}
    [] ty.k = "array" -> Range(ty.count) \cup Range(ty.within)
    [] ty.k \notin {"bytes", "array"} \/ (ty.k = "bytes" /\ ty.kind \notin {"length", "lor"}) -> {}
FieldRefs(f) == UNION { ExprRefs(e) : e \in Sizes(f.ty) \cup Range(f.cond) }

(* The names items before i declare, and the fields among them.            *)
NamesBefore(items, i, outer) ==
  outer \cup { items[j].name : j \in { k \in 1 .. i - 1 : items[k].it # "require" } }
Earlier(items, i) == { items[j] : j \in { k \in 1 .. i - 1 : IsField(items[k]) } }

(* resolve_named_type                                                      *)
ElementType(ty) == IF ty.k = "array" THEN ty.el ELSE ty
TypeDefined(ty) == ElementType(ty).k = "type" => ElementType(ty).of \in DOMAIN Schemas

(* Mutant: only the condition of a field is looked at, not its sizes.      *)
NoForwardRefs_ConditionOnly(items, i, outer) ==
  UNION { ExprRefs(e) : e \in Range(items[i].cond) } \subseteq NamesBefore(items, i, outer)

(* validate_no_forward_refs: of a field only, neither of a let nor of a    *)
(* require.                                                                *)
NoForwardRefs(items, i, outer) == FieldRefs(items[i]) \subseteq NamesBefore(items, i, outer)

(* bytes[length_or_remaining: f] wants an optional f of the same scope.    *)
(* The header of a capsule is not checked.                                 *)
LorIsOptional(items, i) ==
  items[i].ty.k = "bytes" /\ items[i].ty.kind = "lor" =>
    \E g \in Earlier(items, i) : g.name = items[i].ty.n.f /\ g.cond # <<>>

(* validate_integer_like_size_ref: a size that is the name of a field of   *)
(* the scope; a within is not looked at.                                   *)
IntegerLike(ty) == ty.k \in {"num", "varint", "bits", "enum"}
SizesAreIntegers(items, i) ==
  LET ty == items[i].ty
      sizes == IF ty.k = "array" THEN Range(ty.count) ELSE Sizes(ty)
  IN  \A e \in sizes : e.op = "ref" =>
        \A g \in Earlier(items, i) : g.name = e.f => IntegerLike(g.ty)

(* validate_checksum_profile, validate_checksum_field_type                 *)
ChecksumFits(f) ==
  f.alg # "none" => f.alg \in Algorithms /\ f.ty.k = "num" /\ f.ty.w = RequiredBytes(f.alg)

(* lower_field, with what lower_packet asks of a field before and after.   *)
FieldAccepted(items, i, outer) ==
  /\ TypeDefined(items[i].ty)
  /\ NoForwardRefs(items, i, outer)
  /\ SizesAreIntegers(items, i)
  /\ ChecksumFits(items[i])

FieldsAccepted(items, outer) ==
  \A i \in DOMAIN items : IsField(items[i]) => FieldAccepted(items, i, outer)

(* validate_remaining_is_last: bytes[remaining] and every array without a  *)
(* count, the one with a within too.                                       *)
UsesUpScope(ty) == \/ ty.k = "bytes" /\ ty.kind = "remaining"
                   \/ ty.k = "array" /\ ty.count = <<>>
RemainingIsLast(fields) == \A i \in 1 .. Len(fields) - 1 : ~UsesUpScope(fields[i].ty)

SingleChecksum(items) == Cardinality(ChecksumFields(items)) <= 1

GroupsFill(items) == GroupsAccepted(Widths(FieldsOf(items)))

(* lower_packet and lower_variant_scope, and the bit groups of the scope.  *)
ScopeAccepted(items, outer) ==
  /\ \A i \in DOMAIN items : IsField(items[i]) => LorIsOptional(items, i)
  /\ FieldsAccepted(items, outer)
  /\ RemainingIsLast(FieldsOf(items))
  /\ SingleChecksum(items)
  /\ GroupsFill(items)

(* A match needs a wildcard; a branch sees the tag or the header.          *)
VariantsAccepted(vs, outer) ==
  /\ \A i \in DOMAIN vs : ScopeAccepted(vs[i].items, outer)
  /\ \E i \in DOMAIN vs : vs[i].wild

Accepted(d) ==
  CASE d.kind = "packet" -> ScopeAccepted(d.items, {})
    [] d.kind = "frame" -> VariantsAccepted(d.variants, {d.tagname})
    [] d.kind = "capsule" ->
         /\ FieldsAccepted(d.items, {})
         /\ GroupsFill(d.items)
         /\ VariantsAccepted(d.variants, NamesBefore(d.items, Len(d.items) + 1, {}))

-----------------------------------------------------------------------------
(* The scopes of a declaration, with the names each one inherits, and what *)
(* an item of a scope reads, lets and requires included.                   *)
Scopes(d) ==
  CASE d.kind = "packet" -> {<<d.items, {}>>}
    [] d.kind = "frame" -> { <<v.items, {d.tagname}>> : v \in Range(d.variants) }
    [] d.kind = "capsule" ->
         {<<d.items, {}>>} \cup
         { <<v.items, NamesBefore(d.items, Len(d.items) + 1, {})>> : v \in Range(d.variants) }

(* The types a declaration holds values of.                                *)
TypesHeld(d) ==
  { ElementType(item.ty).of :
      item \in { x \in UNION { Range(s[1]) : s \in Scopes(d) } :
                  IsField(x) /\ ElementType(x.ty).k = "type" } }

ItemRefs(item) == IF IsField(item) THEN FieldRefs(item) ELSE ExprRefs(item.e)

BoundBeforeUse(d) ==
  \A s \in Scopes(d) : \A i \in DOMAIN s[1] : ItemRefs(s[1][i]) \subseteq NamesBefore(s[1], i, s[2])
=============================================================================
