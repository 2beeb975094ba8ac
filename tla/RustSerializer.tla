--------------------------- MODULE RustSerializer ---------------------------
(***************************************************************************)
(* The serialize and serialized_len functions the Rust backend generates   *)
(* for packets, frames and capsules (crates/wirespec-backend-rust:         *)
(* serialize_emit.rs, emit.rs), of the values of module RustParser. A run  *)
(* of serialize code is folded over [out, cap, groups, err].               *)
(***************************************************************************)
EXTENDS CodecIR, Varint

CONSTANT Defs  \* the lowered declarations, by name

Fail(s, e) == [s EXCEPT !.err = e]
Write(s, bs) == IF ~HasRoom(s, Len(bs)) THEN Fail(s, "ShortBuffer") ELSE Put(s, bs)

(* The bytes one by one: those that fit are written before the error.      *)
WriteEach(s, r) ==
  IF HasRoom(s, Len(r.out)) THEN [Put(s, r.out) EXCEPT !.err = r.err]
  ELSE Fail(Put(s, SubSeq(r.out, 1, s.cap - Len(s.out))), "ShortBuffer")
WriteVarint(s, vi, val) == WriteEach(s, RustWrite(vi, val))

RECURSIVE WriteType(_, _, _)
RECURSIVE LengthOf(_, _)

(* Mutant: every integer is written big endian.                            *)
WriteValue_Big(s, ty, e, val) ==
  CASE ty.k \in {"num", "enum"} -> Write(s, Octets(val, ty.w, "big"))
    [] ty.k = "varint" -> WriteVarint(s, ty.vi, val)
    [] ty.k = "bytes" -> Write(s, val)
    [] ty.k = "type" -> WriteType(s, ty.of, val)

(* rust_write_expr                                                         *)
WriteValue(s, ty, e, val) ==
  CASE ty.k = "num" -> Write(s, Octets(val, ty.w, e))
    [] ty.k = "enum" -> Write(s, Octets(val, ty.w, ty.e))
    [] ty.k = "varint" -> WriteVarint(s, ty.vi, val)
    [] ty.k = "bytes" -> Write(s, val)
    [] ty.k = "type" -> WriteType(s, ty.of, val)

(* emit_bitgroup_serialize                                                 *)
Packed(items, f, env) ==
  FoldLeft(LAMBDA n, g : n + ((env[g.name] % TwoTo[g.ty.n]) * TwoTo[g.shift]), 0,
           GroupMembers(items, f.group))

WriteGroup(s, items, f, env) ==
  [Write(s, Octets(Packed(items, f, env), ContainerBytes(f.total), f.order))
     EXCEPT !.groups = @ \cup {f.group}]

(* emit_array_serialize                                                    *)
WriteArray(s, ty, xs) ==
  FoldLeft(LAMBDA t, x : IF t.err # "ok" THEN t ELSE WriteValue(t, ty.el, "none", x), s, xs)

(* emit_field_serialize, and emit_variant_field_serialize, its twin for    *)
(* destructured variants: an optional field is written when it is there,   *)
(* whatever its condition says.                                            *)
SerializeField(s, items, f, env) ==
  CASE f.strategy = "BitGroup" -> IF f.group \in s.groups THEN s ELSE WriteGroup(s, items, f, env)
    [] f.strategy = "Conditional" ->
         IF env[f.name] = <<>> THEN s ELSE WriteValue(s, f.ty, f.e, env[f.name][1])
    [] f.strategy = "Array" -> WriteArray(s, f.ty, env[f.name])
    [] f.strategy \notin {"BitGroup", "Conditional", "Array"} ->
         WriteValue(s, f.ty, f.e, env[f.name])

(* emit_serialize_items: nothing for a let or a require.                   *)
SerializeItems(s, items, these, env) ==
  FoldLeft(LAMBDA t, f : IF t.err # "ok" THEN t ELSE SerializeField(t, items, f, env),
           [s EXCEPT !.groups = {}], FieldsOf(these))

(* emit_serialize_items_with_cksum_tracking                                *)
NotePosition(s, t, items, f) ==
  IF f = ChecksumField(items) THEN [t EXCEPT !.at = Len(t.out) - Len(s.out)] ELSE t
SerializeTracked(s, items, env) ==
  FoldLeft(LAMBDA t, f : IF t.err # "ok" THEN t
                         ELSE SerializeItems(NotePosition(s, t, items, f), items, <<f>>, env),
           ("at" :> 0) @@ s, FieldsOf(items))

(* Mutant: the bytes of the field are not zeroed before the sum.           *)
Sealed_NotZeroed(own, at, alg) ==
  Patched(own, at, Octets(IF alg = "internet" THEN InternetSum(own) ELSE Fletcher(own), 2, "big"))

(* emit_checksum_compute_rust: patched in place, in big endian.            *)
Sealed(own, at, alg) ==
  IF alg = "internet" THEN InternetPatch(own, at)
  ELSE Patched(own, at, Octets(FletcherOf(own, at), 2, "big"))

Summed(s, r, items) ==
  IF r.err # "ok" THEN r
  ELSE [r EXCEPT !.out = SubSeq(@, 1, Len(s.out))
                         \o Sealed(SubSeq(@, Len(s.out) + 1, Len(@)), r.at, ChecksumField(items).alg)]

(* The serialize functions of emit_packet, emit_frame and emit_capsule: a  *)
(* checksum of a variant or of a header is not computed.                   *)
SerializePacket(s, d, env) ==
  IF HasChecksum(d.items) THEN Summed(s, SerializeTracked(s, d.items, env), d.items)
  ELSE SerializeItems(s, d.items, d.items, env)

SerializeScope(s, items, env) ==
  IF s.err # "ok" THEN s ELSE SerializeItems(s, items, items, env)

SerializeFrame(s, d, val) ==
  SerializeScope(WriteValue(s, d.tag, Endianness(d.tag, d.order), val.tag),
                 d.variants[val.arm].items, val.env)

SerializeCapsule(s, d, val) ==
  SerializeScope(SerializeScope(s, d.items, val.env), d.variants[val.arm].items, val.payload)

SerializeBody(s, d, val) ==
  CASE d.kind = "packet" -> SerializePacket(s, d, val)
    [] d.kind = "frame" -> SerializeFrame(s, d, val)
    [] d.kind = "capsule" -> SerializeCapsule(s, d, val)

Wrote(s, r) == [s EXCEPT !.out = r.out, !.err = r.err]

WriteType(s, name, val) == Wrote(s, SerializeBody(s, Defs[name], val))

RustSerialize(name, val, cap) ==
  WriteType([out |-> <<>>, cap |-> cap, groups |-> {}, err |-> "ok"], name, val)

(* emit_field_serialized_len                                               *)
ValueLength(ty, val) ==
  CASE ty.k \in {"num", "enum"} -> ty.w
    [] ty.k = "varint" -> RustSize(ty.vi, val)
    [] ty.k = "bytes" -> Len(val)
    [] ty.k = "type" -> LengthOf(ty.of, val)

FieldLength(f, env) ==
  CASE f.strategy = "BitGroup" -> GroupBytes(f.total)
    [] f.strategy = "Conditional" ->
         IF env[f.name] = <<>> THEN 0 ELSE ValueLength(f.ty, env[f.name][1])
    [] f.strategy = "Array" -> FoldLeft(LAMBDA n, x : n + ValueLength(f.ty.el, x), 0, env[f.name])
    [] f.strategy \notin {"BitGroup", "Conditional", "Array"} -> ValueLength(f.ty, env[f.name])

(* Mutant: a group counts once per member.                                 *)
ItemsLength_PerMember(items, env) ==
  FoldLeft(LAMBDA n, f : n + FieldLength(f, env), 0, FieldsOf(items))

(* emit_serialized_len_items: a group counts once.                         *)
ItemsLength(items, env) ==
  FoldLeft(LAMBDA n, f : IF f.strategy = "BitGroup" /\ f # GroupMembers(items, f.group)[1]
                         THEN n ELSE n + FieldLength(f, env), 0, FieldsOf(items))

(* variant_tag_len_stmt: the length does not have the tag, and takes the   *)
(* first value of the pattern for it.                                      *)
TagLength(d, v) ==
  IF d.tag.k = "varint" THEN RustSize(d.tag.vi, IF v.wild THEN 0 ELSE v.lo) ELSE d.tag.w

LengthAs(d, val) ==
  CASE d.kind = "packet" -> ItemsLength(d.items, val)
    [] d.kind = "frame" -> TagLength(d, d.variants[val.arm])
                           + ItemsLength(d.variants[val.arm].items, val.env)
    [] d.kind = "capsule" -> ItemsLength(d.items, val.env)
                             + ItemsLength(d.variants[val.arm].items, val.payload)

LengthOf(name, val) == LengthAs(Defs[name], val)
=============================================================================
