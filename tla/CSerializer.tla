---------------------------- MODULE CSerializer -----------------------------
(***************************************************************************)
(* The serialize and serialized_len functions the C backend generates for  *)
(* packets, frames and capsules (crates/wirespec-backend-c:                *)
(* serialize_emit.rs, source.rs) over runtime/wirespec_runtime.h. A        *)
(* serialize function is given the rest of the buffer, cap bytes, and      *)
(* starts at its own position 0. Values are those of RustParser.           *)
(***************************************************************************)
EXTENDS CodecIR, Varint

CONSTANT Defs  \* the lowered declarations, by name

Fail(s, e) == [s EXCEPT !.err = e]

(* wirespec_write_u8 .. u64le, wirespec_write_bytes.                       *)
Write(s, bs) == IF ~HasRoom(s, Len(bs)) THEN Fail(s, "ShortBuffer") ELSE Put(s, bs)

(* A call of another serialize function on buf + pos and cap - pos.        *)
WriteCall(s, r) == IF r.err # "ok" THEN Fail(s, r.err) ELSE Put(s, r.out)

RECURSIVE SerializeType(_, _, _)
RECURSIVE LengthOf(_, _)

WriteValue(s, ty, e, val) ==
  CASE ty.k = "num" -> Write(s, Octets(val, ty.w, e))
    [] ty.k = "enum" -> Write(s, Octets(val, ty.w, ty.e))
    [] ty.k = "varint" -> WriteCall(s, CWrite(ty.vi, val, s.cap - Len(s.out)))
    [] ty.k = "bytes" -> Write(s, val)
    [] ty.k = "type" -> WriteCall(s, SerializeType(ty.of, val, s.cap - Len(s.out)))

(* emit_bitgroup_serialize                                                 *)
Packed(items, f, env) ==
  FoldLeft(LAMBDA n, g : n + ((env[g.name] % TwoTo[g.ty.n]) * TwoTo[g.shift]), 0,
           GroupMembers(items, f.group))

WriteGroup(s, items, f, env) ==
  [Write(s, Octets(Packed(items, f, env), ContainerBytes(f.total), f.order))
     EXCEPT !.groups = @ \cup {f.group}]

WriteArray(s, ty, xs) ==
  FoldLeft(LAMBDA t, x : IF t.err # "ok" THEN t ELSE WriteValue(t, ty.el, "none", x), s, xs)

(* emit_field_serialize; emit_variant_field_serialize is its twin.         *)
SerializeField(s, items, f, env) ==
  CASE f.strategy = "BitGroup" -> IF f.group \in s.groups THEN s ELSE WriteGroup(s, items, f, env)
    [] f.strategy = "Conditional" ->
         IF env[f.name] = <<>> THEN s ELSE WriteValue(s, f.ty, f.e, env[f.name][1])
    [] f.strategy = "Array" -> WriteArray(s, f.ty, env[f.name])
    [] f.strategy \notin {"BitGroup", "Conditional", "Array"} ->
         WriteValue(s, f.ty, f.e, env[f.name])

SerializeItems(s, items, these, env) ==
  FoldLeft(LAMBDA t, f : IF t.err # "ok" THEN t ELSE SerializeField(t, items, f, env),
           [s EXCEPT !.groups = {}], FieldsOf(these))

(* emit_serialize_items_with_cksum                                         *)
NotePosition(s, items, f) == IF f = ChecksumField(items) THEN [s EXCEPT !.at = Len(s.out)] ELSE s
SerializeTracked(s, items, env) ==
  FoldLeft(LAMBDA t, f : IF t.err # "ok" THEN t
                         ELSE SerializeItems(NotePosition(t, items, f), items, <<f>>, env),
           ("at" :> 0) @@ s, FieldsOf(items))

(* emit_checksum_compute                                                   *)
Summed(r, items) ==
  IF r.err # "ok" THEN r
  ELSE [r EXCEPT !.out = IF ChecksumField(items).alg = "internet" THEN InternetPatch(@, r.at)
                         ELSE Patched(@, r.at, Octets(FletcherOf(@, r.at), 2, "big"))]

(* emit_packet_serialize, emit_frame_serialize, emit_capsule_serialize.    *)
SerializePacket(s, d, env) ==
  IF HasChecksum(d.items) THEN Summed(SerializeTracked(s, d.items, env), d.items)
  ELSE SerializeItems(s, d.items, d.items, env)

SerializeScope(s, items, env) ==
  IF s.err # "ok" THEN s ELSE SerializeItems(s, items, items, env)

SerializeFrame(s, d, val) ==
  SerializeScope(WriteValue(s, d.tag, Endianness(d.tag, d.order), val.tag),
                 d.variants[val.arm].items, val.env)

SerializeCapsule(s, d, val) ==
  SerializeScope(SerializeScope(s, d.items, val.env), d.variants[val.arm].items, val.payload)

SerializeBody(s, d, val) ==
  CASE d.kind = "packet" -> SerializePacket(s, d, val)
    [] d.kind = "frame" -> SerializeFrame(s, d, val)
    [] d.kind = "capsule" -> SerializeCapsule(s, d, val)

SerializeType(name, val, cap) ==
  SerializeBody([out |-> <<>>, cap |-> cap, groups |-> {}, err |-> "ok"], Defs[name], val)

(* emit_field_serialized_len                                               *)
ValueLength(ty, val) ==
  CASE ty.k \in {"num", "enum"} -> ty.w
    [] ty.k = "varint" -> CSize(ty.vi, val)
    [] ty.k = "bytes" -> Len(val)
    [] ty.k = "type" -> LengthOf(ty.of, val)

FieldLength(f, env) ==
  CASE f.strategy = "BitGroup" -> GroupBytes(f.total)
    [] f.strategy = "Conditional" ->
         IF env[f.name] = <<>> THEN 0 ELSE ValueLength(f.ty, env[f.name][1])
    [] f.strategy = "Array" -> FoldLeft(LAMBDA n, x : n + ValueLength(f.ty.el, x), 0, env[f.name])
    [] f.strategy \notin {"BitGroup", "Conditional", "Array"} -> ValueLength(f.ty, env[f.name])

ItemsLength(items, env) ==
  FoldLeft(LAMBDA n, f : IF f.strategy = "BitGroup" /\ f # GroupMembers(items, f.group)[1]
                         THEN n ELSE n + FieldLength(f, env), 0, FieldsOf(items))

(* emit_packet_serialized_len, emit_frame_serialized_len (the tag the      *)
(* frame was read with) and emit_capsule_serialized_len.                   *)
LengthAs(d, val) ==
  CASE d.kind = "packet" -> ItemsLength(d.items, val)
    [] d.kind = "frame" -> ValueLength(d.tag, val.tag)
                           + ItemsLength(d.variants[val.arm].items, val.env)
    [] d.kind = "capsule" -> ItemsLength(d.items, val.env)
                             + ItemsLength(d.variants[val.arm].items, val.payload)

LengthOf(name, val) == LengthAs(Defs[name], val)
=============================================================================
