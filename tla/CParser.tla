------------------------------ MODULE CParser -------------------------------
(***************************************************************************)
(* The parse functions the C backend generates for packets, frames and     *)
(* capsules (crates/wirespec-backend-c: parse_emit.rs, source.rs) over     *)
(* runtime/wirespec_runtime.h.                                             *)
(*                                                                         *)
(* The state of a run of parse code is the one of module RustParser and    *)
(*   outer  <<>>, or <<the cursor named cur>> where the code reads from    *)
(*          the cursor sub: the payload of a capsule.                      *)
(* Values are those of RustParser.                                         *)
(***************************************************************************)
EXTENDS CodecIR, Varint

CONSTANTS Defs,       \* the lowered declarations, by name
          MaxNesting, \* a value holds values of other types to this depth
          MaxCases    \* a range of more values than this is tested in default:

Start(data, calls, cur) ==
  [data |-> data, calls |-> calls, cur |-> cur, outer |-> <<>>, env |-> <<>>, groups |-> {},
   err |-> "ok", v |-> 0, views |-> {}, at |-> 0]

Fail(s, e) == [s EXCEPT !.err = e]
Yield(s, val) == [s EXCEPT !.v = val]
Bind(s, name) == IF s.err # "ok" THEN s ELSE [s EXCEPT !.env = Assign(@, name, s.v)]

(* expr_to_c: operands narrower than int are promoted to int, so that a    *)
(* difference of them may be negative.                                     *)
Promoted(e, env) ==
  IF e.op = "sub" /\ e.w < IntBits THEN env[e.f] - e.v ELSE Eval(e, env)

(* The casts to size_t, and to uint32_t, which cuts what is wider.         *)
SizeOf(e, env) ==
  LET n == Promoted(e, env) IN IF n < 0 THEN n + TwoTo[WordBits] ELSE n

CountOf(e, env) ==
  LET n == Promoted(e, env) IN IF n < 0 \/ Wide(e) THEN n % TwoTo[IntBits] ELSE n

(* wirespec_cursor_read_u8 .. u64le, wirespec_cursor_read_bytes.           *)
CursorRead(s, n, e) ==
  IF ~Fits(s.cur, n) THEN Fail(s, "ShortBuffer")
  ELSE [s EXCEPT !.v = Number(Slice(s.data, View(s.cur, n)), e), !.cur = Advance(@, n)]

PointAt(s, n) ==
  [s EXCEPT !.v = Slice(s.data, View(s.cur, n)), !.cur = Advance(@, n),
            !.views = @ \cup {[view |-> View(s.cur, n), lo |-> s.cur.lo, hi |-> s.cur.hi]}]

CursorReadBytes(s, n) ==
  IF ~Fits(s.cur, n) THEN Fail(s, "ShortBuffer") ELSE PointAt(s, n)

(* Mutant: what was skipped is skipped once more.                          *)
PointAtRest_Twice(s, n) == [PointAt(s, n) EXCEPT !.cur.pos = @ + n]

(* A pointer to where the cursor is, n bytes, and the cursor at its end.   *)
PointAtRest(s, n) == [PointAt(s, n) EXCEPT !.cur.pos = s.cur.hi]

(* wirespec_cursor_remaining(cur): in the payload of a capsule the         *)
(* substitution of &sub for cur does not reach this call.                  *)
CurRemaining(s) == Remaining(IF s.outer = <<>> THEN s.cur ELSE s.outer[1])

(* The parse_cursor of a variable-length integer.                          *)
Took(s, r) == [s EXCEPT !.v = r.v, !.err = r.err, !.cur = Advance(@, r.n)]
ReadVarint(s, vi) ==
  Took(s, CParse(vi, Slice(s.data, [from |-> s.cur.pos, to |-> s.cur.hi])))

(* The parse_cursor of another type, called on the cursor.                 *)
ParseCursor(s, name) ==
  LET o == s.calls[[name |-> name, cur |-> s.cur]]
  IN  [s EXCEPT !.v = o.v, !.err = o.err, !.cur = o.cur, !.views = @ \cup o.views]

ReadValue(s, ty, e) ==
  CASE ty.k = "num" -> CursorRead(s, ty.w, e)
    [] ty.k = "enum" -> CursorRead(s, ty.w, ty.e)
    [] ty.k = "varint" -> ReadVarint(s, ty.vi)
    [] ty.k = "type" -> ParseCursor(s, ty.of)

(* emit_bitgroup_parse                                                     *)
BindMember(t, g, x) ==
  IF InGroup(x, g) THEN [t EXCEPT !.env = Assign(@, x.name, Extract(t.v, x.shift, x.ty.n))] ELSE t

BindMembers(s, items, g) == FoldLeft(LAMBDA t, x : BindMember(t, g, x), s, items)

BindGroup(s, items, f) ==
  IF s.err # "ok" THEN s
  ELSE BindMembers([s EXCEPT !.groups = @ \cup {f.group}], items, f.group)

ReadGroup(s, items, f) == BindGroup(CursorRead(s, ContainerBytes(f.total), f.order), items, f)

(* emit_array_parse_with_ctx                                               *)
Appended(s, xs) == IF s.err # "ok" THEN s ELSE Yield(s, Append(xs, s.v))
ReadElement(s, ty, xs) == Appended(ReadValue(s, ty.el, "none"), xs)

ReadCounted_BelowMax(s, ty, n) ==
  IF n >= ty.max THEN Fail(s, "Capacity")
  ELSE FoldLeft(LAMBDA t, i : IF t.err # "ok" THEN t ELSE ReadElement(t, ty, t.v),
                Yield(s, <<>>), [i \in 1 .. n |-> i])

ReadCounted(s, ty, n) ==
  IF n > ty.max THEN Fail(s, "Capacity")
  ELSE FoldLeft(LAMBDA t, i : IF t.err # "ok" THEN t ELSE ReadElement(t, ty, t.v),
                Yield(s, <<>>), [i \in 1 .. n |-> i])

ReadFill(s, ty) ==
  FoldLeft(LAMBDA t, i : IF t.err # "ok" \/ CurRemaining(t) = 0 THEN t
                         ELSE IF Len(t.v) >= ty.max THEN Fail(t, "Capacity")
                         ELSE ReadElement(t, ty, t.v),
           Yield(s, <<>>), [i \in 1 .. ty.max + 1 |-> i])

(* The array's own cursor, _arr_sub.                                       *)
ReadFillWithin(s, ty, n) ==
  IF ~Fits(s.cur, n) THEN Fail(s, "ShortBuffer")
  ELSE [ReadFill([s EXCEPT !.cur = SubCursor(@, n), !.outer = <<>>], ty)
          EXCEPT !.cur = Advance(s.cur, n), !.outer = s.outer]

ReadArray(s, ty) ==
  IF ty.count # <<>> THEN ReadCounted(s, ty, CountOf(ty.count[1], s.env))
  ELSE IF ty.within # <<>> THEN ReadFillWithin(s, ty, SizeOf(ty.within[1], s.env))
  ELSE ReadFill(s, ty)

(* Mutant: what remains is measured on the cursor named cur everywhere.    *)
ReadBytesField_OuterRest(s, ty) ==
  CASE ty.kind = "fixed" -> CursorReadBytes(s, ty.n)
    [] ty.kind = "length" -> CursorReadBytes(s, SizeOf(ty.n, s.env))
    [] ty.kind = "remaining" -> PointAtRest(s, CurRemaining(s))
    [] ty.kind = "lor" -> IF s.env[ty.n.f] # <<>> THEN CursorReadBytes(s, s.env[ty.n.f][1])
                          ELSE PointAtRest(s, CurRemaining(s))

ReadBytesField(s, ty) ==
  CASE ty.kind = "fixed" -> CursorReadBytes(s, ty.n)
    [] ty.kind = "length" -> CursorReadBytes(s, SizeOf(ty.n, s.env))
    [] ty.kind = "remaining" -> PointAtRest(s, Remaining(s.cur))
    [] ty.kind = "lor" -> IF s.env[ty.n.f] # <<>> THEN CursorReadBytes(s, s.env[ty.n.f][1])
                          ELSE PointAtRest(s, CurRemaining(s))

(* if cond, has_f = true, or has_f = false                                 *)
Some(s) == IF s.err # "ok" THEN s ELSE Yield(s, <<s.v>>)
ReadConditional(s, f) ==
  IF ~Holds(f.cond[1], s.env) THEN Yield(s, <<>>) ELSE Some(ReadValue(s, f.ty, f.e))

(* emit_field_parse_with_ctx                                               *)
ParseField(s, items, f) ==
  CASE f.strategy \in {"Primitive", "Checksum", "Struct", "VarInt"} ->
         Bind(ReadValue(s, f.ty, f.e), f.name)
    [] f.strategy = "BitGroup" -> IF f.group \in s.groups THEN s ELSE ReadGroup(s, items, f)
    [] f.strategy \in {"fixed", "length", "remaining", "lor"} -> Bind(ReadBytesField(s, f.ty), f.name)
    [] f.strategy = "Conditional" -> Bind(ReadConditional(s, f), f.name)
    [] f.strategy = "Array" -> Bind(ReadArray(s, f.ty), f.name)

(* emit_parse_items_with_ctx. A let has the type of its expression, to     *)
(* which assigning it brings back what was promoted.                       *)
ParseItem(s, items, item) ==
  IF s.err # "ok" THEN s
  ELSE CASE item.it = "field" -> ParseField(s, items, item)
         [] item.it = "let" -> Bind(Yield(s, Eval(item.e, s.env)), item.name)
         [] item.it = "require" -> IF Holds(item.e, s.env) THEN s ELSE Fail(s, "Constraint")

ParseItems(s, items, these) ==
  FoldLeft(LAMBDA t, item : ParseItem(t, items, item), [s EXCEPT !.groups = {}], these)

(* emit_parse_items_with_cksum: one item at a time.                        *)
AtChecksum(s, items, item) ==
  IF IsField(item) /\ item = ChecksumField(items) THEN [s EXCEPT !.at = s.cur.pos - s.cur.lo] ELSE s
ParseTracked(s, items) ==
  FoldLeft(LAMBDA t, item : ParseItems(AtChecksum(t, items, item), items, <<item>>),
           [s EXCEPT !.at = 0], items)

Recomputes(items) == HasChecksum(items) /\ ChecksumField(items).alg # "internet"

(* The static parse_cursor of emit_packet_parse.                           *)
ParsePacket(s, d) ==
  IF Recomputes(d.items) THEN ParseTracked(s, d.items) ELSE ParseItems(s, d.items, d.items)

Named(items) == { x \in Range(items) : x.it # "require" }
Members(s, items) ==
  IF s.err # "ok" THEN <<>> ELSE Restrict(s.env, { x.name : x \in Named(items) })

(* The order in which the switch on a tag looks at the patterns: the case  *)
(* labels, then the long ranges, then the last wildcard.                   *)
Rank(v) == IF v.wild THEN 3 ELSE IF v.hi - v.lo + 1 > MaxCases THEN 2 ELSE 1
Before(vs, i, j) ==
  \/ Rank(vs[i]) < Rank(vs[j])
  \/ Rank(vs[i]) = Rank(vs[j]) /\ (IF vs[i].wild THEN i > j ELSE i < j)
Arms(vs, tag) == { i \in DOMAIN vs : Matches(vs[i], tag) }
Arm(vs, tag) == CHOOSE i \in Arms(vs, tag) : \A j \in Arms(vs, tag) \ {i} : Before(vs, i, j)

(* emit_frame_parse_body                                                   *)
FrameOf(r, tag, arm, items) == Yield(r, [tag |-> tag, arm |-> arm, env |-> Members(r, items)])

ParseVariant(t, d, arm, items) ==
  FrameOf(ParseItems([t EXCEPT !.env = Assign(<<>>, d.tagname, t.v)], items, items), t.v, arm, items)

ParseArm(t, d, arm) == ParseVariant(t, d, arm, d.variants[arm].items)

ParseTagged(t, d) ==
  IF t.err # "ok" THEN t
  ELSE IF Arms(d.variants, t.v) = {} THEN Fail(t, "InvalidTag")
  ELSE ParseArm(t, d, Arm(d.variants, t.v))

ParseFrame(s, d) == ParseTagged(ReadValue(s, d.tag, Endianness(d.tag, d.order)), d)

(* emit_capsule_variant_case_body: what a field has emitted of a bit group *)
(* is forgotten at the next field.                                         *)
ReadPayload(s, items) ==
  FoldLeft(LAMBDA t, item : ParseItem([t EXCEPT !.groups = {}], items, item), s, items)

(* emit_capsule_parse_body: the payload, on a cursor of its own, must use  *)
(* it up.                                                                  *)
UsedUp(r) == IF r.err = "ok" /\ Remaining(r.cur) # 0 THEN Fail(r, "TrailingData") ELSE r

CapsuleOf(h, r, n, header, arm, items) ==
  Yield([r EXCEPT !.cur = Advance(h.cur, n), !.outer = <<>>],
        [env |-> Members(h, header), arm |-> arm, payload |-> Members(r, items)])

ParsePayload(h, n, d, arm, items) ==
  CapsuleOf(h, UsedUp(ReadPayload([h EXCEPT !.cur = SubCursor(@, n),
                                            !.outer = <<Advance(h.cur, n)>>], items)),
            n, d.items, arm, items)

ParseHeaded(h, n, d, arm) == ParsePayload(h, n, d, arm, d.variants[arm].items)

AfterHeader(h, d, tag, n) ==
  IF ~Fits(h.cur, n) THEN Fail(h, "ShortBuffer")
  ELSE IF Arms(d.variants, tag) = {} THEN Fail(h, "InvalidTag")
  ELSE ParseHeaded(h, n, d, Arm(d.variants, tag))

ParseHeader(h, d) ==
  IF h.err # "ok" THEN h ELSE AfterHeader(h, d, Promoted(d.tag, h.env), h.env[d.within])

ParseCapsule(s, d) == ParseHeader(ParseItems(s, d.items, d.items), d)

ParseBody(s, d) ==
  CASE d.kind = "packet" -> ParsePacket(s, d)
    [] d.kind = "frame" -> ParseFrame(s, d)
    [] d.kind = "capsule" -> ParseCapsule(s, d)

Returned(r, d) ==
  [v |-> IF d.kind = "packet" THEN Members(r, d.items) ELSE r.v,
   err |-> r.err, cur |-> r.cur, views |-> r.views, at |-> r.at]

Body(data, calls, x) ==
  Returned(ParseBody(Start(data, calls, x.cur), Defs[x.name]), Defs[x.name])

(* The parse_cursor functions that types nested n deep at most call on the *)
(* input: a function of the declaration and of the cursor passed on.       *)
Calls(data) ==
  [name : DOMAIN Defs, cur : [lo : 0 .. Len(data), pos : 0 .. Len(data), hi : 0 .. Len(data)]]

TooDeep(x) == [v |-> 0, err |-> "TooDeep", cur |-> x.cur, views |-> {}, at |-> 0]

Generated(data, n) ==
  FoldLeft(LAMBDA calls, k : [x \in Calls(data) |-> Body(data, calls, x)],
           [x \in Calls(data) |-> TooDeep(x)], [k \in 1 .. n |-> k])

(* emit_checksum_verify, in the public parse of a packet only.             *)
SumHolds(bytes, o, f) ==
  IF f.alg = "internet" THEN InternetSum(bytes) = 0 ELSE FletcherOf(bytes, o.at) = o.v[f.name]

Verified(data, o, items) ==
  IF o.err # "ok" THEN o
  ELSE IF SumHolds(SubSeq(data, 1, o.cur.pos), o, ChecksumField(items)) THEN o
  ELSE [o EXCEPT !.err = "Checksum"]

Checked(data, o, d) ==
  IF d.kind = "packet" /\ HasChecksum(d.items) THEN Verified(data, o, d.items) ELSE o

CParseType(name, data) ==
  Checked(data, Body(data, Generated(data, MaxNesting),
                     [name |-> name, cur |-> NewCursor(0, Len(data))]), Defs[name])
=============================================================================
