----------------------------- MODULE RustParser -----------------------------
(***************************************************************************)
(* The parse functions the Rust backend generates for packets, frames and  *)
(* capsules (crates/wirespec-backend-rust: parse_emit.rs, emit.rs).        *)
(*                                                                         *)
(* A run of generated parse code is folded over a state                    *)
(*   [data, calls, cur, env, groups, err, v, views, at]                    *)
(* data is the input, calls the parse functions of the other declarations, *)
(* cur the cursor, env the local variables, groups the bit groups already  *)
(* emitted, err what the function has returned ("ok" while it runs), v the *)
(* value of the last expression, views the slices taken with the window of *)
(* the cursor they were taken from, at where the checksum field starts.    *)
(* The value of a packet is its env; of a frame [tag, arm, env]; of a      *)
(* capsule [env, arm, payload]; of an optional field <<>> or <<value>>.    *)
(***************************************************************************)
EXTENDS CodecIR, Varint

CONSTANTS Defs,       \* the lowered declarations, by name
          MaxNesting  \* a value holds values of other types to this depth

Start(data, calls, cur) ==
  [data |-> data, calls |-> calls, cur |-> cur, env |-> <<>>, groups |-> {},
   err |-> "ok", v |-> 0, views |-> {}, at |-> 0]

Fail(s, e) == [s EXCEPT !.err = e]
Yield(s, val) == [s EXCEPT !.v = val]
Bind(s, name) == IF s.err # "ok" THEN s ELSE [s EXCEPT !.env = Assign(@, name, s.v)]
Ahead(s) == Slice(s.data, [from |-> s.cur.pos, to |-> s.cur.hi])

(* Cursor::require, the reads of integers, read_bytes, read_remaining. A   *)
(* size is an unsigned integer, no wider than a usize.                     *)
ReadNumber(s, n, e) ==
  IF ~Fits(s.cur, n) THEN Fail(s, "ShortBuffer")
  ELSE [s EXCEPT !.v = Number(Slice(s.data, View(s.cur, n)), e), !.cur = Advance(@, n)]

ReadBytes(s, n) ==
  IF ~Fits(s.cur, n) THEN Fail(s, "ShortBuffer")
  ELSE [s EXCEPT !.v = Slice(s.data, View(s.cur, n)), !.cur = Advance(@, n),
                 !.views = @ \cup {[view |-> View(s.cur, n), lo |-> s.cur.lo, hi |-> s.cur.hi]}]

ReadRemaining(s) == ReadBytes(s, Remaining(s.cur))

Took(s, r) == [s EXCEPT !.v = r.v, !.err = r.err, !.cur = Advance(@, r.n)]
ReadVarint(s, vi) == Took(s, RustParse(vi, Ahead(s)))

(* The parse function of another type, called on the cursor.               *)
ParseType(s, name) ==
  LET o == s.calls[[name |-> name, cur |-> s.cur]]
  IN  [s EXCEPT !.v = o.v, !.err = o.err, !.cur = o.cur, !.views = @ \cup o.views]

(* rust_parse_expr                                                         *)
ReadValue(s, ty, e) ==
  CASE ty.k = "num" -> ReadNumber(s, ty.w, e)
    [] ty.k = "enum" -> ReadNumber(s, ty.w, ty.e)
    [] ty.k = "varint" -> ReadVarint(s, ty.vi)
    [] ty.k = "type" -> ParseType(s, ty.of)

ReadBytesField(s, ty) ==
  CASE ty.kind = "fixed" -> ReadBytes(s, ty.n)
    [] ty.kind = "length" -> ReadBytes(s, Eval(ty.n, s.env))
    [] ty.kind = "remaining" -> ReadRemaining(s)
    [] ty.kind = "lor" -> IF s.env[ty.n.f] # <<>> THEN ReadBytes(s, s.env[ty.n.f][1])
                          ELSE ReadRemaining(s)

(* emit_bitgroup_parse: one read binds every member of the group.          *)
BindMember(t, g, x) ==
  IF InGroup(x, g) THEN [t EXCEPT !.env = Assign(@, x.name, Extract(t.v, x.shift, x.ty.n))] ELSE t

BindMembers(s, items, g) == FoldLeft(LAMBDA t, x : BindMember(t, g, x), s, items)

BindGroup(s, items, f) ==
  IF s.err # "ok" THEN s
  ELSE [BindMembers(s, items, f.group) EXCEPT !.groups = @ \cup {f.group}]

ReadGroup(s, items, f) == BindGroup(ReadNumber(s, ContainerBytes(f.total), f.order), items, f)

(* emit_array_element_read_indexed: no byte order for an element.          *)
Appended(s, xs) == IF s.err # "ok" THEN s ELSE Yield(s, Append(xs, s.v))
ReadElement(s, ty, xs) == Appended(ReadValue(s, ty.el, "none"), xs)

ReadCounted(s, ty, n) ==
  IF n > ty.max THEN Fail(s, "Capacity")
  ELSE FoldLeft(LAMBDA t, i : IF t.err # "ok" THEN t ELSE ReadElement(t, ty, t.v),
                Yield(s, <<>>), [i \in 1 .. n |-> i])

(* Until the cursor is at its end; after max elements it must be.          *)
ReadFill(s, ty) ==
  FoldLeft(LAMBDA t, i : IF t.err # "ok" \/ Remaining(t.cur) = 0 THEN t
                         ELSE IF Len(t.v) >= ty.max THEN Fail(t, "Capacity")
                         ELSE ReadElement(t, ty, t.v),
           Yield(s, <<>>), [i \in 1 .. ty.max + 1 |-> i])

(* A cursor of its own over the next n bytes, which the outer cursor skips *)
(* whatever becomes of them.                                               *)
Within(s, n) ==
  IF ~Fits(s.cur, n) THEN Fail(s, "ShortBuffer") ELSE [s EXCEPT !.cur = SubCursor(@, n)]
Behind(s, n, r) == IF r.err # "ok" THEN r ELSE [r EXCEPT !.cur = Advance(s.cur, n)]

ReadFillWithin(s, ty, n) == Behind(s, n, ReadFill(Within(s, n), ty))

ReadArray(s, ty) ==
  IF ty.count # <<>> THEN ReadCounted(s, ty, Eval(ty.count[1], s.env))
  ELSE IF ty.within # <<>> THEN ReadFillWithin(s, ty, Eval(ty.within[1], s.env))
  ELSE ReadFill(s, ty)

Some(s) == IF s.err # "ok" THEN s ELSE Yield(s, <<s.v>>)

ReadConditional(s, f) ==
  IF ~Holds(f.cond[1], s.env) THEN Yield(s, <<>>)
  ELSE Some(IF f.ty.k = "bytes" THEN ReadBytesField(s, f.ty) ELSE ReadValue(s, f.ty, f.e))

(* emit_field_parse                                                        *)
ParseField(s, items, f) ==
  CASE f.strategy \in {"Primitive", "Checksum", "Struct", "VarInt"} ->
         Bind(ReadValue(s, f.ty, f.e), f.name)
    [] f.strategy = "BitGroup" -> IF f.group \in s.groups THEN s ELSE ReadGroup(s, items, f)
    [] f.strategy \in {"fixed", "length", "remaining", "lor"} -> Bind(ReadBytesField(s, f.ty), f.name)
    [] f.strategy = "Conditional" -> Bind(ReadConditional(s, f), f.name)
    [] f.strategy = "Array" -> Bind(ReadArray(s, f.ty), f.name)

(* emit_parse_items_with_field_aliases, over some of the items of a scope. *)
ParseItem(s, items, item) ==
  IF s.err # "ok" THEN s
  ELSE CASE item.it = "field" -> ParseField(s, items, item)
         [] item.it = "let" -> Bind(Yield(s, Eval(item.e, s.env)), item.name)
         [] item.it = "require" -> IF Holds(item.e, s.env) THEN s ELSE Fail(s, "Constraint")

ParseItems(s, items, these) ==
  FoldLeft(LAMBDA t, item : ParseItem(t, items, item), [s EXCEPT !.groups = {}], these)

(* emit_parse_items_with_cksum_tracking: the items one at a time, noting   *)
(* where the checksum field starts.                                        *)
AtChecksum(s, t, items, item) ==
  IF IsField(item) /\ item = ChecksumField(items) THEN [t EXCEPT !.at = t.cur.pos - s.cur.pos] ELSE t
ParseTracked(s, items) ==
  FoldLeft(LAMBDA t, item : ParseItems(AtChecksum(s, t, items, item), items, <<item>>),
           [s EXCEPT !.at = 0], items)

(* emit_checksum_verify_rust, on what the packet consumed.                 *)
SumHolds(bytes, r, f) ==
  IF f.alg = "internet" THEN InternetSum(bytes) = 0 ELSE FletcherOf(bytes, r.at) = r.env[f.name]

Verified(s, r, items) ==
  IF r.err # "ok" THEN r
  ELSE IF SumHolds(Slice(r.data, [from |-> s.cur.pos, to |-> r.cur.pos]), r, ChecksumField(items))
       THEN r ELSE Fail(r, "Checksum")

(* The parse function of emit_packet: the offset is tracked only for the   *)
(* algorithms that recompute.                                              *)
ParsePacket(s, d) ==
  IF ~HasChecksum(d.items) THEN ParseItems(s, d.items, d.items)
  ELSE IF ChecksumField(d.items).alg = "internet"
       THEN Verified(s, ParseItems(s, d.items, d.items), d.items)
       ELSE Verified(s, ParseTracked(s, d.items), d.items)

(* The struct built at the end: the fields and lets of a scope.            *)
Named(items) == { x \in Range(items) : x.it # "require" }
Members(s, items) ==
  IF s.err # "ok" THEN <<>> ELSE Restrict(s.env, { x.name : x \in Named(items) })

(* The match on a tag: the first arm whose pattern has it.                 *)
Arm(variants, tag) ==
  CHOOSE i \in DOMAIN variants : /\ Matches(variants[i], tag)
                                 /\ \A j \in 1 .. i - 1 : ~Matches(variants[j], tag)

(* emit_frame_parse_body; what the fields of a variant made of it.         *)
FrameOf(r, tag, arm, items) == Yield(r, [tag |-> tag, arm |-> arm, env |-> Members(r, items)])

ParseVariant(t, d, arm, items) ==
  FrameOf(ParseItems([t EXCEPT !.env = Assign(<<>>, d.tagname, t.v)], items, items), t.v, arm, items)

ParseArm(t, d, arm) == IF t.err # "ok" THEN t ELSE ParseVariant(t, d, arm, d.variants[arm].items)

ParseTagged(t, d) == ParseArm(t, d, Arm(d.variants, t.v))

ParseFrame(s, d) == ParseTagged(ReadValue(s, d.tag, Endianness(d.tag, d.order)), d)

(* Mutant: the payload is read from the outer cursor.                      *)
ReadPayload_NoSub(h, items, n) ==
  IF Fits(h.cur, n) THEN [ParseItems(h, items, items) EXCEPT !.cur = Advance(h.cur, n)]
  ELSE Fail(h, "ShortBuffer")

(* emit_capsule_parse_body: the payload on a cursor over the bytes the     *)
(* within field announces, which it need not use up. The header's fields   *)
(* stay in sight.                                                          *)
ReadPayload(h, items, n) == Behind(h, n, ParseItems(Within(h, n), items, items))

CapsuleOf(h, r, header, arm, items) ==
  Yield(r, [env |-> Members(h, header), arm |-> arm, payload |-> Members(r, items)])

ParsePayload(h, d, arm, items) ==
  CapsuleOf(h, ReadPayload(h, items, h.env[d.within]), d.items, arm, items)

ParseHeaded(h, d, arm) ==
  IF h.err # "ok" THEN h ELSE ParsePayload(h, d, arm, d.variants[arm].items)

AfterHeader(h, d) == ParseHeaded(h, d, Arm(d.variants, Eval(d.tag, h.env)))

ParseCapsule(s, d) == AfterHeader(ParseItems(s, d.items, d.items), d)

(* A parse function, and what it leaves its caller.                        *)
ParseBody(s, d) ==
  CASE d.kind = "packet" -> ParsePacket(s, d)
    [] d.kind = "frame" -> ParseFrame(s, d)
    [] d.kind = "capsule" -> ParseCapsule(s, d)

Returned(r, d) ==
  [v |-> IF d.kind = "packet" THEN Members(r, d.items) ELSE r.v,
   err |-> r.err, cur |-> r.cur, views |-> r.views]

Body(data, calls, x) ==
  Returned(ParseBody(Start(data, calls, x.cur), Defs[x.name]), Defs[x.name])

(* The parse functions that types nested n deep at most call on the input: *)
(* a function of the declaration and of the cursor that is passed on.      *)
Calls(data) ==
  [name : DOMAIN Defs, cur : [lo : 0 .. Len(data), pos : 0 .. Len(data), hi : 0 .. Len(data)]]

TooDeep(x) == [v |-> 0, err |-> "TooDeep", cur |-> x.cur, views |-> {}]

Generated(data, n) ==
  FoldLeft(LAMBDA calls, k : [x \in Calls(data) |-> Body(data, calls, x)],
           [x \in Calls(data) |-> TooDeep(x)], [k \in 1 .. n |-> k])

RustParseType(name, data) ==
  Body(data, Generated(data, MaxNesting), [name |-> name, cur |-> NewCursor(0, Len(data))])
=============================================================================
