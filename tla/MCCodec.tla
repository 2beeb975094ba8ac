------------------------------ MODULE MCCodec ------------------------------
(***************************************************************************)
(* Declarations for the runs of Codec: bytes of two bits, each construct   *)
(* of the language that changes what is read or written, alone or next to  *)
(* the one it interacts with.                                              *)
(***************************************************************************)
EXTENDS Codec, Typing

RW == INSTANCE RustSerializer
CW == INSTANCE CSerializer

(* What a caller of serialize sees, and serialized_len.                    *)
SerializeResult(r) == [err |-> r.err, out |-> r.out]
Serialized(l, name, val, cap) ==
  SerializeResult(IF l = "rust" THEN RW!RustSerialize(name, val, cap)
                  ELSE CW!SerializeType(name, val, cap))
SerializedLen(l, name, val) ==
  IF l = "rust" THEN RW!LengthOf(name, val) ELSE CW!LengthOf(name, val)

Field(n, t) == [it |-> "field", name |-> n, ty |-> t, cond |-> <<>>, alg |-> "none"]
OptField(n, t, c) == [Field(n, t) EXCEPT !.cond = <<c>>]
SumField(n, alg) == [Field(n, [k |-> "num", w |-> 2, e |-> "none"]) EXCEPT !.alg = alg]
Let(n, e) == [it |-> "let", name |-> n, e |-> e]
Require(e) == [it |-> "require", e |-> e]

Num(w) == [k |-> "num", w |-> w, e |-> "none"]
NumE(w, e) == [k |-> "num", w |-> w, e |-> e]
Bits(n) == [k |-> "bits", n |-> n]
Of(n) == [k |-> "type", of |-> n]
Bytes(kind, n) == [k |-> "bytes", kind |-> kind, n |-> n]
Rest == Bytes("remaining", 0)
Array(el, count, within, max) ==
  [k |-> "array", el |-> el, count |-> count, within |-> within, max |-> max]

(* The fields referred to are of one byte, those of WideMinus of two.      *)
Ref(f) == [op |-> "ref", f |-> f, w |-> ByteBits]
Lit(v) == [op |-> "lit", v |-> v]
Minus(f, v) == [op |-> "sub", f |-> f, v |-> v, w |-> ByteBits]
WideMinus(f, v) == [Minus(f, v) EXCEPT !.w = 2 * ByteBits]
AtLeast(f, v) == [op |-> "ge", f |-> f, v |-> v]
Bit(f, v) == [op |-> "bit", f |-> f, v |-> v]
Or(f, v) == [op |-> "or0", f |-> f, v |-> v, w |-> ByteBits]

Packet(order, items) == [kind |-> "packet", items |-> items, order |-> order]
Variant(lo, hi, items) == [lo |-> lo, hi |-> hi, wild |-> FALSE, items |-> items]
Otherwise(items) == [lo |-> 0, hi |-> 255, wild |-> TRUE, items |-> items]
Frame(tag, vs) == [kind |-> "frame", tag |-> tag, tagname |-> "t", variants |-> vs, order |-> "big"]
Capsule(items, tag, vs) ==
  [kind |-> "capsule", items |-> items, tag |-> tag, within |-> "len", variants |-> vs,
   order |-> "big"]

Quic == [k |-> "varint",
         vi |-> [enc |-> "prefix", bits |-> 1, strict |-> FALSE,
                 branches |-> <<[prefix |-> 0, value_bits |-> 1], [prefix |-> 1, value_bits |-> 3]>>]]
Strict == [Quic EXCEPT !.vi.strict = TRUE]
Leb == [k |-> "varint", vi |-> [enc |-> "cont", bits |-> 1, max |-> 3, order |-> "little"]]

Pair == Packet("big", <<Field("a", Num(1)), Field("b", Num(1))>>)

Sound ==
  [ Ints    |-> Packet("little", <<Field("a", Num(1)), Field("b", Num(2)), Field("c", NumE(2, "big"))>>),
    Wide    |-> Packet("big", <<Field("a", Num(3)), Field("e", [k |-> "enum", w |-> 1, e |-> "none"])>>),
    Flags   |-> Packet("big", <<Field("x", Bits(1)), Field("y", Bits(3)), Field("z", Num(1)),
                                Field("p", Bits(1)), Field("q", Bits(1))>>),
    FlagsLE |-> Packet("little", <<Field("x", Bits(1)), Let("m", Ref("x")), Field("y", Bits(3)),
                                   Require(AtLeast("y", 1)), Field("b", Num(2))>>),
    Opt     |-> Packet("big", <<Field("f", Num(1)), OptField("a", Num(1), Bit("f", 1)),
                                OptField("p", Of(<<"Pair">>), Bit("f", 2)), Let("d", Or("a", 3)),
                                Field("r", Rest)>>),
    Len     |-> Packet("big", <<Field("len", Num(1)), Require(AtLeast("len", 1)),
                                Field("d", Bytes("length", Minus("len", 1))), Field("z", Num(1))>>),
    Wrap    |-> Packet("big", <<Field("n", Num(2)), Field("d", Bytes("length", WideMinus("n", 1)))>>),
    Lor     |-> Packet("big", <<Field("f", Num(1)), OptField("l", Num(1), Bit("f", 1)),
                                Field("d", Bytes("lor", Ref("l")))>>),
    Counted |-> Packet("big", <<Field("n", Num(1)), Field("xs", Array(Num(1), <<Ref("n")>>, <<>>, 2)),
                                Field("z", Bytes("fixed", 1))>>),
    Filled  |-> Packet("big", <<Field("n", Num(1)), Field("z", Num(1)),
                                Field("xs", Array(Of(<<"Pair">>), <<>>, <<Ref("n")>>, 2))>>),
    Nested  |-> Packet("big", <<Field("p", Of(<<"Len">>)), Field("xs", Array(Num(2), <<>>, <<>>, 2))>>),
    Pair    |-> Pair,
    Inet    |-> Packet("big", <<Field("a", Num(1)), Field("b", Num(1)), SumField("s", "internet"),
                                Field("r", Rest)>>),
    Fletch  |-> Packet("big", <<Field("a", Num(1)), SumField("s", "fletcher16"), Field("r", Rest)>>),
    Tlv     |-> Frame(Num(1), <<Variant(0, 0, <<Field("a", Num(2))>>),
                                Variant(1, 2, <<Field("n", Num(1)), Field("d", Bytes("length", Ref("n")))>>),
                                Otherwise(<<Require(AtLeast("t", 3)), Field("r", Rest)>>)>>),
    Record  |-> Capsule(<<Field("t", Num(1)), Field("len", Num(1))>>, Bit("t", 2),
                        <<Variant(0, 0, <<Field("r", Rest)>>),
                          Otherwise(<<Field("a", Num(1)), OptField("b", Num(1), Bit("t", 1)), Field("r", Rest)>>)>>),
    Var     |-> Packet("big", <<Field("v", Quic), Field("w", Strict)>>),
    Leb     |-> Packet("big", <<Field("c", Leb), Field("z", Num(1))>>),
    Inet2   |-> Packet("big", <<Field("a", Num(2)), SumField("s", "internet")>>) ]


Named1(f) == [s \in { <<n>> : n \in DOMAIN f } |-> f[s[1]]]

(* Items that a declaration can be put together from, by name.             *)
Alphabet ==
  [ n |-> Field("n", Num(1)),
    b |-> Field("b", NumE(2, "little")),
    x |-> Field("x", Bits(1)),
    y |-> Field("y", Bits(1)),
    d |-> Field("d", Bytes("length", Ref("n"))),
    o |-> OptField("o", Num(1), Bit("n", 1)),
    l |-> Field("l", Bytes("lor", Ref("o"))),
    c |-> Field("c", Array(Num(1), <<Ref("n")>>, <<>>, 2)),
    w |-> Field("w", Array(Num(1), <<>>, <<Ref("n")>>, 1)),
    f |-> Field("f", Array(Num(2), <<>>, <<>>, 1)),
    r |-> Field("r", Rest),
    p |-> Field("p", Of(<<"Pair">>)),
    v |-> Field("v", Quic),
    q |-> Require(AtLeast("n", 1)),
    m |-> Let("m", Ref("n")) ]

Words(k) == { s \in UNION { [1 .. n -> DOMAIN Alphabet] : n \in 1 .. k } : IsInjective(s) }

(* A require or a let that comes after the field it reads, or before it.   *)
Late(s) == \A i \in DOMAIN s : s[i] \in {"q", "m"} => \E j \in 1 .. i - 1 : s[j] = "n"
Early(s) == ~Late(s)

Spelt(s) == Packet("big", [i \in DOMAIN s |-> Alphabet[s[i]]])

SoundWords == { s \in Words(3) : Late(s) }
SoundNames == { <<n>> : n \in DOMAIN Sound } \cup SoundWords
SoundSchemas ==
  [s \in SoundNames |-> IF s \in SoundWords THEN Spelt(s) ELSE Sound[s[1]]]
SoundInputs == [s \in SoundNames |-> IF s \in SoundWords THEN 3 ELSE 4]

(* Bit fields in a packet with a checksum, as in examples/ip/ipv4.wspec.   *)
SumSchemas ==
  Named1([ Ipv4 |-> Packet("big", <<Field("version", Bits(1)), Field("ihl", Bits(1)), Field("ttl", Num(1)),
                                    SumField("header_checksum", "internet")>>) ])
SumInputs == [s \in DOMAIN SumSchemas |-> 4]

EarlySchemas == [s \in { w \in Words(2) : Early(w) /\ "n" \in Range(w) } |-> Spelt(s)]
EarlyInputs == [s \in DOMAIN EarlySchemas |-> 0]

(* Typed and Portable: of what the analyzer accepts here, code is generated *)
(* that compiles, and that means the same in both languages. ReadsAreBound *)
(* says that the reads of what is accepted are bound.                      *)
ASSUME SoundIsPortable ==
  Schemas \in {SoundSchemas, SumSchemas} =>
    \A n \in DOMAIN Schemas :
      Accepted(Schemas[n]) /\ BoundBeforeUse(Schemas[n]) => WellTyped(Defs[n]) /\ MeansTheSame(Defs[n])
=============================================================================
