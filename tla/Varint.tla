------------------------------- MODULE Varint -------------------------------
(***************************************************************************)
(* The functions generated for variable-length integers, in Rust and in C  *)
(* (emit_varint of both backends). A value has WordBits bits, 64 in the    *)
(* code.                                                                   *)
(*                                                                         *)
(* [enc |-> "prefix", bits, branches, strict]: the first bits of the first *)
(*   byte select a branch [prefix, value_bits].                            *)
(* [enc |-> "cont", bits, max, order]: bits value bits in each byte, at    *)
(*   most max bytes; the bits above them say that another byte follows.    *)
(*                                                                         *)
(* A parse takes the bytes that are left and yields [err, v, n], the value *)
(* and the bytes read; a serialize yields [err, out], with the bytes       *)
(* written before an error.                                                *)
(***************************************************************************)
EXTENDS Runtime

CONSTANT WordBits

ASSUME WordBitsAssumption == WordBits \in Nat \ {0}

MaxWord == TwoTo[WordBits] - 1

SmallerOf(a, b) == IF a < b THEN a ELSE b

(* lower_varint_prefix_match                                               *)
TotalBytes(vi, b) == (vi.bits + b.value_bits + ByteBits - 1) \div ByteBits
MaxValue(b) == SmallerOf(TwoTo[b.value_bits] - 1, MaxWord)
Branches(vi) == DOMAIN vi.branches
MaxBytes(vi) ==
  CHOOSE m \in { TotalBytes(vi, vi.branches[i]) : i \in Branches(vi) } :
    \A i \in Branches(vi) : TotalBytes(vi, vi.branches[i]) <= m

Parsed(v, n) == [err |-> "ok", v |-> v, n |-> n]
NotParsed(err, n) == [err |-> err, v |-> 0, n |-> n]

(* The arm of the prefix, and the value below the prefix.                  *)
PrefixOf(vi, byte) == byte \div TwoTo[ByteBits - vi.bits]
PrefixArms(vi, bs) == { i \in Branches(vi) : vi.branches[i].prefix = PrefixOf(vi, bs[1]) }
BelowPrefix(vi, bs, n) == Number(<<bs[1] % TwoTo[ByteBits - vi.bits]>> \o SubSeq(bs, 2, n), "big")

(* @strict: with the max_value of the branch before in the declaration.    *)
NotCanonical(vi, i, v) == /\ vi.strict
                          /\ i > 1
                          /\ v <= MaxValue(vi.branches[i - 1])

FirstArm(vi, bs) == CHOOSE i \in PrefixArms(vi, bs) : \A j \in PrefixArms(vi, bs) : i <= j

RustTake(vi, bs, i, n) ==
  IF n > Len(bs) THEN NotParsed("ShortBuffer", Len(bs))
  ELSE IF NotCanonical(vi, i, BelowPrefix(vi, bs, n)) THEN NotParsed("Noncanonical", n)
  ELSE Parsed(BelowPrefix(vi, bs, n), n)

RustBranch(vi, bs, i) == RustTake(vi, bs, i, TotalBytes(vi, vi.branches[i]))

RustParsePrefix(vi, bs) ==
  IF bs = <<>> THEN NotParsed("ShortBuffer", 0)
  ELSE IF PrefixArms(vi, bs) = {} THEN NotParsed("InvalidTag", 1)
  ELSE RustBranch(vi, bs, FirstArm(vi, bs))

(* The first branch, in declaration order, that can hold the value.        *)
Holding(vi, v) == { i \in Branches(vi) : v <= MaxValue(vi.branches[i]) }
FirstHolding(vi, v) == CHOOSE i \in Holding(vi, v) : \A j \in Holding(vi, v) : i <= j

PrefixBytes(vi, b, v) ==
  [Octets(v, TotalBytes(vi, b), "big") EXCEPT ![1] = b.prefix * TwoTo[ByteBits - vi.bits] + @]

RustWritePrefix(vi, v) ==
  IF Holding(vi, v) = {} THEN [err |-> "Overflow", out |-> <<>>]
  ELSE [err |-> "ok", out |-> PrefixBytes(vi, vi.branches[FirstHolding(vi, v)], v)]

RustSizePrefix(vi, v) ==
  IF Holding(vi, v) = {} THEN MaxBytes(vi) ELSE TotalBytes(vi, vi.branches[FirstHolding(vi, v)])

(* Continuation bits. Byte i of an encoding contributes its value bits at  *)
(* shift (i - 1) * bits, less than the width of the word; what is shifted  *)
(* out of the word is lost.                                                *)
Chunk(vi, byte) == byte % TwoTo[vi.bits]
Stops(vi, byte) == byte = Chunk(vi, byte)
Value(vi, bs, n) ==
  FoldLeft(LAMBDA v, i : v + (Chunk(vi, bs[i]) * TwoTo[(i - 1) * vi.bits]), 0,
           [i \in 1 .. n |-> i]) % (MaxWord + 1)
LastByte(vi, bs) == { n \in 1 .. SmallerOf(vi.max, Len(bs)) :
                        Stops(vi, bs[n]) /\ \A k \in 1 .. n - 1 : ~Stops(vi, bs[k]) }

OnlyOne(S) == CHOOSE n \in S : TRUE
RustTakeCont(vi, bs, n) == Parsed(Value(vi, bs, n), n)

RustParseCont(vi, bs) ==
  IF LastByte(vi, bs) # {} THEN RustTakeCont(vi, bs, OnlyOne(LastByte(vi, bs)))
  ELSE IF Len(bs) < vi.max THEN NotParsed("ShortBuffer", Len(bs)) ELSE NotParsed("Overflow", vi.max)

(* The bytes a value needs, and the first n of them: all but the last one  *)
(* of the value carry the continuation bits.                               *)
Needed(vi, v) == CHOOSE n \in 1 .. WordBits : /\ v < TwoTo[n * vi.bits]
                                              /\ n > 1 => v >= TwoTo[(n - 1) * vi.bits]
ChunkOf(vi, v, i) == (v \div TwoTo[(i - 1) * vi.bits]) % TwoTo[vi.bits]
ContBytes(vi, v, n) ==
  [i \in 1 .. n |-> ChunkOf(vi, v, i)
                    + (IF i < Needed(vi, v) THEN Base - TwoTo[vi.bits] ELSE 0)]

RustWriteCont(vi, v) ==
  IF Needed(vi, v) <= vi.max THEN [err |-> "ok", out |-> ContBytes(vi, v, Needed(vi, v))]
  ELSE [err |-> "Overflow", out |-> ContBytes(vi, v, vi.max)]

RustSizeCont(vi, v) == SmallerOf(Needed(vi, v), vi.max)

RustParse(vi, bs) == IF vi.enc = "prefix" THEN RustParsePrefix(vi, bs) ELSE RustParseCont(vi, bs)
RustWrite(vi, v) == IF vi.enc = "prefix" THEN RustWritePrefix(vi, v) ELSE RustWriteCont(vi, v)
RustSize(vi, v) == IF vi.enc = "prefix" THEN RustSizePrefix(vi, v) ELSE RustSizeCont(vi, v)

-----------------------------------------------------------------------------
(***************************************************************************)
(* The C functions. The order of a continuation-bit integer is honoured;   *)
(* the bit that asks for another byte is always the topmost one. A         *)
(* serialize is told the room in the buffer and checks it as it goes.      *)
(***************************************************************************)
CNotCanonical(vi, p, v) == vi.strict /\ p > 0 /\ v <= MaxValue(vi.branches[p])

CTake(vi, bs, p, n) ==
  IF n > Len(bs) THEN NotParsed("ShortBuffer", 0)
  ELSE IF CNotCanonical(vi, p, BelowPrefix(vi, bs, n)) THEN NotParsed("Noncanonical", 0)
  ELSE Parsed(BelowPrefix(vi, bs, n), n)

CBranch(vi, bs, b) == CTake(vi, bs, b.prefix, TotalBytes(vi, b))

CParsePrefix(vi, bs) ==
  IF bs = <<>> THEN NotParsed("ShortBuffer", 0)
  ELSE IF PrefixArms(vi, bs) = {} THEN NotParsed("InvalidTag", 0)
  ELSE CBranch(vi, bs, vi.branches[OnlyOne(PrefixArms(vi, bs))])

CRoom(bs, room) ==
  IF Len(bs) > room THEN [err |-> "ShortBuffer", out |-> <<>>] ELSE [err |-> "ok", out |-> bs]

CWritePrefix(vi, v, room) ==
  IF Holding(vi, v) = {} THEN [err |-> "Overflow", out |-> <<>>]
  ELSE CRoom(PrefixBytes(vi, vi.branches[FirstHolding(vi, v)], v), room)

(* The last branch serves every value the others do not hold.              *)
CSizePrefix(vi, v) ==
  TotalBytes(vi, vi.branches[IF Holding(vi, v) = {} THEN Len(vi.branches)
                             ELSE FirstHolding(vi, v)])

More(byte) == byte >= Base \div 2
CLastByte(vi, bs) == { n \in 1 .. SmallerOf(vi.max, Len(bs)) :
                         ~More(bs[n]) /\ \A k \in 1 .. n - 1 : More(bs[k]) }
CValue(vi, bs, n) ==
  Value(vi, IF vi.order = "big" THEN Reverse(SubSeq(bs, 1, n)) ELSE bs, n)

CTakeCont(vi, bs, n) == Parsed(CValue(vi, bs, n), n)

CParseCont(vi, bs) ==
  IF CLastByte(vi, bs) # {} THEN CTakeCont(vi, bs, OnlyOne(CLastByte(vi, bs)))
  ELSE NotParsed(IF Len(bs) < vi.max THEN "ShortBuffer" ELSE "Overflow", 0)

(* The value's chunks in their order on the wire; all but the last byte    *)
(* carry the topmost bit.                                                  *)
CContBytes(vi, v, n) ==
  [i \in 1 .. n |-> ChunkOf(vi, v, IF vi.order = "big" THEN n + 1 - i ELSE i)
                    + (IF i < n THEN Base \div 2 ELSE 0)]

CWriteBytes(vi, v, n, room) ==
  IF n <= vi.max THEN CRoom(CContBytes(vi, v, n), room)
  ELSE [err |-> IF vi.order = "little" /\ room < vi.max THEN "ShortBuffer" ELSE "Overflow",
        out |-> <<>>]

CWriteCont(vi, v, room) == CWriteBytes(vi, v, Needed(vi, v), room)

CSizeCont(vi, v) == SmallerOf(Needed(vi, v), vi.max)

CParse(vi, bs) == IF vi.enc = "prefix" THEN CParsePrefix(vi, bs) ELSE CParseCont(vi, bs)
CWrite(vi, v, room) ==
  IF vi.enc = "prefix" THEN CWritePrefix(vi, v, room) ELSE CWriteCont(vi, v, room)
CSize(vi, v) == IF vi.enc = "prefix" THEN CSizePrefix(vi, v) ELSE CSizeCont(vi, v)
=============================================================================
