------------------------------ MODULE Runtime ------------------------------
(***************************************************************************)
(* The support library of the generated code (crates/wirespec-rt): a       *)
(* cursor over the input, a writer over the output, and the checksums.     *)
(* A byte has ByteBits bits, so that a run can go through every input.     *)
(***************************************************************************)
EXTENDS Integers, SequencesExt

CONSTANTS ByteBits,
          IntBits   \* the bits of a C int and of a uint32_t, 32 in the code

ASSUME ByteBitsAssumption == ByteBits \in Nat \ {0}
ASSUME IntBitsAssumption == IntBits \in Nat \ {0}

(* Powers of two, as a function: a proof unfolds it one step at a time.    *)
TwoTo[n \in Nat] == IF n = 0 THEN 1 ELSE 2 * TwoTo[n - 1]

Base == TwoTo[ByteBits]
Byte == 0 .. Base - 1

(* from_be_bytes and from_le_bytes, to_be_bytes and to_le_bytes. No        *)
(* endianness is big endian.                                               *)
Number(bs, e) ==
  FoldLeft(LAMBDA v, b : v * Base + b, 0, IF e = "little" THEN Reverse(bs) ELSE bs)

Octets(v, n, e) ==
  [i \in 1 .. n |-> (v \div TwoTo[ByteBits * (IF e = "little" THEN i - 1 ELSE n - i)]) % Base]

(* A cursor is a window lo .. hi of the input with a position in it; the   *)
(* code's data slice is the window, its pos is pos - lo.                   *)
NewCursor(lo, hi) == [lo |-> lo, pos |-> lo, hi |-> hi]

Fits(c, n) == c.pos + n <= c.hi

Remaining(c) == c.hi - c.pos

Advance(c, n) == [c EXCEPT !.pos = @ + n]

SubCursor(c, n) == NewCursor(c.pos, c.pos + n)

(* The view a read of n bytes returns: no bytes are copied.                *)
View(c, n) == [from |-> c.pos, to |-> c.pos + n]

Slice(data, view) == SubSeq(data, view.from + 1, view.to)

(* A writer: what it wrote, and the size of its buffer. A write that does  *)
(* not fit writes nothing.                                                 *)
HasRoom(w, n) == Len(w.out) + n <= w.cap

Put(w, bs) == [w EXCEPT !.out = @ \o bs]

(* ones_complement_sum: words of two bytes, big endian, an odd last byte   *)
(* in the upper half; carries folded at the end; complemented.             *)
WordMax == Base * Base - 1

Carried[n \in Nat] == IF n <= WordMax THEN n ELSE Carried[(n % (WordMax + 1)) + (n \div (WordMax + 1))]

InternetSum(bs) ==
  WordMax - Carried[FoldLeftDomain(LAMBDA s, i : s + (IF i % 2 = 1 THEN bs[i] * Base ELSE bs[i]),
                                   0, bs)]

(* raw_fletcher16                                                          *)
Fletcher(bs) ==
  LET sums == FoldLeft(LAMBDA s, b : LET a == (s[1] + b) % (Base - 1)
                                     IN  <<a, (s[2] + a) % (Base - 1)>>, <<0, 0>>, bs)
  IN  sums[2] * Base + sums[1]

(* The bytes with n of them from offset at counted as zero: skipped by     *)
(* _verify, overwritten by _compute.                                       *)
Zeroed(bs, at, n) == [i \in 1 .. Len(bs) |-> IF i > at /\ i <= at + n THEN 0 ELSE bs[i]]

Patched(bs, at, new) ==
  [i \in 1 .. Len(bs) |-> IF i > at /\ i <= at + Len(new) THEN new[i - at] ELSE bs[i]]

(* internet_checksum_compute                                               *)
InternetPatch(bs, at) == Patched(bs, at, Octets(InternetSum(Zeroed(bs, at, 2)), 2, "big"))

(* fletcher16_verify: the value of the field the bytes should carry.       *)
FletcherOf(bs, at) == Fletcher(Zeroed(bs, at, 2))
=============================================================================
