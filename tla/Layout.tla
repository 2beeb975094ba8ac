------------------------------- MODULE Layout -------------------------------
(***************************************************************************)
(* Bit groups (crates/wirespec-layout/src/bitgroup.rs): runs of            *)
(* consecutive bit fields of a scope, packed into one integer.             *)
(*                                                                         *)
(* A scope's wire fields are a sequence of fields; a field's bits is the   *)
(* width of a bit field, 0 for any other field.                            *)
(***************************************************************************)
EXTENDS Runtime

CONSTANT MaxGroupBytes  \* 64 bits

ASSUME MaxGroupBytesAssumption == MaxGroupBytes \in Nat \ {0}

(* The run of bit fields that position i of the widths ws belongs to.      *)
GroupFirst(ws, i) ==
  CHOOSE a \in 1 .. i : /\ \A k \in a .. i : ws[k] > 0
                        /\ a > 1 => ws[a - 1] = 0
GroupLast(ws, i) ==
  CHOOSE b \in i .. Len(ws) : /\ \A k \in i .. b : ws[k] > 0
                              /\ b < Len(ws) => ws[b + 1] = 0

(* Bits of the fields from a up to, and not including, i.                  *)
BitsBetween(ws, a, i) ==
  LET Sum[k \in Nat] == IF k <= a THEN 0 ELSE Sum[k - 1] + ws[k - 1] IN Sum[i]

TotalBits(ws, i) == BitsBetween(ws, GroupFirst(ws, i), GroupLast(ws, i) + 1)

(* finalize_group: a group must fill whole bytes and fit the largest       *)
(* integer.                                                                *)
GroupsAccepted(ws) ==
  \A i \in DOMAIN ws : ws[i] > 0 => /\ TotalBits(ws, i) % ByteBits = 0
                                    /\ TotalBits(ws, i) <= MaxGroupBytes * ByteBits

(* The shift of a member: the first field has the most significant bits in *)
(* a big-endian group, the least significant in a little-endian one.       *)
Offset(ws, i, e) ==
  LET before == BitsBetween(ws, GroupFirst(ws, i), i)
  IN  IF e = "little" THEN before ELSE TotalBits(ws, i) - before - ws[i]

(* The integer a group is read into and written from: the generated code   *)
(* only has 1, 2, 4 and 8 byte ones (bitgroup_read_method).                *)
ContainerBytes(bits) ==
  CHOOSE n \in {1, 2, 4, 8} : /\ n * ByteBits >= bits
                              /\ \A k \in {1, 2, 4, 8} : k * ByteBits >= bits => n <= k

(* serialized_len counts the bytes the group has.                          *)
GroupBytes(bits) == (bits + ByteBits - 1) \div ByteBits

Extract(container, shift, width) == (container \div TwoTo[shift]) % TwoTo[width]
=============================================================================
