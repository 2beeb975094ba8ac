------------------------------- MODULE Codec -------------------------------
(***************************************************************************)
(* The round trip of the generated code, as the fuzz harness the C backend *)
(* generates drives it (emit_fuzz_source): parse an input, serialize what  *)
(* was parsed, parse the output, serialize again. The harness stays in one *)
(* language; here the second half may be the other backend's code, so that *)
(* one end of a connection speaks Rust and the other one C.                *)
(*                                                                         *)
(* The parsers are those of modules RustParser and CParser. The            *)
(* serializers are a parameter: what is said of a parse alone does not     *)
(* depend on them. A run gives them the operators of RustSerializer and    *)
(* CSerializer.                                                            *)
(***************************************************************************)
EXTENDS Sema, Varint

CONSTANTS MaxCases,    \* values a C switch lists one by one
          MaxNesting,  \* a value holds values of other types to this depth
          MaxInput,    \* the longest input, by the name of the declaration
          MaxOutput,   \* the size of the harness's buffers
          SerializeBy(_, _, _, _),  \* language, type, value, buffer size
          LengthBy(_, _, _)         \* language, type, value

ASSUME CodecAssumption == /\ MaxCases \in Nat /\ MaxNesting \in Nat /\ MaxOutput \in Nat
                          /\ MaxInput \in [DOMAIN Schemas -> Nat]

(* No type holds itself, which no generated struct could: the types whose  *)
(* values hold others to a depth less than n.                              *)
Shallow[n \in Nat] ==
  IF n = 0 THEN {}
  ELSE { t \in DOMAIN Schemas :
           \A u \in TypesHeld(Schemas[t]) : u \in DOMAIN Schemas => u \in Shallow[n - 1] }

ASSUME NestingAssumption == \A t \in DOMAIN Schemas : t \in Shallow[MaxNesting + 1]

Defs == [n \in DOMAIN Schemas |-> Lower(Schemas[n])]

R == INSTANCE RustParser
C == INSTANCE CParser

Languages == {"rust", "c"}

(* What a caller of parse sees.                                            *)
ParseResult(r) ==
  IF r.err # "ok" THEN [err |-> r.err]
  ELSE [err |-> "ok", v |-> r.v, used |-> r.cur.pos, views |-> r.views]

ParseBy(l, name, bytes) ==
  ParseResult(IF l = "rust" THEN R!RustParseType(name, bytes) ELSE C!CParseType(name, bytes))

VARIABLES schema, data, from, to,  \* the type, the input, the two backends
          phase,                   \* the call to come, or how it ended
          obj, wire, obj2, wire2   \* what the four calls returned

vars == <<schema, data, from, to, phase, obj, wire, obj2, wire2>>

Nothing == [err |-> "none"]

Inputs == UNION { [1 .. n -> Byte] : n \in 0 .. MaxInput[schema] }

Init == /\ schema \in DOMAIN Schemas /\ data = <<>>
        /\ from = "rust" /\ to = "rust"
        /\ phase = "compile"
        /\ obj = Nothing /\ wire = Nothing /\ obj2 = Nothing /\ wire2 = Nothing

(* The analyzer and the layout refuse the declaration, or code is          *)
(* generated for it.                                                       *)
Compile == /\ phase = "compile"
           /\ phase' = IF Accepted(Schemas[schema]) THEN "receive" ELSE "refused"
           /\ UNCHANGED <<schema, data, from, to, obj, wire, obj2, wire2>>

(* An input for the code, and the languages of the two halves.             *)
Receive == /\ phase = "receive" /\ phase' = "parse"
           /\ data' \in Inputs
           /\ from' \in Languages /\ to' \in Languages
           /\ UNCHANGED <<schema, obj, wire, obj2, wire2>>

(* Phase 1: the input may be refused.                                      *)
Parse == /\ phase = "parse"
         /\ obj' = ParseBy(from, schema, data)
         /\ phase' = IF obj'.err = "ok" THEN "serialize" ELSE "rejected"
         /\ UNCHANGED <<schema, data, from, to, wire, obj2, wire2>>

(* Phase 2: the value may not fit the buffer.                              *)
Serialize == /\ phase = "serialize"
             /\ wire' = SerializeBy(from, schema, obj.v, MaxOutput)
             /\ phase' = IF wire'.err = "ok" THEN "reparse" ELSE "rejected"
             /\ UNCHANGED <<schema, data, from, to, obj, obj2, wire2>>

(* Phase 3: the output must be accepted, all of it.                        *)
Reparse == /\ phase = "reparse"
           /\ obj2' = ParseBy(to, schema, wire.out)
           /\ phase' = IF obj2'.err = "ok" THEN IF obj2'.used = Len(wire.out)
                                                THEN "reserialize" ELSE "trap"
                       ELSE "trap"
           /\ UNCHANGED <<schema, data, from, to, obj, wire, wire2>>

(* Phase 4: the same bytes again.                                          *)
Reserialize == /\ phase = "reserialize"
               /\ wire2' = SerializeBy(to, schema, obj2.v, MaxOutput)
               /\ phase' = IF wire2' = wire THEN "stable" ELSE "trap"
               /\ UNCHANGED <<schema, data, from, to, obj, wire, obj2>>

Next == Compile \/ Receive \/ Parse \/ Serialize \/ Reparse \/ Reserialize

Spec == Init /\ [][Next]_vars

-----------------------------------------------------------------------------
Before == {"compile", "refused", "receive", "parse"}
Phases == Before \cup {"serialize", "reparse", "reserialize", "rejected", "stable", "trap"}

(* The phases; what a parse uses lies in the input.                        *)
TypeOK == /\ phase \in Phases
          /\ phase \in Before => obj = Nothing
          /\ phase \notin Before \cup {"rejected"} => obj.err = "ok" /\ obj.used \in 0 .. Len(data)

Parsed1 == phase = "serialize"
Written == phase = "reparse"

(* What either backend wrote after a successful parse, the other accepts   *)
(* to the last byte and writes again unchanged: no harness ever traps.     *)
RoundTrips == phase # "trap"

(* "Re-parse our own output -- must succeed", "Re-serialize -- must be      *)
(* identical" (emit_fuzz_source): the harness, C at both ends, never traps. *)
HarnessIsQuiet == from = "c" /\ to = "c" => phase # "trap"

(* The second parse yields the value the first one did, up to the checksum *)
(* field, which serialize computes itself (the Internet checksum has two   *)
(* zeros): nothing was lost or changed by a serialize and a parse of       *)
(* either language.                                                        *)
Payload(v) ==
  LET d == Defs[schema]
  IN  IF d.kind = "packet" /\ HasChecksum(d.items)
      THEN Restrict(v, DOMAIN v \ {ChecksumField(d.items).name}) ELSE v

ValueSurvives == phase \in {"reserialize", "stable"} => Payload(obj2.v) = Payload(obj.v)

(* The two backends accept the same inputs, refuse the others with the     *)
(* same error, and read the same value from the same number of bytes.      *)
BackendsAgree ==
  phase \in {"serialize", "rejected"} /\ wire = Nothing => ParseBy(to, schema, data) = obj

(* What serialize writes are bytes that fit the buffer; serialized_len is  *)
(* their number, a buffer of that size is enough, and any smaller one is   *)
(* refused as too short.                                                   *)
LengthIsExact ==
  Written => /\ Len(wire.out) <= MaxOutput /\ Range(wire.out) \subseteq Byte
             /\ LengthBy(from, schema, obj.v) = Len(wire.out)
             /\ SerializeBy(from, schema, obj.v, Len(wire.out)).err = "ok"
             /\ \A cap \in 0 .. Len(wire.out) - 1 :
                  SerializeBy(from, schema, obj.v, cap).err = "ShortBuffer"

(* Every slice a parse hands out lies in the scope it was read in, and     *)
(* every scope in what the parse consumed: the bytes a within or a length  *)
(* field announces are never exceeded.                                     *)
ViewsInScope ==
  Parsed1 => \A w \in obj.views : /\ w.lo <= w.view.from /\ w.view.to <= w.hi
                                  /\ w.view.to <= obj.used

(* A parse depends on nothing behind what it consumed: cut off there, the  *)
(* input is read as the same value.                                        *)
ReadsAgain(o) == o.err = "ok" /\ o.v = obj.v /\ o.used = obj.used

NothingBehindIsRead == Parsed1 => ReadsAgain(ParseBy(from, schema, SubSeq(data, 1, obj.used)))

(* What the analyzer accepts reads no name that is not declared before:    *)
(* the generated code never uses a variable it has not assigned.           *)
ReadsAreBound == phase = "receive" => BoundBeforeUse(Schemas[schema])
=============================================================================
