-------------------------------- MODULE Cli ---------------------------------
(***************************************************************************)
(* wirespec compile (cmd_compile and emit_module of wirespec-driver's      *)
(* cli.rs): once every module is compiled, the entry module, or with       *)
(* --recursive every module, is emitted and its files are written. Of the  *)
(* C backend's header (header.rs) the includes, the order of the structs   *)
(* and the names of the types in them are kept.                            *)
(*                                                                         *)
(* A project also has cli = [target, recursive, fuzz, full]; full: a write *)
(* to the output directory may fail.                                       *)
(***************************************************************************)
EXTENDS Pipeline

ASSUME CliAssumption ==
  \A p \in Projects : \A f \in p.files : p.name[f] \in Seq(Range(p.name[f]))

VARIABLES pending,  \* the artifacts of the module that are still to be written
          disk      \* the output directory: path -> artifact

cvars == <<vars, pvars, pending, disk>>

CInit == PInit /\ pending = << >> /\ disk = << >>

Compiling == PNext /\ UNCHANGED <<pending, disk>>

(* module_name.replace('.', "_")                                           *)
Prefix(f) == [i \in DOMAIN fs.name[f] |-> IF fs.name[f][i] = "." THEN "_" ELSE fs.name[f][i]]

(* Mutant: the entry is taken for the first module of the order.           *)
IsEntry_First(i) == fs.name[order[i]] = fs.name[order[1]]

(* The entry module is known by its name.                                  *)
IsEntry(i) == fs.name[order[i]] = fs.name[order[Len(order)]]

(* Mutant: --recursive is ignored.                                         *)
Selected_EntryOnly(i) == IsEntry(i)

Selected(i) == IsEntry(i) \/ fs.cli.recursive

(* Mutant: one turn too many.                                              *)
NextModule_OneMore == IF at <= Len(order) THEN at' = at + 1 /\ step' = "emit" /\ UNCHANGED status
                      ELSE step' = "exit" /\ status' = "ok" /\ UNCHANGED at

(* Mutant: the turn that skips a module does not advance.                  *)
Skip_Stay == /\ step = "emit" /\ ~Selected(at)
             /\ UNCHANGED cvars

MakeDir == /\ step = "mkdir" /\ step' = "emit"
           /\ UNCHANGED <<vars, at, registry, kahn, compiled, status, pending, disk>>

MakeDirFails == /\ step = "mkdir" /\ fs.cli.full
                /\ Stop("cannot create") /\ UNCHANGED <<vars, pending, disk>>

NextModule == IF at < Len(order) THEN at' = at + 1 /\ step' = "emit" /\ UNCHANGED status
              ELSE step' = "exit" /\ status' = "ok" /\ UNCHANGED at

Skip == /\ step = "emit" /\ ~Selected(at)
        /\ NextModule
        /\ UNCHANGED <<vars, registry, kahn, compiled, pending, disk>>

-----------------------------------------------------------------------------
(* The structs of a header, each with the structs of the header it holds.  *)
Structs(f) == NamesOf(OfKind(f, {"packet"}))

(* Mutant: the types are ordered before those they hold.                   *)
Held_Backwards(f) ==
  [n \in Structs(f) |-> { m \in Structs(f) : n \in { Follow(f, x) : x \in Declared(f, m).refs } }]

(* collect_field_type_refs                                                 *)
Held(f) ==
  [n \in Structs(f) |-> { Follow(f, x) : x \in Declared(f, n).refs } \cap Structs(f)]

Sort == /\ step = "emit" /\ Selected(at) /\ fs.cli.target = "c"
        /\ kahn' \in Starts(Held(order[at]))
        /\ step' = "sort"
        /\ UNCHANGED <<vars, at, registry, compiled, status, pending, disk>>

PopStruct == /\ step = "sort" /\ kahn.queue # << >>
             /\ kahn' \in Pops(kahn, Held(order[at]))
             /\ UNCHANGED <<vars, step, at, registry, compiled, status, pending, disk>>

(* The C types that the fields of structs name, by prefix and name; and    *)
(* those that the fields of states name, for which the prefix of an        *)
(* imported type is looked up (build_import_prefix_map).                   *)
FieldTypes(f) == UNION { d.refs : d \in OfKind(f, {"packet"}) }
StateTypes(f) == UNION { d.refs : d \in OfKind(f, {"machine"}) }
StructNames(f) ==
  { <<Prefix(f), Follow(f, n)>> : n \in { x \in FieldTypes(f) : Kind(f, x) = "packet" } }
ImportedFrom(m, n) == { x.from : x \in { y \in compiled[m].imports : y.name = n } }
Owner(m, n) == IF ImportedFrom(m, n) = {} THEN order[m] ELSE CHOOSE g \in ImportedFrom(m, n) : TRUE
StateNames(m) ==
  LET types == { Follow(order[m], n) :
                   n \in { x \in StateTypes(order[m]) : Kind(order[m], x) \in Types } }
  IN  { <<Prefix(Owner(m, n)), n>> : n \in types }

Header(m, structs) ==
  [from |-> order[m], structs |-> structs,
   includes |-> { Prefix(x.from) : x \in compiled[m].imports },
   structNames |-> StructNames(order[m]), stateNames |-> StateNames(m)]
Plain(m) == [from |-> order[m]]

(* What lower_and_emit puts in the sink: the harness only where there is   *)
(* something to parse.                                                     *)
CArtifacts(m, structs) ==
  LET p == Prefix(order[m])
  IN  <<[path |-> Append(p, ".h"), file |-> Header(m, structs)],
        [path |-> Append(p, ".c"), file |-> Plain(m)]>>
      \o (IF fs.cli.fuzz /\ structs # << >>
          THEN <<[path |-> p \o <<"_", "fuzz", ".c">>, file |-> Plain(m)]>> ELSE << >>)

(* Types left over by the algorithm are appended.                          *)
EmitC == /\ step = "sort" /\ kahn.queue = << >>
         /\ \E rest \in Orders(Structs(order[at]) \ Range(kahn.done)) :
              pending' = CArtifacts(at, kahn.done \o rest)
         /\ step' = "write" /\ kahn' = Idle
         /\ UNCHANGED <<vars, at, registry, compiled, status, disk>>

EmitRust == /\ step = "emit" /\ Selected(at) /\ fs.cli.target = "rust"
            /\ pending' = <<[path |-> Append(Prefix(order[at]), ".rs"), file |-> Plain(at)]>>
            /\ step' = "write"
            /\ UNCHANGED <<vars, at, registry, kahn, compiled, status, disk>>

(* A file that is there is overwritten.                                    *)
Stored(q, a) == [p \in DOMAIN disk \cup {q} |-> IF p = q THEN a ELSE disk[p]]

Write == /\ step = "write" /\ pending # << >>
         /\ disk' = Stored(pending[1].path, pending[1].file)
         /\ pending' = Tail(pending)
         /\ UNCHANGED <<vars, pvars>>

WriteFails == /\ step = "write" /\ pending # << >> /\ fs.cli.full
              /\ Stop("cannot write")
              /\ UNCHANGED <<vars, pending, disk>>

Written == /\ step = "write" /\ pending = << >>
           /\ NextModule
           /\ UNCHANGED <<vars, registry, kahn, compiled, pending, disk>>

CNext == Compiling \/ MakeDir \/ MakeDirFails \/ Skip \/ Sort \/ PopStruct \/ EmitC \/ EmitRust \/ Write \/ WriteFails \/ Written

(* One sequential process, which runs to its end.                          *)
CSpec == CInit /\ [][CNext]_cvars /\ WF_cvars(CNext)

-----------------------------------------------------------------------------
Headers == { q \in DOMAIN disk : q[Len(q)] = ".h" }
OwnPaths == \A i, j \in DOMAIN order : Prefix(order[i]) = Prefix(order[j]) => i = j

(* Type invariant: only modules of the order are emitted, and only ever    *)
(* one at a time.                                                          *)
CliTypeOK ==
  /\ step \in {"resolve", "analyze", "delegates", "mkdir", "emit", "sort", "write", "exit"}
  /\ at \in 0 .. Len(order)
  /\ pending \in Seq(Range(pending))
  /\ \A a \in Range(pending) : a.file.from = order[at]
  /\ \A q \in DOMAIN disk : disk[q].from \in Range(order)

(* A header on disk has each struct of its module once, and if they can be *)
(* ordered at all, each after the structs it holds: C needs a struct       *)
(* complete before it is a member.                                         *)
StructsAfterMembers ==
  \A q \in Headers :
    LET s == disk[q].structs
        members == [n \in Range(s) |->
          { Follow(disk[q].from, x) : x \in Declared(disk[q].from, n).refs } \cap Range(s)]
    IN  /\ Range(s) = Structs(disk[q].from)
        /\ \A i, j \in DOMAIN s : s[i] = s[j] => i = j
        /\ Acyclic(members) =>
             \A i \in DOMAIN s : \A n \in members[s[i]] : \E j \in 1 .. i - 1 : s[j] = n

(* The type n is the module's own or imported by name. The flat registry   *)
(* lets a module use others too: those get the prefix of the module that   *)
(* uses them, which no header declares.                                    *)
DeclaredOrImported(m, n) == \/ n \in NamesOf(OfKind(order[m], Types))
                            \/ ImportedFrom(m, n) # {}

(* With --recursive and modules that do not share an output path, at every *)
(* moment, whatever failure comes next: what a header includes is on disk, *)
(* and each type its state machines name, if the module declares it or     *)
(* imports it by name, is declared under the prefix the header gives it,   *)
(* in that header or in one it includes.                                   *)
IncludesNeverDangle ==
  (fs.cli.recursive /\ OwnPaths) =>
    \A q \in Headers :
      /\ \A p \in disk[q].includes : Append(p, ".h") \in Headers
      /\ \A m \in DOMAIN compiled : \A x \in disk[q].stateNames :
           order[m] = disk[q].from /\ DeclaredOrImported(m, x[2]) =>
             \/ /\ x[1] = Prefix(disk[q].from)
                /\ x[2] \in NamesOf(OfKind(disk[q].from, Types))
             \/ /\ x[1] \in disk[q].includes
                /\ x[2] \in NamesOf(OfKind(disk[Append(x[1], ".h")].from, Types))

(* `Build a map from imported type name to the source prefix that defines  *)
(* it. Used to emit the correct C type name for imported types.`           *)
StructNamesAreDefined ==
  (fs.cli.recursive /\ OwnPaths) =>
    \A q \in Headers : \A x \in disk[q].structNames :
      \/ x[1] = Prefix(disk[q].from) /\ x[2] \in Range(disk[q].structs)
      \/ x[1] \in disk[q].includes

(* A successful compilation leaves the entry's own files, also when        *)
(* another module has the entry's name or a name that ends up at the same  *)
(* path.                                                                   *)
EntryIsWritten ==
  status = "ok" =>
    LET entry == order[Len(order)]
    IN  \A e \in IF fs.cli.target = "c" THEN {".h", ".c"} ELSE {".rs"} :
          LET q == Append(Prefix(entry), e)
          IN  q \in DOMAIN disk /\ disk[q].from = entry

(* Whatever the imports, the delegates and the structs, the command ends.  *)
ExitsAtLast == <>(step = "exit" /\ status # "running")
=============================================================================
