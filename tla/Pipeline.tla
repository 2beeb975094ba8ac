------------------------------ MODULE Pipeline ------------------------------
(***************************************************************************)
(* compile() of wirespec-driver/src/driver.rs: the modules that resolution *)
(* ordered are compiled one by one against a flat registry of the types    *)
(* declared so far (compile_module and collect_external_types in           *)
(* pipeline.rs, names and delegates in the analyzer of wirespec-sema).     *)
(*                                                                         *)
(* A project has these fields besides those of module Imports:             *)
(*   name[f]   the module name, a sequence of words and of "." and "_"     *)
(*   decls[f]  [name, exported, kind, refs]: kind is "packet" (a packet,   *)
(*             frame or capsule), "varint" (an integer, enum or flags),    *)
(*             "machine", "alias" or "const"; refs are the types its       *)
(*             fields name, the target of an alias                         *)
(* What the fields of a packet must satisfy besides is module Sema's.      *)
(***************************************************************************)
EXTENDS Resolve, Kahn

CONSTANT AliasDepth  \* 32: an alias of an alias of ...

Types == {"packet", "varint", "machine"}

Described(p) ==
  /\ DOMAIN p.name = p.files /\ DOMAIN p.decls = p.files
  /\ \A f \in p.files : /\ IsFiniteSet(p.decls[f])
                       /\ \A d \in p.decls[f] : d.kind \in Types \cup {"alias", "const"}

ASSUME PipelineAssumption == AliasDepth \in Nat /\ \A p \in Projects : Described(p)

VARIABLES step,      \* where compile() is
          at,        \* the index in order of the module worked on
          registry,  \* the external types, by name: [from, kind]
          kahn,      \* the run of Kahn's algorithm
          compiled,  \* per module of order: [imports, delegates]
          status     \* "running", "ok", or why the command failed

pvars == <<step, at, registry, kahn, compiled, status>>

Idle == [deg |-> << >>, queue |-> << >>, done |-> << >>]

PInit == /\ Init
         /\ step = "resolve" /\ at = 0 /\ status = "running"
         /\ registry = << >> /\ compiled = << >> /\ kahn = Idle

Stop(why) == step' = "exit" /\ status' = why /\ UNCHANGED <<at, registry, kahn, compiled>>

Resolving == step = "resolve" /\ Next /\ UNCHANGED pvars

ResolveFailed == /\ step = "resolve" /\ result \notin {"running", "ok"}
                 /\ Stop(result) /\ UNCHANGED vars

Begin == /\ step = "resolve" /\ result = "ok"
         /\ step' = "analyze" /\ at' = 1
         /\ UNCHANGED <<vars, registry, kahn, compiled, status>>

-----------------------------------------------------------------------------
(* The analyzer's names, in the file f.                                    *)
Reserved == {"bool", "null", "fill", "remaining", "in_state", "all", "child_state_changed",
             "src", "dst"}
Primitives == {"u8", "u16", "u24", "u32", "u64", "i8", "i16", "i32", "i64", "bool", "bit"}

Named(f, n) == { d \in fs.decls[f] : d.name = n }
OfKind(f, kinds) == { d \in fs.decls[f] : d.kind \in kinds }
NamesOf(ds) == { d.name : d \in ds }

(* Mutant: a type another module declares is overridden.                   *)
Refused_LocalOnly(f, d) == d.name \in Reserved \/ Cardinality(Named(f, d.name)) > 1

(* check_reserved, register, register_alias                                *)
Refused(f, d) == \/ d.name \in Reserved
                 \/ d.name \in DOMAIN registry
                 \/ Cardinality(Named(f, d.name)) > 1

(* resolve_type_name: aliases first, a bounded number of them; then the    *)
(* primitives; then the declarations, external ones included.              *)
IsAlias(f, n) == n \in NamesOf(OfKind(f, {"alias"}))
Declared(f, n) == CHOOSE d \in Named(f, n) : TRUE
TargetOf(f, n) == IF IsAlias(f, n) THEN CHOOSE t \in Declared(f, n).refs : TRUE ELSE n
Follow(f, n) ==
  LET chain[i \in 0 .. AliasDepth] == IF i = 0 THEN n ELSE TargetOf(f, chain[i - 1])
  IN  chain[AliasDepth]
KindOf(f, n) ==
  IF IsAlias(f, n) THEN "none"
  ELSE IF n \in Primitives THEN "primitive"
  ELSE IF Named(f, n) # {} THEN Declared(f, n).kind
  ELSE IF n \in DOMAIN registry THEN registry[n].kind ELSE "none"
Kind(f, n) == KindOf(f, Follow(f, n))

(* resolve_named_type: the fields of a packet. A state's field of a type   *)
(* that does not resolve becomes one byte.                                 *)
TypesResolve(f) ==
  \A d \in OfKind(f, {"packet"}) : \A n \in d.refs :
    Kind(f, n) \in {"primitive", "packet", "varint"}

(* The machines the states of a machine hold, and the graph the analyzer   *)
(* orders: machines of other modules are not in it.                        *)
Children(f, d) == { Follow(f, n) : n \in { m \in d.refs : Kind(f, m) = "machine" } }
Delegates(f) ==
  [n \in NamesOf(OfKind(f, {"machine"})) |-> Children(f, Declared(f, n))]
Parents(delegates) ==
  [n \in DOMAIN delegates |-> { m \in DOMAIN delegates : n \in delegates[m] }]

Analyze ==
  /\ step = "analyze"
  /\ IF \E d \in fs.decls[order[at]] : Refused(order[at], d) THEN Stop("duplicate")
     ELSE IF ~TypesResolve(order[at]) THEN Stop("bad type")
     ELSE /\ kahn' \in Starts(Parents(Delegates(order[at])))
          /\ step' = "delegates"
          /\ UNCHANGED <<at, registry, compiled, status>>
  /\ UNCHANGED vars

PopMachine ==
  /\ step = "delegates" /\ kahn.queue # << >>
  /\ kahn' \in Pops(kahn, Parents(Delegates(order[at])))
  /\ UNCHANGED <<vars, step, at, registry, compiled, status>>

(* The imports of a module, by item, that are in the registry: from which  *)
(* module the registry has them.                                           *)
Imported(f) ==
  { [name |-> i.item, from |-> registry[i.item].from] :
      i \in { j \in Range(fs.imports[f]) : j.item \in DOMAIN registry } }

(* Mutant: what a module imports is registered as its own.                 *)
Collected_Reexports(f) ==
  [n \in NamesOf(OfKind(f, Types)) \cup NamesOf(Imported(f)) |->
     [from |-> f, kind |-> IF Named(f, n) = {} THEN registry[n].kind ELSE Declared(f, n).kind]]
  @@ registry

(* collect_external_types: exported or not, but neither aliases nor        *)
(* consts.                                                                 *)
Collected(f) ==
  LET own == NamesOf(OfKind(f, Types))
  IN  [n \in own \cup DOMAIN registry |->
         IF n \in own THEN [from |-> f, kind |-> Declared(f, n).kind] ELSE registry[n]]

(* The verdict on the delegates, the rest of compile_module, and the       *)
(* registration of what the module declares.                               *)
CompileModule ==
  /\ step = "delegates" /\ kahn.queue = << >>
  /\ IF Len(kahn.done) < Cardinality(OfKind(order[at], {"machine"})) THEN Stop("circular delegates")
     ELSE /\ registry' = Collected(order[at])
          /\ compiled' = Append(compiled, [imports |-> Imported(order[at]),
                                           delegates |-> Delegates(order[at])])
          /\ IF at < Len(order) THEN at' = at + 1 /\ step' = "analyze"
             ELSE at' = 1 /\ step' = "mkdir"
          /\ kahn' = Idle /\ UNCHANGED status
  /\ UNCHANGED vars

PNext == Resolving \/ ResolveFailed \/ Begin \/ Analyze \/ PopMachine \/ CompileModule

-----------------------------------------------------------------------------
(* Type invariant: the registry holds types of modules compiled before.    *)
PipelineTypeOK ==
  /\ compiled \in Seq(Range(compiled)) /\ Len(compiled) <= Len(order)
  /\ step \in {"analyze", "delegates"} => at = Len(compiled) + 1 /\ at <= Len(order)
  /\ \A n \in DOMAIN registry :
       /\ registry[n].kind \in Types
       /\ registry[n].from \in { order[i] : i \in DOMAIN compiled }
       /\ n \in NamesOf(fs.decls[registry[n].from])

(* A name that is registered keeps its meaning: no later module, however   *)
(* unrelated, takes it over.                                               *)
NoTypeIsReplaced ==
  [][\A n \in DOMAIN registry : n \in DOMAIN registry' /\ registry'[n] = registry[n]]_registry

(* An imported item that is a type of the module the import names is that  *)
(* type in the generated code, although the registry is looked up by the   *)
(* bare name and holds every type compiled so far.                         *)
ImportsMeanTheirModule ==
  \A m \in DOMAIN compiled : \A i \in DOMAIN fs.imports[order[m]] :
    LET import == fs.imports[order[m]][i]
        dep == Dep(fs, order[m], i)
    IN  (\E d \in OfKind(dep, Types) : d.name = import.item) =>
          { x \in compiled[m].imports : x.name = import.item }
            = {[name |-> import.item, from |-> dep]}

(* Delegation chains are refused only when they close, within a module;    *)
(* and over all the modules compiled no machine is among its own           *)
(* descendants: in the generated code a machine never contains itself.     *)
AllDelegates ==
  LET machines == UNION { DOMAIN compiled[m].delegates : m \in DOMAIN compiled }
  IN  [n \in machines |->
         UNION { compiled[m].delegates[n] :
                   m \in { k \in DOMAIN compiled : n \in DOMAIN compiled[k].delegates } }]
DelegationIsAcyclic ==
  /\ Acyclic(Parents(AllDelegates))
  /\ status = "circular delegates" => Circular(Parents(Delegates(order[at])))

(* A project that names every declaration differently, and in which each   *)
(* field's type is a primitive, or declared or imported as a type, and     *)
(* machines are not circular, compiles: the order and the registry deliver *)
(* what the imports promise.                                               *)
OwnOrImported(f) ==
  NamesOf(OfKind(f, {"packet", "varint"})) \cup Primitives \cup
  { fs.imports[f][i].item : i \in { j \in DOMAIN fs.imports[f] :
      fs.imports[f][j].item \in NamesOf(OfKind(Dep(fs, f, j), {"packet", "varint"})) } }
WellImported ==
  /\ \A f \in Range(order), g \in Range(order) : \A d \in fs.decls[f], e \in fs.decls[g] :
       d.name = e.name => f = g /\ d = e
  /\ \A f \in Range(order) :
       /\ NamesOf(fs.decls[f]) \cap (Reserved \cup Primitives) = {}
       /\ \A d \in OfKind(f, {"packet"}) : d.refs \subseteq OwnOrImported(f)
WellImportedCompiles ==
  WellImported => status \notin {"duplicate", "bad type"}
=============================================================================
