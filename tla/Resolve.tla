------------------------------ MODULE Resolve -------------------------------
(***************************************************************************)
(* resolve() and visit() of wirespec-driver/src/resolve.rs: a depth-first  *)
(* search over the imports with cycle detection, in post-order. The call   *)
(* stack of visit is explicit: a frame is a file being visited and the     *)
(* index of the import it is at. The first error ends the search.          *)
(***************************************************************************)
EXTENDS Imports

CONSTANT Projects

ASSUME ProjectsAssumption == \A p \in Projects : WellFormed(p)

VARIABLES fs,           \* the project; nothing changes it during the search
          resolved,     \* keys of the map of finished modules
          inProgress,
          order,
          stack,        \* frames of visit, the innermost last
          result        \* "running", "ok", or the error returned

vars == <<fs, resolved, inProgress, order, stack, result>>

Init ==
  /\ fs \in Projects
  /\ resolved = {} /\ inProgress = {} /\ order = << >> /\ stack = << >>
  /\ result = "running"

Running == result = "running"
Fail(why) == result' = why /\ UNCHANGED <<fs, resolved, order, stack>>

Visit_NoCycleTest(f) ==
  /\ inProgress' = inProgress \cup {f}
  /\ IF fs.text[f] # "ok" THEN Fail(fs.text[f])
     ELSE /\ stack' = Append(stack, [file |-> f, next |-> 1])
          /\ UNCHANGED <<fs, resolved, order, result>>

Visit_FromZero(f) ==
  /\ f \notin inProgress
  /\ inProgress' = inProgress \cup {f}
  /\ stack' = Append(stack, [file |-> f, next |-> 0])
  /\ UNCHANGED <<fs, resolved, order, result>>

(* visit(f) from the test of in_progress to the loop over the imports.     *)
Visit(f) ==
  IF f \in inProgress
  THEN Fail("circular") /\ UNCHANGED inProgress
  ELSE /\ inProgress' = inProgress \cup {f}
       /\ IF fs.text[f] # "ok" THEN Fail(fs.text[f])
          ELSE /\ stack' = Append(stack, [file |-> f, next |-> 1])
               /\ UNCHANGED <<fs, resolved, order, result>>

VisitEntry ==
  /\ Running
  /\ stack = << >>
  /\ Visit(fs.entry)

Top == stack[Len(stack)]
AtImport == Running /\ stack # << >> /\ Top.next \in DOMAIN fs.imports[Top.file]

Missing ==
  /\ AtImport
  /\ Dep(fs, Top.file, Top.next) = NotFound
  /\ Fail("not found")
  /\ UNCHANGED inProgress

VisitDep_Again ==
  /\ AtImport
  /\ Dep(fs, Top.file, Top.next) # NotFound
  /\ Visit(Dep(fs, Top.file, Top.next))

VisitDep ==
  /\ AtImport
  /\ Dep(fs, Top.file, Top.next) \notin {NotFound} \cup resolved
  /\ Visit(Dep(fs, Top.file, Top.next))

CheckExport_Unchecked ==
  /\ AtImport
  /\ Dep(fs, Top.file, Top.next) \in resolved
  /\ stack' = [stack EXCEPT ![Len(stack)].next = @ + 1]
  /\ UNCHANGED <<fs, resolved, inProgress, order, result>>

(* The visit of the import returned, at once if it was resolved before:    *)
(* the item has to be exported.                                            *)
CheckExport ==
  /\ AtImport
  /\ Dep(fs, Top.file, Top.next) \in resolved
  /\ IF ItemVisible(fs, Top.file, Top.next)
     THEN /\ stack' = [stack EXCEPT ![Len(stack)].next = @ + 1]
          /\ UNCHANGED <<fs, resolved, order, result>>
     ELSE Fail("not exported")
  /\ UNCHANGED inProgress

Finish_SkipLast ==
  /\ Running /\ stack # << >>
  /\ Top.next + 1 \notin DOMAIN fs.imports[Top.file]
  /\ inProgress' = inProgress \ {Top.file}
  /\ resolved' = resolved \cup {Top.file}
  /\ order' = Append(order, Top.file)
  /\ stack' = Front(stack)
  /\ result' = IF Len(stack) = 1 THEN "ok" ELSE "running"
  /\ UNCHANGED fs

(* All imports are done: post-order insertion, visit returns. The return   *)
(* of the entry's visit ends the search.                                   *)
Finish ==
  /\ Running /\ stack # << >>
  /\ Top.next \notin DOMAIN fs.imports[Top.file]
  /\ inProgress' = inProgress \ {Top.file}
  /\ resolved' = resolved \cup {Top.file}
  /\ order' = Append(order, Top.file)
  /\ stack' = Front(stack)
  /\ result' = IF Len(stack) = 1 THEN "ok" ELSE "running"
  /\ UNCHANGED fs

Next == VisitEntry \/ Missing \/ VisitDep \/ CheckExport \/ Finish

(* The caller runs the search to its end.                                  *)
Spec == Init /\ [][Next]_vars /\ WF_vars(Next)

---------------------------------------------------------------------------
(* Type invariant: every file handled is a file of the project, and an     *)
(* import index never leaves the positive numbers.                         *)
TypeOK ==
  /\ fs \in Projects
  /\ resolved \subseteq fs.files /\ inProgress \subseteq fs.files
  /\ order \in Seq(fs.files)
  /\ stack \in Seq([file : fs.files, next : Nat \ {0}])
  /\ result \in {"running", "ok", "circular", "not found", "not exported"} \cup Faults

(* `expect("every path in order must be present in resolved map")`: the    *)
(* final loop removes each path of order from the map once, so order names *)
(* every resolved file exactly once, a file reached by two module names or *)
(* by two importers included.                                              *)
EachModuleOnce ==
  /\ Range(order) = resolved
  /\ \A i, j \in DOMAIN order : order[i] = order[j] => i = j

(* The recursion of visit follows one import path without repetition: its  *)
(* depth is bounded by the number of files, whatever the imports.          *)
CallsFollowImports ==
  /\ \A i, j \in DOMAIN stack : stack[i].file = stack[j].file => i = j
  /\ \A i \in DOMAIN stack :
       /\ stack[i].file \in inProgress \ resolved
       /\ i > 1 => /\ stack[i - 1].next \in DOMAIN fs.imports[stack[i - 1].file]
                   /\ stack[i].file = Dep(fs, stack[i - 1].file, stack[i - 1].next)

(* The verdict: Ok exactly for a project that is sound and free of cycles  *)
(* as far as the entry reaches, and then with every reachable file.        *)
VerdictIsRight ==
  ~Running =>
    /\ result = "ok" <=>
         /\ ~Cyclic(fs)
         /\ \A f \in fs.files : Reachable(fs, f) => Sound(fs, f)
    /\ result = "ok" => resolved = { f \in fs.files : Reachable(fs, f) }

(* Resolution delivers what ImportOrder promises: dependencies first, each *)
(* reachable module once, the entry last, no error without its cause; and  *)
(* the search ends.                                                        *)
O == INSTANCE ImportOrder
ImplementsImportOrder == O!Spec
=============================================================================
