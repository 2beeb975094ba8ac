---------------------------- MODULE ImportOrder -----------------------------
(***************************************************************************)
(* What module resolution promises the compilation that follows it: the    *)
(* files the entry needs and no others, each once and after all of its     *)
(* imports, the entry last; or an error, and then the project has that     *)
(* error. In which order independent modules come is left open.            *)
(***************************************************************************)
EXTENDS Imports

CONSTANT Projects

VARIABLES fs,           \* the project
          order,        \* the modules resolved so far
          result        \* "running", "ok", or the error

vars == <<fs, order, result>>

Init ==
  /\ fs \in Projects
  /\ order = << >>
  /\ result = "running"

Add(f) ==
  /\ result = "running"
  /\ f \notin Range(order)
  /\ Reachable(fs, f)
  /\ Sound(fs, f)
  /\ Deps(fs, f) \subseteq Range(order)
  /\ order' = Append(order, f)
  /\ result' = IF f = fs.entry THEN "ok" ELSE "running"
  /\ UNCHANGED fs

(* The errors a reachable file f justifies.                                *)
Evidence(f) ==
  (IF fs.text[f] = "ok" THEN {} ELSE {fs.text[f]})
  \cup (IF \E i \in DOMAIN fs.imports[f] : Dep(fs, f, i) = NotFound
        THEN {"not found"} ELSE {})
  \cup (IF \E i \in DOMAIN fs.imports[f] :
             Dep(fs, f, i) # NotFound /\ ~ItemVisible(fs, f, i)
        THEN {"not exported"} ELSE {})
  \cup (IF Cyclic(fs) THEN {"circular"} ELSE {})

Fail ==
  /\ result = "running"
  /\ \E f \in fs.files : Reachable(fs, f) /\ result' \in Evidence(f)
  /\ UNCHANGED <<fs, order>>

Next == (\E f \in fs.files : Add(f)) \/ Fail

Spec == Init /\ [][Next]_vars /\ WF_vars(Next)
=============================================================================
