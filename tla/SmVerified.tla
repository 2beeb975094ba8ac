----------------------------- MODULE SmVerified -----------------------------
(***************************************************************************)
(* The generated Rust machine against the specification the TLA+ backend   *)
(* emits for the same declaration: what the model checker is shown covers  *)
(* what the code does.                                                     *)
(***************************************************************************)
EXTENDS SmRust

CONSTANTS Bound, NullVal

ASSUME BoundAssumption == Bound \in Nat \ {0}

(* A Rust machine as a value of the emitted specification.                 *)
Abs(p, mm) ==
  [st |-> mm.st,
   f |-> [x \in UNION { p.flds[s] : s \in p.states } |->
            IF x \in p.flds[mm.st] THEN mm.f[x] ELSE NullVal],
   kids |-> [i \in DOMAIN mm.kids |-> mm.kids[i].st]]

T == INSTANCE SmTlaplus WITH t <- Abs(prog, m)

---------------------------------------------------------------------------
(* Declarations the backend emits a well-formed specification for: no      *)
(* all() guard; a transition into a state with children copies them and    *)
(* also overrides a default; children from the initial state on.           *)
Emittable(p) ==
  /\ \A d \in Index(p) : LET t == p.decls[d] IN
       /\ t.guard.k # "all"
       /\ t.delegate => t.guard.k = "none"
       /\ p.kids[t.dst] > 0 /\ ~t.delegate =>
            /\ Targets(t) \cap DOMAIN p.dflt[t.dst] # {}
            /\ \A k \in DOMAIN t.acts : t.acts[k].from # "fill" /\ t.acts[k].tgt # "slot"
  /\ p.indexed => \A s \in p.states : p.kids[s] = 0

(* Declarations on which the three back ends read the actions alike: every *)
(* field assigned, with "=", and increments kept below W by their guard.   *)
ReadAlike(p) ==
  \A d \in Index(p) : LET t == p.decls[d] IN
    ~t.delegate =>
      /\ p.flds[t.dst] \subseteq Targets(t)
      /\ \A k \in DOMAIN t.acts : LET a == t.acts[k] IN
           /\ a.op = "="
           /\ \A j \in DOMAIN t.acts : a.tgt = t.acts[j].tgt => j = k
           /\ a.from = "lit" => a.n < W
           /\ a.from = "src" /\ a.n > 0 => /\ t.guard.k = "lt" /\ t.guard.fld = a.fld
                                           /\ t.guard.n + a.n <= W

Verifiable(p) ==
  /\ Emittable(p)
  /\ ReadAlike(p)

(* Every run of the Rust machine is a run of the emitted specification,    *)
(* when a delegate call that raises child_state_changed counts as the two  *)
(* steps the specification takes for it.                                   *)
CodeIsModelled ==
  /\ Abs(prog, m) \in T!TlaInit(prog)
  /\ [][T!Next \/ T!DelegateThenCsc]_<<prog, Abs(prog, m)>>

---------------------------------------------------------------------------
(* A guarded transition whose guard holds is taken.                        *)
EnabledArmIsTaken ==
  [][(\E d \in Arms(prog, m.st, call'.e) : GuardHolds(m, prog.decls[d].guard, call'.v)) => ok']_vars

(* The caller keeps raising every event of the declaration; only the       *)
(* machine itself raises child_state_changed.                              *)
AllCalls == { Call(e, v, i) : e \in UNION { EventsOf(p) : p \in Programs } \ {Csc},
                              v \in Val, i \in 0 .. MaxIndex }
FairSpec == Spec /\ \A c \in AllCalls : WF_vars(c \in Calls(prog) /\ Dispatch(c))

AllReachClosed == <>(m.st \in prog.terminal)
=============================================================================
