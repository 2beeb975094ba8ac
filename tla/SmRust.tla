------------------------------- MODULE SmRust -------------------------------
(***************************************************************************)
(* The state machine the Rust backend generates (emit_state_machine in     *)
(* wirespec-backend-rust/src/emit.rs): new() and dispatch().               *)
(* dispatch is one `match (&*self, event)` whose arms are the lowered      *)
(* transitions in source order, so the first arm of a pair decides.        *)
(* Arithmetic wraps as in a release build.                                 *)
(***************************************************************************)
EXTENDS SmSema

CONSTANTS Programs,     \* the declarations under study
          MaxIndex      \* largest index parameter a caller passes

ASSUME MaxIndexAssumption == MaxIndex \in Nat
ASSUME ProgramsAssumption == \A p \in Programs : Compilable(p)

VARIABLES prog,         \* the compiled declaration
          m,            \* the machine
          ok,           \* did the last dispatch return Ok?
          call          \* the last call

vars == <<prog, m, ok, call>>

Calls(p) == { Call(e, v, i) : e \in EventsOf(p), v \in Val, i \in 0 .. MaxIndex }
NoCall == Call("none", 0, 0)

---------------------------------------------------------------------------
(* new(): defaults, else 0; a child starts in its own initial state, an    *)
(* array of children starts empty.                                         *)
RustNew(p) ==
  [st |-> p.init,
   f |-> DefaultOr0(p, p.init),
   kids |-> IF p.indexed THEN << >>
            ELSE [i \in 1 .. p.kids[p.init] |->
                    [st |-> p.child.init, f |-> DefaultOr0(p.child, p.child.init),
                     kids |-> << >>]]]

GuardHolds(mm, g, v) ==
  \/ SimpleGuardHolds(mm, g, v)
  \/ g.k = "all" /\ mm.f[g.fld] <= Len(mm.kids) /\ AllKidsIn(mm, g)

(* find_action_for_field: the first action that assigns field x.           *)
ActionsOn(t, x) == { k \in DOMAIN t.acts : t.acts[k].tgt = x }
FirstAction(t, x) ==
  t.acts[CHOOSE k \in ActionsOn(t, x) : \A y \in ActionsOn(t, x) : k <= y]

(* Fields of the destination: the action's value; else the source's field  *)
(* of that name; else the default; else 0.                                 *)
NewField(p, t, mm, v, x) ==
  IF ActionsOn(t, x) # {}
  THEN LET a == FirstAction(t, x) IN
       IF a.op = "+=" THEN (mm.f[x] + RightSide(mm, a, v)) % W ELSE RightSide(mm, a, v)
  ELSE IF x \in p.flds[mm.st] THEN mm.f[x]
  ELSE DefaultOr0(p, t.dst)[x]

(* The child field of the destination before slot stores.                  *)
NewKids(p, t, mm) ==
  IF ActionsOn(t, "kids") = {}
  THEN IF p.kids[t.dst] > 0 THEN mm.kids ELSE << >>
  ELSE LET a == FirstAction(t, "kids") IN
       IF a.from = "fill" THEN [i \in 1 .. a.n |-> NewKid(p, a.st)] ELSE mm.kids

(* emit_post_construction_actions: dst.kids[i] = State, run after the      *)
(* whole-field assignments; an index outside the vector is an error.       *)
SlotOf(mm, a) == RightSide(mm, a, 0) + 1
StoresInRange(p, t, mm) ==
  \A k \in ActionsOn(t, "slot") : SlotOf(mm, t.acts[k]) <= Len(NewKids(p, t, mm))
WithStores(p, t, mm) ==
  [i \in DOMAIN NewKids(p, t, mm) |->
     LET ks == { k \in ActionsOn(t, "slot") : SlotOf(mm, t.acts[k]) = i }
     IN  IF ks = {} THEN NewKids(p, t, mm)[i]
         ELSE NewKid(p, t.acts[CHOOSE k \in ks : \A y \in ks : y <= k].st)]

NewState(p, t, mm, v) ==
  [st |-> t.dst,
   f |-> [x \in p.flds[t.dst] |-> NewField(p, t, mm, v, x)],
   kids |-> WithStores(p, t, mm)]

Reject(mm) == [ok |-> FALSE, m |-> mm]
Commit(mm) == [ok |-> TRUE, m |-> mm]

(* dispatch() on a pair whose arm does not delegate.                       *)
PlainDispatch(p, mm, c) ==
  LET t == p.decls[FirstArm(p, mm.st, c.e)]
  IN  IF /\ Arms(p, mm.st, c.e) # {}
         /\ GuardHolds(mm, t.guard, c.v)
         /\ StoresInRange(p, t, mm)
      THEN Commit(NewState(p, t, mm, c.v)) ELSE Reject(mm)

(* The ordinal-to-event match in front of the child's dispatch: an ordinal *)
(* with no event is an error, and so is every ordinal when some event of   *)
(* the child has parameters.                                               *)
OrdinalKnown(p, v) == v < Len(EventOrder(p.child)) /\ p.child.parm = {}
ChildCall(p, v) == Call(EventOrder(p.child)[v + 1], 0, 0)

Slot_OneBased(p, c) == IF p.indexed THEN c.i + 2 ELSE 1

(* Which slot a delegate addresses: its index parameter, or the only one.  *)
Slot(p, c) == IF p.indexed THEN c.i + 1 ELSE 1

ChildResult(p, mm, c) ==
  PlainDispatch(p.child, mm.kids[Slot(p, c)], ChildCall(p, c.v))

Forwards(p, mm, c) ==
  /\ GuardHolds(mm, p.decls[FirstArm(p, mm.st, c.e)].guard, c.v)
  /\ Slot(p, c) <= Len(mm.kids)
  /\ OrdinalKnown(p, c.v)
  /\ ChildResult(p, mm, c).ok

(* new_state after the child's dispatch.                                   *)
WithChild(p, mm, c) == [mm EXCEPT !.kids[Slot(p, c)] = ChildResult(p, mm, c).m]
ChildMoved(p, mm, c) == ChildResult(p, mm, c).m.st # mm.kids[Slot(p, c)].st

AfterNotify_Never(p, mm, c) == WithChild(p, mm, c)
AfterNotify_Always(p, mm, c) ==
  LET ns == WithChild(p, mm, c)
  IN  IF HasCsc(p) THEN PlainDispatch(p, ns, Call(Csc, 0, 0)).m ELSE ns

(* If the child's discriminant changed and the parent knows the event,     *)
(* child_state_changed is dispatched on new_state; its result is dropped.  *)
AfterNotify(p, mm, c) ==
  LET ns == WithChild(p, mm, c)
  IN  IF HasCsc(p) /\ ChildMoved(p, mm, c)
      THEN PlainDispatch(p, ns, Call(Csc, 0, 0)).m ELSE ns

DelegateDispatch_ReportNotify(p, mm, c) ==
  IF Forwards(p, mm, c)
  THEN [ok |-> HasCsc(p) /\ ChildMoved(p, mm, c) =>
                 PlainDispatch(p, WithChild(p, mm, c), Call(Csc, 0, 0)).ok,
        m |-> AfterNotify(p, mm, c)]
  ELSE Reject(mm)

DelegateDispatch(p, mm, c) ==
  IF Forwards(p, mm, c) THEN Commit(AfterNotify(p, mm, c)) ELSE Reject(mm)

RustDispatch(p, mm, c) ==
  IF Delegates(p, mm.st, c.e) THEN DelegateDispatch(p, mm, c) ELSE PlainDispatch(p, mm, c)

---------------------------------------------------------------------------
Init ==
  /\ prog \in Programs /\ Accepted(prog)
  /\ m = RustNew(prog)
  /\ ok = TRUE
  /\ call = NoCall

Return(r, c) == m' = r.m /\ ok' = r.ok /\ call' = c /\ UNCHANGED prog

PlainCall(c) ==
  /\ ~Delegates(prog, m.st, c.e)
  /\ Return(PlainDispatch(prog, m, c), c)

DelegateCall(c) ==
  /\ Delegates(prog, m.st, c.e)
  /\ Return(DelegateDispatch(prog, m, c), c)

Dispatch(c) == PlainCall(c) \/ DelegateCall(c)

Next == \E c \in Calls(prog) : PlainCall(c) \/ DelegateCall(c)

Spec == Init /\ [][Next]_vars

---------------------------------------------------------------------------
(* Properties                                                              *)

(* A value of the enum generated for p: a declared state with exactly its  *)
(* fields, in range.                                                       *)
Enum(p, mm) ==
  /\ mm.st \in p.states
  /\ mm.f \in [p.flds[mm.st] -> Val]
  /\ mm = [st |-> mm.st, f |-> mm.f, kids |-> mm.kids]

WellTyped(p, mm) ==
  /\ Enum(p, mm)
  /\ mm.kids \in Seq(Range(mm.kids))
  /\ mm.kids # << >> => p.kids[mm.st] > 0
  /\ \A i \in DOMAIN mm.kids : Enum(p.child, mm.kids[i]) /\ mm.kids[i].kids = << >>

(* Type invariant: the machine is a value of its enum and so is every      *)
(* child; a state without child slots has no children.                     *)
TypeOK ==
  /\ Accepted(prog)
  /\ WellTyped(prog, m)
  /\ ok \in BOOLEAN

(* A dispatch that returns Err leaves the machine as it was, whatever the  *)
(* child dispatch and the nested child_state_changed dispatch did first.   *)
ErrorIsAtomic == [][~ok' => m' = m]_vars

(* "Terminal state irreversibility": a machine in a terminal state refuses *)
(* every event, those a wildcard transition handles included, and so does  *)
(* a parent asked to forward an event to a child in a terminal state.      *)
TerminalIsFinal ==
  [][\/ m.st \in prog.terminal
     \/ /\ Delegates(prog, m.st, call'.e)
        /\ \E i \in DOMAIN m.kids : /\ i = IF prog.indexed THEN call'.i + 1 ELSE 1
                                    /\ m.kids[i].st \in prog.child.terminal
     => ~ok' /\ m' = m]_vars

(* "Wildcard priority": where a transition names the state and the event,  *)
(* an accepted call follows such a transition, never a wildcard.           *)
ConcreteWins ==
  [][ok' /\ Concrete(prog, m.st, call'.e) /\ ~Delegates(prog, m.st, call'.e) =>
       \E d \in Index(prog) : /\ prog.decls[d].src = m.st
                              /\ call'.e \in ToSet(prog.decls[d].on)
                              /\ m'.st = prog.decls[d].dst]_vars

(* Every field of the state a transition enters is assigned by it or has a *)
(* default (the analyzer's rule for the literal 0 the generated code would *)
(* otherwise fall back to).                                                *)
FieldsAssigned ==
  [][ok' /\ ~Delegates(prog, m.st, call'.e) =>
       \A x \in DOMAIN m'.f :
         \/ x \in DOMAIN prog.dflt[m'.st]
         \/ x \in Targets(prog.decls[FirstArm(prog, m.st, call'.e)])]_vars

(* A forwarded event changes one child, the addressed one; a field of the *)
(* parent or another child changes only when that child left its state and *)
(* child_state_changed has a transition.                                   *)
DelegateTouchesOneSlot ==
  [][LET k == IF prog.indexed THEN call'.i + 1 ELSE 1
     IN  Delegates(prog, m.st, call'.e) /\ ok' =>
           \/ ChildMoved(prog, m, call') /\ Arms(prog, m.st, Csc) # {}
           \/ /\ m'.f = m.f
              /\ DOMAIN m'.kids = DOMAIN m.kids
              /\ \A i \in DOMAIN m.kids : i # k => m'.kids[i] = m.kids[i]]_vars

(* A forwarded event moves the parent only along a child_state_changed     *)
(* transition, and only when the child it reached left its state.          *)
ParentMovesOnlyWithChild ==
  [][Delegates(prog, m.st, call'.e) /\ m'.st # m.st
       => /\ ChildMoved(prog, m, call')
          /\ \E d \in Arms(prog, m.st, Csc) : prog.decls[d].dst = m'.st]_vars

(* A forwarded event that moves the child is not lost on the parent: its   *)
(* child_state_changed transition has run on the machine that holds the    *)
(* moved child, or does not apply there, and then that machine stays.      *)
NotificationNotLost ==
  [][Delegates(prog, m.st, call'.e) /\ ok' /\ ChildMoved(prog, m, call')
     /\ Arms(prog, m.st, Csc) # {} =>
       LET t == prog.decls[FirstArm(prog, m.st, Csc)]
           ns == WithChild(prog, m, call')
       IN  IF GuardHolds(ns, t.guard, 0) /\ StoresInRange(prog, t, ns)
           THEN m' = NewState(prog, t, ns, 0)
           ELSE m' = ns]_vars
=============================================================================
