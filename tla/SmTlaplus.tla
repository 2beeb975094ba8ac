----------------------------- MODULE SmTlaplus ------------------------------
(***************************************************************************)
(* The specification the TLA+ backend emits for a declaration (emit_init,  *)
(* emit_transitions, emit_child_dispatch, build_inline_record in           *)
(* wirespec-backend-tlaplus/src/emit.rs), as a state machine of its own.   *)
(* Its variable sm is t here: [st, f, kids] with every field of the        *)
(* declaration in f (NullVal where the state has none) and children as     *)
(* bare state names. Value and parameter domains are 0 .. Bound-1.         *)
(***************************************************************************)
EXTENDS SmSema

CONSTANTS Programs, Bound, NullVal

VARIABLES prog, t

vars == <<prog, t>>

BoundedNat == 0 .. Bound - 1

AllFields(p) == UNION { p.flds[s] : s \in p.states }

(* Mk<State>: defaults, the arguments for the other fields, children in    *)
(* their initial state.                                                    *)
Mk(p, s, args) ==
  [st |-> s,
   f |-> [x \in AllFields(p) |->
            IF x \in DOMAIN args THEN args[x]
            ELSE IF x \in p.flds[s] /\ x \in DOMAIN p.dflt[s] THEN p.dflt[s][x] ELSE NullVal],
   kids |-> [i \in 1 .. p.kids[s] |-> p.child.init]]

TlaInit(p) ==
  { Mk(p, p.init, args) : args \in [p.flds[p.init] \ DOMAIN p.dflt[p.init] -> BoundedNat] }

(* expr_to_tla of a guard and of a right-hand side: integers are unbounded.*)
GuardHolds(tt, g, v) ==
  \/ g.k = "none"
  \/ g.k = "lt" /\ tt.f[g.fld] < g.n
  \/ g.k = "ge" /\ tt.f[g.fld] >= g.n
  \/ g.k = "param" /\ v = g.n
  \/ g.k = "kidIn" /\ tt.kids[1] = g.st

Value(tt, a, v) ==
  CASE a.from = "lit" -> a.n
    [] a.from = "src" -> tt.f[a.fld] + a.n
    [] a.from = "param" -> v

(* The first action on a field; its operator is not emitted.               *)
ActionsOn(d, x) == { k \in DOMAIN d.acts : d.acts[k].tgt = x }
FirstAction(d, x) == d.acts[CHOOSE k \in ActionsOn(d, x) : \A y \in ActionsOn(d, x) : k <= y]

Dst_KidsReset(p, d, tt, v) ==
  Mk(p, d.dst, [x \in { y \in p.flds[d.dst] : ActionsOn(d, y) # {} } |->
                  Value(tt, FirstAction(d, x), v)])

Dst(p, d, tt, v) ==
  LET assigned == { x \in p.flds[d.dst] : ActionsOn(d, x) # {} }
      made == Mk(p, d.dst, [x \in assigned |-> Value(tt, FirstAction(d, x), v)])
  IN  IF ActionsOn(d, "kids") # {} THEN [made EXCEPT !.kids = tt.kids] ELSE made

(* An action of the emitted Next per (state, event) pair; the guarded      *)
(* transitions of one pair are its disjuncts.                              *)
PlainSteps(p, tt) ==
  UNION { { Dst(p, p.decls[d], tt, v) :
              v \in { x \in BoundedNat : GuardHolds(tt, p.decls[d].guard, x) } } :
            d \in { x \in Index(p) :
                      /\ ~p.decls[x].delegate
                      /\ \E e \in EventsOf(p) : Covers(p, x, tt.st, e) } }

(* <Child>Dispatch(state, ev): the first transition of the child for that  *)
(* state and ordinal, its guard left out.                                  *)
ChildDispatch(p, s, ev) ==
  LET order == EventOrder(p.child)
      known == ev < Len(order) /\ Arms(p.child, s, order[ev + 1]) # {}
  IN  IF known THEN { p.child.decls[FirstArm(p.child, s, order[ev + 1])].dst } ELSE {}

(* A delegate action: \E index, \E ev \in BoundedNat, no guard.            *)
DelegateSteps(p, tt) ==
  UNION { { [tt EXCEPT !.kids[i] = k] : k \in ChildDispatch(p, tt.kids[i], ev) } :
            i \in { x \in DOMAIN tt.kids :
                      \E e \in EventsOf(p) : Delegates(p, tt.st, e) },
            ev \in BoundedNat }

(* child_state_changed is an ordinary action of the emitted Next.          *)
CscSteps(p, tt) ==
  UNION { { Dst(p, p.decls[d], tt, 0) : x \in { y \in {0} : GuardHolds(tt, p.decls[d].guard, y) } } :
            d \in Arms(p, tt.st, Csc) }

---------------------------------------------------------------------------
Init ==
  /\ prog \in Programs /\ Accepted(prog)
  /\ t \in TlaInit(prog)

Transition == t' \in PlainSteps(prog, t) /\ UNCHANGED prog
Delegate == t' \in DelegateSteps(prog, t) /\ UNCHANGED prog

Next == Transition \/ Delegate

(* Spec is emitted with weak fairness of Next when the machine has         *)
(* terminal states.                                                        *)
Spec == Init /\ [][Next]_vars /\ WF_vars(Next)

(* The pair of steps by which the emitted specification follows a delegate *)
(* call that raises child_state_changed.                                   *)
DelegateThenCsc ==
  /\ \E mid \in DelegateSteps(prog, t) : t' \in CscSteps(prog, mid)
  /\ UNCHANGED prog

AllReachClosed == <>(t.st \in prog.terminal)
=============================================================================
