-------------------------------- MODULE SmC ---------------------------------
(***************************************************************************)
(* The state machine the C backend generates (emit_sm_dispatch, emit_guard,*)
(* emit_action and emit_delegate in wirespec-backend-c/src/source.rs, the  *)
(* init helper in header.rs). The destination is an uninitialised local:   *)
(* what no action assigns is indeterminate, modelled as any value of its   *)
(* type, so a dispatch has a set of outcomes [rc, m].                      *)
(***************************************************************************)
EXTENDS SmSema

CONSTANTS Programs, MaxIndex

VARIABLES prog, sm, rc, call

vars == <<prog, sm, rc, call>>

Calls(p) == { Call(e, v, i) : e \in EventsOf(p), v \in Val, i \in 0 .. MaxIndex }
NoCall == Call("none", 0, 0)

---------------------------------------------------------------------------
(* Indeterminate storage *)
AnyFields(p, s) == [p.flds[s] -> Val]
AnyKid(p) ==
  UNION { { [st |-> s, f |-> f, kids |-> << >>] : f \in AnyFields(p.child, s) } :
            s \in p.child.states }
AnyMachine(p, s) ==
  { [st |-> s, f |-> f, kids |-> ks] :
      f \in AnyFields(p, s),
      ks \in IF p.kids[s] = 0 THEN { << >> } ELSE [1 .. p.kids[s] -> AnyKid(p)] }

(* The init helper sets the tag and the defaults. The caller initialises   *)
(* the children.                                                           *)
CInit(p) ==
  { mm \in AnyMachine(p, p.init) :
      /\ \A x \in DOMAIN p.dflt[p.init] : mm.f[x] = p.dflt[p.init][x]
      /\ \A i \in DOMAIN mm.kids :
           mm.kids[i].st = p.child.init
           /\ mm.kids[i].f = DefaultOr0(p.child, p.child.init) }

(* A failed all() reports ERR_CONSTRAINT, any other guard                  *)
(* ERR_INVALID_STATE.                                                      *)
GuardCode(mm, g, v) ==
  CASE g.k = "all" -> IF AllKidsIn(mm, g) THEN "OK" ELSE "CONSTRAINT"
    [] OTHER -> IF SimpleGuardHolds(mm, g, v) THEN "OK" ELSE "INVALID_STATE"

(* One assignment to the local dst, from the machine mm.                   *)
Assign(p, mm, v, dst, a) ==
  CASE a.tgt = "kids" /\ a.from = "fill" ->
         [dst EXCEPT !.kids = [i \in DOMAIN @ |-> IF i <= a.n THEN NewKid(p, a.st) ELSE @[i]]]
    [] a.tgt = "kids" /\ a.from = "copy" -> [dst EXCEPT !.kids = mm.kids]
    [] a.tgt = "slot" -> [dst EXCEPT !.kids[RightSide(mm, a, 0) + 1] = NewKid(p, a.st)]
    [] OTHER -> [dst EXCEPT !.f[a.tgt] =
                   IF a.op = "+=" THEN (@ + RightSide(mm, a, v)) % W ELSE RightSide(mm, a, v)]

(* What the assignments, in source order, make of a fresh dst.             *)
Built(p, t, mm, v, fresh) ==
  LET dst[k \in 0 .. Len(t.acts)] ==
        IF k = 0 THEN fresh ELSE Assign(p, mm, v, dst[k - 1], t.acts[k])
  IN  dst[Len(t.acts)]

BuiltDst(p, t, mm, v) == { Built(p, t, mm, v, fresh) : fresh \in AnyMachine(p, t.dst) }

Outcome(code, mm) == [rc |-> code, m |-> mm]

PlainDispatch(p, mm, c) ==
  LET t == p.decls[FirstArm(p, mm.st, c.e)]
      code == GuardCode(mm, t.guard, c.v)
  IN  CASE Arms(p, mm.st, c.e) = {} -> { Outcome("INVALID_STATE", mm) }
        [] Arms(p, mm.st, c.e) # {} /\ code # "OK" -> { Outcome(code, mm) }
        [] OTHER -> { Outcome("OK", dst) : dst \in BuiltDst(p, t, mm, c.v) }

(* The child event is the parameter cast to the child's tag type: its own  *)
(* parameters are never set, and a tag no event has matches no transition. *)
ChildCalls(p, v) ==
  LET order == EventOrder(p.child) IN
  { Call(IF v < Len(order) THEN order[v + 1] ELSE NoTag, x, 0) : x \in Val }

Slot(p, c) == IF p.indexed THEN c.i + 1 ELSE 1

ChildOutcomes(p, mm, c) ==
  UNION { PlainDispatch(p.child, mm.kids[Slot(p, c)], k) : k \in ChildCalls(p, c.v) }

NotifyCode_Always(code) == code
(* The parent's own result of child_state_changed: only INVALID_STATE is   *)
(* swallowed.                                                              *)
NotifyCode(code) == IF code = "INVALID_STATE" THEN "OK" ELSE code

AfterChild_NoNotify(p, mm, c, kid) == { Outcome("OK", [mm EXCEPT !.kids[Slot(p, c)] = kid]) }

(* The child accepted. If its tag changed and the parent knows the event,  *)
(* *sm is committed before child_state_changed is dispatched on it.        *)
AfterChild(p, mm, c, kid) ==
  LET dst == [mm EXCEPT !.kids[Slot(p, c)] = kid]
  IN  IF HasCsc(p) /\ kid.st # mm.kids[Slot(p, c)].st
      THEN { Outcome(NotifyCode(o.rc), o.m) : o \in PlainDispatch(p, dst, Call(Csc, 0, 0)) }
      ELSE { Outcome("OK", dst) }

DelegateDispatch(p, mm, c) ==
  LET code == GuardCode(mm, p.decls[FirstArm(p, mm.st, c.e)].guard, c.v)
  IN  CASE code # "OK" -> { Outcome(code, mm) }
        [] code = "OK" /\ Slot(p, c) > p.kids[mm.st] -> { Outcome("BOUNDS", mm) }
        [] OTHER -> UNION { IF o.rc # "OK" THEN { Outcome(o.rc, mm) }
                            ELSE AfterChild(p, mm, c, o.m) : o \in ChildOutcomes(p, mm, c) }

---------------------------------------------------------------------------
Init ==
  /\ prog \in Programs /\ Accepted(prog)
  /\ sm \in CInit(prog)
  /\ rc = "OK"
  /\ call = NoCall

Return(outcomes, c) ==
  /\ \E o \in outcomes : sm' = o.m /\ rc' = o.rc
  /\ call' = c
  /\ UNCHANGED prog

PlainCall(c) ==
  /\ ~Delegates(prog, sm.st, c.e)
  /\ Return(PlainDispatch(prog, sm, c), c)

DelegateCall(c) ==
  /\ Delegates(prog, sm.st, c.e)
  /\ Return(DelegateDispatch(prog, sm, c), c)

Next == \E c \in Calls(prog) : PlainCall(c) \/ DelegateCall(c)

Spec == Init /\ [][Next]_vars
=============================================================================
