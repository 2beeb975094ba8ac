------------------------------- MODULE SmSema -------------------------------
(***************************************************************************)
(* The state machine declaration as the analyzer sees it, and what         *)
(* lower_state_machine (wirespec-sema, analyzer/lower.rs) makes of it: the *)
(* lowered transitions, the checks a declaration has to pass, and the      *)
(* vocabulary the three code generators share (machine values, guards,     *)
(* action values).                                                         *)
(*                                                                         *)
(* A program p is a record                                                 *)
(*   states, terminal, init   the declared states                          *)
(*   flds[s], dflt[s]         the scalar fields of s; dflt[s] is defined   *)
(*                            on those declared with a default             *)
(*   kids[s]                  child machine slots of s (0: no such field)  *)
(*   indexed                  the child field is an array                  *)
(*   parm                     the events declared with a parameter         *)
(*   decls                    the transitions, in source order             *)
(*   child                    the program of the child machine             *)
(* and a transition declaration is [src, dst, on, guard, acts, delegate].  *)
(* A machine value is [st, f, kids]: the state, its fields, its children.  *)
(***************************************************************************)
EXTENDS Integers, FiniteSets, Sequences, SequencesExt

CONSTANT W              \* scalar fields and parameters are integers modulo W

ASSUME WAssumption == W \in Nat \ {0}

Star == "*"             \* the source of a wildcard transition
Csc == "child_state_changed"
NoTag == "no such tag"  \* an event tag that stands for no event

Val == 0 .. W - 1

Index(p) == DOMAIN p.decls
EventsOf(p) == UNION { ToSet(p.decls[d].on) : d \in Index(p) }
HasCsc(p) == Csc \in EventsOf(p)

(* The events in the order of their first appearance: the order of the     *)
(* enum both backends generate, hence the ordinal a delegate forwards.     *)
EventOrder(p) ==
  FoldLeft(LAMBDA seen, e : IF e \in ToSet(seen) THEN seen ELSE Append(seen, e),
           << >>, FlattenSeq([d \in Index(p) |-> p.decls[d].on]))

---------------------------------------------------------------------------
(* Lowering                                                                *)

Concrete(p, s, e) ==
  \E d \in Index(p) : p.decls[d].src = s /\ e \in ToSet(p.decls[d].on)

Sources_AllStates(p, t) == IF t.src = Star THEN p.states ELSE {t.src}

(* A wildcard stands for every non-terminal state.                         *)
Sources(p, t) == IF t.src = Star THEN p.states \ p.terminal ELSE {t.src}

Covers_WildcardAlways(p, d, s, e) ==
  LET t == p.decls[d] IN e \in ToSet(t.on) /\ s \in Sources(p, t)

(* Declaration d yields a transition for the pair (s, e): a wildcard does  *)
(* only where no concrete declaration has that pair.                       *)
Covers(p, d, s, e) ==
  LET t == p.decls[d]
  IN  /\ e \in ToSet(t.on)
      /\ s \in Sources(p, t)
      /\ t.src = Star => ~Concrete(p, s, e)

Arms(p, s, e) == { d \in Index(p) : Covers(p, d, s, e) }

(* Transitions keep source order, so the first generated arm of a pair is  *)
(* that of the first declaration.                                          *)
FirstArm(p, s, e) ==
  CHOOSE d \in Arms(p, s, e) : \A x \in Arms(p, s, e) : d <= x

Delegates(p, s, e) ==
  Arms(p, s, e) # {} /\ p.decls[FirstArm(p, s, e)].delegate

---------------------------------------------------------------------------
(* The checks of lower_state_machine; Accepted: no error is reported.      *)

TerminalsHaveNoExits(p) == \A d \in Index(p) : p.decls[d].src \notin p.terminal

StatesDefined(p) ==
  /\ p.init \in p.states
  /\ \A d \in Index(p) : /\ p.decls[d].src \in p.states \cup {Star}
                         /\ p.decls[d].dst \in p.states

DelegatesLoop(p) ==
  \A d \in Index(p) : LET t == p.decls[d] IN
    t.delegate => Sources(p, t) \subseteq {t.dst} /\ t.acts = << >>

(* Two transitions of one pair are allowed only if all of them are guarded.*)
Unambiguous(p) ==
  \A s \in p.states, e \in EventsOf(p) :
    Cardinality(Arms(p, s, e)) > 1
      => \A d \in Arms(p, s, e) : p.decls[d].guard.k # "none"

(* Every non-terminal state is the source of a declaration, or there is a  *)
(* wildcard declaration.                                                   *)
Exhaustive(p) ==
  LET srcs == { p.decls[d].src : d \in Index(p) }
  IN  Star \in srcs \/ p.states \ p.terminal \subseteq srcs

Targets(t) == { t.acts[k].tgt : k \in DOMAIN t.acts }

DstFieldsAssigned_SkipLoops(p) ==
  \A s \in p.states, e \in EventsOf(p) : \A d \in Arms(p, s, e) :
    LET t == p.decls[d] IN
    ~t.delegate /\ t.dst # s =>
      /\ p.flds[t.dst] \ DOMAIN p.dflt[t.dst] \subseteq Targets(t)
      /\ p.kids[t.dst] > 0 => "kids" \in Targets(t)

(* A field of the destination without a default needs an assignment,       *)
(* unless the transition delegates (it then copies the source).            *)
DstFieldsAssigned(p) ==
  \A s \in p.states, e \in EventsOf(p) : \A d \in Arms(p, s, e) :
    LET t == p.decls[d] IN
    ~t.delegate =>
      /\ p.flds[t.dst] \ DOMAIN p.dflt[t.dst] \subseteq Targets(t)
      /\ p.kids[t.dst] > 0 => "kids" \in Targets(t)

Accepted(p) ==
  /\ TerminalsHaveNoExits(p)
  /\ StatesDefined(p)
  /\ DelegatesLoop(p)
  /\ Unambiguous(p)
  /\ Exhaustive(p)
  /\ DstFieldsAssigned(p)

---------------------------------------------------------------------------
(* Machine values, calls, guards and action values                         *)

(* A call of dispatch: the event, its parameter and its index parameter.   *)
Call(e, v, i) == [e |-> e, v |-> v, i |-> i]

DefaultOr0(p, s) ==
  [x \in p.flds[s] |-> IF x \in DOMAIN p.dflt[s] THEN p.dflt[s][x] ELSE 0]

(* A child built by a state constructor with literal zero arguments.       *)
NewKid(p, s) == [st |-> s, f |-> [x \in p.child.flds[s] |-> 0], kids |-> << >>]

RightSide_NoWrap(m, a, v) ==
  IF a.from = "lit" THEN a.n ELSE IF a.from = "src" THEN m.f[a.fld] + a.n ELSE v

(* The value of an action's right-hand side in the source machine m: a     *)
(* literal, a field of the source plus a literal, or the parameter.        *)
RightSide(m, a, v) ==
  IF a.from = "lit" THEN a.n % W
  ELSE IF a.from = "src" THEN (m.f[a.fld] + a.n) % W
  ELSE v % W

(* Guards other than all(): comparisons of a source field with a literal,  *)
(* of the parameter with a literal, and in_state on the child.             *)
SimpleGuardHolds(m, g, v) ==
  \/ g.k = "none"
  \/ g.k = "lt" /\ m.f[g.fld] < g.n
  \/ g.k = "ge" /\ m.f[g.fld] >= g.n
  \/ g.k = "param" /\ v = g.n
  \/ g.k = "kidIn" /\ m.kids[1].st = g.st

(* all(src.kids[0..src.fld], in_state(st)) over the slots that exist.      *)
AllKidsIn(m, g) == \A i \in 1 .. m.f[g.fld] : m.kids[i].st = g.st

---------------------------------------------------------------------------
(* What the grammar, the type checkers of the two target languages and     *)
(* the scope of this model make true of every program: fields and          *)
(* parameters that are read exist, an arm of the parameterless             *)
(* child_state_changed forwards nothing, children have no children.        *)

ReadsOf(t) ==
  (IF t.guard.k \in {"lt", "ge", "all"} THEN {t.guard.fld} ELSE {})
  \cup { t.acts[k].fld : k \in { j \in DOMAIN t.acts : t.acts[j].from = "src" } }
  \cup { t.acts[k].tgt : k \in { j \in DOMAIN t.acts : t.acts[j].op = "+=" } }

ReadsParam(t) ==
  t.guard.k = "param" \/ \E k \in DOMAIN t.acts : t.acts[k].from = "param"

ActFits(p, t, s, a) ==
  /\ a.tgt = "kids" => /\ p.kids[t.dst] > 0
                       /\ \/ a.from = "fill" /\ a.n \in Nat /\ a.st \in p.child.states
                          \/ a.from = "copy" /\ p.kids[s] > 0
  /\ a.tgt = "slot" => /\ p.kids[t.dst] > 0 /\ "kids" \in Targets(t)
                       /\ a.from \in {"lit", "src"}
                       /\ a.st \in p.child.states
  /\ a.tgt # "kids" /\ a.tgt # "slot" =>
       a.tgt \in p.flds[t.dst] /\ a.from \in {"lit", "src", "param"}
  /\ a.from \in {"lit", "src"} => a.n \in Nat

GuardFits(p, s, g) ==
  \/ g.k = "none"
  \/ g.k \in {"lt", "ge", "param"} /\ g.n \in Nat
  \/ g.k \in {"kidIn", "all"} /\ p.kids[s] > 0 /\ g.st \in p.child.states

Flat(p) ==
  /\ p.terminal \subseteq p.states
  /\ p.decls \in Seq(Range(p.decls))
  /\ DOMAIN p.flds = p.states /\ DOMAIN p.dflt = p.states
  /\ p.kids \in [p.states -> Nat]
  /\ p.indexed \in BOOLEAN
  /\ Star \notin p.states /\ NoTag \notin EventsOf(p)
  /\ \A s \in p.states :
       /\ p.flds[s] \cap {"kids", "slot"} = {}
       /\ DOMAIN p.dflt[s] \subseteq p.flds[s]
       /\ \A x \in DOMAIN p.dflt[s] : p.dflt[s][x] \in Val
  /\ \A d \in Index(p) : LET t == p.decls[d] IN
       /\ t.delegate \in BOOLEAN
       /\ t.acts \in Seq(Range(t.acts))
       /\ ReadsParam(t) => ToSet(t.on) \subseteq p.parm
       /\ \A s \in Sources(p, t) \cap p.states :
            /\ ReadsOf(t) \subseteq p.flds[s]
            /\ GuardFits(p, s, t.guard)
            /\ t.dst \in p.states => \A k \in DOMAIN t.acts : ActFits(p, t, s, t.acts[k])
            /\ t.delegate => p.kids[s] > 0 /\ Csc \notin ToSet(t.on)

HasChild(p) == \E s \in p.states : p.kids[s] > 0

Compilable(p) ==
  /\ Flat(p)
  /\ HasChild(p) => /\ Flat(p.child) /\ Accepted(p.child)
                    /\ \A s \in p.child.states : p.child.kids[s] = 0
                    /\ \A d \in Index(p.child) : ~p.child.decls[d].delegate
=============================================================================
