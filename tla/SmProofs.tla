------------------------------ MODULE SmProofs ------------------------------
(***************************************************************************)
(* Theorems about the generated state machines. About the Rust machine     *)
(* (SmRust), for every declaration the compiler accepts. About what the    *)
(* backends make of one declaration: the Rust and the C machine stay the   *)
(* same machine (SmTargets), for every declaration that is Portable,       *)
(* whatever is called and whatever C's uninitialised locals hold; and the  *)
(* Rust machine implements the specification emitted for it (SmVerified),  *)
(* for every declaration that is Verifiable and value domains that hold    *)
(* the scalars: each dispatch is a step of the emitted Next, two of them   *)
(* where it raises child_state_changed, or a stutter.                      *)
(***************************************************************************)
EXTENDS SmTargets, SmVerified, NatSets, TLAPS

(* The arm dispatch runs is one of the arms of the pair.                   *)
LEMMA FirstArmInArms ==
  ASSUME NEW p, NEW s, NEW e, Index(p) \subseteq Nat, Arms(p, s, e) # {}
  PROVE  FirstArm(p, s, e) \in Arms(p, s, e)
<1>1. Arms(p, s, e) \subseteq Nat
  BY DEF Arms
<1>2. \E x \in Arms(p, s, e) : \A y \in Arms(p, s, e) : x <= y
  BY <1>1, LeastElement
<1>. QED BY <1>2 DEF FirstArm

(* Every arm of a pair starts, once wildcards are expanded, in the state   *)
(* of that pair.                                                           *)
LEMMA ArmStartsHere ==
  ASSUME NEW p, NEW s, NEW e, NEW d \in Arms(p, s, e)
  PROVE  d \in Index(p) /\ s \in Sources(p, p.decls[d]) /\ e \in ToSet(p.decls[d].on)
BY DEF Arms, Covers

---------------------------------------------------------------------------
(* The machine values dispatch computes                                    *)

LEMMA ZeroInVal == 0 \in Val /\ \A n \in Nat : n % W \in Val
BY WAssumption DEF Val

(* What the lemmas below assume of a transition t of p that starts in the  *)
(* state of the machine mm, called with the parameter v.                   *)
Applies(p, t, mm, v) ==
  /\ Flat(p) /\ StatesDefined(p)
  /\ WellTyped(p, mm)
  /\ v \in Val
  /\ \E d \in Index(p) : t = p.decls[d]
  /\ mm.st \in Sources(p, t)

(* What Applies says of t.                                                 *)
LEMMA AppliesFacts ==
  ASSUME NEW p, NEW t, NEW mm, NEW v, Applies(p, t, mm, v)
  PROVE  /\ t.dst \in p.states /\ mm.st \in p.states
         /\ mm.f \in [p.flds[mm.st] -> Val]
         /\ ReadsOf(t) \subseteq p.flds[mm.st]
         /\ t.acts \in Seq(Range(t.acts))
         /\ \A k \in DOMAIN t.acts : ActFits(p, t, mm.st, t.acts[k])
         /\ \A x \in DOMAIN p.dflt[t.dst] : p.dflt[t.dst][x] \in Val
         /\ p.flds[t.dst] \cap {"kids", "slot"} = {}
BY DEF Applies, Flat, StatesDefined, WellTyped, Enum

(* The first action on a field is one of the transition's actions on it.   *)
LEMMA FirstActionOn ==
  ASSUME NEW t, NEW x, t.acts \in Seq(Range(t.acts)), ActionsOn(t, x) # {}
  PROVE  \E k \in DOMAIN t.acts : FirstAction(t, x) = t.acts[k] /\ t.acts[k].tgt = x
<1>1. ActionsOn(t, x) \subseteq Nat
  BY DEF ActionsOn
<1>2. \E k \in ActionsOn(t, x) : \A y \in ActionsOn(t, x) : k <= y
  BY <1>1, LeastElement
<1>. QED BY <1>2 DEF FirstAction, ActionsOn

(* The right-hand side of a scalar action is in range.                     *)
LEMMA RightSideInVal ==
  ASSUME NEW p, NEW t, NEW mm, NEW v, Applies(p, t, mm, v),
         NEW k \in DOMAIN t.acts, t.acts[k].from \in {"lit", "src", "param"},
         t.acts[k].from \in {"lit", "src"} => t.acts[k].n \in Nat
  PROVE  RightSide(mm, t.acts[k], v) \in Val
<1> DEFINE a == t.acts[k]
<1>1. CASE a.from = "lit"
  BY <1>1, ZeroInVal DEF RightSide
<1>2. CASE a.from = "src"
  <2>1. a.fld \in ReadsOf(t)
    BY <1>2 DEF ReadsOf
  <2>2. mm.f[a.fld] \in Val
    BY <2>1, AppliesFacts
  <2>3. mm.f[a.fld] + a.n \in Nat
    BY <2>2, <1>2, WAssumption DEF Val
  <2>4. RightSide(mm, a, v) = (mm.f[a.fld] + a.n) % W
    BY <1>2 DEF RightSide
  <2>. QED BY <2>3, <2>4, ZeroInVal
<1>3. CASE a.from = "param"
  <2>1. v \in Nat
    BY WAssumption DEF Applies, Val
  <2>2. RightSide(mm, a, v) = v % W
    BY <1>3 DEF RightSide
  <2>. QED BY <2>1, <2>2, ZeroInVal
<1>. QED BY <1>1, <1>2, <1>3

LEMMA NewFieldInVal ==
  ASSUME NEW p, NEW t, NEW mm, NEW v, Applies(p, t, mm, v), NEW x \in p.flds[t.dst]
  PROVE  NewField(p, t, mm, v, x) \in Val
<1>1. CASE ActionsOn(t, x) # {}
  <2>1. PICK k \in DOMAIN t.acts : FirstAction(t, x) = t.acts[k] /\ t.acts[k].tgt = x
    BY <1>1, FirstActionOn, AppliesFacts
  <2> DEFINE a == t.acts[k]
  <2>2. a.tgt # "kids" /\ a.tgt # "slot"
    BY <2>1, AppliesFacts
  <2>3. a.from \in {"lit", "src", "param"} /\ (a.from \in {"lit", "src"} => a.n \in Nat)
    BY <2>2, AppliesFacts DEF ActFits
  <2>4. RightSide(mm, a, v) \in Val
    BY <2>3, RightSideInVal
  <2>5. CASE a.op = "+="
    <3>1. x \in ReadsOf(t)
      BY <2>1, <2>5 DEF ReadsOf
    <3>2. mm.f[x] \in Val
      BY <3>1, AppliesFacts
    <3>3. mm.f[x] + RightSide(mm, a, v) \in Nat
      BY <2>4, <3>2, WAssumption DEF Val
    <3>4. NewField(p, t, mm, v, x) = (mm.f[x] + RightSide(mm, a, v)) % W
      BY <1>1, <2>1, <2>5 DEF NewField
    <3>. QED BY <3>3, <3>4, ZeroInVal
  <2>6. CASE a.op # "+="
    BY <1>1, <2>1, <2>4, <2>6 DEF NewField
  <2>. QED BY <2>5, <2>6
<1>2. CASE ActionsOn(t, x) = {} /\ x \in p.flds[mm.st]
  BY <1>2, AppliesFacts DEF NewField
<1>3. CASE ActionsOn(t, x) = {} /\ x \notin p.flds[mm.st]
  BY <1>3, AppliesFacts, ZeroInVal DEF NewField, DefaultOr0
<1>. QED BY <1>1, <1>2, <1>3

---------------------------------------------------------------------------
(* Children                                                                *)

(* What WellTyped says of the children of a machine of p.                  *)
KidsTyped(p, ks) ==
  /\ ks \in Seq(Range(ks))
  /\ \A i \in DOMAIN ks : Enum(p.child, ks[i]) /\ ks[i].kids = << >>

LEMMA NewKidTyped ==
  ASSUME NEW p, NEW s \in p.child.states
  PROVE  Enum(p.child, NewKid(p, s)) /\ NewKid(p, s).kids = << >>
BY ZeroInVal DEF NewKid, Enum

(* A function on 1 .. n is a sequence over its own range.                  *)
LEMMA SeqOverRange ==
  ASSUME NEW n \in Nat, NEW f, f = [i \in 1 .. n |-> f[i]]
  PROVE  f \in Seq(Range(f)) /\ DOMAIN f = 1 .. n /\ Len(f) = n
<1>1. \A i \in 1 .. n : f[i] \in Range(f)
  BY DEF Range
<1>2. f \in [1 .. n -> Range(f)]
  BY <1>1
<1>. QED BY <1>2

LEMMA NoKidsTyped == \A p : KidsTyped(p, << >>)
BY DEF KidsTyped

LEMMA NewKidsTyped ==
  ASSUME NEW p, NEW t, NEW mm, NEW v, Applies(p, t, mm, v)
  PROVE  /\ KidsTyped(p, NewKids(p, t, mm))
         /\ NewKids(p, t, mm) # << >> => p.kids[t.dst] > 0
<1>1. KidsTyped(p, mm.kids)
  BY DEF Applies, WellTyped, KidsTyped
<1>2. CASE ActionsOn(t, "kids") = {}
  BY <1>1, <1>2, NoKidsTyped DEF NewKids
<1>3. CASE ActionsOn(t, "kids") # {}
  <2>1. PICK k \in DOMAIN t.acts :
          FirstAction(t, "kids") = t.acts[k] /\ t.acts[k].tgt = "kids"
    BY <1>3, FirstActionOn, AppliesFacts
  <2> DEFINE a == t.acts[k]
  <2>2. /\ p.kids[t.dst] > 0
        /\ a.from = "fill" => a.n \in Nat /\ a.st \in p.child.states
    BY <2>1, AppliesFacts DEF ActFits
  <2>3. CASE a.from = "fill"
    <3> DEFINE ks == [i \in 1 .. a.n |-> NewKid(p, a.st)]
    <3>1. NewKids(p, t, mm) = ks
      BY <1>3, <2>1, <2>3 DEF NewKids
    <3>2. ks \in Seq(Range(ks)) /\ DOMAIN ks = 1 .. a.n
      BY <2>2, <2>3, SeqOverRange
    <3>3. \A i \in DOMAIN ks : Enum(p.child, ks[i]) /\ ks[i].kids = << >>
      BY <2>2, <2>3, NewKidTyped
    <3>. QED BY <2>2, <3>1, <3>2, <3>3 DEF KidsTyped
  <2>4. CASE a.from # "fill"
    BY <1>1, <1>3, <2>1, <2>2, <2>4 DEF NewKids
  <2>. QED BY <2>3, <2>4
<1>. QED BY <1>2, <1>3

(* Stores into single slots keep the children typed and their number.      *)
LEMMA WithStoresTyped ==
  ASSUME NEW p, NEW t, NEW mm, NEW v, Applies(p, t, mm, v)
  PROVE  /\ KidsTyped(p, WithStores(p, t, mm))
         /\ WithStores(p, t, mm) # << >> => p.kids[t.dst] > 0
<1> DEFINE ks == NewKids(p, t, mm)
           ws == WithStores(p, t, mm)
           stores(i) == { k \in ActionsOn(t, "slot") : SlotOf(mm, t.acts[k]) = i }
           last(i) == CHOOSE k \in stores(i) : \A y \in stores(i) : y <= k
<1>1. PICK n \in Nat : DOMAIN ks = 1 .. n /\ (n = 0 => ks = << >>)
  BY NewKidsTyped DEF KidsTyped
<1>2. DOMAIN ws = 1 .. n /\ ws \in Seq(Range(ws))
  <2>1. ws = [i \in 1 .. n |-> ws[i]]
    BY <1>1 DEF WithStores
  <2>. QED BY <2>1, SeqOverRange
<1>3. ASSUME NEW i \in DOMAIN ws
      PROVE  Enum(p.child, ws[i]) /\ ws[i].kids = << >>
  <2>1. CASE stores(i) = {}
    <3>1. ws[i] = ks[i]
      BY <1>1, <1>2, <2>1 DEF WithStores
    <3>. QED BY <1>1, <1>2, <3>1, NewKidsTyped DEF KidsTyped
  <2>2. CASE stores(i) # {}
    <3>1. stores(i) \subseteq 0 .. Len(t.acts) /\ Len(t.acts) \in Nat
      BY AppliesFacts DEF ActionsOn
    <3>2. \E k \in stores(i) : \A y \in stores(i) : y <= k
      BY <2>2, <3>1, GreatestElement
    <3>3. last(i) \in DOMAIN t.acts /\ t.acts[last(i)].tgt = "slot"
      BY <3>2 DEF ActionsOn
    <3>4. t.acts[last(i)].st \in p.child.states
      BY <3>3, AppliesFacts DEF ActFits
    <3>5. ws[i] = NewKid(p, t.acts[last(i)].st)
      BY <1>1, <1>2, <2>2 DEF WithStores
    <3>. QED BY <3>4, <3>5, NewKidTyped
  <2>. QED BY <2>1, <2>2
<1>4. ws # << >> => p.kids[t.dst] > 0
  <2>1. n = 0 => ws = << >>
    BY <1>2
  <2>2. n # 0 => ks # << >>
    BY <1>1
  <2>. QED BY <2>1, <2>2, NewKidsTyped
<1>. QED BY <1>2, <1>3, <1>4 DEF KidsTyped

---------------------------------------------------------------------------
(* dispatch                                                                *)

LEMMA NewStateTyped ==
  ASSUME NEW p, NEW t, NEW mm, NEW v, Applies(p, t, mm, v)
  PROVE  WellTyped(p, NewState(p, t, mm, v))
<1> DEFINE ns == NewState(p, t, mm, v)
<1>1. ns.st = t.dst /\ ns.kids = WithStores(p, t, mm)
  BY DEF NewState
<1>2. ns.f \in [p.flds[t.dst] -> Val]
  BY NewFieldInVal DEF NewState
<1>3. Enum(p, ns)
  BY <1>1, <1>2, AppliesFacts DEF Enum, NewState
<1>. QED BY <1>1, <1>3, WithStoresTyped DEF WellTyped, KidsTyped

(* The result of a dispatch that does not forward.                         *)
LEMMA PlainDispatchTyped ==
  ASSUME NEW p, Flat(p), StatesDefined(p), NEW mm, WellTyped(p, mm), NEW c, c.v \in Val
  PROVE  /\ WellTyped(p, PlainDispatch(p, mm, c).m)
         /\ PlainDispatch(p, mm, c).ok \in BOOLEAN
<1>1. CASE Arms(p, mm.st, c.e) = {}
  BY <1>1 DEF PlainDispatch, Reject
<1>2. CASE Arms(p, mm.st, c.e) # {}
  <2> DEFINE d == FirstArm(p, mm.st, c.e)
             t == p.decls[d]
  <2>1. Index(p) \subseteq Nat
    BY DEF Flat, Index
  <2>2. d \in Index(p) /\ mm.st \in Sources(p, t)
    BY <1>2, <2>1, FirstArmInArms, ArmStartsHere
  <2>3. Applies(p, t, mm, c.v)
    BY <2>2 DEF Applies
  <2>4. WellTyped(p, NewState(p, t, mm, c.v))
    BY <2>3, NewStateTyped
  <2>. QED BY <2>4 DEF PlainDispatch, Reject, Commit
<1>. QED BY <1>1, <1>2

(* The child a delegate addresses, and what the child's dispatch leaves,   *)
(* are values of the child's enum.                                         *)
LEMMA ChildResultTyped ==
  ASSUME NEW p, Compilable(p), NEW mm, WellTyped(p, mm),
         NEW c, Slot(p, c) \in DOMAIN mm.kids
  PROVE  /\ Enum(p.child, ChildResult(p, mm, c).m)
         /\ ChildResult(p, mm, c).m.kids = << >>
<1> DEFINE kid == mm.kids[Slot(p, c)]
           r == ChildResult(p, mm, c)
<1>1. HasChild(p)
  BY DEF WellTyped, Enum, HasChild
<1>2. /\ Flat(p.child) /\ StatesDefined(p.child)
      /\ \A s \in p.child.states : p.child.kids[s] = 0
  BY <1>1 DEF Compilable, Accepted
<1>3. WellTyped(p.child, kid)
  <2>1. Enum(p.child, kid) /\ kid.kids = << >>
    BY DEF WellTyped
  <2>2. kid.kids \in Seq(Range(kid.kids))
    BY <2>1
  <2>. QED BY <2>1, <2>2 DEF WellTyped
<1>4. ChildCall(p, c.v).v \in Val
  BY ZeroInVal DEF ChildCall, Call
<1>5. WellTyped(p.child, r.m)
  BY <1>2, <1>3, <1>4, PlainDispatchTyped DEF ChildResult
<1> HIDE DEF kid, r
<1>6. r.m.kids = << >>
  <2>1. r.m.st \in p.child.states
    BY <1>5 DEF WellTyped, Enum
  <2>2. p.child.kids[r.m.st] = 0
    BY <1>2, <2>1
  <2>3. r.m.kids # << >> => p.child.kids[r.m.st] > 0
    BY <1>5 DEF WellTyped
  <2>. QED BY <2>2, <2>3
<1>. QED BY <1>5, <1>6 DEF WellTyped, r

(* The parent with the child stored back.                                  *)
LEMMA WithChildTyped ==
  ASSUME NEW p, Compilable(p), NEW mm, WellTyped(p, mm),
         NEW c, Slot(p, c) \in DOMAIN mm.kids
  PROVE  /\ WellTyped(p, WithChild(p, mm, c))
         /\ WithChild(p, mm, c).st = mm.st
         /\ WithChild(p, mm, c).f = mm.f
         /\ WithChild(p, mm, c).kids = [mm.kids EXCEPT ![Slot(p, c)] = ChildResult(p, mm, c).m]
<1> DEFINE ns == WithChild(p, mm, c)
           k == Slot(p, c)
           r == ChildResult(p, mm, c)
<1>1. mm = [st |-> mm.st, f |-> mm.f, kids |-> mm.kids]
  BY DEF WellTyped, Enum
<1>2. ns = [st |-> mm.st, f |-> mm.f, kids |-> [mm.kids EXCEPT ![k] = r.m]]
  BY <1>1 DEF WithChild
<1>3. Enum(p, ns)
  BY <1>2 DEF WellTyped, Enum
<1>4. PICK n \in Nat : DOMAIN mm.kids = 1 .. n
  BY DEF WellTyped
<1>5. ns.kids \in Seq(Range(ns.kids)) /\ DOMAIN ns.kids = 1 .. n
  <2>1. DOMAIN ns.kids = 1 .. n /\ ns.kids = [i \in 1 .. n |-> ns.kids[i]]
    BY <1>2, <1>4 DEF WellTyped
  <2>. QED BY <2>1, SeqOverRange
<1>6. \A i \in DOMAIN ns.kids : Enum(p.child, ns.kids[i]) /\ ns.kids[i].kids = << >>
  BY <1>2, <1>4, <1>5, ChildResultTyped DEF WellTyped
<1>7. p.kids[mm.st] > 0
  BY <1>4 DEF WellTyped
<1>. QED BY <1>2, <1>3, <1>5, <1>6, <1>7 DEF WellTyped

(* A delegate that forwards addresses an existing child.                   *)
LEMMA ForwardsToChild ==
  ASSUME NEW p, NEW mm, WellTyped(p, mm), NEW c, c.i \in Nat, Forwards(p, mm, c)
  PROVE  Slot(p, c) \in DOMAIN mm.kids
BY DEF Forwards, Slot, WellTyped

LEMMA DelegateDispatchTyped ==
  ASSUME NEW p, Compilable(p), Accepted(p), NEW mm, WellTyped(p, mm),
         NEW c, c.v \in Val, c.i \in Nat
  PROVE  /\ WellTyped(p, DelegateDispatch(p, mm, c).m)
         /\ DelegateDispatch(p, mm, c).ok \in BOOLEAN
<1>1. CASE ~Forwards(p, mm, c)
  BY <1>1 DEF DelegateDispatch, Reject
<1>2. CASE Forwards(p, mm, c)
  <2> DEFINE ns == WithChild(p, mm, c)
  <2>1. WellTyped(p, ns)
    BY <1>2, ForwardsToChild, WithChildTyped
  <2>2. Call(Csc, 0, 0).v \in Val
    BY ZeroInVal DEF Call
  <2>3. WellTyped(p, PlainDispatch(p, ns, Call(Csc, 0, 0)).m)
    BY <2>1, <2>2, PlainDispatchTyped DEF Compilable, Accepted
  <2>4. WellTyped(p, AfterNotify(p, mm, c))
    BY <2>1, <2>3 DEF AfterNotify
  <2>. QED BY <1>2, <2>4 DEF DelegateDispatch, Commit
<1>. QED BY <1>1, <1>2

(* new() builds a value of the enum.                                       *)
LEMMA RustNewTyped ==
  ASSUME NEW p, Compilable(p), Accepted(p)
  PROVE  WellTyped(p, RustNew(p))
<1> DEFINE kid == [st |-> p.child.init, f |-> DefaultOr0(p.child, p.child.init), kids |-> << >>]
           n == IF p.indexed THEN 0 ELSE p.kids[p.init]
           ks == [i \in 1 .. n |-> kid]
<1>1. Flat(p) /\ StatesDefined(p) /\ p.init \in p.states
  BY DEF Compilable, Accepted, StatesDefined
<1>2. ASSUME NEW q, Flat(q), NEW s \in q.states
      PROVE  DefaultOr0(q, s) \in [q.flds[s] -> Val]
  BY <1>2, ZeroInVal DEF Flat, DefaultOr0
<1>3. n \in Nat /\ p.indexed \in BOOLEAN
  BY <1>1 DEF Flat
<1>4. RustNew(p) = [st |-> p.init, f |-> DefaultOr0(p, p.init), kids |-> ks]
  <2>1. CASE p.indexed
    BY <2>1 DEF RustNew
  <2>2. CASE ~p.indexed
    BY <2>2 DEF RustNew
  <2>. QED BY <2>1, <2>2
<1>5. ks \in Seq(Range(ks)) /\ DOMAIN ks = 1 .. n
  BY <1>3, SeqOverRange
<1>6. ASSUME n > 0
      PROVE  Enum(p.child, kid)
  <2>1. HasChild(p)
    BY <1>1, <1>6 DEF HasChild
  <2>2. Flat(p.child) /\ p.child.init \in p.child.states
    BY <2>1 DEF Compilable, Accepted, StatesDefined
  <2>. QED BY <1>2, <2>2 DEF Enum
<1>7. n > 0 => p.kids[p.init] > 0
  BY <1>3
<1>8. \A i \in DOMAIN ks : Enum(p.child, ks[i]) /\ ks[i].kids = << >>
  BY <1>3, <1>5, <1>6
<1>9. Enum(p, RustNew(p))
  BY <1>1, <1>2, <1>4 DEF Enum
<1>10. ks # << >> => p.kids[p.init] > 0
  BY <1>3, <1>5, <1>7
<1>. QED BY <1>4, <1>5, <1>8, <1>9, <1>10 DEF WellTyped

---------------------------------------------------------------------------
(* Invariance                                                              *)

(* A step of the machine is the dispatch of some call.                     *)
LEMMA StepIsDispatch ==
  ASSUME Next
  PROVE  \E c \in Calls(prog) : /\ call' = c
                                /\ prog' = prog
                                /\ m' = RustDispatch(prog, m, c).m
                                /\ ok' = RustDispatch(prog, m, c).ok
<1>1. PICK c \in Calls(prog) : PlainCall(c) \/ DelegateCall(c)
  BY DEF Next
<1>. QED BY <1>1 DEF PlainCall, DelegateCall, Return, RustDispatch

LEMMA CallFacts ==
  ASSUME NEW p, NEW c \in Calls(p)
  PROVE  c.v \in Val /\ c.i \in Nat /\ c.e \in EventsOf(p)
BY MaxIndexAssumption DEF Calls, Call

(* TypeOK is inductive for the declarations under study.                   *)
IInv == prog \in Programs /\ TypeOK

LEMMA DispatchTyped ==
  ASSUME NEW p, Compilable(p), Accepted(p), NEW mm, WellTyped(p, mm),
         NEW c, c.v \in Val, c.i \in Nat
  PROVE  /\ WellTyped(p, RustDispatch(p, mm, c).m)
         /\ RustDispatch(p, mm, c).ok \in BOOLEAN
<1>1. Flat(p) /\ StatesDefined(p)
  BY DEF Compilable, Accepted
<1>. QED BY <1>1, PlainDispatchTyped, DelegateDispatchTyped DEF RustDispatch

LEMMA InitIInv == Init => IInv
<1>. SUFFICES ASSUME Init PROVE IInv
  OBVIOUS
<1>1. Compilable(prog) /\ Accepted(prog)
  BY ProgramsAssumption DEF Init
<1>. QED BY <1>1, RustNewTyped DEF Init, IInv, TypeOK

LEMMA NextIInv == IInv /\ [Next]_vars => IInv'
<1>. SUFFICES ASSUME IInv, [Next]_vars PROVE IInv'
  OBVIOUS
<1>1. Compilable(prog) /\ Accepted(prog) /\ WellTyped(prog, m)
  BY ProgramsAssumption DEF IInv, TypeOK
<1>2. CASE Next
  <2>1. PICK c \in Calls(prog) : /\ prog' = prog
                                 /\ m' = RustDispatch(prog, m, c).m
                                 /\ ok' = RustDispatch(prog, m, c).ok
    BY <1>2, StepIsDispatch
  <2>2. c.v \in Val /\ c.i \in Nat
    BY CallFacts
  <2>3. WellTyped(prog, m') /\ ok' \in BOOLEAN
    BY <1>1, <2>1, <2>2, DispatchTyped
  <2>. QED BY <2>1, <2>3 DEF IInv, TypeOK
<1>3. CASE UNCHANGED vars
  BY <1>3 DEF vars, IInv, TypeOK
<1>. QED BY <1>2, <1>3

LEMMA IInvInvariant == Spec => []IInv
BY InitIInv, NextIInv, PTL DEF Spec

(* Whatever declaration is compiled and whatever calls are made, the       *)
(* machine is a value of its enum, its children values of theirs.          *)
THEOREM TypeCorrect == Spec => []TypeOK
<1>1. IInv => TypeOK
  BY DEF IInv
<1>. QED BY <1>1, IInvInvariant, PTL

---------------------------------------------------------------------------
(* What a step may not do                                                  *)

(* A rejected call leaves the machine alone.                               *)
LEMMA RejectedKeeps ==
  ASSUME NEW p, NEW mm, NEW c
  PROVE  /\ PlainDispatch(p, mm, c).ok \in BOOLEAN
         /\ DelegateDispatch(p, mm, c).ok \in BOOLEAN
         /\ ~PlainDispatch(p, mm, c).ok => PlainDispatch(p, mm, c).m = mm
         /\ ~DelegateDispatch(p, mm, c).ok => DelegateDispatch(p, mm, c).m = mm
<1>1. \A x : Reject(x).ok = FALSE /\ Reject(x).m = x /\ Commit(x).ok = TRUE
  BY DEF Reject, Commit
<1>. QED BY <1>1 DEF PlainDispatch, DelegateDispatch

(* A dispatch that returns Err has not changed the machine: the child's    *)
(* dispatch and the notification work on copies.                           *)
THEOREM ErrorAtomic == Spec => ErrorIsAtomic
<1>1. [Next]_vars => [~ok' => m' = m]_vars
  BY StepIsDispatch, RejectedKeeps DEF RustDispatch
<1>. QED BY <1>1, PTL DEF Spec, ErrorIsAtomic

(* No arm starts in a terminal state.                                      *)
LEMMA TerminalHasNoArms ==
  ASSUME NEW p, TerminalsHaveNoExits(p), NEW s \in p.terminal, NEW e
  PROVE  Arms(p, s, e) = {}
BY DEF TerminalsHaveNoExits, Arms, Covers, Sources, Index

(* A delegate whose child is in a terminal state is refused.               *)
LEMMA TerminalChildRefuses ==
  ASSUME NEW p, Compilable(p), NEW mm, WellTyped(p, mm), NEW c,
         Slot(p, c) \in DOMAIN mm.kids, mm.kids[Slot(p, c)].st \in p.child.terminal
  PROVE  DelegateDispatch(p, mm, c) = Reject(mm)
<1>1. HasChild(p)
  BY DEF WellTyped, Enum, HasChild
<1>2. TerminalsHaveNoExits(p.child)
  BY <1>1 DEF Compilable, Accepted
<1>3. ChildResult(p, mm, c) = Reject(mm.kids[Slot(p, c)])
  BY <1>2, TerminalHasNoArms DEF ChildResult, PlainDispatch
<1>4. ~Forwards(p, mm, c)
  BY <1>3 DEF Forwards, Reject
<1>. QED BY <1>4 DEF DelegateDispatch

(* Terminal states are final, for the machine and for a child reached      *)
(* through it.                                                             *)
THEOREM TerminalFinal == Spec => TerminalIsFinal
<1> DEFINE Final == \/ m.st \in prog.terminal
                    \/ /\ Delegates(prog, m.st, call'.e)
                       /\ \E i \in DOMAIN m.kids :
                            /\ i = IF prog.indexed THEN call'.i + 1 ELSE 1
                            /\ m.kids[i].st \in prog.child.terminal
<1>1. IInv /\ [Next]_vars => [Final => ~ok' /\ m' = m]_vars
  <2>. SUFFICES ASSUME IInv, Next, Final PROVE ~ok' /\ m' = m
    OBVIOUS
  <2>1. Compilable(prog) /\ Accepted(prog) /\ WellTyped(prog, m)
    BY ProgramsAssumption DEF IInv, TypeOK
  <2>2. PICK c \in Calls(prog) : /\ call' = c
                                 /\ m' = RustDispatch(prog, m, c).m
                                 /\ ok' = RustDispatch(prog, m, c).ok
    BY StepIsDispatch
  <2>3. CASE m.st \in prog.terminal
    <3>1. Arms(prog, m.st, c.e) = {}
      BY <2>1, <2>3, TerminalHasNoArms DEF Accepted
    <3>2. RustDispatch(prog, m, c) = Reject(m)
      BY <3>1 DEF RustDispatch, Delegates, PlainDispatch
    <3>. QED BY <2>2, <3>2 DEF Reject
  <2>4. CASE m.st \notin prog.terminal
    <3>1. /\ Delegates(prog, m.st, c.e)
          /\ Slot(prog, c) \in DOMAIN m.kids
          /\ m.kids[Slot(prog, c)].st \in prog.child.terminal
      BY <2>2, <2>4 DEF Slot
    <3>2. RustDispatch(prog, m, c) = Reject(m)
      BY <2>1, <3>1, TerminalChildRefuses DEF RustDispatch
    <3>. QED BY <2>2, <3>2 DEF Reject
  <2>. QED BY <2>3, <2>4
<1>. QED BY <1>1, IInvInvariant, PTL DEF Spec, TerminalIsFinal

(* An accepted call that does not forward follows the first arm of its     *)
(* pair.                                                                   *)
LEMMA PlainCommits ==
  ASSUME NEW p, Flat(p), NEW mm, NEW c, PlainDispatch(p, mm, c).ok
  PROVE  LET d == FirstArm(p, mm.st, c.e)
         IN  /\ d \in Arms(p, mm.st, c.e)
             /\ PlainDispatch(p, mm, c).m = NewState(p, p.decls[d], mm, c.v)
             /\ PlainDispatch(p, mm, c).m.st = p.decls[d].dst
             /\ DOMAIN PlainDispatch(p, mm, c).m.f = p.flds[p.decls[d].dst]
<1> DEFINE d == FirstArm(p, mm.st, c.e)
<1>1. Reject(mm).ok = FALSE
  BY DEF Reject
<1>2. Arms(p, mm.st, c.e) # {}
  BY <1>1 DEF PlainDispatch
<1>3. d \in Arms(p, mm.st, c.e)
  BY <1>2, FirstArmInArms DEF Flat, Index
<1>4. PlainDispatch(p, mm, c).m = NewState(p, p.decls[d], mm, c.v)
  BY <1>1 DEF PlainDispatch, Commit
<1>. QED BY <1>3, <1>4 DEF NewState

(* A concrete transition is never overridden by a wildcard.                *)
THEOREM WildcardPriority == Spec => ConcreteWins
<1>1. IInv /\ [Next]_vars =>
        [ok' /\ Concrete(prog, m.st, call'.e) /\ ~Delegates(prog, m.st, call'.e) =>
           \E d \in Index(prog) : /\ prog.decls[d].src = m.st
                                  /\ call'.e \in ToSet(prog.decls[d].on)
                                  /\ m'.st = prog.decls[d].dst]_vars
  <2>. SUFFICES ASSUME IInv, Next, ok', Concrete(prog, m.st, call'.e),
                       ~Delegates(prog, m.st, call'.e)
                PROVE  \E d \in Index(prog) : /\ prog.decls[d].src = m.st
                                              /\ call'.e \in ToSet(prog.decls[d].on)
                                              /\ m'.st = prog.decls[d].dst
    OBVIOUS
  <2>1. Flat(prog)
    BY ProgramsAssumption DEF IInv, Compilable
  <2>2. PICK c \in Calls(prog) : /\ call' = c
                                 /\ m' = RustDispatch(prog, m, c).m
                                 /\ ok' = RustDispatch(prog, m, c).ok
    BY StepIsDispatch
  <2> DEFINE d == FirstArm(prog, m.st, c.e)
  <2>3. PlainDispatch(prog, m, c).ok /\ m' = PlainDispatch(prog, m, c).m
    BY <2>2 DEF RustDispatch
  <2>4. d \in Arms(prog, m.st, c.e) /\ m'.st = prog.decls[d].dst
    BY <2>1, <2>3, PlainCommits
  <2>5. d \in Index(prog) /\ prog.decls[d].src = m.st /\ c.e \in ToSet(prog.decls[d].on)
    BY <2>2, <2>4 DEF Arms, Covers, Sources
  <2>. QED BY <2>2, <2>4, <2>5
<1>. QED BY <1>1, IInvInvariant, PTL DEF Spec, ConcreteWins

(* No accepted transition enters a state with a field that it neither      *)
(* assigns nor has a default for.                                          *)
THEOREM NoUnassignedField == Spec => FieldsAssigned
<1> DEFINE Assigned == \A x \in DOMAIN m'.f :
             \/ x \in DOMAIN prog.dflt[m'.st]
             \/ x \in Targets(prog.decls[FirstArm(prog, m.st, call'.e)])
<1>1. IInv /\ [Next]_vars => [ok' /\ ~Delegates(prog, m.st, call'.e) => Assigned]_vars
  <2>. SUFFICES ASSUME IInv, Next, ok', ~Delegates(prog, m.st, call'.e)
                PROVE  Assigned
    OBVIOUS
  <2>1. Flat(prog) /\ DstFieldsAssigned(prog) /\ m.st \in prog.states
    BY ProgramsAssumption DEF IInv, TypeOK, WellTyped, Enum, Compilable, Accepted
  <2>2. PICK c \in Calls(prog) : /\ call' = c
                                 /\ m' = RustDispatch(prog, m, c).m
                                 /\ ok' = RustDispatch(prog, m, c).ok
    BY StepIsDispatch
  <2> DEFINE d == FirstArm(prog, m.st, c.e)
             t == prog.decls[d]
  <2>3. PlainDispatch(prog, m, c).ok /\ m' = PlainDispatch(prog, m, c).m
    BY <2>2 DEF RustDispatch
  <2>4. /\ d \in Arms(prog, m.st, c.e)
        /\ m'.st = t.dst /\ DOMAIN m'.f = prog.flds[t.dst]
    BY <2>1, <2>3, PlainCommits
  <2>5. ~t.delegate
    BY <2>2, <2>4 DEF Delegates
  <2>6. prog.flds[t.dst] \ DOMAIN prog.dflt[t.dst] \subseteq Targets(t)
    BY <2>1, <2>4, <2>5, CallFacts DEF DstFieldsAssigned
  <2>. QED BY <2>2, <2>4, <2>6
<1>. QED BY <1>1, IInvInvariant, PTL DEF Spec, FieldsAssigned

---------------------------------------------------------------------------
(* Forwarding to a child                                                   *)

(* An accepted forward ends in AfterNotify, and one that is refused        *)
(* changes nothing.                                                        *)
LEMMA ForwardOutcome ==
  ASSUME IInv, Next, Delegates(prog, m.st, call'.e)
  PROVE  /\ ~ok' => m' = m
         /\ ok' => /\ Compilable(prog) /\ WellTyped(prog, m)
                   /\ Slot(prog, call') \in DOMAIN m.kids
                   /\ m' = AfterNotify(prog, m, call')
<1>1. PICK c \in Calls(prog) : /\ call' = c
                               /\ m' = RustDispatch(prog, m, c).m
                               /\ ok' = RustDispatch(prog, m, c).ok
  BY StepIsDispatch
<1>2. m' = DelegateDispatch(prog, m, c).m /\ ok' = DelegateDispatch(prog, m, c).ok
  BY <1>1 DEF RustDispatch
<1>3. Compilable(prog) /\ WellTyped(prog, m)
  BY ProgramsAssumption DEF IInv, TypeOK
<1>4. CASE Forwards(prog, m, c)
  <2>1. Slot(prog, c) \in DOMAIN m.kids
    BY <1>3, <1>4, CallFacts, ForwardsToChild
  <2>. QED BY <1>1, <1>2, <1>3, <1>4, <2>1 DEF DelegateDispatch, Commit
<1>5. CASE ~Forwards(prog, m, c)
  BY <1>2, <1>5 DEF DelegateDispatch, Reject
<1>. QED BY <1>4, <1>5

(* The notification of the parent, on the machine ns that holds the child: *)
(* not sent, refused, or an arm of child_state_changed has run.            *)
LEMMA NotifyOutcome ==
  ASSUME NEW p, Flat(p), NEW mm, NEW c, WithChild(p, mm, c).st = mm.st
  PROVE  LET ns == WithChild(p, mm, c)
             d == FirstArm(p, mm.st, Csc)
         IN  \/ AfterNotify(p, mm, c) = ns
             \/ /\ HasCsc(p) /\ ChildMoved(p, mm, c)
                /\ d \in Arms(p, mm.st, Csc)
                /\ AfterNotify(p, mm, c) = NewState(p, p.decls[d], ns, 0)
<1> DEFINE ns == WithChild(p, mm, c)
           k == Call(Csc, 0, 0)
<1>1. CASE ~(HasCsc(p) /\ ChildMoved(p, mm, c))
  BY <1>1 DEF AfterNotify
<1>2. CASE HasCsc(p) /\ ChildMoved(p, mm, c)
  <2>1. AfterNotify(p, mm, c) = PlainDispatch(p, ns, k).m
    BY <1>2 DEF AfterNotify
  <2>2. CASE ~PlainDispatch(p, ns, k).ok
    BY <2>1, <2>2, RejectedKeeps
  <2>3. CASE PlainDispatch(p, ns, k).ok
    <3>1. k.e = Csc /\ k.v = 0
      BY DEF Call
    <3>. QED BY <1>2, <2>1, <2>3, <3>1, PlainCommits
  <2>. QED BY <2>2, <2>3
<1>. QED BY <1>1, <1>2

(* A forwarded event changes one child; anything else only through a       *)
(* child_state_changed transition.                                         *)
THEOREM OneSlot == Spec => DelegateTouchesOneSlot
<1>1. IInv /\ [Next]_vars =>
        [LET k == IF prog.indexed THEN call'.i + 1 ELSE 1
         IN  Delegates(prog, m.st, call'.e) /\ ok' =>
               \/ ChildMoved(prog, m, call') /\ Arms(prog, m.st, Csc) # {}
               \/ /\ m'.f = m.f
                  /\ DOMAIN m'.kids = DOMAIN m.kids
                  /\ \A i \in DOMAIN m.kids : i # k => m'.kids[i] = m.kids[i]]_vars
  <2> DEFINE k == IF prog.indexed THEN call'.i + 1 ELSE 1
             ns == WithChild(prog, m, call')
  <2>. SUFFICES ASSUME IInv, Next, Delegates(prog, m.st, call'.e), ok'
                PROVE  \/ ChildMoved(prog, m, call') /\ Arms(prog, m.st, Csc) # {}
                       \/ /\ m'.f = m.f
                          /\ DOMAIN m'.kids = DOMAIN m.kids
                          /\ \A i \in DOMAIN m.kids : i # k => m'.kids[i] = m.kids[i]
    OBVIOUS
  <2>1. /\ Compilable(prog) /\ WellTyped(prog, m)
        /\ Slot(prog, call') \in DOMAIN m.kids
        /\ m' = AfterNotify(prog, m, call')
    BY ForwardOutcome
  <2>2. /\ ns.st = m.st /\ ns.f = m.f
        /\ ns.kids = [m.kids EXCEPT ![k] = ChildResult(prog, m, call').m]
    BY <2>1, WithChildTyped DEF Slot
  <2>3. m' = ns \/ (ChildMoved(prog, m, call') /\ Arms(prog, m.st, Csc) # {})
    BY <2>1, <2>2, NotifyOutcome DEF Compilable
  <2>4. m' = ns => /\ m'.f = m.f
                   /\ DOMAIN m'.kids = DOMAIN m.kids
                   /\ \A i \in DOMAIN m.kids : i # k => m'.kids[i] = m.kids[i]
    BY <2>1, <2>2 DEF WellTyped
  <2>. QED BY <2>3, <2>4
<1>. QED BY <1>1, IInvInvariant, PTL DEF Spec, DelegateTouchesOneSlot

(* A forwarded event moves the parent only when it moved the child, and    *)
(* then along a child_state_changed transition.                            *)
THEOREM ParentFollowsChild == Spec => ParentMovesOnlyWithChild
<1>1. IInv /\ [Next]_vars =>
        [Delegates(prog, m.st, call'.e) /\ m'.st # m.st
           => /\ ChildMoved(prog, m, call')
              /\ \E d \in Arms(prog, m.st, Csc) : prog.decls[d].dst = m'.st]_vars
  <2> DEFINE ns == WithChild(prog, m, call')
             d == FirstArm(prog, m.st, Csc)
  <2>. SUFFICES ASSUME IInv, Next, Delegates(prog, m.st, call'.e), m'.st # m.st
                PROVE  /\ ChildMoved(prog, m, call')
                       /\ \E x \in Arms(prog, m.st, Csc) : prog.decls[x].dst = m'.st
    OBVIOUS
  <2>1. /\ Compilable(prog) /\ WellTyped(prog, m)
        /\ Slot(prog, call') \in DOMAIN m.kids
        /\ m' = AfterNotify(prog, m, call')
    BY ForwardOutcome
  <2>2. /\ ns.st = m.st
        /\ ns.kids = [m.kids EXCEPT ![Slot(prog, call')] = ChildResult(prog, m, call').m]
    BY <2>1, WithChildTyped
  <2>3. /\ ChildMoved(prog, m, call')
        /\ d \in Arms(prog, m.st, Csc)
        /\ m' = NewState(prog, prog.decls[d], ns, 0)
    BY <2>1, <2>2, NotifyOutcome DEF Compilable
  <2>4. m'.st = prog.decls[d].dst
    BY <2>3 DEF NewState
  <2>. QED BY <2>3, <2>4
<1>. QED BY <1>1, IInvInvariant, PTL DEF Spec, ParentMovesOnlyWithChild

(* The notification of a moved child reaches the parent: its transition    *)
(* has run, or does not apply to the machine that holds the child.         *)
THEOREM NotificationDelivered == Spec => NotificationNotLost
<1>1. IInv /\ [Next]_vars =>
        [Delegates(prog, m.st, call'.e) /\ ok' /\ ChildMoved(prog, m, call')
         /\ Arms(prog, m.st, Csc) # {} =>
           LET t == prog.decls[FirstArm(prog, m.st, Csc)]
               ns == WithChild(prog, m, call')
           IN  IF GuardHolds(ns, t.guard, 0) /\ StoresInRange(prog, t, ns)
               THEN m' = NewState(prog, t, ns, 0)
               ELSE m' = ns]_vars
  <2> DEFINE ns == WithChild(prog, m, call')
             t == prog.decls[FirstArm(prog, m.st, Csc)]
             k == Call(Csc, 0, 0)
  <2>. SUFFICES ASSUME IInv, Next, Delegates(prog, m.st, call'.e), ok',
                       ChildMoved(prog, m, call'), Arms(prog, m.st, Csc) # {}
                PROVE  IF GuardHolds(ns, t.guard, 0) /\ StoresInRange(prog, t, ns)
                       THEN m' = NewState(prog, t, ns, 0) ELSE m' = ns
    OBVIOUS
  <2>1. /\ Compilable(prog) /\ WellTyped(prog, m)
        /\ Slot(prog, call') \in DOMAIN m.kids
        /\ m' = AfterNotify(prog, m, call')
    BY ForwardOutcome
  <2>2. /\ ns.st = m.st
        /\ ns.kids = [m.kids EXCEPT ![Slot(prog, call')] = ChildResult(prog, m, call').m]
    BY <2>1, WithChildTyped
  <2>3. HasCsc(prog)
    BY DEF HasCsc, EventsOf, Arms, Covers
  <2>4. m' = PlainDispatch(prog, ns, k).m
    BY <2>1, <2>3 DEF AfterNotify
  <2>5. k.e = Csc /\ k.v = 0
    BY DEF Call
  <2>6. PlainDispatch(prog, ns, k) =
          IF GuardHolds(ns, t.guard, 0) /\ StoresInRange(prog, t, ns)
          THEN Commit(NewState(prog, t, ns, 0)) ELSE Reject(ns)
    BY <2>2, <2>5 DEF PlainDispatch
  <2>. QED BY <2>4, <2>6 DEF Commit, Reject
<1>. QED BY <1>1, IInvInvariant, PTL DEF Spec, NotificationNotLost

---------------------------------------------------------------------------
(* The declaration means the same to C                                     *)

LEMMA SameArms == \A p, s, e : C!Arms(p, s, e) = Arms(p, s, e)
BY DEF C!Arms, Arms, C!Covers, Covers, C!Index, Index, C!Sources, Sources, C!Concrete, Concrete,
   C!Star, Star, C!ToSet, ToSet

LEMMA SameFirst == \A p, s, e : C!FirstArm(p, s, e) = FirstArm(p, s, e)
BY SameArms DEF C!FirstArm, FirstArm

LEMMA SameDelegates == \A p, s, e : C!Delegates(p, s, e) <=> Delegates(p, s, e)
BY SameArms, SameFirst DEF C!Delegates, Delegates

LEMMA SameOrder == \A p : C!EventOrder(p) = EventOrder(p)
BY DEF C!EventOrder, EventOrder, C!Index, Index, C!FoldLeft, FoldLeft, C!FlattenSeq, FlattenSeq,
  C!MapThenFoldSet, MapThenFoldSet, C!Max, Max, C!ToSet, ToSet

LEMMA SameVocabulary ==
  /\ \A mm, a, v : C!RightSide(mm, a, v) = RightSide(mm, a, v)
  /\ \A mm, g, v : C!SimpleGuardHolds(mm, g, v) <=> SimpleGuardHolds(mm, g, v)
  /\ \A p, s : C!NewKid(p, s) = NewKid(p, s)
  /\ \A p : C!HasCsc(p) <=> HasCsc(p)
  /\ \A p, c : C!Slot(p, c) = Slot(p, c)
  /\ \A e, v, i : C!Call(e, v, i) = Call(e, v, i)
  /\ \A p, s : C!DefaultOr0(p, s) = DefaultOr0(p, s)
  /\ C!Csc = Csc /\ C!NoTag = NoTag /\ C!Val = Val
<1>1. \A mm, a, v : C!RightSide(mm, a, v) = RightSide(mm, a, v)
  BY DEF C!RightSide, RightSide
<1>2. \A mm, g, v : C!SimpleGuardHolds(mm, g, v) <=> SimpleGuardHolds(mm, g, v)
  BY DEF C!SimpleGuardHolds, SimpleGuardHolds
<1>3. \A p, s : C!NewKid(p, s) = NewKid(p, s)
  BY DEF C!NewKid, NewKid
<1>4. \A p : C!HasCsc(p) <=> HasCsc(p)
  BY DEF C!HasCsc, HasCsc, C!EventsOf, EventsOf, C!Index, Index, C!Csc, Csc, C!ToSet, ToSet
<1>5. \A p, c : C!Slot(p, c) = Slot(p, c)
  BY DEF C!Slot, Slot
<1>6. \A e, v, i : C!Call(e, v, i) = Call(e, v, i)
  BY DEF C!Call, Call
<1>7. \A p, s : C!DefaultOr0(p, s) = DefaultOr0(p, s)
  BY DEF C!DefaultOr0, DefaultOr0
<1>8. C!Csc = Csc /\ C!NoTag = NoTag /\ C!Val = Val
  BY DEF C!Csc, Csc, C!NoTag, NoTag, C!Val, Val
<1>. QED BY <1>1, <1>2, <1>3, <1>4, <1>5, <1>6, <1>7, <1>8

---------------------------------------------------------------------------
(* The assignments of the C dispatch                                       *)

(* The destination after the first k assignments, from a fresh one.        *)
After(p, t, mm, v, fresh) ==
  CHOOSE f : f = [k \in 0 .. Len(t.acts) |->
    IF k = 0 THEN fresh ELSE C!Assign(p, mm, v, f[k - 1], t.acts[k])]

LEMMA AssignmentsRun ==
  ASSUME NEW p, NEW t, Len(t.acts) \in Nat, NEW mm, NEW v, NEW fresh
  PROVE  /\ C!Built(p, t, mm, v, fresh) = After(p, t, mm, v, fresh)[Len(t.acts)]
         /\ After(p, t, mm, v, fresh)[0] = fresh
         /\ \A k \in 1 .. Len(t.acts) :
              After(p, t, mm, v, fresh)[k]
                = C!Assign(p, mm, v, After(p, t, mm, v, fresh)[k - 1], t.acts[k])
<1> DEFINE n == Len(t.acts)
           Link(f, k) == IF k = 0 THEN fresh ELSE C!Assign(p, mm, v, f[k - 1], t.acts[k])
           Run(f, l) == f = [k \in 0 .. l |-> Link(f, k)]
           Bad == { l \in 0 .. n : ~\E f : Run(f, l) }
<1>1. Bad = {}
  <2>. SUFFICES ASSUME Bad # {} PROVE FALSE
    OBVIOUS
  <2>1. Bad \subseteq Nat
    OBVIOUS
  <2>2. PICK l \in Bad : \A x \in Bad : l <= x
    <3>. HIDE DEF Bad
    <3>. QED BY <2>1, LeastElement
  <2>3. l \in 0 .. n /\ ~\E f : Run(f, l)
    BY <2>2
  <2>4. CASE l = 0
    <3> DEFINE f == [k \in 0 .. 0 |-> fresh]
    <3>1. f = [k \in 0 .. 0 |-> Link(f, k)]
      OBVIOUS
    <3>. QED BY <2>3, <2>4, <3>1
  <2>5. CASE l # 0
    <3>1. l - 1 \in 0 .. n /\ l \in Nat /\ ~(l <= l - 1)
      BY <2>3, <2>5
    <3>2. l - 1 \notin Bad
      BY <2>2, <3>1
    <3>3. PICK g : Run(g, l - 1)
      BY <3>1, <3>2
    <3> DEFINE f == [k \in 0 .. l |->
                       IF k = l THEN C!Assign(p, mm, v, g[l - 1], t.acts[l]) ELSE g[k]]
    <3>4. ASSUME NEW k \in 0 .. l PROVE f[k] = Link(f, k)
      <4>1. CASE k = l
        <5>1. l - 1 \in 0 .. l /\ l - 1 # l
          BY <3>1
        <5>2. f[k - 1] = g[l - 1]
          BY <4>1, <5>1
        <5>. QED BY <2>5, <4>1, <5>2
      <4>2. CASE k # l
        <5>1. k \in 0 .. l - 1 /\ f[k] = g[k]
          BY <3>1, <4>2
        <5>2. g[k] = Link(g, k)
          BY <3>3, <5>1
        <5>3. k # 0 => k - 1 \in 0 .. l /\ k - 1 # l
          BY <3>1, <4>2
        <5>4. k # 0 => f[k - 1] = g[k - 1]
          BY <5>3
        <5>. QED BY <5>1, <5>2, <5>4
      <4>. QED BY <4>1, <4>2
    <3>5. f = [k \in 0 .. l |-> f[k]]
      OBVIOUS
    <3>6. Run(f, l)
      <4>. HIDE DEF f
      <4>. QED BY <3>4, <3>5
    <3>. QED BY <2>3, <3>6
  <2>. QED BY <2>4, <2>5
<1>2. \E f : Run(f, n)
  BY <1>1
<1>3. Run(After(p, t, mm, v, fresh), n)
  BY <1>2 DEF After
<1>4. C!Built(p, t, mm, v, fresh) = After(p, t, mm, v, fresh)[n]
  BY DEF C!Built, After
<1>5. \A k \in 0 .. n : After(p, t, mm, v, fresh)[k] = Link(After(p, t, mm, v, fresh), k)
  BY <1>3
<1>. QED BY <1>4, <1>5

---------------------------------------------------------------------------
(* A transition that assigns everything once                               *)

Full(p, mm) == DOMAIN mm.kids = 1 .. p.kids[mm.st]

(* What the lemmas below assume: the transition t of p runs on the machine *)
(* mm with the parameter v.                                                *)
Runs(p, t, mm, v) ==
  /\ Applies(p, t, mm, v)
  /\ Full(p, mm)
  /\ AssignsOnce(p, t)
  /\ p.kids[t.dst] > 0 => "kids" \in Targets(t)
  /\ SimpleGuardHolds(mm, t.guard, v)

LEMMA RunsFacts ==
  ASSUME NEW p, NEW t, NEW mm, NEW v, Runs(p, t, mm, v)
  PROVE  /\ Len(t.acts) \in Nat /\ DOMAIN t.acts = 1 .. Len(t.acts)
         /\ p.kids[t.dst] \in Nat /\ p.kids[mm.st] \in Nat
         /\ \A j, k \in DOMAIN t.acts : t.acts[j].tgt = t.acts[k].tgt => j = k
<1>1. Applies(p, t, mm, v) /\ AssignsOnce(p, t)
  BY DEF Runs
<1>2. t.acts \in Seq(Range(t.acts))
  BY <1>1, AppliesFacts
<1>3. p.kids \in [p.states -> Nat] /\ t.dst \in p.states /\ mm.st \in p.states
  BY <1>1, AppliesFacts DEF Applies, Flat
<1>. QED BY <1>1, <1>2, <1>3 DEF AssignsOnce

(* The one action on a field is the first.                                 *)
LEMMA TheAction ==
  ASSUME NEW p, NEW t, NEW mm, NEW v, Runs(p, t, mm, v), NEW k \in DOMAIN t.acts
  PROVE  ActionsOn(t, t.acts[k].tgt) = {k} /\ FirstAction(t, t.acts[k].tgt) = t.acts[k]
<1> DEFINE x == t.acts[k].tgt
<1>1. ActionsOn(t, x) = {k}
  BY RunsFacts DEF ActionsOn
<1>2. t.acts \in Seq(Range(t.acts))
  BY AppliesFacts DEF Runs
<1>3. PICK j \in DOMAIN t.acts : FirstAction(t, x) = t.acts[j] /\ t.acts[j].tgt = x
  BY <1>1, <1>2, FirstActionOn
<1>4. j = k
  BY <1>3, RunsFacts
<1>. QED BY <1>1, <1>3, <1>4

LEMMA KidsArray ==
  ASSUME NEW p, NEW t, NEW mm, NEW v, Runs(p, t, mm, v), NEW k \in DOMAIN t.acts,
         t.acts[k].tgt = "kids"
  PROVE  /\ NewKids(p, t, mm) = IF t.acts[k].from = "fill"
                                THEN [i \in 1 .. p.kids[t.dst] |-> NewKid(p, t.acts[k].st)]
                                ELSE mm.kids
         /\ NewKids(p, t, mm) = [i \in 1 .. p.kids[t.dst] |-> NewKids(p, t, mm)[i]]
         /\ DOMAIN NewKids(p, t, mm) = 1 .. p.kids[t.dst]
         /\ t.acts[k].from \in {"fill", "copy"}
<1> DEFINE a == t.acts[k]
<1>1. ActionsOn(t, "kids") # {} /\ FirstAction(t, "kids") = a
  BY TheAction
<1>2. FillsKids(p, t, a)
  BY DEF Runs, AssignsOnce
<1>3. a.from \in {"fill", "copy"}
  BY AppliesFacts DEF Runs, ActFits
<1>4. CASE a.from = "fill"
  <2>1. a.n = p.kids[t.dst]
    BY <1>2, <1>4 DEF FillsKids
  <2>. QED BY <1>1, <1>3, <1>4, <2>1 DEF NewKids
<1>5. CASE a.from = "copy"
  <2>1. mm.st \in Sources(p, t)
    BY DEF Runs, Applies
  <2>2. p.kids[mm.st] = p.kids[t.dst]
    BY <1>2, <1>5, <2>1 DEF FillsKids
  <2>3. NewKids(p, t, mm) = mm.kids /\ DOMAIN mm.kids = 1 .. p.kids[t.dst]
    BY <1>1, <1>5, <2>2 DEF NewKids, Runs, Full
  <2>4. mm.kids \in Seq(Range(mm.kids))
    BY DEF Runs, Applies, WellTyped
  <2>5. mm.kids = [i \in DOMAIN mm.kids |-> mm.kids[i]]
    BY <2>4
  <2>. QED BY <1>3, <1>5, <2>3, <2>5
<1>. QED BY <1>3, <1>4, <1>5

LEMMA ModIsLess == \A n \in Nat : n % W <= n
<1>. SUFFICES ASSUME NEW n \in Nat PROVE n % W <= n
  OBVIOUS
<1>. QED BY WAssumption

(* A slot that is assigned is one of the array.                            *)
LEMMA SlotHits ==
  ASSUME NEW p, NEW t, NEW mm, NEW v, Runs(p, t, mm, v), NEW k \in DOMAIN t.acts,
         t.acts[k].tgt = "slot"
  PROVE  SlotOf(mm, t.acts[k]) \in 1 .. p.kids[t.dst]
<1> DEFINE a == t.acts[k]
<1>0. SlotOf(mm, a) = RightSide(mm, a, 0) + 1
  BY DEF SlotOf
<1>1. SlotExists(p, t, a) /\ a.n \in Nat /\ p.kids[t.dst] \in Nat
  <2>1. SlotExists(p, t, a)
    BY DEF Runs, AssignsOnce
  <2>2. a.from \in {"lit", "src"} /\ a.n \in Nat
    BY AppliesFacts DEF Runs, ActFits
  <2>. QED BY <2>1, <2>2, RunsFacts
<1>2. CASE a.from = "lit" /\ a.n % W < p.kids[t.dst]
  <2>1. RightSide(mm, a, 0) = a.n % W
    BY <1>2 DEF RightSide
  <2>2. a.n % W \in Nat
    BY <1>1, WAssumption
  <2>3. PICK N \in Nat, r \in Nat : N = p.kids[t.dst] /\ r = a.n % W
    BY <1>1, <2>2
  <2>4. r + 1 \in 1 .. N
    BY <1>2, <2>3
  <2>. QED BY <1>0, <2>1, <2>3, <2>4
<1>3. CASE /\ a.from = "src" /\ t.guard.k = "lt" /\ t.guard.fld = a.fld
           /\ t.guard.n + a.n <= p.kids[t.dst]
  <2>1. RightSide(mm, a, 0) = (mm.f[a.fld] + a.n) % W
    BY <1>3 DEF RightSide
  <2>2. mm.f[a.fld] < t.guard.n
    BY <1>3 DEF Runs, SimpleGuardHolds
  <2>3. mm.f[a.fld] \in Nat
    <3>1. a.fld \in ReadsOf(t)
      BY <1>3 DEF ReadsOf
    <3>2. mm.f[a.fld] \in Val
      BY <3>1, AppliesFacts DEF Runs
    <3>. QED BY <3>2, WAssumption DEF Val
  <2>4. t.guard.n \in Nat
    <3>1. GuardFits(p, mm.st, t.guard)
      BY DEF Runs, Applies, Flat, StatesDefined, WellTyped, Enum
    <3>. QED BY <1>3, <3>1 DEF GuardFits
  <2>5. mm.f[a.fld] + a.n \in Nat /\ (mm.f[a.fld] + a.n) % W \in Nat
        /\ (mm.f[a.fld] + a.n) % W <= mm.f[a.fld] + a.n
    <3>1. mm.f[a.fld] + a.n \in Nat
      BY <1>1, <2>3
    <3>2. PICK s \in Nat : s = mm.f[a.fld] + a.n
      BY <3>1
    <3>3. s % W \in Nat /\ s % W <= s
      BY <3>2, WAssumption, ModIsLess
    <3>. QED BY <3>2, <3>3
  <2>6. PICK y \in Nat, r \in Nat, g \in Nat, l \in Nat, N \in Nat :
          /\ y = mm.f[a.fld] /\ r = (mm.f[a.fld] + a.n) % W /\ g = t.guard.n /\ l = a.n
          /\ N = p.kids[t.dst]
    BY <1>1, <2>3, <2>4, <2>5
  <2>7. r <= y + l /\ y < g /\ g + l <= N
    BY <1>3, <2>2, <2>5, <2>6
  <2>8. r + 1 \in 1 .. N
    BY <2>7
  <2>. QED BY <1>0, <2>1, <2>6, <2>8
<1>. QED BY <1>1, <1>2, <1>3 DEF SlotExists

(* The children after the stores into single slots.                        *)
LEMMA Stores ==
  ASSUME NEW p, NEW t, NEW mm, NEW v, Runs(p, t, mm, v), "kids" \in Targets(t)
  PROVE  /\ DOMAIN NewKids(p, t, mm) = 1 .. p.kids[t.dst]
         /\ WithStores(p, t, mm) = [i \in 1 .. p.kids[t.dst] |-> WithStores(p, t, mm)[i]]
         /\ \A k \in DOMAIN t.acts : t.acts[k].tgt = "slot" =>
              WithStores(p, t, mm)[SlotOf(mm, t.acts[k])] = NewKid(p, t.acts[k].st)
         /\ \A i \in 1 .. p.kids[t.dst] :
              (\A k \in DOMAIN t.acts : t.acts[k].tgt = "slot" => SlotOf(mm, t.acts[k]) # i)
                => WithStores(p, t, mm)[i] = NewKids(p, t, mm)[i]
<1> DEFINE ws == WithStores(p, t, mm)
           stores(i) == { k \in ActionsOn(t, "slot") : SlotOf(mm, t.acts[k]) = i }
<1>1. DOMAIN NewKids(p, t, mm) = 1 .. p.kids[t.dst]
  BY KidsArray DEF Targets
<1>2. ws = [i \in 1 .. p.kids[t.dst] |->
              IF stores(i) = {} THEN NewKids(p, t, mm)[i]
              ELSE NewKid(p, t.acts[CHOOSE k \in stores(i) : \A y \in stores(i) : y <= k].st)]
  BY <1>1 DEF WithStores
<1>3. ASSUME NEW k \in DOMAIN t.acts, t.acts[k].tgt = "slot"
      PROVE  ws[SlotOf(mm, t.acts[k])] = NewKid(p, t.acts[k].st)
  <2>1. PICK i \in 1 .. p.kids[t.dst] : i = SlotOf(mm, t.acts[k])
    BY <1>3, SlotHits
  <2>2. stores(i) = {k}
    <3>1. ActionsOn(t, "slot") = {k}
      BY <1>3, TheAction
    <3>. QED BY <2>1, <3>1
  <2>3. (CHOOSE y \in stores(i) : \A z \in stores(i) : z <= y) = k
    <3>1. k <= k
      BY RunsFacts
    <3>2. \E y \in {k} : \A z \in {k} : z <= y
      BY <3>1
    <3>. QED BY <2>2, <3>2
  <2>4. ws[i] = NewKid(p, t.acts[CHOOSE y \in stores(i) : \A z \in stores(i) : z <= y].st)
    BY <1>2, <2>1, <2>2
  <2>. QED BY <2>1, <2>3, <2>4
<1>4. ASSUME NEW i \in 1 .. p.kids[t.dst],
             \A k \in DOMAIN t.acts : t.acts[k].tgt = "slot" => SlotOf(mm, t.acts[k]) # i
      PROVE  ws[i] = NewKids(p, t, mm)[i]
  <2>1. stores(i) = {}
    BY <1>4 DEF ActionsOn
  <2>. QED BY <1>2, <2>1
<1>5. ws = [i \in 1 .. p.kids[t.dst] |-> ws[i]]
  BY <1>2
<1>. QED BY <1>1, <1>3, <1>4, <1>5

---------------------------------------------------------------------------
(* The destination the C dispatch builds                                   *)

(* A destination of the transition t, with whatever in it.                 *)
Shape(p, t, d) ==
  /\ d = [st |-> t.dst, f |-> d.f, kids |-> d.kids]
  /\ d.f = [x \in p.flds[t.dst] |-> d.f[x]]
  /\ d.kids = [i \in 1 .. p.kids[t.dst] |-> d.kids[i]]

LEMMA FreshShape ==
  ASSUME NEW p, NEW t, p.kids[t.dst] \in Nat, NEW d \in C!AnyMachine(p, t.dst)
  PROVE  Shape(p, t, d)
<1>1. PICK f \in C!AnyFields(p, t.dst),
           ks \in IF p.kids[t.dst] = 0 THEN { << >> } ELSE [1 .. p.kids[t.dst] -> C!AnyKid(p)] :
        d = [st |-> t.dst, f |-> f, kids |-> ks]
  BY DEF C!AnyMachine
<1>2. f = [x \in p.flds[t.dst] |-> f[x]]
  BY <1>1 DEF C!AnyFields
<1>3. ks = [i \in 1 .. p.kids[t.dst] |-> ks[i]]
  <2>1. CASE p.kids[t.dst] = 0
    <3>1. 1 .. p.kids[t.dst] = {}
      BY <2>1
    <3>. QED BY <1>1, <2>1, <3>1
  <2>2. CASE p.kids[t.dst] # 0
    BY <1>1, <2>2
  <2>. QED BY <2>1, <2>2
<1>. QED BY <1>1, <1>2, <1>3 DEF Shape

LEMMA Replaced ==
  ASSUME NEW S, NEW F, NEW K, NEW d, d = [st |-> S, f |-> F, kids |-> K]
  PROVE  /\ \A X : [d EXCEPT !.kids = X] = [st |-> S, f |-> F, kids |-> X]
         /\ \A i, x : [d EXCEPT !.kids[i] = x] =
                        [st |-> S, f |-> F, kids |-> [K EXCEPT ![i] = x]]
         /\ \A i, x : [d EXCEPT !.f[i] = x] =
                        [st |-> S, f |-> [F EXCEPT ![i] = x], kids |-> K]
OBVIOUS

(* What one assignment makes of a destination d.                           *)
LEMMA Assigned ==
  ASSUME NEW p, NEW t, NEW mm, NEW v, Runs(p, t, mm, v),
         NEW k \in DOMAIN t.acts, NEW a, a = t.acts[k], NEW d, Shape(p, t, d)
  PROVE  C!Assign(p, mm, v, d, a) =
           [st |-> t.dst,
            f |-> IF a.tgt \in {"kids", "slot"} THEN d.f
                  ELSE [d.f EXCEPT ![a.tgt] = RightSide(mm, a, v)],
            kids |-> IF a.tgt = "kids" THEN NewKids(p, t, mm)
                     ELSE IF a.tgt = "slot"
                          THEN [d.kids EXCEPT ![SlotOf(mm, a)] = NewKid(p, a.st)]
                     ELSE d.kids]
<1>0. d = [st |-> t.dst, f |-> d.f, kids |-> d.kids]
  BY DEF Shape
<1>1. a.op = "="
  BY DEF Runs, AssignsOnce
<1>2. CASE a.tgt = "kids"
  <2>1. NewKids(p, t, mm) = (IF a.from = "fill"
                             THEN [i \in 1 .. p.kids[t.dst] |-> NewKid(p, a.st)] ELSE mm.kids)
        /\ a.from \in {"fill", "copy"}
    BY <1>2, KidsArray
  <2>2. CASE a.from = "fill"
    <3>1. a.n = p.kids[t.dst]
      BY <1>2, <2>2 DEF Runs, AssignsOnce, FillsKids
    <3>2. DOMAIN d.kids = 1 .. p.kids[t.dst]
      BY DEF Shape
    <3>3. [i \in DOMAIN d.kids |-> IF i <= a.n THEN C!NewKid(p, a.st) ELSE d.kids[i]]
            = [i \in 1 .. p.kids[t.dst] |-> NewKid(p, a.st)]
      <4>1. \A i \in 1 .. p.kids[t.dst] : i <= a.n
        BY <3>1, RunsFacts
      <4>. QED BY <3>2, <4>1, SameVocabulary
    <3>4. C!Assign(p, mm, v, d, a) =
            [d EXCEPT !.kids = [i \in DOMAIN @ |->
                                  IF i <= a.n THEN C!NewKid(p, a.st) ELSE @[i]]]
      BY <1>2, <2>2 DEF C!Assign
    <3>5. PICK K : K = [i \in 1 .. p.kids[t.dst] |-> NewKid(p, a.st)]
      OBVIOUS
    <3>6. C!Assign(p, mm, v, d, a) = [d EXCEPT !.kids = K]
      BY <3>3, <3>4, <3>5
    <3>7. C!Assign(p, mm, v, d, a) = [st |-> t.dst, f |-> d.f, kids |-> K]
      BY <1>0, <3>6, Replaced
    <3>. QED BY <1>2, <2>1, <2>2, <3>5, <3>7
  <2>3. CASE a.from = "copy"
    <3>1. C!Assign(p, mm, v, d, a) = [d EXCEPT !.kids = mm.kids]
      BY <1>2, <2>3 DEF C!Assign
    <3>. QED BY <1>0, <1>2, <2>1, <2>3, <3>1, Replaced
  <2>. QED BY <2>1, <2>2, <2>3
<1>3. CASE a.tgt = "slot"
  <2>1. C!Assign(p, mm, v, d, a) =
          [d EXCEPT !.kids[C!RightSide(mm, a, 0) + 1] = C!NewKid(p, a.st)]
    BY <1>3 DEF C!Assign
  <2>2. C!RightSide(mm, a, 0) + 1 = SlotOf(mm, a) /\ C!NewKid(p, a.st) = NewKid(p, a.st)
    BY SameVocabulary DEF SlotOf
  <2>3. C!Assign(p, mm, v, d, a) =
          [st |-> t.dst, f |-> d.f, kids |-> [d.kids EXCEPT ![SlotOf(mm, a)] = NewKid(p, a.st)]]
    BY <1>0, <2>1, <2>2, Replaced
  <2>. QED BY <1>3, <2>3
<1>4. CASE a.tgt \notin {"kids", "slot"}
  <2>1. C!Assign(p, mm, v, d, a) = [d EXCEPT !.f[a.tgt] = C!RightSide(mm, a, v)]
    BY <1>1, <1>4 DEF C!Assign
  <2>2. C!RightSide(mm, a, v) = RightSide(mm, a, v)
    BY SameVocabulary
  <2>3. C!Assign(p, mm, v, d, a) =
          [st |-> t.dst, f |-> [d.f EXCEPT ![a.tgt] = RightSide(mm, a, v)], kids |-> d.kids]
    BY <1>0, <2>1, <2>2, Replaced
  <2>. QED BY <1>4, <2>3
<1>. QED BY <1>2, <1>3, <1>4

(* After the first k assignments: the fields assigned so far have the      *)
(* value Rust gives them, and once the array is assigned each slot has the *)
(* child it gets in Rust, or got before the store into it.                 *)
Progress(p, t, mm, v, k, d) ==
  /\ Shape(p, t, d)
  /\ \A j \in 1 .. k : t.acts[j].tgt \notin {"kids", "slot"} =>
       d.f[t.acts[j].tgt] = RightSide(mm, t.acts[j], v)
  /\ \A j \in 1 .. k : t.acts[j].tgt = "kids" =>
       \A i \in 1 .. p.kids[t.dst] :
         d.kids[i] = IF \E s \in 1 .. k : t.acts[s].tgt = "slot" /\ SlotOf(mm, t.acts[s]) = i
                     THEN WithStores(p, t, mm)[i] ELSE NewKids(p, t, mm)[i]

LEMMA ProgressMade ==
  ASSUME NEW p, NEW t, NEW mm, NEW v, Runs(p, t, mm, v), NEW k \in DOMAIN t.acts,
         NEW d, Progress(p, t, mm, v, k - 1, d)
  PROVE  Progress(p, t, mm, v, k, C!Assign(p, mm, v, d, t.acts[k]))
<1>1. PICK a : a = t.acts[k]
  OBVIOUS
<1>2. PICK N \in Nat : N = p.kids[t.dst]
  BY RunsFacts
<1> DEFINE r == C!Assign(p, mm, v, d, a)
<1>3. /\ r.st = t.dst /\ r = [st |-> t.dst, f |-> r.f, kids |-> r.kids]
      /\ r.f = IF a.tgt \in {"kids", "slot"} THEN d.f
               ELSE [d.f EXCEPT ![a.tgt] = RightSide(mm, a, v)]
      /\ r.kids = IF a.tgt = "kids" THEN NewKids(p, t, mm)
                  ELSE IF a.tgt = "slot" THEN [d.kids EXCEPT ![SlotOf(mm, a)] = NewKid(p, a.st)]
                  ELSE d.kids
  <2>1. Shape(p, t, d)
    BY DEF Progress
  <2>. HIDE DEF r
  <2>2. r = [st |-> t.dst,
            f |-> IF a.tgt \in {"kids", "slot"} THEN d.f
                  ELSE [d.f EXCEPT ![a.tgt] = RightSide(mm, a, v)],
            kids |-> IF a.tgt = "kids" THEN NewKids(p, t, mm)
                     ELSE IF a.tgt = "slot"
                          THEN [d.kids EXCEPT ![SlotOf(mm, a)] = NewKid(p, a.st)]
                     ELSE d.kids]
    BY <1>1, <2>1, Assigned DEF r
  <2>. QED BY <2>2
<1>. HIDE DEF r
<1>4. /\ d.f = [x \in p.flds[t.dst] |-> d.f[x]] /\ d.kids = [i \in 1 .. N |-> d.kids[i]]
      /\ DOMAIN d.f = p.flds[t.dst] /\ DOMAIN d.kids = 1 .. N
  BY <1>2 DEF Progress, Shape
<1>5. k \in Nat /\ 1 .. k = (1 .. k - 1) \cup {k} /\ k \notin 1 .. k - 1
      /\ 1 .. k \subseteq DOMAIN t.acts
  BY RunsFacts
<1>6. \A j \in 1 .. k - 1 : t.acts[j].tgt # a.tgt
  BY <1>1, <1>5, RunsFacts
<1>7. r.kids = [i \in 1 .. N |-> r.kids[i]]
  <2>1. CASE a.tgt = "kids"
    <3>1. NewKids(p, t, mm) = [i \in 1 .. N |-> NewKids(p, t, mm)[i]]
      BY <1>1, <1>2, <2>1, KidsArray
    <3>. QED BY <1>3, <2>1, <3>1
  <2>2. CASE a.tgt = "slot"
    BY <1>3, <1>4, <2>2
  <2>3. CASE a.tgt \notin {"kids", "slot"}
    BY <1>3, <1>4, <2>3
  <2>. QED BY <2>1, <2>2, <2>3
<1>8. Shape(p, t, r)
  <2>1. r.f = [x \in p.flds[t.dst] |-> r.f[x]]
    BY <1>3, <1>4
  <2>. QED BY <1>2, <1>3, <1>7, <2>1 DEF Shape
<1>9. ASSUME NEW j \in 1 .. k, t.acts[j].tgt \notin {"kids", "slot"}
      PROVE  r.f[t.acts[j].tgt] = RightSide(mm, t.acts[j], v)
  <2>1. CASE j = k
    <3>1. a.tgt \in p.flds[t.dst]
      BY <1>1, <1>9, <2>1, AppliesFacts DEF Runs, ActFits
    <3>. QED BY <1>1, <1>3, <1>4, <1>9, <2>1, <3>1
  <2>2. CASE j \in 1 .. k - 1
    <3>1. d.f[t.acts[j].tgt] = RightSide(mm, t.acts[j], v) /\ t.acts[j].tgt # a.tgt
      BY <1>6, <1>9, <2>2 DEF Progress
    <3>2. t.acts[j].tgt \in p.flds[t.dst]
      BY <1>5, <1>9, AppliesFacts DEF Runs, ActFits
    <3>. QED BY <1>3, <1>4, <3>1, <3>2
  <2>. QED BY <1>5, <2>1, <2>2
<1>10. ASSUME NEW j \in 1 .. k, t.acts[j].tgt = "kids", NEW i \in 1 .. N
       PROVE  r.kids[i] = IF \E s \in 1 .. k : t.acts[s].tgt = "slot" /\ SlotOf(mm, t.acts[s]) = i
                          THEN WithStores(p, t, mm)[i] ELSE NewKids(p, t, mm)[i]
  <2>1. CASE a.tgt = "kids"
    <3>1. \A s \in 1 .. k : t.acts[s].tgt # "slot"
      <4>1. ASSUME NEW s \in 1 .. k, t.acts[s].tgt = "slot" PROVE FALSE
        <5>1. k < s
          BY <1>1, <1>5, <2>1, <4>1 DEF Runs, AssignsOnce
        <5>. QED BY <1>5, <5>1
      <4>. QED BY <4>1
    <3>. QED BY <1>3, <2>1, <3>1
  <2>2. CASE a.tgt # "kids"
    <3>1. j \in 1 .. k - 1
      BY <1>1, <1>5, <1>10, <2>2
    <3>2. d.kids[i] = IF \E s \in 1 .. k - 1 : t.acts[s].tgt = "slot" /\ SlotOf(mm, t.acts[s]) = i
                      THEN WithStores(p, t, mm)[i] ELSE NewKids(p, t, mm)[i]
      BY <1>2, <1>10, <3>1 DEF Progress
    <3>3. CASE a.tgt = "slot" /\ SlotOf(mm, a) = i
      <4>1. r.kids[i] = NewKid(p, a.st)
        BY <1>3, <1>4, <3>3
      <4>2. WithStores(p, t, mm)[i] = NewKid(p, a.st)
        BY <1>1, <1>5, <1>10, <3>3, Stores DEF Targets
      <4>3. k \in 1 .. k
        BY <1>5
      <4>. QED BY <1>1, <3>3, <4>1, <4>2, <4>3
    <3>4. CASE ~(a.tgt = "slot" /\ SlotOf(mm, a) = i)
      <4>1. r.kids[i] = d.kids[i]
        BY <1>3, <1>4, <2>2, <3>4
      <4>2. (\E s \in 1 .. k : t.acts[s].tgt = "slot" /\ SlotOf(mm, t.acts[s]) = i)
              <=> \E s \in 1 .. k - 1 : t.acts[s].tgt = "slot" /\ SlotOf(mm, t.acts[s]) = i
        BY <1>1, <1>5, <3>4
      <4>. QED BY <3>2, <4>1, <4>2
    <3>. QED BY <3>3, <3>4
  <2>. QED BY <2>1, <2>2
<1>. QED BY <1>1, <1>2, <1>8, <1>9, <1>10 DEF Progress, r

(* Whatever the fresh destination held, it ends as the one Rust builds.    *)
LEMMA SameDestination ==
  ASSUME NEW p, NEW t, NEW mm, NEW v, Runs(p, t, mm, v), NEW d \in C!BuiltDst(p, t, mm, v)
  PROVE  d = NewState(p, t, mm, v)
<1> DEFINE n == Len(t.acts)
           N == p.kids[t.dst]
<1>1. n \in Nat /\ DOMAIN t.acts = 1 .. n /\ N \in Nat
  BY RunsFacts
<1>2. PICK fresh \in C!AnyMachine(p, t.dst) : d = C!Built(p, t, mm, v, fresh)
  BY DEF C!BuiltDst
<1>3. /\ C!Built(p, t, mm, v, fresh) = After(p, t, mm, v, fresh)[n]
      /\ After(p, t, mm, v, fresh)[0] = fresh
      /\ \A k \in 1 .. n :
           After(p, t, mm, v, fresh)[k]
             = C!Assign(p, mm, v, After(p, t, mm, v, fresh)[k - 1], t.acts[k])
  BY <1>1, AssignmentsRun
<1>4. PICK dst : /\ d = dst[n] /\ dst[0] = fresh
                 /\ \A k \in 1 .. n : dst[k] = C!Assign(p, mm, v, dst[k - 1], t.acts[k])
  BY <1>2, <1>3
<1> DEFINE Bad == { k \in 0 .. n : ~Progress(p, t, mm, v, k, dst[k]) }
<1>5. Bad = {}
  <2>. SUFFICES ASSUME Bad # {} PROVE FALSE
    OBVIOUS
  <2>1. Bad \subseteq Nat
    BY <1>1
  <2>2. PICK k \in Bad : \A x \in Bad : k <= x
    <3>. HIDE DEF Bad
    <3>. QED BY <2>1, LeastElement
  <2>3. k \in 0 .. n /\ ~Progress(p, t, mm, v, k, dst[k])
    BY <2>2
  <2>4. Progress(p, t, mm, v, 0, fresh)
    <3>1. Shape(p, t, fresh)
      BY <1>1, <1>2, FreshShape
    <3>. QED BY <3>1 DEF Progress
  <2>5. k # 0
    BY <1>4, <2>3, <2>4
  <2>6. k \in DOMAIN t.acts /\ k - 1 \in 0 .. n /\ ~(k <= k - 1)
    BY <1>1, <2>3, <2>5
  <2>7. k - 1 \notin Bad
    BY <2>2, <2>6
  <2>8. Progress(p, t, mm, v, k - 1, dst[k - 1])
    BY <2>6, <2>7
  <2>9. Progress(p, t, mm, v, k, C!Assign(p, mm, v, dst[k - 1], t.acts[k]))
    BY <2>6, <2>8, ProgressMade
  <2>. QED BY <1>1, <1>4, <2>3, <2>6, <2>9
<1>6. Progress(p, t, mm, v, n, d)
  <2>1. n \in 0 .. n
    BY <1>1
  <2>. QED BY <1>4, <1>5, <2>1
<1>. HIDE DEF Bad
<1>7. ASSUME NEW x \in p.flds[t.dst] PROVE d.f[x] = NewField(p, t, mm, v, x)
  <2>1. PICK k \in 1 .. n : t.acts[k].tgt = x
    BY <1>1 DEF Runs, AssignsOnce, Targets
  <2>2. x \notin {"kids", "slot"}
    BY AppliesFacts DEF Runs
  <2>3. d.f[x] = RightSide(mm, t.acts[k], v)
    BY <1>6, <2>1, <2>2 DEF Progress
  <2>4. ActionsOn(t, x) # {} /\ FirstAction(t, x) = t.acts[k]
    <3>1. k \in DOMAIN t.acts
      BY <1>1
    <3>2. ActionsOn(t, t.acts[k].tgt) = {k} /\ FirstAction(t, t.acts[k].tgt) = t.acts[k]
      BY <3>1, TheAction
    <3>. QED BY <2>1, <3>2
  <2>5. t.acts[k].op = "="
    BY <1>1 DEF Runs, AssignsOnce
  <2>. QED BY <2>3, <2>4, <2>5 DEF NewField
<1>8. d.kids = WithStores(p, t, mm)
  <2>1. d.kids = [i \in 1 .. N |-> d.kids[i]]
    BY <1>6 DEF Progress, Shape
  <2>2. CASE "kids" \in Targets(t)
    <3>1. PICK k \in 1 .. n : t.acts[k].tgt = "kids"
      BY <1>1, <2>2 DEF Targets
    <3>2. ASSUME NEW i \in 1 .. N PROVE d.kids[i] = WithStores(p, t, mm)[i]
      <4>1. d.kids[i] = IF \E s \in 1 .. n : t.acts[s].tgt = "slot" /\ SlotOf(mm, t.acts[s]) = i
                        THEN WithStores(p, t, mm)[i] ELSE NewKids(p, t, mm)[i]
        BY <1>6, <3>1, <3>2 DEF Progress
      <4>2. CASE \E s \in 1 .. n : t.acts[s].tgt = "slot" /\ SlotOf(mm, t.acts[s]) = i
        BY <4>1, <4>2
      <4>3. CASE \A s \in 1 .. n : ~(t.acts[s].tgt = "slot" /\ SlotOf(mm, t.acts[s]) = i)
        <5>1. WithStores(p, t, mm)[i] = NewKids(p, t, mm)[i]
          BY <1>1, <2>2, <4>3, Stores
        <5>. QED BY <4>1, <4>3, <5>1
      <4>. QED BY <4>2, <4>3
    <3>3. WithStores(p, t, mm) = [i \in 1 .. N |-> WithStores(p, t, mm)[i]]
      BY <2>2, Stores
    <3>. QED BY <2>1, <3>2, <3>3
  <2>3. CASE "kids" \notin Targets(t)
    <3>1. N = 0 /\ ActionsOn(t, "kids") = {}
      BY <1>1, <2>3 DEF Runs, Targets, ActionsOn
    <3>2. NewKids(p, t, mm) = << >>
      BY <3>1 DEF NewKids
    <3>3. WithStores(p, t, mm) = << >>
      BY <3>2 DEF WithStores
    <3>4. 1 .. N = {}
      BY <3>1
    <3>. QED BY <2>1, <3>3, <3>4
  <2>. QED BY <2>2, <2>3
<1>9. d = [st |-> t.dst, f |-> [x \in p.flds[t.dst] |-> NewField(p, t, mm, v, x)],
           kids |-> WithStores(p, t, mm)]
  <2>1. d = [st |-> t.dst, f |-> d.f, kids |-> d.kids] /\ d.f = [x \in p.flds[t.dst] |-> d.f[x]]
    BY <1>6 DEF Progress, Shape
  <2>. QED BY <1>7, <1>8, <2>1
<1>. QED BY <1>9 DEF NewState

---------------------------------------------------------------------------
(* dispatch                                                                *)

(* The declarations for which both targets agree; a child is one of them   *)
(* where its parent is portable.                                           *)
Agreed(p) ==
  /\ Flat(p) /\ Accepted(p) /\ AssignsAll(p)
  /\ \A d \in Index(p) : \A s \in Sources(p, p.decls[d]) \cap p.states :
       p.decls[d].guard.k # "all"

LEMMA ChildAgreed ==
  ASSUME NEW p, Compilable(p), Portable(p), HasChild(p)
  PROVE  Agreed(p.child) /\ p.child.parm = {} /\ \A s, e : ~Delegates(p.child, s, e)
<1> DEFINE k == p.child
<1>1. /\ Flat(k) /\ Accepted(k) /\ AssignsAll(k) /\ k.parm = {}
      /\ \A s \in k.states : k.kids[s] = 0
      /\ \A d \in Index(k) : ~k.decls[d].delegate
  BY DEF Compilable, Portable
<1>2. ASSUME NEW d \in Index(k), NEW s \in Sources(k, k.decls[d]) \cap k.states,
             k.decls[d].guard.k = "all"
      PROVE  FALSE
  <2>2. GuardFits(k, s, k.decls[d].guard)
    BY <1>1 DEF Flat
  <2>3. k.kids[s] > 0
    BY <1>2, <2>2 DEF GuardFits
  <2>. QED BY <1>1, <2>3
<1>3. ASSUME NEW s, NEW e, Delegates(k, s, e) PROVE FALSE
  <2>1. Index(k) \subseteq Nat
    BY <1>1 DEF Flat, Index
  <2>2. FirstArm(k, s, e) \in Index(k) /\ k.decls[FirstArm(k, s, e)].delegate
    BY <1>3, <2>1, FirstArmInArms, ArmStartsHere DEF Delegates
  <2>. QED BY <1>1, <2>2
<1>. QED BY <1>1, <1>2, <1>3 DEF Agreed

(* What a C dispatch that does not forward can report.                     *)
LEMMA PlainCodes ==
  ASSUME NEW p, NEW mm, NEW c, NEW o \in C!PlainDispatch(p, mm, c)
  PROVE  /\ o.rc # "OK" => o.m = mm
         /\ (Agreed(p) /\ mm.st \in p.states) => o.rc \in {"OK", "INVALID_STATE"}
<1> DEFINE d == FirstArm(p, mm.st, c.e)
           t == p.decls[d]
           code == C!GuardCode(mm, t.guard, c.v)
<1>1. \A r, x : C!Outcome(r, x).rc = r /\ C!Outcome(r, x).m = x
  BY DEF C!Outcome
<1>2. C!PlainDispatch(p, mm, c) =
        IF Arms(p, mm.st, c.e) = {} THEN { C!Outcome("INVALID_STATE", mm) }
        ELSE IF code # "OK" THEN { C!Outcome(code, mm) }
        ELSE { C!Outcome("OK", x) : x \in C!BuiltDst(p, t, mm, c.v) }
  BY SameArms, SameFirst DEF C!PlainDispatch
<1>3. ASSUME Agreed(p), mm.st \in p.states, Arms(p, mm.st, c.e) # {}
      PROVE  code \in {"OK", "INVALID_STATE"}
  <2>1. Index(p) \subseteq Nat
    BY <1>3 DEF Agreed, Flat, Index
  <2>2. d \in Index(p) /\ mm.st \in Sources(p, t)
    BY <1>3, <2>1, FirstArmInArms, ArmStartsHere
  <2>3. t.guard.k # "all"
    BY <1>3, <2>2 DEF Agreed
  <2>. QED BY <2>3 DEF C!GuardCode
<1>. HIDE DEF code, t
<1>. QED BY <1>1, <1>2, <1>3
LEMMA StoresHit ==
  ASSUME NEW p, NEW t, NEW mm, NEW v, Runs(p, t, mm, v)
  PROVE  StoresInRange(p, t, mm)
<1> DEFINE ks == NewKids(p, t, mm)
<1>1. ASSUME NEW k \in ActionsOn(t, "slot")
      PROVE  SlotOf(mm, t.acts[k]) <= Len(ks)
  <2>1. k \in DOMAIN t.acts /\ t.acts[k].tgt = "slot"
    BY DEF ActionsOn
  <2>2. SlotOf(mm, t.acts[k]) \in 1 .. p.kids[t.dst]
    BY <2>1, SlotHits
  <2>3. "kids" \in Targets(t)
    BY <2>1, AppliesFacts DEF Runs, ActFits
  <2>4. DOMAIN ks = 1 .. p.kids[t.dst]
    BY <2>3, Stores
  <2>5. ks \in Seq(Range(ks))
    BY NewKidsTyped DEF Runs, KidsTyped
  <2>6. Len(ks) = p.kids[t.dst]
    BY <2>4, <2>5, RunsFacts
  <2>7. PICK i \in Nat, N \in Nat : i = SlotOf(mm, t.acts[k]) /\ N = p.kids[t.dst] /\ i \in 1 .. N
    BY <2>2, RunsFacts
  <2>. QED BY <2>6, <2>7
<1>. QED BY <1>1 DEF StoresInRange

LEMMA NewStateFull ==
  ASSUME NEW p, NEW t, NEW mm, NEW v, Runs(p, t, mm, v)
  PROVE  Full(p, NewState(p, t, mm, v))
<1>1. NewState(p, t, mm, v).st = t.dst /\ NewState(p, t, mm, v).kids = WithStores(p, t, mm)
  BY DEF NewState
<1>2. DOMAIN WithStores(p, t, mm) = 1 .. p.kids[t.dst]
  <2>1. CASE "kids" \in Targets(t)
    BY <2>1, Stores DEF WithStores
  <2>2. CASE "kids" \notin Targets(t)
    <3>1. p.kids[t.dst] = 0 /\ ActionsOn(t, "kids") = {}
      BY <2>2, RunsFacts DEF Runs, Targets, ActionsOn
    <3>2. NewKids(p, t, mm) = << >>
      BY <3>1 DEF NewKids
    <3>3. DOMAIN << >> = 1 .. 0
      OBVIOUS
    <3>. QED BY <3>1, <3>2, <3>3 DEF WithStores
  <2>. QED BY <2>1, <2>2
<1>. QED BY <1>1, <1>2 DEF Full

(* The arm that a dispatch without a delegate runs when its guard holds.   *)
LEMMA ArmRuns ==
  ASSUME NEW p, Agreed(p), NEW mm, WellTyped(p, mm), Full(p, mm), NEW c, c.v \in Val,
         ~Delegates(p, mm.st, c.e), Arms(p, mm.st, c.e) # {}, NEW t,
         t = p.decls[FirstArm(p, mm.st, c.e)], SimpleGuardHolds(mm, t.guard, c.v)
  PROVE  Runs(p, t, mm, c.v)
<1> DEFINE d == FirstArm(p, mm.st, c.e)
<1>1. Index(p) \subseteq Nat
  BY DEF Agreed, Flat, Index
<1>2. d \in Arms(p, mm.st, c.e)
  BY <1>1, FirstArmInArms
<1>3. d \in Index(p) /\ mm.st \in Sources(p, t) /\ c.e \in ToSet(t.on)
  BY <1>2, ArmStartsHere
<1>4. ~t.delegate
  BY DEF Delegates
<1>5. Applies(p, t, mm, c.v)
  BY <1>3 DEF Applies, Agreed, Accepted
<1>6. AssignsOnce(p, t)
  BY <1>3, <1>4 DEF Agreed, AssignsAll
<1>7. p.kids[t.dst] > 0 => "kids" \in Targets(t)
  <2>1. mm.st \in p.states /\ c.e \in EventsOf(p)
    BY <1>3 DEF WellTyped, Enum, EventsOf
  <2>. QED BY <1>2, <1>4, <2>1 DEF Agreed, Accepted, DstFieldsAssigned
<1>. QED BY <1>5, <1>6, <1>7 DEF Runs

(* A call that does not forward: both accept it or neither does, and both  *)
(* leave the same machine.                                                 *)
LEMMA SamePlainDispatch ==
  ASSUME NEW p, Agreed(p), NEW mm, WellTyped(p, mm), Full(p, mm), NEW c, c.v \in Val,
         ~Delegates(p, mm.st, c.e), NEW o \in C!PlainDispatch(p, mm, c)
  PROVE  /\ o.m = PlainDispatch(p, mm, c).m
         /\ o.rc = "OK" <=> PlainDispatch(p, mm, c).ok
         /\ Full(p, o.m)
<1>1. PICK t : t = p.decls[FirstArm(p, mm.st, c.e)]
  OBVIOUS
<1>2. /\ \A r, x : C!Outcome(r, x).rc = r /\ C!Outcome(r, x).m = x
      /\ \A x : Reject(x).ok = FALSE /\ Reject(x).m = x /\ Commit(x).ok = TRUE /\ Commit(x).m = x
  BY DEF C!Outcome, Reject, Commit
<1>3. C!PlainDispatch(p, mm, c) =
        IF Arms(p, mm.st, c.e) = {} THEN { C!Outcome("INVALID_STATE", mm) }
        ELSE IF C!GuardCode(mm, t.guard, c.v) # "OK"
             THEN { C!Outcome(C!GuardCode(mm, t.guard, c.v), mm) }
        ELSE { C!Outcome("OK", x) : x \in C!BuiltDst(p, t, mm, c.v) }
  BY <1>1, SameArms, SameFirst DEF C!PlainDispatch
<1>4. PlainDispatch(p, mm, c) =
        IF /\ Arms(p, mm.st, c.e) # {}
           /\ GuardHolds(mm, t.guard, c.v)
           /\ StoresInRange(p, t, mm)
        THEN Commit(NewState(p, t, mm, c.v)) ELSE Reject(mm)
  BY <1>1 DEF PlainDispatch
<1>5. CASE Arms(p, mm.st, c.e) = {}
  BY <1>2, <1>3, <1>4, <1>5
<1>6. CASE Arms(p, mm.st, c.e) # {}
  <2>1. t.guard.k # "all"
    <3>1. Index(p) \subseteq Nat
      BY DEF Agreed, Flat, Index
    <3>2. FirstArm(p, mm.st, c.e) \in Index(p) /\ mm.st \in Sources(p, t)
      BY <1>1, <1>6, <3>1, FirstArmInArms, ArmStartsHere
    <3>. QED BY <1>1, <3>2 DEF Agreed, WellTyped, Enum
  <2>2. /\ GuardHolds(mm, t.guard, c.v) <=> SimpleGuardHolds(mm, t.guard, c.v)
        /\ C!GuardCode(mm, t.guard, c.v) = "OK" <=> SimpleGuardHolds(mm, t.guard, c.v)
    BY <2>1, SameVocabulary DEF GuardHolds, C!GuardCode
  <2>3. CASE ~SimpleGuardHolds(mm, t.guard, c.v)
    BY <1>2, <1>3, <1>4, <1>6, <2>2, <2>3
  <2>4. CASE SimpleGuardHolds(mm, t.guard, c.v)
    <3>1. Runs(p, t, mm, c.v)
      BY <1>1, <1>6, <2>4, ArmRuns
    <3>2. PlainDispatch(p, mm, c) = Commit(NewState(p, t, mm, c.v))
      BY <1>4, <1>6, <2>2, <2>4, <3>1, StoresHit
    <3>3. PICK x \in C!BuiltDst(p, t, mm, c.v) : o = C!Outcome("OK", x)
      BY <1>3, <1>6, <2>2, <2>4
    <3>4. x = NewState(p, t, mm, c.v)
      BY <3>1, <3>3, SameDestination
    <3>. QED BY <1>2, <3>1, <3>2, <3>3, <3>4, NewStateFull
  <2>. QED BY <2>3, <2>4
<1>. QED BY <1>5, <1>6

(* Where no event has parameters, none is read.                            *)
LEMMA ParameterUnread ==
  ASSUME NEW p, Flat(p), StatesDefined(p), p.parm = {}, NEW mm, WellTyped(p, mm),
         NEW e, NEW x
  PROVE  PlainDispatch(p, mm, Call(e, x, 0)) = PlainDispatch(p, mm, Call(e, 0, 0))
<1>1. PICK t : t = p.decls[FirstArm(p, mm.st, e)]
  OBVIOUS
<1>2. \A v : PlainDispatch(p, mm, Call(e, v, 0)) =
               IF Arms(p, mm.st, e) # {} /\ GuardHolds(mm, t.guard, v) /\ StoresInRange(p, t, mm)
               THEN Commit(NewState(p, t, mm, v)) ELSE Reject(mm)
  BY <1>1 DEF PlainDispatch, Call
<1>3. CASE Arms(p, mm.st, e) = {}
  BY <1>2, <1>3
<1>4. CASE Arms(p, mm.st, e) # {}
  <2>1. Index(p) \subseteq Nat
    BY DEF Flat, Index
  <2>2. /\ FirstArm(p, mm.st, e) \in Index(p) /\ mm.st \in Sources(p, t) /\ e \in ToSet(t.on)
    BY <1>1, <1>4, <2>1, FirstArmInArms, ArmStartsHere
  <2>3. ~ReadsParam(t)
    BY <1>1, <2>2 DEF Flat
  <2>4. GuardHolds(mm, t.guard, x) <=> GuardHolds(mm, t.guard, 0)
    BY <2>3 DEF ReadsParam, GuardHolds, SimpleGuardHolds
  <2>5. Applies(p, t, mm, 0)
    BY <1>1, <2>2, ZeroInVal DEF Applies
  <2>6. ASSUME NEW y \in p.flds[t.dst]
        PROVE  NewField(p, t, mm, x, y) = NewField(p, t, mm, 0, y)
    <3>1. CASE ActionsOn(t, y) # {}
      <4>1. PICK k \in DOMAIN t.acts : FirstAction(t, y) = t.acts[k] /\ t.acts[k].tgt = y
        BY <2>5, <3>1, AppliesFacts, FirstActionOn
      <4>2. t.acts[k].from \in {"lit", "src"}
        BY <2>3, <2>5, <4>1, AppliesFacts DEF ReadsParam, ActFits
      <4>3. RightSide(mm, t.acts[k], x) = RightSide(mm, t.acts[k], 0)
        BY <4>2 DEF RightSide
      <4>. QED BY <4>1, <4>3 DEF NewField
    <3>2. CASE ActionsOn(t, y) = {}
      BY <3>2 DEF NewField
    <3>. QED BY <3>1, <3>2
  <2>7. NewState(p, t, mm, x) = NewState(p, t, mm, 0)
    BY <2>6 DEF NewState
  <2>. QED BY <1>2, <2>4, <2>7
<1>. QED BY <1>3, <1>4

(* The child a delegate addresses, as its program sees it.                 *)
LEMMA ChildAlone ==
  ASSUME NEW p, Compilable(p), NEW mm, WellTyped(p, mm), NEW i \in DOMAIN mm.kids
  PROVE  HasChild(p) /\ WellTyped(p.child, mm.kids[i]) /\ Full(p.child, mm.kids[i])
<1> DEFINE kid == mm.kids[i]
<1>1. HasChild(p)
  BY DEF WellTyped, Enum, HasChild
<1>2. Enum(p.child, kid) /\ kid.kids = << >>
  BY DEF WellTyped
<1>3. kid.kids \in Seq(Range(kid.kids))
  BY <1>2
<1>4. WellTyped(p.child, kid)
  BY <1>2, <1>3 DEF WellTyped
<1>5. p.child.kids[kid.st] = 0
  BY <1>1, <1>2 DEF Compilable, Enum
<1>6. DOMAIN << >> = 1 .. 0
  OBVIOUS
<1>. QED BY <1>1, <1>2, <1>4, <1>5, <1>6 DEF Full

(* The C child's answer to a forwarded event is that of the Rust child.    *)
LEMMA SameChild ==
  ASSUME NEW p, Compilable(p), Portable(p), NEW mm, WellTyped(p, mm), NEW c,
         Slot(p, c) \in DOMAIN mm.kids, NEW o \in C!ChildOutcomes(p, mm, c)
  PROVE  /\ o.rc = "OK" <=> OrdinalKnown(p, c.v) /\ ChildResult(p, mm, c).ok
         /\ o.rc = "OK" => o.m = ChildResult(p, mm, c).m
<1>1. PICK kid : kid = mm.kids[Slot(p, c)]
  OBVIOUS
<1>2. HasChild(p) /\ WellTyped(p.child, kid) /\ Full(p.child, kid)
  BY <1>1, ChildAlone
<1>3. Agreed(p.child) /\ p.child.parm = {} /\ \A s, e : ~Delegates(p.child, s, e)
  BY <1>2, ChildAgreed
<1>4. PICK q : q = p.child
  OBVIOUS
<1> DEFINE order == EventOrder(q)
           tag == IF c.v < Len(order) THEN order[c.v + 1] ELSE NoTag
<1>5. PICK x \in Val : o \in C!PlainDispatch(q, kid, Call(tag, x, 0))
  BY <1>1, <1>4, SameOrder, SameVocabulary DEF C!ChildOutcomes, C!ChildCalls
<1>6. Call(tag, x, 0).v = x /\ Call(tag, x, 0).e = tag
  BY DEF Call
<1>7. OrdinalKnown(p, c.v) <=> c.v < Len(order)
  BY <1>3, <1>4 DEF OrdinalKnown
<1>. HIDE DEF order
<1>8. /\ o.m = PlainDispatch(q, kid, Call(tag, x, 0)).m
      /\ o.rc = "OK" <=> PlainDispatch(q, kid, Call(tag, x, 0)).ok
  BY <1>2, <1>3, <1>4, <1>5, <1>6, SamePlainDispatch
<1>9. PlainDispatch(q, kid, Call(tag, x, 0)) = PlainDispatch(q, kid, Call(tag, 0, 0))
  BY <1>2, <1>3, <1>4, ParameterUnread DEF Agreed, Accepted
<1>10. CASE c.v < Len(order)
  <2>1. ChildResult(p, mm, c) = PlainDispatch(q, kid, Call(tag, 0, 0))
    BY <1>1, <1>4, <1>10 DEF ChildResult, ChildCall, order
  <2>. QED BY <1>7, <1>8, <1>9, <1>10, <2>1
<1>11. CASE ~(c.v < Len(order))
  <2>1. Arms(q, kid.st, NoTag) = {}
    <3>1. NoTag \notin EventsOf(q)
      BY <1>3, <1>4 DEF Agreed, Flat
    <3>. QED BY <3>1 DEF Arms, Covers, EventsOf
  <2>2. ~PlainDispatch(q, kid, Call(tag, x, 0)).ok
    BY <1>6, <1>11, <2>1 DEF PlainDispatch, Reject
  <2>. QED BY <1>7, <1>8, <1>11, <2>2
<1>. QED BY <1>10, <1>11

(* What C does once the child has accepted.                                *)
LEMMA SameNotify ==
  ASSUME NEW p, Compilable(p), Agreed(p), NEW mm, WellTyped(p, mm), Full(p, mm), NEW c,
         Slot(p, c) \in DOMAIN mm.kids,
         NEW o \in C!AfterChild(p, mm, c, ChildResult(p, mm, c).m)
  PROVE  o.rc = "OK" /\ o.m = AfterNotify(p, mm, c) /\ Full(p, o.m)
<1>1. PICK k : k = Call(Csc, 0, 0)
  OBVIOUS
<1>2. PICK ns : ns = WithChild(p, mm, c)
  OBVIOUS
<1>3. /\ WellTyped(p, ns) /\ ns.st = mm.st
      /\ ns.kids = [mm.kids EXCEPT ![Slot(p, c)] = ChildResult(p, mm, c).m]
  BY <1>2, WithChildTyped
<1>4. Full(p, ns)
  BY <1>3 DEF Full
<1>5. k.v \in Val /\ k.e = Csc
  BY <1>1, ZeroInVal DEF Call
<1>6. ~Delegates(p, ns.st, Csc)
  <2>. SUFFICES ASSUME Delegates(p, ns.st, Csc) PROVE FALSE
    OBVIOUS
  <2>1. Index(p) \subseteq Nat
    BY DEF Agreed, Flat, Index
  <2>2. PICK d : d = FirstArm(p, ns.st, Csc)
    OBVIOUS
  <2>3. /\ d \in Index(p) /\ p.decls[d].delegate
        /\ ns.st \in Sources(p, p.decls[d]) /\ Csc \in ToSet(p.decls[d].on)
    BY <2>1, <2>2, FirstArmInArms, ArmStartsHere DEF Delegates
  <2>4. ns.st \in p.states
    BY <1>3 DEF WellTyped, Enum
  <2>. QED BY <2>3, <2>4 DEF Agreed, Flat
<1>7. /\ \A r, x : C!Outcome(r, x).rc = r /\ C!Outcome(r, x).m = x
      /\ C!Call(C!Csc, 0, 0) = k /\ C!Slot(p, c) = Slot(p, c) /\ (C!HasCsc(p) <=> HasCsc(p))
  BY <1>1, SameVocabulary DEF C!Outcome
<1>8. C!AfterChild(p, mm, c, ChildResult(p, mm, c).m) =
        IF HasCsc(p) /\ ChildMoved(p, mm, c)
        THEN { C!Outcome(C!NotifyCode(x.rc), x.m) : x \in C!PlainDispatch(p, ns, k) }
        ELSE { C!Outcome("OK", ns) }
  BY <1>2, <1>7 DEF C!AfterChild, WithChild, ChildMoved
<1>9. CASE ~(HasCsc(p) /\ ChildMoved(p, mm, c))
  <2>1. o = C!Outcome("OK", ns)
    BY <1>8, <1>9
  <2>. QED BY <1>2, <1>4, <1>7, <1>9, <2>1 DEF AfterNotify
<1>10. CASE HasCsc(p) /\ ChildMoved(p, mm, c)
  <2>1. PICK x \in C!PlainDispatch(p, ns, k) : o = C!Outcome(C!NotifyCode(x.rc), x.m)
    BY <1>8, <1>10
  <2>2. x.m = PlainDispatch(p, ns, k).m /\ Full(p, x.m)
    BY <1>3, <1>4, <1>5, <1>6, <2>1, SamePlainDispatch
  <2>3. x.rc \in {"OK", "INVALID_STATE"}
    BY <1>3, <2>1, PlainCodes DEF WellTyped, Enum
  <2>4. C!NotifyCode(x.rc) = "OK"
    BY <2>3 DEF C!NotifyCode
  <2>. QED BY <1>1, <1>2, <1>7, <1>10, <2>1, <2>2, <2>4 DEF AfterNotify
<1>. QED BY <1>9, <1>10

LEMMA SameDelegateDispatch ==
  ASSUME NEW p, Compilable(p), Agreed(p), Portable(p), NEW mm, WellTyped(p, mm), Full(p, mm),
         NEW c, c.v \in Val, c.i \in Nat, Delegates(p, mm.st, c.e),
         NEW o \in C!DelegateDispatch(p, mm, c)
  PROVE  /\ o.m = DelegateDispatch(p, mm, c).m
         /\ o.rc = "OK" <=> DelegateDispatch(p, mm, c).ok
         /\ Full(p, o.m)
<1>1. PICK g : g = p.decls[FirstArm(p, mm.st, c.e)].guard
  OBVIOUS
<1>2. PICK code : code = C!GuardCode(mm, g, c.v)
  OBVIOUS
<1>3. PICK s \in Nat : s = Slot(p, c) /\ s >= 1
  BY DEF Slot
<1>4. /\ \A r, x : C!Outcome(r, x).rc = r /\ C!Outcome(r, x).m = x
      /\ Reject(mm).ok = FALSE /\ Reject(mm).m = mm
      /\ \A x : Commit(x).ok = TRUE /\ Commit(x).m = x
  BY DEF C!Outcome, Reject, Commit
<1>5. code = "OK" <=> GuardHolds(mm, g, c.v)
  <2>1. Index(p) \subseteq Nat
    BY DEF Agreed, Flat, Index
  <2>2. /\ FirstArm(p, mm.st, c.e) \in Index(p)
        /\ mm.st \in Sources(p, p.decls[FirstArm(p, mm.st, c.e)])
    BY <2>1, FirstArmInArms, ArmStartsHere DEF Delegates
  <2>3. g.k # "all"
    BY <1>1, <2>2 DEF Agreed, WellTyped, Enum
  <2>. QED BY <1>2, <2>3, SameVocabulary DEF GuardHolds, C!GuardCode
<1>6. PICK N \in Nat : N = p.kids[mm.st] /\ DOMAIN mm.kids = 1 .. N /\ Len(mm.kids) = N
  <2>1. p.kids[mm.st] \in Nat
    BY DEF Agreed, Flat, WellTyped, Enum
  <2>2. mm.kids \in Seq(Range(mm.kids)) /\ DOMAIN mm.kids = 1 .. p.kids[mm.st]
    BY DEF WellTyped, Full
  <2>3. Len(mm.kids) = p.kids[mm.st]
    BY <2>1, <2>2
  <2>. QED BY <2>1, <2>2, <2>3
<1>7. Forwards(p, mm, c) <=> /\ code = "OK" /\ s <= N
                             /\ OrdinalKnown(p, c.v) /\ ChildResult(p, mm, c).ok
  BY <1>1, <1>3, <1>5, <1>6 DEF Forwards
<1>8. C!DelegateDispatch(p, mm, c) =
        IF code # "OK" THEN { C!Outcome(code, mm) }
        ELSE IF s > N THEN { C!Outcome("BOUNDS", mm) }
        ELSE UNION { IF x.rc # "OK" THEN { C!Outcome(x.rc, mm) } ELSE C!AfterChild(p, mm, c, x.m) :
                       x \in C!ChildOutcomes(p, mm, c) }
  BY <1>1, <1>2, <1>3, <1>6, SameFirst, SameVocabulary DEF C!DelegateDispatch
<1>9. CASE code # "OK"
  <2>1. o = C!Outcome(code, mm)
    BY <1>8, <1>9
  <2>2. DelegateDispatch(p, mm, c) = Reject(mm)
    BY <1>7, <1>9 DEF DelegateDispatch
  <2>. QED BY <1>4, <1>9, <2>1, <2>2
<1>10. CASE code = "OK" /\ s > N
  <2>1. o = C!Outcome("BOUNDS", mm)
    BY <1>8, <1>10
  <2>2. ~(s <= N)
    BY <1>10
  <2>3. DelegateDispatch(p, mm, c) = Reject(mm)
    BY <1>7, <2>2 DEF DelegateDispatch
  <2>. QED BY <1>4, <2>1, <2>3
<1>11. CASE code = "OK" /\ ~(s > N)
  <2>1. s <= N /\ Slot(p, c) \in DOMAIN mm.kids
    BY <1>3, <1>6, <1>11
  <2>2. PICK x \in C!ChildOutcomes(p, mm, c) :
          o \in IF x.rc # "OK" THEN { C!Outcome(x.rc, mm) } ELSE C!AfterChild(p, mm, c, x.m)
    BY <1>8, <1>11
  <2>3. /\ x.rc = "OK" <=> OrdinalKnown(p, c.v) /\ ChildResult(p, mm, c).ok
        /\ x.rc = "OK" => x.m = ChildResult(p, mm, c).m
    BY <2>1, <2>2, SameChild
  <2>4. CASE x.rc # "OK"
    <3>1. o = C!Outcome(x.rc, mm)
      BY <2>2, <2>4
    <3>2. DelegateDispatch(p, mm, c) = Reject(mm)
      BY <1>7, <2>3, <2>4 DEF DelegateDispatch
    <3>. QED BY <1>4, <2>4, <3>1, <3>2
  <2>5. CASE x.rc = "OK"
    <3>1. o \in C!AfterChild(p, mm, c, ChildResult(p, mm, c).m)
      BY <2>2, <2>3, <2>5
    <3>2. o.rc = "OK" /\ o.m = AfterNotify(p, mm, c) /\ Full(p, o.m)
      BY <2>1, <3>1, SameNotify
    <3>3. DelegateDispatch(p, mm, c) = Commit(AfterNotify(p, mm, c))
      BY <1>7, <1>11, <2>1, <2>3, <2>5 DEF DelegateDispatch
    <3>. QED BY <1>4, <3>2, <3>3
  <2>. QED BY <2>4, <2>5
<1>. QED BY <1>9, <1>10, <1>11

---------------------------------------------------------------------------
(* Invariance                                                              *)

(* What the theorems assume of the declarations under study.               *)
AllPortable == \A p \in Programs : Portable(p)

(* SameMachine and SameVerdict with the type invariant of the Rust machine *)
(* and the child array at its full size.                                   *)
TInv ==
  /\ IInv
  /\ Full(prog, m)
  /\ SameMachine
  /\ SameVerdict

LEMMA ProgramFacts ==
  ASSUME AllPortable, IInv
  PROVE  Compilable(prog) /\ Portable(prog) /\ Agreed(prog) /\ WellTyped(prog, m)
<1>1. Compilable(prog) /\ Portable(prog) /\ Accepted(prog) /\ WellTyped(prog, m)
  BY ProgramsAssumption DEF AllPortable, IInv, TypeOK
<1>. QED BY <1>1 DEF Agreed, Compilable, Portable

(* The init helper and the caller make what new() makes.                   *)
LEMMA SameNew ==
  ASSUME NEW p, Compilable(p), Accepted(p), Portable(p),
         NEW x \in C!CInit(p), x.f = RustNew(p).f
  PROVE  x = RustNew(p) /\ Full(p, x)
<1> DEFINE t == [dst |-> p.init]
           kid == [st |-> p.child.init, f |-> DefaultOr0(p.child, p.child.init), kids |-> << >>]
<1>1. PICK n \in Nat : n = p.kids[p.init]
  BY DEF Compilable, Flat, Accepted, StatesDefined
<1>2. t.dst = p.init
  OBVIOUS
<1>3. x \in C!AnyMachine(p, p.init)
  BY DEF C!CInit
<1>4. Shape(p, t, x)
  BY <1>1, <1>2, <1>3, FreshShape
<1>5. /\ x = [st |-> p.init, f |-> x.f, kids |-> x.kids]
      /\ x.kids = [i \in 1 .. n |-> x.kids[i]]
  BY <1>1, <1>2, <1>4 DEF Shape
<1>6. ASSUME NEW i \in 1 .. n
      PROVE  x.kids[i] = kid
  <2>1. x.kids[i] \in C!AnyKid(p)
    <3>1. PICK f \in C!AnyFields(p, p.init), ks \in [1 .. n -> C!AnyKid(p)] :
            x = [st |-> p.init, f |-> f, kids |-> ks]
      BY <1>1, <1>3 DEF C!AnyMachine
    <3>. QED BY <3>1
  <2>2. x.kids[i].st = p.child.init /\ x.kids[i].f = DefaultOr0(p.child, p.child.init)
    BY <1>5, SameVocabulary DEF C!CInit
  <2>3. x.kids[i] = [st |-> x.kids[i].st, f |-> x.kids[i].f, kids |-> << >>]
    BY <2>1 DEF C!AnyKid
  <2>. QED BY <2>2, <2>3
<1>7. x.kids = [i \in 1 .. n |-> kid]
  <2>. HIDE DEF kid
  <2>. QED BY <1>5, <1>6
<1>8. RustNew(p).kids = [i \in 1 .. n |-> kid]
  <2>1. CASE p.indexed
    <3>1. n = 0
      BY <1>1, <2>1 DEF Portable
    <3>2. RustNew(p).kids = << >>
      BY <2>1 DEF RustNew
    <3>3. \A k : << >> = [i \in 1 .. 0 |-> k]
      OBVIOUS
    <3>. QED BY <3>1, <3>2, <3>3
  <2>2. CASE ~p.indexed
    BY <1>1, <2>2 DEF RustNew
  <2>. QED BY <2>1, <2>2
<1>9. RustNew(p) = [st |-> p.init, f |-> RustNew(p).f, kids |-> RustNew(p).kids]
  BY DEF RustNew
<1>. QED BY <1>1, <1>5, <1>7, <1>8, <1>9 DEF Full

LEMMA InitTInv == ASSUME AllPortable, TInit PROVE TInv
<1>1. IInv
  BY InitIInv DEF TInit
<1>2. Compilable(prog) /\ Portable(prog) /\ Accepted(prog)
  BY <1>1, ProgramsAssumption DEF AllPortable, IInv, TypeOK
<1>3. m = RustNew(prog) /\ ok = TRUE /\ sm \in C!CInit(prog) /\ sm.f = m.f /\ rc = "OK"
  BY DEF TInit, Init
<1>4. sm = m /\ Full(prog, sm)
  BY <1>2, <1>3, SameNew
<1>. QED BY <1>1, <1>3, <1>4 DEF TInv, SameMachine, SameVerdict

(* A call keeps the two machines the same and gives them one verdict.      *)
LEMMA StepTInv ==
  ASSUME AllPortable, TInv, TNext
  PROVE  /\ Next /\ ok' \in BOOLEAN
         /\ Full(prog, m)' /\ SameMachine' /\ SameVerdict'
<1>1. PICK c \in Calls(prog) : BothPlain(c) \/ BothDelegate(c)
  BY DEF TNext
<1>2. c.v \in Val /\ c.i \in Nat
  BY <1>1, CallFacts
<1>3. /\ Compilable(prog) /\ Portable(prog) /\ Agreed(prog) /\ WellTyped(prog, m)
      /\ Full(prog, m) /\ sm = m
  BY ProgramFacts DEF TInv, SameMachine
<1>4. CASE BothPlain(c)
  <2>1. ~Delegates(prog, m.st, c.e) /\ Return(PlainDispatch(prog, m, c), c)
    BY <1>4 DEF BothPlain, PlainCall
  <2>2. PICK o \in C!PlainDispatch(prog, m, c) : sm' = o.m /\ rc' = o.rc
    BY <1>3, <1>4 DEF BothPlain, C!PlainCall, C!Return
  <2>3. m' = PlainDispatch(prog, m, c).m /\ ok' = PlainDispatch(prog, m, c).ok /\ prog' = prog
    BY <2>1 DEF Return
  <2>4. /\ o.m = PlainDispatch(prog, m, c).m
        /\ o.rc = "OK" <=> PlainDispatch(prog, m, c).ok
        /\ Full(prog, o.m)
    BY <1>2, <1>3, <2>1, <2>2, SamePlainDispatch
  <2>5. Next
    BY <1>1, <1>4 DEF Next, BothPlain
  <2>. QED BY <2>2, <2>3, <2>4, <2>5, RejectedKeeps DEF SameMachine, SameVerdict
<1>5. CASE BothDelegate(c)
  <2>1. Delegates(prog, m.st, c.e) /\ Return(DelegateDispatch(prog, m, c), c)
    BY <1>5 DEF BothDelegate, DelegateCall
  <2>2. PICK o \in C!DelegateDispatch(prog, m, c) : sm' = o.m /\ rc' = o.rc
    BY <1>3, <1>5 DEF BothDelegate, C!DelegateCall, C!Return
  <2>3. m' = DelegateDispatch(prog, m, c).m /\ ok' = DelegateDispatch(prog, m, c).ok /\ prog' = prog
    BY <2>1 DEF Return
  <2>4. /\ o.m = DelegateDispatch(prog, m, c).m
        /\ o.rc = "OK" <=> DelegateDispatch(prog, m, c).ok
        /\ Full(prog, o.m)
    BY <1>2, <1>3, <2>1, <2>2, SameDelegateDispatch
  <2>5. Next
    BY <1>1, <1>5 DEF Next, BothDelegate
  <2>. QED BY <2>2, <2>3, <2>4, <2>5, RejectedKeeps DEF SameMachine, SameVerdict
<1>. QED BY <1>1, <1>4, <1>5

LEMMA NextTInv == ASSUME AllPortable PROVE TInv /\ [TNext]_tvars => TInv'
<1>. SUFFICES ASSUME TInv, [TNext]_tvars PROVE TInv'
  OBVIOUS
<1>1. CASE TNext
  BY <1>1, StepTInv, NextIInv DEF TInv
<1>2. CASE UNCHANGED tvars
  <2>1. UNCHANGED vars
    BY <1>2 DEF tvars, vars
  <2>2. IInv'
    BY <2>1, NextIInv DEF TInv
  <2>. QED BY <1>2, <2>2 DEF tvars, TInv, Full, SameMachine, SameVerdict
<1>. QED BY <1>1, <1>2

LEMMA TInvInvariant == ASSUME AllPortable PROVE TSpec => []TInv
<1>1. TInit => TInv
  BY InitTInv
<1>2. TInv /\ [TNext]_tvars => TInv'
  BY NextTInv
<1>. QED BY <1>1, <1>2, PTL DEF TSpec

(* Whatever portable declaration is compiled, whatever calls are made and  *)
(* whatever C's uninitialised locals hold, the generated Rust and C        *)
(* machines stay equal: state, fields and children.                        *)
THEOREM MachinesAgree == ASSUME AllPortable PROVE TSpec => []SameMachine
<1>1. TInv => SameMachine
  BY DEF TInv
<1>. QED BY <1>1, TInvInvariant, PTL

(* They accept and refuse the same calls: no portable declaration makes    *)
(* one dispatch return Ok where the other reports an error.                *)
THEOREM VerdictsAgree == ASSUME AllPortable PROVE TSpec => []SameVerdict
<1>1. TInv => SameVerdict
  BY DEF TInv
<1>. QED BY <1>1, TInvInvariant, PTL

(* A C dispatch that reports an error has left *sm alone: what it commits  *)
(* before child_state_changed stands only in a call that returns OK.       *)
THEOREM CErrorKeepsMachine == ASSUME AllPortable PROVE TSpec => CErrorIsAtomic
<1>1. TInv /\ TInv' /\ [TNext]_tvars => [rc' # "OK" => sm' = sm]_tvars
  <2>. SUFFICES ASSUME TInv, TInv', TNext, rc' # "OK" PROVE sm' = sm
    BY DEF tvars
  <2>1. Next /\ ~ok'
    BY StepTInv DEF TInv, SameVerdict
  <2>2. m' = m
    BY <2>1, StepIsDispatch, RejectedKeeps DEF RustDispatch
  <2>. QED BY <2>2 DEF TInv, SameMachine
<1>. QED BY <1>1, TInvInvariant, PTL DEF TSpec, CErrorIsAtomic

---------------------------------------------------------------------------
(* The declaration means the same to TLA+                                  *)

LEMMA SameDeclaration ==
  /\ \A p : T!Index(p) = Index(p) /\ T!EventsOf(p) = EventsOf(p)
  /\ \A p, d, s, e : T!Covers(p, d, s, e) <=> Covers(p, d, s, e)
  /\ \A p, s, e : T!Arms(p, s, e) = Arms(p, s, e) /\ T!FirstArm(p, s, e) = FirstArm(p, s, e)
  /\ \A p, s, e : T!Delegates(p, s, e) <=> Delegates(p, s, e)
  /\ \A p : T!EventOrder(p) = EventOrder(p)
  /\ \A d, x : T!ActionsOn(d, x) = ActionsOn(d, x) /\ T!FirstAction(d, x) = FirstAction(d, x)
  /\ T!Csc = Csc
<1>1. \A p : T!Index(p) = Index(p) /\ T!EventsOf(p) = EventsOf(p)
  BY DEF T!Index, Index, T!EventsOf, EventsOf, T!ToSet, ToSet
<1>2. \A p, d, s, e : T!Covers(p, d, s, e) <=> Covers(p, d, s, e)
  BY DEF T!Covers, Covers, T!Index, Index, T!Sources, Sources, T!Concrete, Concrete,
     T!Star, Star, T!ToSet, ToSet
<1>3. \A p, s, e : T!Arms(p, s, e) = Arms(p, s, e)
  BY <1>1, <1>2 DEF T!Arms, Arms
<1>4. \A p, s, e : T!FirstArm(p, s, e) = FirstArm(p, s, e)
  BY <1>3 DEF T!FirstArm, FirstArm
<1>5. \A p, s, e : T!Delegates(p, s, e) <=> Delegates(p, s, e)
  BY <1>3, <1>4 DEF T!Delegates, Delegates
<1>6. \A p : T!EventOrder(p) = EventOrder(p)
  BY DEF T!EventOrder, EventOrder, T!Index, Index, T!FoldLeft, FoldLeft,
     T!FlattenSeq, FlattenSeq, T!MapThenFoldSet, MapThenFoldSet, T!Max, Max, T!ToSet, ToSet
<1>7. \A d, x : T!ActionsOn(d, x) = ActionsOn(d, x)
  BY DEF T!ActionsOn, ActionsOn
<1>8. \A d, x : T!FirstAction(d, x) = FirstAction(d, x)
  BY <1>7 DEF T!FirstAction, FirstAction
<1>9. T!Csc = Csc
  BY DEF T!Csc, Csc
<1>. QED BY <1>1, <1>2, <1>3, <1>4, <1>5, <1>6, <1>7, <1>8, <1>9

---------------------------------------------------------------------------
(* One transition                                                          *)

(* A state with children has one: what a guard asks of a child, it asks of *)
(* one that is there.                                                      *)
KidsThere(p, mm) == p.kids[mm.st] > 0 => mm.kids # << >>

(* What the lemmas below assume: the transition t of p runs on the machine *)
(* mm with the parameter v.                                                *)
Taken(p, t, mm, v) ==
  /\ Applies(p, t, mm, v)
  /\ Verifiable(p)
  /\ ~t.delegate
  /\ p.kids[t.dst] > 0 => "kids" \in Targets(t)
  /\ KidsThere(p, mm)
  /\ SimpleGuardHolds(mm, t.guard, v)

LEMMA AbsFacts ==
  ASSUME NEW p, NEW mm, mm.st \in p.states
  PROVE  /\ Abs(p, mm).st = mm.st
         /\ \A x \in p.flds[mm.st] : Abs(p, mm).f[x] = mm.f[x]
         /\ Abs(p, mm).kids = [i \in DOMAIN mm.kids |-> mm.kids[i].st]
         /\ DOMAIN Abs(p, mm).kids = DOMAIN mm.kids
BY DEF Abs

LEMMA SameGuard ==
  ASSUME NEW p, NEW t, NEW mm, NEW v, Taken(p, t, mm, v)
  PROVE  T!GuardHolds(Abs(p, mm), t.guard, v)
<1>1. mm.st \in p.states
  BY AppliesFacts DEF Taken
<1>2. t.guard.k \in {"lt", "ge"} => Abs(p, mm).f[t.guard.fld] = mm.f[t.guard.fld]
  <2>. SUFFICES ASSUME t.guard.k \in {"lt", "ge"} PROVE Abs(p, mm).f[t.guard.fld] = mm.f[t.guard.fld]
    OBVIOUS
  <2>1. t.guard.fld \in ReadsOf(t)
    BY DEF ReadsOf
  <2>2. t.guard.fld \in p.flds[mm.st]
    BY <2>1, AppliesFacts DEF Taken
  <2>. QED BY <1>1, <2>2 DEF Abs
<1>3. t.guard.k = "kidIn" => Abs(p, mm).kids[1] = mm.kids[1].st
  <2>. SUFFICES ASSUME t.guard.k = "kidIn" PROVE Abs(p, mm).kids[1] = mm.kids[1].st
    OBVIOUS
  <2>1. GuardFits(p, mm.st, t.guard)
    BY <1>1 DEF Taken, Applies, Flat
  <2>2. mm.kids # << >>
    BY <2>1 DEF GuardFits, Taken, KidsThere
  <2>3. mm.kids \in Seq(Range(mm.kids))
    BY DEF Taken, Applies, WellTyped
  <2>4. 1 \in DOMAIN mm.kids
    BY <2>2, <2>3
  <2>. QED BY <1>1, <2>4 DEF Abs
<1>. QED BY <1>2, <1>3 DEF Taken, SimpleGuardHolds, T!GuardHolds

(* No right-hand side wraps around: the guard keeps it below W.            *)
LEMMA SameValue ==
  ASSUME NEW p, NEW t, NEW mm, NEW v, Taken(p, t, mm, v),
         NEW k \in DOMAIN t.acts, t.acts[k].tgt \notin {"kids", "slot"}
  PROVE  T!Value(Abs(p, mm), t.acts[k], v) = RightSide(mm, t.acts[k], v)
<1>1. PICK a : a = t.acts[k]
  OBVIOUS
<1>2. a.from \in {"lit", "src", "param"} /\ (a.from \in {"lit", "src"} => a.n \in Nat)
  BY <1>1, AppliesFacts DEF Taken, ActFits
<1>3. /\ a.from = "lit" => a.n < W
      /\ a.from = "src" /\ a.n > 0 => /\ t.guard.k = "lt" /\ t.guard.fld = a.fld
                                      /\ t.guard.n + a.n <= W
  BY <1>1 DEF Taken, Verifiable, ReadAlike, Applies
<1>4. W \in Nat /\ \A n \in Nat : n < W => n % W = n
  BY WAssumption
<1>5. CASE a.from = "lit"
  <2>1. RightSide(mm, a, v) = a.n % W
    BY <1>5 DEF RightSide
  <2>2. T!Value(Abs(p, mm), a, v) = a.n
    BY <1>5 DEF T!Value
  <2>. QED BY <1>1, <1>2, <1>3, <1>4, <1>5, <2>1, <2>2
<1>6. CASE a.from = "src"
  <2>1. a.fld \in ReadsOf(t)
    BY <1>1, <1>6 DEF ReadsOf
  <2>2. a.fld \in p.flds[mm.st] /\ mm.f[a.fld] \in Val /\ mm.st \in p.states
    BY <2>1, AppliesFacts DEF Taken
  <2>3. PICK x \in Nat, n \in Nat : x = mm.f[a.fld] /\ n = a.n /\ x < W
    BY <1>2, <1>4, <1>6, <2>2 DEF Val
  <2>4. x + n < W
    <3>1. CASE n = 0
      BY <1>4, <2>3, <3>1
    <3>2. CASE n # 0
      <4>1. t.guard.k = "lt" /\ t.guard.fld = a.fld /\ t.guard.n + n <= W
        BY <1>3, <1>6, <2>3, <3>2
      <4>2. mm.f[a.fld] < t.guard.n
        BY <4>1 DEF Taken, SimpleGuardHolds
      <4>3. GuardFits(p, mm.st, t.guard)
        BY <2>2 DEF Taken, Applies, Flat
      <4>4. PICK g \in Nat : g = t.guard.n
        BY <4>1, <4>3 DEF GuardFits
      <4>5. x < g /\ g + n <= W
        BY <2>3, <4>1, <4>2, <4>4
      <4>. QED BY <1>4, <4>5
    <3>. QED BY <3>1, <3>2
  <2>5. x + n \in Nat
    OBVIOUS
  <2>6. (x + n) % W = x + n
    BY <1>4, <2>4, <2>5
  <2>7. RightSide(mm, a, v) = (x + n) % W
    BY <1>6, <2>3 DEF RightSide
  <2>8. T!Value(Abs(p, mm), a, v) = x + n
    <3>1. Abs(p, mm).f[a.fld] = x
      BY <2>2, <2>3 DEF Abs
    <3>. QED BY <1>6, <2>3, <3>1 DEF T!Value
  <2>. QED BY <1>1, <2>6, <2>7, <2>8
<1>7. CASE a.from = "param"
  <2>1. v \in Nat /\ v < W
    BY <1>4 DEF Taken, Applies, Val
  <2>2. RightSide(mm, a, v) = v % W
    BY <1>7 DEF RightSide
  <2>3. T!Value(Abs(p, mm), a, v) = v
    BY <1>7 DEF T!Value
  <2>. QED BY <1>1, <1>4, <2>1, <2>2, <2>3
<1>. QED BY <1>2, <1>5, <1>6, <1>7

LEMMA SameField ==
  ASSUME NEW p, NEW t, NEW mm, NEW v, Taken(p, t, mm, v), NEW x \in p.flds[t.dst]
  PROVE  /\ ActionsOn(t, x) # {}
         /\ NewField(p, t, mm, v, x) = T!Value(Abs(p, mm), FirstAction(t, x), v)
<1>1. ReadAlike(p) /\ \E d \in Index(p) : t = p.decls[d]
  BY DEF Taken, Verifiable, Applies
<1>2. ActionsOn(t, x) # {}
  BY <1>1 DEF ReadAlike, Taken, Targets, ActionsOn
<1>3. PICK k \in DOMAIN t.acts : FirstAction(t, x) = t.acts[k] /\ t.acts[k].tgt = x
  BY <1>2, FirstActionOn, AppliesFacts DEF Taken
<1>4. x \notin {"kids", "slot"}
  BY AppliesFacts DEF Taken
<1>5. t.acts[k].op = "="
  BY <1>1 DEF ReadAlike, Taken
<1>6. NewField(p, t, mm, v, x) = RightSide(mm, t.acts[k], v)
  BY <1>2, <1>3, <1>5 DEF NewField
<1>. QED BY <1>2, <1>3, <1>4, <1>6, SameValue

(* The children of the new state are those of the old, or none.            *)
LEMMA SameKids ==
  ASSUME NEW p, NEW t, NEW mm, NEW v, Taken(p, t, mm, v)
  PROVE  /\ ActionsOn(t, "kids") # {} =>
              WithStores(p, t, mm) = mm.kids /\ p.kids[mm.st] > 0
         /\ ActionsOn(t, "kids") = {} =>
              WithStores(p, t, mm) = << >> /\ p.kids[t.dst] = 0
<1>1. t.dst \in p.states /\ p.kids[t.dst] \in Nat
  BY AppliesFacts DEF Taken, Applies, Flat
<1>2. CASE ActionsOn(t, "kids") # {}
  <2>1. PICK k \in DOMAIN t.acts : FirstAction(t, "kids") = t.acts[k] /\ t.acts[k].tgt = "kids"
    BY <1>2, FirstActionOn, AppliesFacts DEF Taken
  <2>2. /\ p.kids[t.dst] > 0
        /\ t.acts[k].from = "fill" \/ (t.acts[k].from = "copy" /\ p.kids[mm.st] > 0)
    BY <2>1, AppliesFacts DEF Taken, ActFits
  <2>3. \A j \in DOMAIN t.acts : t.acts[j].from # "fill" /\ t.acts[j].tgt # "slot"
    BY <2>2 DEF Taken, Verifiable, Emittable, Applies
  <2>4. NewKids(p, t, mm) = mm.kids
    BY <1>2, <2>1, <2>3 DEF NewKids
  <2>5. ActionsOn(t, "slot") = {}
    BY <2>3 DEF ActionsOn
  <2>6. WithStores(p, t, mm) = [i \in DOMAIN mm.kids |-> mm.kids[i]]
    BY <2>4, <2>5 DEF WithStores
  <2>7. mm.kids \in Seq(Range(mm.kids))
    BY DEF Taken, Applies, WellTyped
  <2>8. mm.kids = [i \in DOMAIN mm.kids |-> mm.kids[i]]
    BY <2>7
  <2>. QED BY <1>2, <2>2, <2>3, <2>6, <2>8
<1>3. CASE ActionsOn(t, "kids") = {}
  <2>1. p.kids[t.dst] = 0
    BY <1>1, <1>3 DEF Taken, Targets, ActionsOn
  <2>2. NewKids(p, t, mm) = << >>
    BY <1>3, <2>1 DEF NewKids
  <2>3. WithStores(p, t, mm) = << >>
    BY <2>2 DEF WithStores
  <2>. QED BY <1>3, <2>1, <2>3
<1>. QED BY <1>2, <1>3

(* The new state, read as a value of the emitted specification, is the one *)
(* its record expression builds.                                           *)
LEMMA SameDst ==
  ASSUME NEW p, NEW t, NEW mm, NEW v, Taken(p, t, mm, v)
  PROVE  /\ Abs(p, NewState(p, t, mm, v)) = T!Dst(p, t, Abs(p, mm), v)
         /\ KidsThere(p, NewState(p, t, mm, v))
<1>1. PICK ns : ns = NewState(p, t, mm, v)
  OBVIOUS
<1>2. /\ ns.st = t.dst /\ ns.kids = WithStores(p, t, mm)
      /\ \A x \in p.flds[t.dst] : ns.f[x] = NewField(p, t, mm, v, x)
  BY <1>1 DEF NewState
<1>3. t.dst \in p.states /\ mm.st \in p.states
  BY AppliesFacts DEF Taken
<1> DEFINE all == UNION { p.flds[s] : s \in p.states }
           f == [x \in all |-> IF x \in p.flds[t.dst]
                               THEN T!Value(Abs(p, mm), FirstAction(t, x), v) ELSE NullVal]
           tags == [i \in DOMAIN ns.kids |-> ns.kids[i].st]
<1>4. Abs(p, ns) = [st |-> t.dst, f |-> f, kids |-> tags]
  <2>1. \A x \in p.flds[t.dst] : ns.f[x] = T!Value(Abs(p, mm), FirstAction(t, x), v)
    BY <1>2, SameField
  <2>. QED BY <1>2, <2>1 DEF Abs
<1>5. { x \in p.flds[t.dst] : T!ActionsOn(t, x) # {} } = p.flds[t.dst]
  BY SameField, SameDeclaration
<1> DEFINE inits == [i \in 1 .. p.kids[t.dst] |-> p.child.init]
           args == [x \in p.flds[t.dst] |-> T!Value(Abs(p, mm), T!FirstAction(t, x), v)]
<1>6. T!Mk(p, t.dst, args) = [st |-> t.dst, f |-> f, kids |-> inits]
  <2>1. \A x \in p.flds[t.dst] : args[x] = T!Value(Abs(p, mm), FirstAction(t, x), v)
    BY SameDeclaration
  <2>2. DOMAIN args = p.flds[t.dst]
    OBVIOUS
  <2>. HIDE DEF args
  <2>. QED BY <2>1, <2>2 DEF T!Mk, T!AllFields
<1>7. T!Dst(p, t, Abs(p, mm), v) =
        IF ActionsOn(t, "kids") # {} THEN [T!Mk(p, t.dst, args) EXCEPT !.kids = Abs(p, mm).kids]
        ELSE T!Mk(p, t.dst, args)
  BY <1>5, SameDeclaration DEF T!Dst
<1>. HIDE DEF f, args
<1>8. CASE ActionsOn(t, "kids") # {}
  <2>1. tags = Abs(p, mm).kids
    BY <1>2, <1>3, <1>8, SameKids, AbsFacts
  <2>2. T!Dst(p, t, Abs(p, mm), v) = [st |-> t.dst, f |-> f, kids |-> Abs(p, mm).kids]
    BY <1>6, <1>7, <1>8
  <2>3. ns.kids # << >>
    BY <1>2, <1>8, SameKids DEF Taken, KidsThere
  <2>. QED BY <1>1, <1>4, <2>1, <2>2, <2>3 DEF KidsThere
<1>9. CASE ActionsOn(t, "kids") = {}
  <2>1. ns.kids = << >> /\ p.kids[t.dst] = 0
    BY <1>2, <1>9, SameKids
  <2>2. tags = inits
    <3>1. DOMAIN << >> = {} /\ 1 .. 0 = {}
      OBVIOUS
    <3>. QED BY <2>1, <3>1
  <2>3. T!Dst(p, t, Abs(p, mm), v) = [st |-> t.dst, f |-> f, kids |-> inits]
    BY <1>6, <1>7, <1>9
  <2>. QED BY <1>1, <1>2, <1>4, <2>1, <2>2, <2>3 DEF KidsThere
<1>. QED BY <1>8, <1>9

---------------------------------------------------------------------------
(* dispatch                                                                *)

(* What the theorem assumes: declarations the emitted specification is     *)
(* well-formed for, and value domains that hold the scalars.               *)
AllVerifiable == \A p \in Programs : Verifiable(p)
DomainsHold == W <= Bound

LEMMA ValIsBounded == ASSUME DomainsHold PROVE Val \subseteq T!BoundedNat
BY WAssumption, BoundAssumption DEF DomainsHold, Val, T!BoundedNat

(* A program and a machine the invariant holds for.                        *)
Sound(p, mm) ==
  /\ Compilable(p) /\ Accepted(p) /\ Verifiable(p)
  /\ WellTyped(p, mm) /\ KidsThere(p, mm)

(* The arm a successful dispatch without a delegate took.                  *)
LEMMA ArmTaken ==
  ASSUME NEW p, NEW mm, Sound(p, mm), NEW c, c.v \in Val,
         ~Delegates(p, mm.st, c.e), PlainDispatch(p, mm, c).ok,
         NEW d, d = FirstArm(p, mm.st, c.e)
  PROVE  /\ d \in Arms(p, mm.st, c.e)
         /\ Taken(p, p.decls[d], mm, c.v)
         /\ PlainDispatch(p, mm, c).m = NewState(p, p.decls[d], mm, c.v)
<1>0. Flat(p) /\ StatesDefined(p) /\ DstFieldsAssigned(p) /\ Emittable(p)
  BY DEF Sound, Compilable, Accepted, Verifiable
<1>1. d \in Arms(p, mm.st, c.e) /\ PlainDispatch(p, mm, c).m = NewState(p, p.decls[d], mm, c.v)
  BY <1>0, PlainCommits
<1>2. PICK t : t = p.decls[d]
  OBVIOUS
<1>3. d \in Index(p) /\ mm.st \in Sources(p, t) /\ c.e \in ToSet(t.on)
  BY <1>1, <1>2, ArmStartsHere
<1>4. Applies(p, t, mm, c.v)
  BY <1>0, <1>2, <1>3 DEF Applies, Sound
<1>5. ~t.delegate
  BY <1>1, <1>2 DEF Delegates
<1>6. SimpleGuardHolds(mm, t.guard, c.v)
  <2>1. GuardHolds(mm, t.guard, c.v)
    BY <1>2 DEF PlainDispatch, Reject
  <2>2. t.guard.k # "all"
    BY <1>0, <1>2, <1>3 DEF Emittable
  <2>. QED BY <2>1, <2>2 DEF GuardHolds
<1>7. p.kids[t.dst] > 0 => "kids" \in Targets(t)
  <2>1. mm.st \in p.states /\ c.e \in EventsOf(p)
    BY <1>2, <1>3 DEF Sound, WellTyped, Enum, EventsOf
  <2>. QED BY <1>0, <1>1, <1>2, <1>5, <2>1 DEF DstFieldsAssigned
<1>. QED BY <1>1, <1>2, <1>4, <1>5, <1>6, <1>7 DEF Taken, Sound

LEMMA PlainStep ==
  ASSUME DomainsHold, NEW p, NEW mm, Sound(p, mm), NEW c, c.v \in Val, c.e \in EventsOf(p),
         ~Delegates(p, mm.st, c.e), PlainDispatch(p, mm, c).ok
  PROVE  /\ Abs(p, PlainDispatch(p, mm, c).m) \in T!PlainSteps(p, Abs(p, mm))
         /\ KidsThere(p, PlainDispatch(p, mm, c).m)
<1>1. PICK d : d = FirstArm(p, mm.st, c.e)
  OBVIOUS
<1>2. PICK t : t = p.decls[d]
  OBVIOUS
<1>3. d \in Arms(p, mm.st, c.e) /\ Taken(p, t, mm, c.v)
      /\ PlainDispatch(p, mm, c).m = NewState(p, t, mm, c.v)
  BY <1>1, <1>2, ArmTaken
<1>4. /\ Abs(p, PlainDispatch(p, mm, c).m) = T!Dst(p, t, Abs(p, mm), c.v)
      /\ KidsThere(p, PlainDispatch(p, mm, c).m)
  BY <1>3, SameDst
<1>5. c.v \in T!BoundedNat /\ T!GuardHolds(Abs(p, mm), t.guard, c.v)
  BY <1>3, ValIsBounded, SameGuard
<1>6. /\ d \in T!Index(p) /\ ~t.delegate /\ c.e \in T!EventsOf(p)
      /\ T!Covers(p, d, Abs(p, mm).st, c.e)
  <2>1. d \in Index(p) /\ Covers(p, d, mm.st, c.e) /\ Abs(p, mm).st = mm.st
    BY <1>3 DEF Arms, Abs
  <2>. QED BY <1>3, <2>1, SameDeclaration DEF Taken
<1>. QED BY <1>2, <1>4, <1>5, <1>6 DEF T!PlainSteps

LEMMA OneStored ==
  ASSUME NEW S, NEW F, NEW K, NEW i, NEW x, NEW d, d = [st |-> S, f |-> F, kids |-> K]
  PROVE  [d EXCEPT !.kids[i] = x] = [st |-> S, f |-> F, kids |-> [K EXCEPT ![i] = x]]
OBVIOUS

(* A forwarded event: the specification's delegate step, before the parent *)
(* is told.                                                                *)
LEMMA ChildStep ==
  ASSUME DomainsHold, NEW p, NEW mm, Sound(p, mm), NEW c, c.v \in Val, c.i \in Nat,
         c.e \in EventsOf(p), Delegates(p, mm.st, c.e), Forwards(p, mm, c)
  PROVE  /\ Abs(p, WithChild(p, mm, c)) \in T!DelegateSteps(p, Abs(p, mm))
         /\ Sound(p, WithChild(p, mm, c))
         /\ WithChild(p, mm, c).st = mm.st
<1>1. PICK i : i = Slot(p, c)
  OBVIOUS
<1>2. Compilable(p) /\ WellTyped(p, mm) /\ i \in DOMAIN mm.kids
  BY <1>1, ForwardsToChild DEF Sound
<1>3. PICK kid, q, r : kid = mm.kids[i] /\ q = p.child /\ r = ChildResult(p, mm, c)
  OBVIOUS
<1>4. PICK ns : ns = WithChild(p, mm, c)
  OBVIOUS
<1>5. /\ WellTyped(p, ns) /\ ns.st = mm.st /\ ns.f = mm.f
      /\ ns.kids = [mm.kids EXCEPT ![i] = r.m]
  BY <1>1, <1>2, <1>3, <1>4, WithChildTyped
<1>6. Abs(p, ns) = [Abs(p, mm) EXCEPT !.kids[i] = r.m.st]
  <2>1. [j \in DOMAIN ns.kids |-> ns.kids[j].st]
          = [[j \in DOMAIN mm.kids |-> mm.kids[j].st] EXCEPT ![i] = r.m.st]
    BY <1>2, <1>5
  <2>2. PICK F : F = Abs(p, mm).f
    OBVIOUS
  <2>3. PICK tags : tags = [j \in DOMAIN mm.kids |-> mm.kids[j].st]
    OBVIOUS
  <2>4. Abs(p, mm) = [st |-> mm.st, f |-> F, kids |-> tags]
    BY <2>2, <2>3 DEF Abs
  <2>5. Abs(p, ns) = [st |-> mm.st, f |-> F, kids |-> [tags EXCEPT ![i] = r.m.st]]
    BY <1>5, <2>1, <2>2, <2>3 DEF Abs
  <2>. QED BY <2>4, <2>5, OneStored
<1>7. PICK order : order = EventOrder(q)
  OBVIOUS
<1>8. c.v < Len(order) /\ r = PlainDispatch(q, kid, Call(order[c.v + 1], 0, 0)) /\ r.ok
  BY <1>1, <1>3, <1>7 DEF Forwards, OrdinalKnown, ChildResult, ChildCall
<1>9. /\ Arms(q, kid.st, order[c.v + 1]) # {}
      /\ r.m.st = q.decls[FirstArm(q, kid.st, order[c.v + 1])].dst
  <2>1. HasChild(p)
    BY <1>2 DEF WellTyped, Enum, HasChild
  <2>2. Flat(q)
    BY <1>2, <1>3, <2>1 DEF Compilable
  <2>3. Call(order[c.v + 1], 0, 0).e = order[c.v + 1]
    BY DEF Call
  <2>4. PICK k : k = Call(order[c.v + 1], 0, 0)
    OBVIOUS
  <2>5. /\ FirstArm(q, kid.st, k.e) \in Arms(q, kid.st, k.e)
        /\ PlainDispatch(q, kid, k).m.st = q.decls[FirstArm(q, kid.st, k.e)].dst
    BY <1>8, <2>2, <2>4, PlainCommits
  <2>. QED BY <1>8, <2>3, <2>4, <2>5
<1>10. /\ i \in DOMAIN Abs(p, mm).kids /\ Abs(p, mm).kids[i] = kid.st /\ Abs(p, mm).st = mm.st
  BY <1>2, <1>3 DEF Abs
<1>11. r.m.st \in T!ChildDispatch(p, Abs(p, mm).kids[i], c.v)
  BY <1>3, <1>7, <1>8, <1>9, <1>10, SameDeclaration DEF T!ChildDispatch
<1>12. Abs(p, ns) \in T!DelegateSteps(p, Abs(p, mm))
  <2>1. c.v \in T!BoundedNat
    BY ValIsBounded
  <2>2. \E e \in T!EventsOf(p) : T!Delegates(p, Abs(p, mm).st, e)
    BY <1>10, SameDeclaration
  <2> DEFINE tt == Abs(p, mm)
             piece(j, ev) == { [tt EXCEPT !.kids[j] = k] : k \in T!ChildDispatch(p, tt.kids[j], ev) }
             slots == { x \in DOMAIN tt.kids : \E e \in T!EventsOf(p) : T!Delegates(p, tt.st, e) }
  <2>3. Abs(p, ns) \in piece(i, c.v)
    BY <1>6, <1>11
  <2>4. i \in slots
    BY <1>10, <2>2
  <2>5. T!DelegateSteps(p, tt) = UNION { piece(j, ev) : j \in slots, ev \in T!BoundedNat }
    BY DEF T!DelegateSteps
  <2>. HIDE DEF tt, piece, slots
  <2>6. Abs(p, ns) \in T!DelegateSteps(p, tt)
    BY <2>1, <2>3, <2>4, <2>5
  <2>. QED BY <2>6 DEF tt
<1>13. KidsThere(p, ns)
  <2>1. DOMAIN ns.kids = DOMAIN mm.kids
    BY <1>5
  <2>2. i \in DOMAIN ns.kids
    BY <1>2, <2>1
  <2>3. ns.kids # << >>
    BY <2>2
  <2>. QED BY <2>3 DEF KidsThere
<1>. QED BY <1>4, <1>5, <1>12, <1>13 DEF Sound

(* The notification is a step of its own in the specification.             *)
LEMMA NotifyStep ==
  ASSUME DomainsHold, NEW p, NEW mm, Sound(p, mm), NEW c,
         NEW ns, ns = WithChild(p, mm, c), Sound(p, ns), ns.st = mm.st
  PROVE  /\ \/ AfterNotify(p, mm, c) = ns
            \/ Abs(p, AfterNotify(p, mm, c)) \in T!CscSteps(p, Abs(p, ns))
         /\ KidsThere(p, AfterNotify(p, mm, c))
<1>1. PICK k : k = Call(Csc, 0, 0)
  OBVIOUS
<1>2. k.e = Csc /\ k.v = 0 /\ k.v \in Val
  BY <1>1, ZeroInVal DEF Call
<1>3. Flat(p) /\ KidsThere(p, ns)
  BY DEF Sound, Compilable
<1>4. CASE ~(HasCsc(p) /\ ChildMoved(p, mm, c))
  BY <1>3, <1>4 DEF AfterNotify
<1>5. CASE (HasCsc(p) /\ ChildMoved(p, mm, c)) /\ ~PlainDispatch(p, ns, k).ok
  <2>1. AfterNotify(p, mm, c) = PlainDispatch(p, ns, k).m
    BY <1>1, <1>5 DEF AfterNotify
  <2>2. PlainDispatch(p, ns, k).m = ns
    BY <1>5, RejectedKeeps
  <2>. QED BY <1>3, <2>1, <2>2
<1>6. CASE (HasCsc(p) /\ ChildMoved(p, mm, c)) /\ PlainDispatch(p, ns, k).ok
  <2>1. AfterNotify(p, mm, c) = PlainDispatch(p, ns, k).m
    BY <1>1, <1>6 DEF AfterNotify
  <2>2. PICK d : d = FirstArm(p, ns.st, Csc)
    OBVIOUS
  <2>3. PICK t : t = p.decls[d]
    OBVIOUS
  <2>4. ~Delegates(p, ns.st, Csc)
    <3>1. SUFFICES ASSUME Delegates(p, ns.st, Csc) PROVE FALSE
      OBVIOUS
    <3>2. Index(p) \subseteq Nat
      BY <1>3 DEF Flat, Index
    <3>3. /\ d \in Index(p) /\ t.delegate
          /\ ns.st \in Sources(p, t) /\ Csc \in ToSet(t.on)
      BY <2>2, <2>3, <3>1, <3>2, FirstArmInArms, ArmStartsHere DEF Delegates
    <3>4. ns.st \in p.states
      BY DEF Sound, WellTyped, Enum
    <3>. QED BY <1>3, <2>3, <3>3, <3>4 DEF Flat
  <2>5. /\ d \in Arms(p, ns.st, Csc) /\ Taken(p, t, ns, 0)
        /\ PlainDispatch(p, ns, k).m = NewState(p, t, ns, 0)
    BY <1>2, <1>6, <2>2, <2>3, <2>4, ArmTaken
  <2>6. /\ Abs(p, AfterNotify(p, mm, c)) = T!Dst(p, t, Abs(p, ns), 0)
        /\ KidsThere(p, AfterNotify(p, mm, c))
    BY <2>1, <2>5, SameDst
  <2>7. T!GuardHolds(Abs(p, ns), t.guard, 0)
    BY <2>5, SameGuard
  <2>8. d \in T!Arms(p, Abs(p, ns).st, T!Csc)
    BY <2>5, SameDeclaration DEF Abs
  <2>. QED BY <2>3, <2>6, <2>7, <2>8 DEF T!CscSteps
<1>. QED BY <1>4, <1>5, <1>6

---------------------------------------------------------------------------
(* The refinement                                                          *)

(* The type invariant of the Rust machine, and children where a state has  *)
(* a place for them.                                                       *)
VerifiedInv == IInv /\ KidsThere(prog, m)

LEMMA SoundHere == ASSUME AllVerifiable, VerifiedInv PROVE Sound(prog, m)
BY ProgramsAssumption DEF AllVerifiable, VerifiedInv, IInv, TypeOK, Sound

LEMMA InitIsModelled ==
  ASSUME AllVerifiable, Init
  PROVE  VerifiedInv /\ Abs(prog, m) \in T!TlaInit(prog)
<1>1. IInv
  BY InitIInv
<1>2. PICK p : p = prog
  OBVIOUS
<1>3. Flat(p) /\ p.init \in p.states /\ Emittable(p) /\ m = RustNew(p)
  BY <1>1, <1>2, ProgramsAssumption
  DEF AllVerifiable, Verifiable, IInv, TypeOK, Compilable, Accepted, StatesDefined, Init
<1>4. PICK n \in Nat : n = p.kids[p.init]
  BY <1>3 DEF Flat
<1> DEFINE free == p.flds[p.init] \ DOMAIN p.dflt[p.init]
           args == [x \in free |-> 0]
           all == UNION { p.flds[s] : s \in p.states }
           kid == [st |-> p.child.init, f |-> DefaultOr0(p.child, p.child.init), kids |-> << >>]
<1>5. /\ m.kids = [i \in 1 .. n |-> kid]
      /\ m.st = p.init /\ m.f = DefaultOr0(p, p.init)
  <2>1. CASE p.indexed
    <3>1. n = 0
      BY <1>3, <1>4, <2>1 DEF Emittable
    <3>2. \A x : << >> = [i \in 1 .. 0 |-> x]
      OBVIOUS
    <3>. QED BY <1>3, <2>1, <3>1, <3>2 DEF RustNew
  <2>2. CASE ~p.indexed
    BY <1>3, <1>4, <2>2 DEF RustNew
  <2>. QED BY <2>1, <2>2
<1>6. Abs(p, m) = T!Mk(p, p.init, args)
  <2>1. [i \in DOMAIN m.kids |-> m.kids[i].st] = [i \in 1 .. n |-> p.child.init]
    BY <1>5
  <2>2. [x \in all |-> IF x \in p.flds[m.st] THEN m.f[x] ELSE NullVal]
          = [x \in all |-> IF x \in DOMAIN args THEN args[x]
                           ELSE IF x \in p.flds[p.init] /\ x \in DOMAIN p.dflt[p.init]
                                THEN p.dflt[p.init][x] ELSE NullVal]
    BY <1>3, <1>5 DEF DefaultOr0
  <2>. HIDE DEF args
  <2>. QED BY <1>4, <1>5, <2>1, <2>2 DEF Abs, T!Mk, T!AllFields
<1>7. args \in [free -> T!BoundedNat]
  BY BoundAssumption DEF T!BoundedNat
<1>8. Abs(p, m) \in T!TlaInit(p)
  <2>. HIDE DEF args
  <2>. QED BY <1>6, <1>7 DEF T!TlaInit
<1>9. KidsThere(p, m)
  <2>1. n > 0 => m.kids # << >>
    <3>. SUFFICES ASSUME n > 0 PROVE m.kids # << >>
      OBVIOUS
    <3>1. 1 \in DOMAIN m.kids
      BY <1>5
    <3>. QED BY <3>1
  <2>. QED BY <1>4, <1>5, <2>1 DEF KidsThere
<1>. QED BY <1>1, <1>2, <1>8, <1>9 DEF VerifiedInv

LEMMA StepIsModelled ==
  ASSUME AllVerifiable, DomainsHold, VerifiedInv, Next
  PROVE  /\ KidsThere(prog, m)'
         /\ \/ T!Next \/ T!DelegateThenCsc
            \/ UNCHANGED <<prog, Abs(prog, m)>>
<1>1. PICK c \in Calls(prog) : /\ prog' = prog
                               /\ m' = RustDispatch(prog, m, c).m
                               /\ ok' = RustDispatch(prog, m, c).ok
  BY StepIsDispatch
<1>2. c.v \in Val /\ c.i \in Nat /\ c.e \in EventsOf(prog)
  BY CallFacts
<1>3. Sound(prog, m) /\ KidsThere(prog, m)
  BY SoundHere DEF VerifiedInv
<1>4. PICK n : n = m'
  OBVIOUS
<1>5. Abs(prog, m)' = Abs(prog, n)
  BY <1>1, <1>4 DEF Abs
<1>6. KidsThere(prog, m)' <=> KidsThere(prog, n)
  BY <1>1, <1>4 DEF KidsThere
<1>7. CASE n = m
  BY <1>1, <1>3, <1>5, <1>6, <1>7
<1>8. CASE ~Delegates(prog, m.st, c.e) /\ n # m
  <2>1. n = PlainDispatch(prog, m, c).m
    BY <1>1, <1>4, <1>8 DEF RustDispatch
  <2>2. PlainDispatch(prog, m, c).ok
    BY <1>8, <2>1, RejectedKeeps
  <2>3. Abs(prog, n) \in T!PlainSteps(prog, Abs(prog, m)) /\ KidsThere(prog, n)
    BY <1>2, <1>3, <1>8, <2>1, <2>2, PlainStep
  <2>4. T!Transition
    BY <1>1, <1>5, <2>3 DEF T!Transition
  <2>. QED BY <1>6, <2>3, <2>4 DEF T!Next
<1>9. CASE Delegates(prog, m.st, c.e) /\ n # m
  <2>1. n = DelegateDispatch(prog, m, c).m
    BY <1>1, <1>4, <1>9 DEF RustDispatch
  <2>2. Forwards(prog, m, c) /\ n = AfterNotify(prog, m, c)
    BY <1>9, <2>1 DEF DelegateDispatch, Reject, Commit
  <2>3. PICK ns : ns = WithChild(prog, m, c)
    OBVIOUS
  <2>4. Abs(prog, ns) \in T!DelegateSteps(prog, Abs(prog, m)) /\ Sound(prog, ns) /\ ns.st = m.st
    BY <1>2, <1>3, <1>9, <2>2, <2>3, ChildStep
  <2>5. KidsThere(prog, n) /\ (n = ns \/ Abs(prog, n) \in T!CscSteps(prog, Abs(prog, ns)))
    BY <1>3, <2>2, <2>3, <2>4, NotifyStep
  <2>6. CASE n = ns
    <3>1. T!Delegate
      BY <1>1, <1>5, <2>4, <2>6 DEF T!Delegate
    <3>. QED BY <1>6, <2>5, <3>1 DEF T!Next
  <2>7. CASE Abs(prog, n) \in T!CscSteps(prog, Abs(prog, ns))
    <3>1. T!DelegateThenCsc
      BY <1>1, <1>5, <2>4, <2>7 DEF T!DelegateThenCsc
    <3>. QED BY <1>6, <2>5, <3>1
  <2>. QED BY <2>5, <2>6, <2>7
<1>. QED BY <1>7, <1>8, <1>9

LEMMA NextVerifiedInv ==
  ASSUME AllVerifiable, DomainsHold
  PROVE  VerifiedInv /\ [Next]_vars => VerifiedInv'
<1>. SUFFICES ASSUME VerifiedInv, [Next]_vars PROVE VerifiedInv'
  OBVIOUS
<1>1. IInv'
  BY NextIInv DEF VerifiedInv
<1>2. CASE Next
  BY <1>1, <1>2, StepIsModelled DEF VerifiedInv
<1>3. CASE UNCHANGED vars
  BY <1>1, <1>3 DEF vars, VerifiedInv, KidsThere
<1>. QED BY <1>2, <1>3

(* Whatever is verified of the emitted specification covers what the       *)
(* generated code does: new() builds one of its initial states, and every  *)
(* dispatch is one of its steps, a delegate's notification being a second. *)
THEOREM CodeRefinesSpecification ==
  ASSUME AllVerifiable, DomainsHold
  PROVE  Spec => CodeIsModelled
<1>1. Init => VerifiedInv /\ Abs(prog, m) \in T!TlaInit(prog)
  BY InitIsModelled
<1>2. VerifiedInv /\ [Next]_vars => VerifiedInv'
  BY NextVerifiedInv
<1>3. VerifiedInv /\ [Next]_vars => [T!Next \/ T!DelegateThenCsc]_<<prog, Abs(prog, m)>>
  <2>1. ASSUME UNCHANGED vars PROVE UNCHANGED <<prog, Abs(prog, m)>>
    BY <2>1 DEF vars, Abs
  <2>. QED BY <2>1, StepIsModelled
<1>. QED BY <1>1, <1>2, <1>3, PTL DEF Spec, CodeIsModelled
=============================================================================
