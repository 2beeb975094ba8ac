----------------------------- MODULE SmTargets ------------------------------
(***************************************************************************)
(* The Rust and the C machine of one declaration, fed the same calls.      *)
(***************************************************************************)
EXTENDS SmRust

VARIABLES sm,           \* the C machine
          rc            \* the result of its last dispatch

C == INSTANCE SmC

tvars == <<prog, m, ok, call, sm, rc>>

(* The C caller gives the fields its init helper leaves alone the values   *)
(* Rust's new() gives them.                                                *)
TInit ==
  /\ Init
  /\ sm \in { x \in C!CInit(prog) : x.f = m.f }
  /\ rc = "OK"

BothPlain(c) == PlainCall(c) /\ C!PlainCall(c)
BothDelegate(c) == DelegateCall(c) /\ C!DelegateCall(c)

TNext == \E c \in Calls(prog) : BothPlain(c) \/ BothDelegate(c)

TSpec == TInit /\ [][TNext]_tvars

---------------------------------------------------------------------------
(* Declarations whose meaning does not depend on the target: every field   *)
(* of a destination is assigned, once and with "="; the whole child array  *)
(* before one of its slots, a slot that the array has; no all() guard;     *)
(* children that need no caller to be filled in, and child events without  *)
(* parameters.                                                             *)
SlotExists(p, t, a) ==
  \/ a.from = "lit" /\ a.n % W < p.kids[t.dst]
  \/ /\ a.from = "src" /\ t.guard.k = "lt" /\ t.guard.fld = a.fld
     /\ t.guard.n + a.n <= p.kids[t.dst]

FillsKids(p, t, a) ==
  IF a.from = "fill" THEN a.n = p.kids[t.dst]
  ELSE \A s \in Sources(p, t) : p.kids[s] = p.kids[t.dst]

AssignsOnce(p, t) ==
  /\ p.flds[t.dst] \subseteq Targets(t)
  /\ \A j, k \in DOMAIN t.acts :
       /\ t.acts[j].op = "="
       /\ t.acts[j].tgt = t.acts[k].tgt => j = k
       /\ t.acts[j].tgt = "kids" /\ t.acts[k].tgt = "slot" => j < k
       /\ t.acts[j].tgt = "kids" => FillsKids(p, t, t.acts[j])
       /\ t.acts[j].tgt = "slot" => SlotExists(p, t, t.acts[j])

AssignsAll(p) == \A d \in Index(p) : ~p.decls[d].delegate => AssignsOnce(p, p.decls[d])

Portable(p) ==
  /\ AssignsAll(p)
  /\ \A d \in Index(p) : p.decls[d].guard.k # "all"
  /\ p.indexed => p.kids[p.init] = 0
  /\ HasChild(p) => AssignsAll(p.child) /\ p.child.parm = {}

(* The two machines are in the same state with the same fields and         *)
(* children after the same calls.                                          *)
SameMachine == m = sm

(* The two dispatch functions agree on which calls succeed.                *)
SameVerdict == ok <=> rc = "OK"

(* The C dispatch leaves the machine alone when it reports an error.       *)
CErrorIsAtomic == [][rc' # "OK" => sm' = sm]_tvars
=============================================================================
