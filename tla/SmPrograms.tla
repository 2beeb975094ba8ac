----------------------------- MODULE SmPrograms -----------------------------
(***************************************************************************)
(* The declarations the models are checked on: the state machines of       *)
(* examples/mpquic and of the backends' tests, and every declaration of a  *)
(* small grammar.                                                          *)
(***************************************************************************)
EXTENDS SmSema

Always == [k |-> "none"]
Lt(x, n) == [k |-> "lt", fld |-> x, n |-> n]
Ge(x, n) == [k |-> "ge", fld |-> x, n |-> n]
KidIn(s) == [k |-> "kidIn", st |-> s]
All(x, s) == [k |-> "all", fld |-> x, st |-> s]

Lit(x, n) == [tgt |-> x, op |-> "=", from |-> "lit", n |-> n]
Src(x, y, n) == [tgt |-> x, op |-> "=", from |-> "src", fld |-> y, n |-> n]
Param(x) == [tgt |-> x, op |-> "=", from |-> "param", n |-> 0]
AddTo(x, n) == [tgt |-> x, op |-> "+=", from |-> "lit", n |-> n]
Fill(s, n) == [tgt |-> "kids", op |-> "=", from |-> "fill", n |-> n, st |-> s]
CopyKids == [tgt |-> "kids", op |-> "=", from |-> "copy", n |-> 0]
SlotLit(n, s) == [tgt |-> "slot", op |-> "=", from |-> "lit", n |-> n, st |-> s]
SlotSrc(x, s) == [tgt |-> "slot", op |-> "=", from |-> "src", fld |-> x, n |-> 0, st |-> s]

Trans(src, dst, on, guard, acts) ==
  [src |-> src, dst |-> dst, on |-> on, guard |-> guard, acts |-> acts, delegate |-> FALSE]
Forward(s, e) ==
  [src |-> s, dst |-> s, on |-> <<e>>, guard |-> Always, acts |-> << >>, delegate |-> TRUE]

NoFields == {}
Scalar(states, with) == [s \in states |-> IF s \in with THEN {"n"} ELSE NoFields]
NoDefaults(states) == [s \in states |-> << >>]
Zero == [x \in {"n"} |-> 0]
DefaultZero(states, with) == [s \in states |-> IF s \in with THEN Zero ELSE << >>]
NoKids(states) == [s \in states |-> 0]

---------------------------------------------------------------------------
(* Children. PathState of examples/mpquic, with a counter; a child whose   *)
(* only event leaves it where it is.                                       *)
Path ==
  LET S == {"Active", "Closed"} IN
  [states |-> S, terminal |-> {"Closed"}, init |-> "Active",
   flds |-> Scalar(S, {"Active"}), dflt |-> DefaultZero(S, {"Active"}),
   kids |-> NoKids(S), indexed |-> FALSE, parm |-> {},
   decls |-> << Trans("Active", "Active", <<"ping">>, Lt("n", 2), <<Src("n", "n", 1)>>),
                Trans("Active", "Closed", <<"close_path">>, Always, << >>),
                Trans(Star, "Closed", <<"force_close">>, Always, << >>) >>,
   child |-> << >>]

PathWithArgs == [Path EXCEPT !.parm = {"close_path"}]

Ticker ==
  [states |-> {"Active"}, terminal |-> {}, init |-> "Active",
   flds |-> Scalar({"Active"}, {}), dflt |-> NoDefaults({"Active"}),
   kids |-> NoKids({"Active"}), indexed |-> FALSE, parm |-> {},
   decls |-> << Trans("Active", "Active", <<"tick">>, Always, << >>) >>,
   child |-> << >>]

---------------------------------------------------------------------------
(* RetryMachine: two guarded transitions of one (state, event) pair.       *)
Retry ==
  LET S == {"Trying", "Done"} IN
  [states |-> S, terminal |-> {"Done"}, init |-> "Trying",
   flds |-> Scalar(S, {"Trying"}), dflt |-> DefaultZero(S, {"Trying"}),
   kids |-> NoKids(S), indexed |-> FALSE, parm |-> {},
   decls |-> << Trans("Trying", "Trying", <<"attempt">>, Lt("n", 3), <<Src("n", "n", 1)>>),
                Trans("Trying", "Done", <<"attempt">>, Ge("n", 3), << >>) >>,
   child |-> << >>]

(* A level that a parameter sets and an event raises, and that an event    *)
(* with the right parameter shuts.                                         *)
Meter(raise) ==
  LET S == {"Open", "Shut"} IN
  [states |-> S, terminal |-> {"Shut"}, init |-> "Open",
   flds |-> Scalar(S, {"Open"}), dflt |-> DefaultZero(S, {"Open"}),
   kids |-> NoKids(S), indexed |-> FALSE, parm |-> {"set", "stop"},
   decls |-> << Trans("Open", "Open", <<"set">>, Always, <<Param("n")>>),
                Trans("Open", "Open", <<"raise">>, Lt("n", 3), <<raise>>),
                Trans("Open", "Shut", <<"stop">>, [k |-> "param", n |-> 3], << >>) >>,
   child |-> << >>]

(* ParentSM of examples/mpquic: one child, child_state_changed.            *)
Parent(kid, csc) ==
  LET S == {"Running", "Complete"} IN
  [states |-> S, terminal |-> {"Complete"}, init |-> "Running",
   flds |-> Scalar(S, {"Running"}), dflt |-> DefaultZero(S, {"Running"}),
   kids |-> [s \in S |-> IF s = "Running" THEN 1 ELSE 0],
   indexed |-> FALSE, parm |-> {"forward"},
   decls |-> << Forward("Running", "forward"), csc,
                Trans(Star, "Complete", <<"shutdown">>, Always, << >>) >>,
   child |-> kid]

Hierarchical == Parent(Path, Trans("Running", "Complete", <<Csc>>, KidIn("Closed"), << >>))
WithArgs == Parent(PathWithArgs, Trans("Running", "Complete", <<Csc>>, KidIn("Closed"), << >>))
Counting == Parent(Path, Trans("Running", "Running", <<Csc>>, Lt("n", 3),
                               <<CopyKids, Src("n", "n", 1)>>))

(* The parent completes on child_state_changed, and its child never changes*)
(* state.                                                                  *)
TickerParent ==
  LET p == Parent(Ticker, Trans("Running", "Complete", <<Csc>>, Always, << >>))
  IN  [p EXCEPT !.decls = SubSeq(@, 1, 2)]

(* FullConnection of examples/mpquic with N path slots.                    *)
Connection(N) ==
  LET S == {"Idle", "Connected", "Done"} IN
  [states |-> S, terminal |-> {"Done"}, init |-> "Idle",
   flds |-> Scalar(S, {"Connected"}),
   dflt |-> DefaultZero(S, {"Connected"}),
   kids |-> [s \in S |-> IF s = "Connected" THEN N ELSE 0],
   indexed |-> TRUE, parm |-> {"path_event"},
   decls |-> << Trans("Idle", "Connected", <<"connect">>, Always,
                      <<Fill("Closed", N), SlotLit(0, "Active"), Lit("n", 1)>>),
                Trans("Connected", "Connected", <<"add_path">>, Lt("n", N),
                      <<CopyKids, SlotSrc("n", "Active"), Src("n", "n", 1)>>),
                Forward("Connected", "path_event"),
                Trans("Connected", "Done", <<Csc>>, All("n", "Closed"), << >>),
                Trans(Star, "Done", <<"shutdown">>, Always, << >>) >>,
   child |-> Path]

(* The same, leaving when child_state_changed finds both slots in use.     *)
CountedConnection ==
  [Connection(2) EXCEPT !.decls[4] = Trans("Connected", "Done", <<Csc>>, Ge("n", 2), << >>)]

(* ArrayContainer of examples/mpquic: children from the initial state on.  *)
Container(N) ==
  LET S == {"Running", "Finished"} IN
  [states |-> S, terminal |-> {"Finished"}, init |-> "Running",
   flds |-> Scalar(S, {"Running"}), dflt |-> DefaultZero(S, {"Running"}),
   kids |-> [s \in S |-> IF s = "Running" THEN N ELSE 0],
   indexed |-> TRUE, parm |-> {},
   decls |-> << Trans("Running", "Running", <<"add_item">>, Lt("n", N),
                      <<CopyKids, SlotSrc("n", "Active"), Src("n", "n", 1)>>),
                Trans("Running", "Running", <<"reset_all">>, Always,
                      <<Fill("Closed", N), Lit("n", 0)>>),
                Trans(Star, "Finished", <<"shutdown">>, Always, << >>) >>,
   child |-> Path]

---------------------------------------------------------------------------
(* A small grammar: states A (field n, with or without a default), B (same *)
(* field) and terminal T; up to three transitions.                         *)
GenStates == {"A", "B", "T"}

GenTransitions(events) ==
  { Trans(src, dst, <<e>>, g, a) :
      src \in GenStates \cup {Star}, dst \in GenStates, e \in events,
      g \in {Always, Lt("n", 1), Ge("n", 1)},
      a \in { << >>, <<Src("n", "n", 1)>> } }

Gen(decls, defaults) ==
  [states |-> GenStates, terminal |-> {"T"}, init |-> "A",
   flds |-> Scalar(GenStates, {"A", "B"}), dflt |-> DefaultZero(GenStates, defaults),
   kids |-> NoKids(GenStates), indexed |-> FALSE, parm |-> {},
   decls |-> decls, child |-> << >>]

(* A transition into T assigns nothing: T has no field.                    *)
Typed(decls) ==
  \A d \in DOMAIN decls :
    decls[d].dst = "T" /\ decls[d].src # "T" => decls[d].acts = << >>

Grammar(n, events, defaults) ==
  { p \in { Gen(ds, defaults) : ds \in [1 .. n -> GenTransitions(events)] } :
      Typed(p.decls) /\ Compilable(p) /\ Accepted(p) }

Examples == { Retry, Meter(Src("n", "n", 1)), Meter(AddTo("n", 1)), Hierarchical,
              WithArgs, Counting, Connection(2),
              CountedConnection, Container(2) }
=============================================================================
