---------------------------- MODULE MCSmTargets -----------------------------
(* SmTargets on the example machines and the small grammar, restricted to  *)
(* the declarations whose meaning does not depend on the target, and on a  *)
(* connection whose child_state_changed transition has an all() guard.     *)
EXTENDS SmTargets, SmPrograms

PortablePrograms ==
  { p \in Examples \cup Grammar(2, {"go", "halt"}, {"B"}) : Portable(p) }

ConnectionOnly == { Connection(2) }
=============================================================================
