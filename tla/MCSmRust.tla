------------------------------ MODULE MCSmRust ------------------------------
(* SmRust on the example machines and on every machine of the small        *)
(* grammar with two transitions over two events.                           *)
EXTENDS SmRust, SmPrograms

MCPrograms == { p : p \in Examples \cup Grammar(2, {"go", "halt"}, {"B"}) }
=============================================================================
