---------------------------- MODULE MCSmVerified ----------------------------
EXTENDS SmVerified, SmPrograms

VerifiablePrograms ==
  { p \in Examples \cup Grammar(2, {"go", "halt"}, {"B"}) : Verifiable(p) }

RetryOnly == { Retry }
TickerOnly == { TickerParent }
=============================================================================
