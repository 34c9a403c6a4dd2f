----------------------- MODULE MCInvestigationRunner -----------------------
(* A small instance of InvestigationRunner for TLC: two API threads and the  *)
(* Kafka consumer; scores on both sides of the routing threshold.           *)
EXTENDS InvestigationRunner, TLC

CONSTANTS api1, api2, consumer, apiProcess, consumerProcess, t1

ThreeWorkers  == {api1, api2, consumer}
TwoProcesses  == {apiProcess, consumerProcess}
ThreadsOf     == api1 :> apiProcess @@ api2 :> apiProcess @@ consumer :> consumerProcess
OneTxn        == {t1}
ScoredPayloads ==
    {[trigger_type |-> "ml_score", risk_score |-> s] : s \in {75, 76}}
=============================================================================
