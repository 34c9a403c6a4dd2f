-------------------------- MODULE MCKafkaConsumer --------------------------
(* A small instance of KafkaConsumer for TLC: the consumer and one thread of *)
(* the API; the topic names the API's transaction, one of its scores is      *)
(* below the routing threshold, its third message does not parse, and its    *)
(* last one kills the process that reads it.                                 *)
EXTENDS KafkaConsumer, TLC

CONSTANTS api1, consumer, apiProcess, consumerProcess, t1

MCWorkers   == {api1, consumer}
MCProcesses == {apiProcess, consumerProcess}
MCProcessOf == api1 :> apiProcess @@ consumer :> consumerProcess
MCTxns      == {t1}
Scored(s)   == [trigger_type |-> "ml_score", risk_score |-> s]
MCPayloads == {Scored(75), Scored(76)}
Message(k, p) == [kind |-> k, txn |-> t1, payload |-> p]

FourMessages == <<Message("valid", Scored(75)), Message("valid", Scored(76)),
                  Message("invalid", Scored(76)), Message("fatal", Scored(76))>>
=============================================================================
