------------------------------ MODULE MCGateway ------------------------------
(* Small instances of Gateway for TLC.                                      *)
EXTENDS Gateway

OneId == {1}
Spelled == [url \in OneId |-> url]
NoIds == {}
OneSeq == {1}
TwoSeqs == 1 .. 2
NoFaults == {}
Nobody == {}

\* A third of the nodes is just enough, a quarter is not.
SomePutResults ==
    [err : {FALSE}, tried : {3, 4}, responded : {1}]

==============================================================================
