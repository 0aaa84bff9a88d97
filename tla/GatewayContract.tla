--------------------------- MODULE GatewayContract ---------------------------
(***************************************************************************)
(* What a client of the gateway can rely on, with no cache, no DHT and no   *)
(* storage in sight: a set of held records per id that only grows, and      *)
(* requests that are opened, answered and sometimes cut off by a crash.     *)
(*   - a PUT is acknowledged only once its record is held;                  *)
(*   - a GET is answered with a held record, or with "not found" only if no *)
(*     PUT of the id had been acknowledged when the GET arrived;            *)
(*   - an error may be the answer to anything, and a PUT that failed may     *)
(*     have been held all the same.                                         *)
(* An id may be spelled in several ways; that it will be found is promised   *)
(* for some of them only.                                                   *)
(* DHTService implements this module (Contract, there).                     *)
(***************************************************************************)
CONSTANTS
    Ids, Urls, Key,         \* ids, their spellings, and the id of each spelling
    Promised,               \* ids whose answers are promised to be held records
    Sure,                   \* spellings that "not found" is an honest answer to
    Record, None, Putters, Getters

VARIABLES held, acked, puts, gets

vars == <<held, acked, puts, gets>>

IdlePut == [phase |-> "idle", url |-> None, id |-> None, rec |-> None]
IdleGet == [phase |-> "idle", url |-> None, id |-> None, rec |-> None, known |-> {}]

Init ==
    /\ held = [id \in Ids |-> {}]
    /\ acked = [id \in Ids |-> {}]
    /\ puts = [p \in Putters |-> IdlePut]
    /\ gets = [g \in Getters |-> IdleGet]

Open(p, url, rec) ==
    /\ puts[p].phase # "open"
    /\ \E phase \in {"open", "error"} :
          puts' = [puts EXCEPT ![p] = [phase |-> phase, url |-> url, id |-> Key[url],
                                       rec |-> rec]]
    /\ UNCHANGED <<held, acked, gets>>

Hold(p) ==
    /\ puts[p].phase = "open"
    /\ held' = [held EXCEPT ![puts[p].id] = @ \union {puts[p].rec}]
    /\ \/ UNCHANGED puts
       \/ puts' = [puts EXCEPT ![p].phase = "error"]
    /\ UNCHANGED <<acked, gets>>

Acknowledge(p) ==
    LET id == puts[p].id  rec == puts[p].rec IN
    /\ puts[p].phase = "open"
    /\ id \in Promised => rec \in held[id]
    /\ puts' = [puts EXCEPT ![p].phase = "acked"]
    /\ acked' = [acked EXCEPT ![id] = @ \union {rec}]
    /\ UNCHANGED <<held, gets>>

Fail(p) ==
    /\ puts[p].phase = "open"
    /\ puts' = [puts EXCEPT ![p].phase = "error"]
    /\ UNCHANGED <<held, acked, gets>>

Ask(g, url) ==
    /\ gets[g].phase # "open"
    /\ gets' = [gets EXCEPT ![g] = [phase |-> "open", url |-> url, id |-> Key[url],
                                    rec |-> None, known |-> acked[Key[url]]]]
    /\ UNCHANGED <<held, acked, puts>>

Found(g, rec) ==
    /\ gets[g].phase = "open"
    /\ gets[g].id \in Promised => rec \in held[gets[g].id]
    /\ gets' = [gets EXCEPT ![g].phase = "found", ![g].rec = rec]
    /\ UNCHANGED <<held, acked, puts>>

NotFound(g) ==
    /\ gets[g].phase = "open"
    /\ gets[g].id \in Promised /\ gets[g].url \in Sure => gets[g].known = {}
    /\ gets' = [gets EXCEPT ![g].phase = "notFound"]
    /\ UNCHANGED <<held, acked, puts>>

Refuse(g) ==
    /\ gets[g].phase = "open"
    /\ gets' = [gets EXCEPT ![g].phase = "error"]
    /\ UNCHANGED <<held, acked, puts>>

Crash ==
    /\ puts' = [p \in Putters |-> IdlePut]
    /\ gets' = [g \in Getters |-> IdleGet]
    /\ UNCHANGED <<held, acked>>

Next ==
    \/ \E p \in Putters :
          \/ \E url \in Urls, rec \in Record : Open(p, url, rec)
          \/ Hold(p)
          \/ Acknowledge(p)
          \/ Fail(p)
    \/ \E g \in Getters :
          \/ \E url \in Urls : Ask(g, url)
          \/ \E rec \in Record : Found(g, rec)
          \/ NotFound(g)
          \/ Refuse(g)
    \/ Crash

Spec == Init /\ [][Next]_vars

===============================================================================
