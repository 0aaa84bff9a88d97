----------------------------- MODULE GatewayProofs -----------------------------
(***************************************************************************)
(* The whole gateway implements both of its parts, for any ids, records,    *)
(* requests, goroutines and sizes of pages: what is proved of DHTService    *)
(* and of Republisher, each with an environment for the other, holds of the *)
(* two together.                                                            *)
(***************************************************************************)
EXTENDS Gateway, Sequences, FiniteSetTheorems, TLAPS

Record == Service!Record
Item == Ids \X Record

\* Types of what requests have in hand, and the storage holds what was stored.
ServiceSide ==
    /\ put \in [Putters -> Service!PutState]
    /\ async \in [Workers -> Item \union {None}]
    /\ stored \in [Ids -> SUBSET Record]
    /\ db \in [Ids -> Record \union {None}]
    /\ \A id \in Ids : db[id] # None => db[id] \in stored[id]

\* A record that was once stored under the id it is listed with.
WasStored(item) == item[2] \in stored[item[1]]

\* Whatever a pass has in hand was stored, also if a request has replaced it since.
PassSide ==
    /\ \A id \in Ids : worker[id] \in {"put", "send"} => batch[id] \in stored[id]
    /\ chan \in Seq(Item) /\ \A i \in 1 .. Len(chan) : WasStored(chan[i])
    /\ failed \in Seq(Item) /\ \A i \in 1 .. Len(failed) : WasStored(failed[i])
    /\ pc = "count" => failed # <<>>

IInv == ServiceSide /\ PassSide

\* Nothing is stored and nothing is in hand at first.
LEMMA InitIInv == Init => IInv
  <1> SUFFICES ASSUME Init PROVE IInv
    OBVIOUS
  <1>1. ServiceSide
    BY DEF Init, Service!Init, ServiceSide, Service!PutState, Service!NoPut
  <1>2. chan = <<>> /\ failed = <<>> /\ worker = Pass!Off /\ pc = "idle"
    BY DEF Init, Pass!Init
  <1>3. PassSide
    BY <1>2 DEF PassSide, Pass!Off
  <1> QED BY <1>1, <1>3 DEF IInv

-------------------------------------------------------------------------------
(* Requests keep both sides                                                 *)

\* A PUT that goes on keeps its id and its record.
LEMMA PutMoves ==
    ASSUME ServiceSide, NEW p \in Putters, put[p].pc \in Service!PutPC,
           NEW next \in Service!PutPC, Service!PutTo(p, next)
    PROVE  /\ put' \in [Putters -> Service!PutState]
           /\ put[p].id \in Ids /\ put[p].rec \in Record
  <1>1. put[p] \in [pc : Service!PutPC, url : Urls, id : Ids, rec : Record]
        /\ put[p].id = Key[put[p].url]
    BY DEF ServiceSide, Service!PutState, Service!NoPut, Service!PutPC, Record
  <1>2. [put[p] EXCEPT !.pc = next] \in Service!PutState
    BY <1>1 DEF Service!PutState, Record
  <1>3. put' = [put EXCEPT ![p] = [put[p] EXCEPT !.pc = next]]
    BY DEF Service!PutTo
  <1> QED BY <1>1, <1>2, <1>3 DEF ServiceSide

\* A PUT stores what it has in hand, and nothing is ever unstored.
LEMMA PutKeeps ==
    ASSUME ServiceSide, Service!PutNext
    PROVE  ServiceSide' /\ \A id \in Ids : stored[id] \subseteq stored'[id]
  <1> DEFINE Goal == ServiceSide' /\ \A id \in Ids : stored[id] \subseteq stored'[id]
  <1> SUFFICES Goal
    OBVIOUS
  <1>1. ASSUME NEW p \in Putters, NEW url \in Urls, NEW rec \in Record,
               NEW valid \in BOOLEAN, Service!StartPut(p, url, rec, valid)
        PROVE  Goal
    <2> DEFINE new == [pc |-> IF valid THEN "checkCache" ELSE "refused",
                       url |-> url, id |-> Key[url], rec |-> rec]
    <2>1. new \in Service!PutState
      BY KeyAssumption DEF Service!PutState, Service!PutPC, Record
    <2>2. put' \in [Putters -> Service!PutState]
      BY <1>1, <2>1 DEF Service!StartPut, ServiceSide
    <2> QED BY <1>1, <2>2 DEF Service!StartPut, ServiceSide
  <1>2. ASSUME NEW p \in Putters, Service!CheckPutCache(p) PROVE Goal
    <2>1. \E next \in Service!PutPC : Service!PutTo(p, next)
      BY <1>2 DEF Service!CheckPutCache, Service!PutPC
    <2>2. put' \in [Putters -> Service!PutState]
      BY <1>2, <2>1, PutMoves DEF Service!CheckPutCache, Service!PutPC
    <2> QED BY <1>2, <2>2 DEF Service!CheckPutCache, ServiceSide
  <1>3. ASSUME NEW p \in Putters, Service!WriteRecord(p) PROVE Goal
    <2>1. \E next \in Service!PutPC : Service!PutTo(p, next)
      BY <1>3 DEF Service!WriteRecord, Service!PutPC
    <2>2. put' \in [Putters -> Service!PutState] /\ put[p].id \in Ids /\ put[p].rec \in Record
      BY <1>3, <2>1, PutMoves DEF Service!WriteRecord, Service!PutPC
    <2>3. CASE UNCHANGED <<db, stored>>
      BY <1>3, <2>2, <2>3 DEF Service!WriteRecord, ServiceSide
    <2>4. CASE Service!Hold(put[p].id, put[p].rec)
      BY <1>3, <2>2, <2>4 DEF Service!WriteRecord, Service!Hold, ServiceSide
    <2> QED BY <1>3, <2>3, <2>4 DEF Service!WriteRecord, Service!Hold
  <1>4. ASSUME NEW p \in Putters, Service!SetCache(p) PROVE Goal
    <2>1. \E next \in Service!PutPC : Service!PutTo(p, next)
      BY <1>4 DEF Service!SetCache, Service!PutPC
    <2>2. put' \in [Putters -> Service!PutState] /\ <<put[p].id, put[p].rec>> \in Item
      BY <1>4, <2>1, PutMoves DEF Service!SetCache, Service!PutPC, Item
    <2>3. async' \in [Workers -> Item \union {None}]
      BY <1>4, <2>2 DEF Service!SetCache, ServiceSide
    <2> QED BY <1>4, <2>2, <2>3 DEF Service!SetCache, ServiceSide
  <1> HIDE DEF Goal
  <1> QED BY <1>1, <1>2, <1>3, <1>4 DEF Service!PutNext, Record

\* A pass that does nothing loses nothing, as nothing is ever unstored.
LEMMA PassWaits ==
    ASSUME PassSide, UNCHANGED <<worker, batch, chan, failed, pc>>,
           \A id \in Ids : stored[id] \subseteq stored'[id]
    PROVE  PassSide'
  <1>1. UNCHANGED <<worker, batch, chan, failed, pc>>
    OBVIOUS
  <1>2. \A item \in Item : WasStored(item) => WasStored(item)'
    BY DEF Item, WasStored
  <1>3. \A i \in 1 .. Len(chan) : chan[i] \in Item
    BY DEF PassSide
  <1>4. \A i \in 1 .. Len(failed) : failed[i] \in Item
    BY DEF PassSide
  <1> QED BY <1>1, <1>2, <1>3, <1>4 DEF PassSide

\* Requests leave the pass alone, but for the memory of its page token.
LEMMA HandsOff == ASSUME RequestStep PROVE UNCHANGED <<worker, batch, chan, failed, pc>>
  BY DEF RequestStep, passOnly, Pass!WriteRecord

\* No request and no goroutine of one touches what a pass has in hand.
LEMMA RequestKeeps == ASSUME IInv, RequestStep PROVE IInv'
  <1>1. CASE Service!PutNext
    BY <1>1, PutKeeps, PassWaits, HandsOff DEF IInv
  <1>2. CASE Service!GetNext
    <2>1. UNCHANGED <<put, async, stored, db>>
      BY <1>2 DEF Service!GetNext, Service!StartGet, Service!CheckBadGet, Service!CheckGetCache,
                  Service!Lookup, Service!ReadRecord, Service!Miss, Service!FillFromDHT,
                  Service!FillFromDB
    <2> QED BY <2>1, PassWaits, HandsOff DEF IInv, ServiceSide
  <1>3. ASSUME NEW w \in Workers, NEW taken \in BOOLEAN, Service!AsyncPut(w, taken) PROVE IInv'
    BY <1>3, PassWaits, HandsOff DEF IInv, ServiceSide, Service!AsyncPut
  <1> QED BY <1>1, <1>2, <1>3 DEF RequestStep, Service!PutNext

-------------------------------------------------------------------------------
(* So does the pass                                                         *)

\* What the pass adds to a list, and what it takes off its head, was stored.
LEMMA Lists ==
    ASSUME NEW s \in Seq(Item), \A i \in 1 .. Len(s) : WasStored(s[i])
    PROVE  /\ \A e \in Item : WasStored(e) =>
                 /\ Append(s, e) \in Seq(Item)
                 /\ \A i \in 1 .. Len(Append(s, e)) : WasStored(Append(s, e)[i])
           /\ s # <<>> =>
                 /\ Head(s) \in Item /\ WasStored(Head(s)) /\ Tail(s) \in Seq(Item)
                 /\ \A i \in 1 .. Len(Tail(s)) : WasStored(Tail(s)[i])
           /\ \A t \in Seq(Item) : (\A i \in 1 .. Len(t) : WasStored(t[i])) =>
                 /\ s \o t \in Seq(Item)
                 /\ \A i \in 1 .. Len(s \o t) : WasStored((s \o t)[i])
  <1> HIDE DEF Item
  <1>1. ASSUME NEW e \in Item, WasStored(e), NEW i \in 1 .. Len(Append(s, e))
        PROVE  WasStored(Append(s, e)[i])
    <2>1. Append(s, e)[i] = e \/ (i \in 1 .. Len(s) /\ Append(s, e)[i] = s[i])
      OBVIOUS
    <2> QED BY <1>1, <2>1
  <1>2. ASSUME s # <<>>, NEW i \in 1 .. Len(Tail(s)) PROVE WasStored(Tail(s)[i])
    <2>1. i + 1 \in 1 .. Len(s) /\ Tail(s)[i] = s[i + 1]
      BY <1>2
    <2> QED BY <2>1
  <1>3. ASSUME NEW t \in Seq(Item), \A i \in 1 .. Len(t) : WasStored(t[i]),
               NEW i \in 1 .. Len(s \o t)
        PROVE  WasStored((s \o t)[i])
    <2>1. CASE i \in 1 .. Len(s)
      <3>1. (s \o t)[i] = s[i]
        BY <2>1
      <3> QED BY <2>1, <3>1
    <2>2. CASE i \notin 1 .. Len(s)
      <3>1. i - Len(s) \in 1 .. Len(t) /\ (s \o t)[i] = t[i - Len(s)]
        BY <2>2
      <3> QED BY <1>3, <3>1
    <2> QED BY <2>1, <2>2
  <1>4. s # <<>> => Head(s) \in Item /\ WasStored(Head(s)) /\ Tail(s) \in Seq(Item)
    <2> SUFFICES ASSUME s # <<>>
                 PROVE  Head(s) \in Item /\ WasStored(Head(s)) /\ Tail(s) \in Seq(Item)
      OBVIOUS
    <2>1. Head(s) = s[1] /\ 1 \in 1 .. Len(s) /\ s[1] \in Item /\ Tail(s) \in Seq(Item)
      OBVIOUS
    <2> QED BY <2>1
  <1>5. \A e \in Item : Append(s, e) \in Seq(Item)
    OBVIOUS
  <1>6. \A t \in Seq(Item) : s \o t \in Seq(Item)
    OBVIOUS
  <1> QED BY <1>1, <1>2, <1>3, <1>4, <1>5, <1>6

\* A batch is taken from the storage.
LEMMA ListPageKeeps == ASSUME IInv, Pass!ListPage, UNCHANGED stored PROVE PassSide'
  <1> DEFINE good == Pass!Page \ {}
  <1>1. \A id \in good : id \in Ids /\ db[id] \in stored[id]
    BY DEF IInv, ServiceSide, Pass!Page, Pass!FirstOf, Pass!Stored
  <1>2. UNCHANGED <<batch, worker>>
        \/ /\ batch' = [id \in Ids |-> IF id \in good THEN db[id] ELSE None]
           /\ worker' = [id \in Ids |-> IF id \in good THEN "put" ELSE "off"]
    BY DEF Pass!ListPage
  <1>3. UNCHANGED <<chan, failed>> /\ pc' # "count"
    BY DEF Pass!ListPage
  <1> HIDE DEF good
  <1>4. \A id \in Ids : worker'[id] \in {"put", "send"} => batch'[id] \in stored[id]
    BY <1>1, <1>2 DEF IInv, PassSide
  <1> QED BY <1>3, <1>4 DEF IInv, PassSide, WasStored

\* Records travel from batch to channel to list as they were stored.
LEMMA PassKeeps == ASSUME IInv, PassStep PROVE IInv'
  <1>1. UNCHANGED <<put, async, stored>>
    BY DEF PassStep, serviceOnly
  <1>2. UNCHANGED db
    BY DEF PassStep, Pass!RepublishNext, Pass!Start, Pass!ListPage, Pass!ListError, Pass!WorkerPut,
           Pass!WorkerSend, Pass!FinishBatch, Pass!RetryPut, Pass!CountFailure, Pass!Finish
  <1>3. ServiceSide'
    BY <1>1, <1>2 DEF IInv, ServiceSide
  <1> SUFFICES PassSide'
    BY <1>3 DEF IInv
  <1>4. ASSUME UNCHANGED <<worker, batch, chan, failed>>, pc' # "count" PROVE PassSide'
    BY <1>1, <1>4 DEF IInv, PassSide, WasStored
  <1>5. CASE Pass!Start \/ Pass!Finish
    BY <1>4, <1>5 DEF Pass!Start, Pass!Finish
  <1>6. CASE Pass!ListPage
    BY <1>1, <1>6, ListPageKeeps
  <1>7. CASE Pass!ListError
    <2>1. UNCHANGED <<worker, batch, chan, failed, pc>>
      BY <1>7 DEF Pass!ListError
    <2> QED BY <1>1, <2>1 DEF IInv, PassSide, WasStored
  <1>8. ASSUME NEW id \in Ids, NEW result, NEW taken, Pass!WorkerPut(id, result, taken)
        PROVE  PassSide'
    <2>1. UNCHANGED <<batch, chan, failed, pc>> /\ worker[id] = "put"
      BY <1>8 DEF Pass!WorkerPut
    <2>2. \A j \in Ids : worker'[j] = worker[j] \/ j = id
      BY <1>8 DEF Pass!WorkerPut
    <2> QED BY <1>1, <2>1, <2>2 DEF IInv, PassSide, WasStored
  <1>9. ASSUME NEW id \in Ids, Pass!WorkerSend(id) PROVE PassSide'
    <2>1. UNCHANGED <<batch, failed, pc>> /\ worker[id] = "send"
          /\ chan' = Append(chan, <<id, batch[id]>>)
      BY <1>9 DEF Pass!WorkerSend
    <2>2. \A j \in Ids : worker'[j] = worker[j] \/ j = id
      BY <1>9 DEF Pass!WorkerSend
    <2>3. <<id, batch[id]>> \in Item /\ WasStored(<<id, batch[id]>>)
      BY <2>1 DEF IInv, ServiceSide, PassSide, Item, WasStored
    <2>4. chan' \in Seq(Item) /\ \A i \in 1 .. Len(chan') : WasStored(chan'[i])
      BY <2>1, <2>3, Lists DEF IInv, PassSide
    <2> QED BY <1>1, <2>1, <2>2, <2>4 DEF IInv, PassSide, WasStored
  <1>10. CASE Pass!FinishBatch
    <2>1. failed' = failed \o chan /\ chan' = <<>> /\ worker' = Pass!Off
          /\ pc' # "count"
      BY <1>10 DEF Pass!FinishBatch
    <2>2. failed' \in Seq(Item) /\ \A i \in 1 .. Len(failed') : WasStored(failed'[i])
      BY <2>1, Lists DEF IInv, PassSide
    <2> QED BY <1>1, <2>1, <2>2 DEF IInv, PassSide, WasStored, Pass!Off
  <1>11. ASSUME NEW result, NEW taken, Pass!RetryPut(result, taken) \/ Pass!CountFailure(taken)
         PROVE  PassSide'
    <2>1. /\ UNCHANGED <<worker, batch, chan>> /\ failed # <<>>
          /\ failed' = failed \/ (failed' = Tail(failed) /\ pc' # "count")
      BY <1>11 DEF Pass!RetryPut, Pass!CountFailure, Pass!MaxRetries, IInv, PassSide
    <2>2. failed' \in Seq(Item) /\ \A i \in 1 .. Len(failed') : WasStored(failed'[i])
      <3>1. CASE failed' = failed
        BY <3>1 DEF IInv, PassSide
      <3>2. CASE failed' = Tail(failed)
        BY <2>1, <3>2, Lists DEF IInv, PassSide
      <3> QED BY <2>1, <3>1, <3>2
    <2> QED BY <1>1, <2>1, <2>2 DEF IInv, PassSide, WasStored
  <1> QED
    BY <1>5, <1>6, <1>7, <1>8, <1>9, <1>10, <1>11 DEF PassStep, Pass!RepublishNext

\* The invariant is inductive; a crash empties the hands of both.
LEMMA StepIInv == IInv /\ [Next]_vars => IInv'
  <1> SUFFICES ASSUME IInv, [Next]_vars PROVE IInv'
    OBVIOUS
  <1>1. ASSUME UNCHANGED <<put, async, stored, db>>, UNCHANGED passOnly PROVE IInv'
    <2>1. ServiceSide'
      BY <1>1 DEF IInv, ServiceSide
    <2> QED BY <1>1, <2>1, PassWaits DEF IInv, passOnly
  <1>2. CASE UNCHANGED vars
    BY <1>1, <1>2 DEF vars, serviceOnly
  <1>3. CASE RequestStep
    BY <1>3, RequestKeeps
  <1>4. CASE PassStep
    BY <1>4, PassKeeps
  <1>5. CASE Outside
    BY <1>1, <1>5 DEF Outside, Service!CacheEvict, Service!BadGetExpire, Service!ExternalPut,
                      Service!DhtForget
  <1>6. CASE Crash
    <2>1. UNCHANGED <<stored, db>> /\ put' \in [Putters -> Service!PutState]
          /\ async' \in [Workers -> Item \union {None}]
      BY <1>6 DEF Crash, Service!Restart, Service!PutState
    <2>2. ServiceSide'
      BY <2>1 DEF IInv, ServiceSide
    <2>3. chan' = <<>> /\ failed' = <<>> /\ worker' = Pass!Off /\ pc' = "idle"
      BY <1>6 DEF Crash, Pass!Restart
    <2>4. PassSide'
      BY <2>3 DEF PassSide, Pass!Off
    <2> QED BY <2>2, <2>4 DEF IInv
  <1> QED BY <1>2, <1>3, <1>4, <1>5, <1>6 DEF Next, Running

-------------------------------------------------------------------------------
(* The gateway seen from the request path                                   *)

\* What a pass puts was stored, so that its puts are those DHTService allows.
LEMMA PassRepublishes == ASSUME IInv, PassStep PROVE [Service!Next]_Service!vars
  <1>1. UNCHANGED serviceOnly /\ UNCHANGED db
    BY DEF PassStep, Pass!RepublishNext, Pass!Start, Pass!ListPage, Pass!ListError, Pass!WorkerPut,
           Pass!WorkerSend, Pass!FinishBatch, Pass!RetryPut, Pass!CountFailure, Pass!Finish
  <1>2. ASSUME UNCHANGED dht PROVE UNCHANGED Service!vars
    BY <1>1, <1>2 DEF Service!vars, serviceOnly
  <1>3. ASSUME NEW id \in Ids, NEW rec, rec \in stored[id], NEW taken, Pass!PutToDHT(id, rec, taken)
        PROVE  [Service!Next]_Service!vars
    <2>1. rec \in Record
      BY <1>3 DEF IInv, ServiceSide
    <2>2. UNCHANGED dht \/ Service!RepublishPut(id, rec)
      BY <1>1, <1>3 DEF Pass!PutToDHT, Service!RepublishPut, serviceOnly
    <2>3. Service!RepublishPut(id, rec) => Service!EnvNext
      BY <2>1 DEF Service!EnvNext, Record
    <2> QED BY <1>2, <2>2, <2>3 DEF Service!Next
  <1>4. ASSUME NEW id \in Ids, NEW result, NEW taken, Pass!WorkerPut(id, result, taken)
        PROVE  [Service!Next]_Service!vars
    <2>1. batch[id] \in stored[id] /\ Pass!PutToDHT(id, batch[id], taken)
      BY <1>4 DEF Pass!WorkerPut, IInv, PassSide
    <2> QED BY <1>3, <2>1
  <1>5. ASSUME NEW result, NEW taken, Pass!RetryPut(result, taken)
        PROVE  [Service!Next]_Service!vars
    <2>1. failed # <<>> /\ Pass!PutToDHT(Head(failed)[1], Head(failed)[2], taken)
      BY <1>5 DEF Pass!RetryPut
    <2>2. Head(failed) \in Item /\ WasStored(Head(failed))
      BY <2>1, Lists DEF IInv, PassSide
    <2>3. Head(failed)[1] \in Ids /\ Head(failed)[2] \in stored[Head(failed)[1]]
      BY <2>2 DEF Item, WasStored
    <2> QED BY <1>3, <2>1, <2>3
  <1>6. CASE Pass!Start \/ Pass!ListPage \/ Pass!ListError \/ Pass!FinishBatch \/ Pass!Finish
    BY <1>2, <1>6 DEF Pass!Start, Pass!ListPage, Pass!ListError, Pass!FinishBatch, Pass!Finish
  <1>7. ASSUME NEW id, Pass!WorkerSend(id) PROVE [Service!Next]_Service!vars
    BY <1>2, <1>7 DEF Pass!WorkerSend
  <1>8. ASSUME NEW written, Pass!CountFailure(written) PROVE [Service!Next]_Service!vars
    BY <1>2, <1>8 DEF Pass!CountFailure
  <1> QED BY <1>4, <1>5, <1>6, <1>7, <1>8 DEF PassStep, Pass!RepublishNext

\* Every step is one of the request path's, or of its environment, or none.
LEMMA ServiceStep == ASSUME IInv, [Next]_vars PROVE [Service!Next]_Service!vars
  <1>1. CASE UNCHANGED vars
    BY <1>1 DEF vars, serviceOnly, Service!vars
  <1>2. CASE RequestStep
    <2>1. ASSUME NEW p \in Putters, Service!WriteRecord(p) PROVE Service!PutNext
      BY <2>1 DEF Service!PutNext
    <2> QED BY <1>2, <2>1 DEF RequestStep, Service!Next, Service!EnvNext
  <1>3. CASE PassStep
    BY <1>3, PassRepublishes
  <1>4. CASE Outside
    BY <1>4 DEF Outside, Service!Next, Service!EnvNext
  <1>5. CASE Crash
    BY <1>5 DEF Crash, Service!Next, Service!EnvNext
  <1> QED BY <1>1, <1>2, <1>3, <1>4, <1>5 DEF Next, Running

\* The gateway with its republisher implements the request path: the republisher is no
\* more than the environment that DHTService was specified and proved with.
THEOREM GatewayServes == Spec => ServiceRelies
  <1>1. Init => Service!Init
    BY DEF Init
  <1>2. IInv /\ [Next]_vars => [Service!Next]_Service!vars
    BY ServiceStep
  <1> QED BY InitIInv, StepIInv, <1>1, <1>2, PTL DEF Spec, ServiceRelies, Service!Spec

-------------------------------------------------------------------------------
(* The gateway seen from the republisher                                    *)

\* A request that stores a record does what Republisher lets its environment do.
LEMMA StoreIsWrite ==
    ASSUME IInv, NEW p \in Putters, Service!WriteRecord(p),
           Pass!WriteRecord(put[p].id, put[p].rec)
    PROVE  [Pass!Next]_Pass!vars
  <1>1. \E next \in Service!PutPC : Service!PutTo(p, next)
    BY DEF Service!WriteRecord, Service!PutPC
  <1>2. put[p].rec \in Record /\ put[p].id \in Ids
    BY <1>1, PutMoves DEF IInv, Service!WriteRecord, Service!PutPC
  <1>3. put[p].rec \in Service!DhtRecord
    BY <1>2 DEF Record, Service!Record, Service!DhtRecord
  <1> QED BY <1>2, <1>3 DEF Pass!Next, Pass!EnvNext

\* Every step is one of the republisher's, or of its environment, or none.
LEMMA PassSees == ASSUME IInv, [Next]_vars PROVE [Pass!Next]_Pass!vars
  <1>1. ASSUME UNCHANGED <<db, dht>>, UNCHANGED passOnly PROVE UNCHANGED Pass!vars
    BY <1>1 DEF passOnly, Pass!vars, Pass!pass, Pass!history
  <1>2. CASE UNCHANGED vars
    BY <1>1, <1>2 DEF vars
  <1>3. ASSUME NEW id \in Ids, NEW rec \in Service!DhtRecord, UNCHANGED db, UNCHANGED passOnly,
               \/ dht' = [dht EXCEPT ![id] = @ \union {rec}]
               \/ rec \in dht[id] /\ dht' = [dht EXCEPT ![id] = @ \ {rec}]
        PROVE  [Pass!Next]_Pass!vars
    <2>1. UNCHANGED <<failures, Pass!pass, Pass!history>>
      BY <1>3 DEF passOnly, Pass!pass, Pass!history
    <2>2. Pass!OtherPut(id, rec) \/ Pass!DhtForget(id, rec)
      BY <1>3, <2>1 DEF Pass!OtherPut, Pass!DhtForget
    <2> QED BY <1>3, <2>2 DEF Pass!Next, Pass!EnvNext
  <1>4. CASE RequestStep
    <2>1. SUFFICES ASSUME UNCHANGED <<db, passOnly>> PROVE [Pass!Next]_Pass!vars
      BY <1>4, StoreIsWrite DEF RequestStep
    <2>2. ASSUME NEW p \in Putters, Service!WriteRecord(p) PROVE [Pass!Next]_Pass!vars
      BY <1>1, <2>1, <2>2 DEF Service!WriteRecord
    <2>3. ASSUME NEW w \in Workers, NEW taken \in BOOLEAN, Service!AsyncPut(w, taken)
          PROVE  [Pass!Next]_Pass!vars
      <3>1. async[w] \in Item /\ UNCHANGED db
        BY <2>3 DEF Service!AsyncPut, IInv, ServiceSide
      <3>2. async[w][1] \in Ids /\ async[w][2] \in Service!DhtRecord
        BY <3>1 DEF Item, Record, Service!Record, Service!DhtRecord
      <3>3. UNCHANGED dht \/ dht' = [dht EXCEPT ![async[w][1]] = @ \union {async[w][2]}]
        BY <2>3 DEF Service!AsyncPut
      <3> QED BY <1>1, <1>3, <2>1, <3>1, <3>2, <3>3
    <2>4. ASSUME NEW p \in Putters, Service!CheckPutCache(p) \/ Service!SetCache(p)
          PROVE  [Pass!Next]_Pass!vars
      BY <1>1, <2>1, <2>4 DEF Service!CheckPutCache, Service!SetCache
    <2>5. ASSUME NEW p, NEW url, NEW rec, NEW valid, Service!StartPut(p, url, rec, valid)
          PROVE  [Pass!Next]_Pass!vars
      BY <1>1, <2>1, <2>5 DEF Service!StartPut
    <2>6. CASE Service!GetNext
      BY <1>1, <2>1, <2>6 DEF Service!GetNext, Service!StartGet, Service!CheckBadGet,
           Service!CheckGetCache, Service!Lookup, Service!ReadRecord, Service!Miss,
           Service!FillFromDHT, Service!FillFromDB
    <2> QED BY <1>4, <2>2, <2>3, <2>4, <2>5, <2>6 DEF RequestStep, Service!PutNext
  <1>5. CASE PassStep
    BY <1>5 DEF PassStep, Pass!Next
  <1>6. CASE Outside
    <2>1. UNCHANGED passOnly
      BY <1>6 DEF Outside
    <2>2. ASSUME NEW url, Service!CacheEvict(url) \/ Service!BadGetExpire(url)
          PROVE  [Pass!Next]_Pass!vars
      BY <1>1, <2>1, <2>2 DEF Service!CacheEvict, Service!BadGetExpire
    <2>3. ASSUME NEW id \in Ids, NEW rec \in Service!DhtRecord,
                 Service!ExternalPut(id, rec) \/ Service!DhtForget(id, rec)
          PROVE  [Pass!Next]_Pass!vars
      BY <1>3, <2>1, <2>3 DEF Service!ExternalPut, Service!DhtForget
    <2> QED BY <1>6, <2>2, <2>3, ForeignAssumption DEF Outside
  <1>7. CASE Crash
    BY <1>7 DEF Crash, Pass!Next
  <1> QED BY <1>2, <1>4, <1>5, <1>6, <1>7 DEF Next, Running

\* The gateway with its requests implements the republisher: requests and the goroutines
\* they leave do nothing to a pass but what Republisher was specified and proved with.
THEOREM GatewayRepublishes == Spec => PassRelies
  <1>1. Init => Pass!Init
    BY DEF Init
  <1>2. IInv /\ [Next]_vars => [Pass!Next]_Pass!vars
    BY PassSees
  <1> QED BY InitIInv, StepIInv, <1>1, <1>2, PTL DEF Spec, PassRelies, Pass!Spec

-------------------------------------------------------------------------------
(* What is proved of the two parts holds of the whole                       *)

Requests == INSTANCE DHTServiceProofs WITH Bolt <- Backend = "bolt"

Passes == INSTANCE RepublisherProofs WITH
    Record <- Service!DhtRecord, Corrupt <- {}

\* The two proof modules speak of the specifications that the gateway is made of.
LEMMA SameService == Service!Spec <=> Requests!Spec
  BY DEF Service!Spec, Service!Init, Service!vars, Service!Next, Service!PutNext,
         Service!GetNext, Service!EnvNext, Service!StartPut, Service!CheckPutCache,
         Service!Equals, Service!CanWrite, Service!Hold, Service!WriteRecord, Service!SetCache,
         Service!AsyncPut, Service!PutTo, Service!StartGet, Service!CheckBadGet,
         Service!CheckGetCache, Service!Lookup, Service!ReadRecord, Service!Miss,
         Service!AddRecordToCache, Service!FillFromDHT, Service!FillFromDB, Service!GetTo,
         Service!Readable, Service!Resolve, Service!ExternalPut, Service!RepublishPut, Service!DhtForget,
         Service!CacheEvict, Service!BadGetExpire, Service!Restart, Service!Record,
         Service!DhtRecord, Service!NoPut, Service!NoGet, Service!Free, Service!Answered,
         Service!PutPC, Service!GetPC, Requests!Spec, Requests!Init, Requests!vars,
         Requests!Next, Requests!PutNext, Requests!GetNext, Requests!EnvNext, Requests!StartPut,
         Requests!CheckPutCache, Requests!Equals, Requests!CanWrite, Requests!Hold,
         Requests!WriteRecord, Requests!SetCache, Requests!AsyncPut, Requests!PutTo,
         Requests!StartGet, Requests!CheckBadGet, Requests!CheckGetCache, Requests!Lookup,
         Requests!ReadRecord, Requests!Miss, Requests!AddRecordToCache, Requests!FillFromDHT,
         Requests!FillFromDB, Requests!GetTo, Requests!Readable, Requests!Resolve, Requests!ExternalPut,
         Requests!RepublishPut, Requests!DhtForget, Requests!CacheEvict, Requests!BadGetExpire,
         Requests!Restart, Requests!Record, Requests!DhtRecord, Requests!NoPut, Requests!NoGet,
         Requests!Free, Requests!Answered, Requests!PutPC, Requests!GetPC

\* They mean the same contract.
LEMMA SameContract == Service!Contract <=> Requests!Contract
  BY DEF Service!Contract, Service!PutView, Service!GetView, Service!Phase, Service!Native,
         Service!Record, Requests!Contract, Requests!PutView, Requests!GetView, Requests!Phase,
         Requests!Native, Requests!Record, Service!Abstract!Spec, Service!Abstract!Init,
         Service!Abstract!Next, Service!Abstract!vars, Service!Abstract!IdlePut,
         Service!Abstract!IdleGet, Service!Abstract!Open, Service!Abstract!Hold,
         Service!Abstract!Acknowledge, Service!Abstract!Fail, Service!Abstract!Ask,
         Service!Abstract!Found, Service!Abstract!NotFound, Service!Abstract!Refuse,
         Service!Abstract!Crash, Service!Readable, Requests!Readable, Requests!Abstract!Spec, Requests!Abstract!Init,
         Requests!Abstract!Next, Requests!Abstract!vars, Requests!Abstract!IdlePut,
         Requests!Abstract!IdleGet, Requests!Abstract!Open, Requests!Abstract!Hold,
         Requests!Abstract!Acknowledge, Requests!Abstract!Fail, Requests!Abstract!Ask,
         Requests!Abstract!Found, Requests!Abstract!NotFound, Requests!Abstract!Refuse,
         Requests!Abstract!Crash

\* And the same republisher.
LEMMA SamePass == Pass!Spec <=> Passes!Spec
  BY DEF Pass!Spec, Pass!Init, Pass!vars, Pass!pass, Pass!history, Pass!Next,
         Pass!RepublishNext, Pass!EnvNext, Pass!Off, Pass!Empty, Pass!Stored, Pass!Start,
         Pass!FirstOf, Pass!Seek, Pass!Page, Pass!NextToken, Pass!Listable, Pass!ListPage,
         Pass!ListError, Pass!SuccessThreshold, Pass!IsPutSuccessful, Pass!Announces,
         Pass!PutToDHT, Pass!WorkerPut, Pass!Capacity, Pass!WorkerSend, Pass!AllDone,
         Pass!FinishBatch, Pass!MaxRetries, Pass!RetryPut, Pass!CountFailure, Pass!Finish,
         Pass!WriteRecord, Pass!OtherPut, Pass!DhtForget, Pass!Restart, Passes!Spec,
         Passes!Init, Passes!vars, Passes!pass, Passes!history, Passes!Next,
         Passes!RepublishNext, Passes!EnvNext, Passes!Off, Passes!Empty, Passes!Stored,
         Passes!Start, Passes!FirstOf, Passes!Seek, Passes!Page, Passes!NextToken,
         Passes!Listable, Passes!ListPage, Passes!ListError, Passes!SuccessThreshold,
         Passes!IsPutSuccessful, Passes!Announces, Passes!PutToDHT, Passes!WorkerPut,
         Passes!Capacity, Passes!WorkerSend, Passes!AllDone, Passes!FinishBatch,
         Passes!MaxRetries, Passes!RetryPut, Passes!CountFailure, Passes!Finish,
         Passes!WriteRecord, Passes!OtherPut, Passes!DhtForget, Passes!Restart, Pass!Max, Passes!Max,
         Pass!Cardinality, Passes!Cardinality

\* The assumptions of DHTService follow from those of the gateway.
LEMMA ServiceAssumptions ==
    /\ None \notin Requests!DhtRecord /\ None \notin Ids
    /\ (Backend = "bolt") \in BOOLEAN
  <1>1. Requests!DhtRecord = Service!DhtRecord
    BY DEF Requests!DhtRecord, Service!DhtRecord
  <1> QED BY <1>1, NoneAssumption

\* And so do those of Republisher.
LEMMA PassAssumptions ==
    /\ {} \subseteq Ids
    /\ Ids \subseteq Nat /\ Passes!IsFiniteSet(Ids)
    /\ None \notin Ids \union Service!DhtRecord
  <1>1. Passes!IsFiniteSet(Ids) = IsFiniteSet(Ids)
    BY DEF Passes!IsFiniteSet, IsFiniteSet
  <1> QED BY <1>1, IdsAssumption, NoneAssumption

\* Without records that do not decode there are few of them.
LEMMA NoneCorrupt == Passes!FewCorrupt
  <1>1. Passes!Cardinality({}) = Cardinality({})
    BY DEF Passes!Cardinality, Cardinality
  <1>2. 0 < PageSize
    BY PageSizeAssumption
  <1> QED BY <1>1, <1>2, FS_EmptySet DEF Passes!FewCorrupt

\* The whole gateway, with its republisher and its crashes, keeps the contract with its
\* clients, for any instance, as long as its storage can be read.
THEOREM GatewayKeepsContract ==
    ASSUME "read" \notin Faults
    PROVE  Spec => Service!Contract
  <1>1. Requests!Spec => Requests!Contract
    BY Requests!ServiceImplementsContract, ServiceAssumptions, KeyAssumption, ForeignAssumption,
       SeqsAssumption
  <1>2. Spec => Service!Spec
    BY GatewayServes DEF ServiceRelies
  <1> QED BY <1>1, <1>2, SameService, SameContract

\* In the whole gateway, whatever requests do meanwhile and wherever it dies: no goroutine
\* of a pass waits for room in the channel, and no put reported as failed is forgotten.
THEOREM GatewayPassHandles == Spec => [](Pass!NeverBlocked /\ Pass!FailuresHandled)
  <1>1. Passes!Spec => []Passes!NeverBlocked
    BY Passes!SendersNeverBlock, PassAssumptions, BackendAssumption, ReuseAssumption,
       PageSizeAssumption, ListFailsAssumption, ResultsAssumption
  <1>2. Passes!Spec => []Passes!FailuresHandled
    BY Passes!NoFailureForgotten, PassAssumptions, BackendAssumption, ReuseAssumption,
       PageSizeAssumption, ListFailsAssumption, ResultsAssumption
  <1>3. Spec => Pass!Spec
    BY GatewayRepublishes DEF PassRelies
  <1>4. Passes!NeverBlocked <=> Pass!NeverBlocked
    BY DEF Passes!NeverBlocked, Pass!NeverBlocked, Passes!Capacity, Pass!Capacity,
           Passes!Cardinality, Pass!Cardinality
  <1>5. Passes!FailuresHandled <=> Pass!FailuresHandled
    BY DEF Passes!FailuresHandled, Pass!FailuresHandled
  <1> QED BY <1>1, <1>2, <1>3, <1>4, <1>5, SamePass, PTL

\* Where page tokens stay what they were, when a pass of the gateway turns to its failures
\* it has put every record that was in the storage at its start. On Bolt requests may
\* change the token (Reuse), and then a pass may leave records out.
THEOREM GatewayPassCovers == ASSUME ~ Reuse PROVE Spec => []Pass!PassCovers
  <1>1. Passes!Spec => []Passes!PassCovers
    BY NoneCorrupt, Passes!PassPutsAll, PassAssumptions, BackendAssumption, ReuseAssumption,
       PageSizeAssumption, ListFailsAssumption, ResultsAssumption
  <1>2. Spec => Pass!Spec
    BY GatewayRepublishes DEF PassRelies
  <1>3. Passes!PassCovers <=> Pass!PassCovers
    BY DEF Passes!PassCovers, Pass!PassCovers
  <1> QED BY <1>1, <1>2, <1>3, SamePass, PTL

===============================================================================
