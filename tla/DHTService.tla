------------------------------ MODULE DHTService ------------------------------
(***************************************************************************)
(* The request path of a did:dht gateway: PublishDHT and GetDHT of         *)
(* impl/pkg/service/dht.go.  Many HTTP requests run at once, each in a      *)
(* goroutine of its own, over four pieces of shared state: the storage, the *)
(* response cache, the cache of ids that recently failed to resolve, and    *)
(* the Mainline DHT.  A request is a sequence of calls on them and nothing  *)
(* is held between two calls, so one action below is one such call together *)
(* with the local code up to the next.                                      *)
(***************************************************************************)
EXTENDS Integers

CONSTANTS
    Ids,        \* identity keys, in the spelling the gateway gives them
    Urls,       \* spellings in the paths of requests: 52 characters of z-base-32 have
                \* four bits more than a key, which decoding ignores
    Key,        \* the key that a spelling decodes to
    Foreign,    \* those whose records are also put to the DHT by others
    Seqs,       \* sequence numbers (int64 in the code)
    Values,     \* payloads that are bencoded byte strings
    Opaque,     \* a payload of any other bencoded type; only others put it
    None,       \* no record
    Putters,    \* PUT requests served at a time (bound)
    Getters,    \* GET requests served at a time (bound)
    Workers,    \* asynchronous dht.Put goroutines alive at a time (bound)
    Bolt,       \* the storage is Bolt; otherwise it is Postgres
    Faults      \* the calls that may fail: subset of {"write", "read", "set"}

Record == [seq : Seqs, v : Values]
DhtRecord == [seq : Seqs, v : Values \union {Opaque}]

ASSUME KeyAssumption ==
    Ids \subseteq Urls /\ Key \in [Urls -> Ids] /\ \A id \in Ids : Key[id] = id
ASSUME ForeignAssumption == Foreign \subseteq Ids
ASSUME NoneAssumption == None \notin DhtRecord /\ None \notin Ids
ASSUME SeqsAssumption == Seqs \subseteq Int
ASSUME BoltAssumption == Bolt \in BOOLEAN

VARIABLES
    db,         \* storage: the record under each id; survives a restart
    cache,      \* s.cache: the response under each id as it was spelled
    badGet,     \* s.badGetCache: spellings whose last resolution found nothing
    dht,        \* the records some DHT node holds for each id
    put,        \* the PUT requests
    get,        \* the GET requests
    async,      \* the goroutines that PublishDHT leaves behind
    stored,     \* history: every record ever written to the storage
    acked       \* history: every record a PUT was answered 200 for

vars == <<db, cache, badGet, dht, put, get, async, stored, acked>>

PutPC == {"checkCache", "write", "set", "acked", "failed", "refused"}
GetPC == {"checkBad", "checkCache", "lookup", "read", "fillFromDHT", "fillFromDB",
          "miss", "found", "notFound", "failed", "limited"}

\* The slot of a request may serve another once it has been answered.
Answered == {"acked", "refused", "found", "notFound", "limited", "failed"}
Free(pc) == pc \in Answered \union {"idle"}

\* A request has the id as its path spells it, and the key that this decodes to.
NoPut == [pc |-> "idle", url |-> None, id |-> None, rec |-> None]
NoGet == [pc |-> "idle", url |-> None, id |-> None, rec |-> None, known |-> {}]

PutState ==
    {s \in [pc : PutPC, url : Urls, id : Ids, rec : Record] : s.id = Key[s.url]}
        \union {NoPut}
GetState ==
    {s \in [pc : GetPC, url : Urls, id : Ids, rec : Record \union {None},
            known : SUBSET Record] : s.id = Key[s.url]}
        \union {NoGet}

TypeOK ==
    /\ db \in [Ids -> Record \union {None}]
    /\ cache \in [Urls -> Record \union {None}]
    /\ badGet \subseteq Urls
    /\ dht \in [Ids -> SUBSET DhtRecord]
    /\ put \in [Putters -> PutState]
    /\ get \in [Getters -> GetState]
    /\ async \in [Workers -> (Ids \X Record) \union {None}]
    /\ stored \in [Ids -> SUBSET Record]
    /\ acked \in [Ids -> SUBSET Record]

Init ==
    /\ db = [id \in Ids |-> None]
    /\ cache = [url \in Urls |-> None]
    /\ badGet = {}
    /\ dht = [id \in Ids |-> {}]
    /\ put = [p \in Putters |-> NoPut]
    /\ get = [g \in Getters |-> NoGet]
    /\ async = [w \in Workers |-> None]
    /\ stored = [id \in Ids |-> {}]
    /\ acked = [id \in Ids |-> {}]

-------------------------------------------------------------------------------
(* PublishDHT                                                               *)

PutTo(p, pc) == put' = [put EXCEPT ![p].pc = pc]

\* The request arrives; a key that does not decode or a record whose signature
\* does not verify is refused before any shared state is touched.
StartPut(p, url, rec, valid) ==
    /\ Free(put[p].pc)
    /\ put' = [put EXCEPT ![p] =
                [pc |-> IF valid THEN "checkCache" ELSE "refused",
                 url |-> url, id |-> Key[url], rec |-> rec]]
    /\ UNCHANGED <<db, cache, badGet, dht, get, async, stored, acked>>

\* BEP44Response.Equals: sequence number, value and signature all agree.
Equals(r, other) == r = other

\* Variant: the response is cached before the storage has the record.
CheckPutCacheFilling(p) ==
    LET url == put[p].url  id == put[p].id  rec == put[p].rec IN
    /\ put[p].pc = "checkCache"
    /\ cache' = [cache EXCEPT ![url] = rec]
    /\ PutTo(p, IF Equals(cache[url], rec) THEN "acked" ELSE "write")
    /\ acked' = IF Equals(cache[url], rec)
                THEN [acked EXCEPT ![id] = @ \union {rec}] ELSE acked
    /\ UNCHANGED <<db, badGet, dht, get, async, stored>>

\* A cached response equal to the request's answers it; nothing is written.
CheckPutCache(p) ==
    LET url == put[p].url  id == put[p].id  rec == put[p].rec IN
    /\ put[p].pc = "checkCache"
    /\ IF Equals(cache[url], rec)
       THEN /\ PutTo(p, "acked")
            /\ acked' = [acked EXCEPT ![id] = @ \union {rec}]
       ELSE /\ PutTo(p, "write")
            /\ UNCHANGED acked
    /\ UNCHANGED <<db, cache, badGet, dht, get, async, stored>>

\* Bolt puts under the key whatever was there; Postgres inserts, and the
\* UNIQUE key makes a second record of an id an error.
CanWrite(id) == Bolt \/ db[id] = None

Hold(id, rec) ==
    /\ db' = [db EXCEPT ![id] = rec]
    /\ stored' = [stored EXCEPT ![id] = @ \union {rec}]

\* Variant: the storage's error is dropped.
WriteRecordRegardless(p) ==
    LET id == put[p].id  rec == put[p].rec IN
    /\ put[p].pc = "write"
    /\ PutTo(p, "set")
    /\ \/ CanWrite(id) /\ Hold(id, rec)
       \/ "write" \in Faults /\ UNCHANGED <<db, stored>>
    /\ UNCHANGED <<cache, badGet, dht, get, async, acked>>

WriteRecord(p) ==
    LET id == put[p].id  rec == put[p].rec IN
    /\ put[p].pc = "write"
    /\ \/ /\ CanWrite(id)
          /\ db' = [db EXCEPT ![id] = rec]
          /\ stored' = [stored EXCEPT ![id] = @ \union {rec}]
          /\ PutTo(p, "set")
       \/ /\ "write" \in Faults \/ ~ CanWrite(id)
          /\ PutTo(p, "failed")
          /\ UNCHANGED <<db, stored>>
       \/ /\ "write" \in Faults /\ CanWrite(id)    \* done, but the reply was lost
          /\ Hold(id, rec)
          /\ PutTo(p, "failed")
    /\ UNCHANGED <<cache, badGet, dht, get, async, acked>>

\* cache.Set, the goroutine and the return. If the cache refuses the entry the
\* client gets an error and the DHT put is never started, yet the record stays
\* in the storage.
SetCache(p) ==
    LET url == put[p].url  id == put[p].id  rec == put[p].rec IN
    /\ put[p].pc = "set"
    /\ \/ \E w \in Workers :
             /\ async[w] = None
             /\ async' = [async EXCEPT ![w] = <<id, rec>>]
             /\ cache' = [cache EXCEPT ![url] = rec]
             /\ acked' = [acked EXCEPT ![id] = @ \union {rec}]
             /\ PutTo(p, "acked")
       \/ /\ "set" \in Faults
          /\ PutTo(p, "failed")
          /\ UNCHANGED <<async, cache, acked>>
    /\ UNCHANGED <<db, badGet, dht, get, stored>>

\* The goroutine's dht.Put: some node may have taken the record or none, and
\* whatever the outcome is, it is only logged.
AsyncPut(w, taken) ==
    /\ async[w] # None
    /\ async' = [async EXCEPT ![w] = None]
    /\ dht' = IF taken
              THEN [dht EXCEPT ![async[w][1]] = @ \union {async[w][2]}]
              ELSE dht
    /\ UNCHANGED <<db, cache, badGet, put, get, stored, acked>>

-------------------------------------------------------------------------------
(* GetDHT                                                                   *)

GetTo(g, pc) == get' = [get EXCEPT ![g].pc = pc]

Resolve(g, pc, rec) == get' = [get EXCEPT ![g].pc = pc, ![g].rec = rec]

\* "known" is history: the records acknowledged for the id before the GET came.
StartGet(g, url) ==
    /\ Free(get[g].pc)
    /\ get' = [get EXCEPT ![g] = [pc |-> "checkBad", url |-> url, id |-> Key[url],
                                  rec |-> None, known |-> acked[Key[url]]]]
    /\ UNCHANGED <<db, cache, badGet, dht, put, async, stored, acked>>

\* Variant: an id in the bad-get cache is answered as not found.
CheckBadGetAsMissing(g) ==
    /\ get[g].pc = "checkBad"
    /\ GetTo(g, IF get[g].url \in badGet THEN "notFound" ELSE "checkCache")
    /\ UNCHANGED <<db, cache, badGet, dht, put, async, stored, acked>>

CheckBadGet(g) ==
    /\ get[g].pc = "checkBad"
    /\ GetTo(g, IF get[g].url \in badGet THEN "limited" ELSE "checkCache")
    /\ UNCHANGED <<db, cache, badGet, dht, put, async, stored, acked>>

CheckGetCache(g) ==
    LET url == get[g].url IN
    /\ get[g].pc = "checkCache"
    /\ IF cache[url] # None
       THEN Resolve(g, "found", cache[url])
       ELSE GetTo(g, "lookup")
    /\ UNCHANGED <<db, cache, badGet, dht, put, async, stored, acked>>

\* Variant: the payload's type is not looked at.
LookupAnyPayload(g) ==
    /\ get[g].pc = "lookup"
    /\ \/ \E r \in dht[get[g].id] :
             Resolve(g, "fillFromDHT", r)
       \/ GetTo(g, "read")
    /\ UNCHANGED <<db, cache, badGet, dht, put, async, stored, acked>>

\* Variant: no fallback to the storage.
LookupOnly(g) ==
    /\ get[g].pc = "lookup"
    /\ \/ \E r \in dht[get[g].id] :
             Resolve(g, "fillFromDHT", r)
       \/ GetTo(g, "miss")
    /\ UNCHANGED <<db, cache, badGet, dht, put, async, stored, acked>>

\* The 10 second DHT lookup: a record held by some node that answered, or an
\* error because none did in time. A payload that is not a byte string is an
\* error of the request, with no fallback.
Lookup(g) ==
    /\ get[g].pc = "lookup"
    /\ \/ \E r \in dht[get[g].id] :
             IF r \in Record
             THEN Resolve(g, "fillFromDHT", r)
             ELSE GetTo(g, "failed")
       \/ GetTo(g, "read")
    /\ UNCHANGED <<db, cache, badGet, dht, put, async, stored, acked>>

\* Bolt keeps a record under the id that its key encodes to, and reads by the id as
\* spelled; Postgres decodes it first.
Readable(url) == Bolt => url \in Ids

\* The fallback. An error and a missing record take the same branch.
ReadRecord(g) ==
    LET rec == IF Readable(get[g].url) THEN db[get[g].id] ELSE None IN
    /\ get[g].pc = "read"
    /\ \/ /\ rec # None
          /\ Resolve(g, "fillFromDB", rec)
       \/ /\ "read" \in Faults \/ rec = None
          /\ GetTo(g, "miss")
    /\ UNCHANGED <<db, cache, badGet, dht, put, async, stored, acked>>

\* badGetCache.Set, whose result replaces the storage's error: the handler
\* sees (nil, nil), a 404, unless the Set itself failed.
Miss(g) ==
    /\ get[g].pc = "miss"
    /\ \/ /\ badGet' = badGet \union {get[g].url}
          /\ GetTo(g, "notFound")
       \/ /\ "set" \in Faults
          /\ GetTo(g, "failed")
          /\ UNCHANGED badGet
    /\ UNCHANGED <<db, cache, dht, put, async, stored, acked>>

\* addRecordToCache: an unconditional Set, however old the record in hand is.
AddRecordToCache(g) == cache' = [cache EXCEPT ![get[g].url] = get[g].rec]

\* After a DHT answer a failing Set is logged; after the storage's answer it
\* is returned beside the record, which the handler turns into a 500.
FillFromDHT(g) ==
    /\ get[g].pc = "fillFromDHT"
    /\ GetTo(g, "found")
    /\ \/ AddRecordToCache(g)
       \/ "set" \in Faults /\ UNCHANGED cache
    /\ UNCHANGED <<db, badGet, dht, put, async, stored, acked>>

FillFromDB(g) ==
    /\ get[g].pc = "fillFromDB"
    /\ \/ AddRecordToCache(g) /\ GetTo(g, "found")
       \/ "set" \in Faults /\ UNCHANGED cache /\ GetTo(g, "failed")
    /\ UNCHANGED <<db, badGet, dht, put, async, stored, acked>>

-------------------------------------------------------------------------------
(* The environment                                                          *)

\* Another gateway, or the DID's controller, puts a record to the DHT.
ExternalPut(id, rec) ==
    /\ rec \notin dht[id]
    /\ dht' = [dht EXCEPT ![id] = @ \union {rec}]
    /\ UNCHANGED <<db, cache, badGet, put, get, async, stored, acked>>

\* The republisher puts a record it once listed; see Republisher and Gateway.
RepublishPut(id, rec) ==
    /\ rec \in stored[id]
    /\ dht' = [dht EXCEPT ![id] = @ \union {rec}]
    /\ UNCHANGED <<db, cache, badGet, put, get, async, stored, acked>>

\* The last node that held a record drops it, leaves, or takes a newer one.
DhtForget(id, rec) ==
    /\ rec \in dht[id]
    /\ dht' = [dht EXCEPT ![id] = @ \ {rec}]
    /\ UNCHANGED <<db, cache, badGet, put, get, async, stored, acked>>

\* An entry's life window ends, or newer entries push it out of a full cache.
CacheEvict(url) ==
    /\ cache[url] # None
    /\ cache' = [cache EXCEPT ![url] = None]
    /\ UNCHANGED <<db, badGet, dht, put, get, async, stored, acked>>

BadGetExpire(url) ==
    /\ url \in badGet
    /\ badGet' = badGet \ {url}
    /\ UNCHANGED <<db, cache, dht, put, get, async, stored, acked>>

\* The process dies and comes back: requests and goroutines vanish wherever
\* they were, both caches are empty, the storage and the DHT remain.
Restart ==
    /\ cache' = [url \in Urls |-> None]
    /\ badGet' = {}
    /\ put' = [p \in Putters |-> NoPut]
    /\ get' = [g \in Getters |-> NoGet]
    /\ async' = [w \in Workers |-> None]
    /\ UNCHANGED <<db, dht, stored, acked>>

-------------------------------------------------------------------------------
PutNext ==
    \E p \in Putters :
        \/ \E url \in Urls, rec \in Record, valid \in BOOLEAN :
               StartPut(p, url, rec, valid)
        \/ CheckPutCache(p)
        \/ WriteRecord(p)
        \/ SetCache(p)

GetNext ==
    \E g \in Getters :
        \/ \E url \in Urls : StartGet(g, url)
        \/ CheckBadGet(g)
        \/ CheckGetCache(g)
        \/ Lookup(g)
        \/ ReadRecord(g)
        \/ Miss(g)
        \/ FillFromDHT(g)
        \/ FillFromDB(g)

EnvNext ==
    \/ \E w \in Workers, taken \in BOOLEAN : AsyncPut(w, taken)
    \/ \E id \in Foreign, rec \in DhtRecord : ExternalPut(id, rec)
    \/ \E id \in Ids, rec \in Record : RepublishPut(id, rec)
    \/ \E id \in Ids, rec \in DhtRecord : DhtForget(id, rec)
    \/ \E url \in Urls : CacheEvict(url)
    \/ \E url \in Urls : BadGetExpire(url)
    \/ Restart

Next == PutNext \/ GetNext \/ EnvNext

Spec == Init /\ [][Next]_vars

-------------------------------------------------------------------------------
(* What the gateway promises                                                *)

\* Ids whose records reach the DHT through this gateway only.
Native == Ids \ Foreign

\* PUT answers 200 only for a record that was in the storage at some time, so
\* that the republisher can announce it even if the asynchronous put is lost.
\* Every path to an answer matters, the shortcut through the cache included:
\* a cached response must come from a write, or from a DHT answer that does.
AckedIsStored == \A id \in Native : acked[id] \subseteq stored[id]

\* Every record GET answers with was once written by a PUT, whether it came
\* from the cache, from the DHT or from the storage, across restarts too.
ServedIsStored ==
    \A g \in Getters :
        get[g].pc = "found" /\ get[g].id \in Native
            => get[g].rec \in stored[get[g].id]

\* While the storage can be read, GET never answers 404 for an id whose PUT was
\* acknowledged before the GET arrived: not after a restart, an eviction, a
\* lost asynchronous put or a DHT that forgot the record. On Bolt only a GET that
\* spells the id as the gateway does can count on it.
NotFoundMeansUnpublished ==
    \A g \in Getters :
        get[g].pc = "notFound" /\ get[g].id \in Native /\ Readable(get[g].url)
            => get[g].known = {}

\* The client's view of a request: open while the code is at work on it.
Phase(pc) ==
    IF pc \in {"idle", "acked", "found", "notFound"} THEN pc
    ELSE IF pc \in {"failed", "refused", "limited"} THEN "error"
    ELSE "open"

PutView == [p \in Putters |->
    [phase |-> Phase(put[p].pc), url |-> put[p].url, id |-> put[p].id, rec |-> put[p].rec]]

GetView == [g \in Getters |->
    [phase |-> Phase(get[g].pc), url |-> get[g].url, id |-> get[g].id,
     known |-> get[g].known,
     rec |-> IF get[g].pc = "found" THEN get[g].rec ELSE None]]

Abstract == INSTANCE GatewayContract
    WITH Promised <- Native, Sure <- {url \in Urls : Readable(url)},
         held <- stored, puts <- PutView, gets <- GetView

\* The service implements the client's contract: each of its steps is a step of
\* GatewayContract or changes nothing a client could see.
Contract == Abstract!Spec

===============================================================================
