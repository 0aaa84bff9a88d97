------------------------------- MODULE Gateway -------------------------------
(***************************************************************************)
(* The whole gateway process: the request path (DHTService) and the         *)
(* scheduled republisher (Republisher) over one storage and one DHT.  Each  *)
(* of the two was specified with an environment that stands for the other:  *)
(* here they meet, and keep what each assumed of its environment.           *)
(***************************************************************************)
EXTENDS Integers, FiniteSets

CONSTANTS
    Ids, Urls, Key, Foreign, Seqs, Values, Opaque, None, Putters, Getters, Workers,
    Faults,                                          \* as in DHTService
    Backend, Reuse, PageSize, PutResults, ListFails  \* as in Republisher

VARIABLES
    db, dht,                                              \* shared
    cache, badGet, put, get, async, stored, acked,        \* DHTService
    failures, pc, token, freed, batch, worker, chan, failed, retry,
    due, errored, unheard, made, relisted                 \* Republisher

Service == INSTANCE DHTService WITH Bolt <- Backend = "bolt"

Pass == INSTANCE Republisher WITH Record <- Service!DhtRecord, Corrupt <- {}

ASSUME KeyAssumption ==
    Ids \subseteq Urls /\ Key \in [Urls -> Ids] /\ \A id \in Ids : Key[id] = id
ASSUME ForeignAssumption == Foreign \subseteq Ids
ASSUME IdsAssumption == Ids \subseteq Nat /\ IsFiniteSet(Ids)
ASSUME SeqsAssumption == Seqs \subseteq Int
ASSUME NoneAssumption == None \notin Ids \union Service!DhtRecord
ASSUME BackendAssumption == Backend \in {"bolt", "postgres"}
ASSUME ReuseAssumption == Reuse \in BOOLEAN /\ (Reuse => Backend = "bolt")
ASSUME PageSizeAssumption == PageSize \in Nat \ {0}
ASSUME ListFailsAssumption == ListFails \in Nat
ASSUME ResultsAssumption ==
    PutResults \subseteq [err : BOOLEAN, tried : Nat, responded : Nat]

serviceOnly == <<cache, badGet, put, get, async, stored, acked>>
passOnly == <<failures, pc, token, freed, batch, worker, chan, failed, retry,
              due, errored, unheard, made, relisted>>
vars == <<db, dht, serviceOnly, passOnly>>

Init == Service!Init /\ Pass!Init

\* A step of some request, or of a goroutine a request left behind. One that writes to
\* the storage is the write a pass has to expect: on Bolt it may release the memory
\* that the page token points to, or put other bytes there.
RequestStep ==
    \/ /\ \/ Service!PutNext
          \/ Service!GetNext
          \/ \E w \in Workers, taken \in BOOLEAN : Service!AsyncPut(w, taken)
       /\ UNCHANGED <<db, passOnly>>
    \/ \E p \in Putters :
          Service!WriteRecord(p) /\ Pass!WriteRecord(put[p].id, put[p].rec)

\* Variant: without singleton mode the next tick starts over a pass under way.
PassStepOverlapping ==
    /\ \/ Pass!RepublishNext
       \/ /\ pc # "idle"
          /\ pc' = "list" /\ token' = None
          /\ UNCHANGED <<db, dht, failures, freed, batch, worker, chan, failed, retry,
                         due, errored, unheard, made, relisted>>
    /\ UNCHANGED serviceOnly

\* A step of the scheduled job or of one of its goroutines.
PassStep == Pass!RepublishNext /\ UNCHANGED serviceOnly

\* Time passes for the caches, and the DHT goes its own ways.
Outside ==
    /\ \/ \E url \in Urls : Service!CacheEvict(url) \/ Service!BadGetExpire(url)
       \/ \E id \in Foreign, rec \in Service!DhtRecord : Service!ExternalPut(id, rec)
       \/ \E id \in Ids, rec \in Service!DhtRecord : Service!DhtForget(id, rec)
    /\ UNCHANGED passOnly

\* Variant: a crash loses what the storage had not synced.
CrashLosingWrites ==
    /\ db' = [id \in Ids |-> None]
    /\ dht' = dht /\ cache' = [url \in Urls |-> None] /\ badGet' = {}
    /\ put' = [p \in Putters |-> Service!NoPut]
    /\ get' = [g \in Getters |-> Service!NoGet]
    /\ async' = [w \in Workers |-> None]
    /\ UNCHANGED <<stored, acked, passOnly>>

\* One process holds both: they die together.
Crash == Service!Restart /\ Pass!Restart

Running == RequestStep \/ PassStep \/ Outside

Next == Running \/ Crash

Spec == Init /\ [][Next]_vars

\* A put of a batch that enough nodes answer, and some node takes.
AnnouncePut(id) ==
    /\ \E result \in PutResults : Pass!Announces(result) /\ Pass!WorkerPut(id, result, TRUE)
    /\ UNCHANGED serviceOnly

\* As in Republisher: the scheduled job gets its turns, the process does not die
\* for ever, no page fails whenever it is listed, and the DHT is not down at
\* every turn of a record. Nothing is assumed of requests or of the goroutines
\* they leave.
Fairness ==
    /\ WF_vars(PassStep)
    /\ <>[][Running]_vars
    /\ \A t \in Ids \union {None} :
          SF_vars(token = t /\ Pass!ListPage /\ UNCHANGED serviceOnly)
    /\ \A id \in Ids : SF_vars(AnnouncePut(id))

LiveSpec == Spec /\ Fairness

-------------------------------------------------------------------------------
\* Seen from the request path, the republisher is the environment DHTService
\* allows: it puts to the DHT nothing but records that were once stored, however
\* long a batch waits while requests overwrite the storage. What holds of
\* DHTService's behaviours therefore holds of the gateway's.
ServiceRelies == Service!Spec

\* Seen from the republisher, requests only write to the storage and put to the
\* DHT, and a crash takes the pass with it.
PassRelies == Pass!Spec

\* A record acknowledged to a client and still in the storage reaches the DHT,
\* or is replaced first: also when the process dies before the asynchronous
\* put, when that put is lost, and when the client's retry was answered from
\* the cache without a put of its own.
AckedReachesDHT ==
    \A id \in Ids, rec \in Service!Record :
        rec \in acked[id] /\ db[id] = rec ~> rec \in dht[id] \/ db[id] # rec

===============================================================================
