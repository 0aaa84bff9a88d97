----------------------------- MODULE Republisher -----------------------------
(***************************************************************************)
(* The scheduled republishing of impl/pkg/service/dht.go: a pass lists the  *)
(* storage page by page, puts every record of a page to the DHT from a      *)
(* goroutine of its own, waits for all of them, and in the end retries the  *)
(* records that failed and counts those that keep failing.  The storage is  *)
(* Bolt or Postgres (impl/pkg/storage/db).  Requests write to the storage   *)
(* while the pass runs, and the process may die at any point of it.         *)
(***************************************************************************)
EXTENDS Naturals, Sequences, FiniteSetsExt

CONSTANTS
    Ids,         \* ids, numbered in the order in which the storage lists them:
                 \* by key in Bolt, by the serial number of the row in Postgres
                 \* (an id has one row at most, and never another serial)
    Record,      \* what may be stored under an id
    None,        \* no record, no page token
    PageSize,    \* 1000 in the code
    Corrupt,     \* ids whose stored bytes no longer decode
    Backend,     \* "bolt" or "postgres"
    Reuse,       \* Bolt only: writes reuse the memory a page token points to
    PutResults,  \* how getput.Put may end: in an error, or with so many nodes that
                 \* were tried and so many that responded
    ListFails    \* a listing may fail for a reason of its own while fewer than
                 \* so many records have failed (bound)

MaxRetries == 3

ASSUME CorruptAssumption == Corrupt \subseteq Ids
ASSUME BackendAssumption == Backend \in {"bolt", "postgres"}
ASSUME ReuseAssumption == Reuse \in BOOLEAN /\ (Reuse => Backend = "bolt")
ASSUME IdsAssumption == Ids \subseteq Nat /\ IsFiniteSet(Ids)
ASSUME NoneAssumption == None \notin Ids \union Record
ASSUME PageSizeAssumption == PageSize \in Nat \ {0}
ASSUME ListFailsAssumption == ListFails \in Nat
ASSUME ResultsAssumption ==
    PutResults \subseteq [err : BOOLEAN, tried : Nat, responded : Nat]

VARIABLES
    db, dht,     \* shared with the request path
    failures,    \* storage: ids in the failed-records namespace; survives a restart
    pc,          \* where the pass is
    token,       \* nextPageToken
    freed,       \* a write has released the page of Bolt that token points into
    batch,       \* recordsBatch, by id
    worker,      \* the goroutine of each record of the batch
    chan,        \* failedRecordsChan
    failed,      \* failedRecords
    retry,       \* retryCount
    due,         \* history: ids stored when the pass began and not put since
    errored,     \* history: ids whose put was reported as failed in this pass
    unheard,     \* history: ids whose put announced nothing, and was not reported
    made,        \* history: ids put again with success in this pass, or counted
    relisted     \* history: a failing listing has sent this pass back to page one

pass == <<pc, token, freed, batch, worker, chan, failed, retry>>
history == <<due, errored, unheard, made, relisted>>
vars == <<db, dht, failures, pass, history>>

Off == [id \in Ids |-> "off"]
Empty == [id \in Ids |-> None]
Item == Ids \X Record

TypeOK ==
    /\ db \in [Ids -> Record \union {None}]
    /\ dht \in [Ids -> SUBSET Record]
    /\ failures \subseteq Ids
    /\ pc \in {"idle", "list", "batch", "retry", "count"}
    /\ token \in Ids \union {None}
    /\ freed \in BOOLEAN
    /\ batch \in [Ids -> Record \union {None}]
    /\ worker \in [Ids -> {"off", "put", "send", "done"}]
    /\ chan \in Seq(Item)
    /\ failed \in Seq(Item)
    /\ retry \in 0 .. MaxRetries
    /\ due \subseteq Ids /\ errored \subseteq Ids /\ unheard \subseteq Ids
    /\ made \subseteq Ids
    /\ relisted \in BOOLEAN

Init ==
    /\ db \in {d \in [Ids -> Record \union {None}] :
                 \A id \in Ids : d[id] # None <=> id \in Corrupt}
    /\ dht = [id \in Ids |-> {}]
    /\ failures = {}
    /\ pc = "idle" /\ token = None /\ freed = FALSE /\ batch = Empty /\ worker = Off
    /\ chan = <<>> /\ failed = <<>> /\ retry = 0
    /\ due = {} /\ errored = {} /\ unheard = {} /\ made = {} /\ relisted = FALSE

Stored == {id \in Ids : db[id] # None}

-------------------------------------------------------------------------------
(* republish: the scheduler runs one pass at a time (singleton mode). If the *)
(* records cannot be counted nothing else happens until the next one.       *)

Start ==
    /\ pc = "idle"
    /\ pc' = "list"
    /\ due' = Stored \ Corrupt /\ errored' = {} /\ unheard' = {} /\ made' = {}
    /\ relisted' = FALSE
    /\ UNCHANGED <<db, dht, failures, token, freed, batch, worker, chan, failed, retry>>

\* The first PageSize of these ids.
FirstOf(ids) == {id \in ids : Cardinality({j \in ids : j < id}) < PageSize}

\* Bolt's cursor.Seek: the key, or the next one if it is not there.
Seek(key) == {id \in Stored : id >= key /\ \A j \in Stored : j >= key => id <= j}

\* Variant: the cursor is not moved past the token.
PageFromToken == FirstOf({id \in Stored : token = None \/ \E k \in Seek(token) : id >= k})

\* Variant: the first listing steps over the first key as later ones must.
PageAfterFirst ==
    FirstOf({id \in Stored : \E k \in Seek(IF token = None THEN 0 ELSE token) : id > k})

\* PageSize ids at most, from the one that follows the token on.
Page == FirstOf({id \in Stored : token = None \/ \E k \in Seek(token) : id > k})

\* Variant: a full page is taken for the last one.
NextTokenUnlessFull(page) == IF Cardinality(page) < PageSize THEN Max(page) ELSE None

\* A full page leaves its last key as the token.
NextToken(page) == IF Cardinality(page) = PageSize THEN Max(page) ELSE None

\* One undecodable record fails a page of Bolt; Postgres leaves out the row.
Listable == Backend = "postgres" \/ Page \intersect Corrupt = {}

\* Variant: values are read where a later write may have reused their memory.
ListPageUnpinned ==
    /\ pc = "list"
    /\ Listable
    /\ LET good == Page \ Corrupt IN
       IF good = {}
       THEN pc' = "retry" /\ token' = None /\ UNCHANGED <<batch, worker>>
       ELSE /\ pc' = "batch"
            /\ token' = NextToken(Page)
            /\ \E rec \in Record :
                  batch' = [id \in Ids |-> IF id \in good THEN rec ELSE None]
            /\ worker' = [id \in Ids |-> IF id \in good THEN "put" ELSE "off"]
    /\ freed' = FALSE
    /\ UNCHANGED <<db, dht, failures, chan, failed, retry, history>>

\* A page without records ends the listing, even if it was full of rows that do
\* not decode; any other starts one goroutine per record.
ListPage ==
    /\ pc = "list"
    /\ Listable
    /\ LET good == Page \ Corrupt IN
       IF good = {}
       THEN pc' = "retry" /\ token' = None /\ UNCHANGED <<batch, worker>>
       ELSE /\ pc' = "batch"
            /\ token' = NextToken(Page)
            /\ batch' = [id \in Ids |-> IF id \in good THEN db[id] ELSE None]
            /\ worker' = [id \in Ids |-> IF id \in good THEN "put" ELSE "off"]
    /\ freed' = FALSE
    /\ UNCHANGED <<db, dht, failures, chan, failed, retry, history>>

\* The token comes back nil from an error, so the loop goes on at the first page.
ListError ==
    /\ pc = "list"
    /\ Len(failed) < ListFails \/ ~ Listable
    /\ token' = None /\ freed' = FALSE /\ relisted' = TRUE
    /\ UNCHANGED <<db, dht, failures, pc, batch, worker, chan, failed, retry,
                   due, errored, unheard, made>>

SuccessThreshold == 33    \* percent

\* isPutSuccessful returns nil for every error of getput.Put; only too few responses
\* make a put fail, and none of none is not too few: 0/0 is not below the threshold.
IsPutSuccessful(result) ==
    result.err \/ 100 * result.responded >= SuccessThreshold * result.tried

\* What a successful put ought to mean.
Announces(result) == ~ result.err /\ result.responded > 0 /\ IsPutSuccessful(result)

\* What a put does to the DHT: some node takes the record, or none does.
PutToDHT(id, rec, taken) ==
    dht' = IF taken THEN [dht EXCEPT ![id] = @ \union {rec}] ELSE dht

WorkerPut(id, result, taken) ==
    /\ worker[id] = "put"
    /\ PutToDHT(id, batch[id], taken)
    /\ worker' = [worker EXCEPT ![id] = IF IsPutSuccessful(result) THEN "done" ELSE "send"]
    /\ due' = due \ {id}
    /\ errored' = IF IsPutSuccessful(result) THEN errored ELSE errored \union {id}
    /\ unheard' = IF IsPutSuccessful(result) /\ ~ Announces(result)
                  THEN unheard \union {id} ELSE unheard
    /\ UNCHANGED <<db, failures, pc, token, freed, batch, chan, failed, retry, made, relisted>>

\* Variant: one slot short.
CapacityLessOne == Cardinality({id \in Ids : batch[id] # None}) - 1

\* The channel has room for every record of the batch: the receiver does not
\* look at it before all senders are gone.
Capacity == Cardinality({id \in Ids : batch[id] # None})

WorkerSend(id) ==
    /\ worker[id] = "send"
    /\ Len(chan) < Capacity
    /\ chan' = Append(chan, <<id, batch[id]>>)
    /\ worker' = [worker EXCEPT ![id] = "done"]
    /\ UNCHANGED <<db, dht, failures, pc, token, freed, batch, failed, retry, history>>

\* wg.Wait, close, drain, and on to the next page or to the failed records.
AllDone == \A id \in Ids : worker[id] \in {"off", "done"}

\* Variant: the channel is drained as soon as something is in it.
FinishBatchEarly ==
    /\ pc = "batch"
    /\ AllDone \/ chan # <<>>
    /\ failed' = failed \o chan
    /\ chan' = <<>> /\ batch' = Empty /\ worker' = Off
    /\ pc' = IF token = None THEN "retry" ELSE "list"
    /\ UNCHANGED <<db, dht, failures, token, freed, retry, history>>

FinishBatch ==
    /\ pc = "batch"
    /\ AllDone
    /\ failed' = failed \o chan
    /\ chan' = <<>> /\ batch' = Empty /\ worker' = Off
    /\ pc' = IF token = None THEN "retry" ELSE "list"
    /\ UNCHANGED <<db, dht, failures, token, freed, retry, history>>

-------------------------------------------------------------------------------
(* handleFailedRecords                                                      *)

\* Variant: one retry too many.
RetryPutAgain(result, taken) ==
    /\ pc = "retry" /\ failed # <<>>
    /\ LET id == Head(failed)[1]  ok == IsPutSuccessful(result) IN
       /\ PutToDHT(id, Head(failed)[2], taken)
       /\ failed' = IF ok THEN Tail(failed) ELSE failed
       /\ retry' = IF ok THEN 0 ELSE retry + 1
       /\ pc' = IF retry' > MaxRetries THEN "count" ELSE "retry"
       /\ made' = IF ok THEN made \union {id} ELSE made
    /\ UNCHANGED <<db, failures, token, freed, batch, worker, chan, due, errored,
                   unheard, relisted>>

\* One of up to three more puts of the first failed record.
RetryPut(result, taken) ==
    /\ pc = "retry" /\ failed # <<>>
    /\ LET id == Head(failed)[1]  ok == IsPutSuccessful(result) IN
       /\ PutToDHT(id, Head(failed)[2], taken)
       /\ failed' = IF ok THEN Tail(failed) ELSE failed
       /\ retry' = IF ok THEN 0 ELSE retry + 1
       /\ pc' = IF retry' = MaxRetries THEN "count" ELSE "retry"
       /\ made' = IF ok THEN made \union {id} ELSE made
    /\ UNCHANGED <<db, failures, token, freed, batch, worker, chan, due, errored,
                   unheard, relisted>>

\* WriteFailedRecord: the id joins the failed namespace (the count kept there is
\* never read by the service). If it fails, that is logged and the record is
\* dropped all the same.
CountFailure(written) ==
    /\ pc = "count"
    /\ LET id == Head(failed)[1] IN
       /\ failures' = IF written THEN failures \union {id} ELSE failures
       /\ made' = made \union {id}
    /\ failed' = Tail(failed) /\ retry' = 0 /\ pc' = "retry"
    /\ UNCHANGED <<db, dht, token, freed, batch, worker, chan, due, errored,
                   unheard, relisted>>

Finish ==
    /\ pc = "retry" /\ failed = <<>>
    /\ pc' = "idle"
    /\ UNCHANGED <<db, dht, failures, token, freed, batch, worker, chan, failed, retry, history>>

-------------------------------------------------------------------------------
(* The environment: requests, the DHT, and the death of the process         *)

\* Bolt replaces a record; Postgres refuses a second row of a key. The token of
\* Bolt is a slice of the page it was listed from: one write may release that
\* page, and the next one put other bytes there.
WriteRecord(id, rec) ==
    /\ Backend = "postgres" => db[id] = None
    /\ db' = [db EXCEPT ![id] = rec]
    /\ freed' = (Reuse /\ token # None)
    /\ token' \in {token} \union {t \in Ids : freed}
    /\ UNCHANGED <<dht, failures, pc, batch, worker, chan, failed, retry, history>>

\* Requests, and whoever else knows the id, put records of it too.
OtherPut(id, rec) ==
    /\ dht' = [dht EXCEPT ![id] = @ \union {rec}]
    /\ UNCHANGED <<db, failures, pass, history>>

DhtForget(id, rec) ==
    /\ rec \in dht[id]
    /\ dht' = [dht EXCEPT ![id] = @ \ {rec}]
    /\ UNCHANGED <<db, failures, pass, history>>

Restart ==
    /\ pc' = "idle" /\ token' = None /\ freed' = FALSE /\ batch' = Empty /\ worker' = Off
    /\ chan' = <<>> /\ failed' = <<>> /\ retry' = 0
    /\ due' = {} /\ errored' = {} /\ unheard' = {} /\ made' = {} /\ relisted' = FALSE
    /\ UNCHANGED <<db, dht, failures>>

RepublishNext ==
    \/ Start
    \/ ListPage
    \/ ListError
    \/ \E id \in Ids :
          \/ \E result \in PutResults, taken \in BOOLEAN : WorkerPut(id, result, taken)
          \/ WorkerSend(id)
    \/ FinishBatch
    \/ \E result \in PutResults, taken \in BOOLEAN : RetryPut(result, taken)
    \/ \E written \in BOOLEAN : CountFailure(written)
    \/ Finish

EnvNext ==
    \/ \E id \in Ids \ Corrupt, rec \in Record : WriteRecord(id, rec)
    \/ \E id \in Ids \ Corrupt, rec \in Record : OtherPut(id, rec) \/ DhtForget(id, rec)

Next == RepublishNext \/ EnvNext \/ Restart

Spec == Init /\ [][Next]_vars

\* Goroutines are scheduled and the cron job fires again and again; the process
\* does not die for ever; no page whose records decode fails each time it is listed.
Fairness ==
    /\ WF_vars(RepublishNext)
    /\ <>[][RepublishNext \/ EnvNext]_vars
    /\ \A t \in Ids \union {None} : SF_vars(token = t /\ ListPage)

LiveSpec == Spec /\ Fairness

-------------------------------------------------------------------------------
(* What republishing promises                                               *)

\* When a pass turns to its failed records it has put every record that was in
\* the storage when it began, whatever was written meanwhile and however often
\* a failing listing sent it back to the first page.
PassCovers == pc \in {"retry", "count", "idle"} => due = {}

\* At the end of a pass every record whose put was reported as failed has been put
\* again with a report of success, or been given up after three retries; none fell
\* between goroutine, channel, batch and list. It says nothing of puts that
\* isPutSuccessful takes for successes: AllFailuresHandled does.
FailuresHandled == pc = "idle" => errored \subseteq made

\* At the end of a pass every record whose put ended in an error, or reached no node,
\* has been put again or counted: republishRecords promises "a list of failed records
\* to be retried", and its goroutines look for a put that timed out.
AllFailuresHandled == pc = "idle" => errored \union unheard \subseteq made

\* Unless a listing failed, a record is on the failed list at most once, so that
\* one pass retries it three times and counts it once.
FailedOnce ==
    relisted \/ \A i, j \in DOMAIN failed : failed[i][1] = failed[j][1] => i = j

\* A goroutine about to report its failure finds room in the channel, whatever the
\* others have done: nobody empties it before all are gone, so that one of them
\* waiting for room would wait for ever, and the pass for it.
NeverBlocked == \A id \in Ids : worker[id] = "send" => Len(chan) < Capacity

\* A pass ends: no goroutine is stuck on the channel while the pass waits for it.
PassEnds == pc # "idle" ~> pc = "idle"

===============================================================================
