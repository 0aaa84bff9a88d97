# A verification project for the did:dht gateway

This directory holds TLA+ specifications of the gateway in `impl/`, the TLC
configurations that check them on small instances, and proofs that TLAPS checks
for instances of any size. Paths below are relative to the repository.

A gateway stores signed DNS packets under the z-base-32 form of an Ed25519 key
(an *id*), answers `PUT /:id` and `GET /:id`, announces what it stores to the
Mainline DHT, and announces it again on a schedule.

## 1. Inventory

| Component | State | Operations | Talks to |
|---|---|---|---|
| HTTP API (`pkg/server/dht.go`, `server.go`) | none | `PutRecord`, `GetRecord`: parse, call the service, turn its result into a status | request path |
| Request path (`pkg/service/dht.go`) | response cache, bad-get cache (bigcache, TTL), one goroutine per PUT still putting to the DHT | `PublishDHT`, `GetDHT`, `addRecordToCache` | storage, DHT |
| Republisher (same file) | page token, batch, one goroutine per record, channel, wait group, failed records | `republish`, `republishRecords`, `republishBatch`, `handleFailedRecords` | storage, DHT, scheduler |
| Scheduler (`internal/dht/scheduler.go`) | one cron job in singleton mode | `Schedule`, `Start`, `Stop` | republisher |
| Storage (`pkg/storage`) | records by key, failure counts by id | Bolt: upsert, cursor paging. Postgres: insert under a UNIQUE key, keyset paging, a connection per call | disk, database |
| DHT client (`pkg/dht/dht.go`) | the node's routing table (library) | `Put`, `isPutSuccessful`, `GetFull` | DHT nodes |
| Records (`pkg/dht/record.go`) | none | `IsValid` (signature), `Equals`, conversions | all of the above |
| DID documents (`internal/did/did.go`) | none | `CreateDIDDHTDID`, `ToDNSPacket`, `FromDNSPacket`, previous DIDs | DNS packing (`pkg/dht/dns.go`) |
| CLI (`cmd/cli`, `internal/cli/store.go`) | a JSON file of identities; a UDP port while a command runs | `id add`, `id get`, `id` | DHT, file |
| Client (`internal/did/client.go`) | none | one HTTP call each | gateway |
| Configuration (`config`, `pkg/storage/storage.go`) | none | `LoadConfig`, `NewStorage`: environment, `.env`, TOML file, built-in settings | process |
| Process (`cmd/main.go`, `pkg/server/server.go`) | configuration, UDP port, storage, listener, a channel of signals | `run`: load, start, wait for a signal or an error, shut down under a deadline | all |

What is hard about it:

* **Concurrency.** Requests run in goroutines of their own and hold no lock from
  one call to the next; a PUT leaves a goroutine behind. The republisher runs
  a goroutine per record while requests write to the storage it lists.
* **Several copies of a record** in storage, cache, DHT and in the hands of
  requests, and a negative cache beside them.
* **Failure.** Any call may fail, a write may be done though its reply is
  lost, the DHT forgets, and the process may die anywhere; only the storage and
  what DHT nodes hold survive. Nothing closes the service on shutdown
  (`Close` has no caller), so a shutdown is no different from a crash.
* **Time.** A lookup may take ten seconds, the server gives an answer ten seconds, the
  shutdown gives requests five.
* **One port.** Gateways and commands of a host all bind UDP port 6881, and this is the
  only thing that keeps two commands from rewriting one file at a time.
* **Ordering.** Versions of one id race through storage, cache and DHT.
* **Memory.** Bolt hands out slices of its memory map; they are used after the
  transaction that makes them valid.
* **Formats.** A document is cut into text records by rules that the reader has to
  undo, from packets that other programs may have written.
* **Paging** under writes, with failures that restart a listing.

What makes each part correct: a PUT answered 200 is stored (request path); a GET
serves only what a PUT stored, and says 404 only for what was not published;
a pass covers the storage, loses no put that was reported as failed, and ends (republisher); together, an acknowledged record gets to the DHT;
a gateway serves with the storage and the schedule it was asked to have, ends on a signal,
and exits with status 0 only if it answered everybody (process); an identity that was
added is not lost (CLI); and
a packet of simple texts reads back as its document, and no key gains a purpose if the names of keys
have no separators (DID documents).
`PROJECT.json` lists the hazards one by one, each at its line.

## 2. Modules

| Module | What it is |
|---|---|
| `GatewayContract` | Abstract: what a client can rely on. No cache, no DHT, no storage. |
| `DHTService` | The request path, one action per call on shared state. Implements `GatewayContract`. |
| `Republisher` | A scheduled pass over the listing of Bolt or Postgres. |
| `Gateway` | Both over one storage and one DHT, in one process. |
| `Config` | What the gateway runs with, as operators: sources of settings and their precedence. |
| `Server` | A gateway process from its start to its end, with time, and its requests. |
| `Cli` | The commands as processes over the file of identities. |
| `DidPacket` | DID documents, written as DNS records and read back. |
| `DHTServiceProofs`, `RepublisherProofs`, `GatewayProofs`, `ServerProofs`, `CliProofs`, `DidPacketProofs` | Theorems about these modules. |
| `FlattenProofs` | What `FlattenSeq` computes for every input: the lemmas `DidPacketProofs` needs about lists put together from lists. |
| `MCDHTService`, `MCRepublisher`, `MCGateway`, `MCServer`, `MCDidPacket` | Values for TLC. |

### DHTService

`put` and `get` are the HTTP requests in progress: a slot holds where its
request is (`pc`), its id as the path spells it (`url`) and decoded (`id`), and the record in hand. A slot whose request has been
answered may serve the next. Each action is one call on shared state (a cache,
the storage, the DHT) with the local code up to the next call, because this is
the unit at which goroutines interleave:

| Action | Code |
|---|---|
| `StartPut`, `StartGet` | the handler up to its first call; invalid keys and signatures are refused here |
| `CheckPutCache` | the comparison with the cached response that may answer a PUT at once |
| `WriteRecord` | `db.WriteRecord`: done, failed, or done with the reply lost |
| `SetCache` | `cache.Set`, `go func()`, return; if the set fails, an error and no goroutine |
| `AsyncPut` | the goroutine's `dht.Put`; its result is only logged |
| `CheckBadGet`, `CheckGetCache` | the two cache lookups of `GetDHT` |
| `Lookup` | `GetFull`: some record a node holds, or none in time; then the payload's type |
| `ReadRecord`, `Miss` | the fallback to the storage, the bad-get entry, and the overwritten error |
| `FillFromDHT`, `FillFromDB` | `addRecordToCache`, an unconditional set; the two differ in what a failure of it does |
| `Restart` | the process dies: requests, goroutines and caches are gone |

`ExternalPut`, `DhtForget`, `CacheEvict`, `BadGetExpire` and `RepublishPut` are the
environment. Records are a sequence number and a value; a signature is a function
of these, so `Equals` compares both. A payload that is not a byte string
(`Opaque`) can only come from others. `Foreign` are the ids whose owner also
publishes elsewhere: about the records of those a gateway can promise little, and
the positive properties speak of the `Native` rest.

An id has more than one spelling: 52 characters of z-base-32 hold four bits more than a
key, and decoding ignores them (`Urls`, `Key`). The caches go by the spelling in the URL, as
`PublishDHT` and `GetDHT` are handed it, and so does a read of Bolt, while a write goes by the
record's own id, which is always spelled in one way; Postgres and the DHT go by the key. What a
`GET` can count on is therefore stated for the gateway's own spelling on Bolt
(`Readable`), and for any on Postgres; requests of all spellings meet in `service_mixed`.

The storage is chosen by `Bolt`: Bolt replaces, whatever the sequence number, and Postgres refuses
a second record of a key. A row that cannot be read or decoded is a failing read
(`"read" \in Faults`).

Three variables are history only: `stored` (all records ever written), `acked`
(all records a 200 was given for) and, in a GET, `known` (`acked` when it arrived).

### Republisher

`pc` follows a pass: listing a page, running its batch, retrying, counting. `worker`
is the state of each record's goroutine; `chan` is `failedRecordsChan`. `WorkerPut` and
`RetryPut` choose the outcome of `getput.Put` from `PutResults`: an error or not, so many nodes
tried and so many responses. `IsPutSuccessful` is what the code makes of it, with its threshold of 33 %, and
`Announces` what a success ought to mean; they differ for errors and for puts that
try no node at all. `errored` (history) are the records whose put was reported as failed, `unheard` those whose
put announced nothing and was taken for a success. `FailuresHandled` speaks of the first
and holds; `AllFailuresHandled` speaks of both, and `republish_errors` refutes it. If a listing fails the
token is nil and the loop starts over; besides rows that do not decode (`Corrupt`)
it may fail for reasons of its own (`ListFails`). The failure *count*
of a record is abstracted to membership in `failures`, as the service only
reads the number of keys there. Requests (`WriteRecord`), other puts, forgetful
nodes and crashes are the environment.

The storage is Bolt or Postgres (`Backend`), and they differ in what the pass sees:

| | Bolt | Postgres |
|---|---|---|
| order of the listing | keys | serial numbers of rows |
| a row that does not decode | fails its page | is left out; a page with no other row ends the listing |
| a write to a key that is there | replaces | is refused |
| the page token | a slice of the page listed last | a copy of a key |

Ids are numbers in the order of the listing. For Postgres this loses nothing: an id has
one row for ever, so that it can be named by the serial number it will get; and as any
id may be written at any time, rows may become visible in another order than
their numbers. With `Reuse` a write during a pass releases the page that Bolt's
token points into and a later one may put other bytes there; whatever these are,
`Seek` takes them for a key. Without it, the runs on Bolt show what holds as long as
fewer than two writes fall between two listings, and `republish_token` shows
what happens otherwise.

### Gateway

The two modules instantiated over the same `db` and `dht`, interleaved; a
crash stops both. Each module contains an environment that stands for the
other, and `ServiceRelies` / `PassRelies` state that the other keeps to it: the
whole gateway implements `DHTService!Spec` and `Republisher!Spec`. This is what
carries the results about the parts over to the whole. Both are theorems of `GatewayProofs`.
A request's write to the storage is also the one that a pass has to expect (`RequestStep` joins
`DHTService!WriteRecord` and `Republisher!WriteRecord`): on Bolt, with `Reuse`, it may
change the bytes that the page token points to.

### Config and Server

`phase` follows `run()` in its order: configuration, `signal.Notify`, the DHT's socket and
bootstrap, storage, service and schedule, and the `select` between a signal and an error of
the server. `LoadConfiguration(world)` takes what the process finds: `CONFIG_PATH`,
`STORAGE_URI`, the TOML file and `config/config.env`, each possibly missing or garbled.
`Config!LoadConfig` is the code's, and `asked` (history) is
what the most specific source that names a setting says, defined independently.
Of the settings the storage URI stands for those the environment may override and the cron line for those
it may not. `Listen` is the goroutine of `ListenAndServe`; `Signal` fills a channel with
room for one; `TakeSignal`, `Shutdown` and `ShutdownFails` are `server.Shutdown` with its five
seconds; `End` is the end of the process however it comes, after which `StartAgain` finds the
storage and another world. `port` belongs to the host: `OtherProcess` is whoever else binds it.

Time is counted in ticks of five seconds, of which a lookup and an answer have two and a shutdown has
one. A request (`req`) is what it takes: an `age` since its header was read, its lookup, its call of the
storage (which takes no time unless `SlowStorage`) and its answer, which a client gets if it comes before the write
deadline. Races of requests over caches and storage are in `DHTService`.

A write of a record fails or succeeds, and Postgres refuses a second record (`Write`, `NotWritten`).

Numbers have `2 * Half` values, `2^64` in the code: `FromWire` and `ToWire` are the two
conversions of `seq`, and a signature is the number that the signer took for signed, or for unsigned.

### Cli

Each run of `id add` or `id get` is a process (`cmd`), which binds the port (`Bind`), puts its identity to
the DHT (`Put`), and then goes through `Write` of the store step by step: `Stat`, then `Mkdir` and `Create`, or
`Read`, then `Save`. The file is absent, empty, torn, or good with a set of identities. A command may be killed
anywhere, a disk may be full, and `GatewayRuns` is any other process with the port.

### DidPacket

A document goes through `Create`, `Publish` and `Read`, each of which is one
function of the code and may refuse its input; the order of the records is as written, or,
for packets of other programs, with the root record first as in `spec/spec.md`. The model keeps
what decides about ids, keys and purposes: the spellings of an id (`a`, `#a`, the whole id,
another DID's, none) and when they are compared and qualified, thumbprints and
algorithms that are left out and filled in, indexes in the root record, and the identity
key, which reads as method 0 wherever it stands.

A key's record is one text of fields (`id=..;t=..;k=..;a=..;c=..`), which the code writes without a look
at the separators of what it puts into it and reads back with `parseTxtData`. The model does the same: the text of
an id, an algorithm or a controller is its words, cut at `=`, in fields, cut at `;`
(`KeyText`), `Field` writes them one after the other, and `Data` finds the last field that has a
name and one value. A separator inside a text therefore makes fields of its own, as in the code:

* the ids `a` and `a;b` are written as two and read as one, so that each of their keys has the
  purposes of both; `0;b` reads as the id `0` of the identity key;
* an algorithm or an id with a `=` is dropped, and the default is read;
* a controller `x;k=..` puts another key in the place of the method's.

`RoundTrip` and `SameAuthority` ask that the options are `WellNamed`: the name in the id of a
method has no separator, is not empty and is not itself the id of another DID, and an algorithm
or a controller has no `;`. The code asks for none of this (it takes `#` and
`#did:dht:other#a` too, and writes both as something that a reader takes for another id). The inputs of the runs have all of
these, and each part of `WellNamed` is needed: without it TLC finds `SameAuthority` violated.

Of other texts (services, controllers of the document, aliases) it keeps where their separators
are, as this is what joining, splitting and field parsing react to; what follows a `;` there is
taken to be no field with a name of the record's own. A list of one item and a string are one thing here, as
the reader tells them apart only in the type of a value.

## 3. Runs

`tlc -config <run>.cfg <module>`; names, modules and one sentence each are in
`PROJECT.json`.

| Run | Checks | Instance |
|---|---|---|
| `service_races` | `AckedIsStored`, `Contract` | Postgres, 1 id, 2 PUTs, 1 GET, 2 goroutines, 2 versions, write and cache failures |
| `service_mixed` | `ServedIsStored`, `NotFoundMeansUnpublished`, `TypeOK` | Bolt, 2 ids, one spelled in 2 ways, one also published by others, opaque payloads |
| `republish` | `TypeOK`, `PassCovers`, `FailuresHandled`, `FailedOnce`, `NeverBlocked`, `PassEnds` | Postgres, 4 ids, one of which does not decode, pages of 3, puts that fail, end in an error or try nobody, failing listings, crashes, under fairness |
| `server` | `TypeOK`, `ServesAsAsked`, `CleanExitAnswersAll`, `ServedVerifies`, `SignalKept`, `SignalStops` | 2 requests, 2 signals, 3 × 3 × 6 × 4 worlds, numbers of 2 bits, slow storage, failing writes, restarts, under fairness |
| `cli` | `TypeOK`, `AddedIsKept` | 3 additions, 1 lookup, a gateway, kills, full disks |
| `gateway_live` | `AckedReachesDHT`, `ServiceRelies`, `PassRelies` | Bolt, 1 id, 2 versions, PUT, crashes, under fairness |
| `did_packet` | `RoundTrip`, `SameAuthority`, `ReferencesResolve` | 16 004 inputs: up to 2 of 108 methods, up to 2 of 62 services, all kinds of metadata |
| `service_read_error` | `NotFoundMeansUnpublished` | Bolt, 1 id, failing reads |
| `slow_lookup` | `FallbackAnswers` | 1 request, storage that answers at once |
| `republish_errors` | `AllFailuresHandled` | Postgres, 2 ids, puts as in `republish` |
| `republish_token` | `PassCovers` | Bolt with `Reuse`, 3 ids, pages of 1 |
| `did_order` | `ReferencesResolve` | the inputs of `did_packet`, with the root record first |

Why these bounds are enough to meet the interesting cases: requests interfere
through one id at a time, so one id with two versions and two PUTs shows every race
between writers, and a third would repeat one of the two roles (earlier, later). A
slot serves one request after another, so a GET meets what earlier GETs left in
the caches. The second id is there to
separate native from foreign behaviour, and the second spelling of the first one to fill the caches
with entries of the same key. Fewer goroutine slots than PUTs delay
an answer and lose nothing; two slots (`service_races`) reorder puts. Two versions on Bolt,
where the second replaces the first, meet in `gateway_live`, and in the theorems.
Four ids in pages of three give a full page, a partial page, and, as writes
arrive, an empty one after a full one; the page with the row that does not decode counts it and puts
the rest. `ListFails` bounds how many failed records a listing may leave behind when it
starts over: with 1, a page fails before or after others that were put, but not with a failed
record on the list already. That records are then collected twice is left to the
theorems, which hold for any `ListFails` (with 2 the run passes its invariants as well, but takes more than twice as long).
What differs on Bolt (a bad record fails its page, writes replace, tokens point into memory)
meets in `gateway_live` and `republish_token`, and the theorems hold for both.
Two requests are enough for one to be cut off while the other is answered, and two signals for one
to come while another is pending. The worlds combine every source that names a storage with every way
in which a source may be missing, garbled or silent. Numbers of two bits have a positive, two
negative ones and zero, which is all that `FromWire` and `IsValid` tell apart. Three additions
let one read what another is about to write while a third is killed.
Two methods are enough to share an id or a key, and two services to share an id; nothing in
the conversions relates three.

### Fairness

`Republisher!LiveSpec` assumes that an enabled pass goes on (`WF` of the republisher's steps:
goroutines are scheduled and the cron job fires again), that the process dies
only finitely often (`<>[]`: a pass that is always killed ends nowhere), and that no page
whose records decode fails at every listing (`SF` of `ListPage`). `Gateway` adds that the put of
a record succeeds and is taken by a node if it is tried again and again (`SF` of
`AnnouncePut`): a DHT that is down at each of a record's turns defeats any
republisher. Nothing is assumed of requests, of the goroutines they leave, of evictions or
of the DHT's memory.

`Server!LiveSpec` assumes that the runtime goes on with `run()` where it waits for nobody (`WF` of `RunStep`),
that time passes, and that a lookup gives up in the end. Nothing is assumed of `StartUpCall`: bootstrapping the DHT, opening
and migrating the storage and counting its records have no deadline, so that a database which
accepts connections and never answers keeps the process in its start-up for ever. `signal.Notify` has
been called by then, and the signal waits in a channel that nobody comes to; `SignalStops` says so: either
the start-up hangs or the signal ends the process. Once it serves, neither storage that
never answers nor clients that never stop keep a signal from ending it, as the shutdown has a deadline.

### Counterexamples

Five runs check what a document, a comment or a test of the repository leads one
to expect and end in a counterexample; `PROJECT.json` quotes the lines.

| Run | What the code does |
|---|---|
| `service_read_error` | a storage error is answered 404 |
| `slow_lookup` | a GET that falls back to the storage after a full lookup has no time left to answer |
| `republish_errors` | a put that ends in an error, or tries no node, is taken for a success: its record is neither put again nor counted |
| `republish_token` | on Bolt, writes during a pass change its page token, and records are passed over |
| `did_order` | a packet with its root record first reads without references |

Other divergences are plain from the models and have no run of their own:

* Bolt lets a lower sequence number replace a higher one, and Postgres refuses every update, whatever its sequence
  number (`CanWrite`; `spec/spec.md:583` lets any later record with a higher `seq` replace the one before,
  and `spec/spec.md:1171` says how versions are ordered). Theorem `OnlyRecordServed` is about what the
  code on Postgres does, not about what it is asked to do.
* A cached response, a bad-get entry and a read of Bolt go by the spelling of an id in the URL: on Bolt a `GET`
  that spells a published id otherwise finds it in the DHT or not at all (`ReadRecord`, `Readable`).
* A published id stays rate-limited after its PUT (`SetCache` leaves `badGet` alone), and
  the DHT's older version is served although the storage has a newer one (`Lookup`).
* A PUT of a `Foreign` id is acknowledged without being stored if a GET has filled the cache
  from the DHT before it (`CheckPutCache`; `service/dht.go:92`).
* On Bolt, one record that does not decode stops republishing for good (`ListError`: `bolt.go:103`, against
  "skipping" in `bolt/dht.go`, which the caller does not do).
* A configuration file is not merged with the built-in settings, and a missing one is an error
  (`LoadFails`, `DecodeFile`; against `config.go:92` and `impl/README.md:14`). What it leaves out of `[dht]` or the storage
  keeps the gateway from starting or makes the URI empty; the `log_level` that the shipped file has
  under `[server]` is read by nothing.
* `seq` 0 and an empty `v` are refused (`IsValid`, `Refuse`), although any number is a `seq` and "0-1000
  bytes of v" are documented; a `seq` of `2^63` or more, signed as an unsigned number, does not verify;
  an id that is not z-base-32 is answered 500.
* `id add` puts an identity to the DHT before its key is saved, and an invalid record on its command
  line ends it with status 0 (`Put`). A first `id add` killed between `Create` and `Save` leaves an empty
  file that no later one can read.
* The error of `GetFull` does not wrap `context.DeadlineExceeded`, so that the branch for a timed-out
  lookup and the one for a failed lookup do the same (`LookupFails`).
* `ListFailedRecords` on Bolt decodes into an `int`, which always fails; only tests call it.
* The client slices the body of an answer from byte 72 on without looking at its length.
* A full page of Postgres rows none of which decodes ends a pass early (`ListPage`).
* Ids are compared before they are qualified, so that `a` and `#a` pass as two ids, while
  a second method without any id is refused as a duplicate (`GivenTwice`).
* An id `#` or `#did:dht:other#a` is accepted and is written like an id left out, or like a whole id of
  `did:dht:other` (`WellNamed`): two methods may read back under one id, and a key may get a purpose of the other's.
* An id, an algorithm or a controller of a method with a `;` or a `=` in it is written as it is, and changes the
  fields of its record (`Field`, `Data`, `WellNamed`): keys may share an id, and with it
  their purposes, or be replaced (`did.go:383`, `did.go:831`).
* A gateway record with an empty text is written, and indexing the chunks it has none of panics (`Panics`).
* A field with a `=` in its value is dropped: a service endpoint with a query string reads
  back empty (`FieldValue`).

## 4. Proofs

`DHTServiceProofs` proves, for any ids, records, requests, goroutines and faults:

* `TypeCorrect`: `TypeOK`, strengthened by `Resolved` (a GET about to cache or return
  a record has one in hand), without which the cache's type is not inductive.
* `AckedWasStored`, `ServedWasStored`: from the invariant `Held`, which says of
  *every* copy of a native record, in the storage, the cache, the DHT, a goroutine,
  a PUT past its write and a GET past its lookup, that it was once stored.
  `AckedIsStored` alone is not inductive: an acknowledgement comes from a cache
  entry, which comes from a GET, which comes from the DHT, which comes from a goroutine.
* `OnlyRecordServed` (if `~ Bolt`): from `OneRecord`, all that was ever stored of an
  id is what is stored now, and `Held`.
* `NotFoundIsHonest` (if reads do not fail): a GET that is on its way to 404
  saw no record in the storage, so by `Held` none was acknowledged before it came.
* `ServiceImplementsContract` (if reads do not fail): every step of the request path
  maps to a step of `GatewayContract` or to a stutter.

They rest on the assumptions of `DHTService`: every id is a spelling of itself and every spelling decodes
to an id, `Foreign \subseteq Ids`, sequence numbers are integers, `None` is neither a record nor an id.

`RepublisherProofs` proves, for any finite set of ids, any size of pages, both storages and
any results of puts, from `Base` (the types, and `Flow`: what each place of a pass leaves behind, such as an empty
channel outside of a batch and a token that is gone when the listing has ended):

* `TypeCorrect`: `TypeOK`.
* `NoFailureForgotten`: `FailuresHandled`, for any results of puts, errors and puts that reach nobody
  included, without any condition; it is about the failures that `isPutSuccessful` reports, and
  `republish_errors` shows what becomes of the others. The invariant `Kept` follows a failure from its goroutine
  to the channel to the list, where a retry makes it good or a count ends it.
* `PassPutsAll`: `PassCovers`, if tokens stay what they were (`~ Reuse`) and no full page of
  Postgres is undecodable rows only (`FewCorrupt`). `Cover` says that what is due is ahead of the token or
  with a goroutine; it rests on `PageFacts`, that nothing lies between one page
  and the next, and that on `FirstOfFull`, that a page which leaves something out is full and comes
  before all it leaves out.
* `NoneFailsTwice`: `FailedOnce`, if `~ Reuse`, from `Once`: what has failed in earlier pages is behind
  the token, and the channel has only ids whose goroutines are done.
* `SendersNeverBlock`: `NeverBlocked`, without any condition, from `Sending`: the channel has no id twice,
  and only ids whose goroutines are done. With the sender's own, its ids are therefore members of the batch, one by
  one (`SendingHasRoom` counts them by an injection), and the capacity is the size of the batch. That
  the pass ends rests on this, as the receiver starts only after the last sender.

The conditions of `PassPutsAll` are needed: `republish_token` refutes `PassCovers` with `Reuse`, and a page of undecodable rows is among the divergences above.

`GatewayProofs` proves `GatewayServes` (`ServiceRelies`) and `GatewayRepublishes` (`PassRelies`) for any instance:
the invariant says that everything in a batch, in the channel and on the failed list was
stored under its id, however long it has been there, so that a pass puts to the DHT only what
`DHTService!RepublishPut` allows. What is proved of the parts then holds of the whole. To say so
`GatewayProofs` instantiates the two proof modules themselves, `Requests` and `Passes`, with what the gateway puts
for their constants; `SameService`, `SameContract` and `SamePass` say that they speak of the specifications the gateway is
made of, and the gateway's assumptions imply theirs. This gives:

* `GatewayKeepsContract` (if reads do not fail): a client of the whole gateway, with the republisher
  putting old records, crashes and all, can rely on `GatewayContract`.
* `GatewayPassHandles`: in the whole gateway no sender is blocked and no put that was reported as failed is
  forgotten, on both storages and whatever requests do meanwhile.
* `GatewayPassCovers` (if `~ Reuse`): in the whole gateway a pass covers what it found. The condition is a
  real one: on Bolt requests that write during a pass change the memory its token points to, and then
  `PassCovers` fails as in `republish_token`. On Postgres it holds by itself.

`Gateway` has no corrupt records, so that `FewCorrupt` is met there.

`ServerProofs` proves, for any worlds, requests, signals and width of numbers, from
`TypeOK /\ Configured /\ Built /\ Cutting /\ Signed`:

* `ServingAsAsked`: the configuration was the one asked for, or cannot start a gateway
  (`Configured`, by `ConfigAsAsked` on every world), and each phase has what the ones before it built.
* `CleanExits`: requests are open only between the listener and the end, and `Shutdown` waits for all.
* `SignalsAreKept`: `SignalKept`, with `Heard`, that none has come before `signal.Notify` in a process
  that is still there: the channel's one place keeps a signal until `run()` gets to its `select`.
* `AnswersVerify`: all numbers in the storage and in answers are the signed ones, as the two conversions undo each
  other (`RoundTripOfSeq`).

It assumes `Worlds \subseteq World` and a positive `Half`.

`CliProofs` proves, for any number of commands, `AddedStays` (`AddedIsKept`) from `PortHeld`
(whoever is past `Bind` has the port, so that there is one such command at most) and
`Fresh` (one about to write has all of the file in memory, or has found none). The
file has no other protection: without the port the invariant breaks at the first step.

`DidPacketProofs` proves the three properties of `DidPacket` for any options, keys and texts, if records come in the
order in which they are written (`Orders = {"packed"}`; `did_order` refutes `ReferencesResolve` without it):

* The state says little (`IInv`: the document is the one that `CreateDIDDHTDID` makes of the options, and so on), and
  the theorems are about the conversions. `FrontSegments` and `PacketRecords` take a packet apart: it is eight
  segments, each of one kind, so that `Named` finds each kind where it was written, in its order, and
  `RootAt` finds the root record behind all key records.
* `ReadReferencesResolve`: what `KeyLookup` writes into the root record is the place of a method of the
  document (`CreateMakesDoc`, `KeyLookupFinds`), and the reader has read the key record at this place (`ReadResolves`).
* `ReadGrantsSameAuthority`: the name a reader gives to a method depends on its id alone, but for the identity
  key, which is always method 0 (`ReadNameIs`), and names of two acceptable methods differ if their ids do (`ReadNameTells`).
  Below it is what a record reads as: `FieldIsPart` and `UnlessIsPart` say which fields a text of one field
  makes, `DataIs` what a field lookup finds, and `RecordReads` that each part of a record is found again.
  This is where `WellNamed` is needed: an empty name is written like one left out, another DID's id like a name of one's own, and
  a `;` would make fields that are not the record's.
* `PacketsReadBack`: with simple texts each part of the document reads back (`PartsReadBack`, `MethodsReadBack`).

`FlattenSeq` is a fold, and the induction theorems of the library cannot be instantiated here. `FlattenProofs` does
without: a set that has 0 and every successor of its members is `Nat` (`SetInduction`, from the
well-foundedness of `<`), and so a set with the empty sequence that is closed under `Append` has all sequences
(`SequenceInduction`). `SolutionExists` gives the function that the fold's definition chooses, `FlattenAppend` its one step, and
`FlattenConcat`, `FlattenSingletons` and `FlattenNothing` are the facts that the conversions rest on.

It assumes `Inputs \subseteq Options`, that the words of records are over tokens among which are
the names of fields (`Marks \subseteq Tokens`; any others may be in texts), that keys are pairs of a type and bytes, and
that the identity key has type 0.

Only model-checked: whatever is liveness (`PassEnds`, `SignalStops`, `AckedReachesDHT`), as the
prover does not do `ENABLED`. Every other property of a passing run is a theorem. The counterexamples
are TLC's as well.

## 5. Abstractions and what is not modelled

* Time, but in `Server`: timeouts and life windows are choices that may be made at any moment.
* Telemetry, whose set-up may also end the process, logging, CORS and the health answer: they change
  nothing that the properties are about.
* Of the configuration, sizes of caches, ports and peers: each is a number or a list that is handed on.
* The bytes of requests: keys and bodies that do not parse are one refusal (`Server!Refuse`). The client library,
  the retention proof of work, the packing of DNS packets and the drivers of builds and
  load tests are functions without state, or not part of the gateway.
* How often a record has failed: only whether it has.
* A DHT lookup returns *some* record that a node holds, not the newest.
* Decoding the bytes of a record after Bolt's transaction, whose outcome is undefined if a
  writer reuses the page in that short time, is covered as a failing read or listing; that it
  decodes to a record nobody signed is excluded by the signature check in `Decode`. The
  page token, which is kept far longer, is modelled (`Reuse`).
* If `RecordCount` fails a pass is skipped, which is no step at all.
* The wire form of DNS packets: `DidPacket` hands the reader the records as they were written.
  Gateway records are TXT values under an NS header, and how they fare
  in packing is up to the DNS library. Lengths of texts: a chunk has 255 characters, which
  are more bytes than a DNS string holds if they are not ASCII.

## 6. Plan

1. *Done*: `GatewayContract`, `DHTService`, `Republisher` over both storages, `Gateway`, `Config`,
   `Server`, `Cli`, `DidPacket`, each with its proofs.
2. `DidPacket`: lengths of texts, with the chunks of `did.go:931`.
3. `RecordStore`: failure counts at a small width, `ListFailedRecords`, and reads that
   decode after their transaction.
