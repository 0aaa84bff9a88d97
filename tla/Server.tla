-------------------------------- MODULE Server --------------------------------
(***************************************************************************)
(* The life of a gateway process: run() of impl/cmd/main.go, what it builds *)
(* (impl/pkg/server/server.go, NewDHTService, the scheduler, the storage,   *)
(* the DHT's socket) and in which order, the signals that end it, and the   *)
(* HTTP requests that its deadlines cut off (impl/pkg/server/dht.go,        *)
(* impl/pkg/service/dht.go).  Caches and races between requests are in      *)
(* DHTService; here a request is what it takes: its time and its answer.    *)
(***************************************************************************)
EXTENDS Config, Integers

CONSTANTS
    Requests,      \* slots for requests; each serves one after another
    Worlds,        \* what a process may find when it starts
    Half,          \* sequence numbers have two times so many values: 2^63 in the code
    None,          \* no record, no configuration
    SlowStorage,   \* a call of the storage may take any time
    MaxSignals     \* signals sent to a process (bound)

ASSUME WorldsAssumption == Worlds \subseteq World
ASSUME HalfAssumption == Half \in Nat \ {0}
ASSUME MaxSignalsAssumption == MaxSignals \in Nat
ASSUME SlowStorageAssumption == SlowStorage \in BOOLEAN

VARIABLES
    phase,       \* where run() is, or how the process ended
    cfg,         \* cfg
    port,        \* who has bound UDP port 6881 of the host: this gateway, another
                 \* process (a command of Cli, a second gateway), or nobody
    storage,     \* the storage that is open
    job,         \* the republisher is scheduled
    listener,    \* the goroutine of ListenAndServe
    pending,     \* a signal is in the channel shutdown
    signals,     \* signals sent
    stopping,    \* time since Shutdown was called
    db,          \* the record stored for the one id; survives the process
    req,         \* requests
    asked        \* history: the configuration that was asked for

control == <<phase, cfg, storage, job, listener, asked>>
vars == <<control, port, pending, signals, stopping, db, req>>

-------------------------------------------------------------------------------
(* Time and numbers.  A tick is five seconds.                               *)

LookupTimeout == 2
WriteTimeout == 2
ShutdownTimeout == 1

Wire == 0 .. 2 * Half - 1
Int64 == -Half .. Half - 1

\* int64(binary.BigEndian.Uint64(b)) and back.
FromWire(u) == IF u < Half THEN u ELSE u - 2 * Half

\* Variant: the sign is lost on the way out.
ToWireUnsigned(s) == IF s < 0 THEN -s ELSE s

ToWire(s) == IF s < 0 THEN s + 2 * Half ELSE s

\* A signature covers a key, a value and a sequence number, as a decimal number:
\* that of a program that takes it for unsigned differs from that of one that
\* takes it for signed.
Record == [seq : Int64, sig : Int64 \union Wire]

Running == {"config", "notify", "dht", "storage", "service", "select", "stopping"}
Ended == {"exit0", "exit1", "killed"}

\* What travels: the fields of a PUT's body, or of a GET's answer.
Message == [seq : Wire, sig : Int64 \union Wire]

NoRequest == [pc |-> "none", age |-> 0, msg |-> None]

Request ==
    [pc : {"none", "lookup", "read", "write", "answered", "lost", "cut"},
     age : 0 .. WriteTimeout, msg : Message \union {None}]

IsOpen(r) == req[r].pc \in {"lookup", "read", "write"}

TypeOK ==
    /\ phase \in Running \union Ended
    /\ port \in {"free", "gateway", "other"}
    /\ cfg \in Config \union {None}
    /\ storage \in {"none", "bolt", "postgres"}
    /\ listener \in {"none", "starting", "open", "failed", "closed"}
    /\ job \in BOOLEAN /\ pending \in BOOLEAN
    /\ signals \in 0 .. MaxSignals
    /\ stopping \in 0 .. ShutdownTimeout
    /\ db \in Record \union {None}
    /\ req \in [Requests -> Request]

Init ==
    /\ phase = "config" /\ cfg = None /\ asked = None
    /\ port = "free" /\ storage = "none" /\ job = FALSE /\ listener = "none"
    /\ pending = FALSE /\ signals = 0 /\ stopping = 0
    /\ db = None
    /\ req = [r \in Requests |-> NoRequest]

\* The process is gone, and with it the port, the job, the lock of the storage and
\* every connection.
End(how) ==
    /\ phase' = how
    /\ port' = IF port = "gateway" THEN "free" ELSE port
    /\ storage' = "none" /\ job' = FALSE /\ listener' = "none"
    /\ pending' = FALSE /\ stopping' = 0
    /\ req' = [r \in Requests |-> IF IsOpen(r) THEN [NoRequest EXCEPT !.pc = "cut"] ELSE NoRequest]
    /\ UNCHANGED <<cfg, asked, signals, db>>

-------------------------------------------------------------------------------
(* Start-up, in the order of run()                                          *)

\* What the operator asked for: the storage of the most specific source that names
\* one (environment, .env, file or built-in settings), and the schedule.
Asked(world) ==
    LET builtIn == world.path = "empty"
        source == << world.uri,
                     IF "uri" \in DOMAIN world.dotenv THEN world.dotenv.uri ELSE Unset,
                     IF builtIn THEN "bolt" ELSE world.file.uri >>
        named == {i \in DOMAIN source : source[i] # Unset}
    IN  [uri |-> IF named = {} THEN Unset
                 ELSE source[CHOOSE i \in named : \A j \in named : i <= j],
         cron |-> IF builtIn THEN "valid" ELSE world.file.cron]

LoadConfiguration(world) ==
    /\ phase = "config"
    /\ IF LoadFails(world)
       THEN End("exit1")
       ELSE /\ phase' = "notify"
            /\ cfg' = LoadConfig(world) /\ asked' = Asked(world)
            /\ UNCHANGED <<port, storage, job, listener, pending, signals, stopping, db, req>>

Notify ==
    /\ phase = "notify"
    /\ phase' = "dht"
    /\ UNCHANGED <<cfg, asked, port, storage, job, listener, pending, signals, stopping, db, req>>

\* NewDHT: the port is fixed, so that a host has one user of it; then bootstrap.
NewDHT(bootstraps) ==
    /\ phase = "dht"
    /\ IF port = "free" /\ bootstraps
       THEN /\ port' = "gateway" /\ phase' = "storage"
            /\ UNCHANGED <<cfg, asked, storage, job, listener, pending, signals, stopping, db, req>>
       ELSE End("exit1")

\* Opening may fail: Bolt waits three seconds for the lock of its file, Postgres
\* has to be there and to migrate. A count of the records that fails is logged.
OpenStorage(opens) ==
    /\ phase = "storage"
    /\ IF NewStorage(cfg.uri) # "none" /\ opens
       THEN /\ storage' = NewStorage(cfg.uri) /\ phase' = "service"
            /\ UNCHANGED <<cfg, asked, port, job, listener, pending, signals, stopping, db, req>>
       ELSE End("exit1")

\* NewDHTService schedules the republisher, which runs from here on; then run()
\* starts the listener and waits.
NewService ==
    /\ phase = "service"
    /\ IF cfg.cron = "valid"
       THEN /\ job' = TRUE /\ phase' = "select" /\ listener' = "starting"
            /\ UNCHANGED <<cfg, asked, port, storage, pending, signals, stopping, db, req>>
       ELSE End("exit1")

\* ListenAndServe: the address may be taken; once Shutdown was called it returns
\* at once, and nobody looks at what it returns.
Listen(binds) ==
    /\ listener = "starting"
    /\ listener' = CASE phase = "stopping" -> "closed"
                     [] phase = "select" /\ binds -> "open"
                     [] OTHER -> "failed"
    /\ UNCHANGED <<phase, cfg, asked, port, storage, job, pending, signals, stopping, db, req>>

-------------------------------------------------------------------------------
(* The end                                                                  *)

\* Variant: the channel has no room, and run() is not always at its select.
SignalUnbuffered ==
    /\ phase \in Running /\ signals < MaxSignals
    /\ signals' = signals + 1
    /\ pending' = (pending \/ phase = "select")
    /\ UNCHANGED <<control, port, stopping, db, req>>

\* SIGTERM or an interrupt: before signal.Notify it kills the process; after it,
\* it waits in a channel with room for one.
Signal ==
    /\ phase \in Running /\ signals < MaxSignals
    /\ IF phase \in {"config", "notify"}
       THEN End("killed")
       ELSE /\ signals' = signals + 1 /\ pending' = TRUE
            /\ UNCHANGED <<control, port, stopping, db, req>>

ServerError ==
    /\ phase = "select" /\ listener = "failed"
    /\ End("exit1")

\* Shutdown closes the listener at once.
TakeSignal ==
    /\ phase = "select" /\ pending
    /\ phase' = "stopping" /\ pending' = FALSE /\ stopping' = 0
    /\ listener' = IF listener = "open" THEN "closed" ELSE listener
    /\ UNCHANGED <<cfg, asked, port, storage, job, signals, db, req>>

\* Variant: connections are closed without waiting for their requests.
ShutdownAtOnce == phase = "stopping" /\ End("exit0")

\* Every request has been answered in time.
Shutdown ==
    /\ phase = "stopping"
    /\ \A r \in Requests : ~ IsOpen(r)
    /\ End("exit0")

\* Close: the requests that are left lose their connections.
ShutdownFails ==
    /\ phase = "stopping" /\ stopping = ShutdownTimeout
    /\ \E r \in Requests : IsOpen(r)
    /\ End("exit1")

Kill == phase \in Running /\ End("killed")

StartAgain ==
    /\ phase \in Ended
    /\ phase' = "config" /\ cfg' = None /\ asked' = None
    /\ signals' = 0 /\ req' = [r \in Requests |-> NoRequest]
    /\ UNCHANGED <<port, storage, job, listener, pending, stopping, db>>

-------------------------------------------------------------------------------
(* Requests                                                                 *)

Accepts(r) == phase = "select" /\ listener = "open" /\ ~ IsOpen(r)

\* The handler's answer reaches the client unless the write deadline, which runs
\* from the moment the request's header was read, has passed.
Answer(r, msg) ==
    req' = [req EXCEPT ![r] =
        [pc |-> IF req[r].age < WriteTimeout THEN "answered" ELSE "lost",
         age |-> 0, msg |-> msg]]

\* NewBEP44Record: "required" refuses a zero sequence number, and the signature must
\* be of the number as the gateway reads it.
IsValid(rec) == rec.seq # 0 /\ rec.sig = rec.seq

RecordOf(msg) == [seq |-> FromWire(msg.seq), sig |-> msg.sig]

\* What the handler refuses: keys that do not decode or are too short, bodies of 72
\* bytes or less, more than 1000 bytes of v, an invalid record, an id on the bad list.
Refuse(r) ==
    /\ Accepts(r)
    /\ Answer(r, None)
    /\ UNCHANGED <<control, port, pending, signals, stopping, db>>

StartPut(r, msg) ==
    /\ Accepts(r) /\ IsValid(RecordOf(msg))
    /\ req' = [req EXCEPT ![r].pc = "write", ![r].msg = msg]
    /\ UNCHANGED <<control, port, pending, signals, stopping, db>>

\* Bolt replaces what it has for the id; Postgres takes the first record only.
Write(r) ==
    /\ req[r].pc = "write"
    /\ storage = "postgres" => db = None
    /\ db' = RecordOf(req[r].msg)
    /\ Answer(r, None)
    /\ UNCHANGED <<control, port, pending, signals, stopping>>

\* PublishDHT errs: the storage fails or refuses, which is answered 500. Or the
\* record is one the cache has, and there is nothing to write.
NotWritten(r) ==
    /\ req[r].pc = "write"
    /\ Answer(r, None)
    /\ UNCHANGED <<control, port, pending, signals, stopping, db>>

\* sig:seq:v
MessageOf(rec) == IF rec = None THEN None ELSE [seq |-> ToWire(rec.seq), sig |-> rec.sig]

\* The caches have no answer.
StartGet(r) ==
    /\ Accepts(r)
    /\ req' = [req EXCEPT ![r].pc = "lookup"]
    /\ UNCHANGED <<control, port, pending, signals, stopping, db>>

\* GetFull finds a record, which some node has from this gateway, in time.
LookupFinds(r) ==
    /\ req[r].pc = "lookup" /\ req[r].age < LookupTimeout /\ db # None
    /\ Answer(r, MessageOf(db))
    /\ UNCHANGED <<control, port, pending, signals, stopping, db>>

\* GetFull runs out of nodes, or of time.
LookupFails(r) ==
    /\ req[r].pc = "lookup"
    /\ req' = [req EXCEPT ![r].pc = "read"]
    /\ UNCHANGED <<control, port, pending, signals, stopping, db>>

\* The fallback to the storage.
Read(r) ==
    /\ req[r].pc = "read"
    /\ Answer(r, MessageOf(db))
    /\ UNCHANGED <<control, port, pending, signals, stopping, db>>

\* A deadline that has come is dealt with before time goes on. A lookup starts when the
\* header has been read.
MayWait(r) ==
    CASE req[r].pc = "lookup" -> req[r].age < LookupTimeout
      [] req[r].pc \in {"read", "write"} -> SlowStorage
      [] OTHER -> TRUE

\* Variant: nothing ends at the write deadline.
OlderForever(r) == IF IsOpen(r) THEN [req[r] EXCEPT !.age = @ + 1] ELSE req[r]

Older(r) ==
    IF IsOpen(r) /\ req[r].age < WriteTimeout THEN [req[r] EXCEPT !.age = @ + 1] ELSE req[r]

Tick ==
    /\ phase \in {"select", "stopping"}
    /\ phase = "stopping" => stopping < ShutdownTimeout
    /\ \E r \in Requests : IsOpen(r)
    /\ \A r \in Requests : MayWait(r)
    /\ stopping' = IF phase = "stopping" THEN stopping + 1 ELSE stopping
    /\ req' = [r \in Requests |-> Older(r)]
    /\ UNCHANGED <<control, port, pending, signals, db>>

-------------------------------------------------------------------------------
(* The goroutines: run(), the listener, and one per request                 *)

\* What run() does with what it has.
RunStep ==
    \/ \E world \in Worlds : LoadConfiguration(world)
    \/ Notify
    \/ NewService
    \/ ServerError \/ TakeSignal \/ Shutdown \/ ShutdownFails

\* The calls of the start-up that wait for other machines or processes: bootstrapping,
\* opening and migrating the storage, counting its records. None has a deadline.
StartUpCall == \E ok \in BOOLEAN : NewDHT(ok) \/ OpenStorage(ok)

RequestStep ==
    \E r \in Requests :
        \/ Refuse(r) \/ StartGet(r) \/ LookupFinds(r) \/ LookupFails(r) \/ Read(r)
        \/ Write(r) \/ NotWritten(r)
        \/ \E msg \in Message : StartPut(r, msg)

\* Another process of the host takes the port, or exits.
OtherProcess ==
    /\ port # "gateway"
    /\ port' = IF port = "free" THEN "other" ELSE "free"
    /\ UNCHANGED <<control, pending, signals, stopping, db, req>>

Next ==
    \/ RunStep \/ StartUpCall
    \/ \E ok \in BOOLEAN : Listen(ok)
    \/ RequestStep
    \/ Tick
    \/ Signal \/ Kill \/ StartAgain
    \/ OtherProcess

Spec == Init /\ [][Next]_vars

\* The runtime goes on with run() wherever it waits for nobody, and with requests whose
\* lookup has to end, and time passes. Nothing is assumed of clients, of who sends
\* signals, or of the storage and the DHT: a call of the start-up may last for ever.
Fairness ==
    /\ WF_vars(RunStep)
    /\ WF_vars(Tick)
    /\ WF_vars(\E r \in Requests : LookupFails(r))

LiveSpec == Spec /\ Fairness

-------------------------------------------------------------------------------
(* What the process promises                                                *)

\* A gateway that accepts requests has opened the storage that the most specific
\* source names, republishes on a schedule somebody asked for, and has the port of
\* its DHT; nothing left out or refused is silently replaced on the way.
ServesAsAsked ==
    listener = "open" =>
        storage = asked.uri /\ asked.cron = "valid" /\ job /\ port = "gateway"

\* Exit status 0 means that no client lost its connection to the shutdown.
CleanExitAnswersAll == phase = "exit0" => \A r \in Requests : req[r].pc # "cut"

\* The sequence number a reader takes from an answer is the one that the owner
\* signed, negative ones included, over two conversions and the storage.
ServedVerifies ==
    \A r \in Requests :
        req[r].pc = "answered" /\ req[r].msg # None => FromWire(req[r].msg.seq) = req[r].msg.sig

\* No signal is lost on the way: from the moment the handler is installed until the
\* process ends, one that was sent waits in the channel or is being obeyed, in
\* whichever phase of the start-up it came.
SignalKept == signals > 0 /\ phase \in Running => pending \/ phase = "stopping"

\* run() is inside a call of the start-up.
InStartUpCall == phase \in {"dht", "storage"}

\* A signal that comes once the handler is installed ends the process, also if it
\* comes long before anybody waits for it, and however long requests take; unless a
\* call of the start-up never returns, for then nobody ever comes to the channel, and
\* a signal that would have killed the process a moment earlier does nothing.
SignalStops == <>[]InStartUpCall \/ (signals > 0 ~> phase \in Ended)

\* A GET that found its record in the storage gets it to the client.
FallbackAnswers ==
    \A r \in Requests : req[r].pc = "lost" => req[r].msg = None

===============================================================================
