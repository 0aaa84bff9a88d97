------------------------------ MODULE ServerProofs ------------------------------
(***************************************************************************)
(* Proofs about Server: for any worlds, requests, signals and numbers, a    *)
(* gateway serves with what was asked for, exits with status 0 only if no   *)
(* client was cut off, and answers with numbers that were signed.           *)
(***************************************************************************)
EXTENDS Server, TLAPS

\* From the loading of a configuration to the end of the process it is the one that
\* was asked for, as far as a gateway can start with it.
Configured ==
    phase \in Running \ {"config"} =>
        /\ NewStorage(cfg.uri) # "none" => asked.uri = NewStorage(cfg.uri)
        /\ cfg.cron = "valid" => asked.cron = "valid"

\* What each phase of run() has behind it.
Built ==
    /\ phase \in {"storage", "service", "select", "stopping"} => port = "gateway"
    /\ phase \in {"service", "select", "stopping"} => storage = asked.uri
    /\ phase \in {"select", "stopping"} => job /\ asked.cron = "valid"
    /\ listener = "open" => phase = "select"

\* Requests are open only while the server is, and lose their connections only in
\* an end that is not a clean one.
Cutting ==
    \A r \in Requests :
        /\ IsOpen(r) => phase \in {"select", "stopping"}
        /\ req[r].pc = "cut" => phase \in {"exit1", "killed"}

\* A message whose number, read as the code reads it, is the signed one.
Verifies(msg) == msg \in Message /\ FromWire(msg.seq) = msg.sig

\* Every sequence number in the storage or on its way in or out is the signed one.
Signed ==
    /\ db # None => db \in Record /\ db.seq = db.sig
    /\ \A r \in Requests : (req[r].msg # None \/ req[r].pc = "write") => Verifies(req[r].msg)

IInv == TypeOK /\ Configured /\ Built /\ Cutting /\ Signed

\* The two conversions of a sequence number undo each other.
LEMMA RoundTripOfSeq == \A s \in Int64 : ToWire(s) \in Wire /\ FromWire(ToWire(s)) = s
  BY HalfAssumption DEF Int64, Wire, ToWire, FromWire

LEMMA SeqOfWire == \A u \in Wire : FromWire(u) \in Int64
  BY HalfAssumption DEF Int64, Wire, FromWire

\* What LoadConfig makes of a world is what was asked for, or cannot start.
LEMMA ConfigAsAsked ==
    ASSUME NEW world \in World, ~ LoadFails(world)
    PROVE  LET cfg1 == LoadConfig(world) IN
           /\ NewStorage(cfg1.uri) # "none" => Asked(world).uri = NewStorage(cfg1.uri)
           /\ cfg1.cron = "valid" => Asked(world).cron = "valid"
  <1> DEFINE dot == IF "uri" \in DOMAIN world.dotenv THEN world.dotenv.uri ELSE Unset
             file == IF world.path = "empty" THEN "bolt" ELSE world.file.uri
             source == <<world.uri, dot, file>>
             named == {i \in DOMAIN source : source[i] # Unset}
             first == CHOOSE i \in named : \A j \in named : i <= j
  <1>1. DOMAIN source = 1 .. 3 /\ source[1] = world.uri /\ source[2] = dot /\ source[3] = file
    OBVIOUS
  <1>2. Asked(world).uri = IF named = {} THEN Unset ELSE source[first]
    BY DEF Asked
  <1>3. Asked(world).uri = IF world.uri # Unset THEN world.uri ELSE IF dot # Unset THEN dot ELSE file
    <2>1. CASE world.uri # Unset
      <3>1. 1 \in named /\ \A j \in named : 1 <= j
        BY <1>1, <2>1
      <3>2. first = 1
        BY <3>1, <1>1
      <3> QED BY <3>1, <3>2, <1>1, <1>2, <2>1
    <2>2. CASE world.uri = Unset /\ dot # Unset
      <3>1. 2 \in named /\ \A j \in named : 2 <= j
        BY <1>1, <2>2
      <3>2. first = 2
        BY <3>1, <1>1
      <3> QED BY <3>1, <3>2, <1>1, <1>2, <2>2
    <2>3. CASE world.uri = Unset /\ dot = Unset /\ file # Unset
      <3>1. 3 \in named /\ \A j \in named : 3 <= j
        BY <1>1, <2>3
      <3>2. first = 3
        BY <3>1, <1>1
      <3> QED BY <3>1, <3>2, <1>1, <1>2, <2>3
    <2>4. CASE world.uri = Unset /\ dot = Unset /\ file = Unset
      <3>1. named = {}
        BY <1>1, <2>4
      <3> QED BY <3>1, <1>2, <2>4
    <2> QED BY <2>1, <2>2, <2>3, <2>4
  <1> HIDE DEF dot, file
  <1>4. world.dotenv \in [broken : Broken] => dot = Unset /\ IsBroken(world.dotenv, Broken)
    BY DEF dot, IsBroken
  <1>5. world.dotenv \in DotEnv => dot = world.dotenv.uri /\ ~ IsBroken(world.dotenv, Broken)
    BY DEF dot, IsBroken, DotEnv
  <1>6. LookupEnv(world) = IF world.uri # Unset THEN world.uri ELSE dot
    BY <1>4, <1>5 DEF LookupEnv, World
  <1>7. CASE world.path = "empty"
    BY <1>3, <1>6, <1>7 DEF file, LoadConfig, UsesDefaults, GetDefaultConfig, NewStorage, Asked, Unset
  <1>8. CASE world.path # "empty"
    <2>1. world.file \in Toml
      BY <1>8 DEF LoadFails, UsesDefaults, IsBroken, World
    <2> QED
      BY <1>3, <1>6, <1>8, <2>1
      DEF file, LoadConfig, UsesDefaults, DecodeFile, NewStorage, Asked, Toml, Crons, Unset
  <1> QED BY <1>7, <1>8

\* The type of what LoadConfig returns.
LEMMA ConfigType ==
    ASSUME NEW world \in World, ~ LoadFails(world)
    PROVE  LoadConfig(world) \in Config
  <1>1. CASE UsesDefaults(world)
    BY <1>1 DEF LoadConfig, GetDefaultConfig, LookupEnv, World, DotEnv, IsBroken,
               Broken, Config, Uris, Crons, Unset
  <1>2. CASE ~ UsesDefaults(world)
    <2>1. world.file \in Toml
      BY <1>2 DEF LoadFails, IsBroken, World
    <2>2. LookupEnv(world) \in Uris \union {Unset}
      BY DEF LookupEnv, World, DotEnv, IsBroken
    <2>3. DecodeFile(world.file) \in Config
      BY <2>1 DEF DecodeFile, Toml, Config, Uris, Crons, Unset
    <2> QED BY <1>2, <2>2, <2>3 DEF LoadConfig, Config
  <1> QED BY <1>1, <1>2

\* What a message carries in and out of the storage stays what was signed.
LEMMA MessageVerifies ==
    ASSUME Signed, db # None
    PROVE  Verifies(MessageOf(db))
  <1>1. db.seq \in Int64 /\ db.sig \in Int64 \union Wire /\ db.seq = db.sig
    BY DEF Signed, Record
  <1>2. ToWire(db.seq) \in Wire /\ FromWire(ToWire(db.seq)) = db.seq
    BY <1>1, RoundTripOfSeq
  <1> QED BY <1>1, <1>2 DEF MessageOf, Verifies, Message

LEMMA RecordSigned ==
    ASSUME NEW msg, Verifies(msg)
    PROVE  RecordOf(msg) \in Record /\ RecordOf(msg).seq = RecordOf(msg).sig
  <1>1. msg.seq \in Wire /\ msg.sig \in Int64 \union Wire /\ FromWire(msg.seq) = msg.sig
    BY DEF Verifies, Message
  <1>2. FromWire(msg.seq) \in Int64
    BY <1>1, SeqOfWire
  <1> QED BY <1>1, <1>2 DEF RecordOf, Record

\* The initial states satisfy the invariant.
LEMMA InitIInv == Init => IInv
  <1> SUFFICES ASSUME Init PROVE IInv
    OBVIOUS
  <1>1. NoRequest \in Request /\ NoRequest.pc = "none" /\ NoRequest.msg = None
    BY DEF NoRequest, Request, WriteTimeout
  <1>2. TypeOK
    <2>1. req \in [Requests -> Request]
      BY <1>1 DEF Init
    <2>2. signals \in 0 .. MaxSignals /\ stopping \in 0 .. ShutdownTimeout
      BY MaxSignalsAssumption DEF Init, ShutdownTimeout
    <2> QED BY <2>1, <2>2, Zenon DEF Init, TypeOK, Running
  <1>3. Configured /\ Built
    BY DEF Init, Configured, Built
  <1>4. Cutting /\ Signed
    BY <1>1 DEF Init, Cutting, Signed, IsOpen
  <1> QED BY <1>2, <1>3, <1>4 DEF IInv

-------------------------------------------------------------------------------
(* Ends and starts of a process                                             *)

\* An end with status 0 needs that no request is open; any other end may cut some off.
LEMMA EndIInv ==
    ASSUME IInv, NEW how \in Ended, End(how),
           how = "exit0" => \A r \in Requests : ~ IsOpen(r)
    PROVE  IInv'
  <1> DEFINE Cut == [NoRequest EXCEPT !.pc = "cut"]
  <1>1. NoRequest \in Request /\ NoRequest.pc = "none" /\ NoRequest.msg = None
    BY DEF NoRequest, Request, WriteTimeout
  <1>2. Cut \in Request /\ Cut.pc = "cut" /\ Cut.msg = None
    BY DEF NoRequest, Request, WriteTimeout
  <1>3. req' = [r \in Requests |-> IF IsOpen(r) THEN Cut ELSE NoRequest]
    BY DEF End
  <1> HIDE DEF Cut
  <1>4. TypeOK'
    <2>1. req' \in [Requests -> Request]
      BY <1>1, <1>2, <1>3
    <2>2. signals' \in 0 .. MaxSignals /\ stopping' \in 0 .. ShutdownTimeout
      BY DEF IInv, TypeOK, End, ShutdownTimeout
    <2>3. job' \in BOOLEAN /\ pending' \in BOOLEAN
      BY Zenon DEF End
    <2>4. phase' \in Running \union Ended /\ port' \in {"free", "gateway", "other"}
          /\ storage' = "none" /\ listener' = "none"
          /\ cfg' \in Config \union {None} /\ db' \in Record \union {None}
      BY DEF IInv, TypeOK, End
    <2> QED BY <2>1, <2>2, <2>3, <2>4 DEF TypeOK
  <1>5. phase' \notin Running /\ listener' # "open"
    BY DEF End, Running, Ended
  <1>6. Configured' /\ Built'
    BY <1>5 DEF Configured, Built, Running
  <1>7. Cutting'
    <2>1. \A r \in Requests : ~ IsOpen(r)'
      BY <1>1, <1>2, <1>3 DEF IsOpen
    <2>2. \A r \in Requests : req'[r].pc = "cut" => IsOpen(r)
      BY <1>1, <1>2, <1>3
    <2>3. phase' = how
      BY DEF End
    <2> QED BY <2>1, <2>2, <2>3 DEF Cutting, Ended
  <1>8. Signed'
    BY <1>1, <1>2, <1>3 DEF IInv, Signed, End
  <1> QED BY <1>4, <1>6, <1>7, <1>8 DEF IInv

LEMMA StartAgainIInv ==
    ASSUME IInv, StartAgain
    PROVE  IInv'
  <1>1. NoRequest \in Request /\ NoRequest.pc = "none" /\ NoRequest.msg = None
    BY DEF NoRequest, Request, WriteTimeout
  <1>2. phase \notin Running /\ phase' = "config" /\ req' = [r \in Requests |-> NoRequest]
    BY DEF StartAgain, Running, Ended
  <1>3. TypeOK'
    BY <1>1, MaxSignalsAssumption DEF IInv, TypeOK, StartAgain, Running
  <1>4. Configured' /\ Built'
    BY <1>2 DEF IInv, Configured, Built, Running, StartAgain
  <1>5. Cutting' /\ Signed'
    BY <1>1, <1>2 DEF IInv, Cutting, Signed, IsOpen, StartAgain
  <1> QED BY <1>3, <1>4, <1>5 DEF IInv

-------------------------------------------------------------------------------
(* Steps of run(), of the listener and of other processes                   *)

\* Steps that touch neither requests nor the storage keep what is said of them.
LEMMA ControlKeeps ==
    ASSUME IInv, UNCHANGED <<db, req>>,
           phase' = phase \/ phase' \in {"notify", "dht", "storage", "service", "select", "stopping"},
           phase \in {"select", "stopping"} => phase' \in {"select", "stopping"},
           phase \in Ended => phase' = phase
    PROVE  Cutting' /\ Signed'
  <1>1. Signed'
    BY DEF IInv, Signed
  <1>2. \A r \in Requests : req[r].pc = "cut" => phase' \in {"exit1", "killed"}
    BY DEF IInv, Cutting, Ended
  <1>3. \A r \in Requests : IsOpen(r) => phase' \in {"select", "stopping"}
    BY DEF IInv, Cutting
  <1> QED BY <1>1, <1>2, <1>3 DEF Cutting, IsOpen

LEMMA LoadIInv ==
    ASSUME IInv, NEW world \in Worlds, LoadConfiguration(world)
    PROVE  IInv'
  <1> USE WorldsAssumption
  <1>1. CASE LoadFails(world)
    BY <1>1, EndIInv DEF LoadConfiguration, Ended
  <1>2. CASE ~ LoadFails(world)
    <2>1. phase = "config" /\ phase' = "notify" /\ cfg' = LoadConfig(world) /\ asked' = Asked(world)
          /\ UNCHANGED <<port, storage, job, listener, pending, signals, stopping, db, req>>
      BY <1>2 DEF LoadConfiguration
    <2>2. TypeOK'
      BY <1>2, <2>1, ConfigType DEF IInv, TypeOK, Running
    <2>3. Configured'
      BY <1>2, <2>1, ConfigAsAsked DEF Configured
    <2>4. Built'
      BY <2>1 DEF IInv, Built
    <2>5. Cutting' /\ Signed'
      BY <2>1, ControlKeeps DEF Ended
    <2> QED BY <2>2, <2>3, <2>4, <2>5 DEF IInv
  <1> QED BY <1>1, <1>2

LEMMA NotifyIInv ==
    ASSUME IInv, Notify
    PROVE  IInv'
  <1>1. TypeOK'
    BY DEF IInv, TypeOK, Running, Notify
  <1>2. Configured' /\ Built'
    BY DEF IInv, Configured, Built, Running, Notify
  <1>3. Cutting' /\ Signed'
    BY ControlKeeps DEF Notify, Ended
  <1> QED BY <1>1, <1>2, <1>3 DEF IInv

LEMMA NewDHTIInv ==
    ASSUME IInv, NEW ok \in BOOLEAN, NewDHT(ok)
    PROVE  IInv'
  <1>1. CASE port = "free" /\ ok
    <2>1. TypeOK'
      BY <1>1 DEF IInv, TypeOK, Running, NewDHT
    <2>2. Configured' /\ Built'
      BY <1>1 DEF IInv, Configured, Built, Running, NewDHT
    <2>3. Cutting' /\ Signed'
      BY <1>1, ControlKeeps DEF NewDHT, Ended
    <2> QED BY <2>1, <2>2, <2>3 DEF IInv
  <1>2. CASE ~ (port = "free" /\ ok)
    BY <1>2, EndIInv DEF NewDHT, Ended
  <1> QED BY <1>1, <1>2

LEMMA OpenStorageIInv ==
    ASSUME IInv, NEW ok \in BOOLEAN, OpenStorage(ok)
    PROVE  IInv'
  <1>1. CASE NewStorage(cfg.uri) # "none" /\ ok
    <2>1. NewStorage(cfg.uri) \in {"none", "bolt", "postgres"}
      BY DEF NewStorage
    <2>2. TypeOK'
      BY <1>1, <2>1 DEF IInv, TypeOK, Running, OpenStorage
    <2>3. Configured' /\ Built'
      BY <1>1 DEF IInv, Configured, Built, Running, OpenStorage
    <2>4. Cutting' /\ Signed'
      BY <1>1, ControlKeeps DEF OpenStorage, Ended
    <2> QED BY <2>2, <2>3, <2>4 DEF IInv
  <1>2. CASE ~ (NewStorage(cfg.uri) # "none" /\ ok)
    BY <1>2, EndIInv DEF OpenStorage, Ended
  <1> QED BY <1>1, <1>2

LEMMA NewServiceIInv ==
    ASSUME IInv, NewService
    PROVE  IInv'
  <1>1. CASE cfg.cron = "valid"
    <2>1. TypeOK'
      BY <1>1 DEF IInv, TypeOK, Running, NewService
    <2>2. Configured' /\ Built'
      BY <1>1 DEF IInv, Configured, Built, Running, NewService
    <2>3. Cutting' /\ Signed'
      BY <1>1, ControlKeeps DEF NewService, Ended
    <2> QED BY <2>1, <2>2, <2>3 DEF IInv
  <1>2. CASE cfg.cron # "valid"
    BY <1>2, EndIInv DEF NewService, Ended
  <1> QED BY <1>1, <1>2

\* The listener, a signal that waits, a signal taken, another process.
LEMMA AsideIInv ==
    ASSUME IInv,
           \/ \E ok \in BOOLEAN : Listen(ok)
           \/ Signal /\ phase \notin {"config", "notify"}
           \/ TakeSignal
           \/ OtherProcess
    PROVE  IInv'
  <1>1. TypeOK'
    <2>1. CASE \E ok \in BOOLEAN : Listen(ok)
      BY <2>1 DEF IInv, TypeOK, Listen
    <2>2. CASE Signal /\ phase \notin {"config", "notify"}
      <3>1. signals' \in 0 .. MaxSignals
        BY <2>2, MaxSignalsAssumption DEF IInv, TypeOK, Signal
      <3>2. pending' \in BOOLEAN
        BY <2>2, Zenon DEF Signal
      <3> QED BY <2>2, <3>1, <3>2 DEF IInv, TypeOK, Signal, control
    <2>3. CASE TakeSignal
      <3>1. phase' \in Running /\ stopping' \in 0 .. ShutdownTimeout
        BY <2>3 DEF TakeSignal, Running, ShutdownTimeout
      <3>2. pending' \in BOOLEAN
        BY <2>3, Zenon DEF TakeSignal
      <3> QED BY <2>3, <3>1, <3>2 DEF IInv, TypeOK, TakeSignal
    <2>4. CASE OtherProcess
      BY <2>4 DEF IInv, TypeOK, OtherProcess, control
    <2> QED BY <2>1, <2>2, <2>3, <2>4
  <1>2. Configured' /\ Built'
    BY DEF IInv, TypeOK, Configured, Built, Running, Listen, Signal, TakeSignal, OtherProcess, control
  <1>3. Cutting' /\ Signed'
    BY ControlKeeps DEF Listen, Signal, TakeSignal, OtherProcess, control, Ended
  <1> QED BY <1>1, <1>2, <1>3 DEF IInv

\* Every other end: a server that failed, a shutdown, a kill.
LEMMA EndsIInv ==
    ASSUME IInv,
           \/ ServerError \/ Shutdown \/ ShutdownFails \/ Kill
           \/ Signal /\ phase \in {"config", "notify"}
    PROVE  IInv'
  <1>1. CASE Shutdown
    BY <1>1, EndIInv DEF Shutdown, Ended
  <1>2. CASE ServerError \/ ShutdownFails
    BY <1>2, EndIInv DEF ServerError, ShutdownFails, Ended
  <1>3. CASE Kill \/ (Signal /\ phase \in {"config", "notify"})
    <2>1. End("killed")
      BY <1>3 DEF Kill, Signal
    <2> QED BY <2>1, EndIInv DEF Ended
  <1> QED BY <1>1, <1>2, <1>3

-------------------------------------------------------------------------------
(* Steps of requests, and time                                              *)

\* A step of one request, while the server runs, that gives it a value that is right.
LEMMA OneRequest ==
    ASSUME IInv, NEW r \in Requests, NEW q \in Request,
           req' = [req EXCEPT ![r] = q],
           UNCHANGED <<control, port, pending, signals, stopping>>,
           phase \in {"select", "stopping"}, q.pc # "cut",
           (q.msg # None \/ q.pc = "write") => Verifies(q.msg),
           db' \in Record \union {None}, db' # None => db'.seq = db'.sig
    PROVE  IInv'
  <1>1. TypeOK'
    BY DEF IInv, TypeOK, control
  <1>2. Configured' /\ Built'
    BY DEF IInv, Configured, Built, control
  <1>3. \A s \in Requests : req'[s] = IF s = r THEN q ELSE req[s]
    BY DEF IInv, TypeOK
  <1>4. Cutting'
    BY <1>3 DEF IInv, Cutting, IsOpen, control
  <1>5. Signed'
    BY <1>3 DEF IInv, Signed
  <1> QED BY <1>1, <1>2, <1>4, <1>5 DEF IInv

\* What Answer gives a request is right if the message is.
LEMMA AnswerIs ==
    ASSUME IInv, NEW r \in Requests, NEW msg, Answer(r, msg), msg # None => Verifies(msg)
    PROVE  \E q \in Request :
              /\ req' = [req EXCEPT ![r] = q]
              /\ q.pc \in {"answered", "lost"}
              /\ q.msg # None => Verifies(q.msg)
  <1> DEFINE pc == IF req[r].age < WriteTimeout THEN "answered" ELSE "lost"
             q == [pc |-> pc, age |-> 0, msg |-> msg]
  <1>1. pc \in {"answered", "lost"} /\ q.pc = pc /\ q.msg = msg
    OBVIOUS
  <1>2. q \in Request
    <2>1. msg \in Message \union {None}
      BY DEF Verifies
    <2>2. 0 \in 0 .. WriteTimeout
      BY DEF WriteTimeout
    <2> QED BY <1>1, <2>1, <2>2 DEF Request
  <1>3. req' = [req EXCEPT ![r] = q]
    BY DEF Answer
  <1> HIDE DEF q
  <1> QED BY <1>1, <1>2, <1>3

LEMMA RequestIInv ==
    ASSUME IInv, RequestStep
    PROVE  IInv'
  <1> PICK r \in Requests :
        \/ Refuse(r) \/ StartGet(r) \/ LookupFinds(r) \/ LookupFails(r) \/ Read(r)
        \/ Write(r) \/ NotWritten(r)
        \/ \E msg \in Message : StartPut(r, msg)
    BY DEF RequestStep
  <1>1. db \in Record \union {None} /\ (db # None => db.seq = db.sig)
    BY DEF IInv, TypeOK, Signed
  <1>2. phase \in {"select", "stopping"}
    BY DEF IInv, Cutting, IsOpen, Accepts, Refuse, StartGet, LookupFinds, LookupFails, Read,
           Write, NotWritten, StartPut
  <1>3. req[r] \in Request /\ req \in [Requests -> Request]
    BY DEF IInv, TypeOK
  <1>4. MessageOf(None) = None
    BY DEF MessageOf
  <1>5. CASE Refuse(r) \/ LookupFinds(r) \/ Read(r) \/ NotWritten(r)
    <2>1. \E msg \in {None, MessageOf(db)} : Answer(r, msg) /\ (msg # None => Verifies(msg))
      BY <1>4, <1>5, MessageVerifies DEF IInv, Refuse, LookupFinds, Read, NotWritten
    <2>2. UNCHANGED <<control, port, pending, signals, stopping, db>>
      BY <1>5 DEF Refuse, LookupFinds, Read, NotWritten
    <2> QED BY <1>1, <1>2, <2>1, <2>2, AnswerIs, OneRequest
  <1>6. CASE Write(r)
    <2>1. Verifies(req[r].msg)
      BY <1>6 DEF IInv, Signed, Write
    <2>2. db' \in Record /\ db'.seq = db'.sig
      BY <1>6, <2>1, RecordSigned DEF Write
    <2>3. UNCHANGED <<control, port, pending, signals, stopping>> /\ Answer(r, None)
      BY <1>6 DEF Write
    <2> QED BY <1>2, <2>2, <2>3, AnswerIs, OneRequest
  <1>7. CASE StartGet(r) \/ LookupFails(r)
    <2>1. PICK pc \in {"lookup", "read"} :
             /\ req' = [req EXCEPT ![r].pc = pc]
             /\ UNCHANGED <<control, port, pending, signals, stopping, db>>
      BY <1>7 DEF StartGet, LookupFails
    <2> DEFINE q == [req[r] EXCEPT !.pc = pc]
    <2>2. q \in Request /\ q.pc = pc /\ q.msg = req[r].msg
      BY <1>3 DEF Request
    <2>3. req' = [req EXCEPT ![r] = q]
      BY <2>1
    <2>4. q.msg # None => Verifies(q.msg)
      BY <2>2 DEF IInv, Signed
    <2> HIDE DEF q
    <2> QED BY <1>1, <1>2, <2>1, <2>2, <2>3, <2>4, OneRequest
  <1>8. CASE \E msg \in Message : StartPut(r, msg)
    <2>1. PICK msg \in Message : StartPut(r, msg)
      BY <1>8
    <2> DEFINE q == [req[r] EXCEPT !.pc = "write", !.msg = msg]
    <2>2. q \in Request /\ q.pc = "write" /\ q.msg = msg
      BY <1>3 DEF Request
    <2>3. req' = [req EXCEPT ![r] = q]
      BY <1>3, <2>1 DEF StartPut
    <2>4. Verifies(msg)
      BY <2>1 DEF StartPut, IsValid, RecordOf, Verifies
    <2>5. UNCHANGED <<control, port, pending, signals, stopping, db>>
      BY <2>1 DEF StartPut
    <2> HIDE DEF q
    <2> QED BY <1>1, <1>2, <2>2, <2>3, <2>4, <2>5, OneRequest
  <1> QED BY <1>5, <1>6, <1>7, <1>8

LEMMA TickIInv ==
    ASSUME IInv, Tick
    PROVE  IInv'
  <1>1. ASSUME NEW r \in Requests
        PROVE  Older(r) \in Request /\ Older(r).pc = req[r].pc /\ Older(r).msg = req[r].msg
    <2>1. req[r] \in Request
      BY DEF IInv, TypeOK
    <2> QED BY <2>1 DEF Older, Request, WriteTimeout
  <1>2. req' = [r \in Requests |-> Older(r)] /\ UNCHANGED <<control, port, pending, signals, db>>
    BY DEF Tick
  <1>3. stopping' \in 0 .. ShutdownTimeout
    BY DEF Tick, IInv, TypeOK, ShutdownTimeout
  <1>4. TypeOK'
    BY <1>1, <1>2, <1>3 DEF IInv, TypeOK, control
  <1>5. Configured' /\ Built'
    BY <1>2 DEF IInv, Configured, Built, control
  <1>6. Cutting' /\ Signed'
    BY <1>1, <1>2 DEF IInv, Cutting, Signed, IsOpen, control
  <1> QED BY <1>4, <1>5, <1>6 DEF IInv

LEMMA StepIInv == IInv /\ [Next]_vars => IInv'
  <1> SUFFICES ASSUME IInv, [Next]_vars PROVE IInv'
    OBVIOUS
  <1>1. CASE UNCHANGED vars
    <2>1. TypeOK' /\ Configured' /\ Built'
      BY <1>1 DEF vars, control, IInv, TypeOK, Configured, Built
    <2>2. Cutting' /\ Signed'
      BY <1>1 DEF vars, control, IInv, Cutting, Signed, IsOpen
    <2> QED BY <2>1, <2>2 DEF IInv
  <1>2. CASE RunStep \/ StartUpCall
    BY <1>2, LoadIInv, NotifyIInv, NewDHTIInv, OpenStorageIInv, NewServiceIInv, AsideIInv, EndsIInv
    DEF RunStep, StartUpCall
  <1>3. CASE Next /\ ~ RunStep /\ ~ StartUpCall
    BY <1>3, RequestIInv, TickIInv, StartAgainIInv, AsideIInv, EndsIInv DEF Next
  <1> QED BY <1>1, <1>2, <1>3

-------------------------------------------------------------------------------
(* Signals                                                                  *)

\* Before the handler is installed a signal is the end of the process.
Heard == (phase \in {"config", "notify"} => signals = 0) /\ SignalKept

\* A signal is counted only when it has been put into the channel, and taken out only
\* to be obeyed.
LEMMA StepHeard == Heard /\ [Next]_vars => Heard'
  <1> SUFFICES ASSUME Heard, [Next]_vars PROVE Heard'
    OBVIOUS
  <1>1. ASSUME UNCHANGED <<phase, signals, pending>> PROVE Heard'
    BY <1>1, Zenon DEF Heard, SignalKept
  <1>2. ASSUME phase' \in Ended PROVE Heard'
    BY <1>2 DEF Heard, SignalKept, Running, Ended
  <1>3. ASSUME NEW how \in Ended, End(how) PROVE Heard'
    BY <1>2, <1>3 DEF End
  <1>4. CASE UNCHANGED vars
    BY <1>1, <1>4 DEF vars, control
  <1>5. CASE \E world \in Worlds : LoadConfiguration(world)
    <2>1. phase = "config" /\ ((phase' = "notify" /\ signals' = signals) \/ End("exit1"))
      BY <1>5 DEF LoadConfiguration
    <2> QED BY <1>3, <2>1 DEF Heard, SignalKept, Ended
  <1>6. CASE Notify
    <2>1. phase' = "dht" /\ signals' = 0
      BY <1>6 DEF Notify, Heard
    <2> QED BY <2>1 DEF Heard, SignalKept
  <1>7. CASE StartUpCall \/ NewService
    <2>1. \/ End("exit1")
          \/ /\ phase \in {"dht", "storage", "service"}
             /\ phase' \in {"storage", "service", "select"}
             /\ UNCHANGED <<signals, pending>>
      BY <1>7 DEF StartUpCall, NewDHT, OpenStorage, NewService
    <2>2. CASE End("exit1")
      BY <1>3, <2>2 DEF Ended
    <2>3. CASE /\ phase \in {"dht", "storage", "service"}
               /\ phase' \in {"storage", "service", "select"}
               /\ UNCHANGED <<signals, pending>>
      <3>1. phase \in Running /\ phase # "stopping" /\ phase' \notin {"config", "notify"}
        BY <2>3 DEF Running
      <3>2. signals > 0 => pending
        BY <3>1, Zenon DEF Heard, SignalKept
      <3>3. signals' = signals /\ pending' = pending
        BY <2>3
      <3>4. SignalKept'
        BY <3>2, <3>3, Zenon DEF SignalKept
      <3> QED BY <3>1, <3>4 DEF Heard
    <2> QED BY <2>1, <2>2, <2>3
  <1>8. CASE TakeSignal
    <2>1. phase' = "stopping"
      BY <1>8 DEF TakeSignal
    <2> QED BY <2>1 DEF Heard, SignalKept
  <1>9. CASE Signal
    <2>1. CASE phase \in {"config", "notify"}
      <3>1. End("killed")
        BY <1>9, <2>1 DEF Signal
      <3> QED BY <1>3, <3>1 DEF Ended
    <2>2. CASE phase \notin {"config", "notify"}
      <3>1. pending' = TRUE /\ phase' = phase
        BY <1>9, <2>2, Zenon DEF Signal, control
      <3>2. SignalKept'
        BY <3>1, Zenon DEF SignalKept
      <3> QED BY <2>2, <3>1, <3>2 DEF Heard
    <2> QED BY <2>1, <2>2
  <1>10. CASE ServerError \/ Shutdown \/ ShutdownFails \/ Kill
    <2>1. \E how \in Ended : End(how)
      BY <1>10 DEF ServerError, Shutdown, ShutdownFails, Kill, Ended
    <2> QED BY <1>3, <2>1
  <1>11. CASE StartAgain
    <2>1. signals' = 0
      BY <1>11 DEF StartAgain
    <2> QED BY <2>1 DEF Heard, SignalKept
  <1>12. CASE RequestStep
    BY <1>1, <1>12 DEF RequestStep, Refuse, StartGet, LookupFinds, LookupFails, Read, Write,
                       NotWritten, StartPut, control
  <1>13. CASE (\E ok \in BOOLEAN : Listen(ok)) \/ Tick \/ OtherProcess
    BY <1>1, <1>13 DEF Listen, Tick, OtherProcess, control
  <1> QED
    BY <1>4, <1>5, <1>6, <1>7, <1>8, <1>9, <1>10, <1>11, <1>12, <1>13 DEF Next, RunStep

-------------------------------------------------------------------------------
\* The types of Server, for any worlds and numbers.
THEOREM TypeCorrect == Spec => []TypeOK
  <1>1. IInv => TypeOK
    BY DEF IInv
  <1> QED BY InitIInv, StepIInv, <1>1, PTL DEF Spec

\* Whatever the environment and the files say, a gateway that accepts requests does so
\* with the storage and the schedule that were asked for, and with the port of the DHT.
THEOREM ServingAsAsked == Spec => []ServesAsAsked
  <1>1. IInv => ServesAsAsked
    BY DEF IInv, Built, ServesAsAsked
  <1> QED BY InitIInv, StepIInv, <1>1, PTL DEF Spec

\* However many requests are open when a signal comes, and however time passes: a
\* process that exits with status 0 has cut nobody off.
THEOREM CleanExits == Spec => []CleanExitAnswersAll
  <1>1. IInv => CleanExitAnswersAll
    BY DEF IInv, Cutting, CleanExitAnswersAll
  <1> QED BY InitIInv, StepIInv, <1>1, PTL DEF Spec

\* For numbers of any width: what readers get verifies.
THEOREM AnswersVerify == Spec => []ServedVerifies
  <1>1. IInv => ServedVerifies
    BY DEF IInv, Signed, Verifies, ServedVerifies
  <1> QED BY InitIInv, StepIInv, <1>1, PTL DEF Spec

\* SignalKept, for any number of signals and in whatever phase each comes: once the
\* handler is installed none is lost before the process stops.
THEOREM SignalsAreKept == Spec => []SignalKept
  <1>1. Init => Heard
    BY DEF Init, Heard, SignalKept
  <1>2. Heard => SignalKept
    BY DEF Heard
  <1> QED BY <1>1, <1>2, StepHeard, PTL DEF Spec

===============================================================================
