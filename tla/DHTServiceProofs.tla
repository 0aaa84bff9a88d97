--------------------------- MODULE DHTServiceProofs ---------------------------
(***************************************************************************)
(* Proofs about DHTService for any sets of ids, records, requests and        *)
(* goroutines, and any combination of faults.                               *)
(***************************************************************************)
EXTENDS DHTService, TLAPS

LEMMA RecordIsDhtRecord == Record \subseteq DhtRecord
  BY DEF Record, DhtRecord

-------------------------------------------------------------------------------
(* The three ways a step updates a slot                                     *)

LEMMA PutToType ==
    ASSUME put \in [Putters -> PutState], NEW p \in Putters, put[p].pc \in PutPC,
           NEW pc \in PutPC, PutTo(p, pc)
    PROVE  /\ put' \in [Putters -> PutState]
           /\ put'[p].pc = pc /\ put'[p].id = put[p].id /\ put'[p].rec = put[p].rec
           /\ put'[p].url = put[p].url
           /\ put[p].id \in Ids /\ put[p].rec \in Record
           /\ put[p].url \in Urls /\ put[p].id = Key[put[p].url]
           /\ \A q \in Putters \ {p} : put'[q] = put[q]
  <1>1. /\ put[p] \in [pc : PutPC, url : Urls, id : Ids, rec : Record]
        /\ put[p].id = Key[put[p].url]
    BY DEF PutState, NoPut, PutPC
  <1>2. /\ [put[p] EXCEPT !.pc = pc] \in [pc : PutPC, url : Urls, id : Ids, rec : Record]
        /\ [put[p] EXCEPT !.pc = pc].id = Key[[put[p] EXCEPT !.pc = pc].url]
    BY <1>1
  <1>3. put' = [put EXCEPT ![p] = [put[p] EXCEPT !.pc = pc]]
    BY DEF PutTo
  <1>4. QED
    BY <1>1, <1>2, <1>3 DEF PutState

\* A GET that is about to cache or return a record has one.
Resolved ==
    \A g \in Getters :
        get[g].pc \in {"fillFromDHT", "fillFromDB", "found"} => get[g].rec \in Record

\* A GET at work.
GetRec(q) ==
    /\ q \in [pc : GetPC, url : Urls, id : Ids, rec : Record \union {None},
              known : SUBSET Record]
    /\ q.id = Key[q.url]

LEMMA GetToType ==
    ASSUME get \in [Getters -> GetState], Resolved,
           NEW g \in Getters, get[g].pc \in GetPC, NEW pc \in GetPC, GetTo(g, pc),
           pc \in {"fillFromDHT", "fillFromDB", "found"} => get[g].rec \in Record
    PROVE  /\ get' \in [Getters -> GetState] /\ Resolved'
           /\ get'[g].pc = pc /\ get'[g].id = get[g].id /\ get'[g].url = get[g].url
           /\ get'[g].rec = get[g].rec /\ get'[g].known = get[g].known
           /\ get[g].id \in Ids /\ get[g].known \subseteq Record
           /\ get[g].url \in Urls /\ get[g].id = Key[get[g].url]
           /\ \A h \in Getters \ {g} : get'[h] = get[h]
  <1>1. GetRec(get[g])
    BY DEF GetState, NoGet, GetPC, GetRec
  <1>2. GetRec([get[g] EXCEPT !.pc = pc])
    BY <1>1 DEF GetRec
  <1>3. get' = [get EXCEPT ![g] = [get[g] EXCEPT !.pc = pc]]
    BY DEF GetTo
  <1>4. /\ get'[g].pc = pc /\ get'[g].id = get[g].id /\ get'[g].url = get[g].url
        /\ get'[g].rec = get[g].rec /\ get'[g].known = get[g].known
    BY <1>1, <1>3 DEF GetRec
  <1>5. \A h \in Getters \ {g} : get'[h] = get[h]
    BY <1>3
  <1>6. Resolved'
    BY <1>4, <1>5 DEF Resolved
  <1>7. get' \in [Getters -> GetState]
    BY <1>2, <1>3 DEF GetState, GetRec
  <1>8. QED
    BY <1>1, <1>4, <1>5, <1>6, <1>7 DEF GetRec

LEMMA ResolveType ==
    ASSUME get \in [Getters -> GetState], Resolved,
           NEW g \in Getters, get[g].pc \in GetPC, NEW pc \in GetPC,
           NEW rec \in Record, Resolve(g, pc, rec)
    PROVE  /\ get' \in [Getters -> GetState] /\ Resolved'
           /\ get'[g].pc = pc /\ get'[g].id = get[g].id /\ get'[g].url = get[g].url
           /\ get'[g].rec = rec /\ get'[g].known = get[g].known
           /\ get[g].id \in Ids /\ get[g].known \subseteq Record
           /\ get[g].url \in Urls /\ get[g].id = Key[get[g].url]
           /\ \A h \in Getters \ {g} : get'[h] = get[h]
  <1>1. GetRec(get[g])
    BY DEF GetState, NoGet, GetPC, GetRec
  <1> DEFINE new == [[get[g] EXCEPT !.pc = pc] EXCEPT !.rec = rec]
  <1>2. GetRec(new)
    BY <1>1 DEF GetRec
  <1>3. get' = [get EXCEPT ![g] = new]
    BY DEF Resolve
  <1>4. /\ get'[g].pc = pc /\ get'[g].id = get[g].id /\ get'[g].url = get[g].url
        /\ get'[g].rec = rec /\ get'[g].known = get[g].known
    BY <1>1, <1>3 DEF GetRec
  <1>5. \A h \in Getters \ {g} : get'[h] = get[h]
    BY <1>3
  <1>6. Resolved'
    BY <1>4, <1>5 DEF Resolved
  <1>7. get' \in [Getters -> GetState]
    BY <1>2, <1>3 DEF GetState, GetRec
  <1>8. QED
    BY <1>1, <1>4, <1>5, <1>6, <1>7 DEF GetRec

-------------------------------------------------------------------------------
(* Type correctness                                                         *)

TypeInv == TypeOK /\ Resolved

LEMMA TypeInit == Init => TypeInv
  BY DEF Init, TypeInv, TypeOK, Resolved, PutState, GetState, NoGet

LEMMA TypePut == TypeInv /\ PutNext => TypeInv'
  <1> SUFFICES ASSUME TypeInv, PutNext PROVE TypeInv'
    OBVIOUS
  <1> USE DEF TypeInv, TypeOK, Resolved
  <1>1. ASSUME NEW p \in Putters, NEW url \in Urls, NEW rec \in Record,
               NEW valid \in BOOLEAN, StartPut(p, url, rec, valid)
        PROVE  TypeInv'
    <2> DEFINE new == [pc |-> IF valid THEN "checkCache" ELSE "refused",
                       url |-> url, id |-> Key[url], rec |-> rec]
    <2>1. new \in PutState
      BY KeyAssumption DEF PutState, PutPC
    <2>2. put' \in [Putters -> PutState]
      BY <1>1, <2>1 DEF StartPut
    <2>3. QED
      BY <1>1, <2>2 DEF StartPut
  <1>2. ASSUME NEW p \in Putters, CheckPutCache(p) PROVE TypeInv'
    <2>1. \E pc \in PutPC : PutTo(p, pc)
      BY <1>2 DEF CheckPutCache, PutPC
    <2>2. put' \in [Putters -> PutState] /\ put[p].id \in Ids /\ put[p].rec \in Record
      BY <1>2, <2>1, PutToType DEF CheckPutCache, PutPC
    <2>3. QED
      BY <1>2, <2>2 DEF CheckPutCache
  <1>3. ASSUME NEW p \in Putters, WriteRecord(p) PROVE TypeInv'
    <2>1. \E pc \in PutPC : PutTo(p, pc)
      BY <1>3 DEF WriteRecord, PutPC
    <2>2. put' \in [Putters -> PutState] /\ put[p].id \in Ids /\ put[p].rec \in Record
      BY <1>3, <2>1, PutToType DEF WriteRecord, PutPC
    <2>3. QED
      BY <1>3, <2>2 DEF WriteRecord, Hold
  <1>4. ASSUME NEW p \in Putters, SetCache(p) PROVE TypeInv'
    <2>1. \E pc \in PutPC : PutTo(p, pc)
      BY <1>4 DEF SetCache, PutPC
    <2>2. /\ put' \in [Putters -> PutState] /\ put[p].id \in Ids /\ put[p].rec \in Record
          /\ put[p].url \in Urls
      BY <1>4, <2>1, PutToType DEF SetCache, PutPC
    <2>3. QED
      BY <1>4, <2>2 DEF SetCache
  <1>5. QED
    BY <1>1, <1>2, <1>3, <1>4 DEF PutNext

LEMMA TypeGet == TypeInv /\ GetNext => TypeInv'
  <1> SUFFICES ASSUME TypeInv, GetNext PROVE TypeInv'
    OBVIOUS
  <1> USE DEF TypeInv, TypeOK
  <1>1. ASSUME NEW g \in Getters, NEW url \in Urls, StartGet(g, url) PROVE TypeInv'
    <2> DEFINE new == [pc |-> "checkBad", url |-> url, id |-> Key[url], rec |-> None,
                       known |-> acked[Key[url]]]
    <2>1. new \in GetState
      BY KeyAssumption DEF GetState, GetPC
    <2>2. get' = [get EXCEPT ![g] = new]
      BY <1>1 DEF StartGet
    <2>3. get' \in [Getters -> GetState]
      BY <2>1, <2>2
    <2>4. Resolved'
      BY <2>2 DEF Resolved
    <2>5. QED
      BY <1>1, <2>3, <2>4 DEF StartGet
  <1>2. ASSUME NEW g \in Getters, CheckBadGet(g) PROVE TypeInv'
    <2>1. get' \in [Getters -> GetState] /\ Resolved'
      BY <1>2, GetToType DEF CheckBadGet, GetPC
    <2>2. QED
      BY <1>2, <2>1 DEF CheckBadGet
  <1>3. ASSUME NEW g \in Getters, CheckGetCache(g) PROVE TypeInv'
    <2>1. get[g].url \in Urls
      BY <1>3 DEF CheckGetCache, GetState, GetPC, NoGet
    <2>2. get' \in [Getters -> GetState] /\ Resolved'
      <3>1. CASE cache[get[g].url] # None
        <4>1. cache[get[g].url] \in Record
          BY <2>1, <3>1
        <4>2. Resolve(g, "found", cache[get[g].url]) /\ get[g].pc \in GetPC
          BY <1>3, <3>1 DEF CheckGetCache, GetPC
        <4>3. QED
          BY <4>1, <4>2, ResolveType DEF GetPC
      <3>2. CASE cache[get[g].url] = None
        BY <1>3, <3>2, GetToType DEF CheckGetCache, GetPC
      <3>3. QED
        BY <3>1, <3>2
    <2>3. QED
      BY <1>3, <2>2 DEF CheckGetCache
  <1>4. ASSUME NEW g \in Getters, Lookup(g) PROVE TypeInv'
    <2>1. get[g].pc \in GetPC
      BY <1>4 DEF Lookup, GetPC
    <2>2. get' \in [Getters -> GetState] /\ Resolved'
      <3>1. CASE \E r \in Record : Resolve(g, "fillFromDHT", r)
        BY <2>1, <3>1, ResolveType DEF GetPC
      <3>2. CASE \E pc \in {"failed", "read"} : GetTo(g, pc)
        BY <2>1, <3>2, GetToType DEF GetPC
      <3>3. QED
        BY <1>4, <3>1, <3>2 DEF Lookup
    <2>3. QED
      BY <1>4, <2>2 DEF Lookup
  <1>5. ASSUME NEW g \in Getters, ReadRecord(g) PROVE TypeInv'
    <2>1. get[g].id \in Ids /\ get[g].pc \in GetPC
      BY <1>5 DEF ReadRecord, GetState, GetPC, NoGet
    <2>2. get' \in [Getters -> GetState] /\ Resolved'
      <3>1. CASE db[get[g].id] # None /\ Resolve(g, "fillFromDB", db[get[g].id])
        <4>1. db[get[g].id] \in Record
          BY <2>1, <3>1
        <4>2. QED
          BY <2>1, <3>1, <4>1, ResolveType DEF GetPC
      <3>2. CASE GetTo(g, "miss")
        BY <2>1, <3>2, GetToType DEF GetPC
      <3>3. QED
        BY <1>5, <3>1, <3>2 DEF ReadRecord
    <2>3. QED
      BY <1>5, <2>2 DEF ReadRecord
  <1>6. ASSUME NEW g \in Getters, Miss(g) PROVE TypeInv'
    <2>1. get[g].url \in Urls /\ get[g].pc \in GetPC
      BY <1>6 DEF Miss, GetState, GetPC, NoGet
    <2>2. \E pc \in {"notFound", "failed"} : GetTo(g, pc)
      BY <1>6 DEF Miss
    <2>3. get' \in [Getters -> GetState] /\ Resolved'
      BY <2>1, <2>2, GetToType DEF GetPC
    <2>4. QED
      BY <1>6, <2>1, <2>3 DEF Miss
  <1>7. ASSUME NEW g \in Getters, FillFromDHT(g) PROVE TypeInv'
    <2>1. get[g].rec \in Record /\ get[g].pc \in GetPC
      BY <1>7 DEF FillFromDHT, Resolved, GetPC
    <2>2. get' \in [Getters -> GetState] /\ Resolved'
      BY <1>7, <2>1, GetToType DEF FillFromDHT, GetPC
    <2>3. get[g].url \in Urls
      BY <1>7 DEF FillFromDHT, GetState, NoGet
    <2>4. QED
      BY <1>7, <2>1, <2>2, <2>3 DEF FillFromDHT, AddRecordToCache
  <1>8. ASSUME NEW g \in Getters, FillFromDB(g) PROVE TypeInv'
    <2>1. get[g].rec \in Record /\ get[g].pc \in GetPC
      BY <1>8 DEF FillFromDB, Resolved, GetPC
    <2>2. \E pc \in {"found", "failed"} : GetTo(g, pc)
      BY <1>8 DEF FillFromDB
    <2>3. get' \in [Getters -> GetState] /\ Resolved'
      BY <2>1, <2>2, GetToType DEF GetPC
    <2>4. get[g].url \in Urls
      BY <1>8 DEF FillFromDB, GetState, NoGet
    <2>5. QED
      BY <1>8, <2>1, <2>3, <2>4 DEF FillFromDB, AddRecordToCache
  <1>9. QED
    BY <1>1, <1>2, <1>3, <1>4, <1>5, <1>6, <1>7, <1>8 DEF GetNext

LEMMA TypeEnv == TypeInv /\ EnvNext => TypeInv'
  <1> SUFFICES ASSUME TypeInv, EnvNext PROVE TypeInv'
    OBVIOUS
  <1> USE DEF TypeInv, TypeOK, Resolved
  <1>1. ASSUME NEW w \in Workers, NEW taken \in BOOLEAN, AsyncPut(w, taken)
        PROVE  TypeInv'
    <2>1. async[w] \in Ids \X Record
      BY <1>1 DEF AsyncPut
    <2>2. dht' \in [Ids -> SUBSET DhtRecord]
      BY <1>1, <2>1, RecordIsDhtRecord DEF AsyncPut
    <2>3. QED
      BY <1>1, <2>2 DEF AsyncPut
  <1>2. ASSUME NEW id \in Foreign, NEW rec \in DhtRecord, ExternalPut(id, rec)
        PROVE  TypeInv'
    BY <1>2, ForeignAssumption DEF ExternalPut
  <1>3. ASSUME NEW id \in Ids, NEW rec \in DhtRecord, DhtForget(id, rec)
        PROVE  TypeInv'
    BY <1>3 DEF DhtForget
  <1>4. ASSUME NEW url \in Urls, CacheEvict(url) PROVE TypeInv'
    BY <1>4 DEF CacheEvict
  <1>5. ASSUME NEW url \in Urls, BadGetExpire(url) PROVE TypeInv'
    BY <1>5 DEF BadGetExpire
  <1>6. ASSUME Restart PROVE TypeInv'
    BY <1>6 DEF Restart, PutState, GetState, NoGet
  <1>7. ASSUME NEW id \in Ids, NEW rec \in Record, RepublishPut(id, rec)
        PROVE  TypeInv'
    BY <1>7, RecordIsDhtRecord DEF RepublishPut
  <1>8. QED
    BY <1>1, <1>2, <1>3, <1>4, <1>5, <1>6, <1>7 DEF EnvNext

LEMMA TypeStep == TypeInv /\ [Next]_vars => TypeInv'
  <1>1. TypeInv /\ UNCHANGED vars => TypeInv'
    BY DEF TypeInv, TypeOK, Resolved, vars
  <1>2. QED
    BY TypePut, TypeGet, TypeEnv, <1>1 DEF Next

\* The variables keep their types, whatever is interleaved and whatever fails.
THEOREM TypeCorrect == Spec => []TypeOK
  <1>1. Spec => []TypeInv
    BY TypeInit, TypeStep, PTL DEF Spec
  <1>2. QED
    BY <1>1, PTL DEF TypeInv

-------------------------------------------------------------------------------
(* Everything this gateway holds of a native id was written to its storage. *)
(* AckedIsStored alone is not inductive: a PUT may be acknowledged from the *)
(* cache, the cache is filled from the DHT, and the DHT from goroutines.    *)

CacheHeld == \A url \in Urls :
                Key[url] \in Native => cache[url] \in stored[Key[url]] \union {None}
DhtHeld   == \A id \in Native : dht[id] \subseteq stored[id]
AckedHeld == \A id \in Native : acked[id] \subseteq stored[id]
DbHeld    == \A id \in Ids :
                /\ db[id] \in stored[id] \union {None}
                /\ stored[id] # {} => db[id] # None
AsyncHeld == \A w \in Workers : async[w] # None => async[w][2] \in stored[async[w][1]]
PutHeld   == \A p \in Putters : put[p].pc = "set" => put[p].rec \in stored[put[p].id]
GetHeld   == \A g \in Getters :
                get[g].pc \in {"fillFromDHT", "fillFromDB", "found"} /\ get[g].id \in Native
                    => get[g].rec \in stored[get[g].id]

Held == CacheHeld /\ DhtHeld /\ AckedHeld /\ DbHeld /\ AsyncHeld /\ PutHeld /\ GetHeld

LEMMA HeldInit == Init => Held
  BY DEF Init, Held, CacheHeld, DhtHeld, AckedHeld, DbHeld, AsyncHeld, PutHeld, GetHeld,
         NoPut, NoGet, Native

LEMMA HeldPut == TypeInv /\ Held /\ PutNext => Held'
  <1> SUFFICES ASSUME TypeInv, Held, PutNext PROVE Held'
    OBVIOUS
  <1> USE DEF TypeInv, TypeOK, Held, Native
  <1>1. ASSUME NEW p \in Putters, NEW url \in Urls, NEW rec \in Record,
               NEW valid \in BOOLEAN, StartPut(p, url, rec, valid)
        PROVE  Held'
    <2>1. PutHeld'
      BY <1>1 DEF StartPut, PutHeld
    <2>2. QED
      BY <1>1, <2>1 DEF StartPut, CacheHeld, DhtHeld, AckedHeld, DbHeld, AsyncHeld, GetHeld
  <1>2. ASSUME NEW p \in Putters, CheckPutCache(p) PROVE Held'
    <2>1. PICK pc \in {"acked", "write"} : PutTo(p, pc)
      BY <1>2 DEF CheckPutCache
    <2>2. /\ put[p].id \in Ids /\ put[p].rec \in Record
          /\ put[p].url \in Urls /\ put[p].id = Key[put[p].url]
          /\ put'[p].pc = pc /\ \A q \in Putters \ {p} : put'[q] = put[q]
      BY <1>2, <2>1, PutToType DEF CheckPutCache, PutPC
    <2>3. PutHeld'
      BY <1>2, <2>2 DEF CheckPutCache, PutHeld
    <2>4. AckedHeld'
      <3>1. CASE cache[put[p].url] = put[p].rec
        <4>1. put[p].id \in Native => put[p].rec \in stored[put[p].id]
          BY <2>2, <3>1, NoneAssumption, RecordIsDhtRecord DEF CacheHeld
        <4>2. QED
          BY <1>2, <2>2, <4>1 DEF CheckPutCache, AckedHeld, Equals
      <3>2. CASE cache[put[p].url] # put[p].rec
        BY <1>2, <3>2 DEF CheckPutCache, AckedHeld, Equals
      <3>3. QED
        BY <3>1, <3>2
    <2>5. QED
      BY <1>2, <2>3, <2>4 DEF CheckPutCache, CacheHeld, DhtHeld, DbHeld, AsyncHeld, GetHeld
  <1>3. ASSUME NEW p \in Putters, WriteRecord(p) PROVE Held'
    <2>1. PICK pc \in {"set", "failed"} : PutTo(p, pc)
      BY <1>3 DEF WriteRecord
    <2>2. /\ put[p].id \in Ids /\ put[p].rec \in Record
          /\ put'[p].pc = pc /\ put'[p].id = put[p].id /\ put'[p].rec = put[p].rec
          /\ \A q \in Putters \ {p} : put'[q] = put[q]
      BY <1>3, <2>1, PutToType DEF WriteRecord, PutPC
    <2>3. \/ Hold(put[p].id, put[p].rec)
          \/ UNCHANGED <<db, stored>> /\ put'[p].pc = "failed"
      <3>1. \/ Hold(put[p].id, put[p].rec)
            \/ UNCHANGED <<db, stored>> /\ PutTo(p, "failed")
        BY <1>3 DEF WriteRecord, Hold
      <3>2. PutTo(p, "failed") => put'[p].pc = "failed"
        BY <1>3, PutToType DEF WriteRecord, PutPC
      <3>3. QED
        BY <3>1, <3>2
    <2>4. \A id \in Ids : stored[id] \subseteq stored'[id]
      BY <2>2, <2>3 DEF Hold
    <2>5. PutHeld'
      <3>1. ASSUME NEW q \in Putters, q # p, put'[q].pc = "set"
            PROVE  put'[q].rec \in stored'[put'[q].id]
        <4>1. put[q].id \in Ids
          BY <2>2, <3>1 DEF PutState, NoPut
        <4>2. QED
          BY <2>2, <2>4, <3>1, <4>1 DEF PutHeld
      <3>2. put'[p].pc = "set" => put'[p].rec \in stored'[put'[p].id]
        BY <2>2, <2>3 DEF Hold
      <3>3. QED
        BY <3>1, <3>2 DEF PutHeld
    <2>6. DbHeld'
      BY <2>2, <2>3, NoneAssumption, RecordIsDhtRecord DEF DbHeld, Hold
    <2>7. AsyncHeld'
      BY <1>3, <2>4 DEF WriteRecord, AsyncHeld
    <2>8. QED
      BY <1>3, <2>4, <2>5, <2>6, <2>7
      DEF WriteRecord, CacheHeld, DhtHeld, AckedHeld, GetHeld
  <1>4. ASSUME NEW p \in Putters, SetCache(p) PROVE Held'
    <2>1. PICK pc \in {"acked", "failed"} : PutTo(p, pc)
      BY <1>4 DEF SetCache
    <2>2. /\ put[p].id \in Ids /\ put[p].rec \in Record
          /\ put[p].url \in Urls /\ put[p].id = Key[put[p].url]
          /\ put'[p].pc = pc /\ \A q \in Putters \ {p} : put'[q] = put[q]
      BY <1>4, <2>1, PutToType DEF SetCache, PutPC
    <2>3. put[p].rec \in stored[put[p].id]
      BY <1>4 DEF SetCache, PutHeld
    <2>4. PutHeld'
      BY <1>4, <2>2 DEF SetCache, PutHeld
    <2>5. AsyncHeld'
      BY <1>4, <2>2, <2>3 DEF SetCache, AsyncHeld
    <2>6. CacheHeld' /\ AckedHeld'
      BY <1>4, <2>2, <2>3 DEF SetCache, CacheHeld, AckedHeld
    <2>7. QED
      BY <1>4, <2>4, <2>5, <2>6 DEF SetCache, DhtHeld, DbHeld, GetHeld
  <1>5. QED
    BY <1>1, <1>2, <1>3, <1>4 DEF PutNext

\* A GET step leaves the storage alone; what is left to show is that it takes
\* its record from a place that is already known to hold stored ones only.
LEMMA HeldGetFrame ==
    ASSUME TypeInv, Held, UNCHANGED <<db, dht, put, async, stored, acked>>,
           CacheHeld', GetHeld'
    PROVE  Held'
  BY DEF Held, DhtHeld, AckedHeld, DbHeld, AsyncHeld, PutHeld

LEMMA HeldGet == TypeInv /\ Held /\ GetNext => Held'
  <1> SUFFICES ASSUME TypeInv, Held, GetNext PROVE Held'
    OBVIOUS
  <1> USE DEF TypeInv, TypeOK, Held, Native
  <1>1. ASSUME NEW g \in Getters, NEW url \in Urls, StartGet(g, url) PROVE Held'
    BY <1>1, HeldGetFrame DEF StartGet, CacheHeld, GetHeld
  <1>2. ASSUME NEW g \in Getters, NEW pc \in GetPC, GetTo(g, pc), get[g].pc \in GetPC,
               get[g].id \in Native /\ pc \in {"fillFromDHT", "fillFromDB", "found"}
                   => get[g].rec \in Record /\ get[g].rec \in stored[get[g].id],
               pc \in {"fillFromDHT", "fillFromDB", "found"} => get[g].rec \in Record,
               UNCHANGED stored
        PROVE  GetHeld'
    BY <1>2, GetToType DEF GetHeld
  <1>3. ASSUME NEW g \in Getters, NEW pc \in GetPC, NEW rec \in Record,
               Resolve(g, pc, rec), get[g].pc \in GetPC,
               get[g].id \in Native => rec \in stored[get[g].id],
               UNCHANGED stored
        PROVE  GetHeld'
    BY <1>3, ResolveType DEF GetHeld
  <1>4. ASSUME NEW g \in Getters, get[g].rec \in Record, get[g].url \in Urls,
               get[g].id = Key[get[g].url],
               get[g].id \in Native => get[g].rec \in stored[get[g].id],
               AddRecordToCache(g) \/ UNCHANGED cache, UNCHANGED stored
        PROVE  CacheHeld'
    BY <1>4 DEF CacheHeld, AddRecordToCache
  <1>5. ASSUME NEW g \in Getters, CheckBadGet(g) PROVE Held'
    <2>1. GetHeld'
      BY <1>2, <1>5 DEF CheckBadGet, GetPC
    <2>2. QED
      BY <1>5, <2>1, HeldGetFrame DEF CheckBadGet, CacheHeld
  <1>6. ASSUME NEW g \in Getters, CheckGetCache(g) PROVE Held'
    <2>1. /\ get[g].url \in Urls /\ get[g].id = Key[get[g].url]
          /\ get[g].id \in Ids /\ get[g].pc \in GetPC
      BY <1>6 DEF CheckGetCache, GetState, GetPC, NoGet
    <2>2. GetHeld'
      <3>1. CASE cache[get[g].url] # None
        <4>1. cache[get[g].url] \in Record
          BY <2>1, <3>1
        <4>2. get[g].id \in Native => cache[get[g].url] \in stored[get[g].id]
          BY <2>1, <3>1 DEF CacheHeld
        <4>3. Resolve(g, "found", cache[get[g].url])
          BY <1>6, <3>1 DEF CheckGetCache
        <4>4. QED
          BY <1>3, <1>6, <2>1, <4>1, <4>2, <4>3 DEF CheckGetCache, GetPC
      <3>2. CASE cache[get[g].url] = None
        BY <1>2, <1>6, <2>1, <3>2 DEF CheckGetCache, GetPC
      <3>3. QED
        BY <3>1, <3>2
    <2>3. QED
      BY <1>6, <2>2, HeldGetFrame DEF CheckGetCache, CacheHeld
  <1>7. ASSUME NEW g \in Getters, Lookup(g) PROVE Held'
    <2>1. get[g].pc \in GetPC
      BY <1>7 DEF Lookup, GetPC
    <2>2. GetHeld'
      <3>1. CASE \E r \in dht[get[g].id] : r \in Record /\ Resolve(g, "fillFromDHT", r)
        <4>1. PICK r \in dht[get[g].id] : r \in Record /\ Resolve(g, "fillFromDHT", r)
          BY <3>1
        <4>2. get[g].id \in Native => r \in stored[get[g].id]
          BY <4>1 DEF DhtHeld
        <4>3. QED
          BY <1>3, <1>7, <2>1, <4>1, <4>2 DEF Lookup, GetPC
      <3>2. CASE \E pc \in {"failed", "read"} : GetTo(g, pc)
        BY <1>2, <1>7, <2>1, <3>2 DEF Lookup, GetPC
      <3>3. QED
        BY <1>7, <3>1, <3>2 DEF Lookup
    <2>3. QED
      BY <1>7, <2>2, HeldGetFrame DEF Lookup, CacheHeld
  <1>8. ASSUME NEW g \in Getters, ReadRecord(g) PROVE Held'
    <2>1. get[g].id \in Ids /\ get[g].pc \in GetPC
      BY <1>8 DEF ReadRecord, GetState, GetPC, NoGet
    <2>2. GetHeld'
      <3>1. CASE db[get[g].id] # None /\ Resolve(g, "fillFromDB", db[get[g].id])
        <4>1. db[get[g].id] \in Record /\ db[get[g].id] \in stored[get[g].id]
          BY <2>1, <3>1 DEF DbHeld
        <4>2. QED
          BY <1>3, <1>8, <2>1, <3>1, <4>1 DEF ReadRecord, GetPC
      <3>2. CASE GetTo(g, "miss")
        BY <1>2, <1>8, <2>1, <3>2 DEF ReadRecord, GetPC
      <3>3. QED
        BY <1>8, <3>1, <3>2 DEF ReadRecord
    <2>3. QED
      BY <1>8, <2>2, HeldGetFrame DEF ReadRecord, CacheHeld
  <1>9. ASSUME NEW g \in Getters, Miss(g) PROVE Held'
    <2>1. \E pc \in {"notFound", "failed"} : GetTo(g, pc)
      BY <1>9 DEF Miss
    <2>2. GetHeld'
      BY <1>2, <1>9, <2>1 DEF Miss, GetPC
    <2>3. QED
      BY <1>9, <2>2, HeldGetFrame DEF Miss, CacheHeld
  <1>10. ASSUME NEW g \in Getters, FillFromDHT(g) \/ FillFromDB(g) PROVE Held'
    <2>1. /\ get[g].url \in Urls /\ get[g].id = Key[get[g].url]
          /\ get[g].rec \in Record /\ get[g].pc \in GetPC
          /\ get[g].id \in Native => get[g].rec \in stored[get[g].id]
      BY <1>10 DEF FillFromDHT, FillFromDB, Resolved, GetHeld, GetState, NoGet, GetPC
    <2>2. /\ UNCHANGED <<db, dht, put, async, stored, acked>>
          /\ AddRecordToCache(g) \/ UNCHANGED cache
          /\ \E pc \in {"found", "failed"} : GetTo(g, pc)
      BY <1>10 DEF FillFromDHT, FillFromDB, AddRecordToCache
    <2>3. GetHeld'
      BY <1>2, <2>1, <2>2 DEF GetPC
    <2>4. CacheHeld'
      BY <1>4, <2>1, <2>2
    <2>5. QED
      BY <2>2, <2>3, <2>4, HeldGetFrame
  <1>11. QED
    BY <1>1, <1>5, <1>6, <1>7, <1>8, <1>9, <1>10 DEF GetNext

LEMMA HeldEnv == TypeInv /\ Held /\ EnvNext => Held'
  <1> SUFFICES ASSUME TypeInv, Held, EnvNext PROVE Held'
    OBVIOUS
  <1> USE DEF TypeInv, TypeOK, Held, Native
  <1>1. ASSUME NEW w \in Workers, NEW taken \in BOOLEAN, AsyncPut(w, taken)
        PROVE  Held'
    <2>1. async[w] \in Ids \X Record /\ async[w][2] \in stored[async[w][1]]
      BY <1>1 DEF AsyncPut, AsyncHeld
    <2>2. DhtHeld'
      BY <1>1, <2>1 DEF AsyncPut, DhtHeld
    <2>3. AsyncHeld'
      BY <1>1 DEF AsyncPut, AsyncHeld
    <2>4. QED
      BY <1>1, <2>2, <2>3 DEF AsyncPut, CacheHeld, AckedHeld, DbHeld, PutHeld, GetHeld
  <1>2. ASSUME NEW id \in Foreign, NEW rec \in DhtRecord, ExternalPut(id, rec)
        PROVE  Held'
    BY <1>2, ForeignAssumption
    DEF ExternalPut, CacheHeld, DhtHeld, AckedHeld, DbHeld, AsyncHeld, PutHeld, GetHeld
  <1>3. ASSUME NEW id \in Ids, NEW rec \in DhtRecord, DhtForget(id, rec)
        PROVE  Held'
    BY <1>3
    DEF DhtForget, CacheHeld, DhtHeld, AckedHeld, DbHeld, AsyncHeld, PutHeld, GetHeld
  <1>4. ASSUME NEW url \in Urls, CacheEvict(url) PROVE Held'
    BY <1>4
    DEF CacheEvict, CacheHeld, DhtHeld, AckedHeld, DbHeld, AsyncHeld, PutHeld, GetHeld
  <1>5. ASSUME NEW url \in Urls, BadGetExpire(url) PROVE Held'
    BY <1>5
    DEF BadGetExpire, CacheHeld, DhtHeld, AckedHeld, DbHeld, AsyncHeld, PutHeld, GetHeld
  <1>6. ASSUME Restart PROVE Held'
    BY <1>6
    DEF Restart, CacheHeld, DhtHeld, AckedHeld, DbHeld, AsyncHeld, PutHeld, GetHeld,
        NoPut, NoGet
  <1>7. ASSUME NEW id \in Ids, NEW rec \in Record, RepublishPut(id, rec)
        PROVE  Held'
    BY <1>7
    DEF RepublishPut, CacheHeld, DhtHeld, AckedHeld, DbHeld, AsyncHeld, PutHeld, GetHeld
  <1>8. QED
    BY <1>1, <1>2, <1>3, <1>4, <1>5, <1>6, <1>7 DEF EnvNext

LEMMA HeldStep == TypeInv /\ Held /\ [Next]_vars => Held'
  <1>1. Held /\ UNCHANGED vars => Held'
    BY DEF Held, CacheHeld, DhtHeld, AckedHeld, DbHeld, AsyncHeld, PutHeld, GetHeld, vars
  <1>2. QED
    BY HeldPut, HeldGet, HeldEnv, <1>1 DEF Next

LEMMA Holding == Spec => [](TypeInv /\ Held)
  <1>1. Init => TypeInv /\ Held
    BY TypeInit, HeldInit
  <1>2. TypeInv /\ Held /\ [Next]_vars => (TypeInv /\ Held)'
    BY TypeStep, HeldStep
  <1>3. QED
    BY <1>1, <1>2, PTL DEF Spec

\* No PUT of a native id is acknowledged that the storage never took, with any
\* number of requests, evictions, restarts and failing calls.
THEOREM AckedWasStored == Spec => []AckedIsStored
  <1>1. Held => AckedIsStored
    BY DEF Held, AckedHeld, AckedIsStored
  <1>2. QED
    BY Holding, <1>1, PTL

\* No GET of a native id returns a record that was not stored.
THEOREM ServedWasStored == Spec => []ServedIsStored
  <1>1. Held => ServedIsStored
    BY DEF Held, GetHeld, ServedIsStored
  <1>2. QED
    BY Holding, <1>1, PTL

-------------------------------------------------------------------------------
(* Postgres: the first record of an id is its only one                      *)

OneRecord == \A id \in Ids : stored[id] \subseteq {db[id]}

LEMMA OneRecordStep ==
    ASSUME ~ Bolt, TypeInv, Held, OneRecord, [Next]_vars
    PROVE  OneRecord'
  <1> USE DEF TypeInv, TypeOK
  <1>1. ASSUME NEW p \in Putters, WriteRecord(p) PROVE OneRecord'
    <2>1. put[p].id \in Ids /\ put[p].rec \in Record
      BY <1>1 DEF WriteRecord, PutState, NoPut
    <2>2. CASE UNCHANGED <<db, stored>>
      BY <2>2 DEF OneRecord
    <2>3. CASE CanWrite(put[p].id) /\ Hold(put[p].id, put[p].rec)
      <3>1. stored[put[p].id] = {}
        BY <2>1, <2>3 DEF CanWrite, Held, DbHeld
      <3>2. QED
        BY <2>1, <2>3, <3>1 DEF Hold, OneRecord
    <2>4. QED
      BY <1>1, <2>2, <2>3 DEF WriteRecord, Hold
  <1>2. CASE UNCHANGED <<db, stored>>
    BY <1>2 DEF OneRecord
  <1>3. ASSUME PutNext, \A p \in Putters : ~ WriteRecord(p) PROVE UNCHANGED <<db, stored>>
    BY <1>3 DEF PutNext, StartPut, CheckPutCache, SetCache
  <1>4. ASSUME GetNext PROVE UNCHANGED <<db, stored>>
    BY <1>4 DEF GetNext, StartGet, CheckBadGet, CheckGetCache, Lookup, ReadRecord, Miss,
                FillFromDHT, FillFromDB
  <1>5. ASSUME EnvNext PROVE UNCHANGED <<db, stored>>
    BY <1>5 DEF EnvNext, AsyncPut, ExternalPut, RepublishPut, DhtForget, CacheEvict, BadGetExpire, Restart
  <1>6. QED
    BY <1>1, <1>2, <1>3, <1>4, <1>5 DEF Next, vars

\* Whatever is served, acknowledged or on its way to the DHT is what the storage holds.
CopiesAgree ==
    /\ \A id \in Native : acked[id] \subseteq {db[id]}
    /\ \A url \in Urls : Key[url] \in Native => cache[url] \in {None, db[Key[url]]}
    /\ \A g \in Getters :
          get[g].pc = "found" /\ get[g].id \in Native => get[g].rec = db[get[g].id]
    /\ \A w \in Workers :
          async[w] # None /\ async[w][1] \in Native => async[w][2] = db[async[w][1]]

\* With the UNIQUE key of Postgres, which lets no update in, every answer, cache entry and pending DHT put
\* of a native id agrees with the storage.
THEOREM OnlyRecordServed ==
    ASSUME ~ Bolt
    PROVE  Spec => []CopiesAgree
  <1>1. Init => OneRecord
    BY DEF Init, OneRecord
  <1>2. TypeInv /\ Held /\ OneRecord /\ [Next]_vars => OneRecord'
    BY OneRecordStep
  <1>3. TypeInv /\ Held /\ OneRecord => CopiesAgree
    <2> SUFFICES ASSUME TypeInv, Held, OneRecord PROVE CopiesAgree
      OBVIOUS
    <2>1. /\ \A id \in Native : acked[id] \subseteq {db[id]}
          /\ \A url \in Urls : Key[url] \in Native => cache[url] \in {None, db[Key[url]]}
      BY DEF Held, AckedHeld, CacheHeld, OneRecord, Native
    <2>2. \A g \in Getters :
            get[g].pc = "found" /\ get[g].id \in Native => get[g].rec = db[get[g].id]
      BY DEF Held, GetHeld, OneRecord, Native
    <2>3. \A w \in Workers :
            async[w] # None /\ async[w][1] \in Native => async[w][2] = db[async[w][1]]
      BY DEF Held, AsyncHeld, OneRecord, Native
    <2>4. QED
      BY <2>1, <2>2, <2>3 DEF CopiesAgree
  <1>4. QED
    BY Holding, <1>1, <1>2, <1>3, PTL DEF Spec

-------------------------------------------------------------------------------
(* A resolution that finds nothing                                          *)

\* What a GET knew on arrival is still acknowledged, hence stored, hence in the
\* storage when the GET comes to read it.
KnownAcked ==
    \A g \in Getters : get[g].pc # "idle" => get[g].known \subseteq acked[get[g].id]
MissUnknown ==
    \A g \in Getters :
        get[g].pc \in {"miss", "notFound"} /\ get[g].id \in Native /\ Readable(get[g].url)
            => get[g].known = {}

Missing == KnownAcked /\ MissUnknown

\* A step that moves one GET on, leaving what it asked for and the history alone.
LEMMA MissingMove ==
    ASSUME TypeInv, Missing, NEW g \in Getters, get[g].pc # "idle", UNCHANGED acked,
           get'[g].id = get[g].id, get'[g].url = get[g].url, get'[g].known = get[g].known,
           get'[g].pc \in {"miss", "notFound"} =>
               get[g].pc \in {"miss", "notFound"}
               \/ (get[g].id \in Native /\ Readable(get[g].url) => get[g].known = {}),
           \A h \in Getters \ {g} : get'[h] = get[h]
    PROVE  Missing'
  <1> USE DEF Missing, Native
  <1>1. KnownAcked'
    BY DEF KnownAcked
  <1>2. MissUnknown'
    BY DEF MissUnknown, Readable
  <1>3. QED
    BY <1>1, <1>2

LEMMA MissingGet ==
    ASSUME "read" \notin Faults, TypeInv, Held, Missing, GetNext
    PROVE  Missing'
  <1> USE DEF TypeInv, TypeOK
  <1>1. ASSUME NEW g \in Getters, NEW url \in Urls, StartGet(g, url) PROVE Missing'
    BY <1>1 DEF StartGet, Missing, KnownAcked, MissUnknown
  <1>2. ASSUME NEW g \in Getters, NEW pc \in GetPC, GetTo(g, pc), get[g].pc \in GetPC,
               pc \in {"fillFromDHT", "fillFromDB", "found"} => get[g].rec \in Record,
               pc = "notFound" => get[g].pc = "miss",
               pc = "miss" /\ get[g].id \in Native /\ Readable(get[g].url) => get[g].known = {},
               UNCHANGED acked
        PROVE  Missing'
    <2>1. get[g].pc # "idle"
      BY <1>2 DEF GetPC
    <2>2. /\ get'[g].pc = pc /\ get'[g].id = get[g].id /\ get'[g].known = get[g].known
          /\ get'[g].url = get[g].url
          /\ \A h \in Getters \ {g} : get'[h] = get[h]
      BY <1>2, GetToType
    <2>3. QED
      BY <1>2, <2>1, <2>2, MissingMove
  <1>3. ASSUME NEW g \in Getters, NEW pc \in GetPC, NEW rec \in Record,
               Resolve(g, pc, rec), get[g].pc \in GetPC, pc \notin {"miss", "notFound"},
               UNCHANGED acked
        PROVE  Missing'
    <2>1. get[g].pc # "idle"
      BY <1>3 DEF GetPC
    <2>2. /\ get'[g].pc = pc /\ get'[g].id = get[g].id /\ get'[g].known = get[g].known
          /\ get'[g].url = get[g].url
          /\ \A h \in Getters \ {g} : get'[h] = get[h]
      BY <1>3, ResolveType
    <2>3. QED
      BY <1>3, <2>1, <2>2, MissingMove
  <1>4. ASSUME NEW g \in Getters, CheckBadGet(g) PROVE Missing'
    BY <1>2, <1>4 DEF CheckBadGet, GetPC
  <1>5. ASSUME NEW g \in Getters, CheckGetCache(g) PROVE Missing'
    <2>1. get[g].url \in Urls
      BY <1>5 DEF CheckGetCache, GetState, GetPC, NoGet
    <2>2. CASE cache[get[g].url] # None
      BY <1>3, <1>5, <2>1, <2>2 DEF CheckGetCache, GetPC
    <2>3. CASE cache[get[g].url] = None
      BY <1>2, <1>5, <2>3 DEF CheckGetCache, GetPC
    <2>4. QED
      BY <2>2, <2>3
  <1>6. ASSUME NEW g \in Getters, Lookup(g) PROVE Missing'
    <2>1. CASE \E r \in Record : Resolve(g, "fillFromDHT", r)
      BY <1>3, <1>6, <2>1 DEF Lookup, GetPC
    <2>2. CASE \E pc \in {"failed", "read"} : GetTo(g, pc)
      BY <1>2, <1>6, <2>2 DEF Lookup, GetPC
    <2>3. QED
      BY <1>6, <2>1, <2>2 DEF Lookup
  <1>7. ASSUME NEW g \in Getters, ReadRecord(g) PROVE Missing'
    <2>1. get[g].id \in Ids /\ get[g].pc \in GetPC /\ UNCHANGED acked
      BY <1>7 DEF ReadRecord, GetState, GetPC, NoGet
    <2>2. CASE db[get[g].id] # None /\ Resolve(g, "fillFromDB", db[get[g].id])
      BY <1>3, <2>1, <2>2 DEF GetPC
    <2>3. CASE ~ Readable(get[g].url) /\ GetTo(g, "miss")
      BY <1>2, <2>1, <2>3 DEF GetPC
    <2>4. CASE db[get[g].id] = None /\ GetTo(g, "miss")
      <3>1. stored[get[g].id] = {}
        BY <2>1, <2>4 DEF Held, DbHeld
      <3>2. get[g].known \subseteq acked[get[g].id]
        BY <1>7 DEF ReadRecord, Missing, KnownAcked
      <3>3. get[g].id \in Native => get[g].known = {}
        BY <3>1, <3>2 DEF Held, AckedHeld
      <3>4. QED
        BY <1>2, <2>1, <2>4, <3>3 DEF GetPC
    <2>5. QED
      BY <1>7, <2>2, <2>3, <2>4 DEF ReadRecord
  <1>8. ASSUME NEW g \in Getters, Miss(g) PROVE Missing'
    <2>1. \E pc \in {"notFound", "failed"} : GetTo(g, pc)
      BY <1>8 DEF Miss
    <2>2. QED
      BY <1>2, <1>8, <2>1 DEF Miss, GetPC
  <1>9. ASSUME NEW g \in Getters, FillFromDHT(g) \/ FillFromDB(g) PROVE Missing'
    <2>1. get[g].rec \in Record /\ get[g].pc \in GetPC /\ UNCHANGED acked
      BY <1>9 DEF FillFromDHT, FillFromDB, Resolved, GetPC
    <2>2. \E pc \in {"found", "failed"} : GetTo(g, pc)
      BY <1>9 DEF FillFromDHT, FillFromDB
    <2>3. QED
      BY <1>2, <2>1, <2>2 DEF GetPC
  <1>10. QED
    BY <1>1, <1>4, <1>5, <1>6, <1>7, <1>8, <1>9 DEF GetNext

LEMMA MissingStep ==
    ASSUME "read" \notin Faults, TypeInv, Held, Missing, [Next]_vars
    PROVE  Missing'
  <1> USE DEF TypeInv, TypeOK
  <1>1. ASSUME UNCHANGED get, \A id \in Ids : acked[id] \subseteq acked'[id]
        PROVE  Missing'
    <2>1. \A g \in Getters : get[g].pc # "idle" => get[g].id \in Ids
      BY DEF GetState, NoGet
    <2>2. QED
      BY <1>1, <2>1 DEF Missing, KnownAcked, MissUnknown, Native
  <1>2. ASSUME PutNext PROVE UNCHANGED get /\ \A id \in Ids : acked[id] \subseteq acked'[id]
    <2>1. CASE \E p \in Putters : CheckPutCache(p)
      BY <2>1 DEF CheckPutCache
    <2>2. CASE \E p \in Putters : SetCache(p)
      BY <2>2 DEF SetCache
    <2>3. QED
      BY <1>2, <2>1, <2>2 DEF PutNext, StartPut, WriteRecord
  <1>3. CASE Restart
    BY <1>3 DEF Restart, NoGet, Missing, KnownAcked, MissUnknown
  <1>4. ASSUME EnvNext, ~ Restart PROVE UNCHANGED <<get, acked>>
    BY <1>4 DEF EnvNext, AsyncPut, ExternalPut, RepublishPut, DhtForget, CacheEvict, BadGetExpire
  <1>5. CASE UNCHANGED vars
    BY <1>1, <1>5 DEF vars
  <1>6. QED
    BY <1>1, <1>2, <1>3, <1>4, <1>5, MissingGet DEF Next

LEMMA NothingMissing ==
    ASSUME "read" \notin Faults
    PROVE  Spec => [](TypeInv /\ Held /\ Missing)
  <1>1. Init => Missing
    BY DEF Init, Missing, KnownAcked, MissUnknown, NoGet
  <1>2. TypeInv /\ Held /\ Missing /\ [Next]_vars => Missing'
    BY MissingStep
  <1>3. QED
    BY Holding, <1>1, <1>2, PTL DEF Spec

\* While the storage can be read, 404 is never the answer to a GET that arrived
\* after a PUT of the id was acknowledged.
THEOREM NotFoundIsHonest ==
    ASSUME "read" \notin Faults
    PROVE  Spec => []NotFoundMeansUnpublished
  <1>1. Missing => NotFoundMeansUnpublished
    BY DEF Missing, MissUnknown, NotFoundMeansUnpublished
  <1>2. QED
    BY NothingMissing, <1>1, PTL

-------------------------------------------------------------------------------
(* Refinement: every step is a step of GatewayContract or invisible in it   *)

LEMMA PutViewMove ==
    ASSUME put \in [Putters -> PutState], NEW p \in Putters, put[p].pc \in PutPC,
           NEW pc \in PutPC, PutTo(p, pc)
    PROVE  /\ PutView' = [PutView EXCEPT ![p].phase = Phase(pc)]
           /\ PutView[p].phase = Phase(put[p].pc)
           /\ PutView[p].id = put[p].id /\ PutView[p].rec = put[p].rec
           /\ put[p].id \in Ids /\ put[p].rec \in Record
  <1>1. /\ put'[p].pc = pc /\ put'[p].id = put[p].id /\ put'[p].rec = put[p].rec
        /\ put'[p].url = put[p].url
        /\ put[p].id \in Ids /\ put[p].rec \in Record
        /\ \A q \in Putters \ {p} : put'[q] = put[q]
    BY PutToType
  <1>2. PutView[p] = [phase |-> Phase(put[p].pc), url |-> put[p].url, id |-> put[p].id,
                      rec |-> put[p].rec]
    BY DEF PutView
  <1>3. [PutView[p] EXCEPT !.phase = Phase(pc)]
            = [phase |-> Phase(pc), url |-> put[p].url, id |-> put[p].id, rec |-> put[p].rec]
    BY <1>2
  <1> DEFINE view == [PutView EXCEPT ![p].phase = Phase(pc)]
  <1>4. \A q \in Putters : PutView'[q] = view[q]
    BY <1>1, <1>3 DEF PutView
  <1>5. PutView' = view
    BY <1>4 DEF PutView
  <1>6. QED
    BY <1>1, <1>2, <1>5

LEMMA PutViewSame ==
    ASSUME NEW p \in Putters, PutView[p].phase = "open"
    PROVE  [PutView EXCEPT ![p].phase = "open"] = PutView
  BY DEF PutView

LEMMA RefineInit == Init => Abstract!Init
  <1> SUFFICES ASSUME Init PROVE Abstract!Init
    OBVIOUS
  <1>1. Phase("idle") = "idle"
    BY DEF Phase
  <1>2. \A p \in Putters : PutView[p] = Abstract!IdlePut
    BY <1>1 DEF Init, PutView, NoPut, Abstract!IdlePut
  <1>3. \A g \in Getters : GetView[g] = Abstract!IdleGet
    BY <1>1 DEF Init, GetView, NoGet, Abstract!IdleGet
  <1>4. /\ PutView = [p \in Putters |-> Abstract!IdlePut]
        /\ GetView = [g \in Getters |-> Abstract!IdleGet]
    BY <1>2, <1>3 DEF PutView, GetView
  <1>5. QED
    BY <1>4 DEF Init, Abstract!Init

LEMMA GetViewMove ==
    ASSUME NEW g \in Getters, get[g].pc # "found",
           get'[g].id = get[g].id, get'[g].url = get[g].url, get'[g].known = get[g].known,
           \A h \in Getters \ {g} : get'[h] = get[h]
    PROVE  /\ get'[g].pc # "found" =>
                 GetView' = [GetView EXCEPT ![g].phase = Phase(get'[g].pc)]
           /\ get'[g].pc = "found" =>
                 GetView' = [GetView EXCEPT ![g].phase = "found", ![g].rec = get'[g].rec]
           /\ Phase(get'[g].pc) = "open" /\ Phase(get[g].pc) = "open" => UNCHANGED GetView
           /\ GetView[g].phase = Phase(get[g].pc) /\ GetView[g].id = get[g].id
           /\ GetView[g].known = get[g].known /\ GetView[g].url = get[g].url
  <1> DEFINE old == [phase |-> Phase(get[g].pc), url |-> get[g].url, id |-> get[g].id,
                     known |-> get[g].known, rec |-> None]
             new == [phase |-> Phase(get'[g].pc), url |-> get[g].url, id |-> get[g].id,
                     known |-> get[g].known,
                     rec |-> IF get'[g].pc = "found" THEN get'[g].rec ELSE None]
             view == [GetView EXCEPT ![g] = new]
  <1>1. GetView[g] = old
    BY DEF GetView
  <1>2. GetView' = view
    <2>1. \A h \in Getters : GetView'[h] = view[h]
      BY DEF GetView
    <2>2. QED
      BY <2>1 DEF GetView
  <1>3. ASSUME get'[g].pc # "found"
        PROVE  GetView' = [GetView EXCEPT ![g].phase = Phase(get'[g].pc)]
    <2> DEFINE plain == [phase |-> Phase(get'[g].pc), url |-> get[g].url, id |-> get[g].id,
                         known |-> get[g].known, rec |-> None]
    <2>1. new = [old EXCEPT !.phase = Phase(get'[g].pc)]
      <3>1. new = plain
        BY <1>3
      <3>2. [old EXCEPT !.phase = Phase(get'[g].pc)] = plain
        OBVIOUS
      <3>3. QED
        BY <3>1, <3>2
    <2>2. QED
      BY <1>1, <1>2, <2>1
  <1>4. ASSUME get'[g].pc = "found"
        PROVE  GetView' = [GetView EXCEPT ![g].phase = "found", ![g].rec = get'[g].rec]
    <2>1. Phase("found") = "found"
      BY DEF Phase
    <2> DEFINE plain == [phase |-> "found", url |-> get[g].url, id |-> get[g].id,
                         known |-> get[g].known, rec |-> get'[g].rec]
    <2>2. new = [[old EXCEPT !.phase = "found"] EXCEPT !.rec = get'[g].rec]
      <3>1. new = plain
        BY <1>4, <2>1
      <3> DEFINE half == [phase |-> "found", url |-> get[g].url, id |-> get[g].id,
                          known |-> get[g].known, rec |-> None]
      <3>2. [old EXCEPT !.phase = "found"] = half
        OBVIOUS
      <3>3. [half EXCEPT !.rec = get'[g].rec] = plain
        OBVIOUS
      <3>4. QED
        BY <3>1, <3>2, <3>3
    <2>3. QED
      BY <1>1, <1>2, <2>2
  <1>5. ASSUME Phase(get'[g].pc) = "open", Phase(get[g].pc) = "open"
        PROVE  UNCHANGED GetView
    <2>1. get'[g].pc # "found"
      BY <1>5 DEF Phase
    <2>2. new = old
      BY <1>5, <2>1
    <2>3. QED
      BY <1>1, <1>2, <2>2 DEF GetView
  <1>6. QED
    BY <1>1, <1>3, <1>4, <1>5

LEMMA Phases ==
    /\ \A pc \in {"checkCache", "write", "set", "checkBad", "lookup", "read",
                  "fillFromDHT", "fillFromDB", "miss"} : Phase(pc) = "open"
    /\ Phase("failed") = "error" /\ Phase("refused") = "error" /\ Phase("limited") = "error"
    /\ Phase("acked") = "acked" /\ Phase("found") = "found" /\ Phase("notFound") = "notFound"
    /\ \A pc \in Answered \union {"idle"} : Phase(pc) # "open"
  BY DEF Phase, Answered

LEMMA RefinePut ==
    ASSUME TypeInv, Held, Held', PutNext
    PROVE  [Abstract!Next]_Abstract!vars
  <1> USE DEF TypeInv, TypeOK
  <1>1. UNCHANGED GetView
    BY DEF PutNext, StartPut, CheckPutCache, WriteRecord, SetCache, GetView
  <1>2. ASSUME NEW p \in Putters, NEW url \in Urls, NEW rec \in Record,
               NEW valid \in BOOLEAN, StartPut(p, url, rec, valid)
        PROVE  Abstract!Open(p, url, rec)
    <2> DEFINE pc == IF valid THEN "checkCache" ELSE "refused"
               new == [phase |-> Phase(pc), url |-> url, id |-> Key[url], rec |-> rec]
               view == [PutView EXCEPT ![p] = new]
    <2>1. Phase(pc) \in {"open", "error"}
      BY Phases
    <2>2. put' = [put EXCEPT ![p] = [pc |-> pc, url |-> url, id |-> Key[url],
                                          rec |-> rec]]
      BY <1>2 DEF StartPut
    <2>3. \A q \in Putters : PutView'[q] = view[q]
      BY <2>2 DEF PutView
    <2>4. PutView' = view
      BY <2>3 DEF PutView
    <2>5. PutView[p].phase # "open"
      BY <1>2, Phases DEF StartPut, Free, PutView
    <2>6. QED
      BY <1>1, <1>2, <2>1, <2>4, <2>5 DEF StartPut, Abstract!Open
  <1>3. ASSUME NEW p \in Putters, PutTo(p, "acked"), UNCHANGED stored,
               put[p].pc \in {"checkCache", "set"},
               acked' = [acked EXCEPT ![put[p].id] = @ \union {put[p].rec}]
        PROVE  Abstract!Acknowledge(p)
    <2>1. /\ PutView' = [PutView EXCEPT ![p].phase = "acked"]
          /\ PutView[p].phase = "open"
          /\ PutView[p].id = put[p].id /\ PutView[p].rec = put[p].rec
          /\ put[p].id \in Ids /\ put[p].rec \in Record
      BY <1>3, PutViewMove, Phases DEF PutPC
    <2>2. put[p].id \in Native => put[p].rec \in stored[put[p].id]
      BY <1>3, <2>1 DEF Held, AckedHeld
    <2>3. QED
      BY <1>1, <1>3, <2>1, <2>2 DEF Abstract!Acknowledge
  <1>4. ASSUME NEW p \in Putters, PutTo(p, "failed"), UNCHANGED <<stored, acked>>,
               put[p].pc \in {"write", "set"}
        PROVE  Abstract!Fail(p)
    <2>1. PutView' = [PutView EXCEPT ![p].phase = "error"] /\ PutView[p].phase = "open"
      BY <1>4, PutViewMove, Phases DEF PutPC
    <2>2. QED
      BY <1>1, <1>4, <2>1 DEF Abstract!Fail
  <1>5. ASSUME NEW p \in Putters, CheckPutCache(p)
        PROVE  [Abstract!Next]_Abstract!vars
    <2>1. CASE Equals(cache[put[p].url], put[p].rec)
      BY <1>3, <1>5, <2>1 DEF CheckPutCache, Abstract!Next
    <2>2. CASE ~ Equals(cache[put[p].url], put[p].rec)
      <3>1. PutTo(p, "write") /\ put[p].pc = "checkCache" /\ UNCHANGED <<stored, acked>>
        BY <1>5, <2>2 DEF CheckPutCache
      <3>2. PutView' = [PutView EXCEPT ![p].phase = "open"] /\ PutView[p].phase = "open"
        BY <3>1, PutViewMove, Phases DEF PutPC
      <3>3. UNCHANGED PutView
        BY <3>2 DEF PutView
      <3>4. QED
        BY <1>1, <3>1, <3>3 DEF Abstract!vars
    <2>3. QED
      BY <2>1, <2>2
  <1>6. ASSUME NEW p \in Putters, WriteRecord(p)
        PROVE  [Abstract!Next]_Abstract!vars
    <2>1. put[p].pc = "write" /\ UNCHANGED acked
      BY <1>6 DEF WriteRecord
    <2>2. CASE UNCHANGED stored /\ PutTo(p, "failed")
      BY <1>4, <2>1, <2>2 DEF Abstract!Next
    <2>3. CASE Hold(put[p].id, put[p].rec) /\ \E pc \in {"set", "failed"} : PutTo(p, pc)
      <3>1. PICK pc \in {"set", "failed"} : PutTo(p, pc)
        BY <2>3
      <3>2. /\ PutView' = [PutView EXCEPT ![p].phase = Phase(pc)]
            /\ PutView[p].phase = "open"
            /\ PutView[p].id = put[p].id /\ PutView[p].rec = put[p].rec
        BY <2>1, <3>1, PutViewMove, Phases DEF PutPC
      <3>3. UNCHANGED PutView \/ PutView' = [PutView EXCEPT ![p].phase = "error"]
        <4>1. CASE pc = "set"
          <5>1. PutView' = [PutView EXCEPT ![p].phase = "open"]
            BY <3>2, <4>1, Phases
          <5>2. PutView' = PutView
            BY <3>2, <5>1, PutViewSame
          <5>3. QED
            BY <5>2
        <4>2. CASE pc = "failed"
          BY <3>2, <4>2, Phases
        <4>3. QED
          BY <4>1, <4>2
      <3>4. Abstract!Hold(p)
        BY <1>1, <2>1, <2>3, <3>2, <3>3 DEF Hold, Abstract!Hold
      <3>5. QED
        BY <3>4 DEF Abstract!Next
    <2>4. QED
      BY <1>6, <2>2, <2>3 DEF WriteRecord, Hold
  <1>7. ASSUME NEW p \in Putters, SetCache(p)
        PROVE  [Abstract!Next]_Abstract!vars
    <2>1. CASE PutTo(p, "failed") /\ UNCHANGED acked
      BY <1>4, <1>7, <2>1 DEF SetCache, Abstract!Next
    <2>2. CASE /\ PutTo(p, "acked")
               /\ acked' = [acked EXCEPT ![put[p].id] = @ \union {put[p].rec}]
      BY <1>3, <1>7, <2>2 DEF SetCache, Abstract!Next
    <2>3. QED
      BY <1>7, <2>1, <2>2 DEF SetCache
  <1>8. QED
    BY <1>2, <1>5, <1>6, <1>7 DEF PutNext, Abstract!Next

LEMMA RefineGet ==
    ASSUME TypeInv, Held, Held', Missing, GetNext
    PROVE  [Abstract!Next]_Abstract!vars
  <1> USE DEF TypeInv, TypeOK
  <1>1. UNCHANGED <<stored, acked, PutView>>
    BY DEF GetNext, StartGet, CheckBadGet, CheckGetCache, Lookup, ReadRecord, Miss,
           FillFromDHT, FillFromDB, PutView
  <1>2. ASSUME NEW g \in Getters, NEW url \in Urls, StartGet(g, url) PROVE Abstract!Ask(g, url)
    <2> DEFINE new == [phase |-> "open", url |-> url, id |-> Key[url], rec |-> None,
                       known |-> acked[Key[url]]]
               view == [GetView EXCEPT ![g] = new]
    <2>1. Phase("checkBad") = "open"
      BY Phases
    <2>2. \A h \in Getters : GetView'[h] = view[h]
      BY <1>2, <2>1 DEF StartGet, GetView
    <2>3. GetView' = view
      BY <2>2 DEF GetView
    <2>4. GetView[g].phase # "open"
      BY <1>2, Phases DEF StartGet, Free, GetView
    <2>5. QED
      BY <1>1, <1>2, <2>3, <2>4 DEF Abstract!Ask
  <1>3. ASSUME NEW g \in Getters, NEW pc \in GetPC, GetTo(g, pc), Phase(get[g].pc) = "open",
               get[g].pc \in GetPC,
               pc \in {"fillFromDHT", "fillFromDB", "found"} => get[g].rec \in Record,
               pc = "found" /\ get[g].id \in Native => get[g].rec \in stored[get[g].id],
               pc = "notFound" /\ get[g].id \in Native /\ Readable(get[g].url)
                   => get[g].known = {}
        PROVE  [Abstract!Next]_Abstract!vars
    <2>1. /\ get'[g].pc = pc /\ get'[g].id = get[g].id
          /\ get'[g].rec = get[g].rec /\ get'[g].known = get[g].known
          /\ get'[g].url = get[g].url
          /\ \A h \in Getters \ {g} : get'[h] = get[h]
      BY <1>3, GetToType
    <2>2. get[g].pc # "found"
      BY <1>3, Phases
    <2>3. /\ pc # "found" => GetView' = [GetView EXCEPT ![g].phase = Phase(pc)]
          /\ pc = "found" =>
               GetView' = [GetView EXCEPT ![g].phase = "found", ![g].rec = get[g].rec]
          /\ Phase(pc) = "open" => UNCHANGED GetView
          /\ GetView[g].phase = "open" /\ GetView[g].id = get[g].id
          /\ GetView[g].known = get[g].known /\ GetView[g].url = get[g].url
      BY <1>3, <2>1, <2>2, GetViewMove
    <2>4. CASE Phase(pc) = "open"
      BY <1>1, <2>3, <2>4 DEF Abstract!vars
    <2>5. CASE pc = "found"
      BY <1>1, <1>3, <2>3, <2>5 DEF Abstract!Found, Abstract!Next
    <2>6. CASE pc = "notFound"
      BY <1>1, <1>3, <2>3, <2>6, Phases DEF Abstract!NotFound, Abstract!Next
    <2>7. CASE pc \in {"failed", "limited"}
      BY <1>1, <1>3, <2>3, <2>7, Phases DEF Abstract!Refuse, Abstract!Next
    <2>8. QED
      BY <2>4, <2>5, <2>6, <2>7, Phases DEF GetPC
  <1>4. ASSUME NEW g \in Getters, NEW pc \in GetPC, NEW rec \in Record,
               Resolve(g, pc, rec), Phase(get[g].pc) = "open", get[g].pc \in GetPC,
               pc \in {"fillFromDHT", "fillFromDB", "found"},
               pc = "found" /\ get[g].id \in Native => rec \in stored[get[g].id]
        PROVE  [Abstract!Next]_Abstract!vars
    <2>1. /\ get'[g].pc = pc /\ get'[g].id = get[g].id
          /\ get'[g].rec = rec /\ get'[g].known = get[g].known
          /\ get'[g].url = get[g].url
          /\ \A h \in Getters \ {g} : get'[h] = get[h]
      BY <1>4, ResolveType
    <2>2. get[g].pc # "found"
      BY <1>4, Phases
    <2>3. /\ pc = "found" =>
               GetView' = [GetView EXCEPT ![g].phase = "found", ![g].rec = rec]
          /\ Phase(pc) = "open" => UNCHANGED GetView
          /\ GetView[g].phase = "open" /\ GetView[g].id = get[g].id
      BY <1>4, <2>1, <2>2, GetViewMove
    <2>4. CASE Phase(pc) = "open"
      BY <1>1, <2>3, <2>4 DEF Abstract!vars
    <2>5. CASE pc = "found"
      <3>1. get[g].id \in Native => rec \in stored[get[g].id]
        BY <1>4, <2>5
      <3>2. Abstract!Found(g, rec)
        BY <1>1, <2>3, <2>5, <3>1 DEF Abstract!Found
      <3>3. QED
        BY <3>2 DEF Abstract!Next
    <2>6. QED
      BY <1>4, <2>4, <2>5, Phases
  <1>5. ASSUME NEW g \in Getters, CheckBadGet(g) PROVE [Abstract!Next]_Abstract!vars
    BY <1>3, <1>5, Phases DEF CheckBadGet, GetPC
  <1>6. ASSUME NEW g \in Getters, CheckGetCache(g) PROVE [Abstract!Next]_Abstract!vars
    <2>1. /\ get[g].url \in Urls /\ get[g].id = Key[get[g].url]
          /\ get[g].id \in Ids /\ get[g].pc \in GetPC /\ Phase(get[g].pc) = "open"
      BY <1>6, Phases DEF CheckGetCache, GetState, GetPC, NoGet
    <2>2. CASE cache[get[g].url] # None
      <3>1. cache[get[g].url] \in Record
        BY <2>1, <2>2
      <3>2. get[g].id \in Native => cache[get[g].url] \in stored[get[g].id]
        BY <2>1, <2>2 DEF Held, CacheHeld
      <3>3. Resolve(g, "found", cache[get[g].url])
        BY <1>6, <2>2 DEF CheckGetCache
      <3>4. QED
        BY <1>4, <2>1, <3>1, <3>2, <3>3 DEF GetPC
    <2>3. CASE cache[get[g].url] = None
      BY <1>3, <1>6, <2>1, <2>3 DEF CheckGetCache, GetPC
    <2>4. QED
      BY <2>2, <2>3
  <1>7. ASSUME NEW g \in Getters, Lookup(g) PROVE [Abstract!Next]_Abstract!vars
    <2>1. get[g].pc \in GetPC /\ Phase(get[g].pc) = "open"
      BY <1>7, Phases DEF Lookup, GetPC
    <2>2. ASSUME NEW r \in Record, Resolve(g, "fillFromDHT", r)
          PROVE  [Abstract!Next]_Abstract!vars
      <3>1. "fillFromDHT" \in GetPC
        BY DEF GetPC
      <3>2. QED
        BY <1>4, <2>1, <2>2, <3>1
    <2>3. CASE \E pc \in {"failed", "read"} : GetTo(g, pc)
      BY <1>3, <2>1, <2>3 DEF GetPC
    <2>4. QED
      BY <1>7, <2>2, <2>3 DEF Lookup
  <1>8. ASSUME NEW g \in Getters, ReadRecord(g) PROVE [Abstract!Next]_Abstract!vars
    <2>1. get[g].id \in Ids /\ get[g].pc \in GetPC /\ Phase(get[g].pc) = "open"
      BY <1>8, Phases DEF ReadRecord, GetState, GetPC, NoGet
    <2>2. CASE db[get[g].id] # None /\ Resolve(g, "fillFromDB", db[get[g].id])
      <3>1. db[get[g].id] \in Record /\ "fillFromDB" \in GetPC
        BY <2>1, <2>2 DEF GetPC
      <3>2. QED
        BY <1>4, <2>1, <2>2, <3>1
    <2>3. CASE GetTo(g, "miss")
      BY <1>3, <2>1, <2>3 DEF GetPC
    <2>4. QED
      BY <1>8, <2>2, <2>3 DEF ReadRecord
  <1>9. ASSUME NEW g \in Getters, Miss(g) PROVE [Abstract!Next]_Abstract!vars
    <2>1. \E pc \in {"notFound", "failed"} : GetTo(g, pc)
      BY <1>9 DEF Miss
    <2>2. get[g].pc \in GetPC /\ Phase(get[g].pc) = "open"
      BY <1>9, Phases DEF Miss, GetPC
    <2>3. get[g].id \in Native /\ Readable(get[g].url) => get[g].known = {}
      BY <1>9 DEF Miss, Missing, MissUnknown
    <2>4. QED
      BY <1>3, <2>1, <2>2, <2>3 DEF GetPC
  <1>10. ASSUME NEW g \in Getters, FillFromDHT(g) \/ FillFromDB(g)
         PROVE  [Abstract!Next]_Abstract!vars
    <2>1. /\ get[g].rec \in Record /\ get[g].pc \in GetPC /\ Phase(get[g].pc) = "open"
          /\ get[g].id \in Native => get[g].rec \in stored[get[g].id]
      BY <1>10, Phases DEF FillFromDHT, FillFromDB, Resolved, Held, GetHeld, GetPC
    <2>2. \E pc \in {"found", "failed"} : GetTo(g, pc)
      BY <1>10 DEF FillFromDHT, FillFromDB
    <2>3. QED
      BY <1>3, <2>1, <2>2 DEF GetPC
  <1>11. QED
    BY <1>2, <1>5, <1>6, <1>7, <1>8, <1>9, <1>10 DEF GetNext, Abstract!Next

LEMMA RefineEnv == EnvNext => [Abstract!Next]_Abstract!vars
  <1>1. ASSUME Restart PROVE Abstract!Crash
    <2>1. Phase("idle") = "idle"
      BY DEF Phase
    <2>2. \A p \in Putters : PutView'[p] = Abstract!IdlePut
      BY <1>1, <2>1 DEF Restart, PutView, NoPut, Abstract!IdlePut
    <2>3. \A g \in Getters : GetView'[g] = Abstract!IdleGet
      BY <1>1, <2>1 DEF Restart, GetView, NoGet, Abstract!IdleGet
    <2>4. /\ PutView' = [p \in Putters |-> Abstract!IdlePut]
          /\ GetView' = [g \in Getters |-> Abstract!IdleGet]
      BY <2>2, <2>3 DEF PutView, GetView
    <2>5. QED
      BY <1>1, <2>4 DEF Restart, Abstract!Crash
  <1>2. ASSUME EnvNext, ~ Restart PROVE UNCHANGED <<stored, acked, put, get>>
    BY <1>2 DEF EnvNext, AsyncPut, ExternalPut, RepublishPut, DhtForget, CacheEvict, BadGetExpire
  <1>3. UNCHANGED <<stored, acked, put, get>> => UNCHANGED Abstract!vars
    BY DEF Abstract!vars, PutView, GetView
  <1>4. QED
    BY <1>1, <1>2, <1>3 DEF Abstract!Next

\* The service implements the client's contract as long as the storage can be
\* read: cache, DHT, goroutines and restarts are invisible behind it.
THEOREM ServiceImplementsContract ==
    ASSUME "read" \notin Faults
    PROVE  Spec => Contract
  <1> DEFINE Inv == TypeInv /\ Held /\ Missing
  <1>1. Inv /\ Inv' /\ [Next]_vars => [Abstract!Next]_Abstract!vars
    <2>1. UNCHANGED vars => UNCHANGED Abstract!vars
      BY DEF vars, Abstract!vars, PutView, GetView
    <2>2. QED
      BY RefinePut, RefineGet, RefineEnv, <2>1 DEF Next
  <1>2. Spec => []Inv
    BY NothingMissing
  <1>3. QED
    BY RefineInit, <1>1, <1>2, PTL DEF Spec, Contract, Abstract!Spec

===============================================================================
