------------------------------ MODULE DidPacket ------------------------------
(***************************************************************************)
(* DID documents as DNS packets (impl/internal/did/did.go): a document is   *)
(* made from options (CreateDIDDHTDID), written as a sequence of records    *)
(* (ToDNSPacket) and read back from one (FromDNSPacket).  Each step may     *)
(* refuse its input.                                                        *)
(*                                                                         *)
(* A text is abstracted to the words between its separators: a record is    *)
(* read back by its separators, wherever they come from.                    *)
(***************************************************************************)
EXTENDS Integers, Sequences, SequencesExt

CONSTANTS
    Tokens,       \* what the words of a key's record are made of
    Keys,         \* the keys there are, each a key type and bytes
    IdentityKey,  \* the one the DID is made of
    Inputs,       \* options and metadata a document may be published with
    Orders        \* "packed": records as ToDNSPacket writes them;
                  \* "rootFirst": the order of the tables in spec/spec.md

VARIABLES
    stage,    \* how far the document has come
    input,    \* the options it is made from
    doc,      \* the document
    packet,   \* its records
    got       \* what a reader makes of them

vars == <<stage, input, doc, packet, got>>

\* The names of a record's fields, the name of the identity key, this DID, the prefix of
\* another one's ids, and the beginnings of thumbprints and default algorithms.
Marks == {"id", "t", "k", "a", "c", "0", "self", "other", "thumbprint", "alg"}

ASSUME TokensAssumption == Marks \subseteq Tokens

\* A key is <<type, bytes>>: the type is the index of its kind, or "none" if there is no
\* index, "bad" for a JWK that makes no key and "nil" for no JWK.
ASSUME KeysAssumption == Keys \subseteq Tokens \X Tokens
ASSUME IdentityAssumption == IdentityKey \in Keys /\ IdentityKey[1] = "0"
ASSUME OrdersAssumption == Orders \subseteq {"packed", "rootFirst"}

Purposes == {"auth", "asm", "agm", "inv", "del"}

\* A word is a text without ";" and "=".  What goes into the record of a key is words, cut
\* at "=", in fields, cut at ";": text[i][j] is the j-th word of the i-th field.
Word == Seq(Tokens)
KeyText == Seq(Seq(Word) \ {<<>>}) \ {<<>>}

Just(word) == <<<<word>>>>
IsJust(text) == Len(text) = 1 /\ Len(text[1]) = 1
Empty == Just(<<>>)
Self == Just(<<"self">>)

\* In services and lists a text is the words between its separators: "," parts the items
\* of a list, ";" the fields of a record, "=" a field's name and its value.
Text ==
    {t \in [words : Seq(STRING), sep : {"", ",", ";", "="}] : t.sep = "" <=> Len(t.words) < 2}

\* An id is given as <<form, name>>: bare (name), hash (#name), own (did#name) or other (a
\* whole id of another DID); that of a method may be unset.
MethodId ==
    {<<"unset", Empty>>} \union {"bare"} \X (KeyText \ {Empty})
    \union {"hash", "own", "other"} \X KeyText

ServiceId == {"bare", "hash", "own", "other"} \X Text

Method ==
    [id : MethodId, type : STRING, key : Keys, alg : KeyText, controller : KeyText,
     purposes : Seq(STRING)]

Service == [id : ServiceId, type : Text, endpoint : Seq(Text), sig : Seq(Text), enc : Seq(Text)]

Previous == [did : STRING, valid : BOOLEAN]

Options ==
    [vms : Seq(Method), services : Seq(Service), controller : Seq(Text), aka : Seq(Text),
     gateways : Seq(Text), types : Seq(Nat), previous : Seq(Previous)]

ASSUME InputsAssumption == Inputs \subseteq Options

-------------------------------------------------------------------------------
(* Texts and lists                                                          *)

\* A part that may be missing, as a sequence, and a list made of another.
Maybe(present, part) == IF present THEN <<part>> ELSE <<>>
Each(list, Part(_)) == [i \in DOMAIN list |-> Part(list[i])]

Plain(word) == [words |-> <<word>>, sep |-> ""]
EmptyText == [words |-> <<>>, sep |-> ""]
IsPlain(text) == text.sep = "" /\ text.words # <<>>

\* strings.Split(strings.Join(texts, ","), ",")
SplitItems(texts) ==
    FlattenSeq([i \in DOMAIN texts |->
        IF texts[i].sep = ","
        THEN [w \in DOMAIN texts[i].words |-> Plain(texts[i].words[w])]
        ELSE <<texts[i]>>])

\* parseTxtData, on the only field with a name or the last one: it ends at its first ";",
\* and one with a second "=" is left out of the result.
FieldText(text) ==
    CASE text.sep = "=" -> EmptyText
      [] text.sep = ";" -> Plain(text.words[1])
      [] OTHER -> text

FieldValue(texts) ==
    LET end == SelectInSeq(texts, LAMBDA t : t.sep = ";")
        kept == IF end = 0 THEN texts
                ELSE Append(SubSeq(texts, 1, end - 1), FieldText(texts[end]))
    IN IF \E i \in DOMAIN kept : kept[i].sep = "=" THEN <<>> ELSE SplitItems(kept)

\* A part that is empty is taken to be absent.
OrNone(texts) == IF texts = <<EmptyText>> THEN <<>> ELSE texts

\* A field of a key's record, with this text written after its name: a ";" in the text
\* ends the field, and what follows is fields of their own.
Field(name, text) == <<<<<<name>>>> \o text[1]>> \o Tail(text)

\* parseTxtData: the last field that is this name, "=" and one word.
Data(fields, name) ==
    LET last == SelectLastInSeq(fields, LAMBDA f : Len(f) = 2 /\ f[1] = <<name>>) IN
    IF last = 0 THEN <<>> ELSE fields[last][2]

-------------------------------------------------------------------------------
(* CreateDIDDHTDID                                                          *)

Thumbprint(key) == Just(<<"thumbprint", key[1], key[2]>>)

\* algIsDefaultForJWK, defaultAlgForJWK
DefaultAlg(key) == Just(<<"alg", key[1]>>)

\* Ids in a document are <<DID, name>>.
Qualified(vm) ==
    CASE vm.id[1] \in {"bare", "hash", "own"} -> <<"self", vm.id[2]>>
      [] vm.id[1] = "other" -> <<"other", vm.id[2]>>
      [] vm.id[1] = "unset" -> <<"self", Thumbprint(vm.key)>>

Reserved(vm) == vm.id[1] \in {"bare", "hash", "own"} /\ vm.id[2] = Just(<<"0">>)

\* Ids are compared as they were given, before they are qualified.
GivenTwice(list) == \E i, j \in DOMAIN list : i < j /\ list[i].id = list[j].id

CreateFails(o) ==
    \/ \E i \in DOMAIN o.vms :
          LET vm == o.vms[i] IN
          \/ Reserved(vm)
          \/ vm.type # "JsonWebKey"
          \/ vm.key[1] = "nil"
          \/ vm.id[1] = "unset" /\ vm.key[1] = "bad"
          \/ ~ (ToSet(vm.purposes) \subseteq Purposes)
    \/ GivenTwice(o.vms)
    \/ GivenTwice(o.services)

IdentityMethod ==
    [id |-> <<"self", Just(<<"0">>)>>, key |-> IdentityKey, alg |-> DefaultAlg(IdentityKey),
     controller |-> Self]

\* The identity key has every purpose but key agreement.
Relationship(o, p) ==
    (IF p = "agm" THEN <<>> ELSE <<IdentityMethod.id>>)
    \o FlattenSeq(Each(o.vms, LAMBDA vm :
          FlattenSeq(Each(vm.purposes, LAMBDA q : Maybe(q = p, Qualified(vm))))))

CreateDIDDHTDID(o) ==
    [controller |-> o.controller,
     aka |-> o.aka,
     vms |-> <<IdentityMethod>> \o
             [i \in DOMAIN o.vms |->
                [id |-> Qualified(o.vms[i]), key |-> o.vms[i].key, alg |-> o.vms[i].alg,
                 controller |-> IF o.vms[i].controller = Empty THEN Self
                                ELSE o.vms[i].controller]],
     services |-> o.services,
     rel |-> [p \in Purposes |-> Relationship(o, p)]]

-------------------------------------------------------------------------------
(* ToDNSPacket                                                              *)

\* Variant: the index in the root record is one too high.
KeyLookupNext(d, id) == SelectLastInSeq(d.vms, LAMBDA vm : vm.id = id) + 1

\* The record of a method; of two methods with one id, the later's.
KeyLookup(d, id) == SelectLastInSeq(d.vms, LAMBDA vm : vm.id = id)

\* An id of this DID loses its prefix, any other stays whole.
Unqualified(id) ==
    IF id[1] = "self" THEN id[2] ELSE [id[2] EXCEPT ![1][1] = <<"other">> \o @]

\* A part of a record that is left out when it is what a reader assumes.
Unless(assumed, name, text) == IF text = assumed THEN <<>> ELSE Field(name, text)

\* Variant: ids of other methods are left out as well.
KeyRecordNameless(vm) ==
    [name |-> "key",
     fields |-> Field("t", Just(<<vm.key[1]>>)) \o Field("k", Just(<<vm.key[2]>>))
                \o Unless(DefaultAlg(vm.key), "a", vm.alg)
                \o Unless(Self, "c", vm.controller)]

\* What can be computed from the key, or defaulted, is left out.
KeyRecord(vm) ==
    [name |-> "key",
     fields |-> Unless(Thumbprint(vm.key), "id", Unqualified(vm.id))
                \o Field("t", Just(<<vm.key[1]>>)) \o Field("k", Just(<<vm.key[2]>>))
                \o Unless(DefaultAlg(vm.key), "a", vm.alg)
                \o Unless(Self, "c", vm.controller)]

\* A service is named by the last part of its id.
ServiceRecord(s) ==
    [name |-> "service",
     id |-> s.id[2], type |-> s.type, endpoint |-> s.endpoint, sig |-> s.sig, enc |-> s.enc]

\* The previous DID's key has signed this DID's identity key.
SignatureValid(previous) == previous.valid

\* keyTypeForJWK
HasKeyType(key) == key[1] \in {"0", "1", "2", "3"}

\* A record of more than 255 characters: one that holds a word marked as long.
Long(fields) == \E f \in ToSet(fields) : \E word \in ToSet(f) : "long" \in ToSet(word)

\* The identity key must be its own controller; a key record holds 255
\* characters; the previous DID's signature must be valid.
PacketFails(d, o) ==
    \/ \E i \in DOMAIN o.previous : ~ SignatureValid(o.previous[i])
    \/ \E i \in DOMAIN d.vms :
          \/ ~ HasKeyType(d.vms[i].key)
          \/ d.vms[i].id = IdentityMethod.id /\ d.vms[i].controller # Self
          \/ Long(KeyRecord(d.vms[i]).fields)

\* Variant: two of the five lists are written from the same one.
RootRecordMixed(d) ==
    LET from(p) == IF p = "del" THEN "inv" ELSE p IN
    [name |-> "root",
     version |-> 0,
     rel |-> [p \in Purposes |-> [i \in DOMAIN d.rel[from(p)] |-> KeyLookup(d, d.rel[from(p)][i])]]]

\* The lists of the root record name records, not ids.
RootRecord(d) ==
    [name |-> "root",
     version |-> 0,
     rel |-> [p \in Purposes |-> [i \in DOMAIN d.rel[p] |-> KeyLookup(d, d.rel[p][i])]]]

ToDNSPacket(d, o) ==
    Each(o.previous, LAMBDA p : [name |-> "previous", did |-> p])
    \o Maybe(d.controller # <<>>, [name |-> "controller", texts |-> d.controller])
    \o Maybe(d.aka # <<>>, [name |-> "aka", texts |-> d.aka])
    \o Each(o.gateways, LAMBDA g : [name |-> "gateway", text |-> g])
    \o Each(d.vms, KeyRecord)
    \o Each(d.services, ServiceRecord)
    \o <<RootRecord(d)>>
    \o Maybe(o.types # <<>>, [name |-> "types", types |-> o.types])

IsRoot(r) == r.name = "root"

Ordered(p, order) ==
    IF order = "packed" THEN p
    ELSE SelectSeq(p, IsRoot) \o SelectSeq(p, LAMBDA r : ~ IsRoot(r))

-------------------------------------------------------------------------------
(* FromDNSPacket                                                            *)

\* The records of one kind, in their order.
Named(p, name) == FlattenSeq(Each(p, LAMBDA r : Maybe(r.name = name, r)))

\* The keys that a record's bytes are one of, by the type it gives.
ReadKeys(r) ==
    {key \in Keys : HasKeyType(key) /\ Data(r.fields, "t") = <<key[1]>>
                                   /\ Data(r.fields, "k") = <<key[2]>>}
ReadKey(r) == CHOOSE key \in ReadKeys(r) : TRUE

\* A field that is absent, or empty, is read as what it is assumed to be.
OrElse(word, assumed) == IF word = <<>> THEN assumed ELSE Just(word)

\* The identity key is method 0 whatever its record says.
VmId(r) ==
    IF ReadKey(r) = IdentityKey THEN Just(<<"0">>)
    ELSE OrElse(Data(r.fields, "id"), Thumbprint(ReadKey(r)))

ReadMethod(r) ==
    [id |-> <<"self", VmId(r)>>, key |-> ReadKey(r),
     alg |-> OrElse(Data(r.fields, "a"), DefaultAlg(ReadKey(r))),
     controller |-> OrElse(Data(r.fields, "c"), Self)]

ReadService(r) ==
    [id |-> <<"hash", FieldText(r.id)>>,
     type |-> FieldText(r.type),
     endpoint |-> LET v == FieldValue(r.endpoint) IN IF v = <<>> THEN <<EmptyText>> ELSE v,
     sig |-> OrNone(FieldValue(r.sig)),
     enc |-> OrNone(FieldValue(r.enc))]

\* The id a name of the root record at this place stands for: key records are
\* known once they have been read, and a name not known yet reads as nothing.
Resolve(p, at, n) ==
    LET before == Named(SubSeq(p, 1, at - 1), "key") IN
    <<"self", IF n \in DOMAIN before THEN VmId(before[n]) ELSE Empty>>

ReadRelationship(p, purpose) ==
    LET at == SelectInSeq(p, IsRoot) IN
    IF at = 0 THEN <<>>
    ELSE [i \in DOMAIN p[at].rel[purpose] |-> Resolve(p, at, p[at].rel[purpose][i])]

\* An empty text has no chunk, and the first one of a gateway's is asked for.
Panics(p) == \E i \in DOMAIN p : p[i].name = "gateway" /\ p[i].text = EmptyText

ReadFails(p) ==
    \E i \in DOMAIN p :
        \/ p[i].name = "previous" /\ ~ SignatureValid(p[i].did)
        \/ p[i].name = "key" /\ ReadKeys(p[i]) = {}
        \/ IsRoot(p[i]) /\ p[i].version # 0

FromDNSPacket(p) ==
    [controller |-> FlattenSeq(Each(Named(p, "controller"), LAMBDA r : SplitItems(r.texts))),
     aka |-> FlattenSeq(Each(Named(p, "aka"), LAMBDA r : SplitItems(r.texts))),
     vms |-> Each(Named(p, "key"), ReadMethod),
     services |-> Each(Named(p, "service"), ReadService),
     rel |-> [purpose \in Purposes |-> ReadRelationship(p, purpose)],
     gateways |-> Each(Named(p, "gateway"), LAMBDA r : r.text),
     types |-> FlattenSeq(Each(Named(p, "types"), LAMBDA r : r.types)),
     previous |-> Each(Named(p, "previous"), LAMBDA r : r.did)]

-------------------------------------------------------------------------------
Init ==
    /\ input \in Inputs
    /\ stage = "options" /\ doc = <<>> /\ packet = <<>> /\ got = <<>>

Create ==
    /\ stage = "options"
    /\ IF CreateFails(input)
       THEN stage' = "refused" /\ doc' = doc
       ELSE stage' = "created" /\ doc' = CreateDIDDHTDID(input)
    /\ UNCHANGED <<input, packet, got>>

Publish ==
    /\ stage = "created"
    /\ IF PacketFails(doc, input)
       THEN stage' = "unpackable" /\ packet' = packet
       ELSE /\ stage' = "packed"
            /\ \E order \in Orders : packet' = Ordered(ToDNSPacket(doc, input), order)
    /\ UNCHANGED <<input, doc, got>>

\* A gateway's record comes before all that could still be refused: the signature of the
\* previous DID has been checked when the packet was written.
Read ==
    /\ stage = "packed"
    /\ CASE Panics(packet) -> stage' = "panicked" /\ got' = got
         [] ~ Panics(packet) /\ ReadFails(packet) -> stage' = "unreadable" /\ got' = got
         [] OTHER -> stage' = "read" /\ got' = FromDNSPacket(packet)
    /\ UNCHANGED <<input, doc, packet>>

Next == Create \/ Publish \/ Read

Spec == Init /\ [][Next]_vars

-------------------------------------------------------------------------------
(* What the two conversions promise                                         *)

\* A name is a fragment of an id: not empty, not an id of another DID itself, and without
\* a separator of the record; an algorithm or a controller is one field.  The code asks for
\* none of this: "#", "#did:dht:other#a" and "a;b" are taken for the id of a method, and
\* "a" and "a;b" are one id to a reader; "x;k=.." is taken for a controller, and the key in
\* it for the method's.
WellNamed(o) ==
    \A i \in DOMAIN o.vms :
        LET vm == o.vms[i] IN
        /\ IsJust(vm.id[2])
        /\ vm.id[1] \in {"bare", "hash", "own"} =>
              vm.id[2] # Empty /\ vm.id[2][1][1][1] # "other"
        /\ Len(vm.alg) = 1 /\ Len(vm.controller) = 1

\* No text has a separator in it, each method has a key and a DID of its own.
Simple(o) ==
    /\ \A i \in DOMAIN o.controller : IsPlain(o.controller[i])
    /\ \A i \in DOMAIN o.aka : IsPlain(o.aka[i])
    /\ \A i \in DOMAIN o.vms :
          /\ o.vms[i].id[1] # "other" /\ o.vms[i].key # IdentityKey
          /\ IsJust(o.vms[i].alg) /\ IsJust(o.vms[i].controller)
    /\ \A i \in DOMAIN o.services :
          LET s == o.services[i] IN
          /\ IsPlain(s.id[2]) /\ IsPlain(s.type) /\ s.endpoint # <<>>
          /\ \A t \in ToSet(s.endpoint \o s.sig \o s.enc) : IsPlain(t)

\* A packet, read back, is the document it was written from, with its types,
\* gateways and previous DID: algorithms left to default are spelled out and a
\* service is named by the last part of its id.
RoundTrip ==
    stage = "read" /\ Simple(input) /\ WellNamed(input) =>
        /\ got.controller = doc.controller /\ got.aka = doc.aka /\ got.rel = doc.rel
        /\ got.vms = [i \in DOMAIN doc.vms |->
              [doc.vms[i] EXCEPT !.alg = IF @ = Empty THEN DefaultAlg(doc.vms[i].key) ELSE @]]
        /\ got.services = [i \in DOMAIN doc.services |->
              [doc.services[i] EXCEPT !.id = <<"hash", @[2]>>]]
        /\ got.gateways = input.gateways /\ got.types = input.types
        /\ got.previous = input.previous

\* The keys a document lets act for a purpose.
KeysFor(d, purpose) ==
    {d.vms[i].key : i \in {j \in DOMAIN d.vms : d.vms[j].id \in ToSet(d.rel[purpose])}}

\* No key gains a purpose on the way if names are such: not by what its id is a name of,
\* by an id that is left out, by an algorithm or a controller that is cut at a "=", or by
\* the texts of services and lists; and none loses one, not even the identity key listed
\* again under another id, if no two methods end up with one id ("a" and "#a" both pass
\* the check of CreateDIDDHTDID, and the later one's record stands for both).
SameAuthority ==
    stage = "read" /\ WellNamed(input) => \A p \in Purposes :
        /\ KeysFor(got, p) \subseteq KeysFor(doc, p)
        /\ IsInjective([i \in DOMAIN doc.vms |-> doc.vms[i].id]) =>
              KeysFor(got, p) = KeysFor(doc, p)

\* Every reference of a document that was read names one of its methods.
ReferencesResolve ==
    stage = "read" => \A p \in Purposes : \A id \in ToSet(got.rel[p]) :
        \E i \in DOMAIN got.vms : got.vms[i].id = id

===============================================================================
