--------------------------- MODULE RepublisherProofs ---------------------------
(***************************************************************************)
(* Proofs about Republisher, for any number of ids, any size of pages and   *)
(* both storages: a pass puts every record, and forgets no put that was     *)
(* reported as failed.                                                      *)
(***************************************************************************)
EXTENDS Republisher, FiniteSetTheorems, TLAPS

-------------------------------------------------------------------------------
(* Finite sets of numbers, and the first of them                            *)

\* A finite set of numbers has a least and a greatest member (NextToken's Max is one).
LEMMA HasLeastAndGreatest ==
    ASSUME NEW S \in SUBSET Nat, IsFiniteSet(S), S # {}
    PROVE  /\ \E x \in S : \A y \in S : x <= y
           /\ \E x \in S : \A y \in S : x >= y
  <1> DEFINE Good(T) == /\ \E x \in T : \A y \in T : x <= y
                        /\ \E x \in T : \A y \in T : x >= y
             Bad == {T \in FiniteSubsetsOf(S) : T # {} /\ ~ Good(T)}
  <1>1. SUFFICES ASSUME Bad # {} PROVE FALSE
    <2>1. S \in FiniteSubsetsOf(S)
      BY DEF FiniteSubsetsOf
    <2> QED BY <2>1
  <1>2. PICK T \in Bad : \A U \in Bad : ~ (<<U, T>> \in StrictSubsetOrdering(S))
    <2>1. Bad \subseteq FiniteSubsetsOf(S)
      OBVIOUS
    <2> HIDE DEF Bad
    <2> QED BY <1>1, <2>1, FS_StrictSubsetOrderingWellFounded, WFMin
  <1>3. T \subseteq S /\ IsFiniteSet(T) /\ T # {} /\ ~ Good(T)
    BY DEF FiniteSubsetsOf
  <1>4. PICK x \in T : TRUE
    BY <1>3
  <1> DEFINE U == T \ {x}
  <1>5. U \in FiniteSubsetsOf(S) /\ <<U, T>> \in StrictSubsetOrdering(S)
    <2>1. U \subseteq T /\ U # T /\ IsFiniteSet(U)
      BY <1>3, <1>4, FS_RemoveElement
    <2> QED BY <1>3, <2>1 DEF FiniteSubsetsOf, StrictSubsetOrdering
  <1>6. U = {} \/ Good(U)
    BY <1>2, <1>5
  <1>7. CASE U = {}
    <2>1. T = {x} /\ x \in Nat
      BY <1>3, <1>4, <1>7
    <2> QED BY <2>1, <1>3
  <1>8. CASE Good(U)
    <2>1. PICK lo \in U : \A y \in U : lo <= y
      BY <1>8
    <2>2. PICK hi \in U : \A y \in U : hi >= y
      BY <1>8
    <2>3. T = U \union {x} /\ x \in Nat /\ U \subseteq Nat
      BY <1>3, <1>4
    <2>4. \E l \in T : \A y \in T : l <= y
      <3>1. CASE x <= lo
        BY <2>1, <2>3, <3>1
      <3>2. CASE lo <= x
        BY <2>1, <2>3, <3>2
      <3> QED BY <2>1, <2>3, <3>1, <3>2
    <2>5. \E h \in T : \A y \in T : h >= y
      <3>1. CASE x >= hi
        BY <2>2, <2>3, <3>1
      <3>2. CASE hi >= x
        BY <2>2, <2>3, <3>2
      <3> QED BY <2>2, <2>3, <3>1, <3>2
    <2> QED BY <2>4, <2>5, <1>3
  <1> QED BY <1>6, <1>7, <1>8

\* Max picks the greatest id of a page.
LEMMA MaxIs ==
    ASSUME NEW S \in SUBSET Nat, IsFiniteSet(S), S # {}
    PROVE  Max(S) \in S /\ \A y \in S : Max(S) >= y
  BY HasLeastAndGreatest DEF Max

Below(S, x) == {j \in S : j < x}

\* A page that leaves something out is full, and all of it comes before.
LEMMA FirstOfFull ==
    ASSUME NEW S \in SUBSET Ids, NEW x \in S, x \notin FirstOf(S)
    PROVE  Cardinality(FirstOf(S)) = PageSize /\ \A y \in FirstOf(S) : y < x
  <1> DEFINE F == FirstOf(S)
  <1>1. S \subseteq Nat /\ IsFiniteSet(S)
    BY IdsAssumption, FS_Subset
  <1>2. \A y : y \in F <=> y \in S /\ Cardinality(Below(S, y)) < PageSize
    BY DEF FirstOf, Below
  <1>3. x \in S \ F
    OBVIOUS
  <1> HIDE DEF F
  <1>4. \A y \in S : IsFiniteSet(Below(S, y)) /\ Cardinality(Below(S, y)) \in Nat
    <2> TAKE y \in S
    <2>1. Below(S, y) \in SUBSET S
      BY DEF Below
    <2> QED BY <1>1, <2>1, FS_Subset, FS_CardinalityType
  <1>5. \A y \in F, z \in S \ F : y < z
    <2> SUFFICES ASSUME NEW y \in F, NEW z \in S \ F, ~ (y < z) PROVE FALSE
      OBVIOUS
    <2>1. y \in S /\ z \in S
      BY <1>2
    <2>2. y \in Nat /\ z \in Nat /\ z <= y
      BY <1>1, <2>1
    <2>3. \A j \in S : j < z => j < y
      BY <1>1, <2>2
    <2>4. Below(S, z) \in SUBSET Below(S, y)
      BY ONLY <2>3 DEF Below
    <2>5. Cardinality(Below(S, z)) <= Cardinality(Below(S, y))
      BY <1>4, <2>1, <2>4, FS_Subset
    <2>6. Cardinality(Below(S, y)) < PageSize /\ ~ (Cardinality(Below(S, z)) < PageSize)
      BY <1>2
    <2>7. Cardinality(Below(S, y)) \in Nat /\ Cardinality(Below(S, z)) \in Nat
      BY <1>4, <2>1
    <2> QED BY <2>5, <2>6, <2>7, PageSizeAssumption
  <1>6. PICK least \in S \ F : \A y \in S \ F : least <= y
    <2>1. IsFiniteSet(S \ F) /\ S \ F # {} /\ S \ F \in SUBSET Nat
      BY <1>3, <1>1, FS_Difference
    <2> QED BY <2>1, HasLeastAndGreatest
  <1>7. F = Below(S, least)
    <2>1. \A y \in F : y \in S /\ y < least
      BY <1>2, <1>5
    <2>2. \A y \in S \ F : ~ (y < least)
      BY <1>1, <1>6
    <2> QED BY ONLY <2>1, <2>2 DEF Below
  <1>8. IsFiniteSet(F) /\ Cardinality(F) \in Nat /\ Cardinality(F) >= PageSize
    BY <1>2, <1>4, <1>6, <1>7, PageSizeAssumption
  <1>9. F # {}
    BY <1>8, FS_EmptySet, PageSizeAssumption
  <1>10. PICK last \in F : \A y \in F : last >= y
    BY <1>1, <1>2, <1>8, <1>9, HasLeastAndGreatest
  <1>11. F = Below(S, last) \union {last} /\ last \notin Below(S, last)
    <2>0. \A y \in F : y \in S /\ y \in Nat
      BY <1>1, <1>2
    <2>1. last \in S /\ \A y \in F : y \in S /\ (y = last \/ y < last)
      BY <1>10, <2>0
    <2>2. \A y \in S \ F : ~ (y < last)
      <3> SUFFICES ASSUME NEW y \in S \ F, y < last PROVE FALSE
        OBVIOUS
      <3>1. last < y /\ last \in Nat /\ y \in Nat
        BY <1>1, <1>5, <2>0
      <3> QED BY <3>1
    <2>3. ~ (last < last)
      BY <1>1, <2>1
    <2> QED BY ONLY <2>1, <2>2, <2>3 DEF Below
  <1>12. PageSize \in Nat
    BY PageSizeAssumption
  <1>13. Cardinality(F) = Cardinality(Below(S, last)) + 1
    <2>1. IsFiniteSet(Below(S, last))
      BY <1>2, <1>4
    <2>2. Cardinality(Below(S, last) \union {last}) = Cardinality(Below(S, last)) + 1
      BY <1>11, <2>1, FS_AddElement
    <2> QED BY <1>11, <2>2
  <1>14. Cardinality(F) <= PageSize
    <2>0. last \in S
      BY <1>2
    <2>1. Cardinality(Below(S, last)) \in Nat /\ Cardinality(Below(S, last)) < PageSize
      BY <1>2, <1>4, <2>0
    <2> QED BY <1>13, <1>12, <2>1
  <1>15. Cardinality(F) = PageSize
    BY <1>8, <1>14, <1>12
  <1>16. \A y \in F : y < x
    BY <1>3, <1>5
  <1> QED BY <1>15, <1>16 DEF F

\* A page lists nothing but what it is taken from.
LEMMA FirstOfSubset == \A S : FirstOf(S) \subseteq S
  BY DEF FirstOf

-------------------------------------------------------------------------------
(* Lists of records, looked at by their ids                                 *)

Listed(s, id) == \E i \in 1 .. Len(s) : s[i][1] = id

Distinct(s) == \A i, j \in 1 .. Len(s) : s[i][1] = s[j][1] => i = j

\* Nothing is in an empty list or channel.
LEMMA EmptyList == Distinct(<<>>) /\ \A id : ~ Listed(<<>>, id)
  BY DEF Listed, Distinct

\* WorkerSend: one more id is listed, twice only if it was there before.
LEMMA AppendList ==
    ASSUME NEW s \in Seq(Item), NEW e \in Item
    PROVE  /\ Append(s, e) \in Seq(Item)
           /\ \A id : Listed(Append(s, e), id) <=> Listed(s, id) \/ e[1] = id
           /\ Distinct(s) /\ ~ Listed(s, e[1]) => Distinct(Append(s, e))
  <1> DEFINE t == Append(s, e)
  <1>1. t \in Seq(Item) /\ Len(t) = Len(s) + 1 /\ Len(s) \in Nat
    OBVIOUS
  <1>2. t[Len(s) + 1] = e /\ \A i \in 1 .. Len(s) : t[i] = s[i]
    OBVIOUS
  <1> HIDE DEF t
  <1>3. \A i \in 1 .. Len(t) : i \in 1 .. Len(s) \/ i = Len(s) + 1
    BY <1>1
  <1>4. Len(s) + 1 \in 1 .. Len(t) /\ \A i \in 1 .. Len(s) : i \in 1 .. Len(t)
    BY <1>1
  <1>5. \A id : Listed(t, id) <=> Listed(s, id) \/ e[1] = id
    BY <1>2, <1>3, <1>4 DEF Listed
  <1>6. Distinct(s) /\ ~ Listed(s, e[1]) => Distinct(t)
    BY <1>2, <1>3 DEF Listed, Distinct
  <1> QED BY <1>1, <1>5, <1>6 DEF t

\* FinishBatch: what was in either list is in the joined one.
LEMMA ConcatList ==
    ASSUME NEW s \in Seq(Item), NEW t \in Seq(Item)
    PROVE  /\ s \o t \in Seq(Item)
           /\ \A id : Listed(s \o t, id) <=> Listed(s, id) \/ Listed(t, id)
           /\ Distinct(s) /\ Distinct(t) /\ (\A id : ~ (Listed(s, id) /\ Listed(t, id)))
                 => Distinct(s \o t)
  <1> DEFINE u == s \o t
  <1>1. u \in Seq(Item) /\ Len(u) = Len(s) + Len(t) /\ Len(s) \in Nat /\ Len(t) \in Nat
    OBVIOUS
  <1>2. /\ \A i \in 1 .. Len(s) : u[i] = s[i] /\ i \in 1 .. Len(u)
        /\ \A i \in 1 .. Len(t) : u[Len(s) + i] = t[i] /\ Len(s) + i \in 1 .. Len(u)
    OBVIOUS
  <1> HIDE DEF u
  <1>3. \A i \in 1 .. Len(u) :
           i \in 1 .. Len(s) \/ (i - Len(s) \in 1 .. Len(t) /\ i = Len(s) + (i - Len(s)))
    BY <1>1
  <1>4. ASSUME NEW i \in 1 .. Len(u)
        PROVE  \/ i \in 1 .. Len(s) /\ u[i] = s[i]
               \/ \E j \in 1 .. Len(t) : i = Len(s) + j /\ u[i] = t[j]
    <2>1. CASE i \in 1 .. Len(s)
      BY <1>2, <2>1
    <2>2. CASE i \notin 1 .. Len(s)
      <3>1. PICK j \in 1 .. Len(t) : i = Len(s) + j
        BY <1>3, <2>2
      <3>2. u[i] = t[j]
        BY <1>2, <3>1
      <3> QED BY <3>1, <3>2
    <2> QED BY <2>1, <2>2
  <1>5. ASSUME NEW id
        PROVE  Listed(u, id) <=> Listed(s, id) \/ Listed(t, id)
    <2>1. ASSUME Listed(u, id) PROVE Listed(s, id) \/ Listed(t, id)
      <3>1. PICK i \in 1 .. Len(u) : u[i][1] = id
        BY <2>1 DEF Listed
      <3>2. CASE i \in 1 .. Len(s) /\ u[i] = s[i]
        BY <3>1, <3>2 DEF Listed
      <3>3. CASE \E j \in 1 .. Len(t) : i = Len(s) + j /\ u[i] = t[j]
        BY <3>1, <3>3 DEF Listed
      <3> QED BY <1>4, <3>2, <3>3
    <2>2. ASSUME Listed(s, id) PROVE Listed(u, id)
      <3>1. PICK i \in 1 .. Len(s) : s[i][1] = id
        BY <2>2 DEF Listed
      <3> QED BY <1>2, <3>1 DEF Listed
    <2>3. ASSUME Listed(t, id) PROVE Listed(u, id)
      <3>1. PICK i \in 1 .. Len(t) : t[i][1] = id
        BY <2>3 DEF Listed
      <3> QED BY <1>2, <3>1 DEF Listed
    <2> QED BY <2>1, <2>2, <2>3
  <1>6. ASSUME Distinct(s), Distinct(t), \A id : ~ (Listed(s, id) /\ Listed(t, id))
        PROVE  Distinct(u)
    <2> SUFFICES ASSUME NEW i \in 1 .. Len(u), NEW j \in 1 .. Len(u), u[i][1] = u[j][1]
                 PROVE  i = j
      BY DEF Distinct
    <2>1. CASE i \in 1 .. Len(s) /\ u[i] = s[i]
      <3>1. Listed(s, u[i][1])
        BY <2>1 DEF Listed
      <3>2. ~ Listed(t, u[j][1])
        BY <1>6, <3>1
      <3>3. j \in 1 .. Len(s) /\ u[j] = s[j]
        BY <1>4, <3>2 DEF Listed
      <3> QED BY <1>6, <2>1, <3>3 DEF Distinct
    <2>2. CASE \E k \in 1 .. Len(t) : i = Len(s) + k /\ u[i] = t[k]
      <3>1. PICK k \in 1 .. Len(t) : i = Len(s) + k /\ u[i] = t[k]
        BY <2>2
      <3>2. Listed(t, u[j][1])
        BY <3>1 DEF Listed
      <3>3. ~ Listed(s, u[j][1])
        BY <1>6, <3>2
      <3>4. PICK l \in 1 .. Len(t) : j = Len(s) + l /\ u[j] = t[l]
        BY <1>4, <3>3 DEF Listed
      <3>5. k = l
        BY <1>6, <3>1, <3>4 DEF Distinct
      <3> QED BY <3>1, <3>4, <3>5
    <2> QED BY <1>4, <2>1, <2>2
  <1> QED BY <1>1, <1>5, <1>6 DEF u

\* RetryPut and CountFailure: only the first record leaves the list.
LEMMA TailList ==
    ASSUME NEW s \in Seq(Item), s # <<>>
    PROVE  /\ Head(s) \in Item /\ Tail(s) \in Seq(Item)
           /\ Listed(s, Head(s)[1])
           /\ \A id : Listed(s, id) => Listed(Tail(s), id) \/ Head(s)[1] = id
           /\ Distinct(s) => Distinct(Tail(s))
  <1> DEFINE t == Tail(s)
  <1>1. /\ Head(s) \in Item /\ t \in Seq(Item) /\ Head(s) = s[1]
        /\ Len(s) \in Nat \ {0} /\ Len(t) = Len(s) - 1
        /\ \A i \in 1 .. Len(t) : t[i] = s[i + 1]
    OBVIOUS
  <1> HIDE DEF t
  <1>2. /\ 1 \in 1 .. Len(s)
        /\ \A i \in 1 .. Len(t) : i + 1 \in 1 .. Len(s)
        /\ \A i \in 1 .. Len(s) : i = 1 \/ (i - 1 \in 1 .. Len(t) /\ (i - 1) + 1 = i)
    BY <1>1
  <1>3. \A i \in 1 .. Len(s) : i = 1 \/ \E j \in 1 .. Len(t) : t[j] = s[i]
    BY <1>1, <1>2
  <1>4. \A id : Listed(s, id) => Listed(t, id) \/ Head(s)[1] = id
    BY <1>1, <1>3 DEF Listed
  <1>5. Distinct(s) => Distinct(t)
    <2> SUFFICES ASSUME Distinct(s), NEW i \in 1 .. Len(t), NEW j \in 1 .. Len(t), t[i][1] = t[j][1]
                 PROVE  i = j
      BY DEF Distinct
    <2>1. i + 1 = j + 1
      BY <1>1, <1>2 DEF Distinct
    <2> QED BY <2>1
  <1>6. Listed(s, Head(s)[1])
    BY <1>1, <1>2 DEF Listed
  <1> QED BY <1>1, <1>4, <1>5, <1>6 DEF t

-------------------------------------------------------------------------------
(* Pages                                                                    *)

\* The listing goes on after the token.
After(id) == token = None \/ \E k \in Seek(token) : id > k

\* A page has what it lists in the storage, and nothing between its last record, which
\* the token names, and the next page; if there is no token, there is no next page.
LEMMA PageFacts ==
    /\ Page \subseteq Stored /\ Stored \subseteq Ids
    /\ \A id \in Page : After(id)
    /\ NextToken(Page) \in Page \union {None}
    /\ NextToken(Page) # None =>
          \A id \in Ids : (id \in Page => id <= NextToken(Page))
                          /\ (id \in Stored /\ After(id) => id \in Page \/ id > NextToken(Page))
    /\ NextToken(Page) = None => \A id \in Stored : After(id) => id \in Page
    /\ NextToken(Page) = None <=> Cardinality(Page) # PageSize
  <1> DEFINE rest == {id \in Stored : After(id)}
  <1>1. Page = FirstOf(rest) /\ rest \in SUBSET Ids /\ Stored \subseteq Ids
    BY DEF Page, Stored, After
  <1>2. Page \subseteq rest
    BY <1>1, FirstOfSubset
  <1>3. Page \subseteq Ids /\ Page \in SUBSET Nat /\ IsFiniteSet(Page)
    BY <1>1, <1>2, IdsAssumption, FS_Subset
  <1>4. rest \subseteq Stored /\ \A id \in rest : After(id)
    OBVIOUS
  <1>5. \A id \in Stored : After(id) => id \in rest
    OBVIOUS
  <1> HIDE DEF rest
  <1>6. CASE Cardinality(Page) = PageSize
    <2>1. Page # {}
      BY <1>3, <1>6, FS_EmptySet, PageSizeAssumption
    <2>2. NextToken(Page) = Max(Page) /\ Max(Page) \in Page /\ \A y \in Page : Max(Page) >= y
      BY <1>3, <1>6, <2>1, MaxIs DEF NextToken
    <2>3. NextToken(Page) # None
      BY <1>3, <2>2, NoneAssumption
    <2>4. \A id \in Page : id <= NextToken(Page)
      BY <1>3, <2>2
    <2>5. \A id \in rest : id \in Page \/ id > NextToken(Page)
      <3> SUFFICES ASSUME NEW id \in rest, id \notin Page PROVE id > NextToken(Page)
        OBVIOUS
      <3>1. \A y \in Page : y < id
        BY <1>1, FirstOfFull
      <3>2. id \in Nat /\ NextToken(Page) \in Nat /\ NextToken(Page) < id
        BY <1>1, <1>3, <2>2, <3>1, IdsAssumption
      <3> QED BY <3>2
    <2> QED BY <1>1, <1>2, <1>4, <1>5, <1>6, <2>2, <2>3, <2>4, <2>5
  <1>7. CASE Cardinality(Page) # PageSize
    <2>1. NextToken(Page) = None
      BY <1>7 DEF NextToken
    <2>2. \A id \in rest : id \in Page
      BY <1>1, <1>7, FirstOfFull
    <2> QED BY <1>1, <1>2, <1>4, <1>5, <1>7, <2>1, <2>2
  <1> QED BY <1>6, <1>7

-------------------------------------------------------------------------------
(* Types, and what each place of a pass leaves behind                       *)

Flow ==
    /\ pc # "batch" => chan = <<>> /\ worker = Off /\ batch = Empty
    /\ pc \in {"retry", "count", "idle"} => token = None
    /\ token = None => ~ freed
    /\ pc = "idle" => failed = <<>>
    /\ pc = "count" => failed # <<>>
    /\ pc # "count" => retry < MaxRetries
    /\ \A id \in Ids : worker[id] # "off" => batch[id] # None

Base == TypeOK /\ Flow

\* One lemma per action: types, and the flow of a pass.
LEMMA InitBase == Init => Base
  <1> SUFFICES ASSUME Init PROVE Base
    OBVIOUS
  <1>1. freed \in BOOLEAN /\ relisted \in BOOLEAN
    BY Zenon DEF Init
  <1>2. TypeOK
    BY <1>1 DEF Init, TypeOK, Off, Empty, MaxRetries
  <1>3. Flow
    BY DEF Init, Flow, Off, Empty, MaxRetries
  <1> QED BY <1>2, <1>3 DEF Base

LEMMA StartBase == ASSUME Base, Start PROVE Base'
  <1>1. relisted' \in BOOLEAN
    BY Zenon DEF Start
  <1>2. TypeOK'
    BY <1>1 DEF Base, TypeOK, Start, Stored
  <1>3. Flow'
    BY DEF Base, Flow, Start
  <1> QED BY <1>2, <1>3 DEF Base

LEMMA ListPageBase == ASSUME Base, ListPage PROVE Base'
  <1> DEFINE good == Page \ Corrupt
  <1>1. good \subseteq Ids /\ (\A id \in good : db[id] \in Record /\ db[id] # None)
        /\ NextToken(Page) \in Ids \union {None}
    BY PageFacts DEF Base, TypeOK, Stored
  <1>2. \/ pc' = "retry" /\ token' = None /\ UNCHANGED <<batch, worker>>
        \/ /\ pc' = "batch" /\ token' = NextToken(Page)
           /\ batch' = [id \in Ids |-> IF id \in good THEN db[id] ELSE None]
           /\ worker' = [id \in Ids |-> IF id \in good THEN "put" ELSE "off"]
    BY DEF ListPage
  <1>3. pc = "list" /\ freed' = FALSE
        /\ UNCHANGED <<db, dht, failures, chan, failed, retry, due, errored, unheard, made,
                        relisted>>
    BY DEF ListPage, history
  <1> HIDE DEF good
  <1>4. freed' \in BOOLEAN
    BY <1>3, Zenon
  <1>5. batch' \in [Ids -> Record \union {None}]
        /\ worker' \in [Ids -> {"off", "put", "send", "done"}]
    BY <1>1, <1>2 DEF Base, TypeOK
  <1>6. TypeOK'
    BY <1>1, <1>2, <1>3, <1>4, <1>5 DEF Base, TypeOK
  <1>7. \A id \in Ids : worker'[id] # "off" => batch'[id] # None
    BY <1>1, <1>2 DEF Base, Flow
  <1>8. Flow'
    BY <1>2, <1>3, <1>7 DEF Base, Flow
  <1> QED BY <1>6, <1>8 DEF Base

LEMMA ListErrorBase == ASSUME Base, ListError PROVE Base'
  <1>1. freed' \in BOOLEAN /\ relisted' \in BOOLEAN
    BY Zenon DEF ListError
  <1>2. TypeOK'
    BY <1>1 DEF Base, TypeOK, ListError
  <1>3. Flow'
    BY DEF Base, Flow, ListError
  <1> QED BY <1>2, <1>3 DEF Base

LEMMA WorkerPutBase ==
    ASSUME Base, NEW id \in Ids, NEW result, NEW taken, WorkerPut(id, result, taken)
    PROVE  Base'
  <1>1. batch[id] \in Record
    BY DEF Base, TypeOK, Flow, WorkerPut
  <1>2. dht' \in [Ids -> SUBSET Record]
    BY <1>1 DEF Base, TypeOK, WorkerPut, PutToDHT
  <1>3. pc = "batch"
    BY DEF Base, Flow, Off, WorkerPut
  <1>4. TypeOK'
    BY <1>2 DEF Base, TypeOK, WorkerPut
  <1>5. Flow'
    BY <1>3 DEF Base, TypeOK, Flow, WorkerPut
  <1> QED BY <1>4, <1>5 DEF Base

LEMMA WorkerSendBase == ASSUME Base, NEW id \in Ids, WorkerSend(id) PROVE Base'
  <1>1. <<id, batch[id]>> \in Item
    BY DEF Base, TypeOK, Flow, WorkerSend, Item
  <1>2. chan' \in Seq(Item)
    BY <1>1, AppendList DEF Base, TypeOK, WorkerSend
  <1>3. pc = "batch"
    BY DEF Base, Flow, Off, WorkerSend
  <1>4. TypeOK'
    BY <1>2 DEF Base, TypeOK, WorkerSend, history
  <1>5. Flow'
    BY <1>3 DEF Base, TypeOK, Flow, WorkerSend
  <1> QED BY <1>4, <1>5 DEF Base

LEMMA FinishBatchBase == ASSUME Base, FinishBatch PROVE Base'
  <1>1. failed' \in Seq(Item)
    BY ConcatList DEF Base, TypeOK, FinishBatch
  <1>2. batch' \in [Ids -> Record \union {None}]
        /\ worker' \in [Ids -> {"off", "put", "send", "done"}]
        /\ chan' \in Seq(Item)
    BY DEF FinishBatch, Off, Empty
  <1>3. TypeOK'
    BY <1>1, <1>2 DEF Base, TypeOK, FinishBatch, history
  <1>4. Flow'
    BY DEF Base, Flow, FinishBatch, Off
  <1> QED BY <1>3, <1>4 DEF Base

LEMMA RetryPutBase ==
    ASSUME Base, NEW result, NEW taken, RetryPut(result, taken)
    PROVE  Base'
  <1>1. Head(failed) \in Item /\ Tail(failed) \in Seq(Item)
    BY TailList DEF Base, TypeOK, RetryPut
  <1>2. Head(failed)[1] \in Ids /\ Head(failed)[2] \in Record
    BY <1>1 DEF Item
  <1>3. dht' \in [Ids -> SUBSET Record]
    BY <1>2 DEF Base, TypeOK, RetryPut, PutToDHT
  <1>4. failed' \in Seq(Item) /\ made' \subseteq Ids
    BY <1>1, <1>2 DEF Base, TypeOK, RetryPut
  <1>5. retry < MaxRetries /\ retry \in 0 .. MaxRetries
    BY DEF Base, TypeOK, Flow, RetryPut
  <1>6. retry' \in 0 .. MaxRetries /\ pc' \in {"retry", "count"}
        /\ (pc' # "count" => retry' < MaxRetries)
    BY <1>5 DEF RetryPut, MaxRetries
  <1>7. TypeOK'
    BY <1>3, <1>4, <1>6 DEF Base, TypeOK, RetryPut
  <1>8. pc' = "count" => failed' # <<>>
    BY DEF RetryPut, MaxRetries
  <1>9. Flow'
    BY <1>6, <1>8 DEF Base, Flow, RetryPut
  <1> QED BY <1>7, <1>9 DEF Base

LEMMA CountFailureBase == ASSUME Base, NEW written, CountFailure(written) PROVE Base'
  <1>1. Head(failed) \in Item /\ Tail(failed) \in Seq(Item)
    BY TailList DEF Base, TypeOK, Flow, CountFailure
  <1>2. Head(failed)[1] \in Ids
    BY <1>1 DEF Item
  <1>3. TypeOK'
    BY <1>1, <1>2 DEF Base, TypeOK, CountFailure, MaxRetries
  <1>4. Flow'
    BY DEF Base, Flow, CountFailure, MaxRetries
  <1> QED BY <1>3, <1>4 DEF Base

LEMMA FinishBase == ASSUME Base, Finish PROVE Base'
  <1>1. TypeOK'
    BY DEF Base, TypeOK, Finish, history
  <1>2. Flow'
    BY DEF Base, Flow, Finish
  <1> QED BY <1>1, <1>2 DEF Base

LEMMA WriteRecordBase ==
    ASSUME Base, NEW id \in Ids, NEW rec \in Record, WriteRecord(id, rec)
    PROVE  Base'
  <1>1. token' \in Ids \union {None} /\ (token = None => token' = None)
    BY DEF Base, TypeOK, Flow, WriteRecord
  <1>2. freed' = (Reuse /\ token # None) /\ freed' \in BOOLEAN
    BY Zenon DEF WriteRecord
  <1>3. token' = None => ~ freed'
    BY <1>2, NoneAssumption DEF Base, TypeOK, WriteRecord
  <1>4. db' \in [Ids -> Record \union {None}]
    BY DEF Base, TypeOK, WriteRecord
  <1>5. TypeOK'
    BY <1>1, <1>2, <1>4 DEF Base, TypeOK, WriteRecord, history
  <1>6. Flow'
    BY <1>1, <1>3 DEF Base, Flow, WriteRecord
  <1> QED BY <1>5, <1>6 DEF Base

LEMMA DhtBase ==
    ASSUME Base, NEW id \in Ids, NEW rec \in Record, OtherPut(id, rec) \/ DhtForget(id, rec)
    PROVE  Base'
  <1>1. dht' \in [Ids -> SUBSET Record] /\ UNCHANGED <<db, failures, pass, history>>
    BY DEF Base, TypeOK, OtherPut, DhtForget
  <1>2. TypeOK'
    BY <1>1 DEF Base, TypeOK, pass, history
  <1>3. Flow'
    BY <1>1 DEF Base, Flow, pass
  <1> QED BY <1>2, <1>3 DEF Base

LEMMA RestartBase == ASSUME Base, Restart PROVE Base'
  <1>1. freed' \in BOOLEAN /\ relisted' \in BOOLEAN
    BY Zenon DEF Restart
  <1>2. batch' \in [Ids -> Record \union {None}]
        /\ worker' \in [Ids -> {"off", "put", "send", "done"}]
        /\ chan' \in Seq(Item) /\ failed' \in Seq(Item)
    BY DEF Restart, Off, Empty
  <1>3. TypeOK'
    BY <1>1, <1>2 DEF Base, TypeOK, Restart, MaxRetries
  <1>4. Flow'
    BY DEF Flow, Restart, Off, MaxRetries
  <1> QED BY <1>3, <1>4 DEF Base

LEMMA StepBase == Base /\ [Next]_vars => Base'
  <1> SUFFICES ASSUME Base, [Next]_vars PROVE Base'
    OBVIOUS
  <1>1. CASE UNCHANGED vars
    <2>1. UNCHANGED <<db, dht, failures, pc, token, freed, batch, worker, chan, failed, retry, due,
                      errored, unheard, made, relisted>>
      BY <1>1 DEF vars, pass, history
    <2>2. TypeOK'
      BY <2>1 DEF Base, TypeOK
    <2> QED BY <2>1, <2>2 DEF Base, Flow
  <1>2. CASE RepublishNext
    BY <1>2, StartBase, ListPageBase, ListErrorBase, WorkerPutBase, WorkerSendBase, FinishBatchBase,
       RetryPutBase, CountFailureBase, FinishBase DEF RepublishNext
  <1>3. CASE EnvNext
    BY <1>3, WriteRecordBase, DhtBase DEF EnvNext
  <1>4. CASE Restart
    BY <1>4, RestartBase
  <1> QED BY <1>1, <1>2, <1>3, <1>4 DEF Next

\* The types of Republisher, for any ids, pages and results of puts.
THEOREM TypeCorrect == Spec => []TypeOK
  <1>1. Base => TypeOK
    BY DEF Base
  <1> QED BY InitBase, StepBase, <1>1, PTL DEF Spec

-------------------------------------------------------------------------------
(* No failed put is forgotten                                               *)

\* The failure of a put is on its way: with the goroutine, in the channel or listed.
Awaited(id) == worker[id] = "send" \/ Listed(chan, id) \/ Listed(failed, id)

Kept == \A id \in errored : id \in made \/ Awaited(id)

\* A put that fails is with its goroutine.
LEMMA WorkerPutKept ==
    ASSUME Base, Kept, NEW id \in Ids, NEW result \in PutResults, NEW taken,
           WorkerPut(id, result, taken)
    PROVE  Kept'
  <1>1. worker[id] = "put" /\ worker \in [Ids -> {"off", "put", "send", "done"}]
        /\ errored \subseteq Ids
    BY DEF Base, TypeOK, WorkerPut
  <1>2. \A j \in Ids : j # id => worker'[j] = worker[j]
    BY <1>1 DEF WorkerPut
  <1>3. UNCHANGED <<chan, failed, made>>
    BY DEF WorkerPut
  <1>4. id \in errored' => id \in errored \/ worker'[id] = "send"
    BY <1>1 DEF WorkerPut
  <1>5. \A j \in errored' : j \in Ids /\ (j \in errored \/ j = id)
    BY <1>1 DEF WorkerPut
  <1>6. ASSUME NEW j \in errored' PROVE j \in made' \/ Awaited(j)'
    <2>1. CASE j # id
      BY <1>2, <1>3, <1>5, <2>1 DEF Kept, Awaited, Listed
    <2>2. CASE j = id /\ worker'[id] = "send"
      BY <2>2 DEF Awaited
    <2>3. CASE j = id /\ id \in errored
      BY <1>1, <1>3, <2>3 DEF Kept, Awaited, Listed
    <2> QED BY <1>4, <1>6, <2>1, <2>2, <2>3
  <1> QED BY <1>6 DEF Kept

\* The goroutine hands it to the channel.
LEMMA WorkerSendKept ==
    ASSUME Base, Kept, NEW id \in Ids, WorkerSend(id)
    PROVE  Kept'
  <1>1. chan \in Seq(Item) /\ <<id, batch[id]>> \in Item /\ errored \subseteq Ids
    BY DEF Base, TypeOK, Flow, WorkerSend, Item
  <1>2. chan' = Append(chan, <<id, batch[id]>>) /\ UNCHANGED <<failed, errored, made>>
    BY DEF WorkerSend, history
  <1>3. \A j : Listed(chan', j) <=> Listed(chan, j) \/ id = j
    BY <1>1, <1>2, AppendList
  <1>4. \A j \in Ids : j # id => worker'[j] = worker[j]
    BY DEF Base, TypeOK, WorkerSend
  <1>5. ASSUME NEW j \in errored, Awaited(j) PROVE Awaited(j)'
    <2>1. CASE j = id
      BY <1>3, <2>1 DEF Awaited, Listed
    <2>2. CASE j # id
      BY <1>1, <1>2, <1>3, <1>4, <1>5, <2>2 DEF Awaited, Listed
    <2> QED BY <2>1, <2>2
  <1> QED BY <1>2, <1>5 DEF Kept

\* The channel is emptied into the list, and no goroutine still holds one.
LEMMA FinishBatchKept == ASSUME Base, Kept, FinishBatch PROVE Kept'
  <1>1. failed' = failed \o chan /\ UNCHANGED <<errored, made>>
    BY DEF FinishBatch, history
  <1>2. chan \in Seq(Item) /\ failed \in Seq(Item) /\ errored \subseteq Ids
    BY DEF Base, TypeOK
  <1>3. \A id : Listed(failed', id) <=> Listed(failed, id) \/ Listed(chan, id)
    BY <1>1, <1>2, ConcatList
  <1>4. \A id \in Ids : worker[id] # "send"
    BY DEF FinishBatch, AllDone
  <1>5. \A id \in errored : Awaited(id) => Listed(failed', id)
    BY <1>2, <1>3, <1>4 DEF Awaited
  <1>6. \A id : Listed(failed', id) => Awaited(id)'
    BY DEF Awaited, Listed
  <1> QED BY <1>1, <1>5, <1>6 DEF Kept

\* A record leaves the list only when its failure is made good.
LEMMA FailedHeadKept ==
    ASSUME Base, Kept, pc # "batch", failed # <<>>,
           UNCHANGED <<worker, chan, errored>>, made \subseteq made',
           failed' = failed \/ (failed' = Tail(failed) /\ Head(failed)[1] \in made')
    PROVE  Kept'
  <1>1. failed \in Seq(Item) /\ errored \subseteq Ids
    BY DEF Base, TypeOK
  <1>2. chan = <<>> /\ \A id \in Ids : worker[id] # "send"
    BY DEF Base, Flow, Off
  <1>3. \A id \in errored : id \in made \/ Listed(failed, id)
    BY <1>1, <1>2, EmptyList DEF Kept, Awaited
  <1>4. \A id : Listed(failed, id) => Listed(Tail(failed), id) \/ Head(failed)[1] = id
    BY <1>1, TailList
  <1>5. \A id : Listed(failed, id) => Listed(failed', id) \/ id \in made'
    BY <1>4
  <1>6. \A id : Listed(failed', id) => Awaited(id)'
    BY DEF Awaited, Listed
  <1> QED BY <1>3, <1>5, <1>6 DEF Kept

\* No step loses a failure.
LEMMA StepKept == ASSUME Base, Kept, [Next]_vars PROVE Kept'
  <1>1. ASSUME UNCHANGED <<worker, chan, failed, errored, made>> PROVE Kept'
    BY <1>1 DEF Kept, Awaited, Listed
  <1>2. CASE UNCHANGED vars
    BY <1>1, <1>2 DEF vars, pass, history
  <1>3. CASE Start
    BY <1>3 DEF Start, Kept
  <1>4. CASE ListPage
    <2>1. chan = <<>> /\ (\A id \in Ids : worker[id] # "send") /\ errored \subseteq Ids
      BY <1>4 DEF ListPage, Base, TypeOK, Flow, Off
    <2>2. \A id \in errored : id \in made \/ Listed(failed, id)
      BY <2>1, EmptyList DEF Kept, Awaited
    <2>3. UNCHANGED <<failed, errored, made>>
      BY <1>4 DEF ListPage, history
    <2> QED BY <2>2, <2>3 DEF Kept, Awaited, Listed
  <1>5. CASE ListError
    BY <1>1, <1>5 DEF ListError
  <1>6. ASSUME NEW id \in Ids, NEW result \in PutResults, NEW taken \in BOOLEAN,
               WorkerPut(id, result, taken)
        PROVE  Kept'
    BY <1>6, WorkerPutKept
  <1>7. ASSUME NEW id \in Ids, WorkerSend(id) PROVE Kept'
    BY <1>7, WorkerSendKept
  <1>8. CASE FinishBatch
    BY <1>8, FinishBatchKept
  <1>9. ASSUME NEW result \in PutResults, NEW taken \in BOOLEAN, RetryPut(result, taken) PROVE Kept'
    <2>1. pc # "batch" /\ failed # <<>> /\ UNCHANGED <<worker, chan, errored>>
          /\ made \subseteq made'
      BY <1>9 DEF RetryPut
    <2>2. failed' = failed \/ (failed' = Tail(failed) /\ Head(failed)[1] \in made')
      BY <1>9 DEF RetryPut
    <2> QED BY <2>1, <2>2, FailedHeadKept
  <1>10. ASSUME NEW written \in BOOLEAN, CountFailure(written) PROVE Kept'
    <2>1. pc # "batch" /\ failed # <<>> /\ UNCHANGED <<worker, chan, errored>>
          /\ made \subseteq made'
      BY <1>10 DEF CountFailure, Base, Flow
    <2>2. failed' = Tail(failed) /\ Head(failed)[1] \in made'
      BY <1>10 DEF CountFailure
    <2> QED BY <2>1, <2>2, FailedHeadKept
  <1>11. CASE Finish
    BY <1>1, <1>11 DEF Finish, history
  <1>12. CASE EnvNext
    BY <1>1, <1>12 DEF EnvNext, WriteRecord, OtherPut, DhtForget, pass, history
  <1>13. CASE Restart
    BY <1>13 DEF Restart, Kept
  <1> QED
    BY <1>2, <1>3, <1>4, <1>5, <1>6, <1>7, <1>8, <1>9, <1>10, <1>11, <1>12, <1>13
    DEF Next, RepublishNext

\* However puts and listings end, and in whatever order goroutines run: when a pass is
\* over, every record whose put isPutSuccessful reported as failed has been put again
\* with a report of success, or counted.
THEOREM NoFailureForgotten == Spec => []FailuresHandled
  <1>1. Init => Kept
    BY DEF Init, Kept
  <1>2. Base /\ Kept /\ [Next]_vars => Kept'
    BY StepKept
  <1>3. Base /\ Kept => FailuresHandled
    <2> SUFFICES ASSUME Base, Kept, pc = "idle" PROVE errored \subseteq made
      BY DEF FailuresHandled
    <2>1. chan = <<>> /\ failed = <<>> /\ worker = Off /\ errored \subseteq Ids
      BY DEF Base, TypeOK, Flow
    <2>2. \A id \in errored : ~ Awaited(id)
      BY <2>1, EmptyList DEF Awaited, Off
    <2> QED BY <2>2 DEF Kept
  <1> QED BY InitBase, StepBase, <1>1, <1>2, <1>3, PTL DEF Spec

-------------------------------------------------------------------------------
(* The token, where the memory it points to is left alone                   *)

Pinned == ~ freed /\ token \in Stored \union {None}

\* A token that is a stored key is where the cursor lands, so the listing goes on behind it.
LEMMA AfterToken ==
    ASSUME Base, token \in Stored, NEW id \in Ids
    PROVE  After(id) <=> id > token
  <1>1. Stored \subseteq Ids /\ Ids \subseteq Nat /\ token # None /\ token \in Nat
    BY IdsAssumption, NoneAssumption DEF Stored
  <1>2. token \in Seek(token)
    BY <1>1 DEF Seek
  <1>3. \A k \in Seek(token) : k = token
    BY <1>1 DEF Seek
  <1> QED BY <1>1, <1>2, <1>3 DEF After

\* Nothing deletes a record, so the token stays a stored key.
LEMMA StepPinned == ASSUME ~ Reuse, Base, Pinned, [Next]_vars PROVE Pinned'
  <1>1. ASSUME UNCHANGED <<db, token, freed>> PROVE Pinned'
    BY <1>1 DEF Pinned, Stored
  <1>2. ASSUME UNCHANGED db, token' = None, ~ freed' PROVE Pinned'
    BY <1>2 DEF Pinned
  <1>3. CASE UNCHANGED vars
    BY <1>1, <1>3 DEF vars, pass
  <1>4. CASE ListPage
    <2>1. UNCHANGED db /\ ~ freed' /\ (token' = None \/ token' = NextToken(Page))
      BY <1>4 DEF ListPage
    <2>2. NextToken(Page) \in Stored \union {None}
      BY PageFacts
    <2> QED BY <2>1, <2>2 DEF Pinned, Stored
  <1>5. CASE ListError
    BY <1>2, <1>5 DEF ListError
  <1>6. CASE Restart
    BY <1>2, <1>6 DEF Restart
  <1>7. ASSUME NEW id \in Ids, NEW rec \in Record, WriteRecord(id, rec) PROVE Pinned'
    <2>1. token' = token
      BY <1>7 DEF WriteRecord, Pinned
    <2>2. ~ freed'
      BY <1>7, Zenon DEF WriteRecord
    <2>3. \A j \in Stored : j \in Stored'
      BY <1>7, NoneAssumption DEF WriteRecord, Stored, Base, TypeOK
    <2> QED BY <2>1, <2>2, <2>3 DEF Pinned
  <1>8. CASE Start \/ FinishBatch \/ Finish
    BY <1>1, <1>8 DEF Start, FinishBatch, Finish
  <1>9. ASSUME NEW id \in Ids, NEW result, NEW taken, WorkerPut(id, result, taken) \/ WorkerSend(id)
        PROVE  Pinned'
    BY <1>1, <1>9 DEF WorkerPut, WorkerSend
  <1>10. ASSUME NEW result, NEW taken, RetryPut(result, taken) \/ CountFailure(taken) PROVE Pinned'
    BY <1>1, <1>10 DEF RetryPut, CountFailure
  <1>11. ASSUME NEW id, NEW rec, OtherPut(id, rec) \/ DhtForget(id, rec) PROVE Pinned'
    BY <1>1, <1>11 DEF OtherPut, DhtForget, pass
  <1> QED
    BY <1>3, <1>4, <1>5, <1>6, <1>7, <1>8, <1>9, <1>10, <1>11
    DEF Next, RepublishNext, EnvNext

-------------------------------------------------------------------------------
(* A pass puts everything                                                   *)

\* What is due is still ahead of the listing, or with a goroutine that will put it.
Cover ==
    /\ due \subseteq Stored \ Corrupt
    /\ pc = "list" => \A id \in due : token = None \/ id > token
    /\ pc = "batch" => \A id \in due : worker[id] = "put" \/ (token # None /\ id > token)
    /\ PassCovers

\* A page of Postgres is not all undecodable rows; Bolt fails on the first of them.
FewCorrupt == Backend = "postgres" => Cardinality(Corrupt) < PageSize

\* A page takes all that is due up to its token; one without records leaves nothing due.
LEMMA ListPageCover ==
    ASSUME FewCorrupt, Base, Pinned, Cover, ListPage
    PROVE  Cover'
  <1> DEFINE good == Page \ Corrupt
  <1>1. pc = "list" /\ Listable /\ UNCHANGED <<db, due>> /\ due \subseteq Stored \ Corrupt
        /\ Stored \subseteq Ids
    BY DEF ListPage, history, Cover, Stored
  <1>2. \A id \in due : After(id)
    <2>1. CASE token = None
      BY <2>1 DEF After
    <2>2. CASE token # None
      BY <1>1, <2>2, AfterToken DEF Cover, Pinned
    <2> QED BY <2>1, <2>2
  <1>3. \A id \in due : id \in good \/ (NextToken(Page) # None /\ id > NextToken(Page))
    BY <1>1, <1>2, PageFacts
  <1>4. CASE good = {}
    <2>1. pc' = "retry"
      BY <1>4 DEF ListPage
    <2>2. Cardinality(Page) # PageSize
      <3>1. CASE Backend = "postgres"
        <4>1. Page \subseteq Corrupt
          BY <1>4
        <4>2. IsFiniteSet(Corrupt)
          BY IdsAssumption, CorruptAssumption, FS_Subset
        <4>3. Cardinality(Page) <= Cardinality(Corrupt) /\ Cardinality(Page) \in Nat
              /\ Cardinality(Corrupt) \in Nat
          BY <4>1, <4>2, FS_Subset, FS_CardinalityType
        <4> QED BY <3>1, <4>3, PageSizeAssumption DEF FewCorrupt
      <3>2. CASE Backend # "postgres"
        <4>1. Page = {}
          BY <1>1, <1>4, <3>2 DEF Listable
        <4> QED BY <4>1, FS_EmptySet, PageSizeAssumption
      <3> QED BY <3>1, <3>2
    <2>3. NextToken(Page) = None
      BY <2>2 DEF NextToken
    <2>4. due = {}
      BY <1>3, <1>4, <2>3
    <2> QED BY <1>1, <2>1, <2>4 DEF Cover, PassCovers, Stored
  <1>5. CASE good # {}
    <2>1. pc' = "batch" /\ token' = NextToken(Page)
          /\ worker' = [id \in Ids |-> IF id \in good THEN "put" ELSE "off"]
      BY <1>5 DEF ListPage
    <2>2. \A id \in due : worker'[id] = "put" \/ (token' # None /\ id > token')
      BY <1>1, <1>3, <2>1
    <2> QED BY <1>1, <2>1, <2>2 DEF Cover, PassCovers, Stored
  <1> QED BY <1>4, <1>5

\* No step loses sight of a record that is due.
LEMMA StepCover == ASSUME ~ Reuse, FewCorrupt, Base, Pinned, Cover, [Next]_vars PROVE Cover'
  <1>1. ASSUME UNCHANGED <<db, due, pc, token, worker>> PROVE Cover'
    BY <1>1 DEF Cover, Stored, PassCovers
  <1>2. CASE UNCHANGED vars
    BY <1>1, <1>2 DEF vars, pass, history
  <1>3. CASE Start
    <2>1. token' = None
      BY <1>3 DEF Base, Flow, Start
    <2> QED BY <1>3, <2>1 DEF Start, Cover, Stored, PassCovers
  <1>4. CASE ListPage
    BY <1>4, ListPageCover
  <1>5. CASE ListError
    BY <1>5 DEF ListError, Cover, Stored, PassCovers
  <1>6. ASSUME NEW id \in Ids, NEW result, NEW taken, WorkerPut(id, result, taken) PROVE Cover'
    <2>1. pc = "batch" /\ UNCHANGED <<db, pc, token>> /\ due' = due \ {id} /\ due \subseteq Ids
      BY <1>6 DEF WorkerPut, Base, TypeOK, Flow, Off
    <2>2. \A j \in Ids : j # id => worker'[j] = worker[j]
      BY <1>6 DEF WorkerPut, Base, TypeOK
    <2> QED BY <2>1, <2>2 DEF Cover, Stored, PassCovers
  <1>7. ASSUME NEW id \in Ids, WorkerSend(id) PROVE Cover'
    <2>1. pc = "batch" /\ UNCHANGED <<db, pc, token, due>> /\ due \subseteq Ids
      BY <1>7 DEF WorkerSend, Base, TypeOK, Flow, Off, history
    <2>2. \A j \in Ids : worker[j] = "put" => worker'[j] = "put"
      BY <1>7 DEF WorkerSend, Base, TypeOK
    <2> QED BY <2>1, <2>2 DEF Cover, Stored, PassCovers
  <1>8. CASE FinishBatch
    <2>1. pc = "batch" /\ UNCHANGED <<db, token, due>> /\ due \subseteq Ids
          /\ pc' = IF token = None THEN "retry" ELSE "list"
      BY <1>8 DEF FinishBatch, Base, TypeOK, history
    <2>2. \A id \in due : token # None /\ id > token
      BY <1>8, <2>1 DEF FinishBatch, AllDone, Cover
    <2> QED BY <2>1, <2>2 DEF Cover, Stored, PassCovers
  <1>9. ASSUME NEW result, NEW taken, RetryPut(result, taken) \/ CountFailure(taken) PROVE Cover'
    <2>1. pc \in {"retry", "count"} /\ pc' \in {"retry", "count"} /\ UNCHANGED <<db, due>>
      BY <1>9 DEF RetryPut, CountFailure
    <2> QED BY <2>1 DEF Cover, Stored, PassCovers
  <1>10. CASE Finish
    BY <1>10 DEF Finish, history, Cover, Stored, PassCovers
  <1>11. ASSUME NEW id \in Ids, NEW rec \in Record, WriteRecord(id, rec) PROVE Cover'
    <2>1. token' = token /\ UNCHANGED <<due, pc, worker>>
      BY <1>11 DEF WriteRecord, Pinned, history
    <2>2. \A j \in Stored : j \in Stored'
      BY <1>11, NoneAssumption DEF WriteRecord, Stored, Base, TypeOK
    <2> QED BY <2>1, <2>2 DEF Cover, PassCovers
  <1>12. ASSUME NEW id, NEW rec, OtherPut(id, rec) \/ DhtForget(id, rec) PROVE Cover'
    BY <1>1, <1>12 DEF OtherPut, DhtForget, pass, history
  <1>13. CASE Restart
    BY <1>13 DEF Restart, Cover, PassCovers
  <1> QED
    BY <1>2, <1>3, <1>4, <1>5, <1>6, <1>7, <1>8, <1>9, <1>10, <1>11, <1>12, <1>13
    DEF Next, RepublishNext, EnvNext

\* Where writes leave the memory of page tokens alone, and a page of Postgres is never
\* made of undecodable rows only, a pass puts every record it found in the storage.
THEOREM PassPutsAll == ASSUME ~ Reuse, FewCorrupt PROVE Spec => []PassCovers
  <1>1. Init => Pinned /\ Cover
    BY DEF Init, Pinned, Cover, PassCovers
  <1>2. Base /\ Pinned /\ Cover /\ [Next]_vars => Pinned' /\ Cover'
    BY StepPinned, StepCover
  <1>3. Cover => PassCovers
    BY DEF Cover
  <1> QED BY InitBase, StepBase, <1>1, <1>2, <1>3, PTL DEF Spec

-------------------------------------------------------------------------------
(* No record is listed as failed twice                                      *)

\* What has failed in earlier pages is behind the token; what fails in this page is in
\* the channel once, and only when its goroutine is done.
Once ==
    \/ relisted
    \/ /\ Distinct(failed) /\ Distinct(chan)
       /\ \A id \in Ids : Listed(chan, id) => worker[id] = "done"
       /\ pc = "list" => \A id \in Ids : Listed(failed, id) => token # None /\ id <= token
       /\ pc = "batch" =>
             \A id \in Ids :
                /\ worker[id] # "off" => ~ Listed(failed, id)
                /\ worker[id] # "off" \/ Listed(failed, id) => token = None \/ id <= token

\* Only ids are listed.
LEMMA ItemsListed ==
    ASSUME NEW s \in Seq(Item), NEW id, Listed(s, id)
    PROVE  id \in Ids
  <1>1. PICK i \in 1 .. Len(s) : s[i][1] = id
    BY DEF Listed
  <1>2. s[i] \in Item
    OBVIOUS
  <1> QED BY <1>1, <1>2 DEF Item

\* The ids of a page are behind those that have failed before.
LEMMA ListPageOnce == ASSUME Base, Pinned, Once, ~ relisted, ListPage PROVE Once'
  <1> DEFINE good == Page \ Corrupt
             Behind(id) == Listed(failed, id)
  <1>1. pc = "list" /\ UNCHANGED <<chan, failed, relisted>> /\ chan = <<>>
    BY DEF ListPage, history, Base, Flow
  <1>2. Distinct(failed') /\ Distinct(chan') /\ \A id : ~ Listed(chan', id)
    BY <1>1, EmptyList DEF Once
  <1>3. good \subseteq Page /\ Page \subseteq Ids /\ Ids \subseteq Nat
    BY PageFacts, IdsAssumption
  <1>4. \A id \in Ids : Behind(id) => token # None /\ id <= token
    BY <1>1 DEF Once
  <1>5. \A id \in Page, j \in Ids : Behind(j) => j < id
    <2> SUFFICES ASSUME NEW id \in Page, NEW j \in Ids, Behind(j) PROVE j < id
      OBVIOUS
    <2>1. token # None /\ j <= token
      BY <1>4
    <2>2. token \in Stored /\ After(id) /\ id \in Ids
      BY <1>3, <2>1, PageFacts DEF Pinned
    <2>3. id > token /\ token \in Nat
      BY <1>3, <2>2, AfterToken, PageFacts
    <2> QED BY <1>3, <2>1, <2>2, <2>3
  <1>6. CASE pc' = "retry"
    BY <1>2, <1>6 DEF Once
  <1>7. CASE pc' # "retry"
    <2>1. pc' = "batch" /\ token' = NextToken(Page)
          /\ worker' = [id \in Ids |-> IF id \in good THEN "put" ELSE "off"]
      BY <1>7 DEF ListPage
    <2>2. \A id \in Ids : worker'[id] # "off" => id \in Page
      BY <1>3, <2>1
    <2>3. \A id \in Page : ~ Behind(id)
      BY <1>3, <1>5
    <2>4. \A id \in Ids : id \in Page \/ Behind(id) => token' = None \/ id <= token'
      <3> SUFFICES ASSUME NEW id \in Ids, id \in Page \/ Behind(id), token' # None
                   PROVE  id <= token'
        OBVIOUS
      <3>1. token' \in Page /\ (id \in Page => id <= token')
        BY <2>1, PageFacts
      <3>2. Behind(id) => id < token'
        BY <1>5, <3>1
      <3>3. id \in Nat /\ token' \in Nat
        BY <1>3, <3>1
      <3> QED BY <3>1, <3>2, <3>3
    <2>5. \A id : Listed(failed', id) <=> Behind(id)
      BY <1>1 DEF Listed
    <2> HIDE DEF Behind
    <2>6. \A id \in Ids :
             /\ worker'[id] # "off" => ~ Listed(failed', id)
             /\ worker'[id] # "off" \/ Listed(failed', id) => token' = None \/ id <= token'
      BY <2>2, <2>3, <2>4, <2>5
    <2> QED BY <1>2, <2>1, <2>6 DEF Once
  <1> QED BY <1>6, <1>7

\* A goroutine sends one record, once.
LEMMA WorkerOnce ==
    ASSUME Base, Once, ~ relisted, NEW id \in Ids, NEW result, NEW taken,
           WorkerPut(id, result, taken) \/ WorkerSend(id)
    PROVE  Once'
  <1>1. /\ pc = "batch" /\ UNCHANGED <<pc, token, failed, relisted>>
        /\ chan \in Seq(Item)
        /\ \A j \in Ids : j # id => worker'[j] = worker[j]
        /\ worker[id] \in {"put", "send"}
    BY DEF WorkerPut, WorkerSend, Base, TypeOK, Flow, Off, history
  <1>2. ~ Listed(chan, id)
    BY <1>1 DEF Once
  <1>3. /\ Distinct(chan')
        /\ \A j \in Ids : Listed(chan', j) => worker'[j] = "done"
    <2>1. CASE WorkerPut(id, result, taken)
      BY <1>1, <1>2, <2>1 DEF Once, WorkerPut, Listed
    <2>2. CASE WorkerSend(id)
      <3>1. <<id, batch[id]>> \in Item /\ chan' = Append(chan, <<id, batch[id]>>)
            /\ worker'[id] = "done"
        BY <2>2 DEF Base, TypeOK, Flow, WorkerSend, Item
      <3>2. Distinct(chan') /\ \A j : Listed(chan', j) <=> Listed(chan, j) \/ id = j
        BY <1>1, <1>2, <3>1, AppendList DEF Once
      <3> QED BY <1>1, <3>1, <3>2 DEF Once
    <2> QED BY <2>1, <2>2
  <1>4. \A j \in Ids : worker'[j] # "off" => worker[j] # "off"
    BY <1>1
  <1>5. \A j : Listed(failed', j) <=> Listed(failed, j)
    BY <1>1 DEF Listed
  <1> QED BY <1>1, <1>3, <1>4, <1>5 DEF Once

\* What failed in this page was not on the list.
LEMMA FinishBatchOnce == ASSUME Base, Once, ~ relisted, FinishBatch PROVE Once'
  <1>1. /\ pc = "batch" /\ failed' = failed \o chan /\ chan' = <<>>
        /\ UNCHANGED <<token, relisted>>
        /\ chan \in Seq(Item) /\ failed \in Seq(Item)
        /\ pc' = IF token = None THEN "retry" ELSE "list"
    BY DEF FinishBatch, Base, TypeOK, history
  <1>2. \A id : ~ (Listed(failed, id) /\ Listed(chan, id))
    <2> SUFFICES ASSUME NEW id, Listed(failed, id), Listed(chan, id) PROVE FALSE
      OBVIOUS
    <2>1. id \in Ids
      BY <1>1, ItemsListed
    <2> QED BY <1>1, <2>1 DEF Once
  <1>3. Distinct(failed') /\ \A id : Listed(failed', id) <=> Listed(failed, id) \/ Listed(chan, id)
    BY <1>1, <1>2, ConcatList DEF Once
  <1>4. Distinct(chan') /\ \A id : ~ Listed(chan', id)
    BY <1>1, EmptyList
  <1>5. \A id \in Ids : Listed(failed', id) => token = None \/ id <= token
    BY <1>1, <1>3 DEF Once
  <1> QED BY <1>1, <1>3, <1>4, <1>5 DEF Once

\* No step lists a record twice.
LEMMA StepOnce == ASSUME ~ Reuse, Base, Pinned, Once, [Next]_vars PROVE Once'
  <1>1. ASSUME UNCHANGED <<relisted, pc, token, worker, chan, failed>> PROVE Once'
    BY <1>1 DEF Once, Distinct, Listed
  <1>2. CASE UNCHANGED vars
    BY <1>1, <1>2 DEF vars, pass, history
  <1>3. ASSUME Distinct(failed'), chan' = <<>>, pc' \notin {"list", "batch"} PROVE Once'
    BY <1>3, EmptyList DEF Once
  <1>4. CASE Start
    <2>1. failed' = <<>> /\ chan' = <<>> /\ pc' = "list"
      BY <1>4 DEF Start, Base, Flow
    <2> QED BY <2>1, EmptyList DEF Once
  <1>5. CASE ListError
    BY <1>5 DEF ListError, Once
  <1>6. CASE Restart
    <2>1. failed' = <<>> /\ chan' = <<>> /\ pc' = "idle"
      BY <1>6 DEF Restart
    <2> QED BY <1>3, <2>1, EmptyList
  <1>7. CASE relisted /\ relisted'
    BY <1>7 DEF Once
  <1>8. CASE ~ relisted /\ ListPage
    BY <1>8, ListPageOnce
  <1>9. ASSUME ~ relisted, NEW id \in Ids, NEW result, NEW taken,
               WorkerPut(id, result, taken) \/ WorkerSend(id)
        PROVE  Once'
    BY <1>9, WorkerOnce
  <1>10. CASE ~ relisted /\ FinishBatch
    BY <1>10, FinishBatchOnce
  <1>11. ASSUME ~ relisted, NEW result, NEW taken, RetryPut(result, taken) \/ CountFailure(taken)
         PROVE  Once'
    <2>1. /\ failed \in Seq(Item) /\ failed # <<>> /\ failed' \in {failed, Tail(failed)}
          /\ chan' = <<>> /\ pc' \notin {"list", "batch"}
      BY <1>11 DEF RetryPut, CountFailure, Base, TypeOK, Flow
    <2>2. Distinct(failed')
      BY <1>11, <2>1, TailList DEF Once
    <2> QED BY <1>3, <2>1, <2>2
  <1>12. CASE ~ relisted /\ Finish
    <2>1. chan' = <<>> /\ pc' = "idle" /\ Distinct(failed')
      BY <1>12, EmptyList DEF Finish, Base, Flow
    <2> QED BY <1>3, <2>1
  <1>13. ASSUME NEW id, NEW rec, WriteRecord(id, rec) PROVE Once'
    BY <1>1, <1>13 DEF WriteRecord, Pinned, history
  <1>14. ASSUME NEW id, NEW rec, OtherPut(id, rec) \/ DhtForget(id, rec) PROVE Once'
    BY <1>1, <1>14 DEF OtherPut, DhtForget, pass, history
  <1>15. relisted => relisted' \/ Start \/ Restart
    BY DEF Next, RepublishNext, EnvNext, ListPage, ListError, WorkerPut, WorkerSend, FinishBatch,
       RetryPut, CountFailure, Finish, WriteRecord, OtherPut, DhtForget, history, vars
  <1> QED
    BY <1>2, <1>4, <1>5, <1>6, <1>7, <1>8, <1>9, <1>10, <1>11, <1>12, <1>13, <1>14, <1>15
    DEF Next, RepublishNext, EnvNext

\* Where page tokens stay what they were, a pass none of whose listings failed has no
\* record twice on its failed list.
THEOREM NoneFailsTwice == ASSUME ~ Reuse PROVE Spec => []FailedOnce
  <1>1. Init => Pinned /\ Once
    BY EmptyList DEF Init, Pinned, Once
  <1>2. Base /\ Pinned /\ Once /\ [Next]_vars => Pinned' /\ Once'
    BY StepPinned, StepOnce
  <1>3. Base /\ Once => FailedOnce
    <2> SUFFICES ASSUME Base, Once, ~ relisted
                 PROVE  \A i, j \in DOMAIN failed : failed[i][1] = failed[j][1] => i = j
      BY DEF FailedOnce
    <2>1. DOMAIN failed = 1 .. Len(failed)
      BY DEF Base, TypeOK
    <2> QED BY <2>1 DEF Once, Distinct
  <1> QED BY InitBase, StepBase, <1>1, <1>2, <1>3, PTL DEF Spec

-------------------------------------------------------------------------------
(* No goroutine waits for room in the channel                               *)

\* The channel has each id once, and only of goroutines that are done.
Sending == Distinct(chan) /\ \A id \in Ids : Listed(chan, id) => worker[id] = "done"

\* A list without repetitions is no longer than there are ids for it.
LEMMA DistinctLength ==
    ASSUME NEW s \in Seq(Item), Distinct(s), NEW S \in SUBSET Ids,
           \A id \in Ids : Listed(s, id) => id \in S
    PROVE  Len(s) <= Cardinality(S)
  <1> DEFINE idAt == [i \in 1 .. Len(s) |-> s[i][1]]
  <1>1. IsFiniteSet(S)
    BY IdsAssumption, FS_Subset
  <1>2. \A i \in 1 .. Len(s) : s[i][1] \in Ids /\ Listed(s, s[i][1])
    <2>1. \A i \in 1 .. Len(s) : s[i] \in Item
      OBVIOUS
    <2> QED BY <2>1 DEF Item, Listed
  <1>3. idAt \in Injection(1 .. Len(s), S)
    <2>1. idAt \in [1 .. Len(s) -> S]
      BY <1>2
    <2>2. \A i, j \in 1 .. Len(s) : idAt[i] = idAt[j] => i = j
      BY DEF Distinct
    <2> QED BY <2>1, <2>2 DEF Injection, IsInjective
  <1>4. Cardinality(1 .. Len(s)) <= Cardinality(S)
    BY <1>1, <1>3, FS_Injection
  <1>5. Len(s) \in Nat /\ Cardinality(1 .. Len(s)) = Len(s)
    <2>1. Len(s) \in Nat
      OBVIOUS
    <2>2. Cardinality(1 .. Len(s)) = IF 1 > Len(s) THEN 0 ELSE Len(s) - 1 + 1
      BY <2>1, FS_Interval
    <2> QED BY <2>1, <2>2
  <1> QED BY <1>4, <1>5

\* One that has yet to send is in the batch and not in the channel.
LEMMA SendingHasRoom == ASSUME Base, Sending PROVE NeverBlocked
  <1> SUFFICES ASSUME NEW id \in Ids, worker[id] = "send" PROVE Len(chan) < Capacity
    BY DEF NeverBlocked
  <1> DEFINE B == {j \in Ids : batch[j] # None}
  <1>1. B \in SUBSET Ids /\ IsFiniteSet(B)
    BY IdsAssumption, FS_Subset
  <1>2. id \in B
    BY DEF Base, Flow
  <1>3. \A j \in Ids : Listed(chan, j) => j \in B \ {id}
    BY DEF Sending, Base, Flow
  <1>4. Capacity = Cardinality(B)
    BY DEF Capacity
  <1> HIDE DEF B
  <1>5. chan \in Seq(Item) /\ Distinct(chan)
    BY DEF Base, TypeOK, Sending
  <1>6. Len(chan) <= Cardinality(B \ {id})
    BY <1>1, <1>3, <1>5, DistinctLength
  <1>7. Cardinality(B \ {id}) = Cardinality(B) - 1 /\ Cardinality(B) \in Nat
    BY <1>1, <1>2, FS_RemoveElement, FS_CardinalityType
  <1>8. Len(chan) \in Nat
    BY <1>5
  <1> QED BY <1>4, <1>6, <1>7, <1>8

\* Goroutines send once; a listing finds the channel empty.
LEMMA StepSending == ASSUME Base, Sending, [Next]_vars PROVE Sending'
  <1>1. ASSUME UNCHANGED <<worker, chan>> PROVE Sending'
    BY <1>1 DEF Sending, Distinct, Listed
  <1>2. ASSUME chan' = <<>> PROVE Sending'
    BY <1>2, EmptyList DEF Sending
  <1>3. CASE UNCHANGED vars
    BY <1>1, <1>3 DEF vars, pass
  <1>4. CASE ListPage
    BY <1>2, <1>4 DEF ListPage, Base, Flow
  <1>5. ASSUME NEW id \in Ids, NEW result, NEW taken, WorkerPut(id, result, taken) PROVE Sending'
    <2>1. chan' = chan /\ ~ Listed(chan, id) /\ \A j \in Ids : j # id => worker'[j] = worker[j]
      BY <1>5 DEF WorkerPut, Sending, Base, TypeOK
    <2> QED BY <2>1 DEF Sending, Distinct, Listed
  <1>6. ASSUME NEW id \in Ids, WorkerSend(id) PROVE Sending'
    <2>1. <<id, batch[id]>> \in Item /\ chan' = Append(chan, <<id, batch[id]>>)
          /\ chan \in Seq(Item) /\ ~ Listed(chan, id)
      BY <1>6 DEF Base, TypeOK, Flow, WorkerSend, Item, Sending
    <2>2. worker'[id] = "done" /\ \A j \in Ids : j # id => worker'[j] = worker[j]
      BY <1>6 DEF WorkerSend, Base, TypeOK
    <2>3. Distinct(chan') /\ \A j : Listed(chan', j) <=> Listed(chan, j) \/ id = j
      BY <2>1, AppendList DEF Sending
    <2> QED BY <2>2, <2>3 DEF Sending
  <1>7. CASE FinishBatch \/ Restart
    BY <1>2, <1>7 DEF FinishBatch, Restart
  <1>8. CASE Start \/ ListError \/ Finish
    BY <1>1, <1>8 DEF Start, ListError, Finish
  <1>9. ASSUME NEW result, NEW taken, RetryPut(result, taken) \/ CountFailure(taken)
        PROVE  Sending'
    BY <1>1, <1>9 DEF RetryPut, CountFailure
  <1>10. ASSUME NEW id, NEW rec,
                WriteRecord(id, rec) \/ OtherPut(id, rec) \/ DhtForget(id, rec)
         PROVE  Sending'
    BY <1>1, <1>10 DEF WriteRecord, OtherPut, DhtForget, pass
  <1> QED
    BY <1>3, <1>4, <1>5, <1>6, <1>7, <1>8, <1>9, <1>10 DEF Next, RepublishNext, EnvNext

\* For any number of ids and any size of pages, in whatever order goroutines fail: the
\* channel has room for each of them, so that a pass never deadlocks on its own failures.
THEOREM SendersNeverBlock == Spec => []NeverBlocked
  <1>1. Init => Sending
    BY EmptyList DEF Init, Sending
  <1>2. Base /\ Sending /\ [Next]_vars => Sending'
    BY StepSending
  <1>3. Base /\ Sending => NeverBlocked
    BY SendingHasRoom
  <1> QED BY InitBase, StepBase, <1>1, <1>2, <1>3, PTL DEF Spec

===============================================================================
