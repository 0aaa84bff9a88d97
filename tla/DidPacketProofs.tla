---------------------------- MODULE DidPacketProofs ----------------------------
(***************************************************************************)
(* Proofs about DidPacket, for any options, keys and texts: what a reader   *)
(* makes of a packet that ToDNSPacket wrote.                                *)
(***************************************************************************)
EXTENDS DidPacket, FlattenProofs

-------------------------------------------------------------------------------
(* The records of one kind                                                  *)

\* What a record adds to those of a kind.
Piece(r, name) == IF r.name = name THEN <<r>> ELSE <<>>

\* The pieces of a sequence of records.
ArePieces(pieces, s, name) ==
    /\ Len(pieces) = Len(s)
    /\ \A i \in 1 .. Len(s) : pieces[i] = Piece(s[i], name)
    /\ Named(s, name) = FlattenSeq(pieces)

\* Named puts these pieces together.
LEMMA NamedPieces ==
    ASSUME NEW R, NEW s \in Seq(R), NEW name
    PROVE  \E pieces \in Seq(Seq(R)) : ArePieces(pieces, s, name)
  <1> DEFINE pieces == Each(s, LAMBDA r : Maybe(r.name = name, r))
  <1>1. PICK n \in Nat : n = Len(s) /\ DOMAIN s = 1 .. n /\ \A i \in 1 .. n : s[i] \in R
    BY LenProperties, ElementOfSeq
  <1>2. pieces = [i \in 1 .. n |-> Maybe(s[i].name = name, s[i])]
    BY <1>1 DEF Each
  <1>3. \A i \in 1 .. n : Maybe(s[i].name = name, s[i]) \in Seq(R)
    <2>1. \A r \in R : <<r>> \in Seq(R) /\ <<>> \in Seq(R)
      OBVIOUS
    <2> QED BY <1>1, <2>1 DEF Maybe
  <1>4. pieces \in Seq(Seq(R)) /\ Len(pieces) = n
    <2> HIDE DEF pieces
    <2> QED BY <1>2, <1>3
  <1>5. Named(s, name) = FlattenSeq(pieces)
    BY DEF Named
  <1> HIDE DEF pieces
  <1>6. \A i \in 1 .. n : pieces[i] = Piece(s[i], name)
    BY <1>2 DEF Maybe, Piece
  <1> QED BY <1>1, <1>4, <1>5, <1>6 DEF ArePieces

\* Every record of a sequence is of one kind.
AllNamed(s, kind) == \A i \in 1 .. Len(s) : s[i].name = kind

\* Of records of one kind, all are of it and none of another.
LEMMA NamedOfKind ==
    ASSUME NEW R, NEW s \in Seq(R), NEW kind, AllNamed(s, kind), NEW name
    PROVE  Named(s, name) = IF name = kind THEN s ELSE <<>>
  <1>1. PICK n \in Nat : n = Len(s) /\ DOMAIN s = 1 .. n
    BY LenProperties
  <1>2. PICK pieces \in Seq(Seq(R)) : ArePieces(pieces, s, name)
    BY NamedPieces
  <1>3. /\ Len(pieces) = n /\ Named(s, name) = FlattenSeq(pieces)
        /\ \A i \in 1 .. n : pieces[i] = Piece(s[i], name)
    BY <1>1, <1>2 DEF ArePieces
  <1>4. pieces = [i \in 1 .. n |-> pieces[i]]
    BY <1>3, LenProperties
  <1>5. CASE name = kind
    <2>1. \A i \in 1 .. n : pieces[i] = <<s[i]>>
      BY <1>1, <1>3, <1>5 DEF Piece, AllNamed
    <2>2. pieces = [i \in DOMAIN s |-> <<s[i]>>]
      BY <1>1, <1>4, <2>1
    <2> QED BY <1>3, <1>5, <2>2, FlattenSingletons
  <1>6. CASE name # kind
    <2>1. \A i \in 1 .. n : pieces[i] = <<>>
      BY <1>1, <1>3, <1>6 DEF Piece, AllNamed
    <2>2. pieces = [i \in 1 .. n |-> <<>>]
      BY <1>4, <2>1
    <2>3. pieces \in Seq({<<>>})
      BY <2>2
    <2> QED BY <1>3, <1>6, <2>3, FlattenNothing
  <1> QED BY <1>5, <1>6

\* The records of a kind are records.
LEMMA NamedType ==
    ASSUME NEW R, NEW s \in Seq(R), NEW name
    PROVE  Named(s, name) \in Seq(R)
  <1>1. PICK pieces \in Seq(Seq(R)) : ArePieces(pieces, s, name)
    BY NamedPieces
  <1> QED BY <1>1, FlattenType DEF ArePieces

\* The kind is looked for piece by piece.
LEMMA NamedConcat ==
    ASSUME NEW R, NEW s \in Seq(R), NEW t \in Seq(R), NEW name
    PROVE  Named(s \o t, name) = Named(s, name) \o Named(t, name)
  <1>1. PICK n \in Nat, m \in Nat : n = Len(s) /\ m = Len(t)
    BY LenProperties
  <1>2. PICK ps \in Seq(Seq(R)) : ArePieces(ps, s, name)
    BY NamedPieces
  <1>3. PICK pt \in Seq(Seq(R)) : ArePieces(pt, t, name)
    BY NamedPieces
  <1>4. PICK u \in Seq(R) : u = s \o t /\ Joins(u, s, t)
    BY Joined
  <1>5. PICK pu \in Seq(Seq(R)) : ArePieces(pu, u, name)
    BY NamedPieces
  <1>6. PICK pc \in Seq(Seq(R)) : pc = ps \o pt /\ Joins(pc, ps, pt)
    <2>1. PICK U : U = Seq(R)
      OBVIOUS
    <2>2. ps \in Seq(U) /\ pt \in Seq(U)
      BY <2>1
    <2>3. \E pc \in Seq(U) : pc = ps \o pt /\ Joins(pc, ps, pt)
      BY <2>2, Joined
    <2> QED BY <2>1, <2>3
  <1>7. /\ Len(ps) = n /\ Named(s, name) = FlattenSeq(ps)
        /\ \A i \in 1 .. n : ps[i] = Piece(s[i], name)
    BY <1>1, <1>2 DEF ArePieces
  <1>8. /\ Len(pt) = m /\ Named(t, name) = FlattenSeq(pt)
        /\ \A i \in 1 .. m : pt[i] = Piece(t[i], name)
    BY <1>1, <1>3 DEF ArePieces
  <1>9. /\ Len(u) = n + m
        /\ \A i \in 1 .. n : u[i] = s[i]
        /\ \A i \in 1 .. m : u[n + i] = t[i]
    BY <1>1, <1>4 DEF Joins
  <1>10. /\ Len(pu) = n + m /\ Named(u, name) = FlattenSeq(pu)
         /\ \A i \in 1 .. n + m : pu[i] = Piece(u[i], name)
    BY <1>5, <1>9 DEF ArePieces
  <1>11. /\ Len(pc) = n + m
         /\ \A i \in 1 .. n : pc[i] = ps[i]
         /\ \A i \in 1 .. m : pc[n + i] = pt[i]
    BY <1>6, <1>7, <1>8 DEF Joins
  <1>12. ASSUME NEW i \in 1 .. n + m PROVE pu[i] = pc[i]
    <2>1. CASE i <= n
      <3>1. i \in 1 .. n
        BY <2>1
      <3> QED BY <1>7, <1>9, <1>10, <1>11, <3>1
    <2>2. CASE ~ (i <= n)
      <3>1. PICK j \in 1 .. m : i = n + j
        <4>1. i - n \in 1 .. m /\ i = n + (i - n)
          BY <2>2
        <4> QED BY <4>1
      <3>2. pu[i] = Piece(t[j], name)
        BY <1>9, <1>10, <3>1
      <3> QED BY <1>8, <1>11, <3>1, <3>2
    <2> QED BY <2>1, <2>2
  <1>13. pu = pc
    BY <1>10, <1>11, <1>12, SeqEqual
  <1>14. FlattenSeq(pc) = FlattenSeq(ps) \o FlattenSeq(pt)
    BY <1>6, FlattenConcat
  <1> QED BY <1>4, <1>7, <1>8, <1>10, <1>13, <1>14

\* Records of one kind come next in a packet.
LEMMA NamedNext ==
    ASSUME NEW R, NEW s \in Seq(R), NEW t \in Seq(R), NEW kind, AllNamed(t, kind), NEW name
    PROVE  Named(s \o t, name) = IF name = kind THEN Named(s, name) \o t ELSE Named(s, name)
  <1>1. Named(s \o t, name) = Named(s, name) \o Named(t, name)
    BY NamedConcat
  <1>2. PICK q \in Seq(R) : q = Named(s, name)
    BY NamedType
  <1>3. Named(t, name) = IF name = kind THEN t ELSE <<>>
    BY NamedOfKind
  <1>4. q \o <<>> = q
    BY ConcatEmptySeq
  <1> QED BY <1>1, <1>2, <1>3, <1>4

\* No record of a sequence is the root record.
Rootless(s) == \A i \in 1 .. Len(s) : s[i].name # "root"

\* Nor is one of two such sequences.
LEMMA RootlessNext ==
    ASSUME NEW R, NEW s \in Seq(R), NEW t \in Seq(R), Rootless(s), Rootless(t)
    PROVE  s \o t \in Seq(R) /\ Rootless(s \o t)
  <1>1. PICK n \in Nat, m \in Nat : n = Len(s) /\ m = Len(t)
    BY LenProperties
  <1>2. PICK u \in Seq(R) : u = s \o t /\ Joins(u, s, t)
    BY Joined
  <1>3. /\ Len(u) = n + m
        /\ \A i \in 1 .. n : u[i] = s[i]
        /\ \A i \in 1 .. m : u[n + i] = t[i]
    BY <1>1, <1>2 DEF Joins
  <1>4. ASSUME NEW i \in 1 .. n + m PROVE u[i].name # "root"
    <2>1. CASE i <= n
      BY <1>1, <1>3, <2>1 DEF Rootless
    <2>2. CASE ~ (i <= n)
      <3>1. PICK j \in 1 .. m : i = n + j
        <4>1. i - n \in 1 .. m /\ i = n + (i - n)
          BY <2>2
        <4> QED BY <4>1
      <3> QED BY <1>1, <1>3, <3>1 DEF Rootless
    <2> QED BY <2>1, <2>2
  <1>5. Rootless(u)
    BY <1>3, <1>4 DEF Rootless
  <1> QED BY <1>2, <1>5

\* The records before the root record, kind by kind.
IsFront(p, previous, controller, aka, gateway, keys, services) ==
    /\ Named(p, "previous") = previous /\ Named(p, "controller") = controller
    /\ Named(p, "aka") = aka /\ Named(p, "gateway") = gateway
    /\ Named(p, "key") = keys /\ Named(p, "service") = services
    /\ Named(p, "types") = <<>>

\* They are found by their kind.
LEMMA FrontSegments ==
    ASSUME NEW R,
           NEW previous \in Seq(R), AllNamed(previous, "previous"),
           NEW controller \in Seq(R), AllNamed(controller, "controller"),
           NEW aka \in Seq(R), AllNamed(aka, "aka"),
           NEW gateway \in Seq(R), AllNamed(gateway, "gateway"),
           NEW keys \in Seq(R), AllNamed(keys, "key"),
           NEW services \in Seq(R), AllNamed(services, "service"),
           NEW p, p = previous \o controller \o aka \o gateway \o keys \o services
    PROVE  /\ p \in Seq(R) /\ Rootless(p)
           /\ IsFront(p, previous, controller, aka, gateway, keys, services)
  <1>1. \A name : Named(previous, name) = IF name = "previous" THEN previous ELSE <<>>
    BY NamedOfKind
  <1>2. PICK p2 \in Seq(R) :
          /\ p2 = previous \o controller
          /\ \A name : Named(p2, name) =
                IF name = "controller" THEN Named(previous, name) \o controller
                ELSE Named(previous, name)
    <2>1. \A name : Named(previous \o controller, name) =
            IF name = "controller" THEN Named(previous, name) \o controller
            ELSE Named(previous, name)
      BY NamedNext
    <2>2. previous \o controller \in Seq(R)
      BY ConcatProperties
    <2> QED BY <2>1, <2>2
  <1>3. PICK p3 \in Seq(R) :
          /\ p3 = p2 \o aka
          /\ \A name : Named(p3, name) = IF name = "aka" THEN Named(p2, name) \o aka
                                        ELSE Named(p2, name)
    <2>1. \A name : Named(p2 \o aka, name) =
            IF name = "aka" THEN Named(p2, name) \o aka ELSE Named(p2, name)
      BY NamedNext
    <2>2. p2 \o aka \in Seq(R)
      BY ConcatProperties
    <2> QED BY <2>1, <2>2
  <1>4. PICK p4 \in Seq(R) :
          /\ p4 = p3 \o gateway
          /\ \A name : Named(p4, name) = IF name = "gateway" THEN Named(p3, name) \o gateway
                                        ELSE Named(p3, name)
    <2>1. \A name : Named(p3 \o gateway, name) =
            IF name = "gateway" THEN Named(p3, name) \o gateway ELSE Named(p3, name)
      BY NamedNext
    <2>2. p3 \o gateway \in Seq(R)
      BY ConcatProperties
    <2> QED BY <2>1, <2>2
  <1>5. PICK p5 \in Seq(R) :
          /\ p5 = p4 \o keys
          /\ \A name : Named(p5, name) = IF name = "key" THEN Named(p4, name) \o keys
                                        ELSE Named(p4, name)
    <2>1. \A name : Named(p4 \o keys, name) =
            IF name = "key" THEN Named(p4, name) \o keys ELSE Named(p4, name)
      BY NamedNext
    <2>2. p4 \o keys \in Seq(R)
      BY ConcatProperties
    <2> QED BY <2>1, <2>2
  <1>6. PICK p6 \in Seq(R) :
          /\ p6 = p5 \o services
          /\ \A name : Named(p6, name) = IF name = "service" THEN Named(p5, name) \o services
                                        ELSE Named(p5, name)
    <2>1. \A name : Named(p5 \o services, name) =
            IF name = "service" THEN Named(p5, name) \o services ELSE Named(p5, name)
      BY NamedNext
    <2>2. p5 \o services \in Seq(R)
      BY ConcatProperties
    <2> QED BY <2>1, <2>2
  <1>7. \A q \in Seq(R) : <<>> \o q = q
    BY ConcatEmptySeq
  <1>8. p = p6
    BY <1>2, <1>3, <1>4, <1>5, <1>6
  <1>9. Named(p6, "previous") = previous
    <2>1. Named(p3, "previous") = previous
      BY ONLY <1>1, <1>2, <1>3
    <2>2. Named(p6, "previous") = Named(p3, "previous")
      BY ONLY <1>4, <1>5, <1>6
    <2> QED BY <2>1, <2>2
  <1>10. Named(p6, "controller") = controller
    <2>1. Named(previous, "controller") = <<>>
      BY ONLY <1>1
    <2>2. Named(p2, "controller") = <<>> \o controller
      BY ONLY <1>2, <2>1
    <2>3. Named(p6, "controller") = Named(p2, "controller")
      BY ONLY <1>3, <1>4, <1>5, <1>6
    <2> QED BY <1>7, <2>2, <2>3
  <1>11. Named(p6, "aka") = aka
    <2>1. Named(p2, "aka") = <<>>
      BY ONLY <1>1, <1>2
    <2>2. Named(p3, "aka") = <<>> \o aka
      BY ONLY <1>3, <2>1
    <2>3. Named(p6, "aka") = Named(p3, "aka")
      BY ONLY <1>4, <1>5, <1>6
    <2> QED BY <1>7, <2>2, <2>3
  <1>12. Named(p6, "gateway") = gateway
    <2>1. Named(p3, "gateway") = <<>>
      BY ONLY <1>1, <1>2, <1>3
    <2>2. Named(p4, "gateway") = <<>> \o gateway
      BY ONLY <1>4, <2>1
    <2>3. Named(p6, "gateway") = Named(p4, "gateway")
      BY ONLY <1>5, <1>6
    <2> QED BY <1>7, <2>2, <2>3
  <1>13. Named(p6, "key") = keys
    <2>1. Named(p4, "key") = <<>>
      BY ONLY <1>1, <1>2, <1>3, <1>4
    <2>2. Named(p5, "key") = <<>> \o keys
      BY ONLY <1>5, <2>1
    <2>3. Named(p6, "key") = Named(p5, "key")
      BY ONLY <1>6
    <2> QED BY <1>7, <2>2, <2>3
  <1>14. Named(p6, "service") = services
    <2>1. Named(p5, "service") = <<>>
      <3>1. Named(p3, "service") = <<>>
        BY ONLY <1>1, <1>2, <1>3
      <3> QED BY ONLY <1>4, <1>5, <3>1
    <2>2. Named(p6, "service") = <<>> \o services
      BY ONLY <1>6, <2>1
    <2> QED BY <1>7, <2>2
  <1>15. Named(p6, "types") = <<>>
    <2>1. Named(p3, "types") = <<>>
      BY ONLY <1>1, <1>2, <1>3
    <2>2. Named(p6, "types") = Named(p3, "types")
      BY ONLY <1>4, <1>5, <1>6
    <2> QED BY <2>1, <2>2
  <1>16. Rootless(p6)
    <2>1. /\ Rootless(previous) /\ Rootless(controller) /\ Rootless(aka)
          /\ Rootless(gateway) /\ Rootless(keys) /\ Rootless(services)
      BY DEF AllNamed, Rootless
    <2>2. Rootless(p2)
      BY <1>2, <2>1, RootlessNext
    <2>3. Rootless(p3)
      BY <1>3, <2>1, <2>2, RootlessNext
    <2>4. Rootless(p4)
      BY <1>4, <2>1, <2>3, RootlessNext
    <2>5. Rootless(p5)
      BY <1>5, <2>1, <2>4, RootlessNext
    <2> QED BY <1>6, <2>1, <2>5, RootlessNext
  <1> QED
    BY ONLY p6 \in Seq(R), <1>16, <1>8, <1>9, <1>10, <1>11, <1>12, <1>13, <1>14, <1>15
    DEF IsFront

\* The smallest of one number.
LEMMA MinOfOne == \A n \in Nat : Min({n}) = n
  BY DEF Min

\* A packet: the front, the root record and the types.
IsPacket(p, q, root, t) == p = q \o <<root>> \o t

\* Where its root record is, and what comes before it.
LEMMA RootAt ==
    ASSUME NEW R, NEW q \in Seq(R), NEW t \in Seq(R), NEW root \in R,
           Rootless(q), AllNamed(t, "types"), root.name = "root",
           NEW p, IsPacket(p, q, root, t)
    PROVE  /\ p \in Seq(R)
           /\ SelectInSeq(p, IsRoot) = Len(q) + 1 /\ p[Len(q) + 1] = root
           /\ SubSeq(p, 1, Len(q)) = q
  <1>1. PICK n \in Nat, m \in Nat : n = Len(q) /\ m = Len(t)
    BY LenProperties
  <1>2. PICK r : r = <<root>> /\ r \in Seq(R) /\ Len(r) = 1 /\ r[1] = root /\ IsRoot(root)
    <2>1. <<root>> \in Seq(R) /\ Len(<<root>>) = 1 /\ <<root>>[1] = root /\ IsRoot(root)
      BY DEF IsRoot
    <2> QED BY <2>1
  <1>3. PICK u \in Seq(R) : u = q \o r /\ Joins(u, q, r)
    <2>1. r \in Seq(R)
      BY <1>2
    <2> QED BY <2>1, Joined
  <1>4. /\ Len(u) = n + 1
        /\ \A i \in 1 .. n : u[i] = q[i]
        /\ \A i \in 1 .. 1 : u[n + i] = r[i]
    BY <1>1, <1>2, <1>3 DEF Joins
  <1>5. PICK w \in Seq(R) : w = u \o t /\ Joins(w, u, t)
    BY Joined
  <1>6. PICK k \in Nat : k = n + 1
    OBVIOUS
  <1>7. /\ Len(w) = k + m
        /\ \A i \in 1 .. k : w[i] = u[i]
        /\ \A i \in 1 .. m : w[k + i] = t[i]
    BY <1>1, <1>4, <1>5, <1>6 DEF Joins
  <1>8. p = w
    BY <1>2, <1>3, <1>5 DEF IsPacket
  <1>9. w[k] = root
    <2>1. k \in 1 .. k /\ 1 \in 1 .. 1
      BY <1>6
    <2> QED BY <1>2, <1>4, <1>6, <1>7, <2>1
  <1>10. \A i \in 1 .. n : w[i] = q[i]
    BY <1>4, <1>6, <1>7
  <1>11. {i \in 1 .. Len(w) : IsRoot(w[i])} = {k}
    <2>1. k \in 1 .. k + m
      BY <1>6
    <2>2. ASSUME NEW i \in 1 .. k + m, IsRoot(w[i]) PROVE i = k
      <3>1. CASE i < k
        <4>1. i \in 1 .. n
          BY <1>6, <3>1
        <4> QED BY <1>1, <1>10, <2>2, <4>1 DEF IsRoot, Rootless
      <3>2. CASE i > k
        <4>1. PICK j \in 1 .. m : i = k + j
          <5>1. i - k \in 1 .. m /\ i = k + (i - k)
            BY <3>2
          <5> QED BY <5>1
        <4>2. t[j].name = "types"
          BY <1>1 DEF AllNamed
        <4> QED BY <1>7, <2>2, <4>1, <4>2 DEF IsRoot
      <3> QED BY <3>1, <3>2
    <2> QED BY <1>2, <1>7, <1>9, <2>1, <2>2
  <1>12. SelectInSeq(w, IsRoot) = k
    BY <1>11, MinOfOne DEF SelectInSeq
  <1>13. SubSeq(w, 1, n) = q
    <2>1. \A i \in 1 .. n : w[i] \in R
      BY <1>1, <1>10, ElementOfSeq
    <2>2. PICK v \in Seq(R) : /\ v = SubSeq(w, 1, n) /\ Len(v) = n
                              /\ \A i \in 1 .. n : v[i] = w[i]
      <3>1. /\ SubSeq(w, 1, n) \in Seq(R)
            /\ Len(SubSeq(w, 1, n)) = IF 1 <= n THEN n - 1 + 1 ELSE 0
            /\ \A i \in 1 .. n - 1 + 1 : SubSeq(w, 1, n)[i] = w[1 + i - 1]
        BY ONLY n \in Nat, <2>1, SubSeqProperties
      <3>2. \A i \in 1 .. n : SubSeq(w, 1, n)[i] = w[i]
        BY <3>1
      <3>3. Len(SubSeq(w, 1, n)) = n
        BY <3>1
      <3> QED BY <3>1, <3>2, <3>3
    <2> QED BY <1>1, <1>10, <2>2, SeqEqual
  <1> QED BY <1>1, <1>6, <1>8, <1>9, <1>12, <1>13

\* The root record and the types leave the records of the other kinds alone.
LEMMA NamedRooted ==
    ASSUME NEW R, NEW q \in Seq(R), NEW t \in Seq(R), NEW root \in R,
           root.name = "root", AllNamed(t, "types"), Named(q, "types") = <<>>,
           NEW p, IsPacket(p, q, root, t), NEW name, name # "root"
    PROVE  Named(p, name) = IF name = "types" THEN t ELSE Named(q, name)
  <1>1. PICK r : r = <<root>> /\ r \in Seq(R) /\ AllNamed(r, "root")
    <2>1. <<root>> \in Seq(R) /\ AllNamed(<<root>>, "root")
      BY DEF AllNamed
    <2> QED BY <2>1
  <1>2. PICK u \in Seq(R) : u = q \o r
    BY <1>1, ConcatProperties
  <1>3. Named(u, name) = Named(q, name)
    <2>1. Named(q \o r, name) = IF name = "root" THEN Named(q, name) \o r ELSE Named(q, name)
      <3>1. r \in Seq(R) /\ AllNamed(r, "root")
        BY <1>1
      <3> QED BY ONLY q \in Seq(R), <3>1, NamedNext
    <2> QED BY <1>2, <2>1
  <1>4. Named(u \o t, name) = IF name = "types" THEN Named(u, name) \o t ELSE Named(u, name)
    BY ONLY u \in Seq(R), t \in Seq(R), AllNamed(t, "types"), NamedNext
  <1>5. <<>> \o t = t
    BY ConcatEmptySeq
  <1>6. p = u \o t
    BY <1>1, <1>2 DEF IsPacket
  <1> QED BY <1>3, <1>4, <1>5, <1>6

-------------------------------------------------------------------------------
(* The records of a packet                                                  *)

\* A sequence of some sort.
IsList(s) == \E T : s \in Seq(T)

\* A function on an interval is one.
LEMMA ListOf ==
    ASSUME NEW n \in Nat, NEW f, f = [i \in 1 .. n |-> f[i]]
    PROVE  IsList(f) /\ Len(f) = n
  <1>1. PICK T : T = {f[i] : i \in 1 .. n}
    OBVIOUS
  <1>2. \A i \in 1 .. n : f[i] \in T
    BY <1>1
  <1>3. f \in Seq(T) /\ Len(f) = n
    BY ONLY n \in Nat, f = [i \in 1 .. n |-> f[i]], <1>2
  <1> QED BY <1>3 DEF IsList

\* Two kinds of elements make one kind.
LEMMA CommonKind ==
    ASSUME NEW S, NEW t, IsList(t)
    PROVE  \E T : S \subseteq T /\ t \in Seq(T)
  <1>1. PICK U : t \in Seq(U)
    BY DEF IsList
  <1>2. PICK T : T = S \union U
    OBVIOUS
  <1>3. S \subseteq T /\ U \subseteq T
    BY <1>2
  <1> QED BY <1>1, <1>3, SeqMonotonic

\* Seven sequences and one element have a kind in common.
LEMMA CommonRecords ==
    ASSUME NEW previous, NEW controller, NEW aka, NEW gateway, NEW keys, NEW services,
           NEW types, NEW root,
           IsList(previous), IsList(controller), IsList(aka), IsList(gateway), IsList(keys),
           IsList(services), IsList(types)
    PROVE  \E R : /\ previous \in Seq(R) /\ controller \in Seq(R) /\ aka \in Seq(R)
                  /\ gateway \in Seq(R) /\ keys \in Seq(R) /\ services \in Seq(R)
                  /\ types \in Seq(R) /\ root \in R
  <1>1. PICK R1 : {root} \subseteq R1 /\ previous \in Seq(R1)
    BY CommonKind
  <1>2. PICK R2 : R1 \subseteq R2 /\ controller \in Seq(R2)
    BY CommonKind
  <1>3. PICK R3 : R2 \subseteq R3 /\ aka \in Seq(R3)
    BY CommonKind
  <1>4. PICK R4 : R3 \subseteq R4 /\ gateway \in Seq(R4)
    BY CommonKind
  <1>5. PICK R5 : R4 \subseteq R5 /\ keys \in Seq(R5)
    BY CommonKind
  <1>6. PICK R6 : R5 \subseteq R6 /\ services \in Seq(R6)
    BY CommonKind
  <1>7. PICK R7 : R6 \subseteq R7 /\ types \in Seq(R7)
    BY CommonKind
  <1>8. /\ R1 \subseteq R7 /\ R2 \subseteq R7 /\ R3 \subseteq R7 /\ R4 \subseteq R7
        /\ R5 \subseteq R7 /\ R6 \subseteq R7
    BY <1>2, <1>3, <1>4, <1>5, <1>6, <1>7
  <1>9. previous \in Seq(R7)
    BY <1>1, <1>8, SeqMonotonic
  <1>10. controller \in Seq(R7)
    BY <1>2, <1>8, SeqMonotonic
  <1>11. aka \in Seq(R7)
    BY <1>3, <1>8, SeqMonotonic
  <1>12. gateway \in Seq(R7)
    BY <1>4, <1>8, SeqMonotonic
  <1>13. keys \in Seq(R7)
    BY <1>5, <1>8, SeqMonotonic
  <1>14. services \in Seq(R7)
    BY <1>6, <1>8, SeqMonotonic
  <1>15. root \in R7
    BY <1>1, <1>8
  <1> QED BY <1>7, <1>9, <1>10, <1>11, <1>12, <1>13, <1>14, <1>15

\* The records of the packet of a document, kind by kind; the root record comes after
\* those of the keys.
Records(p, d, o) ==
    /\ Named(p, "previous") =
          [i \in DOMAIN o.previous |-> [name |-> "previous", did |-> o.previous[i]]]
    /\ Named(p, "controller") =
          Maybe(d.controller # <<>>, [name |-> "controller", texts |-> d.controller])
    /\ Named(p, "aka") = Maybe(d.aka # <<>>, [name |-> "aka", texts |-> d.aka])
    /\ Named(p, "gateway") =
          [i \in DOMAIN o.gateways |-> [name |-> "gateway", text |-> o.gateways[i]]]
    /\ Named(p, "key") = [i \in DOMAIN d.vms |-> KeyRecord(d.vms[i])]
    /\ Named(p, "service") = [i \in DOMAIN d.services |-> ServiceRecord(d.services[i])]
    /\ Named(p, "types") = Maybe(o.types # <<>>, [name |-> "types", types |-> o.types])
    /\ \E n \in Nat :
          /\ SelectInSeq(p, IsRoot) = n + 1 /\ p[n + 1] = RootRecord(d)
          /\ Named(SubSeq(p, 1, n), "key") = Named(p, "key")

\* One part, or none, is a sequence of the part's kind.
LEMMA OneOrNone ==
    ASSUME NEW part
    PROVE  /\ IsList(<<part>>) /\ AllNamed(<<part>>, part.name)
           /\ IsList(<<>>) /\ AllNamed(<<>>, part.name)
  <1>1. <<part>> \in Seq({part}) /\ <<>> \in Seq({part})
    OBVIOUS
  <1>2. AllNamed(<<part>>, part.name) /\ AllNamed(<<>>, part.name)
    BY DEF AllNamed
  <1> QED BY <1>1, <1>2 DEF IsList

\* What ToDNSPacket writes.
LEMMA PacketRecords ==
    ASSUME NEW o, NEW d, IsList(o.previous), IsList(o.gateways), IsList(d.vms),
           IsList(d.services)
    PROVE  Records(ToDNSPacket(d, o), d, o)
  <1> DEFINE previous == [i \in DOMAIN o.previous |-> [name |-> "previous", did |-> o.previous[i]]]
             controller == Maybe(d.controller # <<>>,
                                 [name |-> "controller", texts |-> d.controller])
             aka == Maybe(d.aka # <<>>, [name |-> "aka", texts |-> d.aka])
             gateway == [i \in DOMAIN o.gateways |-> [name |-> "gateway", text |-> o.gateways[i]]]
             keys == [i \in DOMAIN d.vms |-> KeyRecord(d.vms[i])]
             services == [i \in DOMAIN d.services |-> ServiceRecord(d.services[i])]
             types == Maybe(o.types # <<>>, [name |-> "types", types |-> o.types])
             root == RootRecord(d)
             p == ToDNSPacket(d, o)
  <1>1. p = previous \o controller \o aka \o gateway \o keys \o services \o <<root>> \o types
    BY DEF ToDNSPacket, Each
  <1>2. IsList(previous) /\ AllNamed(previous, "previous")
    <2>1. PICK n \in Nat : DOMAIN o.previous = 1 .. n
      BY LenProperties DEF IsList
    <2>2. /\ previous = [i \in 1 .. n |-> previous[i]]
          /\ \A i \in 1 .. n : previous[i].name = "previous"
      BY <2>1
    <2> HIDE DEF previous
    <2> QED BY <2>2, ListOf DEF AllNamed
  <1>3. IsList(gateway) /\ AllNamed(gateway, "gateway")
    <2>1. PICK n \in Nat : DOMAIN o.gateways = 1 .. n
      BY LenProperties DEF IsList
    <2>2. /\ gateway = [i \in 1 .. n |-> gateway[i]]
          /\ \A i \in 1 .. n : gateway[i].name = "gateway"
      BY <2>1
    <2> HIDE DEF gateway
    <2> QED BY <2>2, ListOf DEF AllNamed
  <1>4. IsList(keys) /\ AllNamed(keys, "key")
    <2>1. PICK n \in Nat : DOMAIN d.vms = 1 .. n
      BY LenProperties DEF IsList
    <2>2. /\ keys = [i \in 1 .. n |-> keys[i]]
          /\ \A i \in 1 .. n : keys[i].name = "key"
      BY <2>1 DEF KeyRecord
    <2> HIDE DEF keys
    <2> QED BY <2>2, ListOf DEF AllNamed
  <1>5. IsList(services) /\ AllNamed(services, "service")
    <2>1. PICK n \in Nat : DOMAIN d.services = 1 .. n
      BY LenProperties DEF IsList
    <2>2. /\ services = [i \in 1 .. n |-> services[i]]
          /\ \A i \in 1 .. n : services[i].name = "service"
      BY <2>1 DEF ServiceRecord
    <2> HIDE DEF services
    <2> QED BY <2>2, ListOf DEF AllNamed
  <1>6. /\ IsList(controller) /\ AllNamed(controller, "controller")
        /\ IsList(aka) /\ AllNamed(aka, "aka")
        /\ IsList(types) /\ AllNamed(types, "types")
    <2>1. IsList(controller) /\ AllNamed(controller, "controller")
      <3>1. PICK part : part = [name |-> "controller", texts |-> d.controller]
        OBVIOUS
      <3>2. part.name = "controller" /\ (controller = <<part>> \/ controller = <<>>)
        BY <3>1 DEF Maybe
      <3> HIDE DEF controller
      <3> QED BY <3>2, OneOrNone
    <2>2. IsList(aka) /\ AllNamed(aka, "aka")
      <3>1. PICK part : part = [name |-> "aka", texts |-> d.aka]
        OBVIOUS
      <3>2. part.name = "aka" /\ (aka = <<part>> \/ aka = <<>>)
        BY <3>1 DEF Maybe
      <3> HIDE DEF aka
      <3> QED BY <3>2, OneOrNone
    <2>3. IsList(types) /\ AllNamed(types, "types")
      <3>1. PICK part : part = [name |-> "types", types |-> o.types]
        OBVIOUS
      <3>2. part.name = "types" /\ (types = <<part>> \/ types = <<>>)
        BY <3>1 DEF Maybe
      <3> HIDE DEF types
      <3> QED BY <3>2, OneOrNone
    <2> QED BY <2>1, <2>2, <2>3
  <1>7. root.name = "root"
    BY DEF RootRecord
  <1> HIDE DEF previous, controller, aka, gateway, keys, services, types, root
  <1>8. PICK R : /\ previous \in Seq(R) /\ controller \in Seq(R) /\ aka \in Seq(R)
                 /\ gateway \in Seq(R) /\ keys \in Seq(R) /\ services \in Seq(R)
                 /\ types \in Seq(R) /\ root \in R
    BY <1>2, <1>3, <1>4, <1>5, <1>6, CommonRecords
  <1>9. PICK q : q = previous \o controller \o aka \o gateway \o keys \o services
    OBVIOUS
  <1>10. /\ q \in Seq(R) /\ Rootless(q)
         /\ IsFront(q, previous, controller, aka, gateway, keys, services)
    BY ONLY <1>2, <1>3, <1>4, <1>5, <1>6, <1>8, <1>9, FrontSegments
  <1> HIDE DEF p
  <1>11. IsPacket(p, q, root, types)
    BY <1>1, <1>9 DEF IsPacket
  <1>12. \A name : name # "root" => Named(p, name) = IF name = "types" THEN types
                                                      ELSE Named(q, name)
    <2>1. Named(q, "types") = <<>>
      BY <1>10 DEF IsFront
    <2> QED BY ONLY <1>6, <1>7, <1>8, <1>10, <1>11, <2>1, NamedRooted
  <1>13. /\ SelectInSeq(p, IsRoot) = Len(q) + 1 /\ p[Len(q) + 1] = root
         /\ SubSeq(p, 1, Len(q)) = q
    BY ONLY <1>6, <1>7, <1>8, <1>10, <1>11, RootAt
  <1>14. /\ Named(p, "previous") = previous /\ Named(p, "controller") = controller
         /\ Named(p, "aka") = aka /\ Named(p, "gateway") = gateway
         /\ Named(p, "key") = keys /\ Named(p, "service") = services
         /\ Named(p, "types") = types
    BY <1>10, <1>12 DEF IsFront
  <1>15. \E n \in Nat :
            /\ SelectInSeq(p, IsRoot) = n + 1 /\ p[n + 1] = root
            /\ Named(SubSeq(p, 1, n), "key") = Named(p, "key")
    <2>1. Len(q) \in Nat
      BY <1>10, LenProperties
    <2> QED BY <1>10, <1>13, <1>14, <2>1 DEF IsFront
  <1> QED
    BY <1>14, <1>15
    DEF Records, previous, controller, aka, gateway, keys, services, types, root, p

-------------------------------------------------------------------------------
(* The document                                                             *)

\* Numbers up to a bound have a greatest.
LEMMA GreatestUpTo ==
    \A n \in Nat : \A S \in SUBSET (1 .. n) : S # {} => \E x \in S : \A y \in S : x >= y
  <1> DEFINE Bounded(n) == \A S \in SUBSET (1 .. n) : S # {} => \E x \in S : \A y \in S : x >= y
             N == {n \in Nat : Bounded(n)}
  <1>1. 0 \in N
    <2>1. 1 .. 0 = {}
      OBVIOUS
    <2>2. Bounded(0)
      BY <2>1
    <2> QED BY <2>2
  <1>2. ASSUME NEW n \in N PROVE n + 1 \in N
    <2>1. SUFFICES ASSUME NEW S \in SUBSET (1 .. n + 1), S # {}
                   PROVE  \E x \in S : \A y \in S : x >= y
      OBVIOUS
    <2>2. CASE n + 1 \in S
      <3>1. \A y \in S : n + 1 >= y
        OBVIOUS
      <3> QED BY <2>2, <3>1
    <2>3. CASE n + 1 \notin S
      <3>1. S \in SUBSET (1 .. n)
        BY <2>3
      <3>2. Bounded(n)
        OBVIOUS
      <3> QED BY <2>1, <3>1, <3>2
    <2> QED BY <2>2, <2>3
  <1>3. N = Nat
    <2>1. N \subseteq Nat
      OBVIOUS
    <2> HIDE DEF N
    <2> QED BY <1>1, <1>2, <2>1, SetInduction
  <1> QED BY <1>3

\* An id that a method has leads to a method that has it.
LEMMA KeyLookupFinds ==
    ASSUME NEW d, IsList(d.vms), NEW j \in DOMAIN d.vms
    PROVE  /\ KeyLookup(d, d.vms[j].id) \in DOMAIN d.vms
           /\ d.vms[KeyLookup(d, d.vms[j].id)].id = d.vms[j].id
  <1>1. PICK n \in Nat : n = Len(d.vms) /\ DOMAIN d.vms = 1 .. n
    BY LenProperties DEF IsList
  <1>2. PICK I : I = {i \in 1 .. n : d.vms[i].id = d.vms[j].id}
    OBVIOUS
  <1>3. I \in SUBSET (1 .. n) /\ I # {}
    BY <1>1, <1>2
  <1>4. \E x \in I : \A y \in I : x >= y
    BY <1>3, GreatestUpTo
  <1>5. Max(I) \in I
    BY <1>4 DEF Max
  <1>6. KeyLookup(d, d.vms[j].id) = Max(I)
    BY <1>1, <1>2, <1>3 DEF KeyLookup, SelectLastInSeq
  <1> QED BY <1>1, <1>2, <1>5, <1>6

\* The method a document has for one that was given.
DocMethod(vm) ==
    [id |-> Qualified(vm), key |-> vm.key, alg |-> vm.alg,
     controller |-> IF vm.controller = Empty THEN Self ELSE vm.controller]

\* The document: the identity key comes first, and its lists name its methods.
IsDoc(d, o) ==
    /\ d.controller = o.controller /\ d.aka = o.aka /\ d.services = o.services
    /\ IsList(d.vms) /\ DOMAIN d.vms = 1 .. Len(o.vms) + 1
    /\ d.vms[1] = IdentityMethod
    /\ \A i \in 1 .. Len(o.vms) : d.vms[i + 1] = DocMethod(o.vms[i])
    /\ d.rel = [p \in Purposes |-> d.rel[p]]
    /\ \A p \in Purposes : d.rel[p] \in Seq({d.vms[i].id : i \in DOMAIN d.vms})

\* Every list of a document names its methods.
LEMMA RelationshipType ==
    ASSUME NEW o \in Options, NEW p,
           NEW T, IdentityMethod.id \in T,
           \A i \in 1 .. Len(o.vms) : Qualified(o.vms[i]) \in T
    PROVE  Relationship(o, p) \in Seq(T)
  <1>1. o.vms \in Seq(Method)
    BY DEF Options
  <1>2. PICK n \in Nat : n = Len(o.vms) /\ DOMAIN o.vms = 1 .. n
    BY <1>1, LenProperties
  <1> DEFINE wanted(vm) == Each(vm.purposes, LAMBDA q : Maybe(q = p, Qualified(vm)))
             lists == Each(o.vms, LAMBDA vm : FlattenSeq(wanted(vm)))
             first == IF p = "agm" THEN <<>> ELSE <<IdentityMethod.id>>
  <1>3. \A x \in T : <<x>> \in Seq(T) /\ <<>> \in Seq(T)
    OBVIOUS
  <1>4. first \in Seq(T)
    BY <1>3
  <1>5. ASSUME NEW i \in 1 .. n PROVE FlattenSeq(wanted(o.vms[i])) \in Seq(T)
    <2>1. PICK vm \in Method : vm = o.vms[i]
      BY <1>1, <1>2, ElementOfSeq
    <2>2. vm.purposes \in Seq(STRING)
      BY DEF Method
    <2>3. PICK m \in Nat : DOMAIN vm.purposes = 1 .. m
      BY <2>2, LenProperties
    <2>4. wanted(vm) = [k \in 1 .. m |-> Maybe(vm.purposes[k] = p, Qualified(vm))]
      BY <2>3 DEF Each
    <2>5. \A k \in 1 .. m : Maybe(vm.purposes[k] = p, Qualified(vm)) \in Seq(T)
      BY <1>2, <1>3, <2>1 DEF Maybe
    <2>6. wanted(vm) \in Seq(Seq(T))
      <3> HIDE DEF wanted
      <3> QED BY <2>4, <2>5
    <2> HIDE DEF wanted
    <2> QED BY <2>1, <2>6, FlattenType
  <1>6. lists = [i \in 1 .. n |-> FlattenSeq(wanted(o.vms[i]))]
    BY <1>2 DEF Each
  <1>7. lists \in Seq(Seq(T))
    <2> HIDE DEF lists, wanted
    <2> QED BY <1>5, <1>6
  <1>8. Relationship(o, p) = first \o FlattenSeq(lists)
    BY DEF Relationship
  <1> HIDE DEF first, lists
  <1>9. FlattenSeq(lists) \in Seq(T)
    BY <1>7, FlattenType
  <1> QED BY <1>4, <1>8, <1>9, ConcatProperties

\* What CreateDIDDHTDID makes of options.
LEMMA CreateMakesDoc ==
    ASSUME NEW o \in Options
    PROVE  IsDoc(CreateDIDDHTDID(o), o)
  <1> DEFINE d == CreateDIDDHTDID(o)
             made == [i \in DOMAIN o.vms |-> DocMethod(o.vms[i])]
  <1>1. o.vms \in Seq(Method)
    BY DEF Options
  <1>2. PICK n \in Nat : n = Len(o.vms) /\ DOMAIN o.vms = 1 .. n
    BY <1>1, LenProperties
  <1>3. /\ d.controller = o.controller /\ d.aka = o.aka /\ d.services = o.services
        /\ d.vms = <<IdentityMethod>> \o made
        /\ d.rel = [p \in Purposes |-> Relationship(o, p)]
    BY DEF CreateDIDDHTDID, DocMethod
  <1>4. PICK M : M = {IdentityMethod} \union {DocMethod(o.vms[i]) : i \in 1 .. n}
    OBVIOUS
  <1>5. PICK one \in Seq(M) : one = <<IdentityMethod>> /\ Len(one) = 1 /\ one[1] = IdentityMethod
    <2>1. IdentityMethod \in M
      BY <1>4
    <2>2. \A x \in M : <<x>> \in Seq(M) /\ Len(<<x>>) = 1 /\ <<x>>[1] = x
      OBVIOUS
    <2> QED BY <2>1, <2>2
  <1>6. PICK rest \in Seq(M) :
          rest = made /\ Len(rest) = n /\ \A i \in 1 .. n : rest[i] = DocMethod(o.vms[i])
    <2>1. made = [i \in 1 .. n |-> DocMethod(o.vms[i])]
      BY <1>2
    <2>2. \A i \in 1 .. n : DocMethod(o.vms[i]) \in M
      BY <1>4
    <2> HIDE DEF made
    <2>3. made \in Seq(M) /\ Len(made) = n /\ \A i \in 1 .. n : made[i] = DocMethod(o.vms[i])
      BY <2>1, <2>2
    <2> QED BY <2>3
  <1>7. PICK all \in Seq(M) : all = one \o rest /\ Joins(all, one, rest)
    BY Joined
  <1>8. /\ Len(all) = n + 1 /\ all[1] = IdentityMethod
        /\ \A i \in 1 .. n : all[i + 1] = DocMethod(o.vms[i])
    BY <1>5, <1>6, <1>7 DEF Joins
  <1>9. d.vms = all
    BY <1>3, <1>5, <1>6, <1>7
  <1>10. IsList(d.vms) /\ DOMAIN d.vms = 1 .. n + 1
    <2>1. DOMAIN all = 1 .. n + 1
      BY <1>8, LenProperties
    <2> QED BY <1>9, <2>1 DEF IsList
  <1>11. ASSUME NEW p \in Purposes
         PROVE  d.rel[p] \in Seq({d.vms[i].id : i \in DOMAIN d.vms})
    <2> HIDE DEF d
    <2>1. PICK T : T = {d.vms[i].id : i \in 1 .. n + 1}
      OBVIOUS
    <2>2. IdentityMethod.id \in T
      <3>1. 1 \in 1 .. n + 1
        OBVIOUS
      <3> QED BY <1>8, <1>9, <2>1, <3>1
    <2>3. ASSUME NEW i \in 1 .. n PROVE Qualified(o.vms[i]) \in T
      <3>1. PICK k \in 1 .. n + 1 : k = i + 1
        OBVIOUS
      <3>2. d.vms[k] = DocMethod(o.vms[i])
        BY <1>8, <1>9, <3>1
      <3>3. DocMethod(o.vms[i]).id = Qualified(o.vms[i])
        BY DEF DocMethod
      <3> QED BY <2>1, <3>1, <3>2, <3>3
    <2>4. Relationship(o, p) \in Seq(T)
      BY <1>2, <2>2, <2>3, RelationshipType
    <2> QED BY <1>3, <1>10, <2>1, <2>4
  <1> HIDE DEF d
  <1> QED BY <1>2, <1>3, <1>8, <1>9, <1>10, <1>11 DEF IsDoc, d

-------------------------------------------------------------------------------
(* The fields of a record                                                   *)

\* Short words.
LEMMA ShortWords ==
    /\ <<>> \in Word
    /\ \A x \in Tokens : <<x>> \in Word /\ Len(<<x>>) = 1 /\ <<x>>[1] = x /\ <<x>> # <<>>
    /\ \A x, y \in Tokens : <<x, y>> \in Word
    /\ \A x, y, z \in Tokens : /\ <<x, y, z>> \in Word /\ Len(<<x, y, z>>) = 3
                               /\ <<x, y, z>>[1] = x
  BY DEF Word

\* A key is two tokens.
LEMMA KeyTokens ==
    ASSUME NEW key \in Keys
    PROVE  key[1] \in Tokens /\ key[2] \in Tokens /\ key = <<key[1], key[2]>>
  BY KeysAssumption

\* A field: the words between its "=" signs.
Fields == Seq(Word) \ {<<>>}

\* A field is in a record.
IsIn(x, s) == \E i \in DOMAIN s : s[i] = x

\* What is in two records, one after the other.
LEMMA InConcat ==
    ASSUME NEW s \in Seq(Fields), NEW t \in Seq(Fields)
    PROVE  /\ s \o t \in Seq(Fields)
           /\ \A x : IsIn(x, s \o t) <=> IsIn(x, s) \/ IsIn(x, t)
  <1>1. PICK n \in Nat, m \in Nat :
          /\ n = Len(s) /\ DOMAIN s = 1 .. n /\ m = Len(t) /\ DOMAIN t = 1 .. m
    BY LenProperties
  <1>2. PICK u \in Seq(Fields) : u = s \o t /\ Joins(u, s, t)
    BY Joined
  <1>3. /\ DOMAIN u = 1 .. n + m
        /\ \A i \in 1 .. n : u[i] = s[i]
        /\ \A i \in 1 .. m : u[n + i] = t[i]
    BY <1>1, <1>2, LenProperties DEF Joins
  <1>4. ASSUME NEW x, IsIn(x, u) PROVE IsIn(x, s) \/ IsIn(x, t)
    <2>1. PICK i \in 1 .. n + m : u[i] = x
      BY <1>3, <1>4 DEF IsIn
    <2>2. CASE i <= n
      <3>1. i \in 1 .. n
        BY <2>2
      <3> QED BY <1>1, <1>3, <2>1, <3>1 DEF IsIn
    <2>3. CASE ~ (i <= n)
      <3>1. PICK j \in 1 .. m : i = n + j
        <4>1. i - n \in 1 .. m /\ i = n + (i - n)
          BY <2>3
        <4> QED BY <4>1
      <3> QED BY <1>1, <1>3, <2>1, <3>1 DEF IsIn
    <2> QED BY <2>2, <2>3
  <1>5. ASSUME NEW x, IsIn(x, s) PROVE IsIn(x, u)
    <2>1. PICK i \in 1 .. n : s[i] = x
      BY <1>1, <1>5 DEF IsIn
    <2>2. i \in 1 .. n + m
      OBVIOUS
    <2> QED BY <1>3, <2>1, <2>2 DEF IsIn
  <1>6. ASSUME NEW x, IsIn(x, t) PROVE IsIn(x, u)
    <2>1. PICK i \in 1 .. m : t[i] = x
      BY <1>1, <1>6 DEF IsIn
    <2>2. n + i \in 1 .. n + m
      OBVIOUS
    <2> QED BY <1>3, <2>1, <2>2 DEF IsIn
  <1> QED BY <1>2, <1>4, <1>5, <1>6

\* A field that parseTxtData keeps under this name.
Gives(x, name) == Len(x) = 2 /\ x[1] = <<name>>

\* The value of a name is the one that every field of this name gives.
LEMMA DataIs ==
    ASSUME NEW s \in Seq(Fields), NEW name, NEW value,
           \A x : IsIn(x, s) /\ Gives(x, name) => x[2] = value,
           value = <<>> \/ \E x : IsIn(x, s) /\ Gives(x, name)
    PROVE  Data(s, name) = value
  <1>1. PICK n \in Nat : n = Len(s) /\ DOMAIN s = 1 .. n
    BY LenProperties
  <1>2. PICK I : I = {i \in 1 .. n : Gives(s[i], name)}
    OBVIOUS
  <1>3. PICK last : last = IF I # {} THEN Max(I) ELSE 0
    OBVIOUS
  <1>4. Data(s, name) = IF last = 0 THEN <<>> ELSE s[last][2]
    BY <1>1, <1>2, <1>3 DEF Data, SelectLastInSeq, Gives
  <1>5. CASE I = {}
    <2>1. \A x : ~ (IsIn(x, s) /\ Gives(x, name))
      BY <1>1, <1>2, <1>5 DEF IsIn
    <2> QED BY <1>3, <1>4, <1>5, <2>1
  <1>6. CASE I # {}
    <2>1. I \in SUBSET (1 .. n)
      BY <1>2
    <2>2. \E x \in I : \A y \in I : x >= y
      BY <1>6, <2>1, GreatestUpTo
    <2>3. Max(I) \in I
      BY <2>2 DEF Max
    <2>4. last \in 1 .. n /\ Gives(s[last], name)
      BY <1>2, <1>3, <1>6, <2>3
    <2>5. last # 0 /\ IsIn(s[last], s)
      BY <1>1, <2>4 DEF IsIn
    <2> QED BY <1>4, <2>4, <2>5
  <1> QED BY <1>5, <1>6

\* A part of a record with this name and text: the field that the name heads.
IsPart(s, name, text) ==
    /\ s \in Seq(Fields)
    /\ \E h \in Fields :
          /\ h[1] = <<name>> /\ Len(h) = 1 + Len(text[1]) /\ h[2] = text[1][1]
          /\ \A x : IsIn(x, s) <=> x = h

\* What a text without ";" makes of a record.
LEMMA FieldIsPart ==
    ASSUME NEW name \in Tokens, NEW text \in KeyText, Len(text) = 1
    PROVE  IsPart(Field(name, text), name, text)
  <1>1. PICK f \in Fields : f = text[1] /\ text = <<f>>
    <2>1. text \in Seq(Fields)
      BY DEF KeyText, Fields
    <2>2. text[1] \in Fields /\ text = <<text[1]>>
      BY <2>1
    <2> QED BY <2>2
  <1>2. <<name>> \in Word
    BY ShortWords
  <1>3. PICK W : W = Word
    OBVIOUS
  <1>4. PICK one \in Seq(W) : one = <<<<name>>>> /\ Len(one) = 1 /\ one[1] = <<name>>
    <2>1. \A x \in W : <<x>> \in Seq(W) /\ Len(<<x>>) = 1 /\ <<x>>[1] = x
      OBVIOUS
    <2> QED BY <1>2, <1>3, <2>1
  <1>5. f \in Seq(W) /\ f # <<>>
    BY <1>3 DEF Fields
  <1>6. PICK h \in Seq(W) : h = one \o f /\ Joins(h, one, f)
    BY <1>5, Joined
  <1>7. PICK m \in Nat \ {0} : m = Len(f)
    BY <1>5, LenProperties
  <1>8. h[1] = <<name>> /\ Len(h) = 1 + m /\ h[2] = f[1]
    <2>1. 1 \in 1 .. 1 /\ 1 \in 1 .. m /\ 1 + 1 = 2
      OBVIOUS
    <2>2. /\ Len(h) = 1 + m
          /\ \A i \in 1 .. 1 : h[i] = one[i]
          /\ \A i \in 1 .. m : h[1 + i] = f[i]
      BY <1>4, <1>6, <1>7 DEF Joins
    <2>3. h[2] = f[1]
      <3>1. h[1 + 1] = f[1]
        BY <2>1, <2>2
      <3> QED BY <2>1, <3>1
    <2>4. h[1] = <<name>>
      BY <1>4, <2>1, <2>2
    <2> QED BY <2>2, <2>3, <2>4
  <1>9. h \in Fields
    BY <1>3, <1>8 DEF Fields
  <1>10. Field(name, text) = <<h>>
    <2>1. Tail(text) = <<>>
      BY <1>1
    <2>2. Field(name, text) = <<h>> \o Tail(text)
      BY <1>1, <1>4, <1>6 DEF Field
    <2>3. <<h>> \in Seq(Fields) /\ <<h>> \o <<>> = <<h>>
      BY <1>9, ConcatEmptySeq
    <2> QED BY <2>1, <2>2, <2>3
  <1>11. PICK s : s = Field(name, text) /\ s = <<h>> /\ s \in Seq(Fields)
    <2>1. \A F : \A x \in F : <<x>> \in Seq(F)
      OBVIOUS
    <2> QED BY <1>9, <1>10, <2>1
  <1>12. \A x : IsIn(x, s) <=> x = h
    BY <1>11 DEF IsIn
  <1> QED BY <1>1, <1>7, <1>8, <1>9, <1>11, <1>12 DEF IsPart

\* Or what one makes that is left out when it is the assumed one.
IsPartUnless(s, name, text, assumed) ==
    /\ s \in Seq(Fields)
    /\ \E h \in Fields :
          /\ h[1] = <<name>> /\ Len(h) = 1 + Len(text[1]) /\ h[2] = text[1][1]
          /\ \A x : IsIn(x, s) <=> text # assumed /\ x = h

LEMMA UnlessIsPart ==
    ASSUME NEW name \in Tokens, NEW text \in KeyText, Len(text) = 1, NEW assumed,
           NEW s, s = Unless(assumed, name, text)
    PROVE  IsPartUnless(s, name, text, assumed)
  <1>1. PICK part \in Seq(Fields), h \in Fields :
          /\ part = Field(name, text)
          /\ h[1] = <<name>> /\ Len(h) = 1 + Len(text[1]) /\ h[2] = text[1][1]
          /\ \A x : IsIn(x, part) <=> x = h
    BY FieldIsPart DEF IsPart
  <1>2. CASE text # assumed
    <2>1. s = part
      BY <1>1, <1>2 DEF Unless
    <2> QED BY <1>1, <1>2, <2>1 DEF IsPartUnless
  <1>3. CASE text = assumed
    <2>1. s = <<>> /\ s \in Seq(Fields)
      <3>1. \A F : <<>> \in Seq(F)
        OBVIOUS
      <3> QED BY <1>3, <3>1 DEF Unless
    <2>2. \A x : ~ IsIn(x, s)
      BY <2>1 DEF IsIn
    <2> QED BY <1>1, <1>3, <2>1, <2>2 DEF IsPartUnless
  <1> QED BY <1>2, <1>3

\* The one field of a name decides what is read of it.
LEMMA OneGiver ==
    ASSUME NEW s \in Seq(Fields), NEW name, NEW h, NEW value, h[2] = value,
           Gives(h, name), IsIn(h, s), \A x : IsIn(x, s) /\ Gives(x, name) => x = h
    PROVE  Data(s, name) = value
  <1>1. \A x : IsIn(x, s) /\ Gives(x, name) => x[2] = value
    OBVIOUS
  <1>2. \E x : IsIn(x, s) /\ Gives(x, name)
    OBVIOUS
  <1> QED BY <1>1, <1>2, DataIs

\* A method of a document whose name is one word, and its algorithm and controller one
\* field each.
Recordable(vm) ==
    /\ vm.key \in Keys /\ HasKeyType(vm.key)
    /\ \E word \in Word : word # <<>> /\ Unqualified(vm.id) = Just(word)
    /\ vm.alg \in KeyText /\ Len(vm.alg) = 1
    /\ vm.controller \in KeyText /\ Len(vm.controller) = 1

\* A text of one word.
LEMMA JustText ==
    ASSUME NEW word \in Word
    PROVE  /\ Just(word) \in KeyText /\ Len(Just(word)) = 1 /\ IsJust(Just(word))
           /\ Len(Just(word)[1]) = 1 /\ Just(word)[1][1] = word
  <1>1. PICK W : W = Word
    OBVIOUS
  <1>2. PICK f : f = <<word>> /\ f \in Seq(W) /\ Len(f) = 1 /\ f[1] = word /\ f # <<>>
    <2>1. /\ <<word>> \in Seq(W) /\ Len(<<word>>) = 1 /\ <<word>>[1] = word
          /\ <<word>> # <<>>
      BY <1>1
    <2> QED BY <2>1
  <1>3. f \in Fields
    BY <1>1, <1>2 DEF Fields
  <1>4. PICK F : F = Fields
    OBVIOUS
  <1>5. PICK t : t = <<f>> /\ t \in Seq(F) /\ Len(t) = 1 /\ t[1] = f /\ t # <<>>
    <2>1. <<f>> \in Seq(F) /\ Len(<<f>>) = 1 /\ <<f>>[1] = f /\ <<f>> # <<>>
      BY <1>3, <1>4
    <2> QED BY <2>1
  <1>6. t \in KeyText
    BY <1>4, <1>5 DEF KeyText, Fields
  <1>7. t = Just(word)
    BY <1>2, <1>5 DEF Just
  <1> QED BY <1>2, <1>5, <1>6, <1>7 DEF IsJust

\* And every text that is one word is such a text.
LEMMA JustWord ==
    ASSUME NEW text \in KeyText, IsJust(text)
    PROVE  text[1][1] \in Word /\ text = Just(text[1][1])
  <1>1. text \in Seq(Fields) /\ Len(text) = 1 /\ Len(text[1]) = 1
    BY DEF KeyText, Fields, IsJust
  <1>2. text[1] \in Fields /\ text = <<text[1]>>
    BY <1>1
  <1>3. PICK W : W = Word
    OBVIOUS
  <1>4. PICK f \in Seq(W) : f = text[1] /\ Len(f) = 1
    BY <1>1, <1>2, <1>3 DEF Fields
  <1>5. f[1] \in W /\ f = <<f[1]>>
    BY <1>4
  <1> QED BY <1>2, <1>3, <1>4, <1>5 DEF Just

\* Different words are different texts.
LEMMA JustTells == \A v, w : Just(v) = Just(w) => v = w
  BY DEF Just

\* What a reader makes of the record of a method.
LEMMA RecordReads ==
    ASSUME NEW vm, Recordable(vm), NEW r, r = KeyRecord(vm)
    PROVE  /\ Data(r.fields, "t") = <<vm.key[1]>> /\ Data(r.fields, "k") = <<vm.key[2]>>
           /\ Data(r.fields, "id") = IF Unqualified(vm.id) = Thumbprint(vm.key) THEN <<>>
                                     ELSE Unqualified(vm.id)[1][1]
           /\ IsJust(vm.alg) => Data(r.fields, "a") = IF vm.alg = DefaultAlg(vm.key) THEN <<>>
                                                      ELSE vm.alg[1][1]
           /\ IsJust(vm.controller) => Data(r.fields, "c") = IF vm.controller = Self THEN <<>>
                                                             ELSE vm.controller[1][1]
  <1>1. PICK t \in Tokens, k \in Tokens : t = vm.key[1] /\ k = vm.key[2]
    BY KeyTokens DEF Recordable
  <1>2. <<t>> \in Word /\ <<k>> \in Word
    BY ShortWords
  <1>3. PICK word \in Word : Unqualified(vm.id) = Just(word)
    BY DEF Recordable
  <1>4. PICK type, bytes, name, alg, controller :
          /\ type = Just(<<t>>) /\ bytes = Just(<<k>>) /\ name = Unqualified(vm.id)
          /\ alg = vm.alg /\ controller = vm.controller
    OBVIOUS
  <1>5. /\ type \in KeyText /\ Len(type) = 1 /\ Len(type[1]) = 1 /\ type[1][1] = <<t>>
        /\ bytes \in KeyText /\ Len(bytes) = 1 /\ Len(bytes[1]) = 1 /\ bytes[1][1] = <<k>>
        /\ name \in KeyText /\ Len(name) = 1 /\ Len(name[1]) = 1
        /\ alg \in KeyText /\ Len(alg) = 1 /\ controller \in KeyText /\ Len(controller) = 1
    BY <1>2, <1>3, <1>4, JustText DEF Recordable
  <1>6. PICK pid, pt, pk, pa, pc :
          /\ pid = Unless(Thumbprint(vm.key), "id", name)
          /\ pt = Field("t", type) /\ pk = Field("k", bytes)
          /\ pa = Unless(DefaultAlg(vm.key), "a", alg) /\ pc = Unless(Self, "c", controller)
    OBVIOUS
  <1>7. r.fields = pid \o pt \o pk \o pa \o pc
    BY <1>1, <1>4, <1>6 DEF KeyRecord
  <1>8. "id" \in Tokens /\ "t" \in Tokens /\ "k" \in Tokens /\ "a" \in Tokens /\ "c" \in Tokens
    BY TokensAssumption DEF Marks
  <1>9. /\ pid \in Seq(Fields) /\ pt \in Seq(Fields) /\ pk \in Seq(Fields)
        /\ pa \in Seq(Fields) /\ pc \in Seq(Fields)
    BY <1>5, <1>6, <1>8, FieldIsPart, UnlessIsPart DEF IsPart, IsPartUnless
  <1>10. PICK hid :
          /\ hid[1] = <<"id">> /\ Len(hid) = 1 + Len(name[1]) /\ hid[2] = name[1][1]
          /\ \A x : IsIn(x, pid) <=> name # Thumbprint(vm.key) /\ x = hid
    <2>1. IsPartUnless(pid, "id", name, Thumbprint(vm.key))
      BY <1>5, <1>6, <1>8, UnlessIsPart
    <2> QED BY ONLY <2>1 DEF IsPartUnless
  <1>11. PICK ht :
          /\ ht[1] = <<"t">> /\ Len(ht) = 1 + Len(type[1]) /\ ht[2] = type[1][1]
          /\ \A x : IsIn(x, pt) <=> x = ht
    <2>1. IsPart(pt, "t", type)
      BY <1>5, <1>6, <1>8, FieldIsPart
    <2> QED BY ONLY <2>1 DEF IsPart
  <1>12. PICK hk :
          /\ hk[1] = <<"k">> /\ Len(hk) = 1 + Len(bytes[1]) /\ hk[2] = bytes[1][1]
          /\ \A x : IsIn(x, pk) <=> x = hk
    <2>1. IsPart(pk, "k", bytes)
      BY <1>5, <1>6, <1>8, FieldIsPart
    <2> QED BY ONLY <2>1 DEF IsPart
  <1>13. PICK ha :
          /\ ha[1] = <<"a">> /\ Len(ha) = 1 + Len(alg[1]) /\ ha[2] = alg[1][1]
          /\ \A x : IsIn(x, pa) <=> alg # DefaultAlg(vm.key) /\ x = ha
    <2>1. IsPartUnless(pa, "a", alg, DefaultAlg(vm.key))
      BY <1>5, <1>6, <1>8, UnlessIsPart
    <2> QED BY ONLY <2>1 DEF IsPartUnless
  <1>14. PICK hc :
          /\ hc[1] = <<"c">> /\ Len(hc) = 1 + Len(controller[1]) /\ hc[2] = controller[1][1]
          /\ \A x : IsIn(x, pc) <=> controller # Self /\ x = hc
    <2>1. IsPartUnless(pc, "c", controller, Self)
      BY <1>5, <1>6, <1>8, UnlessIsPart
    <2> QED BY ONLY <2>1 DEF IsPartUnless
  <1>15. PICK s \in Seq(Fields) :
           /\ s = r.fields
           /\ \A x : IsIn(x, s) <=> \/ name # Thumbprint(vm.key) /\ x = hid
                                    \/ x = ht \/ x = hk
                                    \/ alg # DefaultAlg(vm.key) /\ x = ha
                                    \/ controller # Self /\ x = hc
    <2>2. PICK s2 \in Seq(Fields) :
            s2 = pid \o pt /\ \A x : IsIn(x, s2) <=> IsIn(x, pid) \/ IsIn(x, pt)
      <3>1. /\ pid \o pt \in Seq(Fields)
            /\ \A x : IsIn(x, pid \o pt) <=> IsIn(x, pid) \/ IsIn(x, pt)
        BY <1>9, InConcat
      <3> QED BY <3>1
    <2>3. PICK s3 \in Seq(Fields) :
            s3 = s2 \o pk /\ \A x : IsIn(x, s3) <=> IsIn(x, s2) \/ IsIn(x, pk)
      <3>1. /\ s2 \o pk \in Seq(Fields)
            /\ \A x : IsIn(x, s2 \o pk) <=> IsIn(x, s2) \/ IsIn(x, pk)
        BY <1>9, InConcat
      <3> QED BY <3>1
    <2>4. PICK s4 \in Seq(Fields) :
            s4 = s3 \o pa /\ \A x : IsIn(x, s4) <=> IsIn(x, s3) \/ IsIn(x, pa)
      <3>1. /\ s3 \o pa \in Seq(Fields)
            /\ \A x : IsIn(x, s3 \o pa) <=> IsIn(x, s3) \/ IsIn(x, pa)
        BY <1>9, InConcat
      <3> QED BY <3>1
    <2>5. PICK s5 \in Seq(Fields) :
            s5 = s4 \o pc /\ \A x : IsIn(x, s5) <=> IsIn(x, s4) \/ IsIn(x, pc)
      <3>1. /\ s4 \o pc \in Seq(Fields)
            /\ \A x : IsIn(x, s4 \o pc) <=> IsIn(x, s4) \/ IsIn(x, pc)
        BY <1>9, InConcat
      <3> QED BY <3>1
    <2>6. s5 = r.fields
      BY ONLY <1>7, <2>2, <2>3, <2>4, <2>5
    <2>7. \A x : IsIn(x, s5) <=> \/ name # Thumbprint(vm.key) /\ x = hid
                                 \/ x = ht \/ x = hk
                                 \/ alg # DefaultAlg(vm.key) /\ x = ha
                                 \/ controller # Self /\ x = hc
      BY ONLY <1>10, <1>11, <1>12, <1>13, <1>14, <2>2, <2>3, <2>4, <2>5
    <2> QED BY <2>6, <2>7
  <1>16. /\ <<"id">> # <<"t">> /\ <<"id">> # <<"k">> /\ <<"id">> # <<"a">> /\ <<"id">> # <<"c">>
         /\ <<"t">> # <<"k">> /\ <<"t">> # <<"a">> /\ <<"t">> # <<"c">>
         /\ <<"k">> # <<"a">> /\ <<"k">> # <<"c">> /\ <<"a">> # <<"c">>
    OBVIOUS
  <1>16a. /\ hid[2] = name[1][1] /\ ht[2] = <<t>> /\ hk[2] = <<k>>
        /\ ha[2] = alg[1][1] /\ hc[2] = controller[1][1]
    BY <1>5, <1>10, <1>11, <1>12, <1>13, <1>14
  <1>17. Data(s, "t") = <<t>>
    <2>1. Gives(ht, "t") /\ IsIn(ht, s)
      BY <1>5, <1>10, <1>11, <1>12, <1>13, <1>14, <1>15 DEF Gives
    <2>2. \A x : IsIn(x, s) /\ Gives(x, "t") => x = ht
      BY <1>10, <1>11, <1>12, <1>13, <1>14, <1>15, <1>16 DEF Gives
    <2> QED BY <1>16a, <2>1, <2>2, OneGiver
  <1>18. Data(s, "k") = <<k>>
    <2>1. Gives(hk, "k") /\ IsIn(hk, s)
      BY <1>5, <1>10, <1>11, <1>12, <1>13, <1>14, <1>15 DEF Gives
    <2>2. \A x : IsIn(x, s) /\ Gives(x, "k") => x = hk
      BY <1>10, <1>11, <1>12, <1>13, <1>14, <1>15, <1>16 DEF Gives
    <2> QED BY <1>16a, <2>1, <2>2, OneGiver
  <1>19. Data(s, "id") = IF name = Thumbprint(vm.key) THEN <<>> ELSE name[1][1]
    <2>1. \A x : IsIn(x, s) /\ Gives(x, "id") => name # Thumbprint(vm.key) /\ x = hid
      BY <1>10, <1>11, <1>12, <1>13, <1>14, <1>15, <1>16 DEF Gives
    <2>2. name # Thumbprint(vm.key) => Gives(hid, "id") /\ IsIn(hid, s)
      BY <1>5, <1>10, <1>11, <1>12, <1>13, <1>14, <1>15 DEF Gives
    <2>3. CASE name = Thumbprint(vm.key)
      BY <2>1, <2>3, DataIs
    <2>4. CASE name # Thumbprint(vm.key)
      BY <1>16a, <2>1, <2>2, <2>4, OneGiver
    <2> QED BY <2>3, <2>4
  <1>20. ASSUME IsJust(alg)
         PROVE  Data(s, "a") = IF alg = DefaultAlg(vm.key) THEN <<>> ELSE alg[1][1]
    <2>1. \A x : IsIn(x, s) /\ Gives(x, "a") => alg # DefaultAlg(vm.key) /\ x = ha
      BY <1>10, <1>11, <1>12, <1>13, <1>14, <1>15, <1>16 DEF Gives
    <2>2. alg # DefaultAlg(vm.key) => Gives(ha, "a") /\ IsIn(ha, s)
      BY <1>10, <1>11, <1>12, <1>13, <1>14, <1>15, <1>20 DEF Gives, IsJust
    <2>3. CASE alg = DefaultAlg(vm.key)
      BY <2>1, <2>3, DataIs
    <2>4. CASE alg # DefaultAlg(vm.key)
      BY <1>16a, <2>1, <2>2, <2>4, OneGiver
    <2> QED BY <2>3, <2>4
  <1>21. ASSUME IsJust(controller)
         PROVE  Data(s, "c") = IF controller = Self THEN <<>> ELSE controller[1][1]
    <2>1. \A x : IsIn(x, s) /\ Gives(x, "c") => controller # Self /\ x = hc
      BY <1>10, <1>11, <1>12, <1>13, <1>14, <1>15, <1>16 DEF Gives
    <2>2. controller # Self => Gives(hc, "c") /\ IsIn(hc, s)
      BY <1>10, <1>11, <1>12, <1>13, <1>14, <1>15, <1>21 DEF Gives, IsJust
    <2>3. CASE controller = Self
      BY <2>1, <2>3, DataIs
    <2>4. CASE controller # Self
      BY <1>16a, <2>1, <2>2, <2>4, OneGiver
    <2> QED BY <2>3, <2>4
  <1> QED BY <1>1, <1>4, <1>15, <1>17, <1>18, <1>19, <1>20, <1>21

\* The key is read back.
LEMMA KeyReads ==
    ASSUME NEW vm, Recordable(vm)
    PROVE  ReadKeys(KeyRecord(vm)) = {vm.key} /\ ReadKey(KeyRecord(vm)) = vm.key
  <1>1. PICK r : r = KeyRecord(vm)
    OBVIOUS
  <1>2. PICK t \in Tokens, k \in Tokens : vm.key = <<t, k>> /\ vm.key[1] = t /\ vm.key[2] = k
    BY KeyTokens DEF Recordable
  <1>3. Data(r.fields, "t") = <<t>> /\ Data(r.fields, "k") = <<k>>
    BY <1>1, <1>2, RecordReads
  <1>4. \A key \in Keys : Data(r.fields, "t") = <<key[1]>> /\ Data(r.fields, "k") = <<key[2]>>
                             <=> key = vm.key
    <2>1. ASSUME NEW key \in Keys
          PROVE  <<t>> = <<key[1]>> /\ <<k>> = <<key[2]>> <=> key = <<t, k>>
      <3>1. PICK a \in Tokens, b \in Tokens : key = <<a, b>>
        BY KeyTokens
      <3>2. /\ key[1] = a /\ key[2] = b
            /\ <<t>> = <<a>> <=> t = a
            /\ <<k>> = <<b>> <=> k = b
            /\ <<a, b>> = <<t, k>> <=> t = a /\ k = b
        BY <3>1
      <3> QED BY <3>1, <3>2
    <2> QED BY <1>2, <1>3, <2>1
  <1>5. vm.key \in Keys /\ HasKeyType(vm.key)
    BY DEF Recordable
  <1>6. ReadKeys(r) = {vm.key}
    BY <1>4, <1>5 DEF ReadKeys
  <1> QED BY <1>1, <1>6 DEF ReadKey

\* And the name, but for the identity key.
LEMMA NameReads ==
    ASSUME NEW vm, Recordable(vm)
    PROVE  VmId(KeyRecord(vm)) = IF vm.key = IdentityKey THEN Just(<<"0">>)
                                 ELSE Unqualified(vm.id)
  <1>1. PICK r : r = KeyRecord(vm)
    OBVIOUS
  <1>2. ReadKey(r) = vm.key
    BY <1>1, KeyReads
  <1>3. PICK word \in Word : word # <<>> /\ Unqualified(vm.id) = Just(word)
    BY DEF Recordable
  <1>4. Unqualified(vm.id)[1][1] = word
    BY <1>3, JustText
  <1>5. Data(r.fields, "id") = IF Unqualified(vm.id) = Thumbprint(vm.key) THEN <<>> ELSE word
    BY <1>1, <1>4, RecordReads
  <1> QED BY <1>1, <1>2, <1>3, <1>5 DEF VmId, OrElse

-------------------------------------------------------------------------------
(* What a reader makes of it                                                *)

\* The name that a reader gives to the method with this number.
ReadName(d, n) == VmId(KeyRecord(d.vms[n]))

\* A reader has the methods of the document, and its lists, under the names he gives.
IsRead(g, d) ==
    /\ g.vms = [i \in DOMAIN d.vms |-> g.vms[i]]
    /\ \A i \in DOMAIN d.vms : /\ g.vms[i] = ReadMethod(KeyRecord(d.vms[i]))
                               /\ g.vms[i].id = <<"self", ReadName(d, i)>>
    /\ g.rel = [p \in Purposes |-> g.rel[p]]
    /\ \A p \in Purposes :
          /\ g.rel[p] = [k \in DOMAIN d.rel[p] |-> g.rel[p][k]]
          /\ \A k \in DOMAIN d.rel[p] :
                g.rel[p][k] = <<"self", ReadName(d, KeyLookup(d, d.rel[p][k]))>>

\* A list of a document names a method in each of its places.
LEMMA ListNames ==
    ASSUME NEW d, NEW o, IsDoc(d, o), NEW p \in Purposes, NEW k \in DOMAIN d.rel[p]
    PROVE  \E j \in DOMAIN d.vms : d.rel[p][k] = d.vms[j].id
  <1>1. PICK T : T = {d.vms[i].id : i \in DOMAIN d.vms} /\ d.rel[p] \in Seq(T)
    BY DEF IsDoc
  <1>2. d.rel[p][k] \in T
    BY <1>1, LenProperties, ElementOfSeq
  <1> QED BY <1>1, <1>2

\* FromDNSPacket on a packet that was written from a document.
LEMMA ReaderReads ==
    ASSUME NEW d, NEW o, IsDoc(d, o), NEW q, Records(q, d, o)
    PROVE  IsRead(FromDNSPacket(q), d)
  <1> DEFINE g == FromDNSPacket(q)
  <1>1. PICK keys : keys = Named(q, "key") /\ keys = [i \in DOMAIN d.vms |-> KeyRecord(d.vms[i])]
    BY DEF Records
  <1>2. PICK n \in Nat : /\ SelectInSeq(q, IsRoot) = n + 1 /\ q[n + 1] = RootRecord(d)
                         /\ Named(SubSeq(q, 1, n), "key") = keys
    BY <1>1 DEF Records
  <1>3. g.vms = [i \in DOMAIN keys |-> ReadMethod(keys[i])]
    BY <1>1 DEF FromDNSPacket, Each
  <1>4. \A i \in DOMAIN d.vms : /\ g.vms[i] = ReadMethod(KeyRecord(d.vms[i]))
                               /\ g.vms[i].id = <<"self", ReadName(d, i)>>
    <2>1. ASSUME NEW i \in DOMAIN d.vms PROVE g.vms[i] = ReadMethod(KeyRecord(d.vms[i]))
      BY <1>1, <1>3
    <2>2. \A r : ReadMethod(r).id = <<"self", VmId(r)>>
      BY DEF ReadMethod
    <2> HIDE DEF g
    <2> QED BY <2>1, <2>2 DEF ReadName
  <1>5. g.vms = [i \in DOMAIN d.vms |-> g.vms[i]]
    BY <1>1, <1>3
  <1>6. g.rel = [p \in Purposes |-> ReadRelationship(q, p)]
    BY DEF FromDNSPacket
  <1>7. ASSUME NEW p \in Purposes
        PROVE  /\ g.rel[p] = [k \in DOMAIN d.rel[p] |-> g.rel[p][k]]
               /\ \A k \in DOMAIN d.rel[p] :
                     g.rel[p][k] = <<"self", ReadName(d, KeyLookup(d, d.rel[p][k]))>>
    <2>1. PICK list : list = RootRecord(d).rel[p]
      OBVIOUS
    <2>2. list = [k \in DOMAIN d.rel[p] |-> KeyLookup(d, d.rel[p][k])]
      BY <2>1 DEF RootRecord
    <2>3. ReadRelationship(q, p) = [k \in DOMAIN list |-> Resolve(q, n + 1, list[k])]
      BY <1>2, <2>1 DEF ReadRelationship
    <2>4. ASSUME NEW k \in DOMAIN d.rel[p]
          PROVE  Resolve(q, n + 1, list[k]) = <<"self", ReadName(d, KeyLookup(d, d.rel[p][k]))>>
      <3>1. PICK m : m = KeyLookup(d, d.rel[p][k])
        OBVIOUS
      <3>2. m \in DOMAIN d.vms
        BY <3>1, ListNames, KeyLookupFinds DEF IsDoc
      <3>3. keys[m] = KeyRecord(d.vms[m]) /\ DOMAIN keys = DOMAIN d.vms
        BY <1>1, <3>2
      <3>4. n + 1 - 1 = n
        OBVIOUS
      <3>5. Resolve(q, n + 1, m) = <<"self", VmId(keys[m])>>
        BY <1>2, <3>2, <3>3, <3>4 DEF Resolve
      <3> QED BY <2>2, <3>1, <3>3, <3>5 DEF ReadName
    <2> HIDE DEF g
    <2> QED BY <1>6, <2>2, <2>3, <2>4
  <1> HIDE DEF g
  <1>8. g.rel = [p \in Purposes |-> g.rel[p]]
    BY <1>6
  <1> QED BY <1>4, <1>5, <1>7, <1>8 DEF IsRead, g

\* A reader's lists name methods that he has.
LEMMA ReadResolves ==
    ASSUME NEW d, NEW o, IsDoc(d, o), NEW g, IsRead(g, d)
    PROVE  \A p \in Purposes : \A id \in ToSet(g.rel[p]) : \E i \in DOMAIN g.vms : g.vms[i].id = id
  <1>1. SUFFICES ASSUME NEW p \in Purposes, NEW k \in DOMAIN g.rel[p]
                 PROVE  \E i \in DOMAIN g.vms : g.vms[i].id = g.rel[p][k]
    BY DEF ToSet
  <1>2. k \in DOMAIN d.rel[p]
    BY DEF IsRead
  <1>3. PICK m : m = KeyLookup(d, d.rel[p][k]) /\ m \in DOMAIN d.vms
    BY <1>2, ListNames, KeyLookupFinds DEF IsDoc
  <1>4. g.rel[p][k] = <<"self", ReadName(d, m)>>
    BY <1>2, <1>3 DEF IsRead
  <1>5. m \in DOMAIN g.vms /\ g.vms[m].id = <<"self", ReadName(d, m)>>
    BY <1>3 DEF IsRead
  <1> QED BY <1>4, <1>5

-------------------------------------------------------------------------------
(* Names                                                                    *)

\* The forms of id that give a method a name of its own.
Naming == {"bare", "hash", "own"}

\* A method that CreateDIDDHTDID takes, named as WellNamed wants it.
Acceptable(vm) ==
    /\ vm \in Method /\ IsJust(vm.id[2]) /\ Len(vm.alg) = 1 /\ Len(vm.controller) = 1
    /\ vm.id[1] \in Naming =>
          vm.id[2] # Empty /\ vm.id[2][1][1][1] # "other" /\ vm.id[2] # Just(<<"0">>)

\* The whole id of another DID as a name.
LEMMA WholeId ==
    ASSUME NEW name \in Word
    PROVE  <<"other">> \o name \in Word /\ (<<"other">> \o name)[1] = "other"
  <1>1. PICK one \in Seq(Tokens) : one = <<"other">> /\ Len(one) = 1 /\ one[1] = "other"
    <2>1. "other" \in Tokens
      BY TokensAssumption DEF Marks
    <2> QED BY <2>1, ShortWords DEF Word
  <1>2. PICK u \in Seq(Tokens) : u = one \o name /\ Joins(u, one, name)
    BY Joined DEF Word
  <1>3. u[1] = "other"
    BY <1>1, <1>2 DEF Joins
  <1> QED BY <1>1, <1>2, <1>3 DEF Word

\* The record's name for the method, a word, and how it tells the method's id.
IsName(word, vm) ==
    /\ word \in Word /\ word # <<>> /\ word # <<"0">> /\ Unqualified(Qualified(vm)) = Just(word)
    /\ \/ Qualified(vm) = <<"self", Just(word)>> /\ word[1] # "other"
       \/ /\ word[1] = "other" /\ vm.id[1] = "other"
          /\ \E name \in Word : Qualified(vm) = <<"other", Just(name)>> /\ word = <<"other">> \o name

\* Every method has one.
LEMMA NameOfMethod ==
    ASSUME NEW vm, Acceptable(vm)
    PROVE  \E word : IsName(word, vm)
  <1>1. vm.id \in MethodId /\ vm.key \in Keys
    BY DEF Acceptable, Method
  <1>2. vm.id[1] \in {"unset", "bare", "hash", "own", "other"} /\ vm.id[2] \in KeyText
    <2>1. Empty \in KeyText
      <3>1. <<>> \in Word
        BY DEF Word
      <3> QED BY <3>1, JustText DEF Empty
    <2> QED BY <1>1, <2>1 DEF MethodId
  <1>3. PICK name \in Word : vm.id[2] = Just(name) /\ vm.id[2][1][1] = name
    BY <1>2, JustWord DEF Acceptable
  <1>4. CASE vm.id[1] \in Naming
    <2>1. Qualified(vm) = <<"self", Just(name)>>
      BY <1>3, <1>4 DEF Qualified, Naming
    <2>2. Unqualified(<<"self", Just(name)>>) = Just(name)
      BY DEF Unqualified
    <2>3. name # <<>> /\ name[1] # "other" /\ name # <<"0">>
      BY <1>3, <1>4 DEF Acceptable, Empty
    <2> QED BY <2>1, <2>2, <2>3 DEF IsName
  <1>5. CASE vm.id[1] = "unset"
    <2>1. PICK word : word = <<"thumbprint", vm.key[1], vm.key[2]>>
      OBVIOUS
    <2>2. Qualified(vm) = <<"self", Just(word)>>
      BY <1>5, <2>1 DEF Qualified, Thumbprint
    <2>3. Unqualified(<<"self", Just(word)>>) = Just(word)
      BY DEF Unqualified
    <2>4. word \in Word /\ word # <<>> /\ word[1] # "other" /\ word # <<"0">>
      <3>1. vm.key[1] \in Tokens /\ vm.key[2] \in Tokens /\ "thumbprint" \in Tokens /\ "0" \in Tokens
        BY <1>1, KeyTokens, TokensAssumption DEF Marks
      <3>2. Len(word) = 3 /\ word[1] = "thumbprint" /\ word \in Word
        BY <2>1, <3>1, ShortWords
      <3>3. Len(<<"0">>) = 1 /\ Len(<<>>) = 0
        OBVIOUS
      <3>4. word # <<>> /\ word # <<"0">>
        BY <3>2, <3>3
      <3> QED BY <3>2, <3>4
    <2> QED BY <2>2, <2>3, <2>4 DEF IsName
  <1>6. CASE vm.id[1] = "other"
    <2>1. Qualified(vm) = <<"other", Just(name)>>
      BY <1>3, <1>6 DEF Qualified, Naming
    <2>2. PICK word \in Word : word = <<"other">> \o name /\ word[1] = "other"
      BY WholeId
    <2>3. Unqualified(<<"other", Just(name)>>) = Just(word)
      <3>1. Unqualified(<<"other", Just(name)>>) = [Just(name) EXCEPT ![1][1] = <<"other">> \o @]
        BY DEF Unqualified
      <3>2. [<<<<name>>>> EXCEPT ![1][1] = word] = <<<<word>>>>
        OBVIOUS
      <3>3. [Just(name) EXCEPT ![1][1] = <<"other">> \o @] = [Just(name) EXCEPT ![1][1] = word]
        BY <2>2, JustText
      <3> QED BY <3>1, <3>2, <3>3 DEF Just
    <2>4. word # <<>> /\ word # <<"0">>
      <3>1. <<"0">>[1] = "0"
        OBVIOUS
      <3>2. word # <<"0">>
        BY <2>2, <3>1
      <3>3. Len(word) # 0
        <4>1. PICK one \in Seq(Tokens) : one = <<"other">> /\ Len(one) = 1
          <5>1. "other" \in Tokens
            BY TokensAssumption DEF Marks
          <5> QED BY <5>1, ShortWords DEF Word
        <4>2. Len(one \o name) = 1 + Len(name) /\ Len(name) \in Nat
          BY <4>1, ConcatProperties, LenProperties DEF Word
        <4> QED BY <2>2, <4>1, <4>2
      <3> QED BY <3>2, <3>3
    <2> QED BY <1>6, <2>1, <2>2, <2>3, <2>4 DEF IsName
  <1> QED BY <1>2, <1>4, <1>5, <1>6 DEF Naming

\* Records have the same name only if the methods have the same id.
LEMMA NameTellsId ==
    ASSUME NEW vm, Acceptable(vm), NEW wm, Acceptable(wm),
           Unqualified(Qualified(vm)) = Unqualified(Qualified(wm))
    PROVE  Qualified(vm) = Qualified(wm)
  <1>1. PICK word : IsName(word, vm) /\ IsName(word, wm)
    <2>1. PICK v : IsName(v, vm)
      BY NameOfMethod
    <2>2. PICK w : IsName(w, wm)
      BY NameOfMethod
    <2>3. Just(v) = Just(w)
      BY <2>1, <2>2 DEF IsName
    <2> QED BY <2>1, <2>2, <2>3, JustTells
  <1>2. CASE word[1] # "other"
    BY <1>1, <1>2 DEF IsName
  <1>3. CASE word[1] = "other"
    <2>1. PICK name \in Word : Qualified(vm) = <<"other", Just(name)>> /\ word = <<"other">> \o name
      BY <1>1, <1>3 DEF IsName
    <2>2. PICK last \in Word : Qualified(wm) = <<"other", Just(last)>> /\ word = <<"other">> \o last
      BY <1>1, <1>3 DEF IsName
    <2>3. PICK one \in Seq(Tokens) : one = <<"other">>
      <3>1. "other" \in Tokens
        BY TokensAssumption DEF Marks
      <3> QED BY <3>1, ShortWords DEF Word
    <2>4. name \in Seq(Tokens) /\ last \in Seq(Tokens) /\ one \o name = one \o last
      BY <2>1, <2>2, <2>3 DEF Word
    <2>5. \A V : \A s, t, v \in Seq(V) : s \o t = s \o v => t = v
      BY ConcatSimplifications
    <2>6. name = last
      BY ONLY one \in Seq(Tokens), <2>4, <2>5
    <2> QED BY <2>1, <2>2, <2>6
  <1> QED BY <1>2, <1>3

-------------------------------------------------------------------------------
(* Authority                                                                *)

\* Options whose methods are acceptable; the code refuses the name of the identity key.
LEMMA TakenIsAcceptable ==
    ASSUME NEW o \in Options, ~ CreateFails(o), WellNamed(o), NEW i \in DOMAIN o.vms
    PROVE  Acceptable(o.vms[i])
  <1>1. o.vms \in Seq(Method)
    BY DEF Options
  <1>2. o.vms[i] \in Method
    BY <1>1, LenProperties, ElementOfSeq
  <1>3. ~ Reserved(o.vms[i])
    BY DEF CreateFails
  <1> QED BY <1>2, <1>3 DEF WellNamed, Reserved, Acceptable, Naming

\* The methods of a document: the identity key, or one that was given.
LEMMA MethodOfDoc ==
    ASSUME NEW o \in Options, ~ CreateFails(o), WellNamed(o), NEW d, IsDoc(d, o),
           NEW i \in DOMAIN d.vms
    PROVE  \/ d.vms[i] = IdentityMethod
           \/ \E k \in DOMAIN o.vms : Acceptable(o.vms[k]) /\ d.vms[i] = DocMethod(o.vms[k])
  <1>1. o.vms \in Seq(Method)
    BY DEF Options
  <1>2. PICK n \in Nat : n = Len(o.vms) /\ DOMAIN o.vms = 1 .. n
    BY <1>1, LenProperties
  <1>3. CASE i = 1
    BY <1>3 DEF IsDoc
  <1>4. CASE i # 1
    <2>1. PICK k \in 1 .. n : i = k + 1
      <3>1. i \in 1 .. n + 1
        BY <1>2 DEF IsDoc
      <3>2. i - 1 \in 1 .. n /\ i = (i - 1) + 1
        BY <1>4, <3>1
      <3> QED BY <3>2
    <2>2. d.vms[i] = DocMethod(o.vms[k])
      BY <1>2, <2>1 DEF IsDoc
    <2> QED BY <1>2, <2>2, TakenIsAcceptable
  <1> QED BY <1>3, <1>4

\* A document that has a packet has keys that can be written.
Packable(d) == \A i \in DOMAIN d.vms : HasKeyType(d.vms[i].key)

\* All its methods can be recorded.
LEMMA DocIsRecordable ==
    ASSUME NEW o \in Options, ~ CreateFails(o), WellNamed(o), NEW d, IsDoc(d, o), Packable(d),
           NEW i \in DOMAIN d.vms
    PROVE  Recordable(d.vms[i])
  <1>1. HasKeyType(d.vms[i].key)
    BY DEF Packable
  <1>2. <<"0">> \in Word /\ <<"self">> \in Word /\ <<"0">> # <<>>
    <2>1. "0" \in Tokens /\ "self" \in Tokens
      BY TokensAssumption DEF Marks
    <2> QED BY <2>1, ShortWords
  <1>3. Self \in KeyText /\ Len(Self) = 1
    BY <1>2, JustText DEF Self
  <1>4. CASE d.vms[i] = IdentityMethod
    <2>1. /\ IdentityMethod.id = <<"self", Just(<<"0">>)>> /\ IdentityMethod.key = IdentityKey
          /\ IdentityMethod.alg = DefaultAlg(IdentityKey) /\ IdentityMethod.controller = Self
      BY DEF IdentityMethod
    <2>2. Unqualified(<<"self", Just(<<"0">>)>>) = Just(<<"0">>)
      BY DEF Unqualified
    <2>3. DefaultAlg(IdentityKey) \in KeyText /\ Len(DefaultAlg(IdentityKey)) = 1
      <3>1. <<"alg", IdentityKey[1]>> \in Word
        <4>1. "alg" \in Tokens /\ IdentityKey[1] \in Tokens
          BY IdentityAssumption, KeyTokens, TokensAssumption DEF Marks
        <4> QED BY <4>1, ShortWords
      <3> QED BY <3>1, JustText DEF DefaultAlg
    <2> QED BY <1>1, <1>2, <1>3, <1>4, <2>1, <2>2, <2>3, IdentityAssumption DEF Recordable
  <1>5. CASE d.vms[i] # IdentityMethod
    <2>1. PICK vm : Acceptable(vm) /\ d.vms[i] = DocMethod(vm)
      BY <1>5, MethodOfDoc
    <2>2. /\ d.vms[i].id = Qualified(vm) /\ d.vms[i].key = vm.key /\ d.vms[i].alg = vm.alg
          /\ d.vms[i].controller = IF vm.controller = Empty THEN Self ELSE vm.controller
      <3>1. /\ DocMethod(vm).id = Qualified(vm) /\ DocMethod(vm).key = vm.key
            /\ DocMethod(vm).alg = vm.alg
            /\ DocMethod(vm).controller = IF vm.controller = Empty THEN Self ELSE vm.controller
        BY DEF DocMethod
      <3> QED BY <2>1, <3>1
    <2>3. /\ vm.key \in Keys /\ vm.alg \in KeyText /\ vm.controller \in KeyText
          /\ Len(vm.alg) = 1 /\ Len(vm.controller) = 1
      BY <2>1 DEF Acceptable, Method
    <2>4. \E word \in Word : word # <<>> /\ Unqualified(Qualified(vm)) = Just(word)
      BY <2>1, NameOfMethod DEF IsName
    <2> QED BY <1>1, <1>3, <2>2, <2>3, <2>4 DEF Recordable
  <1> QED BY <1>4, <1>5

\* The reader's name is the record's, but for the identity key.
LEMMA ReadNameIs ==
    ASSUME NEW o \in Options, ~ CreateFails(o), WellNamed(o), NEW d, IsDoc(d, o), Packable(d),
           NEW i \in DOMAIN d.vms
    PROVE  ReadName(d, i) = IF d.vms[i].key = IdentityKey THEN Just(<<"0">>)
                            ELSE Unqualified(d.vms[i].id)
  BY DocIsRecordable, NameReads DEF ReadName

\* A reader confuses two methods only if they have one key or one id.
LEMMA ReadNameTells ==
    ASSUME NEW o \in Options, ~ CreateFails(o), WellNamed(o), NEW d, IsDoc(d, o), Packable(d),
           NEW i \in DOMAIN d.vms, NEW j \in DOMAIN d.vms, ReadName(d, i) = ReadName(d, j)
    PROVE  d.vms[i].key = d.vms[j].key \/ d.vms[i].id = d.vms[j].id
  <1>1. \A k \in DOMAIN d.vms : ReadName(d, k) = IF d.vms[k].key = IdentityKey THEN Just(<<"0">>)
                                                  ELSE Unqualified(d.vms[k].id)
    BY ReadNameIs
  <1>2. ASSUME NEW k \in DOMAIN d.vms, d.vms[k].key # IdentityKey
        PROVE  \E vm : Acceptable(vm) /\ d.vms[k].id = Qualified(vm)
    <2>1. PICK vm : Acceptable(vm) /\ d.vms[k] = DocMethod(vm)
      BY <1>2, MethodOfDoc DEF IdentityMethod
    <2>2. DocMethod(vm).id = Qualified(vm)
      BY DEF DocMethod
    <2> QED BY <2>1, <2>2
  <1>3. CASE d.vms[i].key = IdentityKey /\ d.vms[j].key = IdentityKey
    BY <1>3
  <1>4. CASE d.vms[i].key # IdentityKey /\ d.vms[j].key # IdentityKey
    <2>1. PICK vm : Acceptable(vm) /\ d.vms[i].id = Qualified(vm)
      BY <1>2, <1>4
    <2>2. PICK wm : Acceptable(wm) /\ d.vms[j].id = Qualified(wm)
      BY <1>2, <1>4
    <2>3. Unqualified(Qualified(vm)) = Unqualified(Qualified(wm))
      BY <1>1, <1>4, <2>1, <2>2
    <2> QED BY <2>1, <2>2, <2>3, NameTellsId
  <1>5. CASE d.vms[i].key = IdentityKey /\ d.vms[j].key # IdentityKey
    <2>1. PICK wm : Acceptable(wm) /\ d.vms[j].id = Qualified(wm)
      BY <1>2, <1>5
    <2>2. Unqualified(Qualified(wm)) = Just(<<"0">>)
      BY <1>1, <1>5, <2>1
    <2> QED BY <2>1, <2>2, NameOfMethod, JustTells DEF IsName
  <1>6. CASE d.vms[i].key # IdentityKey /\ d.vms[j].key = IdentityKey
    <2>1. PICK vm : Acceptable(vm) /\ d.vms[i].id = Qualified(vm)
      BY <1>2, <1>6
    <2>2. Unqualified(Qualified(vm)) = Just(<<"0">>)
      BY <1>1, <1>6, <2>1
    <2> QED BY <2>1, <2>2, NameOfMethod, JustTells DEF IsName
  <1> QED BY <1>3, <1>4, <1>5, <1>6

\* A reader has the keys of the document.
LEMMA ReadKeyIs ==
    ASSUME NEW o \in Options, ~ CreateFails(o), WellNamed(o), NEW d, IsDoc(d, o), Packable(d),
           NEW g, IsRead(g, d), NEW i \in DOMAIN d.vms
    PROVE  g.vms[i].key = d.vms[i].key
  <1>1. g.vms[i] = ReadMethod(KeyRecord(d.vms[i]))
    BY DEF IsRead
  <1>2. ReadKey(KeyRecord(d.vms[i])) = d.vms[i].key
    BY DocIsRecordable, KeyReads
  <1>3. \A r : ReadMethod(r).key = ReadKey(r)
    BY DEF ReadMethod
  <1> QED BY <1>1, <1>2, <1>3

\* The keys a reader lets act are keys that the document does.
LEMMA ReaderKeys ==
    ASSUME NEW o \in Options, ~ CreateFails(o), WellNamed(o), NEW d, IsDoc(d, o), Packable(d),
           NEW g, IsRead(g, d), NEW p \in Purposes
    PROVE  KeysFor(g, p) \subseteq KeysFor(d, p)
  <1>1. SUFFICES ASSUME NEW i \in DOMAIN g.vms, g.vms[i].id \in ToSet(g.rel[p])
                 PROVE  g.vms[i].key \in KeysFor(d, p)
    BY DEF KeysFor
  <1>2. i \in DOMAIN d.vms /\ g.vms[i].key = d.vms[i].key
    <2>1. i \in DOMAIN d.vms
      BY DEF IsRead
    <2> QED BY <2>1, ReadKeyIs
  <1>3. PICK k \in DOMAIN g.rel[p] : g.vms[i].id = g.rel[p][k]
    BY <1>1 DEF ToSet
  <1>4. k \in DOMAIN d.rel[p]
    BY DEF IsRead
  <1>5. PICK m : /\ m = KeyLookup(d, d.rel[p][k]) /\ m \in DOMAIN d.vms
                 /\ d.vms[m].id = d.rel[p][k]
    <2>1. PICK j \in DOMAIN d.vms : d.rel[p][k] = d.vms[j].id
      BY <1>4, ListNames
    <2>2. IsList(d.vms)
      BY DEF IsDoc
    <2> QED BY <2>1, <2>2, KeyLookupFinds
  <1>6. ReadName(d, i) = ReadName(d, m)
    <2>1. g.vms[i].id = <<"self", ReadName(d, i)>>
      BY <1>2 DEF IsRead
    <2>2. g.rel[p][k] = <<"self", ReadName(d, m)>>
      BY <1>4, <1>5 DEF IsRead
    <2>3. \A a, b : <<"self", a>> = <<"self", b>> => a = b
      OBVIOUS
    <2> QED BY <1>3, <2>1, <2>2, <2>3
  <1>7. d.vms[i].key = d.vms[m].key \/ d.vms[i].id = d.vms[m].id
    BY <1>2, <1>5, <1>6, ReadNameTells
  <1>8. d.vms[m].id \in ToSet(d.rel[p])
    BY <1>4, <1>5 DEF ToSet
  <1> QED BY <1>2, <1>5, <1>7, <1>8 DEF KeysFor

\* And it is all of them, if every method has an id of its own.
LEMMA ReaderKeysAll ==
    ASSUME NEW o \in Options, ~ CreateFails(o), WellNamed(o), NEW d, IsDoc(d, o), Packable(d),
           NEW g, IsRead(g, d), NEW p \in Purposes,
           IsInjective([i \in DOMAIN d.vms |-> d.vms[i].id])
    PROVE  KeysFor(d, p) \subseteq KeysFor(g, p)
  <1>1. SUFFICES ASSUME NEW j \in DOMAIN d.vms, d.vms[j].id \in ToSet(d.rel[p])
                 PROVE  d.vms[j].key \in KeysFor(g, p)
    BY DEF KeysFor
  <1>2. PICK k \in DOMAIN d.rel[p] : d.vms[j].id = d.rel[p][k]
    BY <1>1 DEF ToSet
  <1>3. PICK m : m = KeyLookup(d, d.vms[j].id) /\ m \in DOMAIN d.vms /\ d.vms[m].id = d.vms[j].id
    BY KeyLookupFinds DEF IsDoc
  <1>4. m = j
    BY <1>3 DEF IsInjective
  <1>5. g.rel[p][k] = <<"self", ReadName(d, j)>> /\ k \in DOMAIN g.rel[p]
    <2>1. j = KeyLookup(d, d.rel[p][k])
      BY <1>2, <1>3, <1>4
    <2>2. g.rel[p] = [l \in DOMAIN d.rel[p] |-> g.rel[p][l]]
      BY DEF IsRead
    <2>3. DOMAIN g.rel[p] = DOMAIN d.rel[p]
      BY <2>2
    <2> QED BY <2>1, <2>3 DEF IsRead
  <1>6. /\ j \in DOMAIN g.vms /\ g.vms[j].id = <<"self", ReadName(d, j)>>
        /\ g.vms[j].key = d.vms[j].key
    <2>1. j \in DOMAIN g.vms /\ g.vms[j].id = <<"self", ReadName(d, j)>>
      BY DEF IsRead
    <2> QED BY <2>1, ReadKeyIs
  <1>7. g.vms[j].id \in ToSet(g.rel[p])
    BY <1>5, <1>6 DEF ToSet
  <1> QED BY <1>6, <1>7 DEF KeysFor

-------------------------------------------------------------------------------
(* Texts                                                                    *)

\* Texts without a separator are the items of their list.
LEMMA PlainItems ==
    ASSUME NEW texts \in Seq(Text), \A i \in DOMAIN texts : IsPlain(texts[i])
    PROVE  SplitItems(texts) = texts
  <1>1. SplitItems(texts) = FlattenSeq([i \in DOMAIN texts |-> <<texts[i]>>])
    BY DEF SplitItems, IsPlain
  <1> QED BY <1>1, FlattenSingletons

\* And they are the value of their field.
LEMMA PlainValue ==
    ASSUME NEW texts \in Seq(Text), \A i \in DOMAIN texts : IsPlain(texts[i])
    PROVE  FieldValue(texts) = texts
  <1>1. DOMAIN texts = 1 .. Len(texts)
    BY LenProperties
  <1>2. {i \in 1 .. Len(texts) : texts[i].sep = ";"} = {}
    BY <1>1 DEF IsPlain
  <1>3. FieldValue(texts) = SplitItems(texts)
    BY <1>1, <1>2 DEF FieldValue, SelectInSeq, IsPlain
  <1> QED BY <1>3, PlainItems

\* A text without a separator is its field's value, and not empty.
LEMMA PlainText ==
    ASSUME NEW text, IsPlain(text)
    PROVE  FieldText(text) = text /\ text # EmptyText
  <1>1. text.sep = "" /\ text.words # <<>> /\ EmptyText.words = <<>>
    BY DEF IsPlain, EmptyText
  <1> QED BY <1>1 DEF FieldText

\* So a list of such texts is not taken to be absent.
LEMMA PlainPresent ==
    ASSUME NEW texts \in Seq(Text), \A i \in DOMAIN texts : IsPlain(texts[i])
    PROVE  OrNone(texts) = texts
  <1>1. CASE texts = <<EmptyText>>
    <2>1. Len(texts) = 1 /\ texts[1] = EmptyText
      BY <1>1
    <2>2. 1 \in DOMAIN texts
      BY <2>1, LenProperties
    <2> QED BY <2>1, <2>2, PlainText
  <1>2. CASE texts # <<EmptyText>>
    BY <1>2 DEF OrNone
  <1> QED BY <1>1, <1>2

\* A list that is one record, or none if it is empty.
LEMMA OneList ==
    ASSUME NEW T, NEW list \in Seq(T), NEW record, NEW f,
           f = [i \in DOMAIN Maybe(list # <<>>, record) |-> list]
    PROVE  FlattenSeq(f) = list
  <1>1. CASE list = <<>>
    <2>1. f = <<>>
      BY <1>1 DEF Maybe
    <2> QED BY <1>1, <2>1, FlattenEmpty
  <1>2. CASE list # <<>>
    <2>1. f = <<list>>
      BY <1>2 DEF Maybe
    <2>2. <<list>> = Append(<<>>, list) /\ <<>> \in Seq(Seq(T))
      OBVIOUS
    <2>3. FlattenSeq(Append(<<>>, list)) = FlattenSeq(<<>>) \o list
      BY <2>2, FlattenAppend
    <2>4. <<>> \o list = list
      BY ConcatEmptySeq
    <2> QED BY <2>1, <2>2, <2>3, <2>4, FlattenEmpty
  <1> QED BY <1>1, <1>2

-------------------------------------------------------------------------------
(* There and back                                                           *)

\* A simple document's methods keep their ids.
LEMMA SimpleNames ==
    ASSUME NEW o \in Options, ~ CreateFails(o), WellNamed(o), Simple(o), NEW d, IsDoc(d, o),
           Packable(d), NEW i \in DOMAIN d.vms
    PROVE  <<"self", ReadName(d, i)>> = d.vms[i].id
  <1>1. ReadName(d, i) = IF d.vms[i].key = IdentityKey THEN Just(<<"0">>)
                         ELSE Unqualified(d.vms[i].id)
    BY ReadNameIs
  <1>2. CASE d.vms[i] = IdentityMethod
    BY <1>1, <1>2 DEF IdentityMethod
  <1>3. CASE d.vms[i] # IdentityMethod
    <2>1. PICK k \in DOMAIN o.vms : Acceptable(o.vms[k]) /\ d.vms[i] = DocMethod(o.vms[k])
      BY <1>3, MethodOfDoc
    <2>2. PICK vm : /\ vm = o.vms[k] /\ Acceptable(vm)
                    /\ vm.id[1] # "other" /\ vm.key # IdentityKey
      BY <2>1 DEF Simple
    <2>3. d.vms[i].id = Qualified(vm) /\ d.vms[i].key = vm.key
      <3>1. DocMethod(vm).id = Qualified(vm) /\ DocMethod(vm).key = vm.key
        BY DEF DocMethod
      <3> QED BY <2>1, <2>2, <3>1
    <2>4. Qualified(vm) = <<"self", Unqualified(Qualified(vm))>>
      BY <2>2, NameOfMethod DEF IsName
    <2> QED BY <1>1, <2>2, <2>3, <2>4
  <1> QED BY <1>2, <1>3

\* A method's algorithm and controller, each one word, come back.
LEMMA SimpleParts ==
    ASSUME NEW vm, Recordable(vm), IsJust(vm.alg), IsJust(vm.controller), vm.controller # Empty
    PROVE  LET r == KeyRecord(vm) IN
           /\ ReadMethod(r).alg = IF vm.alg = Empty THEN DefaultAlg(vm.key) ELSE vm.alg
           /\ ReadMethod(r).controller = vm.controller
  <1>1. PICK r : r = KeyRecord(vm)
    OBVIOUS
  <1>2. ReadKey(r) = vm.key
    BY <1>1, KeyReads
  <1>3. PICK a \in Word : vm.alg = Just(a) /\ vm.alg[1][1] = a
    BY JustWord DEF Recordable
  <1>4. PICK c \in Word : vm.controller = Just(c) /\ vm.controller[1][1] = c
    BY JustWord DEF Recordable
  <1>5. Data(r.fields, "a") = IF vm.alg = DefaultAlg(vm.key) THEN <<>> ELSE a
    BY <1>1, <1>3, RecordReads
  <1>6. Data(r.fields, "c") = IF vm.controller = Self THEN <<>> ELSE c
    BY <1>1, <1>4, RecordReads
  <1>7. c # <<>>
    BY <1>4 DEF Empty
  <1>8. vm.alg = Empty <=> a = <<>>
    BY <1>3, JustTells DEF Empty
  <1>9. OrElse(Data(r.fields, "a"), DefaultAlg(vm.key)) =
          IF vm.alg = Empty THEN DefaultAlg(vm.key) ELSE vm.alg
    BY <1>3, <1>5, <1>8 DEF OrElse
  <1>10. OrElse(Data(r.fields, "c"), Self) = vm.controller
    BY <1>4, <1>6, <1>7 DEF OrElse
  <1>11. /\ ReadMethod(r).alg = OrElse(Data(r.fields, "a"), DefaultAlg(ReadKey(r)))
         /\ ReadMethod(r).controller = OrElse(Data(r.fields, "c"), Self)
    BY DEF ReadMethod
  <1> QED BY <1>1, <1>2, <1>9, <1>10, <1>11

\* A simple document's methods come back, with the algorithm spelled out.
LEMMA SimpleMethods ==
    ASSUME NEW o \in Options, ~ CreateFails(o), WellNamed(o), Simple(o), NEW d, IsDoc(d, o),
           Packable(d), NEW i \in DOMAIN d.vms
    PROVE  ReadMethod(KeyRecord(d.vms[i])) =
              [d.vms[i] EXCEPT !.alg = IF @ = Empty THEN DefaultAlg(d.vms[i].key) ELSE @]
  <1>1. PICK vm : vm = d.vms[i]
    OBVIOUS
  <1>2. PICK id, key, alg, controller :
          id = vm.id /\ key = vm.key /\ alg = vm.alg /\ controller = vm.controller
    OBVIOUS
  <1>3. /\ vm = [id |-> vm.id, key |-> vm.key, alg |-> vm.alg, controller |-> vm.controller]
        /\ IsJust(vm.alg) /\ IsJust(vm.controller) /\ vm.controller # Empty
    <2>1. IsJust(Self) /\ Self # Empty
      <3>1. <<"self">> \in Word /\ <<"self">> # <<>>
        <4>1. "self" \in Tokens
          BY TokensAssumption DEF Marks
        <4> QED BY <4>1, ShortWords
      <3> QED BY <3>1, JustText, JustTells DEF Self, Empty
    <2>2. CASE vm = IdentityMethod
      <3>1. IsJust(DefaultAlg(IdentityKey))
        <4>1. <<"alg", IdentityKey[1]>> \in Word
          <5>1. "alg" \in Tokens /\ IdentityKey[1] \in Tokens
            BY IdentityAssumption, KeyTokens, TokensAssumption DEF Marks
          <5> QED BY <5>1, ShortWords
        <4> QED BY <4>1, JustText DEF DefaultAlg
      <3>2. /\ IdentityMethod.alg = DefaultAlg(IdentityKey) /\ IdentityMethod.controller = Self
            /\ IdentityMethod = [id |-> IdentityMethod.id, key |-> IdentityMethod.key,
                  alg |-> IdentityMethod.alg, controller |-> IdentityMethod.controller]
        BY DEF IdentityMethod
      <3> QED BY <2>1, <2>2, <3>1, <3>2
    <2>3. CASE vm # IdentityMethod
      <3>1. PICK k \in DOMAIN o.vms : vm = DocMethod(o.vms[k])
        BY <1>1, <2>3, MethodOfDoc
      <3>2. IsJust(o.vms[k].alg) /\ IsJust(o.vms[k].controller)
        BY DEF Simple
      <3>3. /\ vm = [id |-> vm.id, key |-> vm.key, alg |-> vm.alg, controller |-> vm.controller]
            /\ vm.alg = o.vms[k].alg
            /\ vm.controller = IF o.vms[k].controller = Empty THEN Self ELSE o.vms[k].controller
        BY <3>1 DEF DocMethod
      <3> QED BY <2>1, <3>2, <3>3
    <2> QED BY <2>2, <2>3
  <1>4. vm = [id |-> id, key |-> key, alg |-> alg, controller |-> controller]
    BY <1>2, <1>3
  <1>5. <<"self", VmId(KeyRecord(vm))>> = id
    BY <1>1, <1>2, SimpleNames DEF ReadName
  <1>6. PICK r : r = KeyRecord(vm)
    OBVIOUS
  <1>7. PICK a : a = IF alg = Empty THEN DefaultAlg(key) ELSE alg
    OBVIOUS
  <1>8. Recordable(vm)
    BY <1>1, DocIsRecordable
  <1>9. /\ ReadMethod(r).alg = a /\ ReadMethod(r).controller = controller
        /\ ReadMethod(r).id = id /\ ReadMethod(r).key = key
    <2>1. ReadMethod(r).alg = a /\ ReadMethod(r).controller = controller
      BY <1>2, <1>3, <1>6, <1>7, <1>8, SimpleParts
    <2>2. ReadMethod(r).id = <<"self", VmId(r)>> /\ ReadMethod(r).key = ReadKey(r)
      BY DEF ReadMethod
    <2>3. ReadKey(r) = key
      BY <1>2, <1>6, <1>8, KeyReads
    <2> QED BY <1>5, <1>6, <2>1, <2>2, <2>3
  <1>10. ReadMethod(r) = [id |-> id, key |-> key, alg |-> a, controller |-> controller]
    <2>1. ReadMethod(r) = [id |-> ReadMethod(r).id, key |-> ReadMethod(r).key,
             alg |-> ReadMethod(r).alg, controller |-> ReadMethod(r).controller]
      BY DEF ReadMethod
    <2> QED BY <1>9, <2>1
  <1>11. [vm EXCEPT !.alg = IF @ = Empty THEN DefaultAlg(vm.key) ELSE @] =
          [id |-> id, key |-> key, alg |-> a, controller |-> controller]
    <2>1. [[id |-> id, key |-> key, alg |-> alg, controller |-> controller] EXCEPT !.alg = a]
            = [id |-> id, key |-> key, alg |-> a, controller |-> controller]
      OBVIOUS
    <2>2. [vm EXCEPT !.alg = IF @ = Empty THEN DefaultAlg(vm.key) ELSE @] = [vm EXCEPT !.alg = a]
      BY <1>2, <1>7
    <2> QED BY <1>4, <2>1, <2>2
  <1> QED BY <1>1, <1>6, <1>10, <1>11

\* A simple service comes back, named by the last part of its id.
LEMMA SimpleServices ==
    ASSUME NEW o \in Options, Simple(o), NEW i \in DOMAIN o.services
    PROVE  ReadService(ServiceRecord(o.services[i])) =
              [o.services[i] EXCEPT !.id = <<"hash", @[2]>>]
  <1>1. o.services \in Seq(Service)
    BY DEF Options
  <1>2. PICK s \in Service : s = o.services[i]
    BY <1>1, LenProperties, ElementOfSeq
  <1>3. /\ s.endpoint \in Seq(Text) /\ s.sig \in Seq(Text)
        /\ s.enc \in Seq(Text)
        /\ s = [id |-> s.id, type |-> s.type, endpoint |-> s.endpoint, sig |-> s.sig,
                enc |-> s.enc]
    BY DEF Service
  <1>4. /\ IsPlain(s.id[2]) /\ IsPlain(s.type) /\ s.endpoint # <<>>
        /\ \A t \in ToSet(s.endpoint \o s.sig \o s.enc) : IsPlain(t)
    BY <1>2 DEF Simple
  <1>5. /\ \A k \in DOMAIN s.endpoint : IsPlain(s.endpoint[k])
        /\ \A k \in DOMAIN s.sig : IsPlain(s.sig[k])
        /\ \A k \in DOMAIN s.enc : IsPlain(s.enc[k])
    <2>1. PICK a \in Seq(Text), b \in Seq(Text), c \in Seq(Text) :
             a = s.endpoint /\ b = s.sig /\ c = s.enc
      BY <1>3
    <2>2. \A t \in ToSet(a \o b \o c) : IsPlain(t)
      BY <1>4, <2>1
    <2>3. PICK u \in Seq(Text) : u = a \o b /\ Joins(u, a, b)
      BY Joined
    <2>4. PICK w \in Seq(Text) : w = u \o c /\ Joins(w, u, c)
      BY Joined
    <2>5. PICK n \in Nat, m \in Nat, l \in Nat :
            /\ n = Len(a) /\ DOMAIN a = 1 .. n /\ m = Len(b) /\ DOMAIN b = 1 .. m
            /\ l = Len(c) /\ DOMAIN c = 1 .. l
      BY LenProperties
    <2>6. /\ Len(u) = n + m
          /\ \A k \in 1 .. n : u[k] = a[k]
          /\ \A k \in 1 .. m : u[n + k] = b[k]
      BY <2>3, <2>5 DEF Joins
    <2>7. /\ Len(w) = n + m + l
          /\ \A k \in 1 .. n + m : w[k] = u[k]
          /\ \A k \in 1 .. l : w[n + m + k] = c[k]
      BY <2>4, <2>5, <2>6 DEF Joins
    <2>8. \A k \in 1 .. n + m + l : IsPlain(w[k])
      <3>1. DOMAIN w = 1 .. n + m + l
        BY <2>7, LenProperties
      <3> QED BY <2>2, <2>3, <2>4, <3>1 DEF ToSet
    <2>9. \A k \in 1 .. n : IsPlain(a[k])
      BY <2>6, <2>7, <2>8
    <2>10. ASSUME NEW k \in 1 .. m PROVE IsPlain(b[k])
      <3>1. n + k \in 1 .. n + m
        OBVIOUS
      <3>2. w[n + k] = b[k]
        BY <2>6, <2>7, <3>1
      <3>3. n + k \in 1 .. n + m + l
        OBVIOUS
      <3> QED BY <2>8, <3>2, <3>3
    <2>11. ASSUME NEW k \in 1 .. l PROVE IsPlain(c[k])
      <3>1. n + m + k \in 1 .. n + m + l
        OBVIOUS
      <3> QED BY <2>7, <2>8, <3>1
    <2> QED BY <2>1, <2>5, <2>9, <2>10, <2>11
  <1>6. /\ FieldValue(s.endpoint) = s.endpoint /\ FieldValue(s.sig) = s.sig
        /\ FieldValue(s.enc) = s.enc
    BY <1>3, <1>5, PlainValue
  <1>7. /\ FieldText(s.id[2]) = s.id[2] /\ FieldText(s.type) = s.type
        /\ OrNone(s.sig) = s.sig /\ OrNone(s.enc) = s.enc
    BY <1>3, <1>4, <1>5, PlainText, PlainPresent
  <1>8. ReadService(ServiceRecord(s)) =
          [id |-> <<"hash", s.id[2]>>, type |-> s.type, endpoint |-> s.endpoint,
           sig |-> s.sig, enc |-> s.enc]
    <2>1. PICK r : r = ServiceRecord(s)
      OBVIOUS
    <2>2. /\ r.id = s.id[2] /\ r.type = s.type
          /\ r.endpoint = s.endpoint /\ r.sig = s.sig /\ r.enc = s.enc
      BY <2>1 DEF ServiceRecord
    <2>3. (IF FieldValue(r.endpoint) = <<>> THEN <<EmptyText>> ELSE FieldValue(r.endpoint))
             = s.endpoint
      BY <1>4, <1>6, <2>2
    <2> QED BY <1>6, <1>7, <2>1, <2>2, <2>3 DEF ReadService
  <1>9. [s EXCEPT !.id = <<"hash", @[2]>>] =
          [id |-> <<"hash", s.id[2]>>, type |-> s.type, endpoint |-> s.endpoint,
           sig |-> s.sig, enc |-> s.enc]
    <2>1. PICK id, type, endpoint, sig, enc :
            /\ id = s.id /\ type = s.type /\ endpoint = s.endpoint /\ sig = s.sig /\ enc = s.enc
      OBVIOUS
    <2>2. s = [id |-> id, type |-> type, endpoint |-> endpoint, sig |-> sig, enc |-> enc]
      BY <1>3, <2>1
    <2>3. [s EXCEPT !.id = <<"hash", @[2]>>] =
            [id |-> <<"hash", id[2]>>, type |-> type, endpoint |-> endpoint, sig |-> sig,
             enc |-> enc]
      BY <2>2
    <2> QED BY <2>1, <2>3
  <1> QED BY <1>2, <1>8, <1>9

\* What is read from a list that is one record is the list.
LEMMA ListReads ==
    ASSUME NEW texts \in Seq(Text), \A i \in DOMAIN texts : IsPlain(texts[i]), NEW kind,
           NEW rs, rs = Maybe(texts # <<>>, [name |-> kind, texts |-> texts])
    PROVE  FlattenSeq(Each(rs, LAMBDA r : SplitItems(r.texts))) = texts
  <1>1. PICK record : record = [name |-> kind, texts |-> texts] /\ record.texts = texts
    <2>1. [name |-> kind, texts |-> texts].texts = texts
      OBVIOUS
    <2> QED BY <2>1
  <1>2. SplitItems(texts) = texts
    BY PlainItems
  <1>3. \A i \in DOMAIN rs : rs[i] = record
    BY <1>1 DEF Maybe
  <1>4. PICK f : f = Each(rs, LAMBDA r : SplitItems(r.texts))
    OBVIOUS
  <1>5. f = [i \in DOMAIN rs |-> texts]
    BY <1>1, <1>2, <1>3, <1>4 DEF Each
  <1>6. f = [i \in DOMAIN Maybe(texts # <<>>, record) |-> texts]
    BY <1>1, <1>5
  <1> QED BY <1>4, <1>6, OneList

\* A simple document's lists come back, and what was packed with it.
LEMMA PartsReadBack ==
    ASSUME NEW o \in Options, Simple(o), NEW d, IsDoc(d, o), NEW q, Records(q, d, o),
           NEW g, g = FromDNSPacket(q)
    PROVE  /\ g.controller = d.controller /\ g.aka = d.aka
           /\ g.gateways = o.gateways /\ g.types = o.types /\ g.previous = o.previous
  <1>1. /\ o.controller \in Seq(Text) /\ o.aka \in Seq(Text) /\ o.gateways \in Seq(Text)
        /\ o.types \in Seq(Nat) /\ o.previous \in Seq(Previous)
    BY DEF Options
  <1>2. g.controller = d.controller
    <2>1. PICK rs : /\ rs = Named(q, "controller")
                    /\ rs = Maybe(o.controller # <<>>,
                                  [name |-> "controller", texts |-> o.controller])
      BY DEF Records, IsDoc
    <2>2. FlattenSeq(Each(rs, LAMBDA r : SplitItems(r.texts))) = o.controller
      BY <1>1, <2>1, ListReads DEF Simple
    <2> QED BY <2>1, <2>2 DEF FromDNSPacket, IsDoc
  <1>3. g.aka = d.aka
    <2>1. PICK rs : /\ rs = Named(q, "aka")
                    /\ rs = Maybe(o.aka # <<>>, [name |-> "aka", texts |-> o.aka])
      BY DEF Records, IsDoc
    <2>2. FlattenSeq(Each(rs, LAMBDA r : SplitItems(r.texts))) = o.aka
      BY <1>1, <2>1, ListReads DEF Simple
    <2> QED BY <2>1, <2>2 DEF FromDNSPacket, IsDoc
  <1>4. g.gateways = o.gateways
    <2>1. PICK rs : /\ rs = Named(q, "gateway")
                    /\ rs = [i \in DOMAIN o.gateways |->
                               [name |-> "gateway", text |-> o.gateways[i]]]
      BY DEF Records
    <2>2. g.gateways = [i \in DOMAIN rs |-> rs[i].text]
      BY <2>1 DEF FromDNSPacket, Each
    <2>3. g.gateways = [i \in DOMAIN o.gateways |-> o.gateways[i]]
      BY <2>1, <2>2
    <2>4. o.gateways = [i \in DOMAIN o.gateways |-> o.gateways[i]]
      BY <1>1, LenProperties
    <2> QED BY <2>3, <2>4
  <1>5. g.previous = o.previous
    <2>1. PICK rs : /\ rs = Named(q, "previous")
                    /\ rs = [i \in DOMAIN o.previous |->
                               [name |-> "previous", did |-> o.previous[i]]]
      BY DEF Records
    <2>2. g.previous = [i \in DOMAIN rs |-> rs[i].did]
      BY <2>1 DEF FromDNSPacket, Each
    <2>3. g.previous = [i \in DOMAIN o.previous |-> o.previous[i]]
      BY <2>1, <2>2
    <2>4. o.previous = [i \in DOMAIN o.previous |-> o.previous[i]]
      BY <1>1, LenProperties
    <2> QED BY <2>3, <2>4
  <1>6. g.types = o.types
    <2>1. PICK record : record = [name |-> "types", types |-> o.types] /\ record.types = o.types
      <3>1. [name |-> "types", types |-> o.types].types = o.types
        OBVIOUS
      <3> QED BY <3>1
    <2>2. PICK rs : rs = Named(q, "types") /\ rs = Maybe(o.types # <<>>, record)
      BY <2>1 DEF Records
    <2>3. \A i \in DOMAIN rs : rs[i] = record
      BY <2>2 DEF Maybe
    <2>4. PICK f : f = [i \in DOMAIN rs |-> rs[i].types]
      OBVIOUS
    <2>5. f = [i \in DOMAIN Maybe(o.types # <<>>, record) |-> o.types]
      BY <2>1, <2>2, <2>3, <2>4
    <2>6. g.types = FlattenSeq(f)
      BY <2>2, <2>4 DEF FromDNSPacket, Each
    <2> QED BY <1>1, <2>5, <2>6, OneList
  <1> QED BY <1>2, <1>3, <1>4, <1>5, <1>6

\* Methods, lists and services, as RoundTrip wants them back.
MethodsBack(g, d) ==
    /\ g.rel = d.rel
    /\ g.vms = [i \in DOMAIN d.vms |->
                  [d.vms[i] EXCEPT !.alg = IF @ = Empty THEN DefaultAlg(d.vms[i].key) ELSE @]]
    /\ g.services = [i \in DOMAIN d.services |->
                       [d.services[i] EXCEPT !.id = <<"hash", @[2]>>]]

\* A simple document's methods, lists and services come back.
LEMMA MethodsReadBack ==
    ASSUME NEW o \in Options, ~ CreateFails(o), WellNamed(o), Simple(o),
           NEW d, IsDoc(d, o), Packable(d), NEW q, Records(q, d, o),
           NEW g, g = FromDNSPacket(q)
    PROVE  MethodsBack(g, d)
  <1>1. IsRead(g, d)
    BY ReaderReads
  <1>2. g.rel = d.rel
    <2>1. ASSUME NEW p \in Purposes PROVE g.rel[p] = d.rel[p]
      <3>1. ASSUME NEW k \in DOMAIN d.rel[p] PROVE g.rel[p][k] = d.rel[p][k]
        <4>1. PICK j \in DOMAIN d.vms : d.rel[p][k] = d.vms[j].id
          BY ListNames
        <4>2. IsList(d.vms)
          BY DEF IsDoc
        <4>3. PICK m : /\ m = KeyLookup(d, d.rel[p][k]) /\ m \in DOMAIN d.vms
                       /\ d.vms[m].id = d.rel[p][k]
          BY <4>1, <4>2, KeyLookupFinds
        <4>4. g.rel[p][k] = <<"self", ReadName(d, m)>>
          BY <1>1, <4>3 DEF IsRead
        <4> QED BY <4>3, <4>4, SimpleNames
      <3>2. PICK T : d.rel[p] \in Seq(T)
        BY DEF IsDoc
      <3>3. d.rel[p] = [k \in DOMAIN d.rel[p] |-> d.rel[p][k]]
        BY <3>2, LenProperties
      <3>4. g.rel[p] = [k \in DOMAIN d.rel[p] |-> g.rel[p][k]]
        BY <1>1 DEF IsRead
      <3> QED BY <3>1, <3>3, <3>4
    <2> QED BY <1>1, <2>1 DEF IsRead, IsDoc
  <1>3. g.vms = [i \in DOMAIN d.vms |->
                   [d.vms[i] EXCEPT !.alg = IF @ = Empty THEN DefaultAlg(d.vms[i].key) ELSE @]]
    <2>1. g.vms = [i \in DOMAIN d.vms |-> g.vms[i]]
      BY <1>1 DEF IsRead
    <2>2. ASSUME NEW i \in DOMAIN d.vms
          PROVE  g.vms[i] =
                   [d.vms[i] EXCEPT !.alg = IF @ = Empty THEN DefaultAlg(d.vms[i].key) ELSE @]
      <3>1. g.vms[i] = ReadMethod(KeyRecord(d.vms[i]))
        BY <1>1 DEF IsRead
      <3> QED BY <3>1, SimpleMethods
    <2> QED BY <2>1, <2>2
  <1>4. g.services = [i \in DOMAIN d.services |->
                        [d.services[i] EXCEPT !.id = <<"hash", @[2]>>]]
    <2>1. PICK rs : rs = Named(q, "service")
      OBVIOUS
    <2>2. rs = [i \in DOMAIN o.services |-> ServiceRecord(o.services[i])]
      BY <2>1 DEF Records, IsDoc
    <2>3. g.services = [i \in DOMAIN rs |-> ReadService(rs[i])]
      BY <2>1 DEF FromDNSPacket, Each
    <2>4. g.services = [i \in DOMAIN o.services |-> ReadService(ServiceRecord(o.services[i]))]
      BY <2>2, <2>3
    <2>5. \A i \in DOMAIN o.services : ReadService(ServiceRecord(o.services[i])) =
                                          [o.services[i] EXCEPT !.id = <<"hash", @[2]>>]
      BY SimpleServices
    <2> QED BY <2>4, <2>5 DEF IsDoc
  <1> QED BY <1>2, <1>3, <1>4 DEF MethodsBack

-------------------------------------------------------------------------------
(* The invariant                                                            *)

\* The document is the input's, the packet is the document's and what was read is the
\* packet's.
IInv ==
    /\ input \in Inputs
    /\ stage \in {"options", "refused", "created", "unpackable", "packed", "panicked",
                  "unreadable", "read"}
    /\ stage \in {"created", "unpackable", "packed", "panicked", "unreadable", "read"} =>
          ~ CreateFails(input) /\ doc = CreateDIDDHTDID(input)
    /\ stage \in {"packed", "panicked", "unreadable", "read"} =>
          ~ PacketFails(doc, input) /\ packet = ToDNSPacket(doc, input)
    /\ stage = "read" => got = FromDNSPacket(packet)

\* It holds at the start and after every step, with records as ToDNSPacket writes them.
LEMMA Invariance ==
    ASSUME Orders = {"packed"}
    PROVE  Spec => []IInv
  <1>1. Init => IInv
    BY DEF Init, IInv
  <1>2. IInv /\ [Next]_vars => IInv'
    <2> SUFFICES ASSUME IInv, [Next]_vars PROVE IInv'
      OBVIOUS
    <2>1. CASE Create
      BY <2>1 DEF IInv, Create
    <2>2. CASE Publish
      <3>1. \A order \in Orders : Ordered(ToDNSPacket(doc, input), order) = ToDNSPacket(doc, input)
        BY DEF Ordered
      <3> QED BY <2>2, <3>1 DEF IInv, Publish
    <2>3. CASE Read
      <3>1. /\ stage = "packed" /\ UNCHANGED <<input, doc, packet>>
            /\ \/ stage' = "panicked" \/ stage' = "unreadable"
               \/ stage' = "read" /\ got' = FromDNSPacket(packet)
        BY <2>3, Zenon DEF Read
      <3> QED BY <3>1 DEF IInv
    <2>4. CASE UNCHANGED vars
      BY <2>4 DEF IInv, vars
    <2> QED BY <2>1, <2>2, <2>3, <2>4 DEF Next
  <1> QED BY <1>1, <1>2, PTL DEF Spec

\* When a packet has been read, it is the packet of a document made from the input.
LEMMA ReadState ==
    ASSUME IInv, stage = "read"
    PROVE  /\ input \in Options /\ ~ CreateFails(input) /\ IsDoc(doc, input)
           /\ Records(packet, doc, input) /\ got = FromDNSPacket(packet) /\ IsRead(got, doc)
           /\ Packable(doc)
  <1>1. /\ input \in Options /\ ~ CreateFails(input) /\ doc = CreateDIDDHTDID(input)
        /\ packet = ToDNSPacket(doc, input) /\ got = FromDNSPacket(packet)
    BY InputsAssumption DEF IInv
  <1>2. IsDoc(doc, input)
    BY <1>1, CreateMakesDoc
  <1>3. Records(packet, doc, input)
    <2>1. IsList(input.previous) /\ IsList(input.gateways) /\ IsList(input.services)
      BY <1>1 DEF Options, IsList
    <2>2. IsList(doc.vms) /\ IsList(doc.services)
      BY <1>2, <2>1 DEF IsDoc
    <2> QED BY <1>1, <2>1, <2>2, PacketRecords
  <1>4. Packable(doc)
    BY DEF IInv, PacketFails, Packable
  <1> QED BY <1>1, <1>2, <1>3, <1>4, ReaderReads

-------------------------------------------------------------------------------
(* Theorems                                                                 *)

\* ReferencesResolve, for any options, keys and texts: the numbers that ToDNSPacket puts
\* into the root record are those under which FromDNSPacket knows the keys, whatever else
\* the packet holds.  The records must be in ToDNSPacket's order.
THEOREM ReadReferencesResolve ==
    ASSUME Orders = {"packed"}
    PROVE  Spec => []ReferencesResolve
  <1>1. IInv => ReferencesResolve
    <2> SUFFICES ASSUME IInv, stage = "read"
                 PROVE  \A p \in Purposes : \A id \in ToSet(got.rel[p]) :
                           \E i \in DOMAIN got.vms : got.vms[i].id = id
      BY DEF ReferencesResolve
    <2> QED BY ReadState, ReadResolves
  <1> QED BY <1>1, Invariance, PTL

\* SameAuthority, for any keys and options whose methods are named as WellNamed says: no
\* key gains a purpose between a document and its reader, and none loses one if the
\* methods' ids differ.
THEOREM ReadGrantsSameAuthority ==
    ASSUME Orders = {"packed"}
    PROVE  Spec => []SameAuthority
  <1>1. IInv => SameAuthority
    <2> SUFFICES ASSUME IInv, stage = "read", WellNamed(input), NEW p \in Purposes
                 PROVE  /\ KeysFor(got, p) \subseteq KeysFor(doc, p)
                        /\ IsInjective([i \in DOMAIN doc.vms |-> doc.vms[i].id]) =>
                              KeysFor(got, p) = KeysFor(doc, p)
      BY DEF SameAuthority
    <2>1. KeysFor(got, p) \subseteq KeysFor(doc, p)
      BY ReadState, ReaderKeys
    <2>2. ASSUME IsInjective([i \in DOMAIN doc.vms |-> doc.vms[i].id])
          PROVE  KeysFor(doc, p) \subseteq KeysFor(got, p)
      BY <2>2, ReadState, ReaderKeysAll
    <2> QED BY <2>1, <2>2
  <1> QED BY <1>1, Invariance, PTL

\* RoundTrip, for any options, keys and texts without separators: what is read is what
\* was written.
THEOREM PacketsReadBack ==
    ASSUME Orders = {"packed"}
    PROVE  Spec => []RoundTrip
  <1>1. IInv => RoundTrip
    <2> SUFFICES ASSUME IInv, stage = "read", Simple(input), WellNamed(input) PROVE RoundTrip
      BY DEF RoundTrip
    <2>1. /\ input \in Options /\ ~ CreateFails(input) /\ IsDoc(doc, input)
          /\ Packable(doc) /\ Records(packet, doc, input) /\ got = FromDNSPacket(packet)
      BY ReadState
    <2>2. /\ got.controller = doc.controller /\ got.aka = doc.aka
          /\ got.gateways = input.gateways /\ got.types = input.types
          /\ got.previous = input.previous
      BY <2>1, PartsReadBack
    <2>3. MethodsBack(got, doc)
      BY <2>1, MethodsReadBack
    <2> QED BY <2>2, <2>3 DEF RoundTrip, MethodsBack
  <1> QED BY <1>1, Invariance, PTL

===============================================================================
