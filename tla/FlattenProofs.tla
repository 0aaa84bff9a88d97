----------------------------- MODULE FlattenProofs -----------------------------
(***************************************************************************)
(* What FlattenSeq of SequencesExt computes.  Induction takes the form of a *)
(* set that contains the empty sequence and is closed under Append.         *)
(***************************************************************************)
EXTENDS Integers, Sequences, SequencesExt, SequenceTheorems, WellFoundedInduction, TLAPS

\* A set of numbers that holds 0 and every successor of a member holds them all.
LEMMA SetInduction ==
    ASSUME NEW N \in SUBSET Nat, 0 \in N, \A n \in N : n + 1 \in N
    PROVE  N = Nat
  <1> DEFINE Bad == Nat \ N
  <1>1. SUFFICES ASSUME Bad # {} PROVE FALSE
    OBVIOUS
  <1>2. PICK n \in Bad : \A m \in Bad : ~ (<<m, n>> \in OpToRel(<, Nat))
    <2>1. Bad \subseteq Nat
      OBVIOUS
    <2> HIDE DEF Bad
    <2> QED BY <1>1, <2>1, NatLessThanWellFounded, WFMin
  <1>3. n \in Nat /\ n # 0 /\ n - 1 \in Nat /\ n - 1 < n
    OBVIOUS
  <1>4. <<n - 1, n>> \in OpToRel(<, Nat)
    BY <1>3, Zenon DEF OpToRel
  <1>5. n - 1 \in N
    BY <1>2, <1>3, <1>4
  <1> QED BY <1>3, <1>5

\* What one more element at the end makes of a sequence.
LEMMA IsAppend ==
    ASSUME NEW T, NEW r \in Seq(T), NEW x \in T, NEW s \in Seq(T), Len(s) = Len(r) + 1,
           \A i \in 1 .. Len(r) : s[i] = r[i], s[Len(r) + 1] = x
    PROVE  s = Append(r, x)
  <1>1. Append(r, x) \in Seq(T) /\ Len(Append(r, x)) = Len(s)
    BY AppendProperties
  <1>2. ASSUME NEW i \in 1 .. Len(s) PROVE s[i] = Append(r, x)[i]
    <2>1. i \in 1 .. Len(r) \/ i = Len(r) + 1
      BY LenProperties
    <2> QED BY <2>1, AppendProperties
  <1> QED BY <1>1, <1>2, SeqEqual

\* What two sequences make, one after the other.
Joins(u, s, t) ==
    /\ Len(u) = Len(s) + Len(t)
    /\ \A i \in 1 .. Len(s) : u[i] = s[i]
    /\ \A i \in 1 .. Len(t) : u[Len(s) + i] = t[i]

\* That is what the concatenation is.
LEMMA Joined ==
    ASSUME NEW T, NEW s \in Seq(T), NEW t \in Seq(T)
    PROVE  \E u \in Seq(T) : u = s \o t /\ Joins(u, s, t)
  <1>1. PICK u : u = s \o t
    OBVIOUS
  <1>2. PICK n \in Nat, m \in Nat : n = Len(s) /\ m = Len(t)
    BY LenProperties
  <1>3. /\ u \in Seq(T) /\ Len(u) = Len(s) + Len(t)
        /\ \A i \in 1 .. Len(s) + Len(t) : u[i] = IF i <= Len(s) THEN s[i] ELSE t[i - Len(s)]
    BY ONLY s \in Seq(T), t \in Seq(T), <1>1, ConcatProperties
  <1>4. \A i \in 1 .. n + m : u[i] = IF i <= n THEN s[i] ELSE t[i - n]
    BY <1>2, <1>3
  <1>5. ASSUME NEW i \in 1 .. m PROVE u[n + i] = t[i]
    <2>1. PICK j \in 1 .. n + m : j = n + i /\ ~ (j <= n) /\ j - n = i
      OBVIOUS
    <2> QED BY <1>4, <2>1
  <1>6. ASSUME NEW i \in 1 .. n PROVE u[i] = s[i]
    BY <1>4
  <1>7. Joins(u, s, t)
    BY <1>2, <1>3, <1>5, <1>6 DEF Joins
  <1> QED BY <1>1, <1>3, <1>7

\* Every sequence is built from the empty one with Append.
LEMMA SequenceInduction ==
    ASSUME NEW T, NEW G \in SUBSET Seq(T),
           <<>> \in G, \A s \in G : \A x \in T : Append(s, x) \in G
    PROVE  G = Seq(T)
  <1> DEFINE N == {n \in Nat : \A s \in Seq(T) : Len(s) = n => s \in G}
  <1>1. 0 \in N
    <2>1. \A s \in Seq(T) : Len(s) = 0 => s = <<>>
      BY EmptySeq, LenProperties
    <2> QED BY <2>1
  <1>2. ASSUME NEW n \in Nat, \A s \in Seq(T) : Len(s) = n => s \in G,
               NEW s \in Seq(T), Len(s) = n + 1
        PROVE  s \in G
    <2> DEFINE r == SubSeq(s, 1, n)
    <2>1. n \in Nat /\ n + 1 \in 1 .. Len(s)
      BY <1>2
    <2>2. r \in Seq(T) /\ Len(r) = n /\ \A i \in 1 .. n : r[i] = s[i]
      <3>1. \A i \in 1 .. n : s[i] \in T
        BY <2>1, ElementOfSeq
      <3> QED BY <3>1, SubSeqProperties
    <2> HIDE DEF r
    <2>3. r \in G /\ s[n + 1] \in T
      BY <1>2, <2>1, <2>2, ElementOfSeq
    <2>4. s = Append(r, s[n + 1])
      <3>1. PICK x \in T : x = s[n + 1]
        BY <2>3
      <3>2. s = Append(r, x)
        BY <1>2, <2>2, <3>1, IsAppend
      <3> QED BY <3>1, <3>2
    <2> QED BY <2>3, <2>4
  <1>3. ASSUME NEW n \in N PROVE n + 1 \in N
    <2>1. n \in Nat /\ \A s \in Seq(T) : Len(s) = n => s \in G
      OBVIOUS
    <2>2. n + 1 \in Nat
      BY <2>1
    <2>3. \A s \in Seq(T) : Len(s) = n + 1 => s \in G
      BY <1>2, <2>1, Zenon
    <2> QED BY <2>2, <2>3
  <1>4. N = Nat
    <2>1. N \subseteq Nat
      OBVIOUS
    <2> HIDE DEF N
    <2> QED BY <1>1, <1>3, <2>1, SetInduction
  <1> QED BY <1>4, LenProperties

-------------------------------------------------------------------------------
(* The recursive function in FlattenSeq                                     *)

\* The equation that FlattenSeq's function solves.
Solves(f, n, ss) == f = [i \in 1 .. n |-> IF i = 1 THEN ss[i] ELSE f[i - 1] \o ss[i]]

\* There is a function that solves it, and its values are sequences over T.
LEMMA SolutionExists ==
    ASSUME NEW T
    PROVE  \A ss \in Seq(Seq(T)) : \E f : Solves(f, Len(ss), ss)
  <1> DEFINE G == {ss \in Seq(Seq(T)) : \E f : Solves(f, Len(ss), ss)}
  <1>1. <<>> \in G
    <2>1. 1 .. 0 = {} /\ Len(<<>>) = 0
      BY EmptySeq
    <2>2. Solves([i \in {} |-> {}], 0, <<>>)
      BY <2>1 DEF Solves
    <2> QED BY <2>1, <2>2, EmptySeq
  <1>2. ASSUME NEW ss \in G, NEW x \in Seq(T) PROVE Append(ss, x) \in G
    <2>1. PICK f : Solves(f, Len(ss), ss)
      OBVIOUS
    <2> DEFINE n == Len(ss)
               tt == Append(ss, x)
               g == [i \in 1 .. n + 1 |->
                       IF i <= n THEN f[i] ELSE IF i = 1 THEN x ELSE f[n] \o x]
    <2>2. n \in Nat /\ tt \in Seq(Seq(T)) /\ Len(tt) = n + 1
          /\ (\A i \in 1 .. n : tt[i] = ss[i]) /\ tt[n + 1] = x
      BY AppendProperties, LenProperties
    <2>3. \A i \in 1 .. n : f[i] = IF i = 1 THEN ss[i] ELSE f[i - 1] \o ss[i]
      BY <2>1 DEF Solves
    <2> HIDE DEF n, tt
    <2>4. ASSUME NEW i \in 1 .. n + 1
          PROVE  g[i] = IF i = 1 THEN tt[i] ELSE g[i - 1] \o tt[i]
      <3>1. CASE i <= n
        <4>1. i \in 1 .. n /\ (i # 1 => i - 1 \in 1 .. n + 1 /\ i - 1 <= n)
          BY <3>1, <2>2
        <4> QED BY <4>1, <2>2, <2>3
      <3>2. CASE ~ (i <= n)
        <4>1. i = n + 1 /\ (i # 1 => i - 1 \in 1 .. n + 1 /\ i - 1 = n /\ n <= n)
          BY <3>2, <2>2
        <4> QED BY <4>1, <2>2
      <3> QED BY <3>1, <3>2
    <2>5. Solves(g, n + 1, tt)
      BY <2>2, <2>4 DEF Solves
    <2> QED BY <2>2, <2>5 DEF tt
  <1>3. G = Seq(Seq(T))
    <2>1. G \subseteq Seq(Seq(T))
      OBVIOUS
    <2> HIDE DEF G
    <2> QED BY <1>1, <1>2, <2>1, SequenceInduction
  <1> QED BY <1>3

\* FlattenSeq is the last value of a solution.
LEMMA FlattenIs ==
    ASSUME NEW T, NEW ss \in Seq(Seq(T))
    PROVE  \/ ss = <<>> /\ FlattenSeq(ss) = <<>>
           \/ Len(ss) > 0 /\ \E f : Solves(f, Len(ss), ss) /\ FlattenSeq(ss) = f[Len(ss)]
  <1>1. CASE Len(ss) = 0
    BY <1>1, EmptySeq DEF FlattenSeq
  <1>2. CASE Len(ss) # 0
    <2>1. PICK g : Solves(g, Len(ss), ss)
      BY SolutionExists
    <2> DEFINE f == CHOOSE h : Solves(h, Len(ss), ss)
    <2>2. Solves(f, Len(ss), ss)
      BY <2>1
    <2>3. FlattenSeq(ss) = f[Len(ss)]
      BY <1>2 DEF FlattenSeq, Solves
    <2>4. Len(ss) > 0
      BY <1>2, LenProperties
    <2> HIDE DEF f
    <2> QED BY <2>2, <2>3, <2>4
  <1> QED BY <1>1, <1>2

\* The values of a solution.
LEMMA SolutionAt ==
    ASSUME NEW n \in Nat, NEW ss, NEW f, Solves(f, n, ss)
    PROVE  /\ n # 0 => f[1] = ss[1]
           /\ \A i \in 1 .. n - 1 : f[i + 1] = f[i] \o ss[i + 1]
  <1>1. \A j \in 1 .. n : f[j] = IF j = 1 THEN ss[j] ELSE f[j - 1] \o ss[j]
    BY DEF Solves
  <1>2. ASSUME NEW i \in 1 .. n - 1 PROVE f[i + 1] = f[i] \o ss[i + 1]
    <2>1. PICK j \in 1 .. n : j = i + 1 /\ j # 1 /\ j - 1 = i
      OBVIOUS
    <2> QED BY <1>1, <2>1
  <1>3. n # 0 => 1 \in 1 .. n
    OBVIOUS
  <1>4. n # 0 => f[1] = ss[1]
    BY <1>1, <1>3
  <1> QED BY <1>2, <1>4

-------------------------------------------------------------------------------
(* FlattenSeq                                                               *)

\* The flattened sequence has the elements' elements, and one element more at the
\* end of a sequence comes at the end of the flattened one.
LEMMA FlattenAppend ==
    ASSUME NEW T, NEW ss \in Seq(Seq(T)), NEW x \in Seq(T)
    PROVE  /\ FlattenSeq(ss) \in Seq(T)
           /\ FlattenSeq(Append(ss, x)) = FlattenSeq(ss) \o x
  <1>1. PICK n \in Nat : n = Len(ss) /\ \A i \in 1 .. n : ss[i] \in Seq(T)
    BY LenProperties, ElementOfSeq
  <1>2. PICK tt : tt = Append(ss, x)
    OBVIOUS
  <1>3. PICK m \in Nat : m = n + 1
    OBVIOUS
  <1>4. /\ tt \in Seq(Seq(T)) /\ tt # <<>> /\ Len(tt) = m /\ tt[m] = x
        /\ \A i \in 1 .. n : tt[i] = ss[i]
    <2>1. /\ tt \in Seq(Seq(T)) /\ tt # <<>> /\ Len(tt) = Len(ss) + 1 /\ tt[Len(ss) + 1] = x
          /\ \A i \in 1 .. Len(ss) : tt[i] = ss[i]
      BY <1>2, AppendProperties
    <2> QED BY <1>1, <1>3, <2>1
  <1>5. PICK g : Solves(g, m, tt) /\ FlattenSeq(tt) = g[m]
    BY <1>4, FlattenIs
  <1>6. /\ m # 0 => g[1] = tt[1]
        /\ \A i \in 1 .. m - 1 : g[i + 1] = g[i] \o tt[i + 1]
    BY <1>5, SolutionAt
  <1>7. CASE ss = <<>>
    <2>1. n = 0 /\ FlattenSeq(ss) = <<>>
      BY <1>1, <1>7, EmptySeq DEF FlattenSeq
    <2>2. <<>> \o x = x /\ <<>> \in Seq(T)
      BY ConcatEmptySeq, EmptySeq
    <2>3. FlattenSeq(tt) = x
      BY <1>3, <1>4, <1>5, <1>6, <2>1
    <2> QED BY <1>2, <2>1, <2>2, <2>3
  <1>8. CASE ss # <<>>
    <2>1. PICK f : Solves(f, n, ss) /\ FlattenSeq(ss) = f[n]
      BY <1>1, <1>8, FlattenIs
    <2>2. n # 0 /\ n \in 1 .. n /\ n \in 1 .. m - 1
      BY <1>1, <1>3, <1>8, EmptySeq
    <2>3. \A i \in 1 .. n : f[i] \in Seq(T) /\ g[i] = f[i]
      <3>1. /\ n # 0 => f[1] = ss[1]
            /\ \A i \in 1 .. n - 1 : f[i + 1] = f[i] \o ss[i + 1]
        BY <1>5, <2>1, SolutionAt
      <3>2. /\ m # 0 => g[1] = tt[1]
            /\ \A i \in 1 .. m - 1 : g[i + 1] = g[i] \o tt[i + 1]
        BY <1>5, SolutionAt
      <3> DEFINE N == {k \in Nat : k \in 1 .. n => f[k] \in Seq(T) /\ g[k] = f[k]}
      <3>3. 0 \in N
        OBVIOUS
      <3>4. ASSUME NEW k \in N PROVE k + 1 \in N
        <4> SUFFICES ASSUME k + 1 \in 1 .. n
                     PROVE  f[k + 1] \in Seq(T) /\ g[k + 1] = f[k + 1]
          OBVIOUS
        <4>1. CASE k = 0
          BY <4>1, <3>1, <3>2, <1>1, <1>3, <1>4
        <4>2. CASE k # 0
          <5>1. k \in 1 .. n /\ f[k] \in Seq(T) /\ g[k] = f[k]
            BY <4>2
          <5>2. k \in 1 .. n - 1 /\ k \in 1 .. m - 1
            BY <4>2, <1>3
          <5>3. f[k + 1] = f[k] \o ss[k + 1] /\ g[k + 1] = g[k] \o tt[k + 1]
            BY <5>2, <3>1, <3>2
          <5>4. ss[k + 1] \in Seq(T) /\ tt[k + 1] = ss[k + 1]
            BY <1>1, <1>4
          <5> QED BY <5>1, <5>3, <5>4, ConcatProperties
        <4> QED BY <4>1, <4>2
      <3>5. N = Nat
        <4>1. N \subseteq Nat
          OBVIOUS
        <4> HIDE DEF N
        <4> QED BY <3>3, <3>4, <4>1, SetInduction
      <3>6. \A i \in 1 .. n : i \in Nat
        OBVIOUS
      <3> QED BY <3>5, <3>6
    <2>4. g[m] = g[n] \o x
      BY <1>3, <1>4, <1>6, <2>2
    <2> QED BY <1>2, <1>5, <2>1, <2>2, <2>3, <2>4
  <1> QED BY <1>7, <1>8

\* Nothing flattens to nothing.
LEMMA FlattenEmpty == FlattenSeq(<<>>) = <<>>
  BY EmptySeq DEF FlattenSeq

\* The elements of a flattened sequence.
LEMMA FlattenType ==
    ASSUME NEW T, NEW ss \in Seq(Seq(T))
    PROVE  FlattenSeq(ss) \in Seq(T)
  <1>1. <<>> \in Seq(T)
    BY EmptySeq
  <1> QED BY <1>1, FlattenAppend

\* Sequences of sequences may be flattened piece by piece.
LEMMA FlattenConcat ==
    ASSUME NEW T, NEW ss \in Seq(Seq(T))
    PROVE  \A tt \in Seq(Seq(T)) : FlattenSeq(ss \o tt) = FlattenSeq(ss) \o FlattenSeq(tt)
  <1> DEFINE G == {tt \in Seq(Seq(T)) : FlattenSeq(ss \o tt) = FlattenSeq(ss) \o FlattenSeq(tt)}
  <1>1. <<>> \in G
    <2>1. <<>> \in Seq(Seq(T)) /\ ss \o <<>> = ss
      BY EmptySeq, ConcatEmptySeq
    <2>2. FlattenSeq(ss) \o <<>> = FlattenSeq(ss)
      BY FlattenType, ConcatEmptySeq
    <2> QED BY <2>1, <2>2, FlattenEmpty
  <1>2. ASSUME NEW tt \in G, NEW x \in Seq(T) PROVE Append(tt, x) \in G
    <2>1. tt \in Seq(Seq(T)) /\ FlattenSeq(ss \o tt) = FlattenSeq(ss) \o FlattenSeq(tt)
      OBVIOUS
    <2>2. Append(tt, x) \in Seq(Seq(T)) /\ ss \o tt \in Seq(Seq(T))
      BY <2>1, AppendProperties, ConcatProperties
    <2>3. ss \o Append(tt, x) = Append(ss \o tt, x)
      BY <2>1
    <2>4. FlattenSeq(Append(ss \o tt, x)) = FlattenSeq(ss \o tt) \o x
      BY <2>2, FlattenAppend
    <2>5. FlattenSeq(Append(tt, x)) = FlattenSeq(tt) \o x
      BY <2>1, FlattenAppend
    <2>6. (FlattenSeq(ss) \o FlattenSeq(tt)) \o x = FlattenSeq(ss) \o (FlattenSeq(tt) \o x)
      BY <2>1, FlattenType, ConcatAssociative
    <2>7. FlattenSeq(ss \o Append(tt, x)) = FlattenSeq(ss) \o FlattenSeq(Append(tt, x))
      BY <2>1, <2>3, <2>4, <2>5, <2>6
    <2> QED BY <2>2, <2>7
  <1>3. G = Seq(Seq(T))
    <2>1. G \subseteq Seq(Seq(T))
      OBVIOUS
    <2> HIDE DEF G
    <2> QED BY <1>1, <1>2, <2>1, SequenceInduction
  <1> QED BY <1>3

\* Sequences of one element each flatten to these elements.
LEMMA FlattenSingletons ==
    ASSUME NEW T
    PROVE  \A s \in Seq(T) : FlattenSeq([i \in DOMAIN s |-> <<s[i]>>]) = s
  <1> DEFINE Single(s) == [i \in DOMAIN s |-> <<s[i]>>]
             G == {s \in Seq(T) : FlattenSeq(Single(s)) = s}
  <1>1. <<>> \in G
    <2>1. <<>> \in Seq(T) /\ DOMAIN <<>> = {}
      BY EmptySeq
    <2>2. Single(<<>>) = <<>>
      BY <2>1
    <2> QED BY <2>1, <2>2, FlattenEmpty
  <1>2. ASSUME NEW s \in G, NEW x \in T PROVE Append(s, x) \in G
    <2>1. s \in Seq(T) /\ FlattenSeq(Single(s)) = s
      OBVIOUS
    <2>2. PICK n \in Nat : n = Len(s) /\ DOMAIN s = 1 .. n /\ \A i \in 1 .. n : s[i] \in T
      BY <2>1, LenProperties, ElementOfSeq
    <2>3. PICK t : t = Append(s, x)
      OBVIOUS
    <2>4. t \in Seq(T) /\ Len(t) = n + 1 /\ t[n + 1] = x /\ \A i \in 1 .. n : t[i] = s[i]
      BY <2>1, <2>2, <2>3, AppendProperties
    <2>5. DOMAIN t = 1 .. n + 1 /\ \A i \in 1 .. n + 1 : t[i] \in T
      BY <2>4, LenProperties, ElementOfSeq
    <2>6. \A y \in T : <<y>> \in Seq(T)
      OBVIOUS
    <2>7. Single(s) \in Seq(Seq(T)) /\ Len(Single(s)) = n
      BY <2>2, <2>6
    <2>8. Single(t) \in Seq(Seq(T)) /\ Len(Single(t)) = n + 1
      BY <2>5, <2>6
    <2>9. Single(t) = Append(Single(s), <<x>>)
      <3>1. \A i \in 1 .. n : Single(t)[i] = Single(s)[i]
        BY <2>2, <2>4, <2>5
      <3>2. Single(t)[n + 1] = <<x>>
        BY <2>4, <2>5
      <3>3. <<x>> \in Seq(T)
        BY <2>6
      <3> HIDE DEF Single
      <3> QED BY <2>7, <2>8, <3>1, <3>2, <3>3, IsAppend
    <2>10. FlattenSeq(Single(t)) = s \o <<x>>
      <3> HIDE DEF Single
      <3> QED BY <2>1, <2>6, <2>7, <2>9, FlattenAppend
    <2>11. s \o <<x>> = t
      BY <2>1, <2>3, AppendIsConcat
    <2> QED BY <2>3, <2>4, <2>10, <2>11
  <1>3. G = Seq(T)
    <2>1. G \subseteq Seq(T)
      OBVIOUS
    <2> HIDE DEF G
    <2> QED BY <1>1, <1>2, <2>1, SequenceInduction
  <1> QED BY <1>3

\* Empty sequences flatten to nothing.
LEMMA FlattenNothing == \A ss \in Seq({<<>>}) : FlattenSeq(ss) = <<>>
  <1> DEFINE G == {ss \in Seq({<<>>}) : FlattenSeq(ss) = <<>>}
  <1>1. <<>> \in G
    BY EmptySeq, FlattenEmpty
  <1>2. ASSUME NEW ss \in G, NEW x \in {<<>>} PROVE Append(ss, x) \in G
    <2>1. ss \in Seq({<<>>}) /\ FlattenSeq(ss) = <<>> /\ x = <<>>
      OBVIOUS
    <2>2. <<>> \in Seq({}) /\ {<<>>} \subseteq Seq({})
      BY EmptySeq
    <2>3. ss \in Seq(Seq({}))
      BY <2>1, <2>2, SeqMonotonic
    <2>4. FlattenSeq(Append(ss, x)) = <<>> \o <<>>
      BY <2>1, <2>2, <2>3, FlattenAppend
    <2>5. <<>> \o <<>> = <<>>
      BY <2>2, ConcatEmptySeq
    <2> QED BY <2>1, <2>4, <2>5, AppendProperties
  <1>3. G = Seq({<<>>})
    <2>1. G \subseteq Seq({<<>>})
      OBVIOUS
    <2> HIDE DEF G
    <2> QED BY <1>1, <1>2, <2>1, SequenceInduction
  <1> QED BY <1>3

===============================================================================
