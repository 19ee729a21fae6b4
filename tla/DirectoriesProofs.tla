------------------------- MODULE DirectoriesProofs -------------------------
(***************************************************************************)
(* Directories, for any names, inodes, users and requests: every path that  *)
(* is not stale keeps its directory's owner and node.                       *)
(***************************************************************************)
EXTENDS Directories, SequenceTheorems, TLAPS

-----------------------------------------------------------------------------
(* Paths.                                                                   *)

LEMMA OneLong ==
    ASSUME NEW S, NEW s \in Seq(S), Len(s) = 1
    PROVE  s = <<s[1]>>
OBVIOUS

LEMMA TwoLong ==
    ASSUME NEW S, NEW s \in Seq(S), Len(s) = 2
    PROVE  s = <<s[1], s[2]>>
OBVIOUS

LEMMA Joined ==
    ASSUME NEW a, NEW b
    PROVE  /\ SubSeq(<<a, b>>, 1, 1) = <<a>>
           /\ SubSeq(<<a, b>>, 2, 2) = <<b>>
           /\ <<a>> \o <<b>> = <<a, b>>
           /\ Append(<<a>>, b) = <<a, b>>
<1>. DEFINE S == {a, b}
<1>1. <<a>> \in Seq(S) /\ <<b>> \in Seq(S) /\ <<a, b>> \in Seq(S)
  OBVIOUS
<1>2. /\ Len(<<a>>) = 1 /\ Len(<<b>>) = 1 /\ Len(<<a, b>>) = 2
      /\ <<a>>[1] = a /\ <<b>>[1] = b /\ <<a, b>>[1] = a /\ <<a, b>>[2] = b
  OBVIOUS
<1>3. Append(<<a>>, b) = <<a>> \o <<b>>
  BY <1>1, AppendIsConcat
<1>. HIDE DEF S
<1>4. /\ SubSeq(<<a, b>>, 1, 1) \in Seq(S) /\ Len(SubSeq(<<a, b>>, 1, 1)) = 1
      /\ SubSeq(<<a, b>>, 1, 1)[1] = a
  BY <1>1, <1>2, SubSeqProperties
<1>5. /\ SubSeq(<<a, b>>, 2, 2) \in Seq(S) /\ Len(SubSeq(<<a, b>>, 2, 2)) = 1
      /\ SubSeq(<<a, b>>, 2, 2)[1] = b
  BY <1>1, <1>2, SubSeqProperties
<1>6. /\ <<a>> \o <<b>> \in Seq(S) /\ Len(<<a>> \o <<b>>) = 2
      /\ (<<a>> \o <<b>>)[1] = a /\ (<<a>> \o <<b>>)[2] = b
  BY <1>1, <1>2, ConcatProperties
<1>7. SubSeq(<<a, b>>, 1, 1) = <<a>>
  BY <1>4, OneLong, Zenon
<1>8. SubSeq(<<a, b>>, 2, 2) = <<b>>
  BY <1>5, OneLong, Zenon
<1>9. <<a>> \o <<b>> = <<a, b>>
  BY <1>6, TwoLong, Zenon
<1>. QED  BY <1>3, <1>7, <1>8, <1>9

LEMMA PathCases ==
    ASSUME NEW p \in Path
    PROVE  (\E n \in Top : p = <<n>>) \/ (\E n \in Top, m \in Sub : p = <<n, m>>)
BY DEF Path

LEMMA TopPath ==
    ASSUME NEW n \in Top
    PROVE  /\ <<n>> \in Path /\ <<n>> # Root
           /\ Len(<<n>>) = 1 /\ Parent(<<n>>) = Root
           /\ Beneath(<<n>>) = {<<n, m>> : m \in Sub}
<1>1. <<n>> \in Path /\ <<n>> # Root
  BY DEF Path, Root
<1>2. Len(<<n>>) = 1
  OBVIOUS
<1>3. Parent(<<n>>) = Root
  BY DEF Parent, Root
<1>4. Beneath(<<n>>) = {<<n, m>> : m \in Sub}
  BY DEF Beneath, Path
<1>. QED  BY <1>1, <1>2, <1>3, <1>4

LEMMA SubPath ==
    ASSUME NEW n \in Top, NEW m \in Sub
    PROVE  /\ <<n, m>> \in Path /\ <<n, m>> # Root
           /\ Len(<<n, m>>) = 2 /\ Parent(<<n, m>>) = <<n>>
           /\ Beneath(<<n, m>>) = {}
<1>1. <<n, m>> \in Path /\ <<n, m>> # Root
  BY DEF Path, Root
<1>2. Len(<<n, m>>) = 2
  OBVIOUS
<1>3. Parent(<<n, m>>) = <<n>>
  <2>1. Len(<<n, m>>) - 1 = 1
    BY <1>2
  <2>. QED  BY <2>1, Joined DEF Parent
<1>4. ASSUME NEW r \in Path
      PROVE  Len(r) \in {1, 2}
  BY DEF Path
<1>5. Beneath(<<n, m>>) = {}
  <2>1. ~ \E r \in Path : Len(<<n, m>>) < Len(r)
    BY <1>2, <1>4
  <2>. QED  BY <2>1 DEF Beneath
<1>. QED  BY <1>1, <1>2, <1>3, <1>5

LEMMA PathFacts ==
    ASSUME NEW p \in Path
    PROVE  /\ p # Root /\ Parent(p) \in Place
           /\ Len(p) \in {1, 2}
           /\ Len(p) = 1 <=> Parent(p) = Root
           /\ Len(p) = 2 <=> Parent(p) \in Path
           /\ Len(p) = 2 => Len(Parent(p)) = 1 /\ Parent(Parent(p)) = Root /\ Beneath(p) = {}
<1>1. CASE \E n \in Top : p = <<n>>
  <2>. PICK n \in Top : p = <<n>>
    BY <1>1
  <2>. QED  BY TopPath DEF Place, Root, Path
<1>2. CASE \E n \in Top, m \in Sub : p = <<n, m>>
  <2>. PICK n \in Top, m \in Sub : p = <<n, m>>
    BY <1>2
  <2>1. <<n>> \in Path /\ <<n>> # Root /\ Len(<<n>>) = 1 /\ Parent(<<n>>) = Root
    BY TopPath
  <2>. QED  BY <2>1, SubPath DEF Place
<1>. QED  BY <1>1, <1>2, PathCases

LEMMA RootFacts == Root \notin Path /\ Len(Root) = 0 /\ Root \in Place
<1>1. Root \notin Path
  BY PathFacts
<1>. QED  BY <1>1 DEF Root, Place

LEMMA BeneathFacts ==
    ASSUME NEW p \in Path
    PROVE  Beneath(p) = {r \in Path : Parent(r) = p}
<1>. SUFFICES ASSUME NEW r \in Path
              PROVE  r \in Beneath(p) <=> Parent(r) = p
  BY DEF Beneath
<1>1. CASE \E n \in Top : r = <<n>>
  <2>. PICK n \in Top : r = <<n>>
    BY <1>1
  <2>. QED  BY TopPath, PathFacts DEF Beneath
<1>2. CASE \E n \in Top, m \in Sub : r = <<n, m>>
  <2>. PICK n \in Top, m \in Sub : r = <<n, m>>
    BY <1>2
  <2>1. Parent(r) = <<n>> /\ Len(r) = 2 /\ r[1] = n
    BY SubPath
  <2>2. CASE \E k \in Top : p = <<k>>
    BY <2>1, <2>2, TopPath DEF Beneath
  <2>3. CASE \E k \in Top, l \in Sub : p = <<k, l>>
    BY <2>1, <2>3, SubPath, TopPath DEF Beneath
  <2>. QED  BY <2>2, <2>3, PathCases
<1>. QED  BY <1>1, <1>2, PathCases

LEMMA PathIsSeq == \A p \in Path : p \in Seq(Top \cup Sub)
<1>. SUFFICES ASSUME NEW p \in Path
              PROVE  p \in Seq(Top \cup Sub)
  OBVIOUS
<1>. DEFINE S == Top \cup Sub
<1>1. \A n \in Top : n \in S
  OBVIOUS
<1>2. \A m \in Sub : m \in S
  OBVIOUS
<1>. HIDE DEF S
<1>3. \A n \in S : <<n>> \in Seq(S)
  OBVIOUS
<1>4. \A n, m \in S : <<n, m>> \in Seq(S)
  OBVIOUS
<1>5. p \in Seq(S)
  BY <1>1, <1>2, <1>3, <1>4, PathCases, Zenon
<1>. QED  BY <1>5 DEF S

LEMMA RebasedSelf ==
    ASSUME NEW p \in Path, NEW q \in Path
    PROVE  Rebased(q, q, p) = p
<1>. DEFINE S == Top \cup Sub
<1>1. p \in Seq(S) /\ q \in Seq(S)
  BY PathIsSeq
<1>. HIDE DEF S
<1>2. SubSeq(q, Len(q) + 1, Len(q)) = << >>
  BY <1>1, SubSeqEmpty, LenProperties
<1>3. p \o << >> = p
  BY <1>1, ConcatEmptySeq
<1>. QED  BY <1>2, <1>3 DEF Rebased

LEMMA RebasedSub ==
    ASSUME NEW n \in Top, NEW m \in Sub, NEW p \in Path
    PROVE  /\ \A k \in Top : p = <<k>> => Rebased(<<n, m>>, <<n>>, p) = <<k, m>>
           /\ Len(p) = 2 => Rebased(<<n, m>>, <<n>>, p) \notin Path
<1>1. Len(<<n>>) + 1 = 2 /\ Len(<<n, m>>) = 2
  OBVIOUS
<1>2. Rebased(<<n, m>>, <<n>>, p) = p \o <<m>>
  BY <1>1, Joined DEF Rebased
<1>3. ASSUME Len(p) = 2
      PROVE  p \o <<m>> \notin Path
  <2>. DEFINE S == Top \cup Sub
  <2>1. p \in Seq(S) /\ m \in S
    BY PathIsSeq
  <2>. HIDE DEF S
  <2>2. <<m>> \in Seq(S) /\ Len(<<m>>) = 1
    BY <2>1
  <2>3. Len(p \o <<m>>) = Len(p) + Len(<<m>>)
    BY <2>1, <2>2, ConcatProperties, Zenon
  <2>4. Len(p \o <<m>>) = 3
    BY <1>3, <2>2, <2>3
  <2>5. \A r \in Path : Len(r) # 3
    BY PathFacts
  <2>. QED  BY <2>4, <2>5, Zenon
<1>4. ASSUME NEW k \in Top, p = <<k>>
      PROVE  Rebased(<<n, m>>, <<n>>, p) = <<k, m>>
  BY <1>2, <1>4, Joined
<1>. QED  BY <1>2, <1>3, <1>4

\* Directories beneath q are found again beneath p.
LEMMA RebasedFacts ==
    ASSUME NEW p \in Path, NEW q \in Path, NEW r \in Beneath(q)
    PROVE  /\ Len(q) = 1 /\ Len(r) = 2
           /\ Len(p) = 1 => /\ Rebased(r, q, p) \in Beneath(p)
                            /\ Rebased(Rebased(r, q, p), p, q) = r
                            /\ Rebased(r, q, p) = Append(p, r[Len(r)])
           /\ Len(p) = 2 => Rebased(r, q, p) \notin Path
<1>1. r \in Path /\ Parent(r) = q
  BY BeneathFacts
<1>2. Len(r) = 2 /\ Len(q) = 1
  BY <1>1, PathFacts, RootFacts
<1>3. PICK n \in Top, m \in Sub : r = <<n, m>>
  BY <1>1, <1>2, PathCases, TopPath
<1>4. q = <<n>>
  BY <1>1, <1>3, SubPath
<1>5. ASSUME Len(p) = 1
      PROVE  /\ Rebased(r, q, p) \in Beneath(p)
             /\ Rebased(Rebased(r, q, p), p, q) = r
             /\ Rebased(r, q, p) = Append(p, r[Len(r)])
  <2>1. PICK k \in Top : p = <<k>>
    BY <1>5, PathCases, SubPath
  <2>2. Rebased(r, q, p) = <<k, m>> /\ Rebased(<<k, m>>, p, q) = r
    BY <1>3, <1>4, <2>1, RebasedSub
  <2>3. <<k, m>> \in Beneath(p) /\ Append(p, r[Len(r)]) = <<k, m>>
    BY <1>2, <1>3, <2>1, TopPath, Joined
  <2>. QED  BY <2>2, <2>3
<1>6. Len(p) = 2 => Rebased(r, q, p) \notin Path
  BY <1>3, <1>4, RebasedSub
<1>. QED  BY <1>2, <1>5, <1>6

LEMMA MovedTreeFacts ==
    ASSUME NEW f, NEW none, NEW p \in Path, NEW q \in Path, p # q, q \notin Beneath(p),
           NEW g, g = MovedTree(f, p, q, none), NEW r \in Path
    PROVE  /\ g[q] = f[p] /\ g[p] = none
           /\ r \in Beneath(p) => g[r] = none
           /\ r \in Beneath(q) =>
                 \/ g[r] = none
                 \/ /\ Len(p) = 1 /\ Rebased(r, q, p) \in Beneath(p)
                    /\ g[r] = f[Rebased(r, q, p)]
           /\ r \notin Within(p) \cup Within(q) => g[r] = f[r]
<1>1. /\ q \in Within(q) /\ p \in Within(p)
      /\ \A o \in Path : o \in Within(p) <=> o = p \/ Parent(o) = p
      /\ \A o \in Path : o \in Within(q) <=> o = q \/ Parent(o) = q
  BY BeneathFacts DEF Within
<1>2. \A o \in Beneath(p) : o \in Path /\ Parent(o) = p /\ Len(o) = 2
  BY BeneathFacts, RebasedFacts
<1>3. \A o \in Beneath(q) : o \in Path /\ Parent(o) = q /\ Len(o) = 2
  BY BeneathFacts, RebasedFacts
<1>4. g[q] = f[p]
  BY <1>1, RebasedSelf DEF MovedTree, Value
<1>5. g[p] = none
  <2>1. CASE p \in Within(q)
    <3>1. p \in Beneath(q) /\ Len(p) = 2
      BY <1>3, <2>1 DEF Within
    <3>2. Rebased(p, q, p) \notin Path
      BY <3>1, RebasedFacts
    <3>. QED  BY <2>1, <3>2 DEF MovedTree, Value
  <2>2. CASE p \notin Within(q)
    BY <1>1, <2>2 DEF MovedTree
  <2>. QED  BY <2>1, <2>2
<1>6. r \in Beneath(p) => g[r] = none
  <2>. SUFFICES ASSUME r \in Beneath(p) PROVE g[r] = none
    OBVIOUS
  <2>1. r \notin Within(q) /\ r \in Within(p)
    BY <1>1, <1>2, BeneathFacts
  <2>. QED  BY <2>1 DEF MovedTree
<1>7. ASSUME r \in Beneath(q)
      PROVE  \/ g[r] = none
             \/ /\ Len(p) = 1 /\ Rebased(r, q, p) \in Beneath(p)
                /\ g[r] = f[Rebased(r, q, p)]
  <2>1. g[r] = Value(f, Rebased(r, q, p), none)
    BY <1>1, <1>3, <1>7 DEF MovedTree
  <2>. QED  BY <1>7, <2>1, RebasedFacts, PathFacts, BeneathFacts DEF Value
<1>8. r \notin Within(p) \cup Within(q) => g[r] = f[r]
  BY DEF MovedTree
<1>. QED  BY <1>4, <1>5, <1>6, <1>7, <1>8

LEMMA ExchangedTreeFacts ==
    ASSUME NEW f, NEW none, NEW p \in Path, NEW q \in Path, p # q,
           Len(p) = 1, Len(q) = 1,
           NEW g, g = ExchangedTree(f, p, q, none), NEW r \in Path
    PROVE  /\ g[q] = f[p] /\ g[p] = f[q]
           /\ r \in Beneath(p) =>
                 Rebased(r, p, q) \in Beneath(q) /\ g[r] = f[Rebased(r, p, q)]
           /\ r \in Beneath(q) =>
                 Rebased(r, q, p) \in Beneath(p) /\ g[r] = f[Rebased(r, q, p)]
           /\ r \notin Within(p) \cup Within(q) => g[r] = f[r]
<1>1. /\ q \in Within(q) /\ p \in Within(p)
      /\ \A o \in Path : o \in Within(p) <=> o = p \/ Parent(o) = p
      /\ \A o \in Path : o \in Within(q) <=> o = q \/ Parent(o) = q
  BY BeneathFacts DEF Within
<1>2. Parent(p) = Root /\ Parent(q) = Root
  BY PathFacts
<1>3. g[q] = f[p] /\ g[p] = f[q]
  <2>1. p \notin Within(q)
    BY <1>1, <1>2, PathFacts
  <2>. QED  BY <1>1, <2>1, RebasedSelf DEF ExchangedTree, Value
<1>4. r \in Beneath(p) =>
         Rebased(r, p, q) \in Beneath(q) /\ g[r] = f[Rebased(r, p, q)]
  <2>. SUFFICES ASSUME r \in Beneath(p)
                PROVE  Rebased(r, p, q) \in Beneath(q) /\ g[r] = f[Rebased(r, p, q)]
    OBVIOUS
  <2>1. Rebased(r, p, q) \in Beneath(q) /\ Rebased(r, p, q) \in Path
    BY RebasedFacts, BeneathFacts
  <2>2. r \notin Within(q) /\ r \in Within(p)
    BY <1>1, <1>2, BeneathFacts, PathFacts
  <2>. QED  BY <2>1, <2>2 DEF ExchangedTree, Value
<1>5. r \in Beneath(q) =>
         Rebased(r, q, p) \in Beneath(p) /\ g[r] = f[Rebased(r, q, p)]
  <2>. SUFFICES ASSUME r \in Beneath(q)
                PROVE  Rebased(r, q, p) \in Beneath(p) /\ g[r] = f[Rebased(r, q, p)]
    OBVIOUS
  <2>1. Rebased(r, q, p) \in Beneath(p) /\ Rebased(r, q, p) \in Path
    BY RebasedFacts, BeneathFacts
  <2>2. r \in Within(q)
    BY <1>1, BeneathFacts
  <2>. QED  BY <2>1, <2>2 DEF ExchangedTree, Value
<1>6. r \notin Within(p) \cup Within(q) => g[r] = f[r]
  BY DEF ExchangedTree
<1>. QED  BY <1>3, <1>4, <1>5, <1>6

\* Neither puts one thing at two paths.
Apart(f, none) == \A r, s \in Path : r # s /\ f[r] = f[s] => f[r] = none

LEMMA MovedApart ==
    ASSUME NEW none, NEW f, Apart(f, none),
           NEW p \in Path, NEW q \in Path, p # q, q \notin Beneath(p),
           NEW g,
           \/ g = MovedTree(f, p, q, none)
           \/ g = ExchangedTree(f, p, q, none) /\ Len(p) = 1 /\ Len(q) = 1
    PROVE  Apart(g, none)
<1>. DEFINE From(r, o) ==
         \/ g[r] = f[o] /\ o = r /\ r \notin Within(p) \cup Within(q)
         \/ g[r] = f[o] /\ o = p /\ r = q
         \/ g[r] = f[o] /\ o \in Beneath(p) /\ r = Rebased(o, p, q)
         \/ /\ Len(p) = 1 /\ Len(q) = 1 /\ g[r] = f[o]
            /\ (o = q /\ r = p) \/ (o \in Beneath(q) /\ r = Rebased(o, q, p))
<1>0. /\ \A r \in Beneath(p) : r \in Path /\ Parent(r) = p /\ r \in Within(p)
      /\ \A r \in Beneath(q) : r \in Path /\ Parent(r) = q /\ r \in Within(q)
      /\ \A r \in Path : r \in Within(p) <=> r = p \/ r \in Beneath(p)
      /\ \A r \in Path : r \in Within(q) <=> r = q \/ r \in Beneath(q)
  BY BeneathFacts DEF Within
<1>1. ASSUME NEW r \in Path
      PROVE  g[r] = none \/ \E o \in Path : From(r, o)
  <2>1. CASE g = MovedTree(f, p, q, none)
    <3>1. CASE r \in Beneath(q)
      <4>1. ASSUME Len(p) = 1, Rebased(r, q, p) \in Beneath(p), g[r] = f[Rebased(r, q, p)]
            PROVE  \E o \in Path : From(r, o)
        <5>1. Rebased(Rebased(r, q, p), p, q) = r
          BY <3>1, <4>1, RebasedFacts
        <5>. QED  BY <1>0, <4>1, <5>1
      <4>. QED  BY <2>1, <3>1, <4>1, MovedTreeFacts
    <3>2. CASE r \in Within(p) /\ r \notin Within(q)
      BY <1>0, <2>1, <3>2, MovedTreeFacts
    <3>3. CASE r = q
      BY <1>0, <2>1, <3>3, MovedTreeFacts
    <3>4. CASE r \notin Within(p) \cup Within(q)
      BY <2>1, <3>4, MovedTreeFacts
    <3>. QED  BY <1>0, <3>1, <3>2, <3>3, <3>4
  <2>2. CASE g = ExchangedTree(f, p, q, none) /\ Len(p) = 1 /\ Len(q) = 1
    <3>1. CASE r \in Beneath(q)
      <4>1. Rebased(Rebased(r, q, p), p, q) = r
        BY <2>2, <3>1, RebasedFacts
      <4>. QED  BY <1>0, <2>2, <3>1, <4>1, ExchangedTreeFacts
    <3>2. CASE r \in Beneath(p)
      <4>1. Rebased(Rebased(r, p, q), q, p) = r
        BY <2>2, <3>2, RebasedFacts
      <4>. QED  BY <1>0, <2>2, <3>2, <4>1, ExchangedTreeFacts
    <3>3. CASE r = q \/ r = p
      BY <2>2, <3>3, ExchangedTreeFacts
    <3>4. CASE r \notin Within(p) \cup Within(q)
      BY <2>2, <3>4, ExchangedTreeFacts
    <3>. QED  BY <1>0, <3>1, <3>2, <3>3, <3>4
  <2>. QED  BY <2>1, <2>2
<1>2. ASSUME NEW r \in Path, NEW s \in Path, NEW o \in Path, From(r, o), From(s, o)
      PROVE  r = s
  <2>1. \A x \in Beneath(p) : x \notin Within(q) /\ x # p
    BY <1>0, PathFacts, BeneathFacts
  <2>2. \A x \in Beneath(q) : x \notin Beneath(p) /\ x # q
    BY <1>0, PathFacts, BeneathFacts
  <2>3. Len(p) = 1 => p \notin Beneath(q)
    BY RebasedFacts
  <2>. QED  BY <1>0, <1>2, <2>1, <2>2, <2>3
<1>. HIDE DEF From
<1>4. ASSUME NEW r \in Path, NEW s \in Path, r # s, g[r] = g[s], g[r] # none
      PROVE  FALSE
  <2>1. PICK o1 \in Path : From(r, o1)
    BY <1>1, <1>4
  <2>2. PICK o2 \in Path : From(s, o2)
    BY <1>1, <1>4
  <2>3. f[o1] = g[r] /\ f[o2] = g[s]
    BY <2>1, <2>2 DEF From
  <2>4. o1 = o2
    BY <1>4, <2>3 DEF Apart
  <2>. QED  BY <1>2, <1>4, <2>1, <2>2, <2>4
<1>. QED  BY <1>4 DEF Apart

LEMMA TreesTyped ==
    ASSUME NEW T, NEW none \in T, NEW f \in [Path -> T], NEW p, NEW q
    PROVE  MovedTree(f, p, q, none) \in [Path -> T] /\ ExchangedTree(f, p, q, none) \in [Path -> T]
<1>1. \A r : Value(f, r, none) \in T
  BY DEF Value
<1>. QED  BY <1>1 DEF MovedTree, ExchangedTree

LEMMA MovedPathFacts ==
    ASSUME NEW p \in Path, NEW q \in Path, NEW swap \in BOOLEAN, p # q,
           swap => Len(p) = 1 /\ Len(q) = 1,
           NEW d \in Place, d \in Within(p) => Len(p) = 1 /\ Len(q) = 1,
           NEW e, e = MovedPath(d, p, q, swap)
    PROVE  /\ e \in Place /\ Len(e) = Len(d)
           /\ Len(d) = 2 => Parent(e) = MovedPath(Parent(d), p, q, swap)
           /\ d = p => e = q
           /\ \/ e = d /\ d \notin Within(p)
              \/ /\ d \in Within(p) /\ e \in Within(q) /\ Rebased(e, q, p) = d
              \/ /\ swap /\ d \in Within(q) /\ e \in Within(p) /\ Rebased(e, p, q) = d
<1>0. /\ \A r \in Beneath(p) : r \in Path /\ Parent(r) = p /\ r \in Within(p) /\ Len(r) = 2
      /\ \A r \in Beneath(q) : r \in Path /\ Parent(r) = q /\ r \in Within(q) /\ Len(r) = 2
      /\ \A r \in Within(p) : r \in Path /\ (r = p \/ r \in Beneath(p))
      /\ \A r \in Within(q) : r \in Path /\ (r = q \/ r \in Beneath(q))
      /\ p \in Within(p) /\ q \in Within(q)
  BY BeneathFacts, RebasedFacts DEF Within
<1>1. CASE d = p
  <2>1. e = q
    BY <1>0, <1>1, RebasedSelf DEF MovedPath
  <2>2. Rebased(q, q, p) = p /\ Len(p) = 1 /\ Len(q) = 1
    BY <1>0, <1>1, RebasedSelf
  <2>. QED  BY <1>0, <1>1, <2>1, <2>2 DEF Place
<1>2. CASE d \in Beneath(p)
  <2>1. e = Rebased(d, p, q) /\ Parent(d) = p
    BY <1>0, <1>2 DEF MovedPath
  <2>2. e \in Beneath(q) /\ Rebased(e, q, p) = d
    BY <1>0, <1>2, <2>1, RebasedFacts
  <2>3. MovedPath(p, p, q, swap) = q
    BY <1>0, RebasedSelf DEF MovedPath
  <2>4. d # p
    BY <1>0, <1>2
  <2>. QED  BY <1>0, <1>2, <2>1, <2>2, <2>3, <2>4 DEF Place
<1>3. CASE swap /\ d = q /\ d \notin Within(p)
  <2>1. e = p
    BY <1>0, <1>3, RebasedSelf DEF MovedPath
  <2>2. Rebased(p, p, q) = q /\ Len(p) = 1 /\ Len(q) = 1
    BY <1>3, RebasedSelf
  <2>3. d # p /\ e \in Place /\ Rebased(e, p, q) = d
    BY <1>3, <2>1, <2>2 DEF Place
  <2>4. Len(e) = 1 /\ Len(d) = 1
    BY <1>3, <2>1, <2>2, Zenon
  <2>5. Len(e) = Len(d) /\ Len(d) # 2
    BY <2>4
  <2>6. d \in Within(q) /\ e \in Within(p)
    BY <1>0, <1>3, <2>1
  <2>. QED  BY <1>3, <2>3, <2>5, <2>6, Zenon
<1>4. CASE swap /\ d \in Beneath(q) /\ d \notin Within(p)
  <2>1. e = Rebased(d, q, p) /\ Parent(d) = q
    BY <1>0, <1>4 DEF MovedPath
  <2>2. e \in Beneath(p) /\ Rebased(e, p, q) = d
    <3>1. Rebased(d, q, p) \in Beneath(p) /\ Rebased(Rebased(d, q, p), p, q) = d
      BY <1>4, RebasedFacts
    <3>. QED  BY <2>1, <3>1
  <2>3. q \notin Within(p)
    BY <1>0, <1>4
  <2>4. MovedPath(q, p, q, swap) = p
    BY <1>0, <1>4, <2>3, RebasedSelf DEF MovedPath
  <2>. QED  BY <1>0, <1>4, <2>1, <2>2, <2>4 DEF Place
<1>5. CASE d \notin Within(p) /\ ~(swap /\ d \in Within(q))
  <2>1. e = d
    BY <1>5 DEF MovedPath
  <2>2. ASSUME Len(d) = 2
        PROVE  Parent(d) = MovedPath(Parent(d), p, q, swap)
    <3>1. d \in Path /\ Len(Parent(d)) = 1 /\ Parent(d) \in Path
      BY <2>2, PathFacts, RootFacts DEF Place
    <3>2. Parent(d) \notin Within(p)
      BY <1>0, <1>5, <3>1, BeneathFacts
    <3>3. ~(swap /\ Parent(d) \in Within(q))
      BY <1>0, <1>5, <3>1, BeneathFacts
    <3>. QED  BY <3>2, <3>3 DEF MovedPath
  <2>. QED  BY <1>0, <1>5, <2>1, <2>2
<1>. QED  BY <1>0, <1>1, <1>2, <1>3, <1>4, <1>5

LEMMA MovedPlaceFacts ==
    ASSUME NEW p \in Path, NEW q \in Path, NEW swap \in BOOLEAN, p # q,
           swap => Len(p) = 1 /\ Len(q) = 1,
           NEW r \in Path, r \in Beneath(p) => Len(q) = 1,
           NEW e, e = MovedPlace(r, p, q, swap)
    PROVE  /\ e \in Path /\ Len(e) = Len(r)
           /\ Parent(e) = MovedPath(Parent(r), p, q, swap)
           /\ r \notin {p, q} => e = MovedPath(r, p, q, swap)
           /\ \/ e = r /\ r \notin Beneath(p)
              \/ r \in Beneath(p) /\ e \in Beneath(q) /\ Rebased(e, q, p) = r
              \/ swap /\ r \in Beneath(q) /\ e \in Beneath(p) /\ Rebased(e, p, q) = r
<1>. DEFINE d == Parent(r)
<1>0. /\ \A x \in Beneath(p) : x \in Path /\ Parent(x) = p /\ Len(x) = 2 /\ Len(p) = 1
      /\ \A x \in Beneath(q) : x \in Path /\ Parent(x) = q /\ Len(x) = 2 /\ Len(q) = 1
      /\ \A x \in Within(p) : x \in Path /\ (x = p \/ x \in Beneath(p))
      /\ \A x \in Within(q) : x \in Path /\ (x = q \/ x \in Beneath(q))
      /\ p \in Within(p) /\ q \in Within(q)
  BY BeneathFacts, RebasedFacts DEF Within
<1>1. /\ d \in Place /\ d \in Path => Len(r) = 2 /\ Len(d) = 1
      /\ r # Root /\ Len(r) \in {1, 2}
  BY PathFacts
<1>2. e = Append(MovedPath(d, p, q, swap), r[Len(r)])
  BY <1>1 DEF MovedPlace
<1>3. r = Append(d, r[Len(r)])
  <2>1. CASE \E n \in Top : r = <<n>>
    BY <2>1, TopPath DEF Root
  <2>2. CASE \E n \in Top, m \in Sub : r = <<n, m>>
    <3>. PICK n \in Top, m \in Sub : r = <<n, m>>
      BY <2>2
    <3>1. d = <<n>> /\ r[Len(r)] = m
      BY SubPath
    <3>. QED  BY <3>1, Joined
  <2>. QED  BY <2>1, <2>2, PathCases
<1>4. CASE d = p
  <2>1. r \in Beneath(p) /\ MovedPath(d, p, q, swap) = q
    BY <1>0, <1>4, BeneathFacts, RebasedSelf DEF MovedPath
  <2>2. e = Append(q, r[Len(r)]) /\ Len(q) = 1
    BY <1>2, <2>1
  <2>3. /\ Rebased(r, p, q) \in Beneath(q) /\ Rebased(Rebased(r, p, q), q, p) = r
        /\ Rebased(r, p, q) = Append(q, r[Len(r)])
    BY <2>1, <2>2, RebasedFacts
  <2>4. r \in Within(p) /\ MovedPath(r, p, q, swap) = Rebased(r, p, q)
    BY <2>1 DEF MovedPath, Within
  <2>. QED  BY <1>0, <2>1, <2>2, <2>3, <2>4
<1>5. CASE swap /\ d = q
  <2>1. r \in Beneath(q) /\ d \notin Within(p)
    BY <1>0, <1>5, BeneathFacts, PathFacts
  <2>2. MovedPath(d, p, q, swap) = p
    BY <1>0, <1>5, <2>1, RebasedSelf DEF MovedPath
  <2>3. e = Append(p, r[Len(r)]) /\ Len(p) = 1
    BY <1>2, <1>5, <2>2
  <2>4. /\ Rebased(r, q, p) \in Beneath(p) /\ Rebased(Rebased(r, q, p), p, q) = r
        /\ Rebased(r, q, p) = Append(p, r[Len(r)])
    BY <2>1, <2>3, RebasedFacts
  <2>5. r # p => MovedPath(r, p, q, swap) = Rebased(r, q, p)
    BY <1>0, <1>5, <2>1, BeneathFacts DEF MovedPath, Within
  <2>6. r \notin Beneath(p)
    BY <1>0, <1>5, BeneathFacts
  <2>. QED  BY <1>0, <1>5, <2>1, <2>2, <2>3, <2>4, <2>5, <2>6
<1>6. CASE d # p /\ ~(swap /\ d = q)
  <2>1. MovedPath(d, p, q, swap) = d
    BY <1>0, <1>1, <1>6, PathFacts DEF MovedPath
  <2>2. r \notin Beneath(p) /\ (swap => r \notin Beneath(q))
    BY <1>6, BeneathFacts
  <2>3. r \notin {p, q} => MovedPath(r, p, q, swap) = r
    BY <2>2 DEF MovedPath, Within
  <2>4. e = r
    BY <1>2, <1>3, <2>1
  <2>. QED  BY <2>1, <2>2, <2>3, <2>4
<1>. QED  BY <1>4, <1>5, <1>6

-----------------------------------------------------------------------------
(* What requests hold.                                                      *)

\* The same request at another stage.
SameRequest(r, o) ==
    /\ r.op = o.op /\ r.path = o.path /\ r.to = o.to
    /\ r.at = o.at /\ r.into = o.into /\ r.locks = o.locks

LEMMA GoesOn ==
    ASSUME RequestsSound, NEW t \in Active, NEW r \in Request,
           req' = [req EXCEPT ![t] = r], stale' = stale, node' = node,
           SameRequest(r, req[t]), r.stage # "idle",
           RequestSound(t)', Renaming(t)' => Renaming(t) /\ r.attr \in Attr,
           r.op = "exchange" /\ r.stage # "rename" =>
              \/ ~At(t, "rename")
              \/ Parent(r.path) = Root /\ Parent(r.to) = Root
    PROVE  /\ RequestsSound' /\ Active' = Active
           /\ \A s \in Threads : Uses(req[s])' = Uses(req[s])
<1>1. /\ t \in Threads /\ req'[t] = r
      /\ \A s \in Threads \ {t} : req'[s] = req[s]
  BY DEF RequestsSound, Active
<1>2. \A s \in Threads : SameRequest(req'[s], req[s])
  BY <1>1 DEF SameRequest
<1>3. Active' = Active
  BY <1>1 DEF Active, Stage
<1>4. \A s \in Threads : Uses(req[s])' = Uses(req[s])
  BY <1>2 DEF SameRequest, Uses
<1>5. req' \in [Threads -> Request]
  BY DEF RequestsSound
<1>6. ASSUME NEW s \in Threads
      PROVE  RequestSound(s)' /\ RenameSound(s)'
  <2>0. RequestSound(s) /\ RenameSound(s)
    BY DEF RequestsSound
  <2>1. RequestSound(s)'
    BY <1>1, <2>0 DEF RequestSound, At, Stage, Instantiating, Removing, Renaming
  <2>2. Renaming(s)' => Renaming(s) /\ req'[s].attr \in Attr
    BY <1>1, <2>0 DEF RenameSound, Renaming, Stage
  <2>3. req'[s].op = "exchange" /\ ~At(s, "rename")' /\ Renaming(s)' =>
           Parent(req'[s].path) = Root /\ Parent(req'[s].to) = Root
    BY <1>1, <1>2, <2>0, <2>2 DEF RenameSound, At, Stage, SameRequest
  <2>4. SameRequest(req'[s], req[s])
    BY <1>2
  <2>5. \A u \in Active : req'[u].at = req[u].at
    BY <1>2 DEF Active, SameRequest
  <2>6. RenameSound(s)'
    BY <1>3, <2>0, <2>2, <2>3, <2>4, <2>5 DEF RenameSound, SameRequest
  <2>. QED  BY <2>1, <2>6
<1>7. ASSUME NEW s \in Active', NEW u \in Active'
      PROVE  LocksSound(s, u)' /\ PathsSound(s, u)'
  <2>0. LocksSound(s, u) /\ PathsSound(s, u) /\ s \in Threads /\ u \in Threads
    BY <1>3, <1>7 DEF RequestsSound, Active
  <2>1. SameRequest(req'[s], req[s]) /\ SameRequest(req'[u], req[u])
    BY <1>2, <2>0
  <2>. QED  BY <1>4, <2>0, <2>1 DEF LocksSound, PathsSound, SameRequest
<1>. QED  BY <1>3, <1>4, <1>5, <1>6, <1>7 DEF RequestsSound

\* A request that ends, and may leave a node where it was.
LEMMA Ends ==
    ASSUME RequestsSound, NEW t \in Threads,
           req' = [req EXCEPT ![t] = Idle], stale' = stale,
           \A p \in Path : node'[p] \in {node[p], NoNode} \/ (t \in Active /\ p = req[t].at)
    PROVE  /\ RequestsSound' /\ Active' = Active \ {t}
           /\ \A s \in Active' : req'[s] = req[s]
<1>1. /\ req'[t] = Idle
      /\ \A s \in Threads \ {t} : req'[s] = req[s]
  BY DEF RequestsSound
<1>2. Active' = Active \ {t}
  BY <1>1 DEF Active, Stage, Idle
<1>3. req' \in [Threads -> Request]
  <2>. Idle \in Request
    BY DEF Idle, Request, Place
  <2>. QED  BY DEF RequestsSound
<1>4. ASSUME NEW s \in Threads
      PROVE  RequestSound(s)' /\ RenameSound(s)'
  <2>1. CASE s = t
    BY <1>1, <2>1 DEF RequestSound, RenameSound, At, Stage, Instantiating, Removing, Renaming, Idle
  <2>2. CASE s # t
    <3>0. RequestSound(s) /\ RenameSound(s) /\ req'[s] = req[s]
      BY <1>1, <2>2 DEF RequestsSound
    <3>1. RequestSound(s)'
      BY <3>0 DEF RequestSound, At, Stage, Instantiating, Removing, Renaming
    <3>2. ASSUME Renaming(s), Len(req[s].path) < Len(req[s].to),
                 NEW r \in Beneath(req[s].path)
          PROVE  node'[r] = NoNode /\ \A u \in Active' : req'[u].at # r
      <4>1. r \in Path /\ node[r] = NoNode /\ \A u \in Active : req[u].at # r
        BY <3>0, <3>2 DEF RenameSound, Beneath
      <4>. QED  BY <1>1, <1>2, <4>1 DEF Active
    <3>3. RenameSound(s)'
      BY <3>0, <3>2 DEF RenameSound, Renaming, At, Stage
    <3>. QED  BY <3>1, <3>3
  <2>. QED  BY <2>1, <2>2
<1>5. ASSUME NEW s \in Active', NEW u \in Active'
      PROVE  LocksSound(s, u)' /\ PathsSound(s, u)'
  <2>1. /\ LocksSound(s, u) /\ PathsSound(s, u)
        /\ req'[s] = req[s] /\ req'[u] = req[u]
    BY <1>1, <1>2, <1>5 DEF RequestsSound, Active
  <2>. QED  BY <2>1 DEF LocksSound, PathsSound
<1>6. \A s \in Active' : req'[s] = req[s]
  BY <1>1, <1>2 DEF Active
<1>. QED  BY <1>2, <1>3, <1>4, <1>5, <1>6 DEF RequestsSound

\* A request that begins shares locks and unspoilt paths with lookups only.
LEMMA Begins ==
    ASSUME RequestsSound, NEW t \in Threads, NEW r \in Request, Begin(t, r),
           r.stage # "idle", r.at = r.path, r.into = r.to,
           RequestSound(t)', RenameSound(t)',
           \A d \in r.locks : Len(d) = 2 => Parent(d) \in r.locks,
           \A s \in Active :
              /\ req[s].locks \cap r.locks # {} => req[s].op = "lookup" /\ r.op = "lookup"
              /\ Renaming(s) /\ Len(req[s].path) < Len(req[s].to) =>
                    r.at \notin Beneath(req[s].path)
    PROVE  /\ RequestsSound' /\ Active' = Active \cup {t} /\ t \notin Active
           /\ req'[t] = r /\ \A s \in Active : req'[s] = req[s]
           /\ stale \subseteq stale'
<1>1. /\ req' = [req EXCEPT ![t] = r] /\ req'[t] = r /\ t \notin Active
      /\ \A s \in Threads \ {t} : req'[s] = req[s]
  BY DEF RequestsSound, Begin, Active, At
<1>2. Active' = Active \cup {t} /\ \A s \in Active : req'[s] = req[s]
  BY <1>1 DEF Active, Stage
<1>3. stale \subseteq stale' /\ node' = node
  BY DEF Begin
<1>4. req' \in [Threads -> Request]
  BY <1>1 DEF RequestsSound
<1>5. ASSUME NEW s \in Threads
      PROVE  RequestSound(s)' /\ RenameSound(s)'
  <2>1. CASE s = t
    BY <2>1
  <2>2. CASE s # t
    <3>0. RequestSound(s) /\ RenameSound(s) /\ req'[s] = req[s]
      BY <1>1, <2>2 DEF RequestsSound
    <3>1. RequestSound(s)'
      BY <3>0 DEF RequestSound, At, Stage, Instantiating, Removing, Renaming
    <3>2. ASSUME Renaming(s), Len(req[s].path) < Len(req[s].to),
                 NEW o \in Beneath(req[s].path)
          PROVE  node'[o] = NoNode /\ \A u \in Active' : req'[u].at # o
      <4>1. node[o] = NoNode /\ \A u \in Active : req[u].at # o
        BY <3>0, <3>2 DEF RenameSound
      <4>2. s \in Active
        BY <3>2 DEF Active, Renaming, Stage
      <4>. QED  BY <1>1, <1>2, <1>3, <3>2, <4>1, <4>2
    <3>3. RenameSound(s)'
      BY <3>0, <3>2 DEF RenameSound, Renaming, At, Stage
    <3>. QED  BY <3>1, <3>3
  <2>. QED  BY <2>1, <2>2
<1>6. ASSUME NEW u \in Active
      PROVE  Uses(r) \cap Uses(req[u]) \cap Path \subseteq stale' \/ (r.op = "lookup" /\ req[u].op = "lookup")
  <2>. SUFFICES ASSUME NEW p \in Path, p \in Uses(r), p \in Uses(req[u]),
                       r.op # "lookup" \/ req[u].op # "lookup"
                PROVE  p \in stale'
    OBVIOUS
  <2>. DEFINE T == {s \in Active : r.op # "lookup" \/ req[s].op # "lookup"}
  <2>0. u \in T /\ p # Root
    BY RootFacts
  <2>. HIDE DEF T
  <2>1. p \in UsedBy(T)
    BY <2>0 DEF UsedBy
  <2>. QED  BY <2>1 DEF Begin, T
<1>7. ASSUME NEW s \in Active', NEW u \in Active'
      PROVE  LocksSound(s, u)' /\ PathsSound(s, u)'
  <2>1. CASE s \in Active /\ u \in Active
    <3>1. LocksSound(s, u) /\ PathsSound(s, u) /\ req'[s] = req[s] /\ req'[u] = req[u]
      BY <1>2, <2>1 DEF RequestsSound
    <3>. QED  BY <1>3, <3>1 DEF LocksSound, PathsSound
  <2>2. CASE s = t /\ u \in Active
    <3>1. LocksSound(u, u) /\ req'[s] = r /\ req'[u] = req[u]
      BY <1>1, <1>2, <2>2 DEF RequestsSound
    <3>2. PathsSound(u, u)
      BY <2>2 DEF RequestsSound
    <3>. QED  BY <1>3, <1>6, <2>2, <3>1, <3>2 DEF LocksSound, PathsSound
  <2>3. CASE s \in Active /\ u = t
    <3>1. req'[s] = req[s] /\ req'[u] = r
      BY <1>1, <1>2, <2>3
    <3>. QED  BY <1>3, <1>6, <2>3, <3>1 DEF LocksSound, PathsSound
  <2>4. CASE s = t /\ u = t
    <3>1. req'[s] = r /\ req'[u] = r
      BY <1>1, <2>4
    <3>. QED  BY <1>3, <2>4, <3>1 DEF LocksSound, PathsSound
  <2>. QED  BY <1>2, <2>1, <2>2, <2>3, <2>4
<1>. QED  BY <1>1, <1>2, <1>3, <1>4, <1>5, <1>7 DEF RequestsSound

\* What a rename that moves nodes may rely on: its locks keep all others away
\* from the new place, and from the old one but in the root.
LEMMA RenameHolds ==
    ASSUME RequestsSound, NEW t \in Active, At(t, "move"),
           NEW p, p = req[t].at, NEW q, q = req[t].into
    PROVE  /\ p \in Path /\ q \in Path /\ p # q /\ q \notin Beneath(p)
           /\ req[t].path \in Path /\ req[t].to \in Path /\ req[t].op \in {"rename", "exchange"}
           /\ req[t].op = "exchange" => Len(p) = 1 /\ Len(q) = 1
           /\ {Parent(p), Parent(q), q} \subseteq req[t].locks
           /\ Len(p) = 1 \/ Len(q) = 1 =>
                 p = req[t].path /\ q = req[t].to /\ Root \in req[t].locks
           /\ \A s \in Active \ {t} :
                 /\ req[s].locks \cap req[t].locks = {}
                 /\ \A d \in req[s].locks :
                       d \notin Within(q) /\ (d \in Within(p) => Len(p) = 1 /\ Len(q) = 1)
                 /\ \A r \in Beneath(p) : r \in {req[s].at, req[s].into} => Len(q) = 1
<1>1. /\ RequestSound(t) /\ RenameSound(t) /\ Renaming(t) /\ t \in Threads
      /\ ~At(t, "rename") /\ ~At(t, "idle")
  BY DEF RequestsSound, Active, Renaming, At
<1>2. /\ p \in Path /\ q \in Path /\ p # q
      /\ req[t].path \in Path /\ req[t].to \in Path /\ req[t].op \in {"rename", "exchange"}
      /\ req[t].path # req[t].to /\ req[t].to \notin Beneath(req[t].path)
      /\ Len(p) = Len(req[t].path) /\ Len(q) = Len(req[t].to)
      /\ {Parent(p), Parent(q), q} \subseteq req[t].locks
      /\ Parent(p) # Parent(q) => p \in req[t].locks
      /\ Root \in {Parent(req[t].path), Parent(req[t].to)} =>
            p = req[t].path /\ q = req[t].to
      /\ req[t].op = "exchange" => Parent(req[t].path) = Root /\ Parent(req[t].to) = Root
      /\ Len(req[t].path) < Len(req[t].to) =>
            \A r \in Beneath(req[t].path) : \A s \in Active : req[s].at # r
  BY <1>1 DEF RequestSound, RenameSound
<1>3. Len(p) = 1 \/ Len(q) = 1 =>
         p = req[t].path /\ q = req[t].to /\ Root \in req[t].locks
  BY <1>2, PathFacts
<1>4. q \notin Beneath(p)
  BY <1>2, <1>3, PathFacts, RebasedFacts
<1>5. req[t].op = "exchange" => Len(p) = 1 /\ Len(q) = 1
  BY <1>2, PathFacts
<1>6. ASSUME NEW s \in Active \ {t}
      PROVE  /\ req[s].locks \cap req[t].locks = {}
             /\ \A d \in req[s].locks :
                   d \notin Within(q) /\ (d \in Within(p) => Len(p) = 1 /\ Len(q) = 1)
             /\ \A r \in Beneath(p) : r \in {req[s].at, req[s].into} => Len(q) = 1
  <2>1. /\ s \in Active /\ s \in Threads /\ LocksSound(s, t) /\ LocksSound(s, s)
        /\ req[s] \in Request
    BY DEF RequestsSound, Active
  <2>2. req[s].locks \cap req[t].locks = {}
    BY <1>2, <2>1 DEF LocksSound
  <2>3. ASSUME NEW d \in req[s].locks
        PROVE  d \notin Within(q) /\ (d \in Within(p) => Len(p) = 1 /\ Len(q) = 1)
    <3>1. Len(d) = 2 => Parent(d) \in req[s].locks
      BY <2>1 DEF LocksSound
    <3>2. d \notin Within(q)
      BY <1>2, <2>2, <2>3, <3>1, BeneathFacts, RebasedFacts DEF Within
    <3>3. ASSUME d \in Within(p)
          PROVE  Len(p) = 1 /\ Len(q) = 1
      <4>1. d = p \/ (d \in Beneath(p) /\ Parent(d) = p /\ Len(d) = 2)
        BY <3>3, BeneathFacts, RebasedFacts, <1>2 DEF Within
      <4>2. p \notin req[t].locks
        BY <2>2, <2>3, <3>1, <4>1
      <4>3. Parent(p) = Parent(q)
        BY <1>2, <4>2
      <4>4. CASE Len(p) = 2
        <5>1. d = p
          BY <1>2, <4>1, <4>4, PathFacts
        <5>. QED  BY <1>2, <2>2, <3>1, <4>4, <5>1
      <4>5. CASE Len(p) = 1
        BY <1>2, <4>3, <4>5, PathFacts
      <4>. QED  BY <1>2, <4>4, <4>5, PathFacts
    <3>. QED  BY <3>2, <3>3
  <2>4. ASSUME NEW r \in Beneath(p), r \in {req[s].at, req[s].into}
        PROVE  Len(q) = 1
    <3>1. Parent(r) = p /\ Len(p) = 1 /\ r \in Path
      BY <1>2, BeneathFacts, RebasedFacts
    <3>2. p = req[t].path /\ q = req[t].to
      BY <1>3, <3>1
    <3>. SUFFICES ASSUME Len(q) = 2 PROVE FALSE
      BY <1>2, PathFacts
    <3>3. r = req[s].into
      <4>0. Len(p) < Len(q)
        BY <3>1
      <4>1. Len(req[t].path) < Len(req[t].to)
        BY <3>2, <4>0, Zenon
      <4>2. req[s].at # r
        BY <1>2, <2>1, <3>2, <4>1
      <4>. QED  BY <2>4, <4>2
    <3>4. p \in req[t].locks
      BY <1>2, <3>1, PathFacts
    <3>5. Renaming(s)
      BY <2>1, <3>1, <3>3, RootFacts DEF RequestsSound, RequestSound
    <3>6. p \in req[s].locks
      BY <2>1, <3>1, <3>3, <3>5 DEF RequestsSound, RenameSound
    <3>. QED  BY <2>2, <3>4, <3>6
  <2>. QED  BY <2>2, <2>3, <2>4
<1>. QED  BY <1>2, <1>3, <1>4, <1>5, <1>6

LEMMA SameValues ==
    ASSUME NEW r \in Request, NEW a, NEW i, NEW L, r.at = a, r.into = i, r.locks = L
    PROVE  [r EXCEPT !.at = a, !.into = i, !.locks = L] = r
BY DEF Request

LEMMA OthersKeep ==
    ASSUME RequestsSound, NEW t \in Active, RenameReply(t), NEW s \in Threads \ {t}
    PROVE  \E a, i, L : req'[s] = [req[s] EXCEPT !.at = a, !.into = i, !.locks = L]
<1>. DEFINE swap == req[t].op = "exchange"
            a == MovedPlace(req[s].at, req[t].at, req[t].into, swap)
            i == MovedPlace(req[s].into, req[t].at, req[t].into, swap)
            L == {MovedPath(d, req[t].at, req[t].into, swap) : d \in req[s].locks}
<1>1. req'[s] = [req[s] EXCEPT !.at = a, !.into = i, !.locks = L]
  BY DEF RenameReply, RequestsSound, Active
<1>. HIDE DEF a, i, L
<1>. QED  BY <1>1

\* The places of the others' names, and the locks they hold, after the move.
LEMMA OthersMove ==
    ASSUME RequestsSound, NEW t \in Active, RenameReply(t),
           NEW p, p = req[t].at, NEW q, q = req[t].into,
           NEW swap \in BOOLEAN, swap <=> req[t].op = "exchange"
    PROVE  /\ Active' = Active \ {t} /\ req'[t] = Idle
           /\ \A s \in Threads \ {t} :
                 /\ req'[s].stage = req[s].stage /\ req'[s].op = req[s].op
                 /\ req'[s].path = req[s].path /\ req'[s].to = req[s].to
                 /\ req'[s].attr = req[s].attr /\ req'[s].inode = req[s].inode
                 /\ req'[s].user = req[s].user
                 /\ req'[s].at = MovedPlace(req[s].at, p, q, swap)
                 /\ req'[s].into = MovedPlace(req[s].into, p, q, swap)
                 /\ req'[s].locks = {MovedPath(d, p, q, swap) : d \in req[s].locks}
<1>1. t \in Threads /\ req \in [Threads -> Request]
  BY DEF RequestsSound, Active
<1>0. req'[t] = Idle
  BY <1>1 DEF RenameReply
<1>2. \A s \in Threads \ {t} :
         req'[s] = [req[s] EXCEPT !.at = MovedPlace(@, p, q, swap),
                                  !.into = MovedPlace(@, p, q, swap),
                                  !.locks = {MovedPath(d, p, q, swap) : d \in @}]
  BY <1>1 DEF RenameReply
<1>3. ASSUME NEW s \in Threads \ {t}
      PROVE  /\ req'[s].stage = req[s].stage /\ req'[s].op = req[s].op
             /\ req'[s].path = req[s].path /\ req'[s].to = req[s].to
             /\ req'[s].attr = req[s].attr /\ req'[s].inode = req[s].inode
             /\ req'[s].user = req[s].user
             /\ req'[s].at = MovedPlace(req[s].at, p, q, swap)
             /\ req'[s].into = MovedPlace(req[s].into, p, q, swap)
             /\ req'[s].locks = {MovedPath(d, p, q, swap) : d \in req[s].locks}
  <2>. DEFINE a == MovedPlace(req[s].at, p, q, swap)
              i == MovedPlace(req[s].into, p, q, swap)
              L == {MovedPath(d, p, q, swap) : d \in req[s].locks}
  <2>1. req[s] \in Request
    BY <1>1
  <2>2. req'[s] = [req[s] EXCEPT !.at = a, !.into = i, !.locks = L]
    BY <1>2
  <2>. HIDE DEF a, i, L
  <2>3. /\ req'[s].stage = req[s].stage /\ req'[s].op = req[s].op
        /\ req'[s].path = req[s].path /\ req'[s].to = req[s].to
        /\ req'[s].attr = req[s].attr /\ req'[s].inode = req[s].inode
        /\ req'[s].user = req[s].user
        /\ req'[s].at = a /\ req'[s].into = i /\ req'[s].locks = L
    BY <2>1, <2>2 DEF Request
  <2>. QED  BY <2>3 DEF a, i, L
<1>4. Active' = Active \ {t}
  <2>0. req'[t].stage = "idle"
    BY <1>0 DEF Idle
  <2>1. \A s \in Threads \ {t} : req'[s].stage = req[s].stage
    BY <1>3
  <2>. QED  BY <2>0, <2>1 DEF Active, Stage
<1>. QED  BY <1>0, <1>2, <1>3, <1>4

\* A name that moves with a directory leaves its old and its new path wrong.
LEMMA NamesLeftWrong ==
    ASSUME NEW t \in Active, NEW p \in Path, NEW q \in Path,
           p = req[t].path, q = req[t].to,
           NEW s \in Active \ {t}, NEW r \in Uses(req[s]), NEW e,
           \/ r \in Beneath(p) /\ e \in Beneath(q) /\ Rebased(e, q, p) = r
           \/ r \in Beneath(q) /\ e \in Beneath(p) /\ Rebased(e, p, q) = r
    PROVE  {e, r} \subseteq LeftWrong(t)
<1>1. r \in Path
  BY BeneathFacts
<1>. DEFINE T == Active \ {t}
<1>2. s \in T /\ r # Root
  BY <1>1, RootFacts
<1>. HIDE DEF T
<1>3. r \in Touched(T)
  BY <1>2 DEF Touched, UsedBy
<1>. QED  BY <1>3 DEF LeftWrong, T

LEMMA PlacesMove ==
    ASSUME RequestsSound, NEW t \in Active, RenameReply(t),
           NEW p, p = req[t].at, NEW q, q = req[t].into,
           NEW swap \in BOOLEAN, swap <=> req[t].op = "exchange",
           NEW s \in Active \ {t}, NEW r \in {req[s].at, req[s].into}, r \in Path,
           NEW e, e = MovedPlace(r, p, q, swap)
    PROVE  /\ e \in Path /\ Len(e) = Len(r)
           /\ Parent(e) = MovedPath(Parent(r), p, q, swap)
           /\ r \in req[s].locks /\ Parent(r) \in req[s].locks =>
                 e = MovedPath(r, p, q, swap)
           /\ e # r => {e, r} \subseteq stale'
           /\ Root \in req[s].locks => e = r
           /\ Parent(r) \in req[s].locks =>
                 \/ e = r /\ r \notin Within(q)
                 \/ e \in Within(q) /\ Rebased(e, q, p) = r
<1>1. At(t, "move") /\ stale' = stale \cup LeftWrong(t)
  BY DEF RenameReply
<1>0. /\ p \in Path /\ q \in Path /\ p # q /\ q \notin Beneath(p)
      /\ req[t].path \in Path /\ req[t].to \in Path /\ req[t].op \in {"rename", "exchange"}
      /\ req[t].op = "exchange" => Len(p) = 1 /\ Len(q) = 1
      /\ {Parent(p), Parent(q), q} \subseteq req[t].locks
      /\ Len(p) = 1 \/ Len(q) = 1 =>
            p = req[t].path /\ q = req[t].to /\ Root \in req[t].locks
      /\ \A o \in Active \ {t} :
            /\ req[o].locks \cap req[t].locks = {}
            /\ \A d \in req[o].locks :
                  d \notin Within(q) /\ (d \in Within(p) => Len(p) = 1 /\ Len(q) = 1)
            /\ \A x \in Beneath(p) : x \in {req[o].at, req[o].into} => Len(q) = 1
  BY <1>1, RenameHolds
<1>2. /\ p \in Path /\ q \in Path /\ p # q
      /\ swap \in BOOLEAN /\ (swap => Len(p) = 1 /\ Len(q) = 1)
      /\ {Parent(p), Parent(q), q} \subseteq req[t].locks
      /\ Len(p) = 1 \/ Len(q) = 1 =>
            p = req[t].path /\ q = req[t].to /\ Root \in req[t].locks
      /\ req[s].locks \cap req[t].locks = {}
      /\ \A d \in req[s].locks :
            d \notin Within(q) /\ (d \in Within(p) => Len(p) = 1 /\ Len(q) = 1)
      /\ r \in Beneath(p) => Len(q) = 1
  BY <1>0
<1>3. /\ e \in Path /\ Len(e) = Len(r)
      /\ Parent(e) = MovedPath(Parent(r), p, q, swap)
      /\ r \notin {p, q} => e = MovedPath(r, p, q, swap)
      /\ \/ e = r /\ r \notin Beneath(p)
         \/ r \in Beneath(p) /\ e \in Beneath(q) /\ Rebased(e, q, p) = r
         \/ swap /\ r \in Beneath(q) /\ e \in Beneath(p) /\ Rebased(e, p, q) = r
  <2>1. /\ p \in Path /\ q \in Path /\ p # q
        /\ swap \in BOOLEAN /\ (swap => Len(p) = 1 /\ Len(q) = 1)
        /\ r \in Beneath(p) => Len(q) = 1
    BY <1>2
  <2>. QED  BY <2>1, MovedPlaceFacts
<1>4. ASSUME r \in req[s].locks, Parent(r) \in req[s].locks
      PROVE  e = MovedPath(r, p, q, swap)
  <2>1. r # q /\ (r = p => Len(p) = 1)
    BY <1>2, <1>4 DEF Within
  <2>2. r # p
    BY <1>2, <1>4, <2>1, PathFacts
  <2>. QED  BY <1>3, <2>1, <2>2
<1>5. ASSUME e # r
      PROVE  {e, r} \subseteq stale'
  <2>1. p = req[t].path /\ q = req[t].to
    BY <1>2, <1>3, <1>5, RebasedFacts
  <2>2. r \in Uses(req[s])
    BY DEF Uses
  <2>. QED  BY <1>1, <1>2, <1>3, <1>5, <2>1, <2>2, NamesLeftWrong
<1>6. ASSUME Root \in req[s].locks
      PROVE  e = r
  <2>1. Len(p) = 2 /\ Len(q) = 2
    BY <1>2, <1>6, PathFacts
  <2>. QED  BY <1>2, <1>3, <2>1, PathFacts
<1>7. ASSUME Parent(r) \in req[s].locks
      PROVE  \/ e = r /\ r \notin Within(q)
             \/ e \in Within(q) /\ Rebased(e, q, p) = r
  <2>1. Parent(r) # q /\ r # q
    BY <1>2, <1>7 DEF Within
  <2>2. r \notin Within(q)
    BY <1>2, <2>1, BeneathFacts DEF Within
  <2>. QED  BY <1>3, <2>2 DEF Within
<1>. QED  BY <1>3, <1>4, <1>5, <1>6, <1>7

LEMMA LocksMove ==
    ASSUME RequestsSound, NEW t \in Active, RenameReply(t),
           NEW p, p = req[t].at, NEW q, q = req[t].into,
           NEW swap \in BOOLEAN, swap <=> req[t].op = "exchange",
           NEW s \in Active \ {t}, NEW d \in req[s].locks,
           NEW e, e = MovedPath(d, p, q, swap)
    PROVE  /\ e \in Place /\ Len(e) = Len(d)
           /\ Len(d) = 2 => Parent(e) = MovedPath(Parent(d), p, q, swap)
           /\ \/ e = d /\ d \notin Within(q)
              \/ e \in Within(q) /\ Rebased(e, q, p) = d
<1>1. At(t, "move") /\ req[s] \in Request
  BY DEF RenameReply, RequestsSound, Active
<1>2. /\ p \in Path /\ q \in Path /\ p # q
      /\ req[t].op = "exchange" => Len(p) = 1 /\ Len(q) = 1
      /\ \A o \in Active \ {t} : \A x \in req[o].locks :
            x \notin Within(q) /\ (x \in Within(p) => Len(p) = 1 /\ Len(q) = 1)
  BY <1>1, RenameHolds
<1>3. /\ swap => Len(p) = 1 /\ Len(q) = 1
      /\ d \notin Within(q) /\ (d \in Within(p) => Len(p) = 1 /\ Len(q) = 1)
  BY <1>2
<1>4. d \in Place
  BY <1>1 DEF Request
<1>5. /\ e \in Place /\ Len(e) = Len(d)
      /\ Len(d) = 2 => Parent(e) = MovedPath(Parent(d), p, q, swap)
      /\ \/ e = d /\ d \notin Within(p)
         \/ /\ d \in Within(p) /\ e \in Within(q) /\ Rebased(e, q, p) = d
         \/ /\ swap /\ d \in Within(q) /\ e \in Within(p) /\ Rebased(e, p, q) = d
  BY <1>2, <1>3, <1>4, MovedPathFacts
<1>. QED  BY <1>3, <1>5

\* Nothing comes to be beneath a directory that another rename moves down.
LEMMA NothingComesBeneath ==
    ASSUME RequestsSound, NEW t \in Active, RenameReply(t),
           NEW s \in Active \ {t}, Renaming(s), Len(req[s].path) < Len(req[s].to),
           NEW r \in Beneath(req[s].path)
    PROVE  node'[r] = NoNode /\ \A u \in Active' : req'[u].at # r
<1>. SUFFICES ASSUME NEW p, p = req[t].at, NEW q, q = req[t].into,
                     NEW swap \in BOOLEAN, swap <=> req[t].op = "exchange"
              PROVE  node'[r] = NoNode /\ \A u \in Active' : req'[u].at # r
  OBVIOUS
<1>1. At(t, "move") /\ RequestSound(s) /\ RenameSound(s) /\ ~At(s, "idle")
  BY DEF RenameReply, RequestsSound, Active, At
<1>2. /\ p \in Path /\ q \in Path /\ p # q /\ q \notin Beneath(p)
      /\ req[t].op = "exchange" => Len(p) = 1 /\ Len(q) = 1
      /\ {Parent(p), Parent(q), q} \subseteq req[t].locks
      /\ Len(p) = 1 \/ Len(q) = 1 => Root \in req[t].locks
      /\ \A o \in Active \ {t} : req[o].locks \cap req[t].locks = {}
  BY <1>1, RenameHolds
<1>3. /\ req[s].path \in Path /\ req[s].to \in Path /\ req[s].at \in Path /\ req[s].into \in Path
      /\ Len(req[s].at) = Len(req[s].path) /\ Len(req[s].into) = Len(req[s].to)
      /\ Parent(req[s].at) \in req[s].locks
      /\ Parent(req[s].at) # Parent(req[s].into) => req[s].at \in req[s].locks
      /\ Root \in {Parent(req[s].path), Parent(req[s].to)} => req[s].at = req[s].path
      /\ node[r] = NoNode /\ \A u \in Active : req[u].at # r
  BY <1>1 DEF RequestSound, RenameSound
<1>4. Len(req[s].path) = 1 /\ Len(req[s].to) = 2
  <2>. DEFINE a == Len(req[s].path)
              b == Len(req[s].to)
  <2>1. a \in {1, 2} /\ b \in {1, 2}
    BY <1>3, PathFacts
  <2>2. a < b
    OBVIOUS
  <2>. HIDE DEF a, b
  <2>3. a = 1 /\ b = 2
    BY <2>1, <2>2
  <2>. QED  BY <2>3 DEF a, b
<1>5. /\ req[s].at = req[s].path /\ Root \in req[s].locks
      /\ req[s].path \in req[s].locks
  <2>1. Parent(req[s].path) = Root
    BY <1>3, <1>4, PathFacts
  <2>2. req[s].at = req[s].path
    BY <1>3, <2>1
  <2>3. Len(req[s].into) = 2
    BY <1>3, <1>4
  <2>4. Parent(req[s].into) # Root
    BY <1>3, <2>3, PathFacts
  <2>. QED  BY <1>3, <2>1, <2>2, <2>4
<1>6. Len(p) = 2 /\ Len(q) = 2 /\ ~swap /\ Beneath(p) = {} /\ Beneath(q) = {}
  <2>1. Root \notin req[t].locks
    BY <1>2, <1>5
  <2>2. Len(p) # 1 /\ Len(q) # 1
    BY <1>2, <2>1, Zenon
  <2>3. Len(p) = 2 /\ Len(q) = 2
    BY <1>2, <2>2, PathFacts
  <2>4. ~swap
    BY <1>2, <2>2
  <2>. QED  BY <1>2, <2>3, <2>4, PathFacts
<1>7. r \in Path /\ Parent(r) = req[s].path /\ r # q
  <2>1. r \in Path /\ Parent(r) = req[s].path
    BY <1>3, BeneathFacts
  <2>. QED  BY <1>2, <1>5, <2>1
<1>8. node' = MovedTree(node, p, q, NoNode)
  BY <1>6 DEF RenameReply
<1>9. node'[r] = NoNode
  <2>1. \/ r = p /\ node'[r] = NoNode
        \/ node'[r] = node[r]
    BY <1>2, <1>6, <1>7, <1>8, MovedTreeFacts DEF Within
  <2>. QED  BY <1>3, <2>1
<1>10. ASSUME NEW u \in Active'
       PROVE  req'[u].at # r
  <2>0. u \in Active \ {t} /\ u \in Threads
    BY <1>10, OthersMove DEF Active
  <2>1. req'[u].at = MovedPlace(req[u].at, p, q, swap)
    BY <2>0, OthersMove
  <2>2. req[u].at \in Path
    BY <2>0 DEF RequestsSound, RequestSound, Active, At
  <2>3. req'[u].at = req[u].at
    BY <1>2, <1>6, <2>1, <2>2, MovedPlaceFacts
  <2>. QED  BY <1>3, <2>0, <2>3
<1>. QED  BY <1>9, <1>10

\* What one of the others holds after the move.
LEMMA OtherHolds ==
    ASSUME RequestsSound, NEW t \in Active, RenameReply(t), NEW s \in Active \ {t}
    PROVE  /\ req'[s] \in Request
           /\ RequestSound(s)' /\ RenameSound(s)'
           /\ \A d \in req'[s].locks : Len(d) = 2 => Parent(d) \in req'[s].locks
           /\ req'[s].at # req[s].path => {req'[s].at, req[s].path} \subseteq stale'
           /\ req'[s].into # req[s].to => {req'[s].into, req[s].to} \subseteq stale'
           /\ req'[s].at # req[s].at => {req'[s].at, req[s].at} \subseteq stale'
           /\ req'[s].into # req[s].into => {req'[s].into, req[s].into} \subseteq stale'
<1>. SUFFICES ASSUME NEW p, p = req[t].at, NEW q, q = req[t].into,
                     NEW swap \in BOOLEAN, swap <=> req[t].op = "exchange"
              PROVE  /\ req'[s] \in Request
                     /\ RequestSound(s)' /\ RenameSound(s)'
                     /\ \A d \in req'[s].locks : Len(d) = 2 => Parent(d) \in req'[s].locks
                     /\ req'[s].at # req[s].path => {req'[s].at, req[s].path} \subseteq stale'
                     /\ req'[s].into # req[s].to => {req'[s].into, req[s].to} \subseteq stale'
                     /\ req'[s].at # req[s].at => {req'[s].at, req[s].at} \subseteq stale'
                     /\ req'[s].into # req[s].into => {req'[s].into, req[s].into} \subseteq stale'
  OBVIOUS
<1>1. /\ RequestSound(s) /\ RenameSound(s) /\ ~At(s, "idle") /\ s \in Threads
      /\ req[s] \in Request /\ LocksSound(s, s) /\ PathsSound(s, s)
  BY DEF RequestsSound, Active, At
<1>2. /\ req'[s].stage = req[s].stage /\ req'[s].op = req[s].op
      /\ req'[s].path = req[s].path /\ req'[s].to = req[s].to
      /\ req'[s].attr = req[s].attr /\ req'[s].inode = req[s].inode
      /\ req'[s].user = req[s].user
      /\ req'[s].at = MovedPlace(req[s].at, p, q, swap)
      /\ req'[s].into = MovedPlace(req[s].into, p, q, swap)
      /\ req'[s].locks = {MovedPath(d, p, q, swap) : d \in req[s].locks}
  BY <1>1, OthersMove
<1>3. req[s].at \in Path /\ req[s].path \in Path
  BY <1>1 DEF RequestSound
<1>. DEFINE a == req[s].at
            b == req'[s].at
            i == req[s].into
            j == req'[s].into
            L == req[s].locks
            M == req'[s].locks
<1>4. /\ b \in Path /\ Len(b) = Len(a)
      /\ Parent(b) = MovedPath(Parent(a), p, q, swap)
      /\ a \in L /\ Parent(a) \in L => b = MovedPath(a, p, q, swap)
      /\ b # a => {b, a} \subseteq stale'
      /\ Root \in L => b = a
      /\ Parent(a) \in L =>
            \/ b = a /\ a \notin Within(q)
            \/ b \in Within(q) /\ Rebased(b, q, p) = a
  BY <1>2, <1>3, PlacesMove
<1>5. ASSUME i \in Path
      PROVE  /\ j \in Path /\ Len(j) = Len(i)
             /\ Parent(j) = MovedPath(Parent(i), p, q, swap)
             /\ i \in L /\ Parent(i) \in L => j = MovedPath(i, p, q, swap)
             /\ j # i => {j, i} \subseteq stale'
             /\ Root \in L => j = i
             /\ Parent(i) \in L =>
                   \/ j = i /\ i \notin Within(q)
                   \/ j \in Within(q) /\ Rebased(j, q, p) = i
  BY <1>2, <1>5, PlacesMove
<1>6. ASSUME i = Root
      PROVE  j = Root
  BY <1>2, <1>6 DEF MovedPlace
<1>7. i \in Path \/ i = Root
  BY <1>1 DEF Request, Place
<1>8. \A d \in L : MovedPath(d, p, q, swap) \in M
  BY <1>2
<1>9. ASSUME NEW e \in M
      PROVE  e \in Place /\ (Len(e) = 2 => Parent(e) \in M)
  <2>1. PICK d \in L : e = MovedPath(d, p, q, swap)
    BY <1>2
  <2>2. /\ e \in Place /\ Len(e) = Len(d)
        /\ Len(d) = 2 => Parent(e) = MovedPath(Parent(d), p, q, swap)
    BY <2>1, LocksMove
  <2>3. Len(d) = 2 => Parent(d) \in L
    BY <1>1 DEF LocksSound
  <2>. QED  BY <1>8, <2>2, <2>3
<1>10. /\ b # a => {b, a} \subseteq stale'
       /\ j # i => {j, i} \subseteq stale'
       /\ j \in Place
  BY <1>4, <1>5, <1>6, <1>7, RootFacts DEF Place
<1>11. /\ b # req[s].path => {b, req[s].path} \subseteq stale'
       /\ j # req[s].to => {j, req[s].to} \subseteq stale'
  <2>1. stale \subseteq stale'
    BY DEF RenameReply
  <2>2. /\ a # req[s].path => {a, req[s].path} \subseteq stale
        /\ i # req[s].to => {i, req[s].to} \subseteq stale
    BY <1>1 DEF PathsSound
  <2>. QED  BY <1>10, <2>1, <2>2
<1>12. RequestSound(s)'
  <2>1. req[s].into = Root => req'[s].into = Root
    BY <1>6
  <2>2. b \in Path
    BY <1>4
  <2>. QED  BY <1>1, <1>2, <2>1, <2>2
            DEF RequestSound, At, Stage, Instantiating, Removing, Renaming
<1>13. ASSUME Renaming(s)
       PROVE  /\ j \in Path /\ b # j
              /\ Len(b) = Len(req[s].path) /\ Len(j) = Len(req[s].to)
              /\ {Parent(b), Parent(j), j} \subseteq M
              /\ Parent(b) # Parent(j) => b \in M
              /\ Root \in {Parent(req[s].path), Parent(req[s].to)} =>
                    b = req[s].path /\ j = req[s].to
  <2>1. /\ i \in Path /\ a # i
        /\ Len(a) = Len(req[s].path) /\ Len(i) = Len(req[s].to)
        /\ {Parent(a), Parent(i), i} \subseteq L
        /\ Parent(a) # Parent(i) => a \in L
        /\ Root \in {Parent(req[s].path), Parent(req[s].to)} =>
              a = req[s].path /\ i = req[s].to
    BY <1>1, <1>13 DEF RenameSound
  <2>2. /\ j \in Path /\ Len(j) = Len(i)
        /\ Parent(j) = MovedPath(Parent(i), p, q, swap)
        /\ j = MovedPath(i, p, q, swap)
        /\ Root \in L => j = i
        /\ \/ j = i /\ i \notin Within(q)
           \/ j \in Within(q) /\ Rebased(j, q, p) = i
    BY <1>5, <2>1
  <2>. HIDE DEF a, b, i, j, L, M
  <2>3. b # j
    BY <1>4, <2>1, <2>2
  <2>4. {Parent(b), Parent(j), j} \subseteq M
    BY <1>4, <1>8, <2>1, <2>2
  <2>5. Parent(b) # Parent(j) => b \in M
    BY <1>4, <1>8, <2>1, <2>2
  <2>6. Len(b) = Len(req[s].path) /\ Len(j) = Len(req[s].to)
    BY <1>4, <2>1, <2>2
  <2>7. Root \in {Parent(req[s].path), Parent(req[s].to)} =>
           b = req[s].path /\ j = req[s].to
    BY <1>4, <2>1, <2>2
  <2>. QED  BY <2>2, <2>3, <2>4, <2>5, <2>6, <2>7
<1>14. RenameSound(s)'
  <2>. SUFFICES ASSUME Renaming(s)
                PROVE  RenameSound(s)'
    BY <1>2 DEF RenameSound, Renaming, Stage
  <2>1. /\ req[s].to \in Path /\ req[s].attr \in Attr
        /\ req[s].path # req[s].to /\ req[s].to \notin Beneath(req[s].path)
        /\ req[s].op = "exchange" /\ ~At(s, "rename") =>
              Parent(req[s].path) = Root /\ Parent(req[s].to) = Root
    BY <1>1 DEF RenameSound
  <2>2. Len(req[s].path) < Len(req[s].to) =>
           \A r \in Beneath(req[s].path) :
              node'[r] = NoNode /\ \A u \in Active' : req'[u].at # r
    BY NothingComesBeneath
  <2>. QED  BY <1>2, <1>13, <2>1, <2>2 DEF RenameSound, At, Stage
<1>15. req'[s] \in Request
  <2>1. M \subseteq Place
    BY <1>9
  <2>2. b \in Place
    BY <1>4 DEF Place
  <2>. HIDE DEF b, j, M
  <2>3. PICK x, y, K : req'[s] = [req[s] EXCEPT !.at = x, !.into = y, !.locks = K]
    BY <1>1, OthersKeep
  <2>4. x = b /\ y = j /\ K = M
    BY <1>1, <2>3 DEF b, j, M, Request
  <2>. QED  BY <1>1, <1>10, <2>1, <2>2, <2>3, <2>4 DEF Request
<1>. QED  BY <1>9, <1>10, <1>11, <1>12, <1>14, <1>15

\* A rename that moves nodes keeps what the other requests hold.
LEMMA RenameReplyRequests ==
    ASSUME RequestsSound, NEW t \in Active, RenameReply(t)
    PROVE  /\ RequestsSound' /\ Active' = Active \ {t} /\ stale \subseteq stale'
           /\ \A s \in Active' :
                 /\ req'[s].stage = req[s].stage /\ req'[s].op = req[s].op
                 /\ req'[s].path = req[s].path /\ req'[s].to = req[s].to
                 /\ req'[s].attr = req[s].attr /\ req'[s].inode = req[s].inode
                 /\ req'[s].user = req[s].user
                 /\ Uses(req[s])' \subseteq Uses(req[s]) \cup stale'
                 /\ Uses(req[s]) \subseteq Uses(req[s])' \cup stale'
<1>. SUFFICES ASSUME NEW p, p = req[t].at, NEW q, q = req[t].into,
                     NEW swap \in BOOLEAN, swap <=> req[t].op = "exchange"
              PROVE  /\ RequestsSound' /\ Active' = Active \ {t} /\ stale \subseteq stale'
                     /\ \A s \in Active' :
                           /\ req'[s].stage = req[s].stage /\ req'[s].op = req[s].op
                           /\ req'[s].path = req[s].path /\ req'[s].to = req[s].to
                           /\ req'[s].attr = req[s].attr /\ req'[s].inode = req[s].inode
                           /\ req'[s].user = req[s].user
                           /\ Uses(req[s])' \subseteq Uses(req[s]) \cup stale'
                           /\ Uses(req[s]) \subseteq Uses(req[s])' \cup stale'
  OBVIOUS
<1>1. /\ t \in Threads /\ req \in [Threads -> Request]
      /\ Active' = Active \ {t} /\ req'[t] = Idle /\ stale \subseteq stale'
  BY OthersMove DEF RequestsSound, Active, RenameReply
<1>2. ASSUME NEW s \in Active \ {t}
      PROVE  /\ req'[s].stage = req[s].stage /\ req'[s].op = req[s].op
             /\ req'[s].path = req[s].path /\ req'[s].to = req[s].to
             /\ req'[s].attr = req[s].attr /\ req'[s].inode = req[s].inode
             /\ req'[s].user = req[s].user
             /\ req'[s].locks = {MovedPath(d, p, q, swap) : d \in req[s].locks}
  <2>1. s \in Threads \ {t}
    BY DEF Active
  <2>. QED  BY <2>1, OthersMove
<1>3. ASSUME NEW s \in Active \ {t}
      PROVE  /\ req'[s] \in Request
             /\ RequestSound(s)' /\ RenameSound(s)'
             /\ \A d \in req'[s].locks : Len(d) = 2 => Parent(d) \in req'[s].locks
             /\ req'[s].at # req[s].path => {req'[s].at, req[s].path} \subseteq stale'
             /\ req'[s].into # req[s].to => {req'[s].into, req[s].to} \subseteq stale'
             /\ req'[s].at # req[s].at => {req'[s].at, req[s].at} \subseteq stale'
             /\ req'[s].into # req[s].into => {req'[s].into, req[s].into} \subseteq stale'
  BY OtherHolds
<1>4. ASSUME NEW s \in Threads \ (Active \ {t})
      PROVE  req'[s] = Idle
  <2>1. CASE s = t
    BY <1>1, <2>1
  <2>2. CASE s # t
    <3>1. req[s] = Idle
      BY <2>2 DEF Active, RequestsSound, RequestSound, At
    <3>2. /\ req'[s].at = MovedPlace(req[s].at, p, q, swap)
          /\ req'[s].into = MovedPlace(req[s].into, p, q, swap)
          /\ req'[s].locks = {MovedPath(d, p, q, swap) : d \in req[s].locks}
      BY <2>2, OthersMove
    <3>3. req'[s].at = Root /\ req'[s].into = Root /\ req'[s].locks = {}
      BY <3>1, <3>2 DEF MovedPlace, Idle
    <3>4. PICK a, i, L : req'[s] = [req[s] EXCEPT !.at = a, !.into = i, !.locks = L]
      BY <2>2, OthersKeep
    <3>5. req[s] \in Request /\ req[s].at = a /\ req[s].into = i /\ req[s].locks = L
      <4>1. a = Root /\ i = Root /\ L = {}
        BY <1>1, <3>3, <3>4 DEF Request
      <4>. QED  BY <1>1, <3>1, <4>1 DEF Idle
    <3>6. req'[s] = req[s]
      BY <3>4, <3>5, SameValues
    <3>. QED  BY <3>1, <3>6
  <2>. QED  BY <2>1, <2>2
<1>5. ASSUME NEW s \in Active \ {t}
      PROVE  /\ Uses(req[s])' \subseteq Uses(req[s]) \cup stale'
             /\ Uses(req[s]) \subseteq Uses(req[s])' \cup stale'
  BY <1>2, <1>3 DEF Uses
<1>6. req' \in [Threads -> Request]
  <2>1. Idle \in Request
    BY DEF Idle, Request, Place
  <2>2. \A s \in Threads : req'[s] \in Request
    BY <1>3, <1>4, <2>1
  <2>3. \E g \in [Threads -> Request] : req' = g
    <3>. DEFINE g == [s \in Threads |-> req'[s]]
    <3>1. g \in [Threads -> Request]
      BY <2>2
    <3>2. req' = g
      BY DEF RenameReply
    <3>. QED  BY <3>1, <3>2, Zenon
  <2>. QED  BY <2>3
<1>7. ASSUME NEW s \in Threads
      PROVE  RequestSound(s)' /\ RenameSound(s)'
  <2>1. CASE s \in Active \ {t}
    BY <1>3, <2>1
  <2>2. CASE s \notin Active \ {t}
    <3>1. req'[s] = Idle
      BY <1>4, <2>2
    <3>. QED  BY <3>1
              DEF RequestSound, RenameSound, At, Stage, Instantiating, Removing, Renaming, Idle
  <2>. QED  BY <2>1, <2>2
<1>8. ASSUME NEW s \in Active \ {t}, NEW u \in Active \ {t}
      PROVE  LocksSound(s, u)'
  <2>. SUFFICES ASSUME s # u, req'[s].locks \cap req'[u].locks # {}
                PROVE  req[s].op = "lookup" /\ req[u].op = "lookup"
    BY <1>2, <1>3 DEF LocksSound
  <2>1. PICK e : e \in req'[s].locks /\ e \in req'[u].locks
    OBVIOUS
  <2>2. PICK d \in req[s].locks : e = MovedPath(d, p, q, swap)
    BY <1>2, <2>1
  <2>3. PICK c \in req[u].locks : e = MovedPath(c, p, q, swap)
    BY <1>2, <2>1
  <2>4. (e = d /\ d \notin Within(q)) \/ (e \in Within(q) /\ Rebased(e, q, p) = d)
    BY <2>2, LocksMove
  <2>5. (e = c /\ c \notin Within(q)) \/ (e \in Within(q) /\ Rebased(e, q, p) = c)
    BY <2>3, LocksMove
  <2>6. c = d
    BY <2>4, <2>5
  <2>7. LocksSound(s, u)
    BY DEF RequestsSound
  <2>. QED  BY <2>2, <2>3, <2>6, <2>7 DEF LocksSound
<1>9. ASSUME NEW s \in Active \ {t}, NEW u \in Active \ {t}
      PROVE  PathsSound(s, u)'
  <2>1. PathsSound(s, u) /\ stale \subseteq stale'
    BY <1>1 DEF RequestsSound
  <2>. SUFFICES ASSUME s # u, ~(Uses(req[s])' \cap Uses(req[u])' \cap Path \subseteq stale')
                PROVE  req[s].op = "lookup" /\ req[u].op = "lookup"
    BY <1>2, <1>3 DEF PathsSound
  <2>2. ~(Uses(req[s]) \cap Uses(req[u]) \cap Path \subseteq stale)
    BY <1>5, <2>1
  <2>. QED  BY <2>1, <2>2 DEF PathsSound
<1>10. RequestsSound'
  BY <1>1, <1>6, <1>7, <1>8, <1>9 DEF RequestsSound
<1>. QED  BY <1>1, <1>2, <1>5, <1>10

-----------------------------------------------------------------------------
(* What a step leaves alone.                                                *)

StageSound(s) == LookupSound(s) /\ MkdirSound(s) /\ RmdirSound(s) /\ MoveSound(s)

MakerKept(p) == tree[p] # NoInode => maker'[tree[p]] = maker[tree[p]]

\* Of a path: nothing changes but that its node may be forgotten.
Untouched(p) ==
    /\ tree'[p] = tree[p] /\ info'[p] = info[p] /\ dirMeta'[p] = dirMeta[p]
    /\ node'[p] \in {node[p], NoNode}
    /\ MakerKept(p)

\* What lookups rely on.
LookedUp(p) == tree'[p] = tree[p] /\ info'[p] = info[p]

\* Of the requests: all but t go on as they are, perhaps at other places.
Others(t) ==
    /\ Active' \ {t} = Active \ {t}
    /\ stale \subseteq stale'
    /\ \A s \in Active \ {t} :
          /\ req'[s].stage = req[s].stage /\ req'[s].op = req[s].op
          /\ req'[s].path = req[s].path /\ req'[s].to = req[s].to
          /\ req'[s].attr = req[s].attr /\ req'[s].inode = req[s].inode
          /\ req'[s].user = req[s].user
          /\ Uses(req[s])' \subseteq Uses(req[s]) \cup stale'
          /\ Uses(req[s]) \subseteq Uses(req[s])' \cup stale'

LEMMA OthersSame ==
    ASSUME RequestsSound, NEW t \in Threads, NEW r,
           req' = [req EXCEPT ![t] = r], stale \subseteq stale'
    PROVE  Others(t)
<1>1. \A s \in Threads \ {t} : req'[s] = req[s]
  BY DEF RequestsSound
<1>. QED  BY <1>1 DEF Others, Active, Stage, Uses

\* What one request does to its paths keeps the others' stages.
LEMMA StageKept ==
    ASSUME RequestsSound, NEW t, Others(t), NEW s \in Active \ {t}, StageSound(s),
           \A p \in Path \ stale' : (t \in Active => p \notin Uses(req[t])) => Untouched(p),
           t \in Active /\ req[t].op = "lookup" => \A p \in Path \ stale' : LookedUp(p)
    PROVE  StageSound(s)'
<1>1. /\ req'[s].stage = req[s].stage /\ req'[s].op = req[s].op
      /\ req'[s].path = req[s].path /\ req'[s].to = req[s].to
      /\ req'[s].attr = req[s].attr /\ req'[s].inode = req[s].inode
      /\ req'[s].user = req[s].user
      /\ stale \subseteq stale'
  BY DEF Others
<1>2. /\ RequestSound(s) /\ RenameSound(s) /\ ~At(s, "idle") /\ req[s].path \in Path
      /\ t \in Active => PathsSound(s, t)
  BY DEF RequestsSound, Active, At, RequestSound
<1>. DEFINE p == req[s].path
            q == req[s].to
<1>3. ASSUME NEW x \in Path \ stale', x \in Uses(req[s])
      PROVE  Untouched(x) \/ (req[s].op = "lookup" /\ LookedUp(x))
  <2>1. CASE t \in Active /\ x \in Uses(req[t])
    <3>1. req[s].op = "lookup" /\ req[t].op = "lookup"
      BY <1>1, <1>2, <1>3, <2>1 DEF PathsSound
    <3>. QED  BY <2>1, <3>1
  <2>2. CASE ~(t \in Active /\ x \in Uses(req[t]))
    BY <2>2
  <2>. QED  BY <2>1, <2>2
<1>4. p \notin stale' => Untouched(p) \/ (req[s].op = "lookup" /\ LookedUp(p))
  <2>1. p \in Uses(req[s])
    BY DEF Uses
  <2>. QED  BY <1>2, <1>3, <2>1
<1>5. LookupSound(s)'
  <2>. SUFFICES ASSUME req[s].op = "lookup", p \notin stale'
                PROVE  LookupSound(s)'
    BY <1>1 DEF LookupSound
  <2>1. tree'[p] = tree[p] /\ info'[p] = info[p]
    BY <1>4 DEF Untouched, LookedUp
  <2>. QED  BY <1>1, <2>1 DEF StageSound, LookupSound, Stage
<1>6. MkdirSound(s)'
  <2>. SUFFICES ASSUME req[s].op = "mkdir", p \notin stale'
                PROVE  MkdirSound(s)'
    BY <1>1 DEF MkdirSound
  <2>1. Untouched(p)
    BY <1>4
  <2>. QED  BY <1>1, <2>1 DEF StageSound, MkdirSound, Stage, At, Untouched, MakerKept
<1>7. RmdirSound(s)'
  <2>. SUFFICES ASSUME Removing(s), p \notin stale'
                PROVE  RmdirSound(s)'
    BY <1>1 DEF RmdirSound, Removing, Stage
  <2>1. Untouched(p)
    BY <1>2, <1>4 DEF RequestSound
  <2>. QED  BY <1>1, <2>1 DEF StageSound, RmdirSound, Removing, Stage, At, Untouched
<1>8. MoveSound(s)'
  <2>. SUFFICES ASSUME Renaming(s)
                PROVE  MoveSound(s)'
    BY <1>1 DEF MoveSound, Renaming, Stage, At
  <2>1. req[s].op \in {"rename", "exchange"} /\ q \in Path
    BY <1>2 DEF RequestSound, RenameSound
  <2>2. p \notin stale' => Untouched(p)
    BY <1>4, <2>1
  <2>3. q \notin stale' => Untouched(q)
    <3>1. q \in Uses(req[s])
      BY <2>1 DEF Uses, Within
    <3>. QED  BY <1>3, <2>1, <3>1
  <2>4. MoveSound(s)
    BY DEF StageSound
  <2>. QED  BY <1>1, <2>2, <2>3, <2>4 DEF MoveSound, Renaming, Stage, At, Untouched, MakerKept
<1>. QED  BY <1>5, <1>6, <1>7, <1>8 DEF StageSound

\* A path that nobody changes stays intact.
LEMMA IntactKept ==
    ASSUME NEW p \in Path, Intact(p), Untouched(p)
    PROVE  Intact(p)'
BY DEF Intact, Untouched, MakerKept

\* What a step has to keep: its own stage, and its own paths as it ends.
LEMMA StepKeeps ==
    ASSUME DirectoriesIInv, NEW t, Others(t),
           \A p \in Path \ stale' : (t \in Active => p \notin Uses(req[t])) => Untouched(p),
           t \in Active /\ req[t].op = "lookup" => \A p \in Path \ stale' : LookedUp(p),
           t \in Active' => StageSound(t)',
           t \in Active =>
              \A p \in Path \ stale' :
                 /\ p \in Uses(req[t])
                 /\ \A u \in Active' : p \in Uses(req[u])' => Harmless(u)'
                 => Intact(p)'
    PROVE  PathsIntact' /\ StagesSound'
<1>1. stale \subseteq stale' /\ Active' \ {t} = Active \ {t}
  BY DEF Others
<1>2. ASSUME NEW s \in Active'
      PROVE  StageSound(s)'
  <2>1. CASE s = t
    BY <1>2, <2>1
  <2>2. CASE s # t
    <3>1. s \in Active \ {t}
      BY <1>1, <1>2, <2>2
    <3>2. StageSound(s) /\ RequestsSound
      BY <3>1 DEF DirectoriesIInv, StagesSound, StageSound
    <3>. QED  BY <3>1, <3>2, StageKept
  <2>. QED  BY <2>1, <2>2
<1>3. ASSUME NEW p \in Path \ stale', \A u \in Active' : p \in Uses(req[u])' => Harmless(u)'
      PROVE  Intact(p)'
  <2>1. CASE t \in Active /\ p \in Uses(req[t])
    BY <1>3, <2>1
  <2>2. CASE ~(t \in Active /\ p \in Uses(req[t]))
    <3>1. ASSUME NEW u \in Active, p \in Uses(req[u])
          PROVE  Harmless(u)
      <4>1. u # t
        BY <2>2, <3>1
      <4>2. p \in Uses(req[u])' /\ u \in Active'
        BY <1>1, <3>1, <4>1 DEF Others
      <4>3. req'[u].op = req[u].op /\ req'[u].stage = req[u].stage
        BY <4>1 DEF Others
      <4>. QED  BY <1>3, <4>2, <4>3 DEF Harmless, Stage
    <3>2. Intact(p)
      BY <1>1, <3>1 DEF DirectoriesIInv, PathsIntact
    <3>. QED  BY <2>2, <3>2, IntactKept
  <2>. QED  BY <2>1, <2>2
<1>. QED  BY <1>2, <1>3 DEF PathsIntact, StagesSound, StageSound

\* The paths of a request that no other one spoils.
LEMMA OwnPath ==
    ASSUME RequestsSound, NEW t \in Active, req[t].op \notin {"rename", "exchange"},
           NEW p \in Path \ stale, p \in Uses(req[t])
    PROVE  p = req[t].path /\ req[t].at = p
<1>1. RequestSound(t) /\ PathsSound(t, t) /\ p # Root
  BY RootFacts DEF RequestsSound, Active
<1>2. req[t].into = Root
  BY <1>1 DEF RequestSound
<1>3. p \in {req[t].path, req[t].at}
  BY <1>1, <1>2 DEF Uses
<1>. QED  BY <1>1, <1>3 DEF PathsSound

LEMMA Alone ==
    ASSUME RequestsSound, NEW t \in Active, NEW p \in Path \ stale, p \in Uses(req[t]),
           NEW s \in Active \ {t}, p \in Uses(req[s])
    PROVE  req[s].op = "lookup" /\ req[t].op = "lookup"
<1>1. PathsSound(s, t)
  BY DEF RequestsSound
<1>. QED  BY <1>1 DEF PathsSound

LEMMA HarmlessIntact ==
    ASSUME DirectoriesIInv, NEW t \in Active, Harmless(t),
           NEW p \in Path \ stale, p \in Uses(req[t])
    PROVE  Intact(p)
<1>1. ASSUME NEW u \in Active, p \in Uses(req[u])
      PROVE  Harmless(u)
  <2>1. CASE u = t
    BY <2>1
  <2>2. CASE u # t
    BY <1>1, <2>2, Alone DEF DirectoriesIInv, Harmless
  <2>. QED  BY <2>1, <2>2
<1>. QED  BY <1>1 DEF DirectoriesIInv, PathsIntact

\* A request that goes on, and one that ends.
LEMMA Proceeds ==
    ASSUME DirectoriesIInv, NEW t \in Active, NEW r \in Request,
           req' = [req EXCEPT ![t] = r], stale' = stale, node' = node,
           SameRequest(r, req[t]), r.stage # "idle",
           RequestSound(t)', Renaming(t)' => Renaming(t) /\ r.attr \in Attr,
           r.op = "exchange" /\ r.stage # "rename" =>
              \/ ~At(t, "rename")
              \/ Parent(r.path) = Root /\ Parent(r.to) = Root,
           \A p \in Path \ stale : p \notin Uses(req[t]) => Untouched(p),
           req[t].op = "lookup" => \A p \in Path \ stale : LookedUp(p),
           StageSound(t)',
           \A p \in Path \ stale : p \in Uses(req[t]) /\ Harmless(t)' => Intact(p)'
    PROVE  RequestsSound' /\ PathsIntact' /\ StagesSound'
<1>1. /\ RequestsSound' /\ Active' = Active
      /\ \A s \in Threads : Uses(req[s])' = Uses(req[s])
  BY GoesOn DEF DirectoriesIInv
<1>2. t \in Threads /\ t \in Active' /\ Uses(req[t])' = Uses(req[t])
  BY <1>1 DEF Active
<1>3. Others(t)
  BY <1>2, OthersSame DEF DirectoriesIInv
<1>4. \A p \in Path \ stale' :
         /\ p \in Uses(req[t])
         /\ \A u \in Active' : p \in Uses(req[u])' => Harmless(u)'
         => Intact(p)'
  BY <1>2
<1>5. PathsIntact' /\ StagesSound'
  BY <1>2, <1>3, <1>4, StepKeeps
<1>. QED  BY <1>1, <1>5

LEMMA Returns ==
    ASSUME DirectoriesIInv, NEW t \in Active,
           req' = [req EXCEPT ![t] = Idle], stale' = stale,
           \A p \in Path : node'[p] \in {node[p], NoNode} \/ p = req[t].at,
           \A p \in Path \ stale : p \notin Uses(req[t]) => Untouched(p),
           req[t].op = "lookup" => \A p \in Path \ stale : LookedUp(p),
           \A p \in Path \ stale : p \in Uses(req[t]) => Intact(p)'
    PROVE  RequestsSound' /\ PathsIntact' /\ StagesSound'
<1>0. t \in Threads
  BY DEF Active
<1>1. RequestsSound' /\ Active' = Active \ {t}
  BY <1>0, Ends DEF DirectoriesIInv
<1>2. Others(t)
  BY <1>0, OthersSame DEF DirectoriesIInv
<1>3. PathsIntact' /\ StagesSound'
  BY <1>0, <1>1, <1>2, StepKeeps
<1>. QED  BY <1>1, <1>3

\* One that ends with nothing done.
LEMMA GivesUp ==
    ASSUME DirectoriesIInv, NEW t \in Active, Return(t), UNCHANGED <<disk, maps, node, stale>>,
           \/ Harmless(t)
           \/ req[t].op \notin {"rename", "exchange"} /\ req[t].path \in stale
    PROVE  RequestsSound' /\ PathsIntact' /\ StagesSound'
<1>1. \A p \in Path : Untouched(p) /\ LookedUp(p)
  BY DEF Untouched, LookedUp, MakerKept, disk, maps
<1>2. ASSUME NEW p \in Path \ stale, p \in Uses(req[t])
      PROVE  Intact(p)'
  <2>1. Harmless(t)
    BY <1>2, OwnPath DEF DirectoriesIInv
  <2>2. Intact(p)
    BY <1>2, <2>1, HarmlessIntact
  <2>. QED  BY <1>1, <2>2, IntactKept
<1>. QED  BY <1>1, <1>2, Returns DEF Return

\* One that goes on with nothing done.
LEMMA GoesOnIdly ==
    ASSUME DirectoriesIInv, NEW t \in Active, NEW r \in Request,
           req' = [req EXCEPT ![t] = r], UNCHANGED <<disk, maps, node, stale>>,
           SameRequest(r, req[t]), r.stage # "idle", r.stage # "rename",
           RequestSound(t)', Renaming(t)' => Renaming(t) /\ ~At(t, "rename") /\ r.attr \in Attr,
           StageSound(t)', Harmless(t)' => Harmless(t)
    PROVE  RequestsSound' /\ PathsIntact' /\ StagesSound'
<1>1. \A p \in Path : Untouched(p) /\ LookedUp(p)
  BY DEF Untouched, LookedUp, MakerKept, disk, maps
<1>2. ASSUME NEW p \in Path \ stale, p \in Uses(req[t]), Harmless(t)'
      PROVE  Intact(p)'
  <2>1. Intact(p)
    BY <1>2, HarmlessIntact
  <2>. QED  BY <1>1, <2>1, IntactKept
<1>3. r.op = "exchange" => ~At(t, "rename")
  <2>1. t \in Threads /\ req'[t] = r /\ RequestSound(t)
    BY DEF RequestsSound, Active, DirectoriesIInv
  <2>2. SUFFICES ASSUME r.op = "exchange" PROVE Renaming(t)'
    OBVIOUS
  <2>. QED  BY <2>1, <2>2 DEF RequestSound, Instantiating, Removing, Renaming, Stage, Request
<1>. QED  BY <1>1, <1>2, <1>3, Proceeds

LEMMA Going ==
    ASSUME RequestsSound, NEW t \in Active,
           NEW s \in {"mkdir", "stat", "node", "meta", "info", "entry", "update", "owner",
                      "reply", "panic", "rmdir", "dropEntry", "dropInfo", "unlink", "rename",
                      "oldInfo", "newInfo", "copy", "oldEntry", "move"},
           Goto(t, s)
    PROVE  \E r \in Request :
              /\ req' = [req EXCEPT ![t] = r] /\ req'[t] = r
              /\ SameRequest(r, req[t]) /\ r.stage = s
              /\ r.inode = req[t].inode /\ r.attr = req[t].attr /\ r.user = req[t].user
<1>. DEFINE r == [req[t] EXCEPT !.stage = s]
<1>1. req[t] \in Request /\ t \in Threads
  BY DEF RequestsSound, Active
<1>2. req' = [req EXCEPT ![t] = r] /\ req'[t] = r
  BY <1>1 DEF Goto, RequestsSound
<1>3. /\ r \in Request /\ SameRequest(r, req[t]) /\ r.stage = s
      /\ r.inode = req[t].inode /\ r.attr = req[t].attr /\ r.user = req[t].user
  BY <1>1 DEF Request, SameRequest
<1>. HIDE DEF r
<1>. QED  BY <1>2, <1>3

-----------------------------------------------------------------------------
(* Mkdir and Lookup.                                                        *)

LEMMA MkdirUnderlyingKeeps ==
    ASSUME DirectoriesIInv, NEW t \in Threads, MkdirUnderlying(t)
    PROVE  RequestsSound' /\ InodesApart' /\ PathsIntact' /\ StagesSound'
<1>1. /\ RequestsSound /\ t \in Active /\ At(t, "mkdir") /\ RequestSound(t) /\ Harmless(t)
      /\ req[t] \in Request
  BY DEF DirectoriesIInv, MkdirUnderlying, Active, At, RequestsSound, Harmless
<1>. DEFINE p == req[t].path
<1>2. CASE Return(t) /\ UNCHANGED disk
  <2>1. InodesApart'
    BY <1>2 DEF disk, InodesApart, DirectoriesIInv
  <2>2. UNCHANGED <<disk, maps, node, stale>>
    BY <1>2 DEF MkdirUnderlying
  <2>. QED  BY <1>1, <1>2, <2>1, <2>2, GivesUp
<1>3. ASSUME NEW i \in Inode, \A x \in Path : tree[x] # i, ~IsDir(p),
             tree' = [tree EXCEPT ![p] = i], maker' = [maker EXCEPT ![i] = req[t].user],
             Goto(t, "stat")
      PROVE  RequestsSound' /\ InodesApart' /\ PathsIntact' /\ StagesSound'
  <2>1. /\ p \in Path /\ p # Root /\ tree[p] = NoInode /\ req[t].op = "mkdir"
        /\ req[t].to = Root /\ req[t].into = Root
    BY <1>1, <1>3, RootFacts DEF RequestSound, IsDir, At, Renaming
  <2>2. /\ tree \in [Path -> Inode \cup {NoInode}]
        /\ maker \in [Inode -> User \cup {Server}]
    BY DEF DirectoriesIInv, DirTypeOK
  <2>3. UNCHANGED <<maps, node, stale>>
    BY DEF MkdirUnderlying
  <2>4. InodesApart'
    BY <1>3, <2>1, <2>2 DEF InodesApart, DirectoriesIInv
  <2>5. PICK r \in Request :
           /\ req' = [req EXCEPT ![t] = r] /\ req'[t] = r
           /\ SameRequest(r, req[t]) /\ r.stage = "stat"
           /\ r.inode = req[t].inode /\ r.attr = req[t].attr /\ r.user = req[t].user
    BY <1>1, <1>3, Going
  <2>6. RequestSound(t)'
    BY <1>1, <2>1, <2>5
       DEF RequestSound, SameRequest, At, Stage, Instantiating, Removing, Renaming
  <2>7. ASSUME NEW x \in Path \ stale, x \notin Uses(req[t])
        PROVE  Untouched(x)
    <3>1. x # p
      BY <2>7 DEF Uses
    <3>. QED  BY <1>3, <2>1, <2>2, <2>3, <3>1 DEF Untouched, MakerKept, maps
  <2>8. StageSound(t)'
    <3>1. LookupSound(t)' /\ RmdirSound(t)' /\ MoveSound(t)'
      BY <2>1, <2>5 DEF LookupSound, RmdirSound, MoveSound, SameRequest, Removing, Renaming,
            Stage, At
    <3>2. MkdirSound(t)'
      <4>. SUFFICES ASSUME p \notin stale
                    PROVE  MkdirSound(t)'
        BY <2>3, <2>5 DEF MkdirSound, SameRequest
      <4>1. Intact(p)
        BY <1>1, <2>1, HarmlessIntact DEF Uses
      <4>2. info[p] = NoInfo /\ dirMeta[p] = NoMeta /\ node[p] = NoNode
        BY <2>1, <4>1 DEF Intact
      <4>3. tree'[p] = i /\ maker'[i] = req[t].user /\ i # NoInode
        BY <1>3, <2>1, <2>2, DirectoriesAssumption
      <4>. QED  BY <2>3, <2>5, <4>2, <4>3 DEF MkdirSound, SameRequest, Stage, At, maps
    <3>. QED  BY <3>1, <3>2 DEF StageSound
  <2>9. ~Harmless(t)' /\ ~Renaming(t)' /\ r.op = "mkdir"
    BY <2>1, <2>5 DEF Harmless, Renaming, Stage, SameRequest
  <2>10. RequestsSound' /\ PathsIntact' /\ StagesSound'
    BY <1>1, <2>1, <2>3, <2>5, <2>6, <2>7, <2>8, <2>9, Proceeds
  <2>. QED  BY <2>4, <2>10
<1>. QED  BY <1>2, <1>3 DEF MkdirUnderlying

LEMMA InstantiatingFacts ==
    ASSUME DirectoriesIInv, NEW t \in Threads, Instantiating(t) \/ At(t, "owner")
    PROVE  /\ RequestsSound /\ t \in Active /\ RequestSound(t) /\ req[t] \in Request
           /\ req[t].path \in Path /\ req[t].to = Root /\ req[t].into = Root
           /\ req[t].op \in {"mkdir", "lookup"} /\ (At(t, "owner") => req[t].op = "mkdir")
           /\ LookupSound(t) /\ MkdirSound(t)
           /\ req[t].path \in Uses(req[t])
           /\ req[t].op = "lookup" => Harmless(t)
           /\ Stage(t) \notin {"stat", "node"} => req[t].attr \in Attr
<1>1. t \in Active /\ ~At(t, "idle") /\ ~Renaming(t)
  BY DEF Active, Instantiating, At, Renaming
<1>2. RequestSound(t) /\ req[t] \in Request /\ RequestsSound
  BY DEF DirectoriesIInv, RequestsSound
<1>3. LookupSound(t) /\ MkdirSound(t)
  BY <1>1 DEF DirectoriesIInv, StagesSound
<1>. QED  BY <1>1, <1>2, <1>3 DEF RequestSound, Uses, Harmless, Instantiating, At

\* What DirTypeOK says of the maps.
LEMMA MapTypes ==
    ASSUME DirectoriesIInv, NEW p \in Path
    PROVE  /\ tree \in [Path -> Inode \cup {NoInode}] /\ maker \in [Inode -> User \cup {Server}]
           /\ info \in [Path -> Attr \cup {NoInfo}] /\ dirMeta \in [Path -> Owner \cup {NoMeta}]
           /\ node \in [Path -> Attr \cup {NoNode}]
           /\ tree[p] # NoInode => tree[p] \in Inode /\ maker[tree[p]] \in User \cup {Server}
           /\ Intact(p) /\ tree[p] # NoInode => info[p] \in Attr /\ dirMeta[p] # NoMeta
           /\ User \cup {Server, Blank} \subseteq Owner /\ NoMeta \notin Owner /\ NoInfo \notin Attr
<1>1. /\ tree \in [Path -> Inode \cup {NoInode}] /\ maker \in [Inode -> User \cup {Server}]
      /\ info \in [Path -> Attr \cup {NoInfo}] /\ dirMeta \in [Path -> Owner \cup {NoMeta}]
      /\ node \in [Path -> Attr \cup {NoNode}]
  BY DEF DirectoriesIInv, DirTypeOK
<1>2. tree[p] # NoInode => tree[p] \in Inode /\ maker[tree[p]] \in User \cup {Server}
  BY <1>1
<1>3. User \cup {Server, Blank} \subseteq Owner /\ NoMeta \notin Owner /\ NoInfo \notin Attr
  BY DirectoriesAssumption DEF Owner
<1>4. Intact(p) /\ tree[p] # NoInode => info[p] \in Attr /\ dirMeta[p] # NoMeta
  BY <1>2, <1>3 DEF Intact, Attr
<1>. QED  BY <1>1, <1>2, <1>3, <1>4

LEMMA StatKeeps ==
    ASSUME DirectoriesIInv, NEW t \in Threads, Stat(t)
    PROVE  RequestsSound' /\ InodesApart' /\ PathsIntact' /\ StagesSound'
<1>. DEFINE p == req[t].path
            r == [req[t] EXCEPT !.stage = "node", !.inode = tree[p]]
<1>1. /\ RequestsSound /\ t \in Active /\ RequestSound(t) /\ req[t] \in Request
      /\ p \in Path /\ req[t].to = Root /\ req[t].into = Root
      /\ req[t].op \in {"mkdir", "lookup"} /\ LookupSound(t) /\ MkdirSound(t)
      /\ req[t].op = "lookup" => Harmless(t)
      /\ At(t, "stat") /\ UNCHANGED <<disk, maps, node, stale>>
  BY InstantiatingFacts DEF Stat, Instantiating, At
<1>2. InodesApart'
  BY <1>1 DEF disk, InodesApart, DirectoriesIInv
<1>3. CASE tree[p] = NoInode /\ Return(t)
  <2>1. Harmless(t) \/ p \in stale
    BY <1>1, <1>3 DEF MkdirSound, At
  <2>. QED  BY <1>1, <1>2, <1>3, <2>1, GivesUp
<1>4. CASE tree[p] # NoInode /\ req' = [req EXCEPT ![t] = r]
  <2>1. tree[p] \in Inode
    BY <1>1, <1>4, MapTypes
  <2>2. /\ r \in Request /\ SameRequest(r, req[t]) /\ r.stage = "node" /\ r.inode = tree[p]
        /\ r.user = req[t].user /\ req'[t] = r
    BY <1>1, <1>4, <2>1 DEF Request, SameRequest, RequestsSound
  <2>. HIDE DEF r
  <2>3. RequestSound(t)' /\ ~Renaming(t)'
    BY <1>1, <2>1, <2>2
       DEF RequestSound, SameRequest, At, Stage, Instantiating, Removing, Renaming
  <2>4. StageSound(t)'
    <3>1. RmdirSound(t)' /\ MoveSound(t)'
      BY <1>1, <2>2 DEF RmdirSound, MoveSound, SameRequest, Removing, Renaming, Stage, At
    <3>2. LookupSound(t)'
      BY <1>1, <1>4, <2>2 DEF LookupSound, SameRequest, Stage, At, disk, maps
    <3>3. MkdirSound(t)'
      BY <1>1, <1>4, <2>2 DEF MkdirSound, SameRequest, Stage, At, disk, maps
    <3>. QED  BY <3>1, <3>2, <3>3 DEF StageSound
  <2>5. Harmless(t)' => Harmless(t)
    BY <1>1, <2>2 DEF Harmless, SameRequest, Stage
  <2>. QED  BY <1>1, <1>2, <1>4, <2>2, <2>3, <2>4, <2>5, GoesOnIdly
<1>. QED  BY <1>3, <1>4 DEF Stat

LEMMA RetrieveNodeInfoKeeps ==
    ASSUME DirectoriesIInv, NEW t \in Threads, RetrieveNodeInfo(t)
    PROVE  RequestsSound' /\ InodesApart' /\ PathsIntact' /\ StagesSound'
<1>. DEFINE p == req[t].path
<1>1. /\ RequestsSound /\ t \in Active /\ RequestSound(t) /\ req[t] \in Request
      /\ p \in Path /\ req[t].to = Root /\ req[t].into = Root
      /\ req[t].op \in {"mkdir", "lookup"} /\ LookupSound(t) /\ MkdirSound(t)
      /\ req[t].op = "lookup" => Harmless(t)
      /\ p \in Uses(req[t])
      /\ At(t, "node") /\ UNCHANGED <<disk, maps, node, stale>>
  BY InstantiatingFacts DEF RetrieveNodeInfo, Instantiating, At
<1>2. InodesApart'
  BY <1>1 DEF disk, InodesApart, DirectoriesIInv
<1>3. PICK s \in {"info", "meta"}, a \in Attr :
         /\ req' = [req EXCEPT ![t] = [req[t] EXCEPT !.stage = s, !.attr = a]]
         /\ IF info[p] = NoInfo THEN s = "info" /\ a = <<p, req[t].inode>>
            ELSE s = "meta" /\ a = info[p]
  <2>1. CASE info[p] = NoInfo
    <3>1. <<p, req[t].inode>> \in Attr
      BY <1>1 DEF RequestSound, At, Attr
    <3>. QED  BY <2>1, <3>1 DEF RetrieveNodeInfo
  <2>2. CASE info[p] # NoInfo
    <3>1. info[p] \in Attr
      BY <1>1, <2>2, MapTypes
    <3>. QED  BY <2>2, <3>1 DEF RetrieveNodeInfo
  <2>. QED  BY <2>1, <2>2
<1>. DEFINE r == [req[t] EXCEPT !.stage = s, !.attr = a]
<1>4. /\ r \in Request /\ SameRequest(r, req[t]) /\ r.stage = s /\ r.attr = a
      /\ r.user = req[t].user /\ r.inode = req[t].inode /\ req'[t] = r
      /\ req' = [req EXCEPT ![t] = r]
  BY <1>1, <1>3 DEF Request, SameRequest, RequestsSound
<1>. HIDE DEF r
<1>5. RequestSound(t)' /\ ~Renaming(t)'
  BY <1>1, <1>3, <1>4
     DEF RequestSound, SameRequest, At, Stage, Instantiating, Removing, Renaming
<1>6. StageSound(t)'
  <2>1. RmdirSound(t)' /\ MoveSound(t)'
    BY <1>1, <1>3, <1>4 DEF RmdirSound, MoveSound, SameRequest, Removing, Renaming, Stage, At
  <2>2. LookupSound(t)'
    <3>. SUFFICES ASSUME req[t].op = "lookup", p \notin stale
                  PROVE  LookupSound(t)'
      BY <1>1, <1>4 DEF LookupSound, SameRequest
    <3>1. tree[p] # NoInode
      BY <1>1 DEF LookupSound, At
    <3>2. info[p] # NoInfo
      BY <1>1, <3>1, HarmlessIntact, MapTypes
    <3>. QED  BY <1>1, <1>3, <1>4, <3>1, <3>2 DEF LookupSound, SameRequest, Stage, disk, maps
  <2>3. MkdirSound(t)'
    BY <1>1, <1>3, <1>4 DEF MkdirSound, SameRequest, Stage, At, disk, maps
  <2>. QED  BY <2>1, <2>2, <2>3 DEF StageSound
<1>7. Harmless(t)' => Harmless(t)
  BY <1>1, <1>3, <1>4 DEF Harmless, SameRequest, Stage
<1>. QED  BY <1>1, <1>2, <1>3, <1>4, <1>5, <1>6, <1>7, GoesOnIdly

\* A stage that HandleNodeInstantiation or Mkdir goes to.
LEMMA InstantiatingGoes ==
    ASSUME DirectoriesIInv, NEW t \in Threads, Instantiating(t) \/ At(t, "owner"),
           NEW s \in {"entry", "update", "reply", "owner", "panic"}, Goto(t, s),
           req[t].attr \in Attr,
           s \in {"owner", "panic"} => req[t].op = "mkdir"
    PROVE  \E r \in Request :
              /\ req' = [req EXCEPT ![t] = r] /\ req'[t] = r
              /\ SameRequest(r, req[t]) /\ r.stage = s
              /\ r.inode = req[t].inode /\ r.attr = req[t].attr /\ r.user = req[t].user
              /\ RequestSound(t)' /\ ~Renaming(t)' /\ RmdirSound(t)' /\ MoveSound(t)'
              /\ Harmless(t)' => Harmless(t)
              /\ r.op # "exchange"
<1>1. /\ RequestsSound /\ t \in Active /\ RequestSound(t) /\ req[t] \in Request
      /\ req[t].path \in Path /\ req[t].to = Root /\ req[t].into = Root
      /\ req[t].op \in {"mkdir", "lookup"}
  BY InstantiatingFacts
<1>2. PICK r \in Request :
         /\ req' = [req EXCEPT ![t] = r] /\ req'[t] = r
         /\ SameRequest(r, req[t]) /\ r.stage = s
         /\ r.inode = req[t].inode /\ r.attr = req[t].attr /\ r.user = req[t].user
  BY <1>1, Going
<1>3. RequestSound(t)' /\ ~Renaming(t)'
  BY <1>1, <1>2 DEF RequestSound, SameRequest, At, Stage, Instantiating, Removing, Renaming
<1>4. RmdirSound(t)' /\ MoveSound(t)'
  BY <1>1, <1>2 DEF RmdirSound, MoveSound, SameRequest, Removing, Renaming, Stage, At
<1>5. Harmless(t)' => Harmless(t)
  BY <1>1, <1>2 DEF Harmless, SameRequest, Stage
<1>6. r.op # "exchange"
  BY <1>1, <1>2 DEF SameRequest
<1>. QED  BY <1>2, <1>3, <1>4, <1>5, <1>6

LEMMA LookupDirMetadataKeeps ==
    ASSUME DirectoriesIInv, NEW t \in Threads, LookupDirMetadata(t)
    PROVE  RequestsSound' /\ InodesApart' /\ PathsIntact' /\ StagesSound'
<1>. DEFINE p == req[t].path
<1>1. /\ RequestsSound /\ t \in Active /\ RequestSound(t) /\ req[t] \in Request
      /\ p \in Path /\ req[t].to = Root /\ req[t].into = Root
      /\ req[t].op \in {"mkdir", "lookup"} /\ LookupSound(t) /\ MkdirSound(t)
      /\ req[t].op = "lookup" => Harmless(t)
      /\ At(t, "meta") /\ Instantiating(t) /\ UNCHANGED <<disk, maps, node, stale>>
  BY InstantiatingFacts DEF LookupDirMetadata, Instantiating, At
<1>2. InodesApart'
  BY <1>1 DEF disk, InodesApart, DirectoriesIInv
<1>3. CASE Return(t) /\ req[t].op # "mkdir"
  BY <1>1, <1>2, <1>3, GivesUp
<1>4. ASSUME NEW s \in {"update", "reply", "panic"}, Goto(t, s),
             s = "reply" <=> req[t].op # "mkdir"
      PROVE  PathsIntact' /\ StagesSound' /\ RequestsSound'
  <2>1. PICK r \in Request :
           /\ req' = [req EXCEPT ![t] = r] /\ req'[t] = r
           /\ SameRequest(r, req[t]) /\ r.stage = s
           /\ r.inode = req[t].inode /\ r.attr = req[t].attr /\ r.user = req[t].user
           /\ RequestSound(t)' /\ ~Renaming(t)' /\ RmdirSound(t)' /\ MoveSound(t)'
           /\ Harmless(t)' => Harmless(t)
           /\ r.op # "exchange"
    <3>1. req[t].attr \in Attr
      BY <1>1 DEF RequestSound, At
    <3>2. s \in {"owner", "panic"} => req[t].op = "mkdir"
      BY <1>4, <1>1
    <3>3. s \in {"entry", "update", "reply", "owner", "panic"}
      BY <1>4
    <3>. QED  BY <1>1, <1>4, <3>1, <3>2, <3>3, InstantiatingGoes
  <2>2. LookupSound(t)'
    BY <1>1, <1>4, <2>1 DEF LookupSound, SameRequest, Stage, At, disk, maps
  <2>3. MkdirSound(t)'
    BY <1>1, <1>4, <2>1 DEF MkdirSound, SameRequest, Stage, At, disk, maps
  <2>4. StageSound(t)'
    BY <2>1, <2>2, <2>3 DEF StageSound
  <2>. QED  BY <1>1, <1>4, <2>1, <2>4, GoesOnIdly
<1>. QED  BY <1>2, <1>3, <1>4 DEF LookupDirMetadata

\* Only a request whose path is stale, or Mkdir, writes the maps.
LEMMA Writes ==
    ASSUME DirectoriesIInv, NEW t \in Threads, Instantiating(t) \/ At(t, "owner"),
           NEW r \in Request, req' = [req EXCEPT ![t] = r], SameRequest(r, req[t]),
           r.stage \in {"entry", "update", "owner", "reply"}, RequestSound(t)',
           req[t].op = "lookup" => req[t].path \in stale,
           UNCHANGED <<disk, node, stale>>,
           \A x \in Path \ {req[t].path} : info'[x] = info[x] /\ dirMeta'[x] = dirMeta[x],
           MkdirSound(t)'
    PROVE  RequestsSound' /\ InodesApart' /\ PathsIntact' /\ StagesSound'
<1>. DEFINE p == req[t].path
<1>1. /\ RequestsSound /\ t \in Active /\ RequestSound(t) /\ p \in Path
      /\ req[t].to = Root /\ req[t].op \in {"mkdir", "lookup"} /\ p \in Uses(req[t])
      /\ req'[t] = r
  BY InstantiatingFacts DEF RequestsSound
<1>2. InodesApart'
  BY DEF disk, InodesApart, DirectoriesIInv
<1>3. ASSUME NEW x \in Path \ stale, x \notin Uses(req[t]) \/ req[t].op = "lookup"
      PROVE  Untouched(x) /\ LookedUp(x)
  <2>1. x # p
    BY <1>1, <1>3
  <2>. QED  BY <1>1, <2>1 DEF Untouched, LookedUp, MakerKept, disk
<1>4. LookupSound(t)' /\ RmdirSound(t)' /\ MoveSound(t)' /\ ~Renaming(t)'
  BY <1>1 DEF LookupSound, RmdirSound, MoveSound, SameRequest, Removing, Renaming, Stage, At
<1>5. StageSound(t)'
  BY <1>4 DEF StageSound
<1>6. \A x \in Path \ stale : x \in Uses(req[t]) /\ Harmless(t)' => Intact(x)'
  <2>1. SUFFICES ASSUME NEW x \in Path \ stale, x \in Uses(req[t]), Harmless(t)'
                 PROVE  Intact(x)'
    OBVIOUS
  <2>2. req[t].op = "lookup"
    BY <1>1, <2>1 DEF Harmless, Stage, SameRequest
  <2>3. x = p
    BY <1>1, <2>1, OwnPath
  <2>. QED  BY <2>1, <2>2, <2>3
<1>7. r.stage # "idle" /\ r.op # "exchange"
  BY <1>1 DEF SameRequest
<1>. QED  BY <1>1, <1>2, <1>3, <1>4, <1>5, <1>6, <1>7, Proceeds

LEMMA StoreInfoKeeps ==
    ASSUME DirectoriesIInv, NEW t \in Threads, StoreInfo(t)
    PROVE  RequestsSound' /\ InodesApart' /\ PathsIntact' /\ StagesSound'
<1>. DEFINE p == req[t].path
<1>1. /\ RequestsSound /\ t \in Active /\ RequestSound(t) /\ req[t] \in Request
      /\ p \in Path /\ req[t].to = Root /\ req[t].into = Root
      /\ req[t].op \in {"mkdir", "lookup"} /\ LookupSound(t) /\ MkdirSound(t)
      /\ At(t, "info") /\ Instantiating(t) /\ UNCHANGED <<disk, dirMeta, node, stale>>
      /\ info' = [info EXCEPT ![p] = req[t].attr] /\ Goto(t, "entry")
      /\ p \in Uses(req[t])
      /\ req[t].attr \in Attr
  BY InstantiatingFacts DEF StoreInfo, Instantiating, At
<1>2. InodesApart'
  BY <1>1 DEF disk, InodesApart, DirectoriesIInv
<1>3. PICK r \in Request :
         /\ req' = [req EXCEPT ![t] = r] /\ req'[t] = r
         /\ SameRequest(r, req[t]) /\ r.stage = "entry"
         /\ r.inode = req[t].inode /\ r.attr = req[t].attr /\ r.user = req[t].user
         /\ RequestSound(t)' /\ ~Renaming(t)' /\ RmdirSound(t)' /\ MoveSound(t)'
         /\ Harmless(t)' => Harmless(t)
         /\ r.op # "exchange"
  BY <1>1, InstantiatingGoes
<1>4. /\ info \in [Path -> Attr \cup {NoInfo}]
      /\ req[t].op = "lookup" => p \in stale
  BY <1>1, MapTypes DEF LookupSound, At
<1>5. MkdirSound(t)'
  BY <1>1, <1>3, <1>4 DEF MkdirSound, SameRequest, Stage, At, disk
<1>6. \A x \in Path \ {p} : info'[x] = info[x] /\ dirMeta'[x] = dirMeta[x]
  BY <1>1, <1>4
<1>. QED  BY <1>1, <1>3, <1>4, <1>5, <1>6, Writes

LEMMA CreateDirEntryKeeps ==
    ASSUME DirectoriesIInv, NEW t \in Threads, CreateDirEntry(t)
    PROVE  RequestsSound' /\ InodesApart' /\ PathsIntact' /\ StagesSound'
<1>. DEFINE p == req[t].path
<1>1. /\ p \in Path /\ LookupSound(t) /\ MkdirSound(t)
      /\ At(t, "entry") /\ Instantiating(t) /\ UNCHANGED <<disk, info, node, stale>>
      /\ dirMeta' = [dirMeta EXCEPT ![p] = Blank] /\ Goto(t, "update")
      /\ req[t].attr \in Attr
  BY InstantiatingFacts DEF CreateDirEntry, Instantiating, At
<1>2. PICK r \in Request :
         /\ req' = [req EXCEPT ![t] = r] /\ req'[t] = r
         /\ SameRequest(r, req[t]) /\ r.stage = "update"
         /\ r.inode = req[t].inode /\ r.attr = req[t].attr /\ r.user = req[t].user
         /\ RequestSound(t)'
  BY <1>1, InstantiatingGoes
<1>3. /\ dirMeta \in [Path -> Owner \cup {NoMeta}] /\ Blank # NoMeta
      /\ req[t].op = "lookup" => p \in stale
  BY <1>1, MapTypes DEF LookupSound, At
<1>4. MkdirSound(t)'
  BY <1>1, <1>2, <1>3 DEF MkdirSound, SameRequest, Stage, At, disk
<1>5. \A x \in Path \ {p} : info'[x] = info[x] /\ dirMeta'[x] = dirMeta[x]
  BY <1>1, <1>3
<1>. QED  BY <1>1, <1>2, <1>3, <1>4, <1>5, Writes

LEMMA UpdateDirEntryKeeps ==
    ASSUME DirectoriesIInv, NEW t \in Threads, UpdateDirEntry(t)
    PROVE  RequestsSound' /\ InodesApart' /\ PathsIntact' /\ StagesSound'
<1>. DEFINE p == req[t].path
<1>1. /\ p \in Path /\ LookupSound(t) /\ MkdirSound(t) /\ t \in Active
      /\ req[t].op \in {"mkdir", "lookup"} /\ (req[t].op = "lookup" => Harmless(t))
      /\ At(t, "update") /\ Instantiating(t) /\ UNCHANGED <<disk, info, node, stale>>
      /\ req[t].attr \in Attr
  BY InstantiatingFacts DEF UpdateDirEntry, Instantiating, At
<1>2. /\ dirMeta \in [Path -> Owner \cup {NoMeta}] /\ Server # NoMeta
      /\ req[t].op = "lookup" => p \in stale
  BY <1>1, MapTypes DEF LookupSound, At
<1>3. CASE dirMeta[p] = NoMeta /\ UNCHANGED dirMeta /\ Return(t) /\ req[t].op = "mkdir"
  <2>1. p \in stale
    BY <1>1, <1>3 DEF MkdirSound, At
  <2>2. InodesApart'
    BY <1>1 DEF disk, InodesApart, DirectoriesIInv
  <2>. QED  BY <1>1, <1>3, <2>1, <2>2, GivesUp DEF maps
<1>4. ASSUME NEW s \in {"owner", "reply"}, Goto(t, s), s = "owner" <=> req[t].op = "mkdir",
             \/ UNCHANGED dirMeta /\ s = "reply"
             \/ dirMeta' = [dirMeta EXCEPT ![p] = Server]
      PROVE  RequestsSound' /\ InodesApart' /\ PathsIntact' /\ StagesSound'
  <2>1. PICK r \in Request :
           /\ req' = [req EXCEPT ![t] = r] /\ req'[t] = r
           /\ SameRequest(r, req[t]) /\ r.stage = s
           /\ r.inode = req[t].inode /\ r.attr = req[t].attr /\ r.user = req[t].user
           /\ RequestSound(t)'
    BY <1>1, <1>4, InstantiatingGoes
  <2>2. MkdirSound(t)'
    BY <1>1, <1>2, <1>4, <2>1 DEF MkdirSound, SameRequest, Stage, At, disk
  <2>3. \A x \in Path \ {p} : info'[x] = info[x] /\ dirMeta'[x] = dirMeta[x]
    BY <1>1, <1>2, <1>4
  <2>. QED  BY <1>1, <1>2, <1>4, <2>1, <2>2, <2>3, Writes
<1>. QED  BY <1>1, <1>3, <1>4 DEF UpdateDirEntry

LEMMA UpdateOwnerKeeps ==
    ASSUME DirectoriesIInv, NEW t \in Threads, UpdateOwner(t)
    PROVE  RequestsSound' /\ InodesApart' /\ PathsIntact' /\ StagesSound'
<1>. DEFINE p == req[t].path
<1>1. At(t, "owner") /\ UNCHANGED <<disk, info, node, stale>>
  BY DEF UpdateOwner
<1>2. /\ p \in Path /\ MkdirSound(t) /\ t \in Active /\ RequestSound(t)
      /\ req[t].op = "mkdir" /\ req[t] \in Request /\ req[t].attr \in Attr
  BY <1>1, InstantiatingFacts DEF At
<1>3. dirMeta \in [Path -> Owner \cup {NoMeta}] /\ NoMeta \notin User \cup {Server}
  BY <1>2, MapTypes
<1>4. CASE dirMeta[p] = NoMeta /\ UNCHANGED dirMeta /\ Return(t)
  <2>1. p \in stale
    BY <1>1, <1>2, <1>4 DEF MkdirSound, At
  <2>2. InodesApart'
    BY <1>1 DEF disk, InodesApart, DirectoriesIInv
  <2>. QED  BY <1>1, <1>2, <1>4, <2>1, <2>2, GivesUp DEF maps
<1>5. CASE dirMeta' = [dirMeta EXCEPT ![p] = req[t].user] /\ Goto(t, "reply")
  <2>1. PICK r \in Request :
           /\ req' = [req EXCEPT ![t] = r] /\ req'[t] = r
           /\ SameRequest(r, req[t]) /\ r.stage = "reply"
           /\ r.inode = req[t].inode /\ r.attr = req[t].attr /\ r.user = req[t].user
    BY <1>2, <1>5, Going DEF DirectoriesIInv
  <2>2. MkdirSound(t)'
    BY <1>1, <1>2, <1>3, <1>5, <2>1 DEF MkdirSound, SameRequest, Stage, At, disk
  <2>3. \A x \in Path \ {p} : info'[x] = info[x] /\ dirMeta'[x] = dirMeta[x]
    BY <1>1, <1>3, <1>5
  <2>4. RequestSound(t)'
    BY <1>1, <1>2, <2>1 DEF RequestSound, SameRequest, At, Stage, Instantiating, Removing, Renaming
  <2>. QED  BY <1>1, <1>2, <2>1, <2>2, <2>3, <2>4, Writes
<1>. QED  BY <1>4, <1>5 DEF UpdateOwner

LEMMA ReplyKeeps ==
    ASSUME DirectoriesIInv, NEW t \in Threads, Reply(t)
    PROVE  RequestsSound' /\ InodesApart' /\ PathsIntact' /\ StagesSound'
<1>. DEFINE p == req[t].path
<1>1. /\ RequestsSound /\ t \in Active
      /\ p \in Path /\ req[t].op \in {"mkdir", "lookup"} /\ LookupSound(t) /\ MkdirSound(t)
      /\ req[t].op = "lookup" => Harmless(t)
      /\ At(t, "reply") /\ UNCHANGED <<disk, maps, stale>>
      /\ req' = [req EXCEPT ![t] = Idle]
  BY InstantiatingFacts DEF Reply, Instantiating, At, Return
<1>2. InodesApart'
  BY <1>1 DEF disk, InodesApart, DirectoriesIInv
<1>3. node' = [x \in Path |->
         CASE x = req[t].at -> req[t].attr
           [] x \in Beneath(req[t].at) /\ node[req[t].at] # req[t].attr -> NoNode
           [] OTHER -> node[x]]
  BY DEF Reply
<1>4. ASSUME NEW x \in Path, x # req[t].at
      PROVE  node'[x] \in {node[x], NoNode}
  BY <1>3, <1>4
<1>5. ASSUME NEW a \in Path, a = req[t].at
      PROVE  node'[a] = req[t].attr
  <2>1. a \notin Beneath(a)
    BY BeneathFacts, PathFacts
  <2>2. node' = [x \in Path |->
           CASE x = a -> req[t].attr
             [] x \in Beneath(a) /\ node[a] # req[t].attr -> NoNode
             [] OTHER -> node[x]]
    BY <1>3, <1>5
  <2>. QED  BY <2>1, <2>2
<1>6. ASSUME NEW x \in Path \ stale
      PROVE  /\ x \notin Uses(req[t]) => Untouched(x)
             /\ LookedUp(x)
  <2>1. x \notin Uses(req[t]) => node'[x] \in {node[x], NoNode}
    BY <1>4 DEF Uses
  <2>. QED  BY <1>1, <2>1 DEF Untouched, LookedUp, MakerKept, disk, maps
<1>7. ASSUME NEW x \in Path \ stale, x \in Uses(req[t])
      PROVE  Intact(x)'
  <2>1. x = p /\ req[t].at = p
    BY <1>1, <1>7, OwnPath
  <2>2. node'[p] = req[t].attr
    BY <1>1, <1>5, <2>1
  <2>3. CASE req[t].op = "lookup"
    <3>1. Intact(p)
      BY <1>1, <1>7, <2>1, <2>3, HarmlessIntact
    <3>2. tree[p] # NoInode /\ req[t].attr = info[p]
      BY <1>1, <1>7, <2>1, <2>3 DEF LookupSound, At
    <3>. QED  BY <1>1, <2>1, <2>2, <3>1, <3>2 DEF Intact, disk, maps
  <2>4. CASE req[t].op = "mkdir"
    <3>1. /\ tree[p] # NoInode /\ maker[tree[p]] = req[t].user
          /\ req[t].attr = <<p, tree[p]>> /\ info[p] = req[t].attr
          /\ dirMeta[p] = req[t].user
      BY <1>1, <1>7, <2>1, <2>4 DEF MkdirSound, At
    <3>. QED  BY <1>1, <2>1, <2>2, <3>1 DEF Intact, disk, maps
  <2>. QED  BY <1>1, <2>3, <2>4
<1>8. RequestsSound' /\ PathsIntact' /\ StagesSound'
  BY <1>1, <1>4, <1>6, <1>7, Returns
<1>. QED  BY <1>2, <1>8

-----------------------------------------------------------------------------
(* Rmdir.                                                                   *)

LEMMA RemovingFacts ==
    ASSUME DirectoriesIInv, NEW t \in Threads, Removing(t)
    PROVE  /\ RequestsSound /\ t \in Active /\ RequestSound(t) /\ req[t] \in Request
           /\ req[t].path \in Path /\ req[t].to = Root /\ req[t].into = Root
           /\ req[t].op = "rmdir" /\ RmdirSound(t) /\ req[t].path \in Uses(req[t])
<1>1. t \in Active /\ ~At(t, "idle") /\ ~Renaming(t)
  BY DEF Active, Removing, At, Renaming
<1>2. RequestSound(t) /\ req[t] \in Request /\ RequestsSound
  BY DEF DirectoriesIInv, RequestsSound
<1>3. RmdirSound(t)
  BY <1>1 DEF DirectoriesIInv, StagesSound
<1>. QED  BY <1>1, <1>2, <1>3 DEF RequestSound, Uses

\* Each step of Rmdir removes something of its own path.
LEMMA Removes ==
    ASSUME DirectoriesIInv, NEW t \in Threads, Removing(t),
           NEW s \in {"dropEntry", "dropInfo", "unlink"}, Goto(t, s),
           UNCHANGED <<maker, node, stale>>,
           \A x \in Path \ {req[t].path} :
              tree'[x] = tree[x] /\ info'[x] = info[x] /\ dirMeta'[x] = dirMeta[x],
           LET p == req[t].path IN
           p \notin stale =>
              /\ tree'[p] = NoInode
              /\ s \in {"dropInfo", "unlink"} => dirMeta'[p] = NoMeta
              /\ s = "unlink" => info'[p] = NoInfo
    PROVE  RequestsSound' /\ PathsIntact' /\ StagesSound'
<1>. DEFINE p == req[t].path
<1>1. /\ RequestsSound /\ t \in Active /\ RequestSound(t) /\ req[t] \in Request
      /\ p \in Path /\ req[t].to = Root /\ req[t].into = Root
      /\ req[t].op = "rmdir" /\ p \in Uses(req[t])
  BY RemovingFacts
<1>2. PICK r \in Request :
         /\ req' = [req EXCEPT ![t] = r] /\ req'[t] = r
         /\ SameRequest(r, req[t]) /\ r.stage = s
         /\ r.inode = req[t].inode /\ r.attr = req[t].attr /\ r.user = req[t].user
  BY <1>1, Going
<1>3. RequestSound(t)' /\ ~Renaming(t)' /\ ~Harmless(t)'
  BY <1>1, <1>2
     DEF RequestSound, SameRequest, At, Stage, Instantiating, Removing, Renaming, Harmless
<1>4. ASSUME NEW x \in Path \ stale, x \notin Uses(req[t])
      PROVE  Untouched(x)
  BY <1>1, <1>4 DEF Untouched, MakerKept
<1>5. LookupSound(t)' /\ MkdirSound(t)' /\ MoveSound(t)'
  BY <1>1, <1>2, <1>3 DEF LookupSound, MkdirSound, MoveSound, SameRequest, Renaming, Stage, At
<1>6. RmdirSound(t)'
  BY <1>1, <1>2 DEF RmdirSound, SameRequest, Stage, At
<1>7. StageSound(t)'
  BY <1>5, <1>6 DEF StageSound
<1>8. r.stage # "idle" /\ r.op # "exchange" /\ req[t].op # "lookup"
  BY <1>1, <1>2 DEF SameRequest
<1>. QED  BY <1>1, <1>2, <1>3, <1>4, <1>7, <1>8, Proceeds

LEMMA RmdirUnderlyingKeeps ==
    ASSUME DirectoriesIInv, NEW t \in Threads, RmdirUnderlying(t)
    PROVE  RequestsSound' /\ InodesApart' /\ PathsIntact' /\ StagesSound'
<1>. DEFINE p == req[t].path
<1>1. /\ t \in Active /\ p \in Path /\ Removing(t) /\ Harmless(t)
      /\ UNCHANGED <<maker, maps, node, stale>>
  BY RemovingFacts DEF RmdirUnderlying, Removing, At, Harmless
<1>2. CASE Return(t) /\ UNCHANGED tree
  <2>1. InodesApart' /\ UNCHANGED <<disk, maps, node, stale>>
    BY <1>1, <1>2 DEF disk, InodesApart, DirectoriesIInv
  <2>. QED  BY <1>1, <1>2, <2>1, GivesUp
<1>3. CASE tree' = [tree EXCEPT ![p] = NoInode] /\ Goto(t, "dropEntry")
  <2>1. tree \in [Path -> Inode \cup {NoInode}]
    BY <1>1, MapTypes
  <2>2. InodesApart'
    BY <1>1, <1>3, <2>1 DEF InodesApart, DirectoriesIInv
  <2>3. /\ tree'[p] = NoInode
        /\ \A x \in Path \ {p} :
              tree'[x] = tree[x] /\ info'[x] = info[x] /\ dirMeta'[x] = dirMeta[x]
    BY <1>1, <1>3, <2>1 DEF maps
  <2>. QED  BY <1>1, <1>3, <2>2, <2>3, Removes
<1>. QED  BY <1>2, <1>3 DEF RmdirUnderlying

LEMMA RmdirRemovesEntryKeeps ==
    ASSUME DirectoriesIInv, NEW t \in Threads, RmdirRemovesEntry(t)
    PROVE  RequestsSound' /\ InodesApart' /\ PathsIntact' /\ StagesSound'
<1>. DEFINE p == req[t].path
<1>1. /\ p \in Path /\ Removing(t) /\ At(t, "dropEntry") /\ RmdirSound(t)
      /\ UNCHANGED <<disk, info, node, stale>>
      /\ dirMeta' = [dirMeta EXCEPT ![p] = NoMeta] /\ Goto(t, "dropInfo")
  BY RemovingFacts DEF RmdirRemovesEntry, Removing, At
<1>2. InodesApart'
  BY <1>1 DEF disk, InodesApart, DirectoriesIInv
<1>3. dirMeta \in [Path -> Owner \cup {NoMeta}]
  BY <1>1, MapTypes
<1>4. /\ p \notin stale => tree'[p] = NoInode /\ dirMeta'[p] = NoMeta
      /\ \A x \in Path \ {p} :
            tree'[x] = tree[x] /\ info'[x] = info[x] /\ dirMeta'[x] = dirMeta[x]
  BY <1>1, <1>3 DEF disk, RmdirSound, At
<1>. QED  BY <1>1, <1>2, <1>4, Removes DEF disk

LEMMA RmdirRemovesInfoKeeps ==
    ASSUME DirectoriesIInv, NEW t \in Threads, RmdirRemovesInfo(t)
    PROVE  RequestsSound' /\ InodesApart' /\ PathsIntact' /\ StagesSound'
<1>. DEFINE p == req[t].path
<1>1. /\ p \in Path /\ Removing(t) /\ At(t, "dropInfo") /\ RmdirSound(t)
      /\ UNCHANGED <<disk, dirMeta, node, stale>>
      /\ info' = [info EXCEPT ![p] = NoInfo] /\ Goto(t, "unlink")
  BY RemovingFacts DEF RmdirRemovesInfo, Removing, At
<1>2. InodesApart'
  BY <1>1 DEF disk, InodesApart, DirectoriesIInv
<1>3. info \in [Path -> Attr \cup {NoInfo}]
  BY <1>1, MapTypes
<1>4. /\ p \notin stale => tree'[p] = NoInode /\ dirMeta'[p] = NoMeta /\ info'[p] = NoInfo
      /\ \A x \in Path \ {p} :
            tree'[x] = tree[x] /\ info'[x] = info[x] /\ dirMeta'[x] = dirMeta[x]
  BY <1>1, <1>3 DEF disk, RmdirSound, At
<1>. QED  BY <1>1, <1>2, <1>4, Removes DEF disk

LEMMA RmdirReplyKeeps ==
    ASSUME DirectoriesIInv, NEW t \in Threads, RmdirReply(t)
    PROVE  RequestsSound' /\ InodesApart' /\ PathsIntact' /\ StagesSound'
<1>. DEFINE p == req[t].path
<1>1. /\ RequestsSound /\ t \in Active /\ p \in Path /\ Removing(t) /\ At(t, "unlink")
      /\ RmdirSound(t) /\ req[t].op = "rmdir" /\ UNCHANGED <<disk, maps, stale>>
      /\ req' = [req EXCEPT ![t] = Idle]
  BY RemovingFacts DEF RmdirReply, Removing, At, Return
<1>2. InodesApart'
  BY <1>1 DEF disk, InodesApart, DirectoriesIInv
<1>3. node' = [x \in Path |-> IF x \in Within(req[t].at) THEN NoNode ELSE node[x]]
  BY DEF RmdirReply
<1>4. \A x \in Path : node'[x] \in {node[x], NoNode} /\ Untouched(x)
  BY <1>1, <1>3 DEF Untouched, MakerKept, disk, maps
<1>5. ASSUME NEW x \in Path \ stale, x \in Uses(req[t])
      PROVE  Intact(x)'
  <2>1. x = p /\ req[t].at = p
    BY <1>1, <1>5, OwnPath
  <2>2. node'[p] = NoNode
    BY <1>1, <1>3, <2>1 DEF Within
  <2>. QED  BY <1>1, <1>5, <2>1, <2>2 DEF RmdirSound, At, Intact, disk, maps
<1>6. RequestsSound' /\ PathsIntact' /\ StagesSound'
  BY <1>1, <1>4, <1>5, Returns
<1>. QED  BY <1>2, <1>6

-----------------------------------------------------------------------------
(* Beginning a request.                                                     *)

LEMMA IdleFacts ==
    /\ Idle \in Request /\ Idle.stage = "idle" /\ Idle.op = "none"
    /\ Idle.path = Root /\ Idle.to = Root /\ Idle.at = Root /\ Idle.into = Root
    /\ Idle.locks = {} /\ Idle.user = Server /\ Idle.attr = NoInfo
BY DEF Idle, Request, Place

\* A path nobody changes is intact as a request on it begins.
LEMMA FreshIntact ==
    ASSUME DirectoriesIInv, NEW t, NEW r, Begin(t, r),
           NEW p \in Path \ stale', p \in Uses(r)
    PROVE  Intact(p)
<1>. DEFINE T == {s \in Active : r.op # "lookup" \/ req[s].op # "lookup"}
<1>1. p \notin stale /\ p \notin Uses(r) \cap UsedBy(T)
  BY DEF Begin
<1>2. p # Root
  BY RootFacts
<1>3. ASSUME NEW u \in Active, p \in Uses(req[u])
      PROVE  Harmless(u)
  <2>1. u \notin T
    BY <1>1, <1>2, <1>3 DEF UsedBy
  <2>. QED  BY <2>1 DEF Harmless
<1>. QED  BY <1>1, <1>3 DEF DirectoriesIInv, PathsIntact

\* What is known of a directory that a rename moves down.
LEMMA MovesDown ==
    ASSUME RequestsSound, NEW s \in Active, Renaming(s), Len(req[s].path) < Len(req[s].to),
           NEW r \in Beneath(req[s].path)
    PROVE  /\ r \in Path /\ node[r] = NoNode
           /\ Parent(r) \in req[s].locks /\ req[s].op \in {"rename", "exchange"}
<1>1. RequestSound(s) /\ RenameSound(s) /\ ~At(s, "idle")
  BY DEF RequestsSound, Active, At
<1>2. /\ req[s].path \in Path /\ req[s].to \in Path /\ req[s].at \in Path /\ req[s].into \in Path
      /\ Len(req[s].into) = Len(req[s].to) /\ req[s].op \in {"rename", "exchange"}
      /\ Parent(req[s].at) # Parent(req[s].into) => req[s].at \in req[s].locks
      /\ Root \in {Parent(req[s].path), Parent(req[s].to)} => req[s].at = req[s].path
      /\ node[r] = NoNode
  BY <1>1 DEF RequestSound, RenameSound
<1>3. r \in Path /\ Parent(r) = req[s].path
  BY <1>2, BeneathFacts
<1>4. Len(req[s].path) = 1 /\ Len(req[s].to) = 2
  <2>. DEFINE a == Len(req[s].path)
              b == Len(req[s].to)
  <2>1. a \in {1, 2} /\ b \in {1, 2}
    BY <1>2, PathFacts
  <2>2. a < b
    OBVIOUS
  <2>. HIDE DEF a, b
  <2>3. a = 1 /\ b = 2
    BY <2>1, <2>2
  <2>. QED  BY <2>3 DEF a, b
<1>5. Parent(req[s].path) = Root
  BY <1>2, <1>4, PathFacts
<1>6. Parent(req[s].into) # Root
  <2>1. Len(req[s].into) = 2
    BY <1>2, <1>4
  <2>. QED  BY <1>2, <2>1, PathFacts
<1>. QED  BY <1>2, <1>3, <1>5, <1>6

LEMMA Starts ==
    ASSUME DirectoriesIInv, NEW t \in Threads, NEW r \in Request, Begin(t, r),
           r.stage # "idle", r.at = r.path, r.into = r.to,
           RequestSound(t)', RenameSound(t)',
           \A d \in r.locks : Len(d) = 2 => Parent(d) \in r.locks,
           \A s \in Active :
              req[s].locks \cap r.locks # {} => req[s].op = "lookup" /\ r.op = "lookup",
           \/ r.at \in Path /\ node[r.at] # NoNode
           \/ r.at \in Path /\ \A s \in Active :
                 Parent(r.at) \in req[s].locks => req[s].op \notin {"rename", "exchange"},
           StageSound(t)'
    PROVE  RequestsSound' /\ InodesApart' /\ PathsIntact' /\ StagesSound'
<1>1. RequestsSound /\ UNCHANGED <<disk, maps, node>>
  BY DEF DirectoriesIInv, Begin
<1>2. \A s \in Active :
         Renaming(s) /\ Len(req[s].path) < Len(req[s].to) => r.at \notin Beneath(req[s].path)
  BY <1>1, MovesDown
<1>3. /\ RequestsSound' /\ Active' = Active \cup {t} /\ t \notin Active
      /\ stale \subseteq stale'
  BY <1>1, <1>2, Begins
<1>4. req' = [req EXCEPT ![t] = r]
  BY DEF Begin
<1>5. Others(t)
  BY <1>1, <1>3, <1>4, OthersSame
<1>6. \A x \in Path : Untouched(x)
  BY <1>1 DEF Untouched, MakerKept, disk, maps
<1>7. PathsIntact' /\ StagesSound'
  BY <1>3, <1>5, <1>6, StepKeeps
<1>8. InodesApart'
  BY <1>1 DEF disk, InodesApart, DirectoriesIInv
<1>. QED  BY <1>3, <1>7, <1>8

LEMMA MkdirBeginKeeps ==
    ASSUME DirectoriesIInv, NEW t \in Threads, NEW p \in Path, NEW u \in User,
           MkdirBegin(t, p, u)
    PROVE  RequestsSound' /\ InodesApart' /\ PathsIntact' /\ StagesSound'
<1>. DEFINE L == {Parent(p)}
            r == [Idle EXCEPT !.stage = "mkdir", !.op = "mkdir", !.path = p, !.at = p,
                              !.locks = L, !.user = u]
<1>1. Begin(t, r) /\ ~Locked(Parent(p))
  BY DEF MkdirBegin
<1>2. Parent(p) \in Place /\ Len(Parent(p)) # 2 /\ p \in Place
  BY PathFacts, RootFacts DEF Place
<1>3. L \subseteq Place
  BY <1>2
<1>4. \A s \in Active : Parent(p) \notin req[s].locks
  BY <1>1 DEF Locked
<1>. HIDE DEF L
<1>5. /\ r \in Request /\ r.stage = "mkdir" /\ r.op = "mkdir" /\ r.path = p /\ r.at = p
      /\ r.to = Root /\ r.into = Root /\ r.locks = L /\ r.user = u
  BY <1>2, <1>3, IdleFacts DEF Request
<1>. HIDE DEF r
<1>6. req'[t] = r
  BY <1>1 DEF Begin, DirectoriesIInv, RequestsSound
<1>7. RequestSound(t)' /\ RenameSound(t)'
  BY <1>5, <1>6 DEF RequestSound, RenameSound, At, Stage, Instantiating, Removing, Renaming
<1>8. StageSound(t)'
  BY <1>5, <1>6 DEF StageSound, LookupSound, MkdirSound, RmdirSound, MoveSound,
        Removing, Renaming, Stage, At
<1>9. \A d \in r.locks : Len(d) = 2 => Parent(d) \in r.locks
  BY <1>2, <1>5 DEF L
<1>10. \A s \in Active : req[s].locks \cap r.locks = {}
  BY <1>4, <1>5 DEF L
<1>. QED  BY <1>1, <1>4, <1>5, <1>7, <1>8, <1>9, <1>10, Starts

LEMMA LookupBeginKeeps ==
    ASSUME DirectoriesIInv, NEW t \in Threads, NEW p \in Path, LookupBegin(t, p)
    PROVE  RequestsSound' /\ InodesApart' /\ PathsIntact' /\ StagesSound'
<1>. DEFINE L == IF node[p] = NoNode THEN {Parent(p)} ELSE {}
            r == [Idle EXCEPT !.stage = "stat", !.op = "lookup", !.path = p, !.at = p,
                              !.locks = L]
<1>1. Begin(t, r) /\ (node[p] = NoNode => ~LockedForChange(Parent(p)))
  BY DEF LookupBegin
<1>2. Parent(p) \in Place /\ Len(Parent(p)) # 2 /\ p \in Place
  BY PathFacts, RootFacts DEF Place
<1>3. L \subseteq Place
  BY <1>2
<1>4. node[p] = NoNode =>
         \A s \in Active : Parent(p) \in req[s].locks => req[s].op = "lookup"
  BY <1>1 DEF LockedForChange
<1>. HIDE DEF L
<1>5. /\ r \in Request /\ r.stage = "stat" /\ r.op = "lookup" /\ r.path = p /\ r.at = p
      /\ r.to = Root /\ r.into = Root /\ r.locks = L
  BY <1>2, <1>3, IdleFacts DEF Request
<1>. HIDE DEF r
<1>6. req'[t] = r
  BY <1>1 DEF Begin, DirectoriesIInv, RequestsSound
<1>7. RequestSound(t)' /\ RenameSound(t)'
  BY <1>5, <1>6 DEF RequestSound, RenameSound, At, Stage, Instantiating, Removing, Renaming
<1>8. StageSound(t)'
  BY <1>5, <1>6 DEF StageSound, LookupSound, MkdirSound, RmdirSound, MoveSound,
        Removing, Renaming, Stage, At
<1>9. \A d \in r.locks : Len(d) = 2 => Parent(d) \in r.locks
  BY <1>2, <1>5 DEF L
<1>10. \A s \in Active :
          req[s].locks \cap r.locks # {} => req[s].op = "lookup" /\ r.op = "lookup"
  BY <1>4, <1>5 DEF L
<1>. QED  BY <1>1, <1>4, <1>5, <1>7, <1>8, <1>9, <1>10, Starts

LEMMA RmdirBeginKeeps ==
    ASSUME DirectoriesIInv, NEW t \in Threads, NEW p \in Path, RmdirBegin(t, p)
    PROVE  RequestsSound' /\ InodesApart' /\ PathsIntact' /\ StagesSound'
<1>. DEFINE L == {Parent(p), p}
            r == [Idle EXCEPT !.stage = "rmdir", !.op = "rmdir", !.path = p, !.at = p,
                              !.locks = L]
<1>1. Begin(t, r) /\ node[p] # NoNode /\ ~Locked(Parent(p)) /\ ~Locked(p)
  BY DEF RmdirBegin
<1>2. Parent(p) \in Place /\ Len(Parent(p)) # 2 /\ p \in Place
  BY PathFacts, RootFacts DEF Place
<1>3. L \subseteq Place
  BY <1>2
<1>4. \A s \in Active : Parent(p) \notin req[s].locks /\ p \notin req[s].locks
  BY <1>1 DEF Locked
<1>. HIDE DEF L
<1>5. /\ r \in Request /\ r.stage = "rmdir" /\ r.op = "rmdir" /\ r.path = p /\ r.at = p
      /\ r.to = Root /\ r.into = Root /\ r.locks = L
  BY <1>2, <1>3, IdleFacts DEF Request
<1>. HIDE DEF r
<1>6. req'[t] = r
  BY <1>1 DEF Begin, DirectoriesIInv, RequestsSound
<1>7. RequestSound(t)' /\ RenameSound(t)'
  BY <1>5, <1>6 DEF RequestSound, RenameSound, At, Stage, Instantiating, Removing, Renaming
<1>8. StageSound(t)'
  BY <1>5, <1>6 DEF StageSound, LookupSound, MkdirSound, RmdirSound, MoveSound,
        Removing, Renaming, Stage, At
<1>9. \A d \in r.locks : Len(d) = 2 => Parent(d) \in r.locks
  BY <1>2, <1>5 DEF L
<1>10. \A s \in Active : req[s].locks \cap r.locks = {}
  BY <1>4, <1>5 DEF L
<1>. QED  BY <1>1, <1>5, <1>7, <1>8, <1>9, <1>10, Starts

LEMMA RenameBeginKeeps ==
    ASSUME DirectoriesIInv, NEW t \in Threads, NEW p \in Path, NEW q \in Path,
           NEW op \in {"rename", "exchange"}, RenameBegin(t, p, q, op)
    PROVE  RequestsSound' /\ InodesApart' /\ PathsIntact' /\ StagesSound'
<1>. DEFINE L == {Parent(p), Parent(q)} \cup {q}
                    \cup (IF Parent(p) # Parent(q) THEN {p} ELSE {})
            r == [Idle EXCEPT !.stage = "rename", !.op = op, !.path = p, !.to = q,
                              !.at = p, !.into = q, !.locks = L, !.attr = info[p]]
<1>1. /\ RequestsSound /\ info \in [Path -> Attr \cup {NoInfo}]
      /\ node[p] # NoNode /\ Movable(p, q)
      /\ \A d \in L : ~Locked(d)
      /\ Begin(t, IF info[p] = NoInfo THEN Idle ELSE r)
  BY MapTypes DEF RenameBegin, DirectoriesIInv
<1>2. CASE info[p] = NoInfo
  <2>1. Begin(t, Idle)
    BY <1>1, <1>2
  <2>2. /\ req' = [req EXCEPT ![t] = Idle] /\ UNCHANGED <<disk, maps, node>>
        /\ t \notin Active
    BY <2>1 DEF Begin, Active, At
  <2>3. stale' = stale
    <3>1. Uses(Idle) = {Root}
      BY IdleFacts DEF Uses
    <3>. QED  BY <2>1, <3>1 DEF Begin, UsedBy
  <2>4. RequestsSound' /\ Active' = Active \ {t}
    BY <1>1, <2>2, <2>3, Ends
  <2>5. Others(t)
    BY <1>1, <2>2, <2>3, OthersSame
  <2>6. \A x \in Path : Untouched(x)
    BY <2>2 DEF Untouched, MakerKept, disk, maps
  <2>7. PathsIntact' /\ StagesSound'
    BY <2>2, <2>4, <2>5, <2>6, StepKeeps
  <2>8. InodesApart'
    BY <2>2 DEF disk, InodesApart, DirectoriesIInv
  <2>. QED  BY <2>4, <2>7, <2>8
<1>3. CASE info[p] # NoInfo
  <2>1. Begin(t, r) /\ info[p] \in Attr
    BY <1>1, <1>3
  <2>2. /\ p \in Place /\ q \in Place /\ Parent(p) \in Place /\ Parent(q) \in Place
        /\ Len(Parent(p)) # 2 /\ Len(Parent(q)) # 2
    BY PathFacts, RootFacts DEF Place
  <2>3. L \subseteq Place
    BY <2>2
  <2>4. \A d \in L : \A s \in Active : d \notin req[s].locks
    BY <1>1 DEF Locked
  <2>5. /\ {Parent(p), Parent(q), q} \subseteq L
        /\ Parent(p) # Parent(q) => p \in L
        /\ \A d \in L : Len(d) = 2 => Parent(d) \in L
    BY <2>2
  <2>. HIDE DEF L
  <2>6. /\ r \in Request /\ r.stage = "rename" /\ r.op = op /\ r.path = p /\ r.at = p
        /\ r.to = q /\ r.into = q /\ r.locks = L /\ r.attr = info[p]
    BY <2>1, <2>2, <2>3, IdleFacts DEF Request
  <2>. HIDE DEF r
  <2>7. /\ req'[t] = r /\ UNCHANGED <<disk, maps, node>>
        /\ \A s \in Threads \ {t} : req'[s] = req[s]
    BY <1>1, <2>1 DEF Begin, RequestsSound
  <2>8. Active' \subseteq Active \cup {t}
    BY <2>7 DEF Active, Stage
  <2>9. RequestSound(t)'
    BY <2>1, <2>6, <2>7 DEF RequestSound, At, Stage, Instantiating, Removing, Renaming
  <2>10. ASSUME Len(p) < Len(q), NEW x \in Beneath(p)
         PROVE  node'[x] = NoNode /\ \A s \in Active' : req'[s].at # x
    <3>0. Len(p) \in {1, 2} /\ Len(q) \in {1, 2}
      BY PathFacts
    <3>1. node[x] = NoNode /\ \A s \in Active : req[s].at # x
      BY <1>1, <2>10 DEF Movable
    <3>2. p # x
      BY <3>0, <2>10, BeneathFacts, PathFacts
    <3>. QED  BY <2>6, <2>7, <2>8, <3>1, <3>2 DEF Active
  <2>11. RenameSound(t)'
    <3>1. p # q /\ q \notin Beneath(p)
      BY <1>1 DEF Movable
    <3>. QED  BY <2>1, <2>5, <2>6, <2>7, <2>10, <3>1 DEF RenameSound, Renaming, Stage, At
  <2>12. StageSound(t)'
    <3>1. LookupSound(t)' /\ MkdirSound(t)' /\ RmdirSound(t)'
      BY <2>6, <2>7 DEF LookupSound, MkdirSound, RmdirSound, Removing, Stage, At
    <3>2. p \notin stale' => node[p] \in {NoNode, info[p]}
      <4>1. p \in Uses(r)
        BY <2>6 DEF Uses
      <4>. QED  BY <2>1, <4>1, FreshIntact DEF Intact
    <3>3. MoveSound(t)'
      BY <2>6, <2>7, <3>2 DEF MoveSound, Renaming, Stage, At, maps
    <3>. QED  BY <3>1, <3>3 DEF StageSound
  <2>13. /\ \A d \in r.locks : Len(d) = 2 => Parent(d) \in r.locks
         /\ \A s \in Active : req[s].locks \cap r.locks = {}
         /\ r.stage # "idle" /\ r.at = r.path /\ r.into = r.to
         /\ r.at \in Path /\ node[r.at] # NoNode
    BY <1>1, <2>4, <2>5, <2>6
  <2>. QED  BY <2>1, <2>6, <2>9, <2>11, <2>12, <2>13, Starts
<1>. QED  BY <1>2, <1>3

-----------------------------------------------------------------------------
(* Rename.                                                                  *)

LEMMA RenamingFacts ==
    ASSUME DirectoriesIInv, NEW t \in Threads, Renaming(t)
    PROVE  /\ RequestsSound /\ t \in Active /\ RequestSound(t) /\ RenameSound(t) /\ MoveSound(t)
           /\ req[t] \in Request /\ req[t].path \in Path /\ req[t].to \in Path
           /\ req[t].op \in {"rename", "exchange"} /\ req[t].attr \in Attr
           /\ req[t].path # req[t].to /\ req[t].to \notin Beneath(req[t].path)
           /\ Within(req[t].path) \cup Within(req[t].to) \subseteq Uses(req[t])
<1>1. t \in Active /\ ~At(t, "idle")
  BY DEF Active, Renaming, At
<1>2. RequestSound(t) /\ RenameSound(t) /\ req[t] \in Request /\ RequestsSound
  BY DEF DirectoriesIInv, RequestsSound
<1>3. MoveSound(t)
  BY <1>1 DEF DirectoriesIInv, StagesSound
<1>4. req[t].op \in {"rename", "exchange"}
  BY <1>2 DEF RequestSound
<1>5. Within(req[t].path) \cup Within(req[t].to) \subseteq Uses(req[t])
  BY <1>4 DEF Uses
<1>. QED  BY <1>1, <1>2, <1>3, <1>4, <1>5 DEF RequestSound, RenameSound

\* Each step of Rename changes paths within the two that it is given.
LEMMA Moves ==
    ASSUME DirectoriesIInv, NEW t \in Threads, Renaming(t),
           NEW p, p = req[t].path, NEW q, q = req[t].to,
           NEW s \in {"oldInfo", "newInfo", "copy", "oldEntry", "move"}, Goto(t, s),
           UNCHANGED <<maker, node, stale>>,
           \A x \in Path \ (Within(p) \cup Within(q)) :
              tree'[x] = tree[x] /\ info'[x] = info[x] /\ dirMeta'[x] = dirMeta[x],
           req[t].op = "exchange" /\ At(t, "rename") => Parent(p) = Root /\ Parent(q) = Root,
           p \notin stale /\ req[t].op = "rename" =>
              /\ tree'[p] = NoInode
              /\ s # "oldInfo" => info'[p] = NoInfo
              /\ s = "move" => dirMeta'[p] = NoMeta,
           p \notin stale /\ q \notin stale =>
              /\ tree'[q] # NoInode /\ req[t].attr \in Path \X {tree'[q]}
              /\ s \in {"oldInfo", "newInfo", "copy"} => dirMeta'[p] = maker[tree'[q]]
              /\ s \in {"copy", "oldEntry", "move"} => info'[q] = req[t].attr
              /\ s \in {"oldEntry", "move"} => dirMeta'[q] = maker[tree'[q]]
    PROVE  RequestsSound' /\ PathsIntact' /\ StagesSound'
<1>1. /\ RequestsSound /\ t \in Active /\ RequestSound(t) /\ RenameSound(t) /\ MoveSound(t)
      /\ req[t] \in Request /\ p \in Path /\ q \in Path
      /\ req[t].op \in {"rename", "exchange"} /\ req[t].attr \in Attr
      /\ Within(p) \cup Within(q) \subseteq Uses(req[t])
  BY RenamingFacts
<1>2. PICK r \in Request :
         /\ req' = [req EXCEPT ![t] = r] /\ req'[t] = r
         /\ SameRequest(r, req[t]) /\ r.stage = s
         /\ r.inode = req[t].inode /\ r.attr = req[t].attr /\ r.user = req[t].user
  BY <1>1, Going
<1>3. RequestSound(t)' /\ ~Harmless(t)' /\ r.attr \in Attr
  BY <1>1, <1>2
     DEF RequestSound, SameRequest, At, Stage, Instantiating, Removing, Renaming, Harmless
<1>4. ASSUME NEW x \in Path \ stale, x \notin Uses(req[t])
      PROVE  Untouched(x)
  BY <1>1, <1>4 DEF Untouched, MakerKept
<1>5. LookupSound(t)' /\ MkdirSound(t)' /\ RmdirSound(t)'
  BY <1>1, <1>2, <1>3 DEF LookupSound, MkdirSound, RmdirSound, SameRequest, Removing, Stage, At
<1>6. p \notin stale => node[p] \in {NoNode, req[t].attr}
  BY <1>1 DEF MoveSound
<1>7. /\ req'[t].path = p /\ req'[t].to = q /\ req'[t].op = req[t].op
      /\ req'[t].attr = req[t].attr /\ req'[t].stage = s
  BY <1>2 DEF SameRequest
<1>8. MoveSound(t)'
  BY <1>6, <1>7 DEF MoveSound, Renaming, Stage, At
<1>9. StageSound(t)'
  BY <1>5, <1>8 DEF StageSound
<1>10. r.op = "exchange" => ~At(t, "rename") \/ (Parent(r.path) = Root /\ Parent(r.to) = Root)
  BY <1>2 DEF SameRequest
<1>11. r.stage # "idle" /\ req[t].op # "lookup"
  BY <1>1, <1>2
<1>. QED  BY <1>1, <1>2, <1>3, <1>4, <1>9, <1>10, <1>11, Proceeds

LEMMA RenameUnderlyingKeeps ==
    ASSUME DirectoriesIInv, NEW t \in Threads, RenameUnderlying(t)
    PROVE  RequestsSound' /\ InodesApart' /\ PathsIntact' /\ StagesSound'
<1>. SUFFICES ASSUME NEW p, p = req[t].path, NEW q, q = req[t].to
              PROVE  RequestsSound' /\ InodesApart' /\ PathsIntact' /\ StagesSound'
  OBVIOUS
<1>0. Renaming(t) /\ At(t, "rename") /\ Harmless(t) /\ UNCHANGED <<maker, maps, node, stale>>
  BY DEF RenameUnderlying, Renaming, At, Harmless
<1>1. /\ RequestsSound /\ t \in Active /\ MoveSound(t)
      /\ p \in Path /\ q \in Path
      /\ req[t].op \in {"rename", "exchange"} /\ req[t].attr \in Attr
      /\ p # q /\ q \notin Beneath(p)
      /\ Within(p) \cup Within(q) \subseteq Uses(req[t])
  BY <1>0, RenamingFacts
<1>2. CASE Return(t) /\ UNCHANGED tree
  <2>1. InodesApart' /\ UNCHANGED <<disk, maps, node, stale>>
    BY <1>0, <1>2 DEF disk, InodesApart, DirectoriesIInv
  <2>. QED  BY <1>0, <1>1, <1>2, <2>1, GivesUp
<1>3. ASSUME Goto(t, "oldInfo"), IsDir(p),
             \/ req[t].op = "rename" /\ tree' = MovedTree(tree, p, q, NoInode)
             \/ /\ req[t].op = "exchange" /\ CanExchange(p, q)
                /\ tree' = ExchangedTree(tree, p, q, NoInode)
      PROVE  RequestsSound' /\ InodesApart' /\ PathsIntact' /\ StagesSound'
  <2>1. /\ tree \in [Path -> Inode \cup {NoInode}]
        /\ \A x, y \in Path : x # y /\ tree[x] = tree[y] => tree[x] = NoInode
    BY <1>1, MapTypes DEF DirectoriesIInv, InodesApart
  <2>2. \/ req[t].op = "rename" /\ tree' = MovedTree(tree, p, q, NoInode)
        \/ /\ req[t].op = "exchange" /\ tree' = ExchangedTree(tree, p, q, NoInode)
           /\ Len(p) = 1 /\ Len(q) = 1 /\ Parent(p) = Root /\ Parent(q) = Root
    BY <1>1, <1>3, PathFacts DEF CanExchange
  <2>3. Apart(tree, NoInode) => Apart(tree', NoInode)
    BY <1>1, <2>2, MovedApart
  <2>4. InodesApart'
    BY <2>1, <2>3 DEF InodesApart, Apart
  <2>5. \A x \in Path : x \notin Within(p) \cup Within(q) => tree'[x] = tree[x]
    BY <1>1, <2>2, MovedTreeFacts, ExchangedTreeFacts
  <2>6. tree'[q] = tree[p] /\ (req[t].op = "rename" => tree'[p] = NoInode)
    BY <1>1, <2>2, MovedTreeFacts, ExchangedTreeFacts
  <2>7. tree[p] # NoInode
    BY <1>1, <1>3, PathFacts DEF IsDir
  <2>8. p \notin stale => req[t].attr \in Path \X {tree[p]} /\ dirMeta[p] = maker[tree[p]]
    <3>. SUFFICES ASSUME p \notin stale
                  PROVE  req[t].attr \in Path \X {tree[p]} /\ dirMeta[p] = maker[tree[p]]
      OBVIOUS
    <3>1. p \in Uses(req[t])
      BY <1>1 DEF Within
    <3>2. Intact(p)
      BY <1>0, <1>1, <3>1, HarmlessIntact
    <3>3. req[t].attr = info[p]
      BY <1>0, <1>1 DEF MoveSound
    <3>. QED  BY <2>7, <3>2, <3>3 DEF Intact
  <2>9. RequestsSound' /\ PathsIntact' /\ StagesSound'
    <3>1. \A x \in Path \ (Within(p) \cup Within(q)) :
             tree'[x] = tree[x] /\ info'[x] = info[x] /\ dirMeta'[x] = dirMeta[x]
      BY <1>0, <2>5 DEF maps
    <3>2. req[t].op = "exchange" /\ At(t, "rename") => Parent(p) = Root /\ Parent(q) = Root
      BY <2>2
    <3>3. p \notin stale /\ q \notin stale =>
             /\ tree'[q] # NoInode /\ req[t].attr \in Path \X {tree'[q]}
             /\ dirMeta'[p] = maker[tree'[q]]
      BY <1>0, <2>6, <2>7, <2>8 DEF maps
    <3>. QED  BY <1>0, <1>3, <2>6, <3>1, <3>2, <3>3, Moves
  <2>. QED  BY <2>4, <2>9
<1>. QED
  <2>1. CASE req[t].op = "rename" /\ CanRename(p, q) /\ Goto(t, "oldInfo")
             /\ tree' = MovedTree(tree, p, q, NoInode)
    BY <1>3, <2>1 DEF CanRename
  <2>2. CASE req[t].op = "exchange" /\ CanExchange(p, q) /\ Goto(t, "oldInfo")
             /\ tree' = ExchangedTree(tree, p, q, NoInode)
    BY <1>3, <2>2 DEF CanExchange
  <2>. QED  BY <1>2, <2>1, <2>2 DEF RenameUnderlying

\* One map changes at one path.
LEMMA MovesOne ==
    ASSUME DirectoriesIInv, NEW t \in Threads, Renaming(t), ~At(t, "rename"),
           NEW p, p = req[t].path, NEW q, q = req[t].to,
           NEW s \in {"newInfo", "copy", "oldEntry", "move"}, Goto(t, s),
           UNCHANGED <<disk, node, stale>>,
           \A x \in Path \ {p, q} : info'[x] = info[x] /\ dirMeta'[x] = dirMeta[x],
           p \notin stale /\ req[t].op = "rename" =>
              info'[p] = NoInfo /\ (s = "move" => dirMeta'[p] = NoMeta),
           p \notin stale /\ q \notin stale =>
              /\ s \in {"newInfo", "copy"} => dirMeta'[p] = maker[tree[q]]
              /\ s \in {"copy", "oldEntry", "move"} => info'[q] = req[t].attr
              /\ s \in {"oldEntry", "move"} => dirMeta'[q] = maker[tree[q]]
    PROVE  RequestsSound' /\ InodesApart' /\ PathsIntact' /\ StagesSound'
<1>1. MoveSound(t) /\ p \in Path /\ q \in Path
  BY RenamingFacts
<1>2. /\ p \notin stale /\ req[t].op = "rename" => tree[p] = NoInode
      /\ p \notin stale /\ q \notin stale =>
            tree[q] # NoInode /\ req[t].attr \in Path \X {tree[q]}
  BY <1>1 DEF MoveSound
<1>3. InodesApart'
  BY DEF disk, InodesApart, DirectoriesIInv
<1>4. \A x \in Path \ (Within(p) \cup Within(q)) :
         tree'[x] = tree[x] /\ info'[x] = info[x] /\ dirMeta'[x] = dirMeta[x]
  BY DEF Within, disk
<1>5. tree' = tree /\ maker' = maker
  BY DEF disk
<1>6. RequestsSound' /\ PathsIntact' /\ StagesSound'
  BY <1>2, <1>4, <1>5, Moves
<1>. QED  BY <1>3, <1>6

LEMMA RenameRemovesInfoKeeps ==
    ASSUME DirectoriesIInv, NEW t \in Threads, RenameRemovesInfo(t)
    PROVE  RequestsSound' /\ InodesApart' /\ PathsIntact' /\ StagesSound'
<1>. SUFFICES ASSUME NEW p, p = req[t].path, NEW q, q = req[t].to
              PROVE  RequestsSound' /\ InodesApart' /\ PathsIntact' /\ StagesSound'
  OBVIOUS
<1>1. /\ At(t, "oldInfo") /\ Renaming(t) /\ ~At(t, "rename") /\ Goto(t, "newInfo")
      /\ UNCHANGED <<disk, dirMeta, node, stale>> /\ info' = [info EXCEPT ![p] = NoInfo]
  BY DEF RenameRemovesInfo, Renaming, At
<1>2. MoveSound(t) /\ p \in Path /\ q \in Path
  BY <1>1, RenamingFacts
<1>3. info \in [Path -> Attr \cup {NoInfo}]
  BY <1>2, MapTypes
<1>4. info'[p] = NoInfo /\ \A x \in Path \ {p} : info'[x] = info[x]
  BY <1>1, <1>2, <1>3
<1>5. p \notin stale /\ q \notin stale => dirMeta[p] = maker[tree[q]]
  BY <1>1, <1>2 DEF MoveSound, At
<1>. QED  BY <1>1, <1>4, <1>5, MovesOne

LEMMA RenameStoresInfoKeeps ==
    ASSUME DirectoriesIInv, NEW t \in Threads, RenameStoresInfo(t)
    PROVE  RequestsSound' /\ InodesApart' /\ PathsIntact' /\ StagesSound'
<1>. SUFFICES ASSUME NEW p, p = req[t].path, NEW q, q = req[t].to
              PROVE  RequestsSound' /\ InodesApart' /\ PathsIntact' /\ StagesSound'
  OBVIOUS
<1>1. /\ At(t, "newInfo") /\ Renaming(t) /\ ~At(t, "rename") /\ Goto(t, "copy")
      /\ UNCHANGED <<disk, dirMeta, node, stale>> /\ info' = [info EXCEPT ![q] = req[t].attr]
  BY DEF RenameStoresInfo, Renaming, At
<1>2. MoveSound(t) /\ p \in Path /\ q \in Path /\ p # q
  BY <1>1, RenamingFacts
<1>3. info \in [Path -> Attr \cup {NoInfo}]
  BY <1>2, MapTypes
<1>4. info'[q] = req[t].attr /\ \A x \in Path \ {q} : info'[x] = info[x]
  BY <1>1, <1>2, <1>3
<1>5. /\ p \notin stale /\ q \notin stale => dirMeta[p] = maker[tree[q]]
      /\ p \notin stale /\ req[t].op = "rename" => info[p] = NoInfo
  BY <1>1, <1>2 DEF MoveSound, At
<1>. QED  BY <1>1, <1>2, <1>4, <1>5, MovesOne

LEMMA RenameCopiesEntryKeeps ==
    ASSUME DirectoriesIInv, NEW t \in Threads, RenameCopiesEntry(t)
    PROVE  RequestsSound' /\ InodesApart' /\ PathsIntact' /\ StagesSound'
<1>. SUFFICES ASSUME NEW p, p = req[t].path, NEW q, q = req[t].to
              PROVE  RequestsSound' /\ InodesApart' /\ PathsIntact' /\ StagesSound'
  OBVIOUS
<1>1. /\ At(t, "copy") /\ Renaming(t) /\ ~At(t, "rename")
      /\ UNCHANGED <<disk, info, node, stale>>
  BY DEF RenameCopiesEntry, Renaming, At
<1>2. MoveSound(t) /\ p \in Path /\ q \in Path /\ p # q
  BY <1>1, RenamingFacts
<1>3. /\ dirMeta \in [Path -> Owner \cup {NoMeta}]
      /\ tree[q] # NoInode => maker[tree[q]] # NoMeta
  BY <1>2, MapTypes
<1>4. /\ p \notin stale /\ q \notin stale =>
            /\ tree[q] # NoInode /\ dirMeta[p] = maker[tree[q]]
            /\ info[q] = req[t].attr
      /\ p \notin stale /\ req[t].op = "rename" => info[p] = NoInfo
  BY <1>1, <1>2 DEF MoveSound, At
<1>5. CASE dirMeta[p] = NoMeta /\ Goto(t, "move") /\ UNCHANGED dirMeta
  BY <1>1, <1>3, <1>4, <1>5, MovesOne
<1>6. CASE dirMeta' = [dirMeta EXCEPT ![q] = dirMeta[p]] /\ Goto(t, "oldEntry")
  <2>1. dirMeta'[q] = dirMeta[p] /\ \A x \in Path \ {q} : dirMeta'[x] = dirMeta[x]
    BY <1>2, <1>3, <1>6
  <2>. QED  BY <1>1, <1>4, <1>6, <2>1, MovesOne
<1>. QED  BY <1>5, <1>6 DEF RenameCopiesEntry

LEMMA RenameRemovesEntryKeeps ==
    ASSUME DirectoriesIInv, NEW t \in Threads, RenameRemovesEntry(t)
    PROVE  RequestsSound' /\ InodesApart' /\ PathsIntact' /\ StagesSound'
<1>. SUFFICES ASSUME NEW p, p = req[t].path, NEW q, q = req[t].to
              PROVE  RequestsSound' /\ InodesApart' /\ PathsIntact' /\ StagesSound'
  OBVIOUS
<1>1. /\ At(t, "oldEntry") /\ Renaming(t) /\ ~At(t, "rename") /\ Goto(t, "move")
      /\ UNCHANGED <<disk, info, node, stale>> /\ dirMeta' = [dirMeta EXCEPT ![p] = NoMeta]
  BY DEF RenameRemovesEntry, Renaming, At
<1>2. MoveSound(t) /\ p \in Path /\ q \in Path /\ p # q
  BY <1>1, RenamingFacts
<1>3. dirMeta \in [Path -> Owner \cup {NoMeta}]
  BY <1>2, MapTypes
<1>4. dirMeta'[p] = NoMeta /\ \A x \in Path \ {p} : dirMeta'[x] = dirMeta[x]
  BY <1>1, <1>2, <1>3
<1>5. /\ p \notin stale /\ q \notin stale =>
            dirMeta[q] = maker[tree[q]] /\ info[q] = req[t].attr
      /\ p \notin stale /\ req[t].op = "rename" => info[p] = NoInfo
  BY <1>1, <1>2 DEF MoveSound, At
<1>. QED  BY <1>1, <1>2, <1>4, <1>5, MovesOne

\* The nodes move with the directory; what moves beneath it is stale, unless
\* there was nothing.
LEMMA NodesMove ==
    ASSUME DirectoriesIInv, NEW t \in Active, RenameReply(t),
           NEW p, p = req[t].path, NEW q, q = req[t].to,
           NEW x \in Path \ stale'
    PROVE  /\ x = p => node'[x] = NoNode /\ req[t].op = "rename"
           /\ x = q => node'[x] = node[p] /\ p \notin stale
           /\ x \in Beneath(p) \cup Beneath(q) =>
                 /\ node'[x] = NoNode /\ tree[x] = NoInode
                 /\ info[x] = NoInfo /\ dirMeta[x] = NoMeta
           /\ x \in Uses(req[t]) => x \in {p, q} \cup Beneath(p) \cup Beneath(q)
           /\ x \notin Uses(req[t]) => node'[x] = node[x]
<1>. DEFINE P == req[t].at
            Q == req[t].into
<1>1. /\ RequestsSound /\ At(t, "move") /\ stale' = stale \cup LeftWrong(t)
      /\ t \in Threads /\ Renaming(t)
  BY DEF DirectoriesIInv, RenameReply, Active, Renaming, At
<1>2. /\ P \in Path /\ Q \in Path /\ P # Q /\ Q \notin Beneath(P)
      /\ req[t].op = "exchange" => Len(P) = 1 /\ Len(Q) = 1
      /\ Len(P) = 1 \/ Len(Q) = 1 => P = p /\ Q = q
  BY <1>1, RenameHolds
<1>3. /\ p \in Path /\ q \in Path /\ p # q /\ q \notin Beneath(p)
      /\ req[t].op \in {"rename", "exchange"}
      /\ Within(p) \cup Within(q) \subseteq Uses(req[t])
      /\ Len(P) = Len(p) /\ Len(Q) = Len(q)
      /\ P # p => {P, p} \subseteq stale
      /\ Q # q => {Q, q} \subseteq stale
  <2>1. RenameSound(t) /\ PathsSound(t, t)
    BY <1>1 DEF RequestsSound
  <2>. QED  BY <1>1, <2>1, RenamingFacts DEF RenameSound, PathsSound
<1>4. \/ req[t].op = "rename" /\ node' = MovedTree(node, P, Q, NoNode)
      \/ /\ req[t].op = "exchange" /\ node' = ExchangedTree(node, P, Q, NoNode)
         /\ Len(P) = 1 /\ Len(Q) = 1
  BY <1>2, <1>3 DEF RenameReply
<1>. HIDE DEF P, Q
<1>5. ASSUME NEW y \in Beneath(p)
      PROVE  y \in Path /\ Len(p) = 1 /\ P = p /\ Q = q
  BY <1>2, <1>3, BeneathFacts, RebasedFacts
<1>6. ASSUME NEW y \in Beneath(q)
      PROVE  y \in Path /\ Len(q) = 1 /\ P = p /\ Q = q
  BY <1>2, <1>3, BeneathFacts, RebasedFacts
<1>7. x \notin stale /\ x \notin LeftWrong(t)
  BY <1>1
<1>8. ASSUME x = p
      PROVE  node'[x] = NoNode /\ req[t].op = "rename"
  <2>1. req[t].op = "rename"
    BY <1>3, <1>7, <1>8 DEF LeftWrong
  <2>2. P = p
    BY <1>3, <1>7, <1>8
  <2>3. node' = MovedTree(node, P, Q, NoNode)
    BY <1>4, <2>1
  <2>4. node'[P] = NoNode
    BY <1>2, <2>3, MovedTreeFacts
  <2>. QED  BY <1>8, <2>1, <2>2, <2>4
<1>9. ASSUME x = q
      PROVE  node'[x] = node[p] /\ p \notin stale
  <2>1. p \notin stale
    BY <1>7, <1>9 DEF LeftWrong
  <2>2. P = p /\ Q = q
    BY <1>3, <1>7, <1>9, <2>1
  <2>3. node'[Q] = node[P]
    BY <1>2, <1>4, MovedTreeFacts, ExchangedTreeFacts
  <2>. QED  BY <1>9, <2>1, <2>2, <2>3
<1>. DEFINE T == Active \ {t}
<1>10. ASSUME x \in Beneath(p)
       PROVE  /\ node'[x] = NoNode /\ tree[x] = NoInode
              /\ info[x] = NoInfo /\ dirMeta[x] = NoMeta
  <2>1. Len(p) = 1 /\ P = p /\ Q = q
    BY <1>5, <1>10
  <2>2. x \notin Touched(T) /\ Rebased(x, p, q) \notin Touched(T)
    BY <1>7, <1>10 DEF LeftWrong
  <2>3. tree[x] = NoInode /\ info[x] = NoInfo /\ dirMeta[x] = NoMeta
    BY <2>2 DEF Touched
  <2>4. CASE node' = MovedTree(node, P, Q, NoNode)
    BY <1>2, <1>10, <2>1, <2>3, <2>4, MovedTreeFacts
  <2>5. CASE node' = ExchangedTree(node, P, Q, NoNode) /\ Len(P) = 1 /\ Len(Q) = 1
    <3>1. Rebased(x, p, q) \in Beneath(q) /\ node'[x] = node[Rebased(x, p, q)]
      BY <1>2, <1>10, <2>1, <2>5, ExchangedTreeFacts
    <3>2. Rebased(x, p, q) \in Path
      BY <1>6, <3>1
    <3>3. node[Rebased(x, p, q)] = NoNode
      BY <2>2, <3>2 DEF Touched
    <3>. QED  BY <2>3, <3>1, <3>3
  <2>. QED  BY <1>4, <2>4, <2>5
<1>11. ASSUME x \in Beneath(q)
       PROVE  /\ node'[x] = NoNode /\ tree[x] = NoInode
              /\ info[x] = NoInfo /\ dirMeta[x] = NoMeta
  <2>1. Len(q) = 1 /\ P = p /\ Q = q
    BY <1>6, <1>11
  <2>2. x \notin Touched(T) /\ Rebased(x, q, p) \notin Touched(T)
    BY <1>7, <1>11 DEF LeftWrong
  <2>3. tree[x] = NoInode /\ info[x] = NoInfo /\ dirMeta[x] = NoMeta
    BY <2>2 DEF Touched
  <2>4. \/ node'[x] = NoNode
        \/ Rebased(x, q, p) \in Beneath(p) /\ node'[x] = node[Rebased(x, q, p)]
    BY <1>2, <1>4, <1>11, <2>1, MovedTreeFacts, ExchangedTreeFacts
  <2>5. ASSUME Rebased(x, q, p) \in Beneath(p)
        PROVE  node[Rebased(x, q, p)] = NoNode
    <3>1. Rebased(x, q, p) \in Path
      BY <1>5, <2>5
    <3>. QED  BY <2>2, <3>1 DEF Touched
  <2>. QED  BY <2>3, <2>4, <2>5
<1>12. ASSUME x \in Uses(req[t])
       PROVE  x \in {p, q} \cup Beneath(p) \cup Beneath(q)
  BY <1>3, <1>7, <1>12 DEF Uses, Within, P, Q
<1>13. ASSUME x \notin Uses(req[t])
       PROVE  node'[x] = node[x]
  <2>1. x # P /\ x # Q /\ x \notin Within(p) \cup Within(q)
    BY <1>3, <1>13 DEF Uses, P, Q
  <2>2. ASSUME x \in Beneath(P) \cup Beneath(Q)
        PROVE  FALSE
    <3>1. Len(P) = 1 \/ Len(Q) = 1
      BY <1>2, <2>2, RebasedFacts
    <3>2. P = p /\ Q = q
      BY <1>2, <3>1
    <3>. QED  BY <2>1, <2>2, <3>2 DEF Within
  <2>3. x \notin Within(P) \cup Within(Q)
    BY <2>1, <2>2 DEF Within
  <2>. QED  BY <1>2, <1>4, <2>3, MovedTreeFacts, ExchangedTreeFacts
<1>. QED  BY <1>8, <1>9, <1>10, <1>11, <1>12, <1>13

LEMMA RenameReplyKeeps ==
    ASSUME DirectoriesIInv, NEW t \in Threads, RenameReply(t)
    PROVE  RequestsSound' /\ InodesApart' /\ PathsIntact' /\ StagesSound'
<1>. SUFFICES ASSUME NEW p, p = req[t].path, NEW q, q = req[t].to
              PROVE  RequestsSound' /\ InodesApart' /\ PathsIntact' /\ StagesSound'
  OBVIOUS
<1>1. At(t, "move") /\ Renaming(t) /\ ~At(t, "oldInfo") /\ UNCHANGED <<disk, maps>>
  BY DEF RenameReply, Renaming, At
<1>2. /\ RequestsSound /\ t \in Active /\ MoveSound(t) /\ p \in Path /\ q \in Path
      /\ req[t].op \in {"rename", "exchange"}
  BY <1>1, RenamingFacts
<1>3. RequestsSound' /\ Active' = Active \ {t} /\ Others(t)
  BY <1>2, RenameReplyRequests DEF Others
<1>4. ASSUME NEW x \in Path \ stale', x \notin Uses(req[t])
      PROVE  Untouched(x)
  <2>1. node'[x] = node[x]
    BY <1>2, <1>4, NodesMove
  <2>. QED  BY <1>1, <2>1 DEF Untouched, MakerKept, disk, maps
<1>5. ASSUME NEW x \in Path \ stale', x \in Uses(req[t])
      PROVE  Intact(x)'
  <2>0. x \notin stale
    BY <1>3, <1>5 DEF Others
  <2>1. x \in {p, q} \cup Beneath(p) \cup Beneath(q)
    BY <1>2, <1>5, NodesMove
  <2>2. CASE x = p
    <3>1. node'[x] = NoNode /\ req[t].op = "rename"
      BY <1>2, <1>5, <2>2, NodesMove
    <3>2. tree[p] = NoInode /\ info[p] = NoInfo /\ dirMeta[p] = NoMeta
      BY <1>1, <1>2, <2>0, <2>2, <3>1 DEF MoveSound, At
    <3>. QED  BY <1>1, <2>2, <3>1, <3>2 DEF Intact, disk, maps
  <2>3. CASE x = q
    <3>1. node'[x] = node[p] /\ p \notin stale
      BY <1>2, <1>5, <2>3, NodesMove
    <3>2. /\ node[p] \in {NoNode, req[t].attr}
          /\ tree[q] # NoInode /\ req[t].attr \in Path \X {tree[q]}
          /\ info[q] = req[t].attr /\ dirMeta[q] = maker[tree[q]]
      BY <1>1, <1>2, <2>0, <2>3, <3>1 DEF MoveSound, At
    <3>. QED  BY <1>1, <2>3, <3>1, <3>2 DEF Intact, disk, maps
  <2>4. CASE x \in Beneath(p) \cup Beneath(q)
    <3>1. /\ node'[x] = NoNode /\ tree[x] = NoInode
          /\ info[x] = NoInfo /\ dirMeta[x] = NoMeta
      BY <1>2, <1>5, <2>4, NodesMove
    <3>. QED  BY <1>1, <3>1 DEF Intact, disk, maps
  <2>. QED  BY <2>1, <2>2, <2>3, <2>4
<1>6. PathsIntact' /\ StagesSound'
  BY <1>2, <1>3, <1>4, <1>5, StepKeeps
<1>7. InodesApart'
  BY <1>1 DEF disk, InodesApart, DirectoriesIInv
<1>. QED  BY <1>3, <1>6, <1>7

-----------------------------------------------------------------------------
(* Nodes forgotten, saves, a crash.                                         *)

LEMMA QuietKeeps ==
    ASSUME DirectoriesIInv, UNCHANGED <<disk, maps, req, stale>>,
           \A p \in Path : node'[p] \in {node[p], NoNode}
    PROVE  RequestsSound' /\ InodesApart' /\ PathsIntact' /\ StagesSound'
<1>1. Active' = Active /\ \A s \in Threads : Uses(req[s])' = Uses(req[s])
  BY DEF Active, Stage, Uses
<1>2. RequestsSound'
  <2>1. ASSUME NEW s \in Threads
        PROVE  RequestSound(s)' /\ RenameSound(s)'
    <3>1. RequestSound(s) /\ RenameSound(s)
      BY DEF DirectoriesIInv, RequestsSound
    <3>2. RequestSound(s)'
      BY <3>1 DEF RequestSound, At, Stage, Instantiating, Removing, Renaming
    <3>3. ASSUME Renaming(s), Len(req[s].path) < Len(req[s].to),
                 NEW r \in Beneath(req[s].path)
          PROVE  node'[r] = NoNode /\ \A u \in Active' : req'[u].at # r
      <4>1. r \in Path /\ node[r] = NoNode /\ \A u \in Active : req[u].at # r
        BY <3>1, <3>3 DEF RenameSound, Beneath
      <4>. QED  BY <1>1, <4>1
    <3>4. RenameSound(s)'
      BY <3>1, <3>3 DEF RenameSound, Renaming, At, Stage
    <3>. QED  BY <3>2, <3>4
  <2>2. ASSUME NEW s \in Active, NEW u \in Active
        PROVE  LocksSound(s, u)' /\ PathsSound(s, u)'
    <3>1. LocksSound(s, u) /\ PathsSound(s, u)
      BY DEF DirectoriesIInv, RequestsSound
    <3>. QED  BY <3>1 DEF LocksSound, PathsSound, Uses
  <2>. QED  BY <1>1, <2>1, <2>2 DEF DirectoriesIInv, RequestsSound
<1>3. InodesApart'
  BY DEF disk, InodesApart, DirectoriesIInv
<1>4. PICK t : t \notin Threads
  BY NoSetContainsEverything
<1>5. Others(t) /\ t \notin Active /\ t \notin Active'
  BY <1>1, <1>4 DEF Others, Active
<1>6. \A p \in Path : Untouched(p)
  BY DEF Untouched, MakerKept, disk, maps
<1>7. PathsIntact' /\ StagesSound'
  BY <1>5, <1>6, StepKeeps
<1>. QED  BY <1>2, <1>3, <1>7

LEMMA CrashKeeps ==
    ASSUME DirectoriesIInv, NEW torn \in BOOLEAN, Crash(torn)
    PROVE  RequestsSound' /\ InodesApart' /\ PathsIntact' /\ StagesSound'
<1>1. /\ tree' = tree /\ maker' = maker /\ req' = [t \in Threads |-> Idle]
      /\ node' = [p \in Path |-> NoNode]
      /\ stale' = stale \cup UsedBy(Active)
            \cup {p \in Path : savedInfo'[p] # info[p] \/ savedDirs'[p] # dirMeta[p]}
  BY DEF Crash, disk
<1>2. \A t \in Threads : req'[t] = Idle
  BY <1>1
<1>3. Active' = {}
  BY <1>2, IdleFacts DEF Active, Stage
<1>4. RequestsSound'
  <2>1. req' \in [Threads -> Request]
    BY <1>1, IdleFacts
  <2>2. \A t \in Threads : RequestSound(t)' /\ RenameSound(t)'
    BY <1>2, IdleFacts
       DEF RequestSound, RenameSound, At, Stage, Instantiating, Removing, Renaming
  <2>. QED  BY <1>3, <2>1, <2>2 DEF RequestsSound
<1>5. InodesApart'
  BY <1>1 DEF InodesApart, DirectoriesIInv
<1>6. ASSUME NEW p \in Path \ stale'
      PROVE  Intact(p)'
  <2>1. /\ p \notin stale /\ p \notin UsedBy(Active) /\ p # Root
        /\ savedInfo'[p] = info[p] /\ savedDirs'[p] = dirMeta[p]
    BY <1>1, RootFacts
  <2>2. Intact(p)
    BY <2>1 DEF UsedBy, DirectoriesIInv, PathsIntact
  <2>3. info[p] # NoInfo => IsDir(p)
    BY <2>1, <2>2 DEF Intact, IsDir
  <2>4. info'[p] = info[p] /\ dirMeta'[p] = dirMeta[p]
    BY <2>1, <2>3 DEF Crash
  <2>5. node'[p] = NoNode
    BY <1>1
  <2>. QED  BY <1>1, <2>2, <2>4, <2>5 DEF Intact
<1>7. PathsIntact' /\ StagesSound'
  BY <1>3, <1>6 DEF PathsIntact, StagesSound
<1>. QED  BY <1>4, <1>5, <1>7

-----------------------------------------------------------------------------
(* Types.                                                                   *)

LEMMA UsesPlaces ==
    ASSUME RequestsSound, NEW T \in SUBSET Threads
    PROVE  UsedBy(T) \subseteq Path
<1>1. ASSUME NEW t \in Threads, NEW x \in Uses(req[t])
      PROVE  x \in Place
  <2>1. req[t] \in Request
    BY DEF RequestsSound
  <2>2. {req[t].path, req[t].to, req[t].at, req[t].into} \subseteq Place
    BY <2>1 DEF Request
  <2>. QED  BY <1>1, <2>2 DEF Uses, Within, Beneath, Place
<1>. QED  BY <1>1 DEF UsedBy, Place

LEMMA TypesOfMaps ==
    ASSUME DirectoriesIInv, NEW t \in Threads,
           \/ MkdirStep(t) \/ LookupStep(t) \/ RmdirStep(t) \/ RenameStep(t)
    PROVE  /\ tree' \in [Path -> Inode \cup {NoInode}]
           /\ maker' \in [Inode -> User \cup {Server}]
           /\ info' \in [Path -> Attr \cup {NoInfo}]
           /\ dirMeta' \in [Path -> Owner \cup {NoMeta}]
           /\ node' \in [Path -> Attr \cup {NoNode}]
           /\ begun' \in 0..MaxRequests
           /\ UNCHANGED snapshot
<1>1. /\ tree \in [Path -> Inode \cup {NoInode}] /\ maker \in [Inode -> User \cup {Server}]
      /\ info \in [Path -> Attr \cup {NoInfo}] /\ dirMeta \in [Path -> Owner \cup {NoMeta}]
      /\ node \in [Path -> Attr \cup {NoNode}] /\ begun \in 0..MaxRequests
      /\ req[t] \in Request /\ MaxRequests \in Nat
  BY DirectoriesAssumption DEF DirectoriesIInv, DirTypeOK, RequestsSound
<1>2. {Server, Blank} \cup User \subseteq Owner
  BY DEF Owner
<1>3. ASSUME NEW r, Begin(t, r)
      PROVE  UNCHANGED <<disk, maps, node, snapshot>> /\ begun' \in 0..MaxRequests
  BY <1>1, <1>3 DEF Begin
<1>4. CASE MkdirStep(t)
  <2>1. CASE \E p \in Path, u \in User : MkdirBegin(t, p, u)
    BY <1>1, <1>3, <2>1 DEF MkdirBegin, disk, maps
  <2>2. CASE MkdirUnderlying(t)
    <3>1. req[t].user \in User \cup {Server}
      BY <1>1 DEF Request
    <3>. QED  BY <1>1, <2>2, <3>1 DEF MkdirUnderlying, disk, maps, snapshot
  <2>3. CASE UpdateOwner(t)
    <3>1. req[t].user \in Owner
      BY <1>1, <1>2 DEF Request
    <3>. QED  BY <1>1, <2>3, <3>1 DEF UpdateOwner, disk, maps, snapshot
  <2>. QED  BY <1>4, <2>1, <2>2, <2>3 DEF MkdirStep
<1>5. CASE LookupStep(t)
  <2>1. CASE \E p \in Path : LookupBegin(t, p)
    BY <1>1, <1>3, <2>1 DEF LookupBegin, disk, maps
  <2>2. CASE Stat(t) \/ RetrieveNodeInfo(t) \/ LookupDirMetadata(t)
    BY <1>1, <2>2 DEF Stat, RetrieveNodeInfo, LookupDirMetadata, disk, maps, snapshot
  <2>3. CASE StoreInfo(t)
    <3>1. req[t].attr \in Attr
      <4>1. Instantiating(t) /\ At(t, "info")
        BY <2>3 DEF StoreInfo, Instantiating, At
      <4>. QED  BY <4>1, InstantiatingFacts DEF At
    <3>. QED  BY <1>1, <2>3, <3>1 DEF StoreInfo, disk, maps, snapshot
  <2>4. CASE CreateDirEntry(t) \/ UpdateDirEntry(t)
    BY <1>1, <1>2, <2>4 DEF CreateDirEntry, UpdateDirEntry, disk, maps, snapshot
  <2>5. CASE Reply(t)
    <3>1. req[t].attr \in Attr
      <4>1. Instantiating(t) /\ At(t, "reply")
        BY <2>5 DEF Reply, Instantiating, At
      <4>. QED  BY <4>1, InstantiatingFacts DEF At
    <3>. QED  BY <1>1, <2>5, <3>1 DEF Reply, disk, maps, snapshot
  <2>. QED  BY <1>5, <2>1, <2>2, <2>3, <2>4, <2>5 DEF LookupStep
<1>6. CASE RmdirStep(t)
  <2>1. CASE \E p \in Path : RmdirBegin(t, p)
    BY <1>1, <1>3, <2>1 DEF RmdirBegin, disk, maps
  <2>2. CASE RmdirUnderlying(t)
    BY <1>1, <2>2 DEF RmdirUnderlying, disk, maps, snapshot
  <2>3. CASE RmdirRemovesEntry(t) \/ RmdirRemovesInfo(t) \/ RmdirReply(t)
    BY <1>1, <2>3 DEF RmdirRemovesEntry, RmdirRemovesInfo, RmdirReply, disk, maps, snapshot
  <2>. QED  BY <1>6, <2>1, <2>2, <2>3 DEF RmdirStep
<1>7. CASE RenameStep(t)
  <2>1. CASE \E p, q \in Path, op \in {"rename", "exchange"} : RenameBegin(t, p, q, op)
    BY <1>1, <1>3, <2>1 DEF RenameBegin, disk, maps
  <2>2. CASE RenameUnderlying(t)
    <3>. DEFINE T == Inode \cup {NoInode}
    <3>1. tree \in [Path -> T] /\ NoInode \in T
      BY <1>1
    <3>. HIDE DEF T
    <3>2. \A p, q : /\ MovedTree(tree, p, q, NoInode) \in [Path -> T]
                   /\ ExchangedTree(tree, p, q, NoInode) \in [Path -> T]
      BY <3>1, TreesTyped
    <3>3. \/ \E p, q : tree' = MovedTree(tree, p, q, NoInode)
          \/ \E p, q : tree' = ExchangedTree(tree, p, q, NoInode)
          \/ tree' = tree
      BY <2>2 DEF RenameUnderlying
    <3>4. tree' \in [Path -> T]
      BY <3>1, <3>2, <3>3
    <3>. QED  BY <1>1, <2>2, <3>4 DEF RenameUnderlying, maps, snapshot, T
  <2>3. CASE RenameRemovesInfo(t)
    BY <1>1, <2>3 DEF RenameRemovesInfo, disk, snapshot
  <2>4. CASE RenameStoresInfo(t)
    <3>1. Renaming(t)
      BY <2>4 DEF RenameStoresInfo, At, Renaming
    <3>2. req[t].attr \in Attr
      BY <3>1, RenamingFacts
    <3>. QED  BY <1>1, <2>4, <3>2 DEF RenameStoresInfo, disk, snapshot
  <2>5. CASE RenameCopiesEntry(t)
    <3>1. Renaming(t)
      BY <2>5 DEF RenameCopiesEntry, At, Renaming
    <3>2. req[t].path \in Path
      BY <3>1, RenamingFacts
    <3>. QED  BY <1>1, <2>5, <3>2 DEF RenameCopiesEntry, disk, snapshot
  <2>6. CASE RenameRemovesEntry(t)
    BY <1>1, <2>6 DEF RenameRemovesEntry, disk, snapshot
  <2>7. CASE RenameReply(t)
    <3>1. node' \in [Path -> Attr \cup {NoNode}]
      BY <1>1, <2>7, TreesTyped DEF RenameReply
    <3>. QED  BY <1>1, <2>7, <3>1 DEF RenameReply, disk, maps
  <2>. QED  BY <1>7, <2>1, <2>2, <2>3, <2>4, <2>5, <2>6, <2>7 DEF RenameStep
<1>. QED  BY <1>4, <1>5, <1>6, <1>7

LEMMA StaleTyped ==
    ASSUME DirectoriesIInv, NEW t \in Threads,
           \/ MkdirStep(t) \/ LookupStep(t) \/ RmdirStep(t) \/ RenameStep(t)
    PROVE  stale' \subseteq Path
<1>1. stale \subseteq Path /\ RequestsSound
  BY DEF DirectoriesIInv, DirTypeOK
<1>2. ASSUME NEW r, Begin(t, r)
      PROVE  stale' \subseteq Path
  <2>. DEFINE T == {s \in Active : r.op # "lookup" \/ req[s].op # "lookup"}
  <2>1. T \in SUBSET Threads
    BY DEF Active
  <2>. HIDE DEF T
  <2>2. UsedBy(T) \subseteq Path
    BY <1>1, <2>1, UsesPlaces
  <2>. QED  BY <1>1, <1>2, <2>2 DEF Begin, T
<1>3. CASE MkdirStep(t)
  BY <1>1, <1>2, <1>3 DEF MkdirStep, MkdirBegin, MkdirUnderlying, UpdateOwner
<1>4. CASE LookupStep(t)
  BY <1>1, <1>2, <1>4 DEF LookupStep, LookupBegin, Stat, RetrieveNodeInfo, LookupDirMetadata,
                          StoreInfo, CreateDirEntry, UpdateDirEntry, Reply
<1>5. CASE RmdirStep(t)
  BY <1>1, <1>2, <1>5 DEF RmdirStep, RmdirBegin, RmdirUnderlying, RmdirRemovesEntry,
                          RmdirRemovesInfo, RmdirReply
<1>6. CASE RenameStep(t)
  <2>1. CASE \E p, q \in Path, op \in {"rename", "exchange"} : RenameBegin(t, p, q, op)
    BY <1>2, <2>1 DEF RenameBegin
  <2>2. CASE RenameReply(t)
    <3>1. Renaming(t)
      BY <2>2 DEF RenameReply, At, Renaming
    <3>2. req[t].path \in Path /\ req[t].to \in Path
      BY <3>1, RenamingFacts
    <3>3. LeftWrong(t) \subseteq Path
      BY <3>2 DEF LeftWrong, Beneath
    <3>. QED  BY <1>1, <2>2, <3>3 DEF RenameReply
  <2>. QED
    BY <1>1, <1>6, <2>1, <2>2 DEF RenameStep, RenameUnderlying, RenameRemovesInfo,
                                  RenameStoresInfo, RenameCopiesEntry, RenameRemovesEntry
<1>. QED  BY <1>3, <1>4, <1>5, <1>6

LEMMA TypesKept ==
    ASSUME DirectoriesIInv, [Next]_vars
    PROVE  DirTypeOK'
<1>1. DirTypeOK /\ RequestsSound
  BY DEF DirectoriesIInv
<1>2. ASSUME NEW t \in Threads,
             \/ MkdirStep(t) \/ LookupStep(t) \/ RmdirStep(t) \/ RenameStep(t)
      PROVE  DirTypeOK'
  <2>1. stale' \subseteq Path
    BY <1>2, StaleTyped
  <2>2. /\ tree' \in [Path -> Inode \cup {NoInode}]
        /\ maker' \in [Inode -> User \cup {Server}]
        /\ info' \in [Path -> Attr \cup {NoInfo}]
        /\ dirMeta' \in [Path -> Owner \cup {NoMeta}]
        /\ node' \in [Path -> Attr \cup {NoNode}]
        /\ begun' \in 0..MaxRequests
        /\ UNCHANGED snapshot
    BY <1>2, TypesOfMaps
  <2>. QED  BY <1>1, <2>1, <2>2 DEF DirTypeOK, snapshot
<1>3. ASSUME NEW p \in Path, Forget(p)
      PROVE  DirTypeOK'
  BY <1>1, <1>3 DEF DirTypeOK, Forget, disk, maps, snapshot
<1>4. CASE SaveNodePersistenceHash
  BY <1>1, <1>4, DirectoriesAssumption DEF DirTypeOK, SaveNodePersistenceHash, disk, maps
<1>5. CASE SaveDirMetadataHash
  BY <1>1, <1>5, DirectoriesAssumption DEF DirTypeOK, SaveDirMetadataHash, disk, maps
<1>6. ASSUME NEW torn \in BOOLEAN, Crash(torn)
      PROVE  DirTypeOK'
  <2>1. savedInfo' \in [Path -> Attr \cup {NoInfo}]
    BY <1>1, <1>6 DEF DirTypeOK, Crash
  <2>2. savedDirs' \in [Path -> Owner \cup {NoMeta}]
    BY <1>1, <1>6 DEF DirTypeOK, Crash
  <2>3. info' \in [Path -> Attr \cup {NoInfo}] /\ dirMeta' \in [Path -> Owner \cup {NoMeta}]
    BY <1>6, <2>1, <2>2 DEF Crash
  <2>4. UsedBy(Active) \subseteq Path
    BY <1>1, UsesPlaces DEF Active
  <2>5. stale' \subseteq Path
    BY <1>1, <1>6, <2>4 DEF DirTypeOK, Crash
  <2>6. node' \in [Path -> Attr \cup {NoNode}] /\ next' \in {"nodes", "dirs"}
    BY <1>6 DEF Crash
  <2>7. crashes' \in 0..MaxCrashes
    BY <1>1, <1>6, DirectoriesAssumption DEF DirTypeOK, Crash
  <2>. QED
    BY <1>1, <1>6, <2>1, <2>2, <2>3, <2>5, <2>6, <2>7 DEF DirTypeOK, Crash, disk
<1>7. CASE UNCHANGED vars
  BY <1>1, <1>7 DEF DirTypeOK, vars, disk, maps, snapshot
<1>. QED  BY <1>2, <1>3, <1>4, <1>5, <1>6, <1>7 DEF Next

-----------------------------------------------------------------------------
(* The inductive invariant of the specification.                            *)

LEMMA InitEstablishes == Init => DirectoriesIInv
<1>. SUFFICES ASSUME Init
              PROVE  DirectoriesIInv
  OBVIOUS
<1>1. req = [t \in Threads |-> Idle] /\ \A t \in Threads : req[t] = Idle
  BY DEF Init
<1>2. Active = {}
  BY <1>1, IdleFacts DEF Active, Stage
<1>3. DirTypeOK
  BY DirectoriesAssumption DEF Init, DirTypeOK
<1>4. RequestsSound
  <2>1. req \in [Threads -> Request]
    BY <1>1, IdleFacts
  <2>2. ASSUME NEW t \in Threads
        PROVE  RequestSound(t) /\ RenameSound(t)
    <3>1. req[t] = Idle /\ Stage(t) = "idle" /\ req[t].to = Root /\ req[t].into = Root
      BY <1>1, IdleFacts DEF Stage
    <3>. QED  BY <3>1 DEF RequestSound, RenameSound, At, Renaming, Instantiating, Removing
  <2>. QED  BY <1>2, <2>1, <2>2 DEF RequestsSound
<1>5. InodesApart
  BY DEF Init, InodesApart
<1>6. PathsIntact
  BY DEF Init, PathsIntact, Intact
<1>7. StagesSound
  BY <1>2 DEF StagesSound
<1>. QED  BY <1>3, <1>4, <1>5, <1>6, <1>7 DEF DirectoriesIInv

LEMMA RequestsKeep ==
    ASSUME DirectoriesIInv, NEW t \in Threads,
           \/ MkdirStep(t) \/ LookupStep(t) \/ RmdirStep(t) \/ RenameStep(t)
    PROVE  RequestsSound' /\ InodesApart' /\ PathsIntact' /\ StagesSound'
<1>1. CASE MkdirStep(t)
  BY <1>1, MkdirBeginKeeps, MkdirUnderlyingKeeps, UpdateOwnerKeeps DEF MkdirStep
<1>2. CASE LookupStep(t)
  BY <1>2, LookupBeginKeeps, StatKeeps, RetrieveNodeInfoKeeps, LookupDirMetadataKeeps,
     StoreInfoKeeps, CreateDirEntryKeeps, UpdateDirEntryKeeps, ReplyKeeps DEF LookupStep
<1>3. CASE RmdirStep(t)
  BY <1>3, RmdirBeginKeeps, RmdirUnderlyingKeeps, RmdirRemovesEntryKeeps,
     RmdirRemovesInfoKeeps, RmdirReplyKeeps DEF RmdirStep
<1>4. CASE RenameStep(t)
  BY <1>4, RenameBeginKeeps, RenameUnderlyingKeeps, RenameRemovesInfoKeeps,
     RenameStoresInfoKeeps, RenameCopiesEntryKeeps, RenameRemovesEntryKeeps,
     RenameReplyKeeps DEF RenameStep
<1>. QED  BY <1>1, <1>2, <1>3, <1>4

LEMMA NextKeeps == DirectoriesIInv /\ [Next]_vars => DirectoriesIInv'
<1>. SUFFICES ASSUME DirectoriesIInv, [Next]_vars
              PROVE  DirectoriesIInv'
  OBVIOUS
<1>. DEFINE Rest == RequestsSound' /\ InodesApart' /\ PathsIntact' /\ StagesSound'
<1>1. DirTypeOK'
  BY TypesKept
<1>2. ASSUME NEW t \in Threads,
             \/ MkdirStep(t) \/ LookupStep(t) \/ RmdirStep(t) \/ RenameStep(t)
      PROVE  Rest
  BY <1>2, RequestsKeep
<1>3. ASSUME NEW p \in Path, Forget(p)
      PROVE  Rest
  <2>1. UNCHANGED <<disk, maps, req, stale>> /\ \A r \in Path : node'[r] \in {node[r], NoNode}
    BY <1>3 DEF Forget, DirectoriesIInv, DirTypeOK
  <2>. QED  BY <2>1, QuietKeeps
<1>4. ASSUME SaveNodePersistenceHash \/ SaveDirMetadataHash \/ UNCHANGED vars
      PROVE  Rest
  <2>1. UNCHANGED <<disk, maps, node, req, stale>>
    BY <1>4 DEF SaveNodePersistenceHash, SaveDirMetadataHash, vars
  <2>. QED  BY <2>1, QuietKeeps
<1>5. ASSUME NEW torn \in BOOLEAN, Crash(torn)
      PROVE  Rest
  BY <1>5, CrashKeeps
<1>6. Rest
  BY <1>2, <1>3, <1>4, <1>5 DEF Next
<1>. QED  BY <1>1, <1>6 DEF DirectoriesIInv

\* What the file system, the two maps, go-fuse's tree and the requests in flight
\* have to do with one another, at every step of Mkdir, Lookup, Rmdir and Rename
\* and after every crash.
THEOREM DirectoriesInvariant == Spec => []DirectoriesIInv
BY InitEstablishes, NextKeeps, PTL DEF Spec

-----------------------------------------------------------------------------
(* What follows from it.                                                    *)

LEMMA SoundIsIntact ==
    ASSUME DirectoriesIInv, NEW p \in Path, Sound(p)
    PROVE  Intact(p) /\ p # Root /\ (IsDir(p) <=> tree[p] # NoInode)
<1>1. p # Root
  BY RootFacts
<1>2. p \notin stale /\ \A t \in Active : p \notin Uses(req[t])
  BY <1>1 DEF Sound, Settled, UsedBy
<1>3. Intact(p)
  BY <1>2 DEF DirectoriesIInv, PathsIntact
<1>. QED  BY <1>1, <1>3 DEF IsDir

LEMMA IntactFacts ==
    ASSUME DirectoriesIInv
    PROVE  OwnersKept /\ NodesAreKnown /\ NothingLeft
<1>1. OwnersKept
  BY SoundIsIntact DEF OwnersKept, Intact
<1>2. NodesAreKnown
  BY SoundIsIntact DEF NodesAreKnown, Intact
<1>3. NothingLeft
  BY SoundIsIntact DEF NothingLeft, Intact
<1>. QED  BY <1>1, <1>2, <1>3

LEMMA NodesDiffer ==
    ASSUME DirectoriesIInv
    PROVE  DirectoriesDistinct
<1>. SUFFICES ASSUME NEW p \in Path, NEW q \in Path, Sound(p), Sound(q), p # q,
                     info[p] # NoInfo, info[p] = info[q]
              PROVE  FALSE
  BY DEF DirectoriesDistinct
<1>1. info[p] \in Path \X {tree[p]} /\ tree[p] # NoInode
  BY SoundIsIntact DEF Intact
<1>2. info[q] \in Path \X {tree[q]}
  BY SoundIsIntact DEF Intact
<1>3. tree[p] = tree[q]
  BY <1>1, <1>2
<1>. QED  BY <1>1, <1>3 DEF DirectoriesIInv, InodesApart

LEMMA PanicIsStale ==
    ASSUME DirectoriesIInv
    PROVE  NoPanic
<1>. SUFFICES ASSUME NEW t \in Threads, Panic(t)
              PROVE  req[t].path \in stale
  BY DEF NoPanic
<1>1. Stage(t) = "panic" /\ t \in Active
  BY DEF Panic, At, Active
<1>2. req[t].op = "mkdir"
  BY <1>1 DEF DirectoriesIInv, RequestsSound, RequestSound
<1>3. MkdirSound(t)
  BY <1>1 DEF DirectoriesIInv, StagesSound
<1>. QED  BY <1>1, <1>2, <1>3 DEF MkdirSound

\* The maps hold stable attributes and owners under the paths of the tree, and
\* the counts of requests, saves and crashes stay within their bounds.
THEOREM DirectoriesTypes == Spec => []DirTypeOK
<1>1. DirectoriesIInv => DirTypeOK
  BY DEF DirectoriesIInv
<1>. QED  BY <1>1, DirectoriesInvariant, PTL

\* A directory that exists has metadata, and its owner is whoever made it with
\* Mkdir, under whatever name Rename has given it and also after a restart.
THEOREM OwnersAreKept == Spec => []OwnersKept
<1>1. DirectoriesIInv => OwnersKept
  BY IntactFacts
<1>. QED  BY <1>1, DirectoriesInvariant, PTL

\* A node in go-fuse's tree is that of an existing directory, and the node info
\* stored under its path is the node's own.
THEOREM KnownNodes == Spec => []NodesAreKnown
<1>1. DirectoriesIInv => NodesAreKnown
  BY IntactFacts
<1>. QED  BY <1>1, DirectoriesInvariant, PTL

\* Rmdir and Rename leave neither node info nor metadata under a path where no
\* directory is any more, and no restart brings them back.
THEOREM NothingIsLeft == Spec => []NothingLeft
<1>1. DirectoriesIInv => NothingLeft
  BY IntactFacts
<1>. QED  BY <1>1, DirectoriesInvariant, PTL

\* Two directories never have one stable attribute, though the underlying file
\* system uses the inodes of removed directories again.
THEOREM DirectoriesStayDistinct == Spec => []DirectoriesDistinct
<1>1. DirectoriesIInv => DirectoriesDistinct
  BY NodesDiffer
<1>. QED  BY <1>1, DirectoriesInvariant, PTL

\* Mkdir gets a node from HandleNodeInstantiation unless another request was at
\* work on its path.
THEOREM MkdirGetsNode == Spec => []NoPanic
<1>1. DirectoriesIInv => NoPanic
  BY PanicIsStale
<1>. QED  BY <1>1, DirectoriesInvariant, PTL

=============================================================================
