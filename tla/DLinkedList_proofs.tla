-------------------------- MODULE DLinkedList_proofs --------------------------
(***************************************************************************)
(* Theorems about DLinkedList, for any number of addresses and any data:   *)
(* no sequence of calls follows a bad pointer, the two chains are one list *)
(* of exactly the nodes that are allocated, and the list with its iterator *)
(* implements ListSpec.                                                    *)
(***************************************************************************)
EXTENDS DLinkedList, FiniteSetTheorems, SequenceTheorems, WellFoundedInduction, TLAPS

-----------------------------------------------------------------------------
(* Numbers *)

\* The order of the naturals, as the theorem about it has it.
LEMMA LessThan == OpToRel(<, Nat) = {p \in Nat \X Nat : p[1] < p[2]}
BY DEF OpToRel

\* A set of numbers has a least one.
LEMMA LeastNat ==
  ASSUME NEW S, S \subseteq Nat, S # {}
  PROVE  \E m \in S : \A k \in S : m <= k
<1>1. PICK m \in S : \A k \in S : ~(<<k, m>> \in OpToRel(<, Nat))
  BY NatLessThanWellFounded, WFMin
<1>2. ASSUME NEW k \in S PROVE m <= k
  <2>1. k \in Nat /\ m \in Nat
    OBVIOUS
  <2>2. ~(k < m)
    BY <1>1, <2>1, LessThan
  <2> QED BY <2>1, <2>2
<1> QED BY <1>2

-----------------------------------------------------------------------------
(* Chains *)

\* The pointers a walk from p along link meets, as Chain computes them.
Step(q, link) == IF q \in Node THEN link[q] ELSE NULL

\* s is what lies behind p: its nodes, none of them twice, each linked to the
\* one after it and the last to none.
IsPath(s, p, link) ==
  /\ s \in Seq(Node)
  /\ \A i, j \in 1..Len(s) : s[i] = s[j] => i = j
  /\ p = IF Len(s) = 0 THEN NULL ELSE s[1]
  /\ \A i \in 1..Len(s) : link[s[i]] = IF i = Len(s) THEN NULL ELSE s[i + 1]

IsWalk(f, N, p, link) == \A k \in 0..N : f[k] = IF k = 0 THEN p ELSE Step(f[k - 1], link)

\* What a walk of N steps meets is determined by where it starts.
LEMMA WalkUnique ==
  ASSUME NEW N \in Nat, NEW p, NEW link, NEW f, NEW g,
         IsWalk(f, N, p, link), IsWalk(g, N, p, link)
  PROVE  \A k \in 0..N : f[k] = g[k]
<1> DEFINE D == {k \in 0..N : f[k] # g[k]}
<1> SUFFICES ASSUME D # {} PROVE FALSE
  OBVIOUS
<1>1. PICK m \in D : \A k \in D : m <= k
  <2> D \subseteq Nat
    OBVIOUS
  <2> HIDE DEF D
  <2> QED BY LeastNat
<1>2. m # 0
  BY <1>1 DEF IsWalk
<1>3. m - 1 \in 0..N /\ m - 1 \notin D
  BY <1>1, <1>2
<1>4. f[m] = Step(f[m - 1], link) /\ g[m] = Step(g[m - 1], link)
  BY <1>1, <1>2 DEF IsWalk
<1> QED BY <1>1, <1>3, <1>4

\* The nodes of a path are no more than the addresses there are.
LEMMA PathLength ==
  ASSUME ListAssumption, NEW s, NEW p, NEW link, IsPath(s, p, link)
  PROVE  Len(s) \in 0..Cardinality(Node)
<1>0. s \in Seq(Node)
  BY DEF IsPath
<1>2. Len(s) \in Nat /\ s \in [1..Len(s) -> Node]
  BY <1>0, LenProperties
<1>1. s \in Injection(1..Len(s), Node)
  BY <1>2 DEF IsPath, Injection, IsInjective
<1>3. Cardinality(1..Len(s)) = Len(s)
  <2>1. 1 \in Int /\ Len(s) \in Int
    BY <1>2
  <2>2. Cardinality(1..Len(s)) = IF 1 > Len(s) THEN 0 ELSE Len(s) - 1 + 1
    BY <2>1, FS_Interval
  <2> QED BY <1>2, <2>2
<1>4. Cardinality(1..Len(s)) <= Cardinality(Node) /\ Cardinality(Node) \in Nat
  BY <1>1, FS_Injection, FS_CardinalityType DEF ListAssumption
<1> QED BY <1>2, <1>3, <1>4

\* A walk along the links of a path meets the path, and NULL behind it.
LEMMA ChainOfPath ==
  ASSUME ListAssumption, NEW s, NEW p, NEW link, IsPath(s, p, link)
  PROVE  Chain(p, link) = s
<1> DEFINE N == Cardinality(Node)
           walk[k \in 0..N] == IF k = 0 THEN p
                        ELSE IF walk[k - 1] \in Node THEN link[walk[k - 1]] ELSE NULL
           met == [k \in 0..N |-> IF k < Len(s) THEN s[k + 1] ELSE NULL]
<1>1. N \in Nat /\ Len(s) \in 0..N /\ s \in Seq(Node) /\ NULL \notin Node
  BY PathLength, FS_CardinalityType DEF ListAssumption, IsPath
<1>2. IsWalk(met, N, p, link)
  <2> SUFFICES ASSUME NEW k \in 0..N
      PROVE met[k] = IF k = 0 THEN p ELSE Step(met[k - 1], link)
    BY DEF IsWalk
  <2>1. CASE k = 0
    BY <1>1, <2>1 DEF IsPath
  <2>2. CASE k > 0 /\ k - 1 < Len(s)
    <3>1. met[k - 1] = s[k] /\ s[k] \in Node /\ k \in 1..Len(s)
      BY <1>1, <2>2, ElementOfSeq
    <3>2. link[s[k]] = IF k = Len(s) THEN NULL ELSE s[k + 1]
      BY <3>1 DEF IsPath
    <3> QED BY <1>1, <2>2, <3>1, <3>2 DEF Step
  <2>3. CASE k > 0 /\ k - 1 >= Len(s)
    BY <1>1, <2>3 DEF Step
  <2> QED BY <1>1, <2>1, <2>2, <2>3
<1>3. met = [k \in 0..N |-> IF k = 0 THEN p
                        ELSE IF met[k - 1] \in Node THEN link[met[k - 1]] ELSE NULL]
  BY <1>2 DEF Step, IsWalk
<1>4. walk = [k \in 0..N |-> IF k = 0 THEN p
                        ELSE IF walk[k - 1] \in Node THEN link[walk[k - 1]] ELSE NULL]
  <2> HIDE DEF met
  <2> QED BY <1>3
<1>n. PICK n \in Nat : n = N
  BY <1>1
<1>5. PICK w :
        /\ w = [k \in 0..n |-> IF k = 0 THEN p
                        ELSE IF w[k - 1] \in Node THEN link[w[k - 1]] ELSE NULL]
        /\ Chain(p, link) =
             [k \in 1..Cardinality({i \in 0..n : w[i] \in Node}) |-> w[k - 1]]
  <2>1. Chain(p, link) = [k \in 1..Cardinality({i \in 0..N : walk[i] \in Node}) |-> walk[k - 1]]
    BY DEF Chain
  <2> HIDE DEF walk
  <2> QED BY <1>n, <1>4, <2>1
<1>6. PICK m : m = met
  OBVIOUS
<1>7. /\ IsWalk(m, n, p, link)
      /\ \A k \in 0..n : m[k] = IF k < Len(s) THEN s[k + 1] ELSE NULL
  BY <1>2, <1>n, <1>6
<1> HIDE DEF walk, met, N
<1>8. IsWalk(w, n, p, link)
  BY <1>5 DEF Step, IsWalk
<1>9. \A k \in 0..n : w[k] = IF k < Len(s) THEN s[k + 1] ELSE NULL
  <2>1. \A k \in 0..n : w[k] = m[k]
    BY <1>7, <1>8, WalkUnique
  <2> QED BY <1>7, <2>1
<1>10. Len(s) \in 0..n
  BY <1>1, <1>n
<1>11. Cardinality({i \in 0..n : w[i] \in Node}) = Len(s)
  <2>1. {i \in 0..n : w[i] \in Node} = 0..(Len(s) - 1)
    <3>1. ASSUME NEW k \in 0..n PROVE w[k] \in Node <=> k < Len(s)
      BY <1>1, <1>9, <1>10, ElementOfSeq
    <3> QED BY <1>10, <3>1
  <2>2. 0 \in Int /\ Len(s) - 1 \in Int
    BY <1>10
  <2>3. Cardinality(0..(Len(s) - 1)) = IF 0 > Len(s) - 1 THEN 0 ELSE Len(s) - 1 - 0 + 1
    BY <2>2, FS_Interval
  <2>4. Cardinality(0..(Len(s) - 1)) = Len(s)
    BY <1>10, <2>3
  <2> QED BY <2>1, <2>4, Zenon
<1>12. \A k \in 1..Len(s) : w[k - 1] = s[k]
  BY <1>9, <1>10
<1>13. s = [k \in 1..Len(s) |-> s[k]]
  BY <1>1, LenProperties
<1> QED BY <1>5, <1>11, <1>12, <1>13

-----------------------------------------------------------------------------
(* Sequences *)

\* Cons puts an element in front and moves the others back by one.
LEMMA ConsProperties ==
  ASSUME NEW S, NEW s \in Seq(S), NEW e \in S
  PROVE  /\ Cons(e, s) \in Seq(S)
         /\ Len(Cons(e, s)) = Len(s) + 1
         /\ Cons(e, s)[1] = e
         /\ \A i \in 2..Len(s) + 1 : Cons(e, s)[i] = s[i - 1]
<1>1. <<e>> \in Seq(S) /\ Len(<<e>>) = 1 /\ <<e>>[1] = e
  OBVIOUS
<1>2. Len(s) \in Nat
  BY LenProperties
<1>3. /\ <<e>> \o s \in Seq(S)
      /\ Len(<<e>> \o s) = Len(<<e>>) + Len(s)
      /\ \A i \in 1..Len(<<e>>) + Len(s) : (<<e>> \o s)[i] =
           IF i <= Len(<<e>>) THEN <<e>>[i] ELSE s[i - Len(<<e>>)]
  BY <1>1, ConcatProperties
<1> QED BY <1>1, <1>2, <1>3 DEF Cons

\* RemoveAt takes one element out and moves up those behind it.
LEMMA RemoveAtProperties ==
  ASSUME NEW S, NEW s \in Seq(S), NEW i \in 1..Len(s)
  PROVE  /\ RemoveAt(s, i) \in Seq(S)
         /\ Len(RemoveAt(s, i)) = Len(s) - 1
         /\ \A k \in 1..Len(s) - 1 :
              RemoveAt(s, i)[k] = IF k < i THEN s[k] ELSE s[k + 1]
<1> DEFINE a == SubSeq(s, 1, i - 1)
           b == SubSeq(s, i + 1, Len(s))
<1>1. Len(s) \in Nat /\ \A k \in 1..Len(s) : s[k] \in S
  BY LenProperties, ElementOfSeq
<1>2. /\ a \in Seq(S)
      /\ Len(a) = i - 1
      /\ \A k \in 1..i - 1 : a[k] = s[k]
  <2>1. 1 \in Int /\ i - 1 \in Int /\ \A k \in 1..i - 1 : s[k] \in S
    BY <1>1
  <2>2. /\ a \in Seq(S)
        /\ Len(a) = IF 1 <= i - 1 THEN i - 1 - 1 + 1 ELSE 0
        /\ \A k \in 1..i - 1 - 1 + 1 : a[k] = s[1 + k - 1]
    BY <2>1, SubSeqProperties
  <2> HIDE DEF a
  <2> QED BY <1>1, <2>2
<1>3. /\ b \in Seq(S)
      /\ Len(b) = Len(s) - i
      /\ \A k \in 1..Len(s) - i : b[k] = s[i + k]
  <2>1. i + 1 \in Int /\ Len(s) \in Int /\ \A k \in i + 1..Len(s) : s[k] \in S
    BY <1>1
  <2>2. /\ b \in Seq(S)
        /\ Len(b) = IF i + 1 <= Len(s) THEN Len(s) - (i + 1) + 1 ELSE 0
        /\ \A k \in 1..Len(s) - (i + 1) + 1 : b[k] = s[i + 1 + k - 1]
    BY <2>1, SubSeqProperties
  <2> HIDE DEF b
  <2>3. ASSUME NEW k \in 1..Len(s) - i PROVE b[k] = s[i + k]
    <3>1. k \in 1..Len(s) - (i + 1) + 1 /\ i + 1 + k - 1 = i + k
      BY <1>1
    <3> QED BY <2>2, <3>1
  <2> QED BY <1>1, <2>2, <2>3
<1>4. RemoveAt(s, i) = a \o b
  BY DEF RemoveAt
<1> HIDE DEF a, b
<1>5. /\ a \o b \in Seq(S)
      /\ Len(a \o b) = Len(a) + Len(b)
      /\ \A k \in 1..Len(a) + Len(b) : (a \o b)[k] = IF k <= Len(a) THEN a[k] ELSE b[k - Len(a)]
  BY <1>2, <1>3, ConcatProperties
<1>6. ASSUME NEW k \in 1..Len(s) - 1
      PROVE  (a \o b)[k] = IF k < i THEN s[k] ELSE s[k + 1]
  <2>1. CASE k < i
    <3>1. k \in 1..Len(a) + Len(b) /\ k <= Len(a) /\ k \in 1..i - 1
      BY <1>1, <1>2, <1>3, <2>1
    <3> QED BY <1>2, <1>5, <2>1, <3>1
  <2>2. CASE ~(k < i)
    <3>1. k \in 1..Len(a) + Len(b) /\ ~(k <= Len(a)) /\ k - Len(a) \in 1..Len(s) - i
      BY <1>1, <1>2, <1>3, <2>2
    <3>2. i + (k - Len(a)) = k + 1
      BY <1>1, <1>2
    <3> QED BY <1>3, <1>5, <2>2, <3>1, <3>2
  <2> QED BY <2>1, <2>2
<1> QED BY <1>1, <1>2, <1>3, <1>4, <1>5, <1>6

\* Append adds an element behind the others.
LEMMA AppendParts ==
  ASSUME NEW S, NEW s \in Seq(S), NEW e \in S
  PROVE  /\ Append(s, e) \in Seq(S)
         /\ Len(Append(s, e)) = Len(s) + 1
         /\ Append(s, e)[Len(s) + 1] = e
         /\ \A i \in 1..Len(s) : Append(s, e)[i] = s[i]
BY AppendProperties

\* A sequence read backwards.
LEMMA ReverseProperties ==
  ASSUME NEW S, NEW s \in Seq(S)
  PROVE  /\ Reverse(s) \in Seq(S)
         /\ Len(Reverse(s)) = Len(s)
         /\ \A i \in 1..Len(s) : Reverse(s)[i] = s[Len(s) - i + 1]
<1>1. Len(s) \in Nat /\ \A k \in 1..Len(s) : s[k] \in S
  BY LenProperties, ElementOfSeq
<1>2. Reverse(s) \in [1..Len(s) -> S]
  BY <1>1 DEF Reverse
<1>3. Reverse(s) \in Seq(S)
  BY <1>1, <1>2, SeqDef
<1>4. DOMAIN Reverse(s) = 1..Len(Reverse(s)) /\ Len(Reverse(s)) \in Nat
  BY <1>3, LenProperties
<1>5. DOMAIN Reverse(s) = 1..Len(s)
  BY <1>2
<1>6. Len(Reverse(s)) = Len(s)
  BY <1>1, <1>4, <1>5
<1> QED BY <1>3, <1>6 DEF Reverse

-----------------------------------------------------------------------------
(* The invariant *)

\* The pointers spell the sequence s in both directions.
Linked(s) ==
  /\ s \in Seq(Node)
  /\ \A i, j \in 1..Len(s) : s[i] = s[j] => i = j
  /\ alloc = {s[i] : i \in 1..Len(s)}
  /\ count = Len(s)
  /\ header = IF Len(s) = 0 THEN NULL ELSE s[1]
  /\ tailer = IF Len(s) = 0 THEN NULL ELSE s[Len(s)]
  /\ \A i \in 1..Len(s) : next[s[i]] = IF i = Len(s) THEN NULL ELSE s[i + 1]
  /\ \A i \in 1..Len(s) : prev[s[i]] = IF i = 1 THEN NULL ELSE s[i - 1]

\* What the variables may hold, whatever the pointers spell: callers' data in
\* the nodes in use, and an iterator that is on one of these or says it is not.
Held ==
  /\ prev \in [Node -> Node \cup {NULL}]
  /\ next \in [Node -> Node \cup {NULL}]
  /\ data \in [Node -> Data \cup {NULL}]
  /\ \A n \in alloc : data[n] \in Data
  /\ currptr \in alloc \cup {NULL, Freed}
  /\ fault = FALSE

ListInv == Held /\ \E s : Linked(s)

\* What the lemmas below need of a list.
LEMMA LinkedFacts ==
  ASSUME ListAssumption, NEW s, Linked(s)
  PROVE  /\ Len(s) \in 0..Cardinality(Node) /\ Len(s) \in Nat
         /\ \A i \in 1..Len(s) : s[i] \in Node /\ s[i] \in alloc
         /\ alloc \subseteq Node
         /\ IsPath(s, header, next)
         /\ Chain(header, next) = s
<1>1. s \in Seq(Node) /\ Len(s) \in Nat
  BY LenProperties DEF Linked
<1>2. \A i \in 1..Len(s) : s[i] \in Node
  BY <1>1, ElementOfSeq
<1>3. IsPath(s, header, next)
  BY DEF Linked, IsPath
<1> QED BY <1>1, <1>2, <1>3, PathLength, ChainOfPath DEF Linked

\* Both chains are the list.
LEMMA BackwardsChain ==
  ASSUME ListAssumption, NEW s, Linked(s)
  PROVE  Chain(tailer, prev) = Reverse(s)
<1>1. s \in Seq(Node) /\ Len(s) \in Nat
  BY LenProperties DEF Linked
<1>2. PICK r : r = Reverse(s)
  OBVIOUS
<1>3. r \in Seq(Node) /\ Len(r) = Len(s) /\ \A i \in 1..Len(s) : r[i] = s[Len(s) - i + 1]
  BY <1>1, <1>2, ReverseProperties
<1>4. IsPath(r, tailer, prev)
  <2>1. ASSUME NEW i \in 1..Len(r), NEW j \in 1..Len(r), r[i] = r[j] PROVE i = j
    <3>1. Len(s) - i + 1 \in 1..Len(s) /\ Len(s) - j + 1 \in 1..Len(s)
      BY <1>1, <1>3
    <3>2. s[Len(s) - i + 1] = s[Len(s) - j + 1]
      BY <1>3, <2>1
    <3>3. Len(s) - i + 1 = Len(s) - j + 1
      BY <3>1, <3>2 DEF Linked
    <3> QED BY <1>1, <1>3, <3>3
  <2>2. tailer = IF Len(r) = 0 THEN NULL ELSE r[1]
    <3>1. Len(s) # 0 => r[1] = s[Len(s) - 1 + 1] /\ Len(s) - 1 + 1 = Len(s)
      BY <1>1, <1>3
    <3> QED BY <1>3, <3>1 DEF Linked
  <2>3. ASSUME NEW i \in 1..Len(r)
        PROVE  prev[r[i]] = IF i = Len(r) THEN NULL ELSE r[i + 1]
    <3>1. Len(s) - i + 1 \in 1..Len(s) /\ r[i] = s[Len(s) - i + 1]
      BY <1>1, <1>3
    <3>2. prev[r[i]] = IF Len(s) - i + 1 = 1 THEN NULL ELSE s[Len(s) - i + 1 - 1]
      BY <3>1 DEF Linked
    <3>3. i # Len(r) => i + 1 \in 1..Len(s) /\ Len(s) - (i + 1) + 1 = Len(s) - i + 1 - 1
      BY <1>1, <1>3
    <3>4. i # Len(r) => r[i + 1] = s[Len(s) - i + 1 - 1]
      BY <1>3, <3>3
    <3>5. Len(s) - i + 1 = 1 <=> i = Len(r)
      BY <1>1, <1>3
    <3> QED BY <3>2, <3>4, <3>5
  <2> QED BY <1>3, <2>1, <2>2, <2>3 DEF IsPath
<1> QED BY <1>2, <1>4, ChainOfPath

\* The invariant gives the properties that the run checks.
LEMMA ListInvSafe ==
  ASSUME ListAssumption, ListInv
  PROVE  TypeOK /\ NeverFaults /\ WellLinked
<1>1. PICK s : Linked(s)
  BY DEF ListInv
<1>2. /\ Len(s) \in 0..Cardinality(Node) /\ Len(s) \in Nat
      /\ \A i \in 1..Len(s) : s[i] \in Node /\ s[i] \in alloc
      /\ alloc \subseteq Node
      /\ Chain(header, next) = s
  BY <1>1, LinkedFacts
<1>3. TypeOK
  <2>1. header \in Node \cup {NULL} /\ tailer \in Node \cup {NULL}
    BY <1>1, <1>2 DEF Linked
  <2>2. count \in 0..Cardinality(Node)
    BY <1>1, <1>2 DEF Linked
  <2> QED BY <1>2, <2>1, <2>2 DEF TypeOK, ListInv, Held
<1>4. Cardinality(alloc) = Len(s)
  <2>1. s \in [1..Len(s) -> alloc]
    <3>1. s \in [1..Len(s) -> Node]
      BY <1>1, LenProperties DEF Linked
    <3> QED BY <1>2, <3>1
  <2>2. s \in Injection(1..Len(s), alloc) /\ s \in Surjection(1..Len(s), alloc)
    BY <1>1, <2>1 DEF Linked, Injection, IsInjective, Surjection
  <2>3. IsFiniteSet(1..Len(s)) /\ Cardinality(1..Len(s)) = Len(s)
    <3>1. 1 \in Int /\ Len(s) \in Int
      BY <1>2
    <3>2. Cardinality(1..Len(s)) = IF 1 > Len(s) THEN 0 ELSE Len(s) - 1 + 1
      BY <3>1, FS_Interval
    <3>3. IsFiniteSet(1..Len(s))
      BY <3>1, FS_Interval
    <3> QED BY <1>2, <3>2, <3>3
  <2>4. Cardinality(alloc) = Cardinality(1..Len(s))
    BY <2>2, <2>3, FS_Surjection
  <2> QED BY <2>3, <2>4
<1>5. ToSet(s) = alloc
  <2>1. DOMAIN s = 1..Len(s)
    BY <1>1, LenProperties DEF Linked
  <2> QED BY <1>1, <2>1 DEF ToSet, Linked
<1>6. WellLinked
  BY <1>1, <1>2, <1>4, <1>5, BackwardsChain DEF WellLinked, Linked
<1> QED BY <1>3, <1>6 DEF NeverFaults, ListInv, Held

\* An empty list.
LEMMA ListInitially ==
  ASSUME ListAssumption, Init
  PROVE  ListInv
<1>1. <<>> \in Seq(Node) /\ Len(<<>>) = 0
  BY EmptySeq
<1>2. Linked(<<>>)
  BY <1>1 DEF Init, Linked
<1>3. Held
  BY DEF Init, Held
<1> QED BY <1>2, <1>3 DEF ListInv

-----------------------------------------------------------------------------
(* What each call does to the sequence *)

\* add_head conses.
LEMMA AddHeadLinks ==
  ASSUME ListAssumption, Held, NEW s, Linked(s), NEW d \in Data, NEW n \in Node, AddHead(d, n)
  PROVE  Held' /\ Linked(Cons(n, s))'
<1> DEFINE t == Cons(n, s)
<1>1. s \in Seq(Node) /\ NULL \notin Node /\ n \notin alloc
  BY DEF Linked, ListAssumption, AddHead, CreateNode
<1>2. /\ Len(s) \in Nat
      /\ \A i \in 1..Len(s) : s[i] \in Node /\ s[i] \in alloc
      /\ alloc \subseteq Node
  BY LinkedFacts
<1>3. /\ t \in Seq(Node) /\ Len(t) = Len(s) + 1 /\ t[1] = n
      /\ \A i \in 2..Len(s) + 1 : t[i] = s[i - 1]
  BY <1>1, ConsProperties
<1>4. header = NULL <=> Len(s) = 0
  BY <1>1, <1>2 DEF Linked
<1>5. /\ alloc' = alloc \cup {n}
      /\ header' = n
      /\ tailer' = IF header = NULL THEN n ELSE tailer
      /\ prev' = IF header = NULL THEN Blank(prev, n) ELSE [Blank(prev, n) EXCEPT ![header] = n]
      /\ next' = [next EXCEPT ![n] = header]
      /\ data' = [data EXCEPT ![n] = d]
      /\ count' = count + 1
      /\ currptr' = currptr
  BY <1>1, <1>2, <1>4 DEF AddHead, CreateNode, Store, Linked
<1>6. Held'
  <2>1. header # NULL => header \in alloc
    BY <1>2, <1>4 DEF Linked
  <2>2. fault' = FALSE
    BY <2>1, Zenon DEF AddHead, Faults, Held
  <2>3. /\ prev' \in [Node -> Node \cup {NULL}]
        /\ next' \in [Node -> Node \cup {NULL}]
    BY <1>1, <1>2, <1>4, <1>5 DEF Held, Linked, Blank
  <2>4. data' \in [Node -> Data \cup {NULL}] /\ \A m \in alloc' : data'[m] \in Data
    BY <1>2, <1>5 DEF Held
  <2> QED BY <1>5, <2>2, <2>3, <2>4 DEF Held
<1> HIDE DEF t
<1>7. \A i, j \in 1..Len(t) : t[i] = t[j] => i = j
  BY <1>1, <1>2, <1>3 DEF Linked
<1>8. alloc' = {t[i] : i \in 1..Len(t)}
  <2>1. ASSUME NEW m \in alloc PROVE \E i \in 1..Len(t) : m = t[i]
    <3>1. PICK k \in 1..Len(s) : m = s[k]
      BY DEF Linked
    <3>2. k + 1 \in 1..Len(t) /\ t[k + 1] = m
      BY <1>2, <1>3, <3>1
    <3> QED BY <3>2
  <2>2. ASSUME NEW i \in 1..Len(t) PROVE t[i] \in alloc \cup {n}
    BY <1>2, <1>3
  <2>3. 1 \in 1..Len(t)
    BY <1>2, <1>3
  <2> QED BY <1>3, <1>5, <2>1, <2>2, <2>3
<1>9. ASSUME NEW i \in 1..Len(t)
      PROVE  next'[t[i]] = IF i = Len(t) THEN NULL ELSE t[i + 1]
  <2>1. CASE i = 1
    <3>1. next'[n] = header
      BY <1>5 DEF Held
    <3>2. Len(s) # 0 => t[1 + 1] = s[1]
      BY <1>2, <1>3
    <3> QED BY <1>2, <1>3, <2>1, <3>1, <3>2 DEF Linked
  <2>2. CASE i # 1
    <3>1. i - 1 \in 1..Len(s) /\ t[i] = s[i - 1] /\ t[i] # n
      BY <1>1, <1>2, <1>3, <2>2
    <3>2. next'[t[i]] = next[s[i - 1]]
      BY <1>2, <1>5, <3>1 DEF Held
    <3>3. i # Len(t) => t[i + 1] = s[i - 1 + 1]
      BY <1>2, <1>3, <2>2
    <3> QED BY <1>2, <1>3, <3>1, <3>2, <3>3 DEF Linked
  <2> QED BY <2>1, <2>2
<1>10. ASSUME NEW i \in 1..Len(t)
       PROVE  prev'[t[i]] = IF i = 1 THEN NULL ELSE t[i - 1]
  <2>1. CASE i = 1
    <3>1. prev'[n] = NULL
      BY <1>1, <1>2, <1>4, <1>5 DEF Linked, Held, Blank
    <3> QED BY <1>1, <1>3, <2>1, <3>1
  <2>2. CASE i # 1
    <3>1. i - 1 \in 1..Len(s) /\ t[i] = s[i - 1] /\ header = s[1] /\ header # NULL
      BY <1>1, <1>2, <1>3, <1>4, <2>2 DEF Linked
    <3>2. CASE i = 2
      BY <1>2, <1>3, <1>5, <3>1, <3>2 DEF Held, Blank
    <3>3. CASE i # 2
      <4>1. s[i - 1] # s[1]
        <5>1. i - 1 \in 1..Len(s) /\ 1 \in 1..Len(s) /\ i - 1 # 1
          BY <1>2, <1>3, <2>2, <3>1, <3>3
        <5> QED BY <5>1 DEF Linked
      <4>2. prev'[t[i]] = prev[s[i - 1]]
        BY <1>1, <1>2, <1>5, <3>1, <4>1 DEF Held, Blank
      <4>3. t[i - 1] = s[i - 1 - 1]
        BY <1>2, <1>3, <2>2, <3>3
      <4> QED BY <2>2, <3>1, <3>3, <4>2, <4>3 DEF Linked
    <3> QED BY <3>2, <3>3
  <2> QED BY <2>1, <2>2
<1>11. header' = (IF Len(t) = 0 THEN NULL ELSE t[1]) /\ tailer' = IF Len(t) = 0 THEN NULL ELSE t[Len(t)]
  BY <1>2, <1>3, <1>4, <1>5 DEF Linked
<1>12. count' = Len(t)
  BY <1>3, <1>5 DEF Linked
<1>13. Linked(t)'
  BY <1>3, <1>7, <1>8, <1>9, <1>10, <1>11, <1>12 DEF Linked
<1> QED BY <1>6, <1>13 DEF t

\* add_tail appends.
LEMMA AddTailLinks ==
  ASSUME ListAssumption, Held, NEW s, Linked(s), NEW d \in Data, NEW n \in Node, AddTail(d, n)
  PROVE  Held' /\ Linked(Append(s, n))'
<1> DEFINE t == Append(s, n)
<1>1. s \in Seq(Node) /\ NULL \notin Node /\ n \notin alloc
  BY DEF Linked, ListAssumption, AddTail, CreateNode
<1>2. /\ Len(s) \in Nat
      /\ \A i \in 1..Len(s) : s[i] \in Node /\ s[i] \in alloc
      /\ alloc \subseteq Node
  BY LinkedFacts
<1>3. /\ t \in Seq(Node) /\ Len(t) = Len(s) + 1 /\ t[Len(s) + 1] = n
      /\ \A i \in 1..Len(s) : t[i] = s[i]
  BY <1>1, AppendParts
<1>4. /\ tailer = NULL <=> Len(s) = 0
      /\ tailer # NULL => tailer = s[Len(s)] /\ tailer \in alloc /\ tailer \in Node
  BY <1>1, <1>2 DEF Linked
<1>5. /\ alloc' = alloc \cup {n}
      /\ tailer' = n
      /\ header' = IF tailer = NULL THEN n ELSE header
      /\ next' = IF tailer = NULL THEN Blank(next, n) ELSE [Blank(next, n) EXCEPT ![tailer] = n]
      /\ prev' = [prev EXCEPT ![n] = tailer]
      /\ data' = [data EXCEPT ![n] = d]
      /\ count' = count + 1
      /\ currptr' = currptr
  BY <1>4 DEF AddTail, CreateNode, Store
<1>6. Held'
  <2>1. fault' = FALSE
    BY <1>4, Zenon DEF AddTail, Faults, Held
  <2>2. /\ prev' \in [Node -> Node \cup {NULL}]
        /\ next' \in [Node -> Node \cup {NULL}]
    BY <1>1, <1>4, <1>5 DEF Held, Blank
  <2>3. data' \in [Node -> Data \cup {NULL}] /\ \A m \in alloc' : data'[m] \in Data
    BY <1>2, <1>5 DEF Held
  <2> QED BY <1>5, <2>1, <2>2, <2>3 DEF Held
<1> HIDE DEF t
<1>7. \A i, j \in 1..Len(t) : t[i] = t[j] => i = j
  BY <1>1, <1>2, <1>3 DEF Linked
<1>8. alloc' = {t[i] : i \in 1..Len(t)}
  <2>1. ASSUME NEW m \in alloc PROVE \E i \in 1..Len(t) : m = t[i]
    <3>1. PICK k \in 1..Len(s) : m = s[k]
      BY DEF Linked
    <3>2. k \in 1..Len(t) /\ t[k] = m
      BY <1>2, <1>3, <3>1
    <3> QED BY <3>2
  <2>2. ASSUME NEW i \in 1..Len(t) PROVE t[i] \in alloc \cup {n}
    BY <1>2, <1>3
  <2>3. Len(s) + 1 \in 1..Len(t)
    BY <1>2, <1>3
  <2> QED BY <1>3, <1>5, <2>1, <2>2, <2>3
<1>9. ASSUME NEW i \in 1..Len(t)
      PROVE  prev'[t[i]] = IF i = 1 THEN NULL ELSE t[i - 1]
  <2>1. CASE i = Len(s) + 1
    <3>1. prev'[n] = tailer
      BY <1>5 DEF Held
    <3>2. Len(s) # 0 => t[i - 1] = s[Len(s)]
      BY <1>2, <1>3, <2>1
    <3> QED BY <1>2, <1>3, <2>1, <3>1, <3>2 DEF Linked
  <2>2. CASE i # Len(s) + 1
    <3>1. i \in 1..Len(s) /\ t[i] = s[i] /\ t[i] # n
      BY <1>1, <1>2, <1>3, <2>2
    <3>2. prev'[t[i]] = prev[s[i]]
      BY <1>2, <1>5, <3>1 DEF Held
    <3>3. i # 1 => t[i - 1] = s[i - 1]
      BY <1>2, <1>3, <3>1
    <3> QED BY <3>1, <3>2, <3>3 DEF Linked
  <2> QED BY <2>1, <2>2
<1>10. ASSUME NEW i \in 1..Len(t)
       PROVE  next'[t[i]] = IF i = Len(t) THEN NULL ELSE t[i + 1]
  <2>1. CASE i = Len(s) + 1
    <3>1. next'[n] = NULL
      BY <1>1, <1>4, <1>5 DEF Held, Blank
    <3> QED BY <1>3, <2>1, <3>1
  <2>2. CASE i = Len(s)
    <3>1. i \in 1..Len(s) /\ tailer = t[i] /\ tailer # NULL /\ i # Len(t) /\ t[i + 1] = n
      BY <1>1, <1>2, <1>3, <1>4, <2>2
    <3>2. next'[tailer] = n
      BY <1>4, <1>5, <3>1 DEF Held, Blank
    <3> QED BY <3>1, <3>2
  <2>3. CASE i < Len(s)
    <3>1. i \in 1..Len(s) /\ i + 1 \in 1..Len(s) /\ Len(s) \in 1..Len(s) /\ i # Len(s) /\ i # Len(t)
      BY <1>2, <1>3, <2>3
    <3>2. s[i] # s[Len(s)] /\ t[i] = s[i] /\ t[i + 1] = s[i + 1] /\ s[i] # n /\ tailer = s[Len(s)]
      BY <1>1, <1>2, <1>3, <3>1 DEF Linked
    <3>3. next'[s[i]] = next[s[i]]
      BY <1>2, <1>4, <1>5, <3>1, <3>2 DEF Held, Blank
    <3> QED BY <3>1, <3>2, <3>3 DEF Linked
  <2>4. i \in Nat /\ i <= Len(s) + 1
    BY <1>2, <1>3
  <2> QED BY <1>2, <2>1, <2>2, <2>3, <2>4
<1>11. header' = (IF Len(t) = 0 THEN NULL ELSE t[1]) /\ tailer' = IF Len(t) = 0 THEN NULL ELSE t[Len(t)]
  BY <1>2, <1>3, <1>4, <1>5 DEF Linked
<1>12. count' = Len(t)
  BY <1>3, <1>5 DEF Linked
<1>13. Linked(t)'
  BY <1>3, <1>7, <1>8, <1>9, <1>10, <1>11, <1>12 DEF Linked
<1> QED BY <1>6, <1>13 DEF t

\* Which neighbours remove_node asks for.
LEMMA Neighbours ==
  ASSUME ListAssumption, NEW s, Linked(s), NEW i \in 1..Len(s)
  PROVE  /\ IsFirst(s[i]) <=> i = 1
         /\ IsLast(s[i]) <=> i = Len(s)
         /\ i # 1 => i - 1 \in 1..Len(s) /\ Load(prev, s[i]) = s[i - 1]
         /\ i # Len(s) => i + 1 \in 1..Len(s) /\ Load(next, s[i]) = s[i + 1]
         /\ i = 1 => Load(prev, s[i]) = NULL
         /\ i = Len(s) => Load(next, s[i]) = NULL
<1>1. NULL \notin Node /\ Len(s) \in Nat /\ \A k \in 1..Len(s) : s[k] \in Node
  BY LinkedFacts DEF ListAssumption
<1>2. Load(prev, s[i]) = prev[s[i]] /\ Load(next, s[i]) = next[s[i]]
  BY <1>1 DEF Load
<1>3. /\ prev[s[i]] = IF i = 1 THEN NULL ELSE s[i - 1]
      /\ next[s[i]] = IF i = Len(s) THEN NULL ELSE s[i + 1]
      /\ header = s[1] /\ tailer = s[Len(s)]
  BY <1>1 DEF Linked
<1>4. /\ i # 1 => i - 1 \in 1..Len(s)
      /\ i # Len(s) => i + 1 \in 1..Len(s)
  BY <1>1
<1>5. IsFirst(s[i]) <=> i = 1
  BY <1>1, <1>2, <1>3, <1>4 DEF IsFirst
<1>6. IsLast(s[i]) <=> i = Len(s)
  BY <1>1, <1>2, <1>3, <1>4 DEF IsLast
<1> QED BY <1>2, <1>3, <1>4, <1>5, <1>6

\* remove_node takes out the node it is given.
LEMMA RemoveNodeLinks ==
  ASSUME ListAssumption, Held, NEW s, Linked(s), NEW i \in 1..Len(s), RemoveNode(s[i])
  PROVE  /\ Held' /\ Linked(RemoveAt(s, i))'
         /\ data' = [data EXCEPT ![s[i]] = NULL]
         /\ currptr' = IF currptr = s[i] THEN Freed ELSE currptr
<1> DEFINE t == RemoveAt(s, i)
           n == s[i]
<1>1. s \in Seq(Node) /\ NULL \notin Node /\ Freed \notin Node
  BY DEF Linked, ListAssumption
<1>2. /\ Len(s) \in Nat
      /\ \A k \in 1..Len(s) : s[k] \in Node /\ s[k] \in alloc
      /\ alloc \subseteq Node
  BY LinkedFacts
<1>3. /\ t \in Seq(Node) /\ Len(t) = Len(s) - 1
      /\ \A k \in 1..Len(s) - 1 : t[k] = IF k < i THEN s[k] ELSE s[k + 1]
  BY <1>1, RemoveAtProperties
<1>4. /\ IsFirst(n) <=> i = 1
      /\ IsLast(n) <=> i = Len(s)
      /\ i # 1 => i - 1 \in 1..Len(s) /\ Load(prev, n) = s[i - 1]
      /\ i # Len(s) => i + 1 \in 1..Len(s) /\ Load(next, n) = s[i + 1]
      /\ i = 1 => Load(prev, n) = NULL
      /\ i = Len(s) => Load(next, n) = NULL
  BY Neighbours
<1>5. ~NothingToRemove(n)
  BY <1>1, <1>2 DEF NothingToRemove, Linked
<1>6. /\ header' = IF i = 1 THEN Load(next, n) ELSE header
      /\ tailer' = IF i = Len(s) THEN Load(prev, n) ELSE tailer
      /\ next' = [NextAfterRemove(n) EXCEPT ![n] = NULL]
      /\ prev' = [PrevAfterRemove(n) EXCEPT ![n] = NULL]
      /\ data' = [data EXCEPT ![n] = NULL]
      /\ count' = count - 1
      /\ alloc' = alloc \ {n}
      /\ currptr' = IF currptr = n THEN Freed ELSE currptr
      /\ fault' = (fault \/ Faults(n) \/ (i # 1 /\ Faults(Load(prev, n)))
                         \/ (i # Len(s) /\ Faults(Load(next, n))))
  BY <1>2, <1>4, <1>5 DEF RemoveNode, Store
<1>7. /\ NextAfterRemove(n) = IF i = 1 THEN next ELSE [next EXCEPT ![s[i - 1]] = Load(next, n)]
      /\ PrevAfterRemove(n) = IF i = Len(s) THEN prev ELSE [prev EXCEPT ![s[i + 1]] = Load(prev, n)]
  BY <1>2, <1>4 DEF NextAfterRemove, PrevAfterRemove, Store
<1>8. Held'
  <2>1. fault' = FALSE
    <3>1. ~Faults(n) /\ (i # 1 => ~Faults(Load(prev, n))) /\ (i # Len(s) => ~Faults(Load(next, n)))
      BY <1>2, <1>4 DEF Faults
    <3> QED BY <1>6, <3>1, Zenon DEF Held
  <2>2. /\ prev' \in [Node -> Node \cup {NULL}]
        /\ next' \in [Node -> Node \cup {NULL}]
    <3>1. Load(prev, n) \in Node \cup {NULL} /\ Load(next, n) \in Node \cup {NULL}
      BY <1>2, <1>4
    <3> QED BY <1>2, <1>6, <1>7, <3>1 DEF Held
  <2>3. data' \in [Node -> Data \cup {NULL}] /\ \A m \in alloc' : data'[m] \in Data
    BY <1>2, <1>6 DEF Held
  <2>4. currptr' \in alloc' \cup {NULL, Freed}
    BY <1>6 DEF Held
  <2> QED BY <2>1, <2>2, <2>3, <2>4 DEF Held
<1> HIDE DEF t
<1>9. \A k \in 1..Len(s) - 1 :
        /\ k \in Nat /\ k < i => k \in 1..Len(s) /\ t[k] = s[k]
        /\ k >= i => k + 1 \in 1..Len(s) /\ t[k] = s[k + 1]
        /\ t[k] # n /\ t[k] \in Node
  <2> SUFFICES ASSUME NEW k \in 1..Len(s) - 1
      PROVE  /\ k \in Nat /\ k < i => k \in 1..Len(s) /\ t[k] = s[k]
             /\ k >= i => k + 1 \in 1..Len(s) /\ t[k] = s[k + 1]
             /\ t[k] # n /\ t[k] \in Node
    OBVIOUS
  <2>1. k \in 1..Len(s) /\ k + 1 \in 1..Len(s) /\ (k < i \/ k >= i)
    BY <1>2
  <2>2. CASE k < i
    <3>1. t[k] = s[k] /\ k # i
      BY <1>3, <2>2
    <3> QED BY <1>2, <2>1, <2>2, <3>1 DEF Linked
  <2>3. CASE k >= i
    <3>1. t[k] = s[k + 1] /\ k + 1 # i /\ ~(k < i) /\ k \in Nat
      BY <1>2, <1>3, <2>3
    <3>2. s[k + 1] # n
      BY <2>1, <3>1 DEF Linked
    <3> QED BY <1>2, <2>1, <3>1, <3>2
  <2> QED BY <2>1, <2>2, <2>3
<1>10. \A k, l \in 1..Len(t) : t[k] = t[l] => k = l
  <2> SUFFICES ASSUME NEW k \in 1..Len(t), NEW l \in 1..Len(t), t[k] = t[l] PROVE k = l
    OBVIOUS
  <2>1. k \in 1..Len(s) - 1 /\ l \in 1..Len(s) - 1
    BY <1>3
  <2>2. \A x, y \in 1..Len(s) : s[x] = s[y] => x = y
    BY DEF Linked
  <2>3. CASE k < i /\ l < i
    BY <1>9, <2>1, <2>2, <2>3
  <2>4. CASE k < i /\ l >= i
    <3>1. k \in 1..Len(s) /\ l + 1 \in 1..Len(s) /\ s[k] = s[l + 1]
      BY <1>9, <2>1, <2>4
    <3> QED BY <2>1, <2>2, <2>4, <3>1
  <2>5. CASE k >= i /\ l < i
    <3>1. l \in 1..Len(s) /\ k + 1 \in 1..Len(s) /\ s[k + 1] = s[l]
      BY <1>9, <2>1, <2>5
    <3> QED BY <2>1, <2>2, <2>5, <3>1
  <2>6. CASE k >= i /\ l >= i
    <3>1. l + 1 \in 1..Len(s) /\ k + 1 \in 1..Len(s) /\ s[k + 1] = s[l + 1]
      BY <1>9, <2>1, <2>6
    <3> QED BY <2>1, <2>2, <3>1
  <2> QED BY <1>2, <2>1, <2>3, <2>4, <2>5, <2>6
<1>11. alloc' = {t[k] : k \in 1..Len(t)}
  <2>1. ASSUME NEW m \in alloc, m # n PROVE \E k \in 1..Len(t) : m = t[k]
    <3>1. PICK k \in 1..Len(s) : m = s[k]
      BY DEF Linked
    <3>2. k # i
      BY <2>1, <3>1
    <3>3. CASE k < i
      <4>1. k \in 1..Len(t) /\ k \in 1..Len(s) - 1
        BY <1>2, <1>3, <3>3
      <4> QED BY <1>9, <3>1, <3>3, <4>1
    <3>4. CASE k > i
      <4>1. k - 1 \in 1..Len(t) /\ k - 1 \in 1..Len(s) - 1 /\ k - 1 >= i /\ k - 1 + 1 = k
        BY <1>2, <1>3, <3>4
      <4> QED BY <1>9, <3>1, <4>1
    <3> QED BY <1>2, <3>2, <3>3, <3>4
  <2>2. ASSUME NEW k \in 1..Len(t) PROVE t[k] \in alloc /\ t[k] # n
    <3>1. k \in 1..Len(s) - 1
      BY <1>3
    <3> QED BY <1>2, <1>9, <3>1
  <2> QED BY <1>6, <2>1, <2>2
<1>12. ASSUME NEW k \in 1..Len(t)
       PROVE  next'[t[k]] = IF k = Len(t) THEN NULL ELSE t[k + 1]
  <2>1. k \in 1..Len(s) - 1 /\ t[k] \in Node /\ t[k] # n
    BY <1>3, <1>9
  <2>2. next'[t[k]] = IF i # 1 /\ t[k] = s[i - 1] THEN Load(next, n) ELSE next[t[k]]
    BY <1>2, <1>4, <1>6, <1>7, <2>1 DEF Held
  <2>3. CASE k < i - 1
    <3>1. k \in 1..Len(s) /\ i - 1 \in 1..Len(s) /\ t[k] = s[k] /\ k # i - 1 /\ k # Len(s) /\ k # Len(t)
      BY <1>2, <1>3, <1>9, <2>1, <2>3
    <3>2. t[k + 1] = s[k + 1]
      BY <1>2, <1>3, <2>1, <2>3
    <3>3. s[k] # s[i - 1]
      BY <3>1 DEF Linked
    <3> QED BY <2>2, <3>1, <3>2, <3>3 DEF Linked
  <2>4. CASE k = i - 1
    <3>1. t[k] = s[i - 1] /\ i # 1 /\ (k = Len(t) <=> i = Len(s))
      BY <1>2, <1>3, <1>9, <2>1, <2>4
    <3>2. i # Len(s) => t[k + 1] = s[i + 1]
      BY <1>2, <1>3, <2>1, <2>4
    <3> QED BY <1>4, <2>2, <3>1, <3>2
  <2>5. CASE k >= i
    <3>1. k + 1 \in 1..Len(s) /\ t[k] = s[k + 1] /\ (k = Len(t) <=> k + 1 = Len(s))
      BY <1>2, <1>3, <1>9, <2>1, <2>5
    <3>2. i # 1 => s[k + 1] # s[i - 1]
      <4>1. i # 1 => i - 1 \in 1..Len(s) /\ k + 1 # i - 1
        BY <1>4, <2>1, <2>5
      <4> QED BY <3>1, <4>1 DEF Linked
    <3>3. k # Len(t) => t[k + 1] = s[k + 1 + 1]
      BY <1>2, <1>3, <2>1, <2>5
    <3> QED BY <2>2, <3>1, <3>2, <3>3 DEF Linked
  <2> QED BY <1>2, <2>1, <2>3, <2>4, <2>5
<1>13. ASSUME NEW k \in 1..Len(t)
       PROVE  prev'[t[k]] = IF k = 1 THEN NULL ELSE t[k - 1]
  <2>1. k \in 1..Len(s) - 1 /\ t[k] \in Node /\ t[k] # n
    BY <1>3, <1>9
  <2>2. prev'[t[k]] = IF i # Len(s) /\ t[k] = s[i + 1] THEN Load(prev, n) ELSE prev[t[k]]
    BY <1>2, <1>4, <1>6, <1>7, <2>1 DEF Held
  <2>3. CASE k < i
    <3>1. k \in 1..Len(s) /\ t[k] = s[k]
      BY <1>9, <2>1, <2>3
    <3>2. i # Len(s) => s[k] # s[i + 1]
      <4>1. i # Len(s) => i + 1 \in 1..Len(s) /\ k # i + 1
        BY <1>4, <2>1, <2>3
      <4> QED BY <3>1, <4>1 DEF Linked
    <3>3. k # 1 => t[k - 1] = s[k - 1]
      BY <1>2, <1>3, <2>1, <2>3
    <3> QED BY <2>2, <3>1, <3>2, <3>3 DEF Linked
  <2>4. CASE k = i
    <3>1. i # Len(s) /\ t[k] = s[i + 1]
      BY <1>2, <1>9, <2>1, <2>4
    <3>2. i # 1 => t[k - 1] = s[i - 1]
      BY <1>2, <1>3, <2>1, <2>4
    <3> QED BY <1>4, <2>2, <2>4, <3>1, <3>2
  <2>5. CASE k > i
    <3>0. k >= i /\ k + 1 # 1 /\ k # 1
      BY <2>1, <2>5
    <3>1. k + 1 \in 1..Len(s) /\ t[k] = s[k + 1]
      BY <1>9, <2>1, <3>0
    <3>2. i # Len(s) => s[k + 1] # s[i + 1]
      <4>1. i # Len(s) => i + 1 \in 1..Len(s) /\ k + 1 # i + 1
        BY <1>4, <2>1, <2>5
      <4> QED BY <3>1, <4>1 DEF Linked
    <3>3. t[k - 1] = s[k - 1 + 1] /\ k - 1 + 1 = k + 1 - 1
      BY <1>2, <1>3, <2>1, <2>5
    <3> QED BY <2>2, <3>0, <3>1, <3>2, <3>3 DEF Linked
  <2> QED BY <1>2, <2>1, <2>3, <2>4, <2>5
<1>14. header' = IF Len(t) = 0 THEN NULL ELSE t[1]
  <2>1. CASE i = 1
    <3>1. Len(t) = 0 <=> i = Len(s)
      BY <1>2, <1>3, <2>1
    <3>2. Len(t) # 0 => t[1] = s[i + 1]
      BY <1>2, <1>3, <2>1
    <3> QED BY <1>4, <1>6, <2>1, <3>1, <3>2
  <2>2. CASE i # 1
    <3>1. Len(t) # 0 /\ t[1] = s[1]
      BY <1>2, <1>3, <2>2
    <3> QED BY <1>2, <1>6, <2>2, <3>1 DEF Linked
  <2> QED BY <2>1, <2>2
<1>15. tailer' = IF Len(t) = 0 THEN NULL ELSE t[Len(t)]
  <2>1. CASE i = Len(s)
    <3>1. Len(t) = 0 <=> i = 1
      BY <1>2, <1>3, <2>1
    <3>2. Len(t) # 0 => t[Len(t)] = s[i - 1]
      BY <1>2, <1>3, <2>1
    <3> QED BY <1>4, <1>6, <2>1, <3>1, <3>2
  <2>2. CASE i # Len(s)
    <3>1. Len(t) # 0 /\ t[Len(t)] = s[Len(s)]
      BY <1>2, <1>3, <2>2
    <3> QED BY <1>2, <1>6, <2>2, <3>1 DEF Linked
  <2> QED BY <2>1, <2>2
<1>16. count' = Len(t)
  BY <1>3, <1>6 DEF Linked
<1>17. Linked(t)'
  BY <1>3, <1>10, <1>11, <1>12, <1>13, <1>14, <1>15, <1>16 DEF Linked
<1> QED BY <1>6, <1>8, <1>17 DEF t

\* A walk stops at the first of the places where it may.
LEMMA StopsAtLeast ==
  ASSUME NEW s, NEW P, P \subseteq Nat, P # {}
  PROVE  \E i \in P : StopAt(s, P) = s[i] /\ \A k \in P : i <= k
<1>1. \E i \in P : \A k \in P : i <= k
  BY LeastNat
<1>2. Min(P) \in P /\ \A k \in P : Min(P) <= k
  BY <1>1 DEF Min
<1> QED BY <1>2 DEF StopAt

\* remove_node_content finds the first node with d, or NULL.
LEMMA FirstWithFinds ==
  ASSUME ListAssumption, NEW s, Linked(s), NEW d
  PROVE  \/ FirstWith(d) = NULL /\ \A k \in 1..Len(s) : data[s[k]] # d
         \/ \E i \in 1..Len(s) :
              FirstWith(d) = s[i] /\ data[s[i]] = d /\ \A k \in 1..(i - 1) : data[s[k]] # d
<1> DEFINE P == {k \in 1..Len(s) : data[s[k]] = d}
<1>1. Len(s) \in Nat /\ DOMAIN s = 1..Len(s)
  BY LenProperties DEF Linked
<1>2. FirstWith(d) = StopAt(s, P)
  <2>1. Chain(header, next) = s
    BY LinkedFacts
  <2>2. FirstWith(d) = StopAt(s, {k \in DOMAIN s : data[s[k]] = d})
    BY <2>1, Zenon DEF FirstWith
  <2> QED BY <1>1, <2>2, Zenon
<1>3. CASE P = {}
  BY <1>2, <1>3 DEF StopAt
<1>4. CASE P # {}
  <2>1. P \subseteq Nat
    OBVIOUS
  <2>2. PICK i \in P : StopAt(s, P) = s[i] /\ \A k \in P : i <= k
    <3> HIDE DEF P
    <3> QED BY <1>4, <2>1, StopsAtLeast
  <2>3. ASSUME NEW k \in 1..(i - 1) PROVE data[s[k]] # d
    <3>1. k \in 1..Len(s) /\ ~(i <= k)
      BY <1>1, <2>2
    <3> QED BY <2>2, <3>1
  <2> QED BY <1>2, <2>2, <2>3
<1> QED BY <1>3, <1>4

\* remove_node_index finds the node at the index, the first one below 0, and
\* NULL behind the end.
LEMMA NodeAtFinds ==
  ASSUME ListAssumption, NEW s, Linked(s), NEW index \in Int
  PROVE  LET i == IF index < 0 THEN 1 ELSE index + 1
         IN \/ i > Len(s) /\ NodeAt(index) = NULL
            \/ i \in 1..Len(s) /\ NodeAt(index) = s[i]
<1> DEFINE i == IF index < 0 THEN 1 ELSE index + 1
           P == {k \in 1..Len(s) : k - 1 >= index}
<1>1. Len(s) \in Nat /\ DOMAIN s = 1..Len(s)
  BY LenProperties DEF Linked
<1>2. NodeAt(index) = StopAt(s, P)
  BY <1>1, LinkedFacts DEF NodeAt
<1>3. CASE i > Len(s)
  <2>1. P = {}
    BY <1>1, <1>3
  <2> QED BY <1>2, <1>3, <2>1 DEF StopAt
<1>4. CASE ~(i > Len(s))
  <2>1. i \in P /\ P \subseteq Nat /\ i \in 1..Len(s)
    BY <1>1, <1>4
  <2>2. PICK m \in P : StopAt(s, P) = s[m] /\ \A k \in P : m <= k
    <3> HIDE DEF P, i
    <3> QED BY <2>1, StopsAtLeast
  <2>3. m = i
    BY <1>1, <2>1, <2>2
  <2> QED BY <1>2, <2>1, <2>2, <2>3
<1> QED BY <1>3, <1>4

\* free_list frees every node, and faults at none.
LEMMA RenewEmpties ==
  ASSUME ListAssumption, Held, NEW s, Linked(s), Renew
  PROVE  Held' /\ Linked(<<>>)'
<1>1. Chain(header, next) = s /\ DOMAIN s = 1..Len(s) /\ NULL # Freed
  BY LinkedFacts, LenProperties DEF Linked, ListAssumption
<1>2. ToSet(Chain(header, next)) = alloc
  BY <1>1 DEF ToSet, Linked
<1>3. /\ alloc' = {} /\ header' = NULL /\ tailer' = NULL /\ count' = 0
      /\ fault' = (fault \/ \E n \in alloc : Faults(n))
      /\ currptr' \in {NULL, Freed}
      /\ prev' = [n \in Node |-> IF n \in alloc THEN NULL ELSE prev[n]]
      /\ next' = [n \in Node |-> IF n \in alloc THEN NULL ELSE next[n]]
      /\ data' = [n \in Node |-> IF n \in alloc THEN NULL ELSE data[n]]
  BY <1>2 DEF Renew
<1>4. fault' = FALSE
  BY <1>3, Zenon DEF Faults, Held
<1>5. Held'
  BY <1>3, <1>4 DEF Held
<1>6. <<>> \in Seq(Node) /\ Len(<<>>) = 0
  BY EmptySeq
<1>7. Linked(<<>>)'
  BY <1>3, <1>6 DEF Linked
<1> QED BY <1>5, <1>7

\* A call with nothing to remove, and a move of the iterator, leave the list.
LEMMA ListUntouched ==
  ASSUME NEW s, Linked(s), Held, UNCHANGED <<listVars, fault>>,
         currptr' \in alloc \cup {NULL, Freed}
  PROVE  Held' /\ Linked(s)'
BY DEF Linked, Held, listVars

\* remove_node_content and remove_node_index do nothing when they find no node.
LEMMA RemoveNothing ==
  ASSUME RemoveNode(NULL)
  PROVE  UNCHANGED <<listVars, currptr, fault>>
BY DEF RemoveNode, NothingToRemove

\* Every call keeps the links: one case for each action.
LEMMA ListStep ==
  ASSUME ListAssumption, ListInv, [Next]_vars
  PROVE  ListInv'
<1>1. PICK s : Linked(s)
  BY DEF ListInv
<1>2. Held /\ \A i \in 1..Len(s) : s[i] \in Node
  BY <1>1, LinkedFacts DEF ListInv
<1>3. ASSUME NEW d \in Data, NEW n \in Node, AddHead(d, n) PROVE ListInv'
  BY <1>1, <1>2, <1>3, AddHeadLinks DEF ListInv
<1>4. ASSUME NEW d \in Data, NEW n \in Node, AddTail(d, n) PROVE ListInv'
  BY <1>1, <1>2, <1>4, AddTailLinks DEF ListInv
<1>5. ASSUME NEW n, n = NULL \/ \E i \in 1..Len(s) : n = s[i], RemoveNode(n) PROVE ListInv'
  <2>1. CASE n = NULL
    <3>1. UNCHANGED <<listVars, currptr, fault>>
      BY <1>5, <2>1, RemoveNothing
    <3>2. Held' /\ Linked(s)'
      BY <1>1, <1>2, <3>1, ListUntouched DEF Held
    <3> QED BY <3>2 DEF ListInv
  <2>2. ASSUME NEW i \in 1..Len(s), n = s[i] PROVE ListInv'
    <3>1. RemoveNode(s[i])
      BY <1>5, <2>2
    <3>2. Held' /\ Linked(RemoveAt(s, i))'
      BY <1>1, <1>2, <3>1, RemoveNodeLinks
    <3> QED BY <3>2 DEF ListInv
  <2> QED BY <1>5, <2>1, <2>2
<1>6. ASSUME NEW d \in Data, RemoveContent(d) PROVE ListInv'
  <2>1. FirstWith(d) = NULL \/ \E i \in 1..Len(s) : FirstWith(d) = s[i]
    BY <1>1, FirstWithFinds
  <2> QED BY <1>5, <1>6, <2>1 DEF RemoveContent
<1>7. ASSUME NEW index \in Index, RemoveIndex(index) PROVE ListInv'
  <2>1. index \in Int
    BY FS_CardinalityType DEF Index, ListAssumption
  <2>2. NodeAt(index) = NULL \/ \E i \in 1..Len(s) : NodeAt(index) = s[i]
    BY <1>1, <2>1, NodeAtFinds
  <2> QED BY <1>5, <1>7, <2>2 DEF RemoveIndex
<1>8. CASE ResetIterator
  <2>1. header \in alloc \cup {NULL}
    BY <1>1, LinkedFacts DEF Linked
  <2>2. Held' /\ Linked(s)'
    BY <1>1, <1>2, <1>8, <2>1, ListUntouched DEF ResetIterator
  <2> QED BY <2>2 DEF ListInv
<1>9. CASE Advance
  <2>1. currptr \in alloc
    BY <1>2, <1>9 DEF Held, Advance
  <2>2. PICK i \in 1..Len(s) : currptr = s[i]
    BY <1>1, <2>1 DEF Linked
  <2>3. next[s[i]] \in alloc \cup {NULL}
    <3>1. i # Len(s) => s[i + 1] \in alloc
      <4>1. i # Len(s) => i + 1 \in 1..Len(s)
        BY <1>1, LinkedFacts
      <4> QED BY <1>1, <4>1, LinkedFacts
    <3> QED BY <1>1, <3>1 DEF Linked
  <2>4. fault' = fault
    BY <1>2, <1>9, <2>1 DEF Held, Advance, Faults
  <2>5. Held' /\ Linked(s)'
    BY <1>1, <1>2, <1>9, <2>2, <2>3, <2>4, ListUntouched DEF Advance
  <2> QED BY <2>5 DEF ListInv
<1>10. CASE Renew
  <2>1. Held' /\ Linked(<<>>)'
    BY <1>1, <1>2, <1>10, RenewEmpties
  <2> QED BY <2>1 DEF ListInv
<1>11. CASE UNCHANGED vars
  <2>1. Held' /\ Linked(s)'
    BY <1>1, <1>2, <1>11, ListUntouched DEF vars, Held
  <2> QED BY <2>1 DEF ListInv
<1> QED BY <1>3, <1>4, <1>6, <1>7, <1>8, <1>9, <1>10, <1>11 DEF Next

\* The links spell a sequence in every reachable state.
LEMMA ListInvAlways == Spec => []ListInv
<1>1. Init => ListInv
  BY ListInitially, ListAssumption
<1>2. ListInv /\ [Next]_vars => ListInv'
  BY ListStep, ListAssumption
<1> QED BY <1>1, <1>2, PTL DEF Spec

\* Every pointer is NULL or an address malloc has given out at some time, and
\* count stays below the number of addresses.
THEOREM TypeCorrect == Spec => []TypeOK
<1>1. ListInv => TypeOK
  BY ListInvSafe, ListAssumption
<1> QED BY <1>1, ListInvAlways, PTL

\* No sequence of calls makes remove_node or the iterator follow NULL or a
\* pointer to a freed node.
THEOREM NeverFaultsAlways == Spec => []NeverFaults
<1>1. ListInv => NeverFaults
  BY ListInvSafe, ListAssumption
<1> QED BY <1>1, ListInvAlways, PTL

\* The two chains are one list, as long as count says, of exactly the nodes in
\* use.
THEOREM AlwaysWellLinked == Spec => []WellLinked
<1>1. ListInv => WellLinked
  BY ListInvSafe, ListAssumption
<1> QED BY <1>1, ListInvAlways, PTL

-----------------------------------------------------------------------------
(* The list as a sequence of data *)

\* Values, of any pointers.
ValuesAlong(p, link, dat) ==
  LET chain == Chain(p, link) IN [k \in DOMAIN chain |-> dat[chain[k]]]

\* The data of the nodes of s from the j-th on.
DataFrom(s, j, dat) == [k \in 1..(Len(s) - j + 1) |-> dat[s[j + k - 1]]]

\* The iterator stands on the j-th node of s, or behind the last one.
StandsAt(c, s, j) ==
  \/ j \in 1..Len(s) /\ c = s[j]
  \/ j = Len(s) + 1 /\ c = NULL

\* Data read from a list is a sequence of data.
LEMMA DataFromType ==
  ASSUME NEW S, NEW s \in Seq(S), NEW j \in 1..Len(s) + 1, NEW dat,
         \A k \in 1..Len(s) : dat[s[k]] \in Data
  PROVE  /\ DataFrom(s, j, dat) \in Seq(Data)
         /\ Len(DataFrom(s, j, dat)) = Len(s) - j + 1
         /\ \A k \in 1..Len(s) - j + 1 : DataFrom(s, j, dat)[k] = dat[s[j + k - 1]]
<1> DEFINE m == Len(s) - j + 1
           v == DataFrom(s, j, dat)
<1>1. Len(s) \in Nat /\ m \in Nat
  BY LenProperties
<1>2. \A k \in 1..m : dat[s[j + k - 1]] \in Data
  <2> SUFFICES ASSUME NEW k \in 1..m PROVE dat[s[j + k - 1]] \in Data
    OBVIOUS
  <2>1. j + k - 1 \in 1..Len(s)
    BY <1>1
  <2> QED BY <2>1
<1>3. v \in [1..m -> Data]
  BY <1>2 DEF DataFrom
<1>4. v \in Seq(Data)
  <2> HIDE DEF v, m
  <2> QED BY <1>1, <1>3, SeqDef
<1>5. DOMAIN v = 1..m /\ DOMAIN v = 1..Len(v) /\ Len(v) \in Nat
  <2> HIDE DEF v
  <2> QED BY <1>3, <1>4, LenProperties
<1>6. Len(v) = m
  <2> HIDE DEF v, m
  <2> QED BY <1>1, <1>5
<1> QED BY <1>4, <1>6 DEF DataFrom

\* The list behind a node of a path is the rest of that path.
LEMMA ChainFrom ==
  ASSUME ListAssumption, NEW s, NEW p, NEW link, IsPath(s, p, link), NEW j \in 1..Len(s)
  PROVE  Chain(s[j], link) = SubSeq(s, j, Len(s))
<1>1. s \in Seq(Node) /\ Len(s) \in Nat /\ \A i \in 1..Len(s) : s[i] \in Node
  BY LenProperties, ElementOfSeq DEF IsPath
<1>2. PICK r : r = SubSeq(s, j, Len(s))
  OBVIOUS
<1>3. /\ r \in Seq(Node) /\ Len(r) = Len(s) - j + 1
      /\ \A i \in 1..Len(s) - j + 1 : r[i] = s[j + i - 1]
  <2>1. j \in Int /\ Len(s) \in Int /\ j <= Len(s) /\ \A i \in j..Len(s) : s[i] \in Node
    BY <1>1
  <2> QED BY <1>2, <2>1, SubSeqProperties
<1>4. \A i \in 1..Len(r) : j + i - 1 \in 1..Len(s) /\ r[i] = s[j + i - 1]
  BY <1>1, <1>3
<1>5. IsPath(r, s[j], link)
  <2>1. \A i, k \in 1..Len(r) : r[i] = r[k] => i = k
    <3> SUFFICES ASSUME NEW i \in 1..Len(r), NEW k \in 1..Len(r), r[i] = r[k] PROVE i = k
      OBVIOUS
    <3>0. s[j + i - 1] = s[j + k - 1] /\ j + i - 1 \in 1..Len(s) /\ j + k - 1 \in 1..Len(s)
      BY <1>4
    <3>1. j + i - 1 = j + k - 1
      BY <3>0 DEF IsPath
    <3> QED BY <1>1, <1>3, <3>1
  <2>2. s[j] = IF Len(r) = 0 THEN NULL ELSE r[1]
    <3>1. 1 \in 1..Len(r) /\ j + 1 - 1 = j /\ Len(r) # 0
      BY <1>1, <1>3
    <3> QED BY <1>4, <3>1
  <2>3. ASSUME NEW i \in 1..Len(r)
        PROVE  link[r[i]] = IF i = Len(r) THEN NULL ELSE r[i + 1]
    <3>1. link[r[i]] = IF j + i - 1 = Len(s) THEN NULL ELSE s[j + i - 1 + 1]
      BY <1>4 DEF IsPath
    <3>2. j + i - 1 = Len(s) <=> i = Len(r)
      BY <1>1, <1>3
    <3>3. i # Len(r) => i + 1 \in 1..Len(r) /\ j + (i + 1) - 1 = j + i - 1 + 1
      <4>1. i \in Nat /\ j \in Nat /\ Len(r) \in Nat /\ i \in 1..Len(r)
        BY <1>1, <1>3
      <4> QED BY <4>1
    <3> QED BY <1>4, <3>1, <3>2, <3>3
  <2> QED BY <1>3, <2>1, <2>2, <2>3 DEF IsPath
<1> QED BY <1>2, <1>5, ChainOfPath

\* Wherever the iterator stands, what it has still to return is the data from
\* there on.
LEMMA ValuesFrom ==
  ASSUME ListAssumption, NEW s, NEW p, NEW link, IsPath(s, p, link), NEW dat, NEW c,
         NEW j \in 1..Len(s) + 1, StandsAt(c, s, j)
  PROVE  ValuesAlong(c, link, dat) = DataFrom(s, j, dat)
<1>1. s \in Seq(Node) /\ Len(s) \in Nat /\ \A i \in 1..Len(s) : s[i] \in Node
  BY LenProperties, ElementOfSeq DEF IsPath
<1>2. CASE j \in 1..Len(s) /\ c = s[j]
  <2>1. PICK r : r = SubSeq(s, j, Len(s)) /\ r = Chain(c, link)
    BY <1>2, ChainFrom
  <2>2. /\ r \in Seq(Node) /\ Len(r) = Len(s) - j + 1
        /\ \A i \in 1..Len(s) - j + 1 : r[i] = s[j + i - 1]
    <3>1. j \in Int /\ Len(s) \in Int /\ j <= Len(s) /\ \A i \in j..Len(s) : s[i] \in Node
      BY <1>1, <1>2
    <3>2. /\ SubSeq(s, j, Len(s)) \in Seq(Node)
          /\ Len(SubSeq(s, j, Len(s))) = Len(s) - j + 1
          /\ \A i \in 1..Len(s) - j + 1 : SubSeq(s, j, Len(s))[i] = s[j + i - 1]
      BY <3>1, SubSeqProperties
    <3> QED BY <2>1, <3>2
  <2>3. DOMAIN r = 1..(Len(s) - j + 1)
    BY <2>2, LenProperties
  <2>4. ValuesAlong(c, link, dat) = [k \in DOMAIN r |-> dat[r[k]]]
    BY <2>1, Zenon DEF ValuesAlong
  <2> QED BY <2>2, <2>3, <2>4 DEF DataFrom
<1>3. CASE j = Len(s) + 1 /\ c = NULL
  <2>1. <<>> \in Seq(Node) /\ Len(<<>>) = 0
    BY EmptySeq
  <2>2. IsPath(<<>>, NULL, link)
    BY <2>1 DEF IsPath
  <2>3. Chain(c, link) = <<>>
    BY <1>3, <2>2, ChainOfPath
  <2>4. DOMAIN <<>> = 1..0
    OBVIOUS
  <2>5. ValuesAlong(c, link, dat) = [k \in 1..0 |-> dat[<<>>[k]]]
    BY <2>3, <2>4, Zenon DEF ValuesAlong
  <2>6. Len(s) - j + 1 = 0
    BY <1>1, <1>3
  <2> QED BY <2>5, <2>6 DEF DataFrom
<1> QED BY <1>2, <1>3 DEF StandsAt

-----------------------------------------------------------------------------
(* Every call as ListSpec has it *)

\* ListSpec's rest, of any pointers.
RestAlong(c, link, dat) == IF c = Freed THEN Stale ELSE ValuesAlong(c, link, dat)

\* ListSpec's variables before and after a step.
LEMMA AbstractState ==
  /\ Values(header) = ValuesAlong(header, next, data)
  /\ Values(header)' = ValuesAlong(header', next', data')
  /\ (IF currptr = Freed THEN Stale ELSE Values(currptr)) = RestAlong(currptr, next, data)
  /\ (IF currptr = Freed THEN Stale ELSE Values(currptr))' = RestAlong(currptr', next', data')
BY DEF Values, ValuesAlong, RestAlong

\* items and rest of a list that spells s, with the iterator on its j-th node.
LEMMA AbstractOf ==
  ASSUME ListAssumption, NEW s, NEW p, NEW link, IsPath(s, p, link), NEW dat,
         \A k \in 1..Len(s) : dat[s[k]] \in Data
  PROVE  /\ ValuesAlong(p, link, dat) = DataFrom(s, 1, dat)
         /\ \A c : \A j \in 1..Len(s) + 1 : StandsAt(c, s, j) =>
              RestAlong(c, link, dat) = DataFrom(s, j, dat)
         /\ RestAlong(Freed, link, dat) = Stale
<1>1. s \in Seq(Node) /\ Len(s) \in Nat /\ \A i \in 1..Len(s) : s[i] \in Node
  BY LenProperties, ElementOfSeq DEF IsPath
<1>2. 1 \in 1..Len(s) + 1 /\ StandsAt(p, s, 1)
  BY <1>1 DEF StandsAt, IsPath
<1>3. ASSUME NEW c, NEW j \in 1..Len(s) + 1, StandsAt(c, s, j)
      PROVE  RestAlong(c, link, dat) = DataFrom(s, j, dat)
  <2>1. c # Freed
    BY <1>1, <1>3 DEF StandsAt, ListAssumption
  <2> QED BY <1>3, <2>1, ValuesFrom DEF RestAlong
<1> QED BY <1>2, <1>3, ValuesFrom DEF RestAlong

\* The iterator stands somewhere, unless it has lost its place.
LEMMA IteratorStands ==
  ASSUME ListAssumption, Held, NEW s, Linked(s), currptr # Freed
  PROVE  \E j \in 1..Len(s) + 1 : StandsAt(currptr, s, j)
<1>1. Len(s) \in Nat
  BY LinkedFacts
<1>2. CASE currptr = NULL
  BY <1>1, <1>2 DEF StandsAt
<1>3. CASE currptr \in alloc
  <2>1. PICK j \in 1..Len(s) : currptr = s[j]
    BY <1>3 DEF Linked
  <2>2. j \in 1..Len(s) + 1
    BY <1>1
  <2> QED BY <2>1, <2>2 DEF StandsAt
<1> QED BY <1>2, <1>3 DEF Held

\* Sequences of data are equal when they have the same elements.
LEMMA SameData ==
  ASSUME NEW v \in Seq(Data), NEW w \in Seq(Data), Len(v) = Len(w),
         \A k \in 1..Len(v) : v[k] = w[k]
  PROVE  v = w
BY SeqEqual

\* v is the data of the nodes of s from the j-th on.
Reads(v, s, j, dat) ==
  /\ v \in Seq(Data) /\ Len(v) = Len(s) - j + 1
  /\ \A k \in 1..Len(v) : v[k] = dat[s[j + k - 1]]

\* v is the data of all nodes of s.
ReadsAll(v, s, dat) ==
  v \in Seq(Data) /\ Len(v) = Len(s) /\ \A k \in 1..Len(s) : v[k] = dat[s[k]]

\* Reading from the first node on is reading all.
LEMMA ReadsFromOne ==
  ASSUME NEW s \in Seq(Node), NEW v, NEW dat, Reads(v, s, 1, dat)
  PROVE  ReadsAll(v, s, dat)
<1>1. Len(s) \in Nat /\ v \in Seq(Data) /\ Len(v) = Len(s)
  BY LenProperties DEF Reads
<1>2. ASSUME NEW k \in 1..Len(s) PROVE v[k] = dat[s[k]]
  <2>1. 1 + k - 1 = k /\ k \in 1..Len(v)
    BY <1>1
  <2>2. v[k] = dat[s[1 + k - 1]]
    BY <2>1 DEF Reads
  <2> QED BY <2>1, <2>2
<1> QED BY <1>1, <1>2 DEF ReadsAll

\* Reads is what DataFrom computes.
LEMMA DataFromReads ==
  ASSUME NEW s \in Seq(Node), NEW j \in 1..Len(s) + 1, NEW dat,
         \A k \in 1..Len(s) : dat[s[k]] \in Data
  PROVE  Reads(DataFrom(s, j, dat), s, j, dat)
BY DataFromType DEF Reads

\* ListSpec's variables, of any pointers that spell s.
LEMMA AbstractReads ==
  ASSUME ListAssumption, NEW s, NEW p, NEW link, IsPath(s, p, link), NEW dat, NEW c,
         \A k \in 1..Len(s) : dat[s[k]] \in Data
  PROVE  /\ ReadsAll(ValuesAlong(p, link, dat), s, dat)
         /\ \A j \in 1..Len(s) + 1 : StandsAt(c, s, j) => Reads(RestAlong(c, link, dat), s, j, dat)
<1>1. s \in Seq(Node) /\ 1 \in 1..Len(s) + 1
  BY LenProperties DEF IsPath
<1>2. ReadsAll(ValuesAlong(p, link, dat), s, dat)
  <2>1. Reads(ValuesAlong(p, link, dat), s, 1, dat)
    BY <1>1, AbstractOf, DataFromReads
  <2> QED BY <1>1, <2>1, ReadsFromOne
<1>3. ASSUME NEW j \in 1..Len(s) + 1, StandsAt(c, s, j) PROVE Reads(RestAlong(c, link, dat), s, j, dat)
  <2>1. RestAlong(c, link, dat) = DataFrom(s, j, dat)
    BY <1>3, AbstractOf
  <2> QED BY <1>1, <2>1, DataFromReads
<1> QED BY <1>2, <1>3

\* ListSpec's variables before a step, ...
LEMMA Before ==
  ASSUME ListAssumption, Held, NEW s, Linked(s)
  PROVE  /\ \E v : v = Values(header) /\ ReadsAll(v, s, data)
         /\ currptr = Freed => RestAlong(currptr, next, data) = Stale
         /\ currptr # Freed => \E r, j :
              /\ r = RestAlong(currptr, next, data)
              /\ j \in 1..Len(s) + 1 /\ StandsAt(currptr, s, j) /\ Reads(r, s, j, data)
<1>1. IsPath(s, header, next) /\ \A k \in 1..Len(s) : data[s[k]] \in Data
  BY LinkedFacts DEF Linked, Held
<1> QED BY <1>1, AbstractReads, AbstractState, IteratorStands DEF RestAlong

\* ... and after it.
LEMMA After ==
  ASSUME ListAssumption, Held', NEW t, Linked(t)'
  PROVE  /\ \E v : v = Values(header)' /\ ReadsAll(v, t, data')
         /\ currptr' = Freed => RestAlong(currptr', next', data') = Stale
         /\ \A j \in 1..Len(t) + 1 : StandsAt(currptr', t, j) =>
              \E r : r = RestAlong(currptr', next', data') /\ Reads(r, t, j, data')
<1>1. PICK dat : dat = data'
  OBVIOUS
<1>2. PICK link : link = next'
  OBVIOUS
<1>3. PICK c : c = currptr'
  OBVIOUS
<1>4. PICK p : p = header'
  OBVIOUS
<1>5. /\ t \in Seq(Node) /\ IsPath(t, p, link) /\ Len(t) \in Nat
      /\ \A k \in 1..Len(t) : t[k] \in alloc'
  BY <1>2, <1>4, LenProperties DEF Linked, IsPath
<1>6. \A k \in 1..Len(t) : dat[t[k]] \in Data
  BY <1>1, <1>5 DEF Held
<1>7. /\ ReadsAll(ValuesAlong(p, link, dat), t, dat)
      /\ \A j \in 1..Len(t) + 1 : StandsAt(c, t, j) => Reads(RestAlong(c, link, dat), t, j, dat)
  BY <1>5, <1>6, AbstractReads
<1>8. Values(header)' = ValuesAlong(p, link, dat)
  BY <1>1, <1>2, <1>4, AbstractState
<1>9. currptr' = Freed => RestAlong(currptr', next', data') = Stale
  BY DEF RestAlong
<1> QED BY <1>1, <1>2, <1>3, <1>7, <1>8, <1>9

\* Two lists read the same where their nodes hold the same data.
LEMMA SameReads ==
  ASSUME NEW s \in Seq(Node), NEW t \in Seq(Node), NEW i \in Nat, NEW j \in Nat,
         NEW v, NEW w, NEW dat, NEW new, Reads(v, s, i, dat), Reads(w, t, j, new),
         Len(s) - i = Len(t) - j,
         \A k \in 0..(Len(s) - i) : dat[s[i + k]] = new[t[j + k]]
  PROVE  v = w
<1>1. /\ v \in Seq(Data) /\ Len(v) = Len(s) - i + 1
      /\ w \in Seq(Data) /\ Len(w) = Len(t) - j + 1
      /\ Len(s) \in Nat /\ Len(t) \in Nat
  BY LenProperties DEF Reads
<1>2. ASSUME NEW k \in 1..Len(v) PROVE v[k] = w[k]
  <2>1. k \in 1..Len(w)
    BY <1>1
  <2>2. v[k] = dat[s[i + k - 1]] /\ w[k] = new[t[j + k - 1]]
    BY <2>1 DEF Reads
  <2>3. k - 1 \in 0..(Len(s) - i) /\ i + (k - 1) = i + k - 1 /\ j + (k - 1) = j + k - 1
    BY <1>1
  <2> QED BY <2>2, <2>3
<1> QED BY <1>1, <1>2, SameData

\* add_head is AddHead of the sequence: the iterator returns what it would have.
LEMMA AddHeadRefines ==
  ASSUME ListAssumption, Held, NEW s, Linked(s), NEW d \in Data, NEW n \in Node, AddHead(d, n)
  PROVE  Abstract!AddHead(d)
<1>1. s \in Seq(Node) /\ Len(s) \in Nat /\ n \notin alloc
      /\ \A i \in 1..Len(s) : s[i] \in Node /\ s[i] \in alloc
  BY LinkedFacts DEF Linked, AddHead, CreateNode
<1>2. PICK t : /\ t = Cons(n, s) /\ t \in Seq(Node) /\ Len(t) = Len(s) + 1 /\ t[1] = n
               /\ \A i \in 2..Len(s) + 1 : t[i] = s[i - 1]
  BY <1>1, ConsProperties
<1>3. Held' /\ Linked(t)'
  BY <1>2, AddHeadLinks
<1>4. /\ data'[n] = d /\ currptr' = currptr /\ call' = <<"add_head", d>>
      /\ \A i \in 1..Len(s) : data'[s[i]] = data[s[i]]
  BY <1>1 DEF AddHead, CreateNode, Held
<1>5. Values(header)' = Cons(d, Values(header))
  <2>1. PICK v : v = Values(header) /\ ReadsAll(v, s, data)
    BY Before
  <2>2. PICK u : u = Values(header)' /\ ReadsAll(u, t, data')
    BY <1>3, After
  <2>3. /\ v \in Seq(Data) /\ Len(v) = Len(s) /\ \A k \in 1..Len(s) : v[k] = data[s[k]]
        /\ u \in Seq(Data) /\ Len(u) = Len(t) /\ \A k \in 1..Len(t) : u[k] = data'[t[k]]
    BY <2>1, <2>2 DEF ReadsAll
  <2>4. v \in Seq(Data)
    BY <2>3
  <2>5. PICK w : /\ w = Cons(d, v) /\ w \in Seq(Data) /\ Len(w) = Len(v) + 1 /\ w[1] = d
                 /\ \A i \in 2..Len(v) + 1 : w[i] = v[i - 1]
    BY <2>4, ConsProperties
  <2>6. ASSUME NEW k \in 1..Len(u) PROVE u[k] = w[k]
    <3>1. CASE k = 1
      BY <1>2, <1>4, <2>3, <2>5, <3>1
    <3>2. CASE k # 1
      <4>1. k \in 2..Len(s) + 1 /\ k - 1 \in 1..Len(s)
        BY <1>1, <1>2, <2>3, <3>2
      <4>2. t[k] = s[k - 1] /\ w[k] = v[k - 1] /\ v[k - 1] = data[s[k - 1]]
        BY <1>2, <2>3, <2>5, <4>1
      <4>3. u[k] = data'[t[k]]
        BY <2>3
      <4> QED BY <1>4, <4>1, <4>2, <4>3
    <3> QED BY <3>1, <3>2
  <2>7. u = w
    BY <1>2, <2>3, <2>5, <2>6, SameData
  <2> QED BY <2>1, <2>2, <2>5, <2>7
<1>6. RestAlong(currptr', next', data') = RestAlong(currptr, next, data)
  <2>1. CASE currptr = Freed
    BY <1>3, <1>4, <2>1, Before, After
  <2>2. CASE currptr # Freed
    <3>1. PICK r, j : /\ r = RestAlong(currptr, next, data)
                      /\ j \in 1..Len(s) + 1 /\ StandsAt(currptr, s, j) /\ Reads(r, s, j, data)
      BY <2>2, Before
    <3>2. j + 1 \in 1..Len(t) + 1 /\ StandsAt(currptr', t, j + 1)
      <4>1. j \in 1..Len(s) => j + 1 \in 2..Len(s) + 1 /\ t[j + 1] = s[j + 1 - 1] /\ j + 1 - 1 = j
        BY <1>1, <1>2
      <4>2. j \in 1..Len(s) => j + 1 \in 1..Len(t)
        BY <1>1, <1>2
      <4>3. j + 1 \in 1..Len(t) + 1 /\ (j = Len(s) + 1 => j + 1 = Len(t) + 1)
        BY <1>1, <1>2, <3>1
      <4> QED BY <1>4, <3>1, <4>1, <4>2, <4>3 DEF StandsAt
    <3>3. PICK u : u = RestAlong(currptr', next', data') /\ Reads(u, t, j + 1, data')
      BY <1>3, <3>2, After
    <3>4. j \in Nat /\ j + 1 \in Nat /\ Len(s) - j = Len(t) - (j + 1)
      BY <1>1, <1>2, <3>1
    <3>5. ASSUME NEW k \in 0..(Len(s) - j) PROVE data[s[j + k]] = data'[t[(j + 1) + k]]
      <4>1. PICK m \in 2..Len(s) + 1 : m = (j + 1) + k /\ m - 1 = j + k /\ j + k \in 1..Len(s)
        BY <1>1, <3>1
      <4>2. t[m] = s[m - 1]
        BY <1>2
      <4>3. data'[s[j + k]] = data[s[j + k]]
        BY <1>4, <4>1
      <4> QED BY <4>1, <4>2, <4>3
    <3>6. PICK new : new = data'
      OBVIOUS
    <3>7. r = u
      BY <1>1, <1>2, <3>1, <3>3, <3>4, <3>5, <3>6, SameReads
    <3> QED BY <3>1, <3>3, <3>7
  <2> QED BY <2>1, <2>2
<1> QED BY <1>4, <1>5, <1>6, AbstractState DEF Abstract!AddHead, Abstract!Cons, Cons

\* add_tail is AddTail: an iterator that has not reached the end returns the new
\* element last.
LEMMA AddTailRefines ==
  ASSUME ListAssumption, Held, NEW s, Linked(s), NEW d \in Data, NEW n \in Node, AddTail(d, n)
  PROVE  Abstract!AddTail(d)
<1>1. s \in Seq(Node) /\ Len(s) \in Nat /\ n \notin alloc
      /\ \A i \in 1..Len(s) : s[i] \in Node /\ s[i] \in alloc
  BY LinkedFacts DEF Linked, AddTail, CreateNode
<1>2. PICK t : /\ t = Append(s, n) /\ t \in Seq(Node) /\ Len(t) = Len(s) + 1 /\ t[Len(s) + 1] = n
               /\ \A i \in 1..Len(s) : t[i] = s[i]
  <2>1. /\ Append(s, n) \in Seq(Node) /\ Len(Append(s, n)) = Len(s) + 1
        /\ Append(s, n)[Len(s) + 1] = n /\ \A i \in 1..Len(s) : Append(s, n)[i] = s[i]
    BY <1>1, AppendParts
  <2> QED BY <2>1
<1>3. Held' /\ Linked(t)'
  BY <1>2, AddTailLinks
<1>4. /\ data'[n] = d /\ currptr' = currptr /\ call' = <<"add_tail", d>>
      /\ \A i \in 1..Len(s) : data'[s[i]] = data[s[i]]
  BY <1>1 DEF AddTail, CreateNode, Held
<1>5. Values(header)' = Append(Values(header), d)
  <2>1. PICK v : v = Values(header) /\ ReadsAll(v, s, data)
    BY Before
  <2>2. PICK u : u = Values(header)' /\ ReadsAll(u, t, data')
    BY <1>3, After
  <2>3. /\ v \in Seq(Data) /\ Len(v) = Len(s) /\ \A k \in 1..Len(s) : v[k] = data[s[k]]
        /\ u \in Seq(Data) /\ Len(u) = Len(t) /\ \A k \in 1..Len(t) : u[k] = data'[t[k]]
    BY <2>1, <2>2 DEF ReadsAll
  <2>4. v \in Seq(Data)
    BY <2>3
  <2>5. PICK w : /\ w = Append(v, d) /\ w \in Seq(Data) /\ Len(w) = Len(v) + 1 /\ w[Len(v) + 1] = d
                 /\ \A i \in 1..Len(v) : w[i] = v[i]
    <3>1. /\ Append(v, d) \in Seq(Data) /\ Len(Append(v, d)) = Len(v) + 1
          /\ Append(v, d)[Len(v) + 1] = d /\ \A i \in 1..Len(v) : Append(v, d)[i] = v[i]
      BY <2>4, AppendParts
    <3> QED BY <3>1
  <2>6. ASSUME NEW k \in 1..Len(u) PROVE u[k] = w[k]
    <3>1. CASE k = Len(s) + 1
      BY <1>2, <1>4, <2>3, <2>5, <3>1
    <3>2. CASE k # Len(s) + 1
      <4>1. k \in 1..Len(s)
        BY <1>1, <1>2, <2>3, <3>2
      <4> QED BY <1>2, <1>4, <2>3, <2>5, <4>1
    <3> QED BY <3>1, <3>2
  <2>7. u = w
    BY <1>2, <2>3, <2>5, <2>6, SameData
  <2> QED BY <2>1, <2>2, <2>5, <2>7
<1>6. RestAlong(currptr', next', data') =
        IF RestAlong(currptr, next, data) \in {Stale, <<>>} THEN RestAlong(currptr, next, data)
        ELSE Append(RestAlong(currptr, next, data), d)
  <2>1. CASE currptr = Freed
    BY <1>3, <1>4, <2>1, Before, After
  <2>2. CASE currptr # Freed
    <3>1. PICK r, j : /\ r = RestAlong(currptr, next, data)
                      /\ j \in 1..Len(s) + 1 /\ StandsAt(currptr, s, j) /\ Reads(r, s, j, data)
      BY <2>2, Before
    <3>2. /\ r \in Seq(Data) /\ r # Stale /\ Len(r) = Len(s) - j + 1
          /\ \A k \in 1..Len(r) : r[k] = data[s[j + k - 1]]
      BY <3>1 DEF Reads, ListAssumption
    <3>3. CASE j = Len(s) + 1
      <4>1. currptr = NULL /\ Len(r) = 0 /\ r = <<>>
        <5>1. currptr = NULL
          BY <1>1, <3>1, <3>3 DEF StandsAt
        <5>2. Len(r) = 0
          BY <1>1, <3>2, <3>3
        <5> QED BY <3>2, <5>1, <5>2, EmptySeq
      <4>2. Len(t) + 1 \in 1..Len(t) + 1 /\ StandsAt(currptr', t, Len(t) + 1)
        BY <1>1, <1>2, <1>4, <4>1 DEF StandsAt
      <4>3. PICK u : u = RestAlong(currptr', next', data') /\ Reads(u, t, Len(t) + 1, data')
        BY <1>3, <4>2, After
      <4>4. u \in Seq(Data) /\ Len(u) = 0
        BY <1>1, <1>2, <4>3 DEF Reads
      <4>5. u = <<>>
        BY <4>4, EmptySeq
      <4> QED BY <3>1, <4>1, <4>3, <4>5
    <3>4. CASE j # Len(s) + 1
      <4>1. j \in 1..Len(s) /\ currptr = s[j] /\ Len(r) # 0 /\ Len(r) \in Nat
        BY <1>1, <3>1, <3>2, <3>4 DEF StandsAt
      <4>2. r # <<>>
        BY <4>1, EmptySeq
      <4>3. j \in 1..Len(t) + 1 /\ StandsAt(currptr', t, j)
        BY <1>1, <1>2, <1>4, <4>1 DEF StandsAt
      <4>4. PICK u : u = RestAlong(currptr', next', data') /\ Reads(u, t, j, data')
        BY <1>3, <4>3, After
      <4>5. /\ u \in Seq(Data) /\ Len(u) = Len(t) - j + 1
            /\ \A k \in 1..Len(u) : u[k] = data'[t[j + k - 1]]
        BY <4>4 DEF Reads
      <4>6. PICK w : /\ w = Append(r, d) /\ w \in Seq(Data) /\ Len(w) = Len(r) + 1
                     /\ w[Len(r) + 1] = d /\ \A i \in 1..Len(r) : w[i] = r[i]
        <5>1. /\ Append(r, d) \in Seq(Data) /\ Len(Append(r, d)) = Len(r) + 1
              /\ Append(r, d)[Len(r) + 1] = d /\ \A i \in 1..Len(r) : Append(r, d)[i] = r[i]
          BY <3>2, AppendParts
        <5> QED BY <5>1
      <4>7. Len(u) = Len(w)
        BY <1>1, <1>2, <3>2, <4>1, <4>5, <4>6
      <4>8. ASSUME NEW k \in 1..Len(u) PROVE u[k] = w[k]
        <5>1. CASE k = Len(r) + 1
          <6>1. j + k - 1 = Len(s) + 1
            BY <1>1, <3>2, <4>1, <5>1
          <6>2. t[j + k - 1] = n
            BY <1>2, <6>1
          <6> QED BY <1>4, <4>5, <4>6, <5>1, <6>2
        <5>2. CASE k # Len(r) + 1
          <6>1. k \in 1..Len(r)
            <7>1. Len(u) = Len(r) + 1
              BY <4>6, <4>7
            <7> QED BY <4>1, <5>2, <7>1
          <6>2. PICK m \in 1..Len(s) : m = j + k - 1
            BY <1>1, <3>2, <4>1, <6>1
          <6>3. data'[t[m]] = data[s[m]]
            BY <1>2, <1>4
          <6> QED BY <3>2, <4>5, <4>6, <6>1, <6>2, <6>3
        <5> QED BY <5>1, <5>2
      <4>9. u = w
        BY <4>5, <4>6, <4>7, <4>8, SameData
      <4> QED BY <3>1, <3>2, <4>2, <4>4, <4>6, <4>9
    <3> QED BY <3>3, <3>4
  <2> QED BY <2>1, <2>2
<1> QED BY <1>4, <1>5, <1>6, AbstractState DEF Abstract!AddTail

\* reset_iterator.
LEMMA ResetRefines ==
  ASSUME ListAssumption, Held, NEW s, Linked(s), ResetIterator
  PROVE  Abstract!Reset
<1>1. /\ header' = header /\ next' = next /\ data' = data /\ currptr' = header
      /\ call' = <<"reset_iterator">>
  BY DEF ResetIterator, listVars
<1>2. header # Freed
  BY LinkedFacts DEF Linked, ListAssumption
<1>3. RestAlong(currptr', next', data') = Values(header)
  BY <1>1, <1>2, AbstractState DEF RestAlong
<1>4. Values(header)' = Values(header)
  BY <1>1, AbstractState
<1> QED BY <1>1, <1>3, <1>4, AbstractState DEF Abstract!Reset

\* has_next and next.
LEMMA AdvanceRefines ==
  ASSUME ListAssumption, Held, NEW s, Linked(s), Advance
  PROVE  Abstract!Advance
<1>1. s \in Seq(Node) /\ Len(s) \in Nat /\ \A i \in 1..Len(s) : s[i] \in Node /\ s[i] \in alloc
  BY LinkedFacts DEF Linked
<1>2. /\ currptr \notin {NULL, Freed} /\ currptr' = next[currptr]
      /\ call' = <<"next", data[currptr]>>
      /\ header' = header /\ next' = next /\ data' = data
      /\ UNCHANGED listVars
  BY DEF Advance, listVars
<1>3. PICK r, j : /\ r = RestAlong(currptr, next, data)
                  /\ j \in 1..Len(s) + 1 /\ StandsAt(currptr, s, j) /\ Reads(r, s, j, data)
  BY <1>2, Before
<1>4. j \in 1..Len(s) /\ currptr = s[j]
  BY <1>2, <1>3 DEF StandsAt
<1>5. /\ r \in Seq(Data) /\ r # Stale /\ Len(r) = Len(s) - j + 1
      /\ \A k \in 1..Len(r) : r[k] = data[s[j + k - 1]]
  BY <1>3 DEF Reads, ListAssumption
<1>6. r # <<>> /\ Head(r) = data[currptr]
  <2>1. 1 \in 1..Len(r) /\ Len(r) # 0 /\ j + 1 - 1 = j
    BY <1>1, <1>4, <1>5
  <2>2. r[1] = data[s[j + 1 - 1]]
    BY <1>5, <2>1
  <2>3. r # <<>>
    BY <2>1, EmptySeq
  <2>4. Head(r) = r[1]
    BY <1>5, <2>3
  <2> QED BY <1>4, <2>1, <2>2, <2>3, <2>4
<1>7. Held' /\ Linked(s)'
  <2>1. next[s[j]] = IF j = Len(s) THEN NULL ELSE s[j + 1]
    BY <1>4 DEF Linked
  <2>2. j # Len(s) => j + 1 \in 1..Len(s)
    BY <1>1, <1>4
  <2>3. currptr' \in alloc \cup {NULL, Freed}
    BY <1>1, <1>2, <1>4, <2>1, <2>2
  <2>4. UNCHANGED <<listVars, fault>>
    BY <1>1, <1>4 DEF Advance, Faults, Held
  <2> QED BY <2>3, <2>4, ListUntouched
<1>8. j + 1 \in 1..Len(s) + 1 /\ StandsAt(currptr', s, j + 1)
  <2>1. next[s[j]] = IF j = Len(s) THEN NULL ELSE s[j + 1]
    BY <1>4 DEF Linked
  <2>2. j # Len(s) => j + 1 \in 1..Len(s)
    BY <1>1, <1>4
  <2> QED BY <1>1, <1>2, <1>4, <2>1, <2>2 DEF StandsAt
<1>9. PICK u : u = RestAlong(currptr', next', data') /\ Reads(u, s, j + 1, data')
  BY <1>7, <1>8, After
<1>10. /\ u \in Seq(Data) /\ Len(u) = Len(s) - (j + 1) + 1
       /\ \A k \in 1..Len(u) : u[k] = data[s[(j + 1) + k - 1]]
  BY <1>2, <1>9 DEF Reads
<1>11. PICK w : /\ w = Tail(r) /\ w \in Seq(Data) /\ Len(w) = Len(r) - 1
                /\ \A i \in 1..Len(w) : w[i] = r[i + 1]
  <2>1. /\ Tail(r) \in Seq(Data) /\ Len(Tail(r)) = Len(r) - 1
        /\ \A i \in 1..Len(Tail(r)) : Tail(r)[i] = r[i + 1]
    BY <1>5, <1>6, HeadTailProperties
  <2> QED BY <2>1
<1>12. Len(u) = Len(w)
  BY <1>1, <1>4, <1>5, <1>10, <1>11
<1>13. ASSUME NEW k \in 1..Len(u) PROVE u[k] = w[k]
  <2>1. k \in 1..Len(w) /\ k + 1 \in 1..Len(r) /\ (j + 1) + k - 1 = j + (k + 1) - 1
    BY <1>1, <1>4, <1>5, <1>10, <1>11
  <2>2. w[k] = r[k + 1] /\ r[k + 1] = data[s[j + (k + 1) - 1]]
    BY <1>5, <1>11, <2>1
  <2>3. u[k] = data[s[(j + 1) + k - 1]]
    BY <1>10
  <2> QED BY <2>1, <2>2, <2>3
<1>14. u = w
  BY <1>10, <1>11, <1>12, <1>13, SameData
<1>15. Values(header)' = Values(header)
  BY <1>2, AbstractState
<1> QED BY <1>2, <1>3, <1>5, <1>6, <1>9, <1>11, <1>14, <1>15, AbstractState DEF Abstract!Advance

\* remove_node takes the i-th element out of the sequence; an iterator that
\* stands on it loses its place, any other returns what is left of its rest.
LEMMA RemoveNodeRefines ==
  ASSUME ListAssumption, Held, NEW s, Linked(s), NEW i \in 1..Len(s), RemoveNode(s[i])
  PROVE  Abstract!TakeOut(i)
<1>1. /\ s \in Seq(Node) /\ Len(s) \in Nat /\ NULL \notin Node /\ Freed \notin Node /\ NULL # Freed
      /\ \A k \in 1..Len(s) : s[k] \in Node /\ s[k] \in alloc
      /\ \A k, l \in 1..Len(s) : s[k] = s[l] => k = l
  BY LinkedFacts DEF Linked, ListAssumption
<1>2. PICK t : /\ t = RemoveAt(s, i) /\ t \in Seq(Node) /\ Len(t) = Len(s) - 1
               /\ \A k \in 1..Len(s) - 1 : t[k] = IF k < i THEN s[k] ELSE s[k + 1]
  <2>1. /\ RemoveAt(s, i) \in Seq(Node) /\ Len(RemoveAt(s, i)) = Len(s) - 1
        /\ \A k \in 1..Len(s) - 1 : RemoveAt(s, i)[k] = IF k < i THEN s[k] ELSE s[k + 1]
    BY <1>1, RemoveAtProperties
  <2> QED BY <2>1
<1>3. /\ Held' /\ Linked(t)'
      /\ data' = [data EXCEPT ![s[i]] = NULL]
      /\ currptr' = IF currptr = s[i] THEN Freed ELSE currptr
  BY <1>2, RemoveNodeLinks
<1>4. \A k \in 1..Len(s) : k # i => data'[s[k]] = data[s[k]]
  BY <1>1, <1>3 DEF Held
<1>5. PICK v : v = Values(header) /\ ReadsAll(v, s, data)
  BY Before
<1>6. v \in Seq(Data) /\ Len(v) = Len(s) /\ \A k \in 1..Len(s) : v[k] = data[s[k]]
  BY <1>5 DEF ReadsAll
<1>7. Values(header)' = RemoveAt(v, i)
  <2>1. PICK u : u = Values(header)' /\ ReadsAll(u, t, data')
    BY <1>3, After
  <2>2. u \in Seq(Data) /\ Len(u) = Len(t) /\ \A k \in 1..Len(t) : u[k] = data'[t[k]]
    BY <2>1 DEF ReadsAll
  <2>3. PICK w : /\ w = RemoveAt(v, i) /\ w \in Seq(Data) /\ Len(w) = Len(v) - 1
                 /\ \A k \in 1..Len(v) - 1 : w[k] = IF k < i THEN v[k] ELSE v[k + 1]
    <3>1. v \in Seq(Data) /\ i \in 1..Len(v)
      BY <1>6
    <3>2. /\ RemoveAt(v, i) \in Seq(Data) /\ Len(RemoveAt(v, i)) = Len(v) - 1
          /\ \A k \in 1..Len(v) - 1 : RemoveAt(v, i)[k] = IF k < i THEN v[k] ELSE v[k + 1]
      BY <3>1, RemoveAtProperties
    <3> QED BY <3>2
  <2>4. ASSUME NEW k \in 1..Len(u) PROVE u[k] = w[k]
    <3>1. k \in 1..Len(s) - 1 /\ k \in Nat
      BY <1>2, <2>2
    <3>2. CASE k < i
      <4>1. k \in 1..Len(s) /\ k # i /\ t[k] = s[k] /\ w[k] = v[k]
        BY <1>1, <1>2, <1>6, <2>3, <3>1, <3>2
      <4> QED BY <1>4, <1>6, <2>2, <4>1
    <3>3. CASE ~(k < i)
      <4>1. k + 1 \in 1..Len(s) /\ k + 1 # i /\ t[k] = s[k + 1] /\ w[k] = v[k + 1]
        BY <1>1, <1>2, <1>6, <2>3, <3>1, <3>3
      <4> QED BY <1>4, <1>6, <2>2, <4>1
    <3> QED BY <3>2, <3>3
  <2>5. u = w
    BY <1>2, <1>6, <2>2, <2>3, <2>4, SameData
  <2> QED BY <2>1, <2>3, <2>5
<1>8. PICK r : r = RestAlong(currptr, next, data)
  OBVIOUS
<1>9. RestAlong(currptr', next', data') =
        IF r = Stale \/ i - (Len(v) - Len(r)) < 1 THEN r
        ELSE IF i - (Len(v) - Len(r)) = 1 THEN Stale
        ELSE RemoveAt(r, i - (Len(v) - Len(r)))
  <2>1. CASE currptr = Freed
    <3>1. currptr' = Freed
      BY <1>1, <1>3, <2>1
    <3> QED BY <1>3, <1>8, <2>1, <3>1, Before, After
  <2>2. CASE currptr # Freed
    <3>1. PICK j : j \in 1..Len(s) + 1 /\ StandsAt(currptr, s, j) /\ Reads(r, s, j, data)
      BY <1>8, <2>2, Before
    <3>2. /\ r \in Seq(Data) /\ r # Stale /\ Len(r) = Len(s) - j + 1
          /\ \A k \in 1..Len(r) : r[k] = data[s[j + k - 1]]
      BY <3>1 DEF Reads, ListAssumption
    <3>3. i - (Len(v) - Len(r)) = i - j + 1 /\ j \in Nat /\ i \in Nat
      BY <1>1, <1>6, <3>1, <3>2
    <3>4. CASE j > i
      <4>1. currptr' = currptr
        <5>1. j \in 1..Len(s) /\ currptr = s[j] => currptr # s[i]
          BY <1>1, <3>4
        <5>2. currptr = NULL => currptr # s[i]
          BY <1>1
        <5> QED BY <1>3, <3>1, <5>1, <5>2 DEF StandsAt
      <4>2. j - 1 \in 1..Len(t) + 1 /\ StandsAt(currptr', t, j - 1)
        <5>1. j - 1 \in 1..Len(t) + 1 /\ (j = Len(s) + 1 => j - 1 = Len(t) + 1)
          BY <1>1, <1>2, <3>1, <3>3, <3>4
        <5>2. ASSUME j \in 1..Len(s) PROVE j - 1 \in 1..Len(t) /\ t[j - 1] = s[j]
          <6>1. j - 1 \in 1..Len(s) - 1 /\ ~(j - 1 < i) /\ j - 1 + 1 = j
            BY <1>1, <3>3, <3>4, <5>2
          <6> QED BY <1>2, <6>1
        <5> QED BY <3>1, <4>1, <5>1, <5>2 DEF StandsAt
      <4>3. PICK u : u = RestAlong(currptr', next', data') /\ Reads(u, t, j - 1, data')
        BY <1>3, <4>2, After
      <4>4. j \in Nat /\ j - 1 \in Nat /\ Len(s) - j = Len(t) - (j - 1)
        BY <1>1, <1>2, <3>3, <3>4
      <4>5. ASSUME NEW k \in 0..(Len(s) - j) PROVE data[s[j + k]] = data'[t[(j - 1) + k]]
        <5>1. PICK m \in 1..Len(s) - 1 : m = (j - 1) + k /\ ~(m < i) /\ m + 1 = j + k
          BY <1>1, <3>3, <3>4
        <5>2. t[m] = s[m + 1] /\ m + 1 \in 1..Len(s) /\ m + 1 # i
          BY <1>1, <1>2, <5>1
        <5> QED BY <1>4, <5>1, <5>2
      <4>6. PICK new : new = data'
        OBVIOUS
      <4>7. r = u
        BY <1>1, <1>2, <3>1, <4>3, <4>4, <4>5, <4>6, SameReads
      <4>8. i - j + 1 < 1
        BY <3>3, <3>4
      <4> QED BY <3>3, <4>3, <4>7, <4>8
    <3>5. CASE j = i
      <4>1. currptr' = Freed
        BY <1>1, <1>3, <3>1, <3>5 DEF StandsAt
      <4>2. RestAlong(currptr', next', data') = Stale
        BY <1>3, <4>1, After
      <4>3. i - j + 1 = 1
        BY <3>3, <3>5
      <4> QED BY <3>2, <3>3, <4>2, <4>3
    <3>6. CASE j < i
      <4>1. j \in 1..Len(s) /\ currptr = s[j] /\ currptr # s[i] /\ currptr' = currptr
        <5>1. j \in 1..Len(s) /\ j # Len(s) + 1 /\ j # i
          BY <1>1, <3>1, <3>3, <3>6
        <5> QED BY <1>1, <1>3, <3>1, <5>1 DEF StandsAt
      <4>2. j \in 1..Len(t) /\ t[j] = s[j] /\ j \in 1..Len(t) + 1
        <5>1. j \in 1..Len(s) - 1
          BY <1>1, <3>6, <4>1
        <5> QED BY <1>1, <1>2, <3>6, <5>1
      <4>3. PICK u : u = RestAlong(currptr', next', data') /\ Reads(u, t, j, data')
        BY <1>3, <4>1, <4>2, After DEF StandsAt
      <4>4. /\ u \in Seq(Data) /\ Len(u) = Len(t) - j + 1
            /\ \A k \in 1..Len(u) : u[k] = data'[t[j + k - 1]]
        BY <4>3 DEF Reads
      <4>5. i - j + 1 \in 1..Len(r) /\ ~(i - j + 1 < 1) /\ i - j + 1 # 1
        BY <1>1, <3>2, <3>3, <3>6, <4>1
      <4>6. PICK at \in 1..Len(r) : at = i - j + 1
        BY <4>5
      <4>7. PICK w : /\ w = RemoveAt(r, at) /\ w \in Seq(Data) /\ Len(w) = Len(r) - 1
                     /\ \A k \in 1..Len(r) - 1 : w[k] = IF k < at THEN r[k] ELSE r[k + 1]
        <5>1. /\ RemoveAt(r, at) \in Seq(Data) /\ Len(RemoveAt(r, at)) = Len(r) - 1
              /\ \A k \in 1..Len(r) - 1 : RemoveAt(r, at)[k] = IF k < at THEN r[k] ELSE r[k + 1]
          BY <3>2, RemoveAtProperties
        <5> QED BY <5>1
      <4>8. Len(u) = Len(w) /\ Len(w) = Len(s) - j
        BY <1>1, <1>2, <3>2, <3>3, <4>4, <4>7
      <4>9. ASSUME NEW k \in 1..Len(u) PROVE u[k] = w[k]
        <5>1. PICK m \in 1..Len(s) - 1 : m = j + k - 1
          BY <1>1, <3>3, <4>1, <4>8
        <5>2. k \in 1..Len(r) - 1 /\ k \in Nat /\ k \in 1..Len(r) /\ k + 1 \in 1..Len(r)
              /\ (k < at <=> m < i) /\ j + (k + 1) - 1 = m + 1
          BY <1>1, <3>2, <3>3, <4>6, <4>8, <5>1
        <5>3. u[k] = data'[t[m]]
          BY <4>4, <5>1
        <5>4. CASE m < i
          <6>1. t[m] = s[m] /\ m \in 1..Len(s) /\ m # i
            BY <1>1, <1>2, <5>1, <5>4
          <6>2. w[k] = r[k] /\ r[k] = data[s[m]]
            BY <3>2, <4>7, <5>1, <5>2, <5>4
          <6> QED BY <1>4, <5>3, <6>1, <6>2
        <5>5. CASE ~(m < i)
          <6>1. t[m] = s[m + 1] /\ m + 1 \in 1..Len(s) /\ m + 1 # i
            BY <1>1, <1>2, <5>1, <5>5
          <6>2. r[k + 1] = data[s[j + (k + 1) - 1]]
            BY <3>2, <5>2
          <6>3. w[k] = r[k + 1]
            BY <4>7, <5>2, <5>5
          <6> QED BY <1>4, <5>2, <5>3, <6>1, <6>2, <6>3
        <5> QED BY <5>4, <5>5
      <4>10. u = w
        BY <4>4, <4>7, <4>8, <4>9, SameData
      <4> QED BY <3>2, <3>3, <4>3, <4>5, <4>6, <4>7, <4>10
    <3> QED BY <3>3, <3>4, <3>5, <3>6
  <2> QED BY <2>1, <2>2
<1> QED BY <1>5, <1>7, <1>8, <1>9, AbstractState
        DEF Abstract!TakeOut, Abstract!RemoveAt, RemoveAt

\* free_list: what an iterator inside it stood on is gone.
LEMMA RenewRefines ==
  ASSUME ListAssumption, Held, NEW s, Linked(s), Renew
  PROVE  Abstract!Renew
<1>1. s \in Seq(Node) /\ Len(s) \in Nat /\ \A k \in 1..Len(s) : s[k] \in Node
  BY LinkedFacts DEF Linked
<1>2. Held' /\ Linked(<<>>)'
  BY RenewEmpties
<1>3. /\ currptr' = IF currptr = NULL THEN NULL ELSE Freed
      /\ call' = <<"free_list">>
  BY DEF Renew
<1>4. <<>> \in Seq(Data) /\ Len(<<>>) = 0 /\ \A w \in Seq(Data) : Len(w) = 0 => w = <<>>
  BY EmptySeq
<1>5. Values(header)' = <<>>
  <2>1. PICK u : u = Values(header)' /\ ReadsAll(u, <<>>, data')
    BY <1>2, After
  <2> QED BY <1>4, <2>1 DEF ReadsAll
<1>6. PICK r : r = RestAlong(currptr, next, data)
  OBVIOUS
<1>7. RestAlong(currptr', next', data') = IF r = <<>> THEN r ELSE Stale
  <2>1. CASE currptr = NULL
    <3>1. currptr # Freed
      BY <2>1 DEF ListAssumption
    <3>2. PICK j : j \in 1..Len(s) + 1 /\ StandsAt(currptr, s, j) /\ Reads(r, s, j, data)
      BY <1>6, <3>1, Before
    <3>3. j = Len(s) + 1
      BY <1>1, <2>1, <3>2 DEF StandsAt, ListAssumption
    <3>4. r = <<>>
      <4>1. r \in Seq(Data) /\ Len(r) = Len(s) - j + 1
        BY <3>2 DEF Reads
      <4>2. Len(r) = 0
        BY <1>1, <3>3, <4>1
      <4> QED BY <1>4, <4>1, <4>2
    <3>5. 1 \in 1..Len(<<>>) + 1 /\ StandsAt(currptr', <<>>, 1)
      BY <1>3, <1>4, <2>1 DEF StandsAt
    <3>6. PICK u : u = RestAlong(currptr', next', data') /\ Reads(u, <<>>, 1, data')
      BY <1>2, <3>5, After
    <3>7. u = <<>>
      <4>1. u \in Seq(Data) /\ Len(u) = Len(<<>>) - 1 + 1
        BY <3>6 DEF Reads
      <4> QED BY <1>4, <4>1
    <3> QED BY <3>4, <3>6, <3>7
  <2>2. CASE currptr # NULL
    <3>1. RestAlong(currptr', next', data') = Stale
      BY <1>2, <1>3, <2>2, After
    <3>2. r # <<>>
      <4>1. CASE currptr = Freed
        <5>1. r = Stale
          BY <1>6, <4>1, Before
        <5> QED BY <1>4, <5>1 DEF ListAssumption
      <4>2. CASE currptr # Freed
        <5>1. PICK j : j \in 1..Len(s) + 1 /\ StandsAt(currptr, s, j) /\ Reads(r, s, j, data)
          BY <1>6, <4>2, Before
        <5>2. j \in 1..Len(s) /\ Len(r) = Len(s) - j + 1
          BY <2>2, <5>1 DEF StandsAt, Reads
        <5>3. Len(r) # 0
          BY <1>1, <5>2
        <5> QED BY <1>4, <5>3
      <4> QED BY <4>1, <4>2
    <3> QED BY <3>1, <3>2
  <2> QED BY <2>1, <2>2
<1> QED BY <1>3, <1>5, <1>6, <1>7, AbstractState DEF Abstract!Renew

\* A call that finds nothing leaves the sequence and the iterator.
LEMMA NothingRefines ==
  ASSUME UNCHANGED <<listVars, currptr>>
  PROVE  UNCHANGED <<Values(header), IF currptr = Freed THEN Stale ELSE Values(currptr)>>
<1>1. header' = header /\ next' = next /\ data' = data /\ currptr' = currptr
  BY DEF listVars
<1> QED BY <1>1, AbstractState

\* remove_node_content takes out the first element with its data.
LEMMA RemoveContentRefines ==
  ASSUME ListAssumption, Held, NEW s, Linked(s), NEW d \in Data, RemoveContent(d)
  PROVE  Abstract!RemoveContent(d)
<1>1. Len(s) \in Nat
  BY LinkedFacts
<1>2. PICK v : v = Values(header) /\ ReadsAll(v, s, data)
  BY Before
<1>3. /\ v \in Seq(Data) /\ DOMAIN v = 1..Len(s) /\ \A k \in 1..Len(s) : v[k] = data[s[k]]
  BY <1>2, LenProperties DEF ReadsAll
<1>4. RemoveNode(FirstWith(d)) /\ call' = <<"remove_node_content", d>>
  BY DEF RemoveContent
<1>5. CASE FirstWith(d) = NULL /\ \A k \in 1..Len(s) : data[s[k]] # d
  <2>1. d \notin ToSet(v)
    BY <1>3, <1>5 DEF ToSet
  <2>2. UNCHANGED <<listVars, currptr>>
    BY <1>4, <1>5, RemoveNothing
  <2> QED BY <1>2, <1>4, <2>1, <2>2, NothingRefines
          DEF Abstract!RemoveContent, Abstract!ToSet, ToSet
<1>6. ASSUME NEW i \in 1..Len(s), FirstWith(d) = s[i], data[s[i]] = d,
             \A k \in 1..(i - 1) : data[s[k]] # d
      PROVE  Abstract!RemoveContent(d)
  <2>1. Abstract!TakeOut(i)
    BY <1>4, <1>6, RemoveNodeRefines
  <2>2. i \in DOMAIN v /\ v[i] = d
    BY <1>3, <1>6
  <2>3. \A k \in 1..(i - 1) : v[k] # d
    <3> SUFFICES ASSUME NEW k \in 1..(i - 1) PROVE v[k] # d
      OBVIOUS
    <3>1. k \in 1..Len(s)
      BY <1>1
    <3> QED BY <1>3, <1>6, <3>1
  <2> QED BY <1>2, <1>4, <2>1, <2>2, <2>3 DEF Abstract!RemoveContent
<1> QED BY <1>5, <1>6, FirstWithFinds

\* remove_node_index takes out the element at the index, if there is one.
LEMMA RemoveIndexRefines ==
  ASSUME ListAssumption, Held, NEW s, Linked(s), NEW index \in Index, RemoveIndex(index)
  PROVE  Abstract!RemoveIndex(index)
<1> DEFINE i == IF index < 0 THEN 1 ELSE index + 1
<1>1. index \in Int
  BY FS_CardinalityType DEF Index, ListAssumption
<1>2. Len(s) \in Nat /\ Len(Values(header)) = Len(s)
  BY LinkedFacts, Before DEF ReadsAll
<1>3. RemoveNode(NodeAt(index)) /\ call' = <<"remove_node_index", index>>
  BY DEF RemoveIndex
<1>4. \/ i > Len(s) /\ NodeAt(index) = NULL
      \/ i \in 1..Len(s) /\ NodeAt(index) = s[i]
  BY <1>1, NodeAtFinds
<1>5. CASE i > Len(s) /\ NodeAt(index) = NULL
  <2>1. UNCHANGED <<listVars, currptr>>
    BY <1>3, <1>5, RemoveNothing
  <2> QED BY <1>2, <1>3, <1>5, <2>1, NothingRefines DEF Abstract!RemoveIndex
<1>6. CASE i \in 1..Len(s) /\ NodeAt(index) = s[i]
  <2>1. Abstract!TakeOut(i)
    <3> HIDE DEF i
    <3> QED BY <1>3, <1>6, RemoveNodeRefines
  <2>2. i <= Len(Values(header))
    BY <1>2, <1>6
  <2> QED BY <1>3, <2>1, <2>2 DEF Abstract!RemoveIndex
<1> QED BY <1>4, <1>5, <1>6

\* Every step of the list is a step of the sequence, or none.
LEMMA ListRefines ==
  ASSUME ListAssumption, ListInv, [Next]_vars
  PROVE  [Abstract!Next]_<<Values(header),
                           IF currptr = Freed THEN Stale ELSE Values(currptr), call>>
<1>1. PICK s : Linked(s)
  BY DEF ListInv
<1>2. Held
  BY DEF ListInv
<1>3. ASSUME NEW d \in Data, NEW n \in Node, AddHead(d, n) PROVE Abstract!AddHead(d)
  BY <1>1, <1>2, <1>3, AddHeadRefines
<1>4. ASSUME NEW d \in Data, NEW n \in Node, AddTail(d, n) PROVE Abstract!AddTail(d)
  BY <1>1, <1>2, <1>4, AddTailRefines
<1>5. ASSUME NEW d \in Data, RemoveContent(d) PROVE Abstract!RemoveContent(d)
  BY <1>1, <1>2, <1>5, RemoveContentRefines
<1>6. ASSUME NEW index \in Index, RemoveIndex(index) PROVE Abstract!RemoveIndex(index)
  BY <1>1, <1>2, <1>6, RemoveIndexRefines
<1>7. CASE ResetIterator
  BY <1>1, <1>2, <1>7, ResetRefines DEF Abstract!Next
<1>8. CASE Advance
  BY <1>1, <1>2, <1>8, AdvanceRefines DEF Abstract!Next
<1>9. CASE Renew
  BY <1>1, <1>2, <1>9, RenewRefines DEF Abstract!Next
<1>10. CASE UNCHANGED vars
  <2>1. UNCHANGED <<listVars, currptr>> /\ call' = call
    BY <1>10 DEF vars
  <2> QED BY <2>1, NothingRefines
<1> QED BY <1>3, <1>4, <1>5, <1>6, <1>7, <1>8, <1>9, <1>10 DEF Next, Abstract!Next

\* The pointers and the one iterator implement a sequence with an iterator, for
\* any number of nodes: every call returns and leaves what it would there.
THEOREM ImplementsSequence == Spec => ImplementsList
<1>1. Init => Abstract!Init
  <2> SUFFICES ASSUME Init PROVE Abstract!Init
    OBVIOUS
  <2>1. Held /\ Linked(<<>>)
    <3>1. <<>> \in Seq(Node) /\ Len(<<>>) = 0
      BY EmptySeq
    <3> QED BY <3>1 DEF Init, Held, Linked
  <2>2. PICK v : v = Values(header) /\ ReadsAll(v, <<>>, data)
    BY <2>1, ListAssumption, Before
  <2>3. v = <<>>
    BY <2>2, EmptySeq DEF ReadsAll
  <2>4. currptr = header /\ currptr # Freed /\ call = <<"create_list">>
    BY ListAssumption DEF Init, ListAssumption
  <2> QED BY <2>2, <2>3, <2>4 DEF Abstract!Init
<1>2. ListInv /\ [Next]_vars =>
        [Abstract!Next]_<<Values(header),
                          IF currptr = Freed THEN Stale ELSE Values(currptr), call>>
  BY ListRefines, ListAssumption
<1> QED BY <1>1, <1>2, ListInvAlways, PTL DEF Spec, ImplementsList, Abstract!Spec
=============================================================================
