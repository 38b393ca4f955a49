----------------------------- MODULE McrListProofs ----------------------------
(***************************************************************************)
(* Theorems about mcr_list.c: for any number of lists, nodes and values.   *)
(***************************************************************************)
EXTENDS McrList, LeastNumber, FiniteSetTheorems, SequenceTheorems, TLAPS

-----------------------------------------------------------------------------
(* Chains of nodes *)

\* The i-th node of s, NULL beside it.
At(s, i) == IF i \in 1..Len(s) THEN s[i] ELSE Null

\* What a loop along link meets from n on.
Steps(link, n, h, k) ==
  /\ h[0] = n
  /\ \A i \in 1..k : h[i] = IF h[i - 1] \in Nodes THEN link[h[i - 1]] ELSE Null

\* A walk of any length along link exists.
LEMMA StepsExist ==
  ASSUME NEW link, NEW n, NEW k \in Nat
  PROVE  \E h : h = [i \in 0..k |-> h[i]] /\ Steps(link, n, h, k)
<1> DEFINE T == {j \in Nat : \E h : h = [i \in 0..j |-> h[i]] /\ Steps(link, n, h, j)}
<1>1. 0 \in T
  <2> DEFINE u == [i \in 0..0 |-> n]
  <2>1. u = [i \in 0..0 |-> u[i]] /\ u[0] = n
    OBVIOUS
  <2>2. Steps(link, n, u, 0)
    BY <2>1 DEF Steps
  <2> QED
    BY <2>1, <2>2
<1>2. ASSUME NEW j \in Nat, j \in T PROVE j + 1 \in T
  <2>1. PICK h : h = [i \in 0..j |-> h[i]] /\ Steps(link, n, h, j)
    BY <1>2
  <2> DEFINE x == IF h[j] \in Nodes THEN link[h[j]] ELSE Null
             u == [i \in 0..j + 1 |-> IF i = j + 1 THEN x ELSE h[i]]
  <2>2. u = [i \in 0..j + 1 |-> u[i]]
    BY Zenon
  <2>3. u[j + 1] = x /\ \A i \in 0..j : u[i] = h[i]
    OBVIOUS
  <2> HIDE DEF u
  <2>4. ASSUME NEW i \in 1..j + 1
        PROVE  u[i] = IF u[i - 1] \in Nodes THEN link[u[i - 1]] ELSE Null
    <3>1. CASE i = j + 1
      <4>1. i - 1 = j /\ j \in 0..j
        BY <3>1
      <4>2. u[i - 1] = h[j] /\ u[i] = x
        BY <2>3, <3>1, <4>1
      <4> QED
        BY <4>2
    <3>2. CASE i # j + 1
      <4>1. i \in 1..j /\ i \in 0..j /\ i - 1 \in 0..j
        BY <3>2
      <4>2. u[i] = h[i] /\ u[i - 1] = h[i - 1]
        BY <2>3, <4>1
      <4>3. h[i] = IF h[i - 1] \in Nodes THEN link[h[i - 1]] ELSE Null
        BY <2>1, <4>1 DEF Steps
      <4> QED
        BY <4>2, <4>3
    <3> QED
      BY <3>1, <3>2
  <2>5. Steps(link, n, u, j + 1)
    <3>1. u[0] = n
      BY <2>1, <2>3 DEF Steps
    <3> QED
      BY <2>4, <3>1 DEF Steps
  <2> QED
    BY <2>2, <2>5
<1> HIDE DEF T
<1>3. Nat \subseteq T
  BY <1>1, <1>2, Induction
<1>4. k \in T
  BY <1>3
<1> QED
  BY <1>4 DEF T

\* Hops is that walk.
LEMMA HopsIs ==
  ASSUME NEW link, NEW n, NEW k \in Nat
  PROVE  Steps(link, n, Hops(link, n, k), k)
<1> DEFINE Of(h) == [i \in 0..k |-> IF i = 0 THEN n
                                     ELSE IF h[i - 1] \in Nodes THEN link[h[i - 1]] ELSE Null]
           f == CHOOSE h : h = Of(h)
<1>1. PICK h : h = [i \in 0..k |-> h[i]] /\ Steps(link, n, h, k)
  BY StepsExist
<1>2. h = Of(h)
  <2>1. ASSUME NEW i \in 0..k
        PROVE  h[i] = IF i = 0 THEN n
                      ELSE IF h[i - 1] \in Nodes THEN link[h[i - 1]] ELSE Null
    <3>1. i = 0 \/ i \in 1..k
      OBVIOUS
    <3>2. CASE i = 0
      BY <1>1, <3>2 DEF Steps
    <3>3. CASE i \in 1..k
      BY <1>1, <3>3 DEF Steps
    <3> QED
      BY <3>1, <3>2, <3>3
  <2> QED
    BY <1>1, <2>1
<1>3. f = Of(f)
  BY <1>2, Zenon
<1>4. \A i \in 0..k : f[i] = IF i = 0 THEN n
                             ELSE IF f[i - 1] \in Nodes THEN link[f[i - 1]] ELSE Null
  BY <1>3, Zenon
<1>5. Hops(link, n, k) = f
  BY DEF Hops
<1> HIDE DEF f
<1>6. f[0] = n /\ \A i \in 1..k : f[i] = IF f[i - 1] \in Nodes THEN link[f[i - 1]] ELSE Null
  BY <1>4
<1> QED
  BY <1>5, <1>6 DEF Steps

\* s is what link leads to from n on.
Leads(link, n, s) ==
  /\ s \in Seq(Nodes) /\ n = At(s, 1)
  /\ \A i \in 1..Len(s) : link[s[i]] = At(s, i + 1)

\* Following link from n gives the nodes of s, then NULL.
LEMMA LeadsOn ==
  ASSUME NEW link, NEW n, NEW s, Leads(link, n, s), NEW k \in Nat, NEW j \in 0..k
  PROVE  Hops(link, n, k)[j] = At(s, j + 1)
<1> DEFINE h == Hops(link, n, k)
           T == {i \in Nat : i <= k => h[i] = At(s, i + 1)}
<1>1. /\ s \in Seq(Nodes) /\ n = At(s, 1)
      /\ \A i \in 1..Len(s) : link[s[i]] = At(s, i + 1) /\ s[i] \in Nodes
      /\ Len(s) \in Nat
  BY LenProperties, ElementOfSeq DEF Leads
<1>2. Steps(link, n, h, k)
  BY HopsIs
<1> HIDE DEF h
<1>3. 0 \in T
  BY <1>1, <1>2 DEF Steps
<1>4. ASSUME NEW i \in Nat, i \in T PROVE i + 1 \in T
  <2> SUFFICES ASSUME i + 1 <= k PROVE h[i + 1] = At(s, (i + 1) + 1)
    OBVIOUS
  <2>1. /\ i + 1 \in 1..k /\ (i + 1) - 1 = i /\ h[i] = At(s, i + 1)
    BY <1>4
  <2>2. h[i + 1] = IF h[i] \in Nodes THEN link[h[i]] ELSE Null
    BY <1>2, <2>1 DEF Steps
  <2>3. CASE i + 1 \in 1..Len(s)
    <3>1. h[i] = s[i + 1] /\ s[i + 1] \in Nodes
      BY <1>1, <2>1, <2>3 DEF At
    <3> QED
      BY <1>1, <2>2, <2>3, <3>1
  <2>4. CASE i + 1 \notin 1..Len(s)
    <3>1. h[i] = Null /\ h[i] \notin Nodes
      BY <2>1, <2>4, NullAssumption DEF At
    <3>2. (i + 1) + 1 \notin 1..Len(s)
      BY <1>1, <2>4
    <3> QED
      BY <2>2, <3>1, <3>2 DEF At
  <2> QED
    BY <2>3, <2>4
<1> HIDE DEF T
<1>5. Nat \subseteq T
  BY <1>3, <1>4, Induction
<1> QED
  BY <1>5 DEF T, h

Distinct(s) == \A i, j \in 1..Len(s) : s[i] = s[j] => i = j

\* What a sequence of nodes is made of.
LEMMA NodeIs ==
  ASSUME NEW s \in Seq(Nodes)
  PROVE  /\ Len(s) \in Nat /\ s = [i \in 1..Len(s) |-> s[i]]
         /\ \A i \in 1..Len(s) : s[i] \in Nodes /\ s[i] # Null /\ At(s, i) = s[i]
<1>1. Len(s) \in Nat /\ s \in [1..Len(s) -> Nodes]
  BY LenProperties
<1>2. s = [i \in 1..Len(s) |-> s[i]]
  BY <1>1
<1>3. \A i \in 1..Len(s) : s[i] \in Nodes
  BY <1>1
<1> QED
  BY <1>1, <1>2, <1>3, NullAssumption DEF At

\* As many things as they are numbered by.
LEMMA ImageSize ==
  ASSUME NEW S, IsFiniteSet(S), NEW f, DOMAIN f = S, f = [x \in S |-> f[x]],
         \A x, y \in S : f[x] = f[y] => x = y
  PROVE  IsFiniteSet({f[x] : x \in S}) /\ Cardinality({f[x] : x \in S}) = Cardinality(S)
<1> DEFINE T == {f[x] : x \in S}
<1>1. f \in [S -> T]
  <2>1. \A x \in S : f[x] \in T
    OBVIOUS
  <2> QED
    BY <2>1
<1>2. \A t \in T : \E x \in S : f[x] = t
  OBVIOUS
<1>3. f \in Bijection(S, T)
  BY <1>1, <1>2 DEF Bijection, Injection, Surjection, IsInjective
<1>4. ExistsBijection(S, T)
  BY <1>3 DEF ExistsBijection
<1> QED
  BY <1>4, FS_Bijection

\* A sequence of different nodes is as long as its set, and no longer than the heap.
LEMMA Size ==
  ASSUME NEW s \in Seq(Nodes), Distinct(s)
  PROVE  /\ Cardinality({s[i] : i \in 1..Len(s)}) = Len(s)
         /\ Cardinality(Nodes) \in Nat /\ Len(s) <= Cardinality(Nodes)
<1>1. Len(s) \in Nat /\ s = [i \in 1..Len(s) |-> s[i]] /\ DOMAIN s = 1..Len(s)
  BY NodeIs, LenProperties
<1>2. IsFiniteSet(1..Len(s)) /\ Cardinality(1..Len(s)) = Len(s)
  <2>1. /\ IsFiniteSet(1..Len(s))
        /\ Cardinality(1..Len(s)) = IF 1 > Len(s) THEN 0 ELSE Len(s) - 1 + 1
    <3>1. 1 \in Int /\ Len(s) \in Int
      BY <1>1
    <3> QED
      BY <3>1, FS_Interval, Zenon
  <2> QED
    BY <1>1, <2>1
<1>3. Cardinality({s[i] : i \in 1..Len(s)}) = Len(s)
  BY <1>1, <1>2, ImageSize DEF Distinct
<1>4. {s[i] : i \in 1..Len(s)} \subseteq Nodes
  BY NodeIs
<1>5. Cardinality(Nodes) \in Nat
  BY NodesAssumption, FS_CardinalityType
<1>6. Cardinality({s[i] : i \in 1..Len(s)}) <= Cardinality(Nodes)
  BY <1>4, NodesAssumption, FS_Subset
<1> QED
  BY <1>3, <1>5, <1>6

\* A loop that follows s returns s.
LEMMA ChainIs ==
  ASSUME NEW link, NEW n, NEW s, Leads(link, n, s), Distinct(s)
  PROVE  Chain(link, n) = s
<1> DEFINE N == Cardinality(Nodes)
           h == Hops(link, n, N)
<1>1. s \in Seq(Nodes) /\ Len(s) \in Nat /\ N \in Nat /\ Len(s) <= N
  BY Size, NodeIs DEF Leads
<1>2. \A i \in 0..N : h[i] = At(s, i + 1)
  BY <1>1, LeadsOn
<1> HIDE DEF h
<1>3. {i \in 0..N : h[i] # Null} = 0..Len(s) - 1
  <2>1. ASSUME NEW i \in 0..N PROVE h[i] # Null <=> i \in 0..Len(s) - 1
    <3>1. CASE i \in 0..Len(s) - 1
      <4>1. i + 1 \in 1..Len(s)
        BY <1>1, <3>1
      <4>2. At(s, i + 1) # Null
        BY <1>1, <4>1, NodeIs
      <4> QED
        BY <1>2, <3>1, <4>2
    <3>2. CASE i \notin 0..Len(s) - 1
      <4>1. i + 1 \notin 1..Len(s)
        BY <1>1, <3>2
      <4> QED
        BY <1>2, <3>2, <4>1 DEF At
    <3> QED
      BY <3>1, <3>2
  <2>2. 0..Len(s) - 1 \subseteq 0..N
    BY <1>1
  <2> QED
    BY <2>1, <2>2
<1>4. Cardinality(0..Len(s) - 1) = Len(s)
  <2>1. IF 0 > Len(s) - 1 THEN Len(s) = 0 ELSE Len(s) - 1 - 0 + 1 = Len(s)
    BY <1>1
  <2>2. Len(s) - 1 \in Int
    BY <1>1
  <2> QED
    BY <2>1, <2>2, FS_Interval
<1>5. Chain(link, n) = [i \in 1..Len(s) |-> h[i - 1]]
  <2>1. Chain(link, n) = [i \in 1..Cardinality({j \in 0..N : h[j] # Null}) |-> h[i - 1]]
    BY DEF Chain, h
  <2> QED
    BY <1>3, <1>4, <2>1
<1>6. \A i \in 1..Len(s) : h[i - 1] = s[i]
  <2>1. \A i \in 1..Len(s) : i - 1 \in 0..N /\ (i - 1) + 1 = i
    BY <1>1
  <2>2. \A i \in 1..Len(s) : At(s, i) = s[i]
    BY <1>1, NodeIs
  <2>3. \A i \in 1..Len(s) : h[i - 1] = At(s, (i - 1) + 1)
    BY <1>2, <2>1
  <2> QED
    BY <2>1, <2>2, <2>3
<1> QED
  BY <1>1, <1>5, <1>6, NodeIs

\* The elements of a reversed sequence.
LEMMA ReverseIs ==
  ASSUME NEW S, NEW s \in Seq(S)
  PROVE  /\ Reverse(s) \in Seq(S) /\ Len(Reverse(s)) = Len(s)
         /\ \A i \in 1..Len(s) : Reverse(s)[i] = s[(Len(s) + 1) - i]
<1>1. Len(s) \in Nat /\ \A i \in 1..Len(s) : s[i] \in S
  BY LenProperties, ElementOfSeq
<1>2. \A i \in 1..Len(s) : (Len(s) - i) + 1 \in 1..Len(s) /\ (Len(s) - i) + 1 = (Len(s) + 1) - i
  BY <1>1
<1>3. Reverse(s) = [i \in 1..Len(s) |-> s[(Len(s) - i) + 1]]
  BY DEF Reverse
<1>4. Reverse(s) \in Seq(S) /\ Len(Reverse(s)) = Len(s)
  BY <1>1, <1>2, <1>3, IsASeq
<1>5. \A i \in 1..Len(s) : Reverse(s)[i] = s[(Len(s) - i) + 1]
  BY <1>3
<1> QED
  BY <1>2, <1>4, <1>5

-----------------------------------------------------------------------------
(* Lists as sequences of nodes *)

\* The header and the links are those of a list of the nodes s.
IsList(hd, tl, nx, pv, s) ==
  /\ s \in Seq(Nodes) /\ hd = At(s, 1) /\ tl = At(s, Len(s))
  /\ \A i \in 1..Len(s) : nx[s[i]] = At(s, i + 1) /\ pv[s[i]] = At(s, i - 1)

Elems(s) == {s[i] : i \in 1..Len(s)}

\* Each list l is that of the nodes w[l].
Chained(w) ==
  /\ w \in [Lists -> Seq(Nodes)]
  /\ \A l \in Lists : /\ IsList(head[l], tail[l], next, prev, w[l])
                      /\ Distinct(w[l]) /\ len[l] = Len(w[l])
                      /\ l \in made \/ w[l] = <<>>
  /\ \A l, o \in Lists : l # o => Elems(w[l]) \intersect Elems(w[o]) = {}
  /\ heap = UNION {Elems(w[l]) : l \in Lists}

\* A list is read forwards along next and backwards along prev.
LEMMA ListLeads ==
  ASSUME NEW hd, NEW tl, NEW nx, NEW pv, NEW s, IsList(hd, tl, nx, pv, s), Distinct(s)
  PROVE  /\ Leads(nx, hd, s) /\ Leads(pv, tl, Reverse(s)) /\ Distinct(Reverse(s))
         /\ Reverse(s) \in Seq(Nodes) /\ Len(Reverse(s)) = Len(s)
         /\ \A i \in 1..Len(s) : Reverse(s)[i] = s[(Len(s) + 1) - i]
<1>1. s \in Seq(Nodes) /\ Len(s) \in Nat
  BY NodeIs DEF IsList
<1>2. /\ Reverse(s) \in Seq(Nodes) /\ Len(Reverse(s)) = Len(s)
      /\ \A i \in 1..Len(s) : Reverse(s)[i] = s[(Len(s) + 1) - i]
  BY <1>1, ReverseIs
<1>3. Leads(nx, hd, s)
  BY DEF IsList, Leads
<1>4. tl = At(Reverse(s), 1)
  <2>1. CASE Len(s) = 0
    BY <1>2, <2>1 DEF IsList, At
  <2>2. CASE Len(s) # 0
    <3>1. Len(s) \in 1..Len(s) /\ 1 \in 1..Len(s) /\ (Len(s) + 1) - 1 = Len(s)
      BY <1>1, <2>2
    <3> QED
      BY <1>2, <3>1 DEF IsList, At
  <2> QED
    BY <2>1, <2>2
<1>5. ASSUME NEW i \in 1..Len(s) PROVE pv[Reverse(s)[i]] = At(Reverse(s), i + 1)
  <2> DEFINE j == (Len(s) + 1) - i
  <2>1. j \in 1..Len(s) /\ j - 1 = (Len(s) + 1) - (i + 1)
    BY <1>1
  <2>2. pv[Reverse(s)[i]] = At(s, j - 1)
    BY <1>2, <2>1 DEF IsList
  <2>3. CASE i = Len(s)
    <3>1. j - 1 = 0 /\ i + 1 \notin 1..Len(s)
      BY <1>1, <2>3
    <3> QED
      BY <1>2, <2>2, <3>1 DEF At
  <2>4. CASE i # Len(s)
    <3>1. j - 1 \in 1..Len(s) /\ i + 1 \in 1..Len(s)
      BY <1>1, <2>4
    <3> QED
      BY <1>2, <2>1, <2>2, <3>1 DEF At
  <2> QED
    BY <2>3, <2>4
<1>6. Leads(pv, tl, Reverse(s))
  BY <1>2, <1>4, <1>5 DEF Leads
<1>7. Distinct(Reverse(s))
  <2>1. ASSUME NEW i \in 1..Len(s), NEW j \in 1..Len(s), Reverse(s)[i] = Reverse(s)[j]
        PROVE  i = j
    <3>1. (Len(s) + 1) - i \in 1..Len(s) /\ (Len(s) + 1) - j \in 1..Len(s)
      BY <1>1
    <3>2. (Len(s) + 1) - i = (Len(s) + 1) - j
      BY <1>2, <2>1, <3>1 DEF Distinct
    <3> QED
      BY <1>1, <3>2
  <2> QED
    BY <1>2, <2>1 DEF Distinct
<1> QED
  BY <1>2, <1>3, <1>6, <1>7

\* What the model walks along are the nodes w says.
LEMMA WalkIs ==
  ASSUME NEW w, Chained(w), NEW l \in Lists
  PROVE  /\ Walk(l) = w[l] /\ InList(l) = Elems(w[l])
         /\ Chain(next, head[l]) = w[l] /\ Chain(prev, tail[l]) = Reverse(w[l])
<1>1. /\ w[l] \in Seq(Nodes) /\ Distinct(w[l]) /\ len[l] = Len(w[l])
      /\ IsList(head[l], tail[l], next, prev, w[l])
  BY DEF Chained
<1>2. Leads(next, head[l], w[l]) /\ Leads(prev, tail[l], Reverse(w[l]))
      /\ Distinct(Reverse(w[l]))
  BY <1>1, ListLeads
<1>3. Chain(next, head[l]) = w[l]
  BY <1>1, <1>2, ChainIs
<1>4. Chain(prev, tail[l]) = Reverse(w[l])
  BY <1>2, ChainIs
<1>5. Walk(l) = w[l]
  <2> DEFINE L == Len(w[l])
             h == Hops(next, head[l], L)
  <2>1. L \in Nat
    BY <1>1, NodeIs
  <2>2. \A i \in 0..L : h[i] = At(w[l], i + 1)
    BY <1>2, <2>1, LeadsOn
  <2>3. Walk(l) = [i \in 1..L |-> h[i - 1]]
    BY <1>1 DEF Walk
  <2> HIDE DEF h
  <2>4. \A i \in 1..L : h[i - 1] = w[l][i]
    <3>1. \A i \in 1..L : i - 1 \in 0..L /\ (i - 1) + 1 = i
      BY <2>1
    <3>2. \A i \in 1..L : h[i - 1] = At(w[l], i)
      BY <2>2, <3>1
    <3> QED
      BY <1>1, <3>2, NodeIs
  <2> QED
    BY <1>1, <2>3, <2>4, NodeIs
<1>6. InList(l) = Elems(w[l])
  BY <1>1, <1>5 DEF InList, Elems
<1> QED
  BY <1>3, <1>4, <1>5, <1>6

\* Lists that are chains of their own are as Linked says.
LEMMA ChainedLinked ==
  ASSUME TypeOK, NEW w, Chained(w)
  PROVE  Linked
<1>1. Partitioned
  <2>1. heap = UNION {InList(l) : l \in Lists}
    <3>1. heap = UNION {Elems(w[l]) : l \in Lists}
      BY DEF Chained
    <3>2. \A l \in Lists : InList(l) = Elems(w[l])
      BY WalkIs
    <3> QED
      BY <3>1, <3>2
  <2>2. \A l, o \in Lists : l # o => InList(l) \intersect InList(o) = {}
    BY WalkIs DEF Chained
  <2> QED
    BY <2>1, <2>2 DEF Partitioned
<1>2. ASSUME NEW l \in Lists
      PROVE  /\ Len(Chain(next, head[l])) = len[l]
             /\ Cardinality(InList(l)) = len[l]
             /\ Chain(prev, tail[l]) = Reverse(Walk(l))
  <2>1. w[l] \in Seq(Nodes) /\ Distinct(w[l]) /\ len[l] = Len(w[l])
    BY DEF Chained
  <2>2. Cardinality(Elems(w[l])) = Len(w[l])
    BY <2>1, Size DEF Elems
  <2> QED
    BY <2>1, <2>2, WalkIs
<1> QED
  BY <1>1, <1>2 DEF Linked

\* The two look-ups.
LEMMA ChainedLookups ==
  ASSUME TypeOK, NEW w, Chained(w)
  PROVE  LookupsRight
<1> DEFINE N == Cardinality(Nodes)
<1> SUFFICES ASSUME NEW l \in made, l \in Lists
             PROVE  /\ \A i \in -(N + 1)..N :
                         listIndex(l, i) = IF i \in 0..len[l] - 1 THEN Walk(l)[i + 1]
                                           ELSE IF i \in -len[l]..-1 THEN Walk(l)[len[l] + 1 + i]
                                           ELSE Null
                    /\ \A v \in Values :
                         LET n == listSearchKey(l, v) IN
                         IF n = Null THEN \A i \in 1..len[l] : value[Walk(l)[i]] # v
                         ELSE \E i \in 1..len[l] :
                                /\ Walk(l)[i] = n /\ value[n] = v
                                /\ \A j \in 1..i - 1 : value[Walk(l)[j]] # v
  <2>1. made \subseteq Lists
    BY DEF TypeOK
  <2> QED
    BY <2>1 DEF LookupsRight
<1> DEFINE s == w[l]
<1>1. /\ s \in Seq(Nodes) /\ Distinct(s) /\ len[l] = Len(s) /\ Len(s) \in Nat
      /\ IsList(head[l], tail[l], next, prev, s) /\ Walk(l) = s
      /\ Chain(next, head[l]) = s
  BY WalkIs, NodeIs DEF Chained
<1> HIDE DEF N, s
<1>2. /\ Leads(next, head[l], s) /\ Leads(prev, tail[l], Reverse(s))
      /\ Len(Reverse(s)) = Len(s)
      /\ \A i \in 1..Len(s) : Reverse(s)[i] = s[(Len(s) + 1) - i]
  <2>1. Leads(next, head[l], s) /\ Leads(prev, tail[l], Reverse(s))
    BY <1>1, ListLeads
  <2> QED
    BY <1>1, <2>1, ReverseIs
<1>3. N \in Nat
  BY <1>1, Size DEF N
<1>4. ASSUME NEW i \in -(N + 1)..N
      PROVE  listIndex(l, i) = IF i \in 0..Len(s) - 1 THEN s[i + 1]
                               ELSE IF i \in -Len(s)..-1 THEN s[Len(s) + 1 + i]
                               ELSE Null
  <2>1. i \in Int
    BY <1>3
  <2>2. CASE i >= 0
    <3>1. listIndex(l, i) = Hops(next, head[l], i)[i]
      BY <2>1, <2>2 DEF listIndex
    <3>2. i \in Nat /\ i \in 0..i
      BY <2>1, <2>2
    <3>3. listIndex(l, i) = At(s, i + 1)
      BY <1>2, <3>1, <3>2, LeadsOn
    <3> QED
      BY <1>1, <2>1, <2>2, <3>3 DEF At
  <2>3. CASE i < 0
    <3> DEFINE k == (-i) - 1
    <3>1. listIndex(l, i) = Hops(prev, tail[l], k)[k]
      BY <2>3 DEF listIndex
    <3>2. k \in Nat /\ k \in 0..k /\ k + 1 = -i
      BY <2>1, <2>3
    <3>3. listIndex(l, i) = At(Reverse(s), -i)
      <4>1. Hops(prev, tail[l], k)[k] = At(Reverse(s), k + 1)
        BY <1>2, <3>2, LeadsOn
      <4> QED
        BY <3>1, <3>2, <4>1
    <3>4. CASE -i \in 1..Len(s)
      <4>1. i \in -Len(s)..-1 /\ i \notin 0..Len(s) - 1 /\ (Len(s) + 1) - (-i) = Len(s) + 1 + i
        BY <1>1, <2>1, <3>4
      <4>2. listIndex(l, i) = s[(Len(s) + 1) - (-i)]
        BY <1>2, <3>3, <3>4 DEF At
      <4> QED
        BY <4>1, <4>2
    <3>5. CASE -i \notin 1..Len(s)
      <4>1. i \notin -Len(s)..-1 /\ i \notin 0..Len(s) - 1
        BY <1>1, <2>1, <2>3, <3>5
      <4> QED
        BY <1>2, <3>3, <3>5, <4>1 DEF At
    <3> QED
      BY <3>4, <3>5
  <2> QED
    BY <2>1, <2>2, <2>3
<1>5. ASSUME NEW v \in Values
      PROVE  LET n == listSearchKey(l, v) IN
             IF n = Null THEN \A i \in 1..Len(s) : value[s[i]] # v
             ELSE \E i \in 1..Len(s) : /\ s[i] = n /\ value[n] = v
                                       /\ \A j \in 1..i - 1 : value[s[j]] # v
  <2> DEFINE found == {i \in 1..Len(s) : value[s[i]] = v}
  <2>1. listSearchKey(l, v) = IF found = {} THEN Null ELSE s[Min(found)]
    BY <1>1 DEF listSearchKey
  <2>2. CASE found = {}
    BY <2>1, <2>2
  <2>3. CASE found # {}
    <3>1. Min(found) \in found /\ \A i \in found : Min(found) <= i
      <4>1. found \in SUBSET Nat
        OBVIOUS
      <4> QED
        BY <2>3, <4>1, MinIs
    <3> DEFINE m == Min(found)
    <3>2. m \in 1..Len(s) /\ value[s[m]] = v /\ s[m] # Null
      BY <1>1, <3>1, NodeIs
    <3>3. \A j \in 1..m - 1 : value[s[j]] # v
      <4>1. \A j \in 1..m - 1 : j \in 1..Len(s) /\ ~(m <= j)
        BY <1>1, <3>2
      <4> QED
        BY <3>1, <4>1
    <3>4. listSearchKey(l, v) = s[m]
      BY <2>1, <2>3
    <3> QED
      BY <3>2, <3>3, <3>4
  <2> QED
    BY <2>2, <2>3
<1> QED
  BY <1>1, <1>4, <1>5

-----------------------------------------------------------------------------
(* Editing one list *)

\* A store through p changes the field of p alone.
LEMMA WriteIs ==
  ASSUME NEW f, NEW p, NEW v, NEW n \in Nodes
  PROVE  Write(f, p, v)[n] = IF n = p THEN v ELSE f[n]
BY DEF Write

\* free() clears the fields of the nodes it gets.
LEMMA ClearIs ==
  ASSUME NEW f, NEW S, NEW n \in Nodes
  PROVE  Clear(S, f)[n] = IF n \in S THEN Null ELSE f[n]
BY DEF Clear

\* The elements after an insertion.
LEMMA InsertAtIs ==
  ASSUME NEW S, NEW s \in Seq(S), NEW k \in 1..Len(s) + 1, NEW n \in S
  PROVE  /\ InsertAt(s, k, n) \in Seq(S) /\ Len(InsertAt(s, k, n)) = Len(s) + 1
         /\ \A i \in 1..Len(s) + 1 :
              InsertAt(s, k, n)[i] = IF i < k THEN s[i] ELSE IF i = k THEN n ELSE s[i - 1]
<1> DEFINE a == SubSeq(s, 1, k - 1)
           c == SubSeq(s, k, Len(s))
           b == a \o <<n>>
<1>1. Len(s) \in Nat /\ k \in Int /\ k - 1 \in Int /\ Len(s) \in Int /\ 1 \in Int
      /\ \A i \in 1..Len(s) : s[i] \in S
  BY LenProperties, ElementOfSeq
<1>2. /\ a \in Seq(S) /\ Len(a) = k - 1 /\ \A i \in 1..k - 1 : a[i] = s[i]
  <2>1. \A i \in 1..k - 1 : i \in 1..Len(s) /\ s[i] \in S
    BY <1>1
  <2>2. /\ a \in Seq(S) /\ Len(a) = IF 1 <= k - 1 THEN (k - 1) - 1 + 1 ELSE 0
        /\ \A i \in 1..(k - 1) - 1 + 1 : a[i] = s[1 + i - 1]
    BY <1>1, <2>1, SubSeqProperties
  <2>3. \A i \in 1..k - 1 : i \in 1..(k - 1) - 1 + 1 /\ 1 + i - 1 = i
    BY <1>1
  <2> QED
    BY <1>1, <2>2, <2>3
<1>3. /\ c \in Seq(S) /\ Len(c) = (Len(s) + 1) - k
      /\ \A i \in 1..(Len(s) + 1) - k : c[i] = s[k + i - 1]
  <2>1. \A i \in k..Len(s) : i \in 1..Len(s) /\ s[i] \in S
    BY <1>1
  <2>2. /\ c \in Seq(S) /\ Len(c) = IF k <= Len(s) THEN Len(s) - k + 1 ELSE 0
        /\ \A i \in 1..Len(s) - k + 1 : c[i] = s[k + i - 1]
    BY <1>1, <2>1, SubSeqProperties
  <2>3. Len(s) - k + 1 = (Len(s) + 1) - k
    BY <1>1
  <2> QED
    BY <1>1, <2>2, <2>3
<1>4. <<n>> \in Seq(S) /\ Len(<<n>>) = 1 /\ <<n>>[1] = n
  OBVIOUS
<1> HIDE DEF a, c
<1>5. /\ b \in Seq(S) /\ Len(b) = k
      /\ \A i \in 1..k : b[i] = IF i < k THEN s[i] ELSE n
  <2>1. /\ b \in Seq(S) /\ Len(b) = Len(a) + 1
        /\ \A i \in 1..Len(a) + 1 : b[i] = IF i <= Len(a) THEN a[i] ELSE <<n>>[i - Len(a)]
    BY <1>2, <1>4, ConcatProperties
  <2>2. Len(b) = k /\ Len(a) + 1 = k
    BY <1>1, <1>2, <2>1
  <2>3. ASSUME NEW i \in 1..k PROVE b[i] = IF i < k THEN s[i] ELSE n
    <3>1. CASE i < k
      <4>1. i \in 1..k - 1 /\ i <= Len(a) /\ i \in 1..Len(a) + 1
        BY <1>1, <1>2, <3>1
      <4> QED
        BY <1>2, <2>1, <3>1, <4>1
    <3>2. CASE ~(i < k)
      <4>1. ~(i <= Len(a)) /\ i - Len(a) = 1 /\ i \in 1..Len(a) + 1
        BY <1>1, <1>2, <3>2
      <4> QED
        BY <1>4, <2>1, <3>2, <4>1
    <3> QED
      BY <3>1, <3>2
  <2> QED
    BY <2>1, <2>2, <2>3
<1> HIDE DEF b
<1>6. InsertAt(s, k, n) = b \o c
  BY DEF InsertAt, a, b, c
<1>7. /\ b \o c \in Seq(S) /\ Len(b \o c) = Len(b) + Len(c)
      /\ \A i \in 1..Len(b) + Len(c) :
           (b \o c)[i] = IF i <= Len(b) THEN b[i] ELSE c[i - Len(b)]
  BY <1>3, <1>5, ConcatProperties
<1>8. Len(b) + Len(c) = Len(s) + 1
  BY <1>1, <1>3, <1>5
<1>9. ASSUME NEW i \in 1..Len(s) + 1
      PROVE  (b \o c)[i] = IF i < k THEN s[i] ELSE IF i = k THEN n ELSE s[i - 1]
  <2>1. CASE i <= k
    <3>1. i \in 1..k /\ i <= Len(b)
      BY <1>1, <1>5, <2>1
    <3> QED
      BY <1>1, <1>5, <1>7, <1>8, <2>1, <3>1
  <2>2. CASE ~(i <= k)
    <3>1. ~(i <= Len(b)) /\ i - k \in 1..(Len(s) + 1) - k /\ k + (i - k) - 1 = i - 1
          /\ i - Len(b) = i - k
      BY <1>1, <1>5, <2>2
    <3>2. (b \o c)[i] = c[i - k]
      BY <1>7, <1>8, <3>1
    <3>3. c[i - k] = s[i - 1]
      BY <1>3, <3>1
    <3> QED
      BY <1>1, <2>2, <3>2, <3>3
  <2> QED
    BY <2>1, <2>2
<1> QED
  BY <1>6, <1>7, <1>8, <1>9

\* The stores of listAddNode and listInsertNode make a list with n as its k-th node.
LEMMA Inserted ==
  ASSUME NEW hd, NEW tl, NEW nx, NEW pv, NEW s, IsList(hd, tl, nx, pv, s), Distinct(s),
         NEW n \in Nodes \ Elems(s), NEW k \in 1..Len(s) + 1
  PROVE  LET t == InsertAt(s, k, n) IN
         /\ IsList(IF k = 1 THEN n ELSE hd, IF k = Len(s) + 1 THEN n ELSE tl,
                   Write(Write(nx, n, At(s, k)), At(s, k - 1), n),
                   Write(Write(pv, n, At(s, k - 1)), At(s, k), n), t)
         /\ Distinct(t) /\ Elems(t) = Elems(s) \union {n} /\ Len(t) = Len(s) + 1
<1> DEFINE t == InsertAt(s, k, n)
           L == Len(s)
<1>1. s \in Seq(Nodes) /\ L \in Nat /\ k \in Nat /\ k >= 1 /\ k <= L + 1
      /\ \A i \in 1..L : s[i] \in Nodes /\ s[i] # Null /\ s[i] # n
  BY NodeIs DEF IsList, Elems
<1>2. /\ t \in Seq(Nodes) /\ Len(t) = L + 1
      /\ \A i \in 1..L + 1 : t[i] = IF i < k THEN s[i] ELSE IF i = k THEN n ELSE s[i - 1]
  BY <1>1, InsertAtIs
<1> HIDE DEF t
<1>3. \A i, j \in 1..L : s[i] = s[j] => i = j
  BY DEF Distinct
<1>4. Distinct(t)
  <2>1. ASSUME NEW i \in 1..L + 1, NEW j \in 1..L + 1, t[i] = t[j], i < j PROVE FALSE
    <3>1. CASE j < k
      <4>1. i \in 1..L /\ j \in 1..L /\ i # j /\ t[i] = s[i] /\ t[j] = s[j]
        BY <1>1, <1>2, <2>1, <3>1
      <4> QED
        BY <1>3, <2>1, <4>1
    <3>2. CASE j = k
      <4>1. i \in 1..L /\ t[i] = s[i] /\ t[j] = n
        BY <1>1, <1>2, <2>1, <3>2
      <4> QED
        BY <1>1, <2>1, <4>1
    <3>3. CASE j > k /\ i < k
      <4>1. i \in 1..L /\ j - 1 \in 1..L /\ i # j - 1 /\ t[i] = s[i] /\ t[j] = s[j - 1]
        BY <1>1, <1>2, <2>1, <3>3
      <4>2. s[i] = s[j - 1]
        BY <2>1, <4>1
      <4> QED
        BY <1>3, <4>1, <4>2, Zenon
    <3>4. CASE j > k /\ i = k
      <4>1. j - 1 \in 1..L /\ t[i] = n /\ t[j] = s[j - 1]
        BY <1>1, <1>2, <2>1, <3>4
      <4> QED
        BY <1>1, <2>1, <4>1
    <3>5. CASE j > k /\ i > k
      <4>1. /\ i - 1 \in 1..L /\ j - 1 \in 1..L /\ i - 1 # j - 1
            /\ t[i] = s[i - 1] /\ t[j] = s[j - 1]
        BY <1>1, <1>2, <2>1, <3>5
      <4> QED
        BY <1>3, <2>1, <4>1
    <3> QED
      BY <1>1, <2>1, <3>1, <3>2, <3>3, <3>4, <3>5
  <2>2. \A i, j \in 1..L + 1 : i < j \/ j < i \/ i = j
    BY <1>1
  <2> QED
    BY <1>2, <2>1, <2>2 DEF Distinct
<1>5. Elems(t) = Elems(s) \union {n}
  <2>1. ASSUME NEW i \in 1..L + 1 PROVE t[i] \in Elems(s) \union {n}
    <3>1. i < k => i \in 1..L
      BY <1>1
    <3>2. i > k => i - 1 \in 1..L
      BY <1>1
    <3> QED
      BY <1>1, <1>2, <3>1, <3>2 DEF Elems
  <2>2. ASSUME NEW i \in 1..L PROVE \E j \in 1..L + 1 : t[j] = s[i]
    <3>1. CASE i < k
      <4>1. i \in 1..L + 1 /\ t[i] = s[i]
        BY <1>1, <1>2, <3>1
      <4> QED
        BY <4>1
    <3>2. CASE ~(i < k)
      <4>1. i + 1 \in 1..L + 1 /\ ~(i + 1 < k) /\ i + 1 # k /\ (i + 1) - 1 = i
        BY <1>1, <3>2
      <4>2. t[i + 1] = s[i]
        BY <1>2, <4>1
      <4> QED
        BY <4>1, <4>2
    <3> QED
      BY <3>1, <3>2
  <2>3. k \in 1..L + 1 /\ t[k] = n
    BY <1>1, <1>2
  <2>4. Elems(t) = {t[i] : i \in 1..L + 1} /\ Elems(s) = {s[i] : i \in 1..L}
    BY <1>2 DEF Elems
  <2>5. Elems(t) \subseteq Elems(s) \union {n}
    BY <2>1, <2>4
  <2>6. Elems(s) \subseteq Elems(t) /\ n \in Elems(t)
    BY <2>2, <2>3, <2>4
  <2> QED
    BY <2>5, <2>6
<1> DEFINE p == At(s, k - 1)
           q == At(s, k)
           nx2 == Write(Write(nx, n, q), p, n)
           pv2 == Write(Write(pv, n, p), q, n)
<1>6. \A m \in Nodes : /\ nx2[m] = IF m = p THEN n ELSE IF m = n THEN q ELSE nx[m]
                       /\ pv2[m] = IF m = q THEN n ELSE IF m = n THEN p ELSE pv[m]
  BY WriteIs
<1>7. /\ p = IF k > 1 THEN s[k - 1] ELSE Null
      /\ q = IF k <= L THEN s[k] ELSE Null
      /\ p # n /\ q # n
  <2>1. k > 1 => k - 1 \in 1..L
    BY <1>1
  <2>2. k <= L => k \in 1..L
    BY <1>1
  <2>3. ~(k > 1) => k - 1 \notin 1..L
    BY <1>1
  <2>4. ~(k <= L) => k \notin 1..L
    BY <1>1
  <2>5. n # Null
    BY NullAssumption
  <2> QED
    BY <1>1, <2>1, <2>2, <2>3, <2>4, <2>5 DEF At
<1> HIDE DEF p, q, nx2, pv2
<1>8. \A i \in 1..L : nx[s[i]] = At(s, i + 1) /\ pv[s[i]] = At(s, i - 1)
  BY DEF IsList
<1>9. ASSUME NEW i \in 1..L + 1 PROVE nx2[t[i]] = At(t, i + 1)
  <2>1. At(t, i + 1) = IF i = L + 1 THEN Null
                       ELSE IF i + 1 < k THEN s[i + 1] ELSE IF i + 1 = k THEN n ELSE s[i]
    <3>1. CASE i = L + 1
      <4>1. i + 1 \notin 1..L + 1
        BY <1>1, <3>1
      <4> QED
        BY <1>2, <3>1, <4>1 DEF At
    <3>2. CASE i # L + 1
      <4>1. i + 1 \in 1..L + 1 /\ (i + 1) - 1 = i
        BY <1>1, <3>2
      <4> QED
        BY <1>2, <3>2, <4>1 DEF At
    <3> QED
      BY <3>1, <3>2
  <2>2. CASE i < k
    <3>1. t[i] = s[i] /\ i \in 1..L /\ s[i] \in Nodes /\ s[i] # n
      BY <1>1, <1>2, <2>2
    <3>2. CASE i = k - 1
      <4>1. s[i] = p /\ i + 1 = k /\ i # L + 1
        BY <1>1, <1>7, <2>2, <3>2
      <4> QED
        BY <1>6, <2>1, <3>1, <4>1
    <3>3. CASE i # k - 1
      <4>1. s[i] # p
        <5>1. k > 1 => k - 1 \in 1..L
          BY <1>1
        <5> QED
          BY <1>1, <1>3, <1>7, <3>1, <3>3, <5>1
      <4>2. i + 1 < k /\ i # L + 1 /\ i + 1 \in 1..L
        BY <1>1, <2>2, <3>3
      <4>3. nx2[s[i]] = s[i + 1]
        BY <1>6, <1>8, <3>1, <4>1, <4>2 DEF At
      <4> QED
        BY <2>1, <3>1, <4>2, <4>3
    <3> QED
      BY <3>2, <3>3
  <2>3. CASE i = k
    <3>1. nx2[t[i]] = q
      BY <1>2, <1>6, <1>7, <2>3
    <3>2. ~(k <= L) <=> i = L + 1
      BY <1>1, <2>3
    <3>3. ~(i + 1 < k) /\ i + 1 # k
      BY <1>1, <2>3
    <3> QED
      BY <1>7, <2>1, <2>3, <3>1, <3>2, <3>3
  <2>4. CASE i > k
    <3>1. t[i] = s[i - 1] /\ i - 1 \in 1..L /\ s[i - 1] \in Nodes /\ s[i - 1] # n
          /\ (i - 1) + 1 = i
      BY <1>1, <1>2, <2>4
    <3>2. s[i - 1] # p
      <4>1. k > 1 => k - 1 \in 1..L /\ k - 1 # i - 1
        BY <1>1, <2>4
      <4> QED
        BY <1>1, <1>3, <1>7, <3>1, <4>1
    <3>3. nx2[s[i - 1]] = At(s, i)
      BY <1>6, <1>8, <3>1, <3>2
    <3>4. ~(i + 1 < k) /\ i + 1 # k /\ (i = L + 1 <=> i \notin 1..L)
      BY <1>1, <2>4
    <3> QED
      BY <2>1, <3>1, <3>3, <3>4 DEF At
  <2> QED
    BY <1>1, <2>2, <2>3, <2>4
<1>10. ASSUME NEW i \in 1..L + 1 PROVE pv2[t[i]] = At(t, i - 1)
  <2>1. At(t, i - 1) = IF i = 1 THEN Null
                       ELSE IF i - 1 < k THEN s[i - 1] ELSE IF i - 1 = k THEN n ELSE s[i - 2]
    <3>1. CASE i = 1
      <4>1. i - 1 \notin 1..L + 1
        BY <1>1, <3>1
      <4> QED
        BY <1>2, <3>1, <4>1 DEF At
    <3>2. CASE i # 1
      <4>1. i - 1 \in 1..L + 1 /\ (i - 1) - 1 = i - 2
        BY <1>1, <3>2
      <4> QED
        BY <1>2, <3>2, <4>1 DEF At
    <3> QED
      BY <3>1, <3>2
  <2>2. CASE i < k
    <3>1. t[i] = s[i] /\ i \in 1..L /\ s[i] \in Nodes /\ s[i] # n
      BY <1>1, <1>2, <2>2
    <3>2. s[i] # q
      <4>1. k <= L => k \in 1..L /\ k # i
        BY <1>1, <2>2
      <4> QED
        BY <1>1, <1>3, <1>7, <3>1, <4>1
    <3>3. pv2[s[i]] = At(s, i - 1)
      BY <1>6, <1>8, <3>1, <3>2
    <3>4. i - 1 < k /\ (i = 1 <=> i - 1 \notin 1..L)
      BY <1>1, <2>2, <3>1
    <3> QED
      BY <2>1, <3>1, <3>3, <3>4 DEF At
  <2>3. CASE i = k
    <3>1. pv2[t[i]] = p
      BY <1>2, <1>6, <1>7, <2>3
    <3>2. (~(k > 1) <=> i = 1) /\ i - 1 < k
      BY <1>1, <2>3
    <3> QED
      BY <1>7, <2>1, <2>3, <3>1, <3>2
  <2>4. CASE i > k
    <3>1. t[i] = s[i - 1] /\ i - 1 \in 1..L /\ s[i - 1] \in Nodes /\ s[i - 1] # n
          /\ (i - 1) - 1 = i - 2
      BY <1>1, <1>2, <2>4
    <3>2. CASE i = k + 1
      <4>1. s[i - 1] = q /\ ~(i - 1 < k) /\ i - 1 = k /\ i # 1
        BY <1>1, <1>7, <3>1, <3>2
      <4> QED
        BY <1>6, <2>1, <3>1, <4>1
    <3>3. CASE i # k + 1
      <4>1. s[i - 1] # q
        <5>1. k <= L => k \in 1..L /\ k # i - 1
          BY <1>1, <2>4, <3>3
        <5> QED
          BY <1>1, <1>3, <1>7, <3>1, <5>1
      <4>2. ~(i - 1 < k) /\ i - 1 # k /\ i # 1 /\ i - 2 \in 1..L
        BY <1>1, <2>4, <3>3
      <4>3. pv2[s[i - 1]] = s[i - 2]
        BY <1>6, <1>8, <3>1, <4>1, <4>2 DEF At
      <4> QED
        BY <2>1, <3>1, <4>2, <4>3
    <3> QED
      BY <3>2, <3>3
  <2> QED
    BY <1>1, <2>2, <2>3, <2>4
<1>11. (IF k = 1 THEN n ELSE hd) = At(t, 1)
  <2>1. 1 \in 1..L + 1 /\ At(t, 1) = t[1]
    BY <1>1, <1>2 DEF At
  <2>2. CASE k = 1
    BY <1>2, <2>1, <2>2
  <2>3. CASE k # 1
    <3>1. 1 < k /\ 1 \in 1..L
      BY <1>1, <2>3
    <3> QED
      BY <1>2, <2>1, <2>3, <3>1 DEF IsList, At
  <2> QED
    BY <2>2, <2>3
<1>12. (IF k = L + 1 THEN n ELSE tl) = At(t, Len(t))
  <2>1. L + 1 \in 1..L + 1 /\ At(t, Len(t)) = t[L + 1] /\ (L + 1) - 1 = L
    BY <1>1, <1>2 DEF At
  <2>2. CASE k = L + 1
    <3>1. ~(L + 1 < k)
      BY <1>1, <2>2
    <3> QED
      BY <1>2, <2>1, <2>2, <3>1
  <2>3. CASE k # L + 1
    <3>1. ~(L + 1 < k) /\ L + 1 # k /\ L \in 1..L
      BY <1>1, <2>3
    <3> QED
      BY <1>2, <2>1, <2>3, <3>1 DEF IsList, At
  <2> QED
    BY <2>2, <2>3
<1>13. IsList(IF k = 1 THEN n ELSE hd, IF k = L + 1 THEN n ELSE tl, nx2, pv2, t)
  BY <1>2, <1>9, <1>10, <1>11, <1>12 DEF IsList
<1> QED
  BY <1>2, <1>4, <1>5, <1>13 DEF t, nx2, pv2, p, q

-----------------------------------------------------------------------------
(* Taking a node out of a chain *)

\* A node is at one place only.
LEMMA AtIs ==
  ASSUME NEW s \in Seq(Nodes), Distinct(s)
  PROVE  /\ \A j \in Int : At(s, j) # Null <=> j \in 1..Len(s)
         /\ \A i \in 1..Len(s), j \in Int : s[i] = At(s, j) <=> i = j
<1>1. Len(s) \in Nat /\ \A i \in 1..Len(s) : s[i] # Null /\ At(s, i) = s[i]
  BY NodeIs
<1>2. \A j \in Int : j \notin 1..Len(s) => At(s, j) = Null
  BY DEF At
<1>3. \A i, j \in 1..Len(s) : s[i] = s[j] => i = j
  BY DEF Distinct
<1>4. ASSUME NEW i \in 1..Len(s), NEW j \in Int PROVE s[i] = At(s, j) <=> i = j
  <2>1. CASE j \in 1..Len(s)
    BY <1>1, <1>3, <2>1
  <2>2. CASE j \notin 1..Len(s)
    <3>1. s[i] # At(s, j) /\ i # j
      BY <1>1, <1>2, <2>2
    <3> QED
      BY <3>1
  <2> QED
    BY <2>1, <2>2
<1> QED
  BY <1>1, <1>2, <1>4

\* The elements after a removal.
LEMMA RemoveAtIs ==
  ASSUME NEW S, NEW s \in Seq(S), NEW k \in 1..Len(s)
  PROVE  /\ RemoveAt(s, k) \in Seq(S) /\ Len(RemoveAt(s, k)) = Len(s) - 1
         /\ \A i \in 1..Len(s) - 1 :
              RemoveAt(s, k)[i] = IF i < k THEN s[i] ELSE s[i + 1]
<1> DEFINE a == SubSeq(s, 1, k - 1)
           c == SubSeq(s, k + 1, Len(s))
<1>1. Len(s) \in Nat /\ k \in Int /\ k - 1 \in Int /\ k + 1 \in Int /\ Len(s) \in Int /\ 1 \in Int
      /\ \A i \in 1..Len(s) : s[i] \in S
  BY LenProperties, ElementOfSeq
<1>2. /\ a \in Seq(S) /\ Len(a) = k - 1 /\ \A i \in 1..k - 1 : a[i] = s[i]
  <2>1. \A i \in 1..k - 1 : i \in 1..Len(s) /\ s[i] \in S
    BY <1>1
  <2>2. /\ a \in Seq(S) /\ Len(a) = IF 1 <= k - 1 THEN (k - 1) - 1 + 1 ELSE 0
        /\ \A i \in 1..(k - 1) - 1 + 1 : a[i] = s[1 + i - 1]
    BY <1>1, <2>1, SubSeqProperties
  <2>3. \A i \in 1..k - 1 : i \in 1..(k - 1) - 1 + 1 /\ 1 + i - 1 = i
    BY <1>1
  <2> QED
    BY <1>1, <2>2, <2>3
<1>3. /\ c \in Seq(S) /\ Len(c) = Len(s) - k
      /\ \A i \in 1..Len(s) - k : c[i] = s[k + i]
  <2>1. \A i \in k + 1..Len(s) : i \in 1..Len(s) /\ s[i] \in S
    BY <1>1
  <2>2. /\ c \in Seq(S) /\ Len(c) = IF k + 1 <= Len(s) THEN Len(s) - (k + 1) + 1 ELSE 0
        /\ \A i \in 1..Len(s) - (k + 1) + 1 : c[i] = s[(k + 1) + i - 1]
    BY <1>1, <2>1, SubSeqProperties
  <2>3. Len(s) - (k + 1) + 1 = Len(s) - k
    BY <1>1
  <2>4. ASSUME NEW i \in 1..Len(s) - k PROVE c[i] = s[k + i]
    <3>1. (k + 1) + i - 1 = k + i /\ i \in 1..Len(s) - (k + 1) + 1
      BY <1>1, <2>3
    <3>2. c[i] = s[(k + 1) + i - 1]
      BY <2>2, <3>1
    <3> QED
      BY <3>1, <3>2
  <2>5. Len(c) = Len(s) - k
    <3>1. IF k + 1 <= Len(s) THEN Len(s) - (k + 1) + 1 = Len(s) - k ELSE 0 = Len(s) - k
      BY <1>1
    <3> QED
      BY <2>2, <3>1
  <2> QED
    BY <2>2, <2>4, <2>5
<1> HIDE DEF a, c
<1>4. RemoveAt(s, k) = a \o c
  BY DEF RemoveAt, a, c
<1>5. /\ a \o c \in Seq(S) /\ Len(a \o c) = Len(a) + Len(c)
      /\ \A i \in 1..Len(a) + Len(c) :
           (a \o c)[i] = IF i <= Len(a) THEN a[i] ELSE c[i - Len(a)]
  BY <1>2, <1>3, ConcatProperties
<1>6. Len(a) + Len(c) = Len(s) - 1
  BY <1>1, <1>2, <1>3
<1>7. ASSUME NEW i \in 1..Len(s) - 1
      PROVE  (a \o c)[i] = IF i < k THEN s[i] ELSE s[i + 1]
  <2>1. CASE i < k
    <3>1. i \in 1..k - 1 /\ i <= Len(a)
      BY <1>1, <1>2, <2>1
    <3> QED
      BY <1>2, <1>5, <1>6, <2>1, <3>1
  <2>2. CASE ~(i < k)
    <3>1. ~(i <= Len(a)) /\ i - (k - 1) \in 1..Len(s) - k /\ k + (i - (k - 1)) = i + 1
      BY <1>1, <1>2, <2>2
    <3>2. (a \o c)[i] = c[i - (k - 1)]
      BY <1>2, <1>5, <1>6, <3>1
    <3>3. c[i - (k - 1)] = s[i + 1]
      BY <1>3, <3>1
    <3> QED
      BY <2>2, <3>2, <3>3
  <2> QED
    BY <2>1, <2>2
<1> QED
  BY <1>4, <1>5, <1>6, <1>7

\* One node is gone, the others stay.
LEMMA RemovedElems ==
  ASSUME NEW s \in Seq(Nodes), Distinct(s), NEW k \in 1..Len(s)
  PROVE  Elems(RemoveAt(s, k)) = Elems(s) \ {s[k]}
<1> DEFINE t == RemoveAt(s, k)
           L == Len(s)
           n == s[k]
<1>1. L \in Nat /\ k >= 1 /\ k <= L /\ \A i, j \in 1..L : s[i] = s[j] => i = j
  BY NodeIs DEF Distinct
<1>2. Len(t) = L - 1 /\ \A i \in 1..L - 1 : t[i] = IF i < k THEN s[i] ELSE s[i + 1]
  BY RemoveAtIs
<1> HIDE DEF t
<1>3. Elems(t) = {t[i] : i \in 1..L - 1} /\ Elems(s) = {s[i] : i \in 1..L}
  BY <1>2 DEF Elems
<1>4. ASSUME NEW i \in 1..L - 1 PROVE t[i] \in Elems(s) /\ t[i] # n
  <2> DEFINE a == IF i < k THEN i ELSE i + 1
  <2>1. a \in 1..L /\ a # k /\ k \in 1..L
    BY <1>1
  <2>2. t[i] = s[a]
    BY <1>2
  <2> HIDE DEF a
  <2> QED
    BY <1>1, <1>3, <2>1, <2>2
<1>5. ASSUME NEW i \in 1..L, s[i] # n PROVE \E j \in 1..L - 1 : t[j] = s[i]
  <2>1. CASE i < k
    <3>1. i \in 1..L - 1 /\ t[i] = s[i]
      BY <1>1, <1>2, <2>1
    <3> QED
      BY <3>1
  <2>2. CASE ~(i < k)
    <3>1. i - 1 \in 1..L - 1 /\ ~(i - 1 < k) /\ (i - 1) + 1 = i
      BY <1>1, <1>5, <2>2
    <3>2. t[i - 1] = s[i]
      BY <1>2, <3>1
    <3> QED
      BY <3>1, <3>2
  <2> QED
    BY <2>1, <2>2
<1>6. Elems(t) \subseteq Elems(s) \ {n}
  BY <1>3, <1>4
<1>7. Elems(s) \ {n} \subseteq Elems(t)
  BY <1>3, <1>5
<1> QED
  BY <1>6, <1>7 DEF t

\* The stores of listDelNode make a list without its k-th node.
LEMMA Deleted ==
  ASSUME NEW hd, NEW tl, NEW nx, NEW pv, NEW s, IsList(hd, tl, nx, pv, s), Distinct(s),
         NEW k \in 1..Len(s)
  PROVE  LET t == RemoveAt(s, k)
             n == s[k]
             p == At(s, k - 1)
             q == At(s, k + 1) IN
         /\ IsList(IF p = Null THEN q ELSE hd, IF q = Null THEN p ELSE tl,
                   Clear({n}, Write(nx, p, q)), Clear({n}, Write(pv, q, p)), t)
         /\ Distinct(t) /\ Elems(t) = Elems(s) \ {n} /\ Len(t) = Len(s) - 1
<1> DEFINE t == RemoveAt(s, k)
           L == Len(s)
           n == s[k]
           p == At(s, k - 1)
           q == At(s, k + 1)
           nx2 == Clear({n}, Write(nx, p, q))
           pv2 == Clear({n}, Write(pv, q, p))
<1>1. s \in Seq(Nodes) /\ L \in Nat /\ k \in Nat /\ k >= 1 /\ k <= L
      /\ \A i \in 1..L : s[i] \in Nodes /\ At(s, i) = s[i]
  BY NodeIs DEF IsList
<1>2. /\ t \in Seq(Nodes) /\ Len(t) = L - 1
      /\ \A i \in 1..L - 1 : t[i] = IF i < k THEN s[i] ELSE s[i + 1]
  BY <1>1, RemoveAtIs
<1>3. /\ \A i, j \in 1..L : s[i] = s[j] => i = j
      /\ \A j \in Int : At(s, j) # Null <=> j \in 1..L
      /\ \A i \in 1..L, j \in Int : s[i] = At(s, j) <=> i = j
  <2>1. \A i, j \in 1..L : s[i] = s[j] => i = j
    BY DEF Distinct
  <2> QED
    BY <1>1, <2>1, AtIs
<1>4. \A m \in Nodes : /\ nx2[m] = IF m = n THEN Null ELSE IF m = p THEN q ELSE nx[m]
                       /\ pv2[m] = IF m = n THEN Null ELSE IF m = q THEN p ELSE pv[m]
  BY WriteIs, ClearIs
<1>5. \A i \in 1..L : nx[s[i]] = At(s, i + 1) /\ pv[s[i]] = At(s, i - 1)
  BY DEF IsList
<1>6. hd = At(s, 1) /\ tl = At(s, L)
  BY DEF IsList
<1> HIDE DEF t, p, q, n, nx2, pv2
<1>7. n = s[k] /\ p = At(s, k - 1) /\ q = At(s, k + 1)
  BY DEF n, p, q
<1>8. \A j \in Int : At(t, j) = IF j < k THEN At(s, j) ELSE At(s, j + 1)
  <2>1. ASSUME NEW j \in Int PROVE At(t, j) = IF j < k THEN At(s, j) ELSE At(s, j + 1)
    <3>1. CASE j \in 1..L - 1
      <4>1. At(t, j) = t[j] /\ j \in 1..L /\ j + 1 \in 1..L
        BY <1>1, <1>2, <3>1 DEF At
      <4> QED
        BY <1>1, <1>2, <3>1, <4>1
    <3>2. CASE j \notin 1..L - 1
      <4>1. At(t, j) = Null
        BY <1>1, <1>2, <3>2 DEF At
      <4>2. (j < k => j \notin 1..L) /\ (~(j < k) => j + 1 \notin 1..L)
        BY <1>1, <3>2
      <4> QED
        BY <4>1, <4>2 DEF At
    <3> QED
      BY <3>1, <3>2
  <2> QED
    BY <2>1
<1>9. ASSUME NEW i \in 1..L - 1
      PROVE  nx2[t[i]] = At(t, i + 1) /\ pv2[t[i]] = At(t, i - 1)
  <2>1. CASE i < k
    <3>1. t[i] = s[i] /\ i \in 1..L /\ s[i] \in Nodes /\ i # k /\ i # k + 1
          /\ k - 1 \in Int /\ k + 1 \in Int /\ k \in 1..L
      BY <1>1, <1>2, <2>1
    <3>2. s[i] # n /\ s[i] # q /\ (s[i] = p <=> i = k - 1)
      BY <1>3, <1>7, <3>1
    <3>3. pv2[t[i]] = At(s, i - 1) /\ nx2[t[i]] = IF i = k - 1 THEN q ELSE At(s, i + 1)
      BY <1>4, <1>5, <3>1, <3>2
    <3>4. At(t, i - 1) = At(s, i - 1)
      BY <1>1, <1>8, <2>1
    <3>5. CASE i = k - 1
      <4>1. At(t, i + 1) = At(s, k + 1)
        BY <1>1, <1>8, <3>5
      <4> QED
        BY <1>7, <3>3, <3>4, <3>5, <4>1
    <3>6. CASE i # k - 1
      <4>1. At(t, i + 1) = At(s, i + 1)
        BY <1>1, <1>8, <2>1, <3>6
      <4> QED
        BY <3>3, <3>4, <3>6, <4>1
    <3> QED
      BY <3>5, <3>6
  <2>2. CASE ~(i < k)
    <3>1. t[i] = s[i + 1] /\ i + 1 \in 1..L /\ s[i + 1] \in Nodes /\ i + 1 # k /\ i + 1 # k - 1
          /\ k - 1 \in Int /\ k + 1 \in Int /\ k \in 1..L /\ (i + 1) - 1 = i
      BY <1>1, <1>2, <2>2
    <3>2. s[i + 1] # n /\ s[i + 1] # p /\ (s[i + 1] = q <=> i + 1 = k + 1)
      BY <1>3, <1>7, <3>1
    <3>3. nx2[t[i]] = At(s, (i + 1) + 1) /\ pv2[t[i]] = IF i + 1 = k + 1 THEN p ELSE At(s, i)
      BY <1>4, <1>5, <3>1, <3>2
    <3>4. At(t, i + 1) = At(s, (i + 1) + 1)
      BY <1>1, <1>8, <2>2
    <3>5. CASE i = k
      <4>1. At(t, i - 1) = At(s, k - 1)
        BY <1>1, <1>8, <3>5
      <4> QED
        BY <1>7, <3>3, <3>4, <3>5, <4>1
    <3>6. CASE i # k
      <4>1. ~(i - 1 < k) /\ (i - 1) + 1 = i /\ i - 1 \in Int /\ i + 1 # k + 1
        BY <1>1, <2>2, <3>6
      <4>2. At(t, i - 1) = At(s, i)
        BY <1>8, <4>1
      <4> QED
        BY <3>3, <3>4, <4>1, <4>2
    <3> QED
      BY <3>5, <3>6
  <2> QED
    BY <2>1, <2>2
<1>10. (IF p = Null THEN q ELSE hd) = At(t, 1)
  <2>1. p = Null <=> k = 1
    BY <1>1, <1>3, <1>7
  <2>2. At(t, 1) = IF 1 < k THEN At(s, 1) ELSE At(s, 1 + 1)
    BY <1>8
  <2>3. 1 < k <=> k # 1
    BY <1>1
  <2> QED
    BY <1>6, <1>7, <2>1, <2>2, <2>3
<1>11. (IF q = Null THEN p ELSE tl) = At(t, Len(t))
  <2>1. q = Null <=> k = L
    BY <1>1, <1>3, <1>7
  <2>2. At(t, L - 1) = IF L - 1 < k THEN At(s, L - 1) ELSE At(s, (L - 1) + 1)
    BY <1>1, <1>8
  <2>3. (L - 1 < k <=> k = L) /\ (L - 1) + 1 = L
    BY <1>1
  <2> QED
    BY <1>2, <1>6, <1>7, <2>1, <2>2, <2>3
<1>12. Distinct(t)
  <2>1. ASSUME NEW i \in 1..L - 1, NEW j \in 1..L - 1, t[i] = t[j] PROVE i = j
    <3> DEFINE a == IF i < k THEN i ELSE i + 1
               b == IF j < k THEN j ELSE j + 1
    <3>1. a \in 1..L /\ b \in 1..L /\ (a = b => i = j)
      BY <1>1
    <3>2. t[i] = s[a] /\ t[j] = s[b]
      BY <1>2
    <3> HIDE DEF a, b
    <3> QED
      BY <1>3, <2>1, <3>1, <3>2
  <2> QED
    BY <1>2, <2>1 DEF Distinct
<1>13. Elems(t) = Elems(s) \ {n}
  BY <1>1, <1>7, RemovedElems DEF t
<1>14. IsList(IF p = Null THEN q ELSE hd, IF q = Null THEN p ELSE tl, nx2, pv2, t)
  BY <1>2, <1>9, <1>10, <1>11 DEF IsList
<1> QED
  BY <1>2, <1>12, <1>13, <1>14 DEF t, p, q, n, nx2, pv2

-----------------------------------------------------------------------------
(* Turning and joining chains *)

\* The last node moved to the front.
Rotation(s) == <<s[Len(s)]>> \o SubSeq(s, 1, Len(s) - 1)

\* The elements after a rotation.
LEMMA RotationIs ==
  ASSUME NEW S, NEW s \in Seq(S), Len(s) > 0
  PROVE  /\ Rotation(s) \in Seq(S) /\ Len(Rotation(s)) = Len(s)
         /\ \A i \in 1..Len(s) :
              Rotation(s)[i] = IF i = 1 THEN s[Len(s)] ELSE s[i - 1]
<1> DEFINE a == <<s[Len(s)]>>
           c == SubSeq(s, 1, Len(s) - 1)
<1>1. Len(s) \in Nat /\ Len(s) >= 1 /\ Len(s) - 1 \in Int /\ 1 \in Int /\ \A i \in 1..Len(s) : s[i] \in S
  BY LenProperties, ElementOfSeq
<1>2. a \in Seq(S) /\ Len(a) = 1 /\ a[1] = s[Len(s)]
  <2>1. s[Len(s)] \in S
    BY <1>1
  <2> QED
    BY <2>1
<1>3. /\ c \in Seq(S) /\ Len(c) = Len(s) - 1
      /\ \A i \in 1..Len(s) - 1 : c[i] = s[i]
  <2>1. \A i \in 1..Len(s) - 1 : i \in 1..Len(s) /\ s[i] \in S
    BY <1>1
  <2>2. /\ c \in Seq(S) /\ Len(c) = IF 1 <= Len(s) - 1 THEN (Len(s) - 1) - 1 + 1 ELSE 0
        /\ \A i \in 1..(Len(s) - 1) - 1 + 1 : c[i] = s[1 + i - 1]
    BY <1>1, <2>1, SubSeqProperties
  <2>3. \A i \in 1..Len(s) - 1 : i \in 1..(Len(s) - 1) - 1 + 1 /\ 1 + i - 1 = i
    BY <1>1
  <2>4. Len(c) = Len(s) - 1
    <3>1. CASE Len(s) = 1
      <4>1. ~(1 <= Len(s) - 1) /\ Len(s) - 1 = 0
        BY <3>1
      <4> QED
        BY <2>2, <4>1
    <3>2. CASE Len(s) # 1
      <4>1. 1 <= Len(s) - 1 /\ (Len(s) - 1) - 1 + 1 = Len(s) - 1
        BY <1>1, <3>2
      <4> QED
        BY <2>2, <4>1
    <3> QED
      BY <3>1, <3>2
  <2> QED
    BY <2>2, <2>3, <2>4
<1> HIDE DEF a, c
<1>4. /\ a \o c \in Seq(S) /\ Len(a \o c) = Len(a) + Len(c)
      /\ \A i \in 1..Len(a) + Len(c) :
           (a \o c)[i] = IF i <= Len(a) THEN a[i] ELSE c[i - Len(a)]
  BY <1>2, <1>3, ConcatProperties
<1>5. Len(a) + Len(c) = Len(s)
  BY <1>1, <1>2, <1>3
<1>6. ASSUME NEW i \in 1..Len(s) PROVE (a \o c)[i] = IF i = 1 THEN s[Len(s)] ELSE s[i - 1]
  <2>1. CASE i = 1
    BY <1>2, <1>4, <1>5, <2>1
  <2>2. CASE i # 1
    <3>1. ~(i <= 1) /\ i - 1 \in 1..Len(s) - 1
      BY <1>1, <2>2
    <3> QED
      BY <1>2, <1>3, <1>4, <1>5, <2>2, <3>1
  <2> QED
    BY <2>1, <2>2
<1>7. Rotation(s) = a \o c
  BY DEF Rotation, a, c
<1> QED
  BY <1>4, <1>5, <1>6, <1>7

\* The stores of listRotate make the rotated list.
LEMMA Rotated ==
  ASSUME NEW hd, NEW tl, NEW nx, NEW pv, NEW s, IsList(hd, tl, nx, pv, s), Distinct(s),
         Len(s) > 1
  PROVE  LET r == Rotation(s)
             p == At(s, Len(s) - 1) IN
         /\ IsList(tl, p, Write(Write(nx, p, Null), tl, hd), Write(Write(pv, hd, tl), tl, Null), r)
         /\ Distinct(r) /\ Elems(r) = Elems(s) /\ Len(r) = Len(s)
<1> DEFINE r == Rotation(s)
           L == Len(s)
           p == At(s, L - 1)
           nx2 == Write(Write(nx, p, Null), tl, hd)
           pv2 == Write(Write(pv, hd, tl), tl, Null)
<1>1. s \in Seq(Nodes) /\ L \in Nat /\ L > 1 /\ 1 \in 1..L /\ L \in 1..L /\ L - 1 \in 1..L
      /\ \A i \in 1..L : s[i] \in Nodes /\ At(s, i) = s[i]
  BY NodeIs DEF IsList
<1>2. /\ r \in Seq(Nodes) /\ Len(r) = L
      /\ \A i \in 1..L : r[i] = IF i = 1 THEN s[L] ELSE s[i - 1]
  BY <1>1, RotationIs
<1>3. \A i, j \in 1..L : s[i] = s[j] => i = j
  BY DEF Distinct
<1>4. \A m \in Nodes : /\ nx2[m] = IF m = tl THEN hd ELSE IF m = p THEN Null ELSE nx[m]
                       /\ pv2[m] = IF m = tl THEN Null ELSE IF m = hd THEN tl ELSE pv[m]
  BY WriteIs
<1>5. \A i \in 1..L : nx[s[i]] = At(s, i + 1) /\ pv[s[i]] = At(s, i - 1)
  BY DEF IsList
<1>6. hd = s[1] /\ tl = s[L] /\ p = s[L - 1]
  BY <1>1 DEF IsList
<1> HIDE DEF r, p, nx2, pv2
<1>7. \A i \in 1..L : /\ s[i] = tl <=> i = L
                      /\ s[i] = hd <=> i = 1
                      /\ s[i] = p <=> i = L - 1
  BY <1>1, <1>3, <1>6
<1>8. ASSUME NEW i \in 1..L
      PROVE  nx2[r[i]] = At(r, i + 1) /\ pv2[r[i]] = At(r, i - 1)
  <2>1. CASE i = 1
    <3>1. r[i] = tl /\ tl \in Nodes
      BY <1>1, <1>2, <1>6, <2>1
    <3>2. nx2[r[i]] = s[1] /\ pv2[r[i]] = Null
      BY <1>4, <1>6, <3>1
    <3>3. i + 1 \in 1..L /\ i + 1 # 1 /\ (i + 1) - 1 = 1 /\ i - 1 \notin 1..L
      BY <1>1, <2>1
    <3> QED
      BY <1>2, <3>2, <3>3 DEF At
  <2>2. CASE i # 1
    <3>1. r[i] = s[i - 1] /\ i - 1 \in 1..L /\ i - 1 # L /\ s[i - 1] \in Nodes
          /\ (i - 1) + 1 = i
      BY <1>1, <1>2, <2>2
    <3>2. nx2[r[i]] = At(r, i + 1)
      <4>1. nx2[r[i]] = IF i - 1 = L - 1 THEN Null ELSE At(s, i)
        BY <1>4, <1>5, <1>7, <3>1
      <4>2. CASE i = L
        <5>1. i + 1 \notin 1..L
          BY <1>1, <4>2
        <5> QED
          BY <1>2, <4>1, <4>2, <5>1 DEF At
      <4>3. CASE i # L
        <5>1. i + 1 \in 1..L /\ i + 1 # 1 /\ (i + 1) - 1 = i /\ i - 1 # L - 1
          BY <1>1, <4>3
        <5> QED
          BY <1>1, <1>2, <4>1, <5>1 DEF At
      <4> QED
        BY <4>2, <4>3
    <3>3. pv2[r[i]] = At(r, i - 1)
      <4>1. pv2[r[i]] = IF i - 1 = 1 THEN tl ELSE At(s, (i - 1) - 1)
        BY <1>4, <1>5, <1>7, <3>1
      <4>2. At(r, i - 1) = r[i - 1]
        BY <1>2, <3>1 DEF At
      <4>3. CASE i - 1 = 1
        BY <1>2, <1>6, <3>1, <4>1, <4>2, <4>3
      <4>4. CASE i - 1 # 1
        <5>1. (i - 1) - 1 \in 1..L
          BY <1>1, <3>1, <4>4
        <5> QED
          BY <1>1, <1>2, <3>1, <4>1, <4>2, <4>4, <5>1
      <4> QED
        BY <4>3, <4>4
    <3> QED
      BY <3>2, <3>3
  <2> QED
    BY <2>1, <2>2
<1>9. tl = At(r, 1) /\ p = At(r, L)
  BY <1>1, <1>2, <1>6 DEF At
<1>10. Distinct(r)
  <2>1. ASSUME NEW i \in 1..L, NEW j \in 1..L, r[i] = r[j] PROVE i = j
    <3> DEFINE a == IF i = 1 THEN L ELSE i - 1
               b == IF j = 1 THEN L ELSE j - 1
    <3>1. a \in 1..L /\ b \in 1..L /\ (a = b => i = j)
      BY <1>1
    <3>2. r[i] = s[a] /\ r[j] = s[b]
      BY <1>2
    <3> HIDE DEF a, b
    <3> QED
      BY <1>3, <2>1, <3>1, <3>2
  <2> QED
    BY <1>2, <2>1 DEF Distinct
<1>11. Elems(r) = Elems(s)
  <2>1. Elems(r) = {r[i] : i \in 1..L} /\ Elems(s) = {s[i] : i \in 1..L}
    BY <1>2 DEF Elems
  <2>2. \A i \in 1..L : r[i] \in Elems(s)
    <3>1. \A i \in 1..L : i # 1 => i - 1 \in 1..L
      BY <1>1
    <3> QED
      BY <1>1, <1>2, <2>1, <3>1
  <2>3. ASSUME NEW i \in 1..L PROVE s[i] \in Elems(r)
    <3>1. CASE i = L
      BY <1>1, <1>2, <2>1, <3>1
    <3>2. CASE i # L
      <4>1. i + 1 \in 1..L /\ i + 1 # 1 /\ (i + 1) - 1 = i
        BY <1>1, <3>2
      <4>2. r[i + 1] = s[i]
        BY <1>2, <4>1
      <4> QED
        BY <2>1, <4>1, <4>2
    <3> QED
      BY <3>1, <3>2
  <2>4. Elems(r) \subseteq Elems(s)
    BY <2>1, <2>2
  <2>5. Elems(s) \subseteq Elems(r)
    BY <2>1, <2>3
  <2> QED
    BY <2>4, <2>5
<1>12. IsList(tl, p, nx2, pv2, r)
  BY <1>2, <1>8, <1>9 DEF IsList
<1> QED
  BY <1>2, <1>10, <1>11, <1>12 DEF r, p, nx2, pv2

\* The stores of listJoin make the concatenation.
LEMMA Joined ==
  ASSUME NEW hd, NEW tl, NEW nx, NEW pv, NEW s, IsList(hd, tl, nx, pv, s), Distinct(s),
         NEW hd2, NEW tl2, NEW u, IsList(hd2, tl2, nx, pv, u), Distinct(u), Len(u) > 0,
         Elems(s) \intersect Elems(u) = {}
  PROVE  LET r == s \o u IN
         /\ IsList(IF tl = Null THEN hd2 ELSE hd, tl2, Write(nx, tl, hd2), Write(pv, hd2, tl), r)
         /\ Distinct(r) /\ Elems(r) = Elems(s) \union Elems(u) /\ Len(r) = Len(s) + Len(u)
<1> DEFINE r == s \o u
           K == Len(s)
           L == Len(u)
           nx2 == Write(nx, tl, hd2)
           pv2 == Write(pv, hd2, tl)
<1>0. u \in Seq(Nodes) /\ L \in Nat /\ L > 0 /\ 1 \in 1..L /\ L \in 1..L
      /\ \A i \in 1..L : u[i] \in Nodes /\ u[i] # Null /\ At(u, i) = u[i]
  BY NodeIs DEF IsList
<1>1. s \in Seq(Nodes) /\ K \in Nat
      /\ \A i \in 1..K : s[i] \in Nodes /\ s[i] # Null /\ At(s, i) = s[i]
  BY NodeIs DEF IsList
<1>2. /\ r \in Seq(Nodes) /\ Len(r) = K + L
      /\ \A i \in 1..K + L : r[i] = IF i <= K THEN s[i] ELSE u[i - K]
  BY <1>0, <1>1, ConcatProperties
<1>3. /\ \A i, j \in 1..K : s[i] = s[j] => i = j
      /\ \A i, j \in 1..L : u[i] = u[j] => i = j
      /\ \A i \in 1..K, j \in 1..L : s[i] # u[j]
  BY DEF Distinct, Elems
<1>4. \A m \in Nodes : /\ nx2[m] = IF m = tl THEN hd2 ELSE nx[m]
                       /\ pv2[m] = IF m = hd2 THEN tl ELSE pv[m]
  BY WriteIs
<1>5. /\ \A i \in 1..K : nx[s[i]] = At(s, i + 1) /\ pv[s[i]] = At(s, i - 1)
      /\ \A i \in 1..L : nx[u[i]] = At(u, i + 1) /\ pv[u[i]] = At(u, i - 1)
  BY DEF IsList
<1>6. hd = At(s, 1) /\ tl = At(s, K) /\ hd2 = u[1] /\ tl2 = u[L]
  <2>1. hd = At(s, 1) /\ tl = At(s, K) /\ hd2 = At(u, 1) /\ tl2 = At(u, L)
    BY DEF IsList
  <2>2. At(u, 1) = u[1] /\ At(u, L) = u[L]
    BY <1>0
  <2> QED
    BY <2>1, <2>2
<1> HIDE DEF r, nx2, pv2
<1>7. /\ \A i \in 1..K : (s[i] = tl <=> i = K) /\ s[i] # hd2
      /\ \A i \in 1..L : (u[i] = hd2 <=> i = 1) /\ u[i] # tl
  <2>1. K # 0 => K \in 1..K /\ tl = s[K]
    BY <1>0, <1>1, <1>6
  <2>2. K = 0 => tl = Null
    <3>1. K = 0 => K \notin 1..K
      BY <1>0, <1>1
    <3> QED
      BY <1>6, <3>1 DEF At
  <2>3. ASSUME NEW i \in 1..K PROVE (s[i] = tl <=> i = K) /\ s[i] # hd2
    <3>1. K # 0
      BY <1>0, <1>1
    <3> QED
      BY <1>0, <1>1, <1>3, <1>6, <2>1, <3>1
  <2>4. ASSUME NEW i \in 1..L PROVE (u[i] = hd2 <=> i = 1) /\ u[i] # tl
    <3>1. u[i] = u[1] <=> i = 1
      BY <1>0, <1>1, <1>3
    <3>2. u[i] # tl
      <4>1. CASE K = 0
        BY <1>0, <2>2, <4>1
      <4>2. CASE K # 0
        BY <1>3, <2>1, <4>2
      <4> QED
        BY <4>1, <4>2
    <3> QED
      BY <1>6, <3>1, <3>2
  <2> QED
    BY <2>3, <2>4
<1>8. \A j \in Int : At(r, j) = IF j <= K THEN At(s, j) ELSE At(u, j - K)
  <2>1. ASSUME NEW j \in Int PROVE At(r, j) = IF j <= K THEN At(s, j) ELSE At(u, j - K)
    <3>1. CASE j \in 1..K + L
      <4>1. At(r, j) = r[j] /\ (j <= K => j \in 1..K) /\ (~(j <= K) => j - K \in 1..L)
        BY <1>0, <1>1, <1>2, <3>1 DEF At
      <4>2. CASE j <= K
        BY <1>0, <1>1, <1>2, <3>1, <4>1, <4>2
      <4>3. CASE ~(j <= K)
        <5>1. j - K \in 1..L /\ At(u, j - K) = u[j - K]
          BY <1>0, <4>1, <4>3
        <5>2. r[j] = u[j - K]
          BY <1>2, <3>1, <4>3
        <5> QED
          BY <4>1, <4>3, <5>1, <5>2
      <4> QED
        BY <4>2, <4>3
    <3>2. CASE j \notin 1..K + L
      <4>1. At(r, j) = Null
        BY <1>0, <1>1, <1>2, <3>2 DEF At
      <4>2. (j <= K => j \notin 1..K) /\ (~(j <= K) => j - K \notin 1..L)
        BY <1>0, <1>1, <3>2
      <4> QED
        BY <4>1, <4>2 DEF At
    <3> QED
      BY <3>1, <3>2
  <2> QED
    BY <2>1
<1>9. ASSUME NEW i \in 1..K + L
      PROVE  nx2[r[i]] = At(r, i + 1) /\ pv2[r[i]] = At(r, i - 1)
  <2>1. CASE i <= K
    <3>1. r[i] = s[i] /\ i \in 1..K /\ s[i] \in Nodes
      BY <1>0, <1>1, <1>2, <2>1
    <3>2. nx2[r[i]] = (IF i = K THEN hd2 ELSE At(s, i + 1)) /\ pv2[r[i]] = At(s, i - 1)
      BY <1>4, <1>5, <1>7, <3>1
    <3>3. At(r, i - 1) = At(s, i - 1)
      BY <1>0, <1>1, <1>8, <2>1
    <3>4. At(r, i + 1) = IF i = K THEN hd2 ELSE At(s, i + 1)
      <4>1. CASE i = K
        <5>1. ~(i + 1 <= K) /\ (i + 1) - K = 1
          BY <1>0, <1>1, <4>1
        <5> QED
          BY <1>0, <1>1, <1>6, <1>8, <4>1, <5>1
      <4>2. CASE i # K
        BY <1>0, <1>1, <1>8, <2>1, <4>2
      <4> QED
        BY <4>1, <4>2
    <3> QED
      BY <3>2, <3>3, <3>4
  <2>2. CASE ~(i <= K)
    <3>1. r[i] = u[i - K] /\ i - K \in 1..L /\ u[i - K] \in Nodes
      BY <1>0, <1>1, <1>2, <2>2
    <3>2. nx2[r[i]] = At(u, (i - K) + 1)
          /\ pv2[r[i]] = IF i - K = 1 THEN tl ELSE At(u, (i - K) - 1)
      BY <1>4, <1>5, <1>7, <3>1
    <3>3. At(r, i + 1) = At(u, (i - K) + 1)
      <4>1. ~(i + 1 <= K) /\ (i + 1) - K = (i - K) + 1
        BY <1>0, <1>1, <2>2
      <4> QED
        BY <1>8, <4>1
    <3>4. At(r, i - 1) = IF i - K = 1 THEN tl ELSE At(u, (i - K) - 1)
      <4>1. CASE i - K = 1
        <5>1. i - 1 = K /\ i - 1 <= K
          BY <1>0, <1>1, <4>1
        <5> QED
          BY <1>0, <1>1, <1>6, <1>8, <4>1, <5>1
      <4>2. CASE i - K # 1
        <5>1. ~(i - 1 <= K) /\ (i - 1) - K = (i - K) - 1 /\ i - 1 \in Int
          BY <1>0, <1>1, <2>2, <4>2
        <5> QED
          BY <1>8, <4>2, <5>1
      <4> QED
        BY <4>1, <4>2
    <3> QED
      BY <3>2, <3>3, <3>4
  <2> QED
    BY <2>1, <2>2
<1>10. (IF tl = Null THEN hd2 ELSE hd) = At(r, 1) /\ tl2 = At(r, K + L)
  <2>1. CASE K = 0
    <3>1. K \notin 1..K /\ ~(1 <= K) /\ 1 - K = 1 /\ ~(K + L <= K) /\ (K + L) - K = L /\ K + L \in Int
      BY <1>0, <1>1, <2>1
    <3> QED
      BY <1>0, <1>1, <1>6, <1>8, <3>1 DEF At
  <2>2. CASE K # 0
    <3>1. K \in 1..K /\ 1 <= K /\ ~(K + L <= K) /\ (K + L) - K = L /\ K + L \in Int
      BY <1>0, <1>1, <2>2
    <3>2. tl # Null
      BY <1>0, <1>1, <1>6, <3>1
    <3> QED
      BY <1>0, <1>1, <1>6, <1>8, <3>1, <3>2
  <2> QED
    BY <2>1, <2>2
<1>11. Distinct(r)
  <2>1. ASSUME NEW i \in 1..K + L, NEW j \in 1..K + L, r[i] = r[j] PROVE i = j
    <3>1. (i <= K => i \in 1..K) /\ (~(i <= K) => i - K \in 1..L)
          /\ (j <= K => j \in 1..K) /\ (~(j <= K) => j - K \in 1..L)
          /\ (i - K = j - K => i = j)
      BY <1>0, <1>1
    <3>2. CASE i <= K /\ j <= K
      BY <1>2, <1>3, <2>1, <3>1, <3>2
    <3>3. CASE i <= K /\ ~(j <= K)
      BY <1>2, <1>3, <2>1, <3>1, <3>3
    <3>4. CASE ~(i <= K) /\ j <= K
      BY <1>2, <1>3, <2>1, <3>1, <3>4
    <3>5. CASE ~(i <= K) /\ ~(j <= K)
      <4>1. i - K = j - K
        BY <1>2, <1>3, <2>1, <3>1, <3>5
      <4> QED
        BY <3>1, <4>1
    <3> QED
      BY <3>2, <3>3, <3>4, <3>5
  <2> QED
    BY <1>2, <2>1 DEF Distinct
<1>12. Elems(r) = Elems(s) \union Elems(u)
  <2>1. Elems(r) = {r[i] : i \in 1..K + L} /\ Elems(s) = {s[i] : i \in 1..K}
        /\ Elems(u) = {u[i] : i \in 1..L}
    BY <1>2 DEF Elems
  <2>2. ASSUME NEW i \in 1..K + L PROVE r[i] \in Elems(s) \union Elems(u)
    <3>1. (i <= K => i \in 1..K) /\ (~(i <= K) => i - K \in 1..L)
      BY <1>0, <1>1
    <3> QED
      BY <1>2, <2>1, <3>1
  <2>3. ASSUME NEW i \in 1..K PROVE s[i] \in Elems(r)
    <3>1. i \in 1..K + L /\ i <= K
      BY <1>0, <1>1
    <3> QED
      BY <1>2, <2>1, <3>1
  <2>4. ASSUME NEW i \in 1..L PROVE u[i] \in Elems(r)
    <3>1. i + K \in 1..K + L /\ ~(i + K <= K) /\ (i + K) - K = i
      BY <1>0, <1>1
    <3>2. r[i + K] = u[i]
      BY <1>2, <3>1
    <3> QED
      BY <2>1, <3>1, <3>2
  <2>5. Elems(r) \subseteq Elems(s) \union Elems(u)
    BY <2>1, <2>2
  <2>6. Elems(s) \subseteq Elems(r) /\ Elems(u) \subseteq Elems(r)
    BY <2>1, <2>3, <2>4
  <2> QED
    BY <2>5, <2>6
<1>13. IsList(IF tl = Null THEN hd2 ELSE hd, tl2, nx2, pv2, r)
  BY <1>2, <1>9, <1>10 DEF IsList
<1> QED
  BY <1>2, <1>11, <1>12, <1>13 DEF r, nx2, pv2

\* A list whose nodes keep their links.
LEMMA Untouched ==
  ASSUME NEW hd, NEW tl, NEW nx, NEW pv, NEW s, IsList(hd, tl, nx, pv, s),
         NEW nx2, NEW pv2, \A n \in Elems(s) : nx2[n] = nx[n] /\ pv2[n] = pv[n]
  PROVE  IsList(hd, tl, nx2, pv2, s)
BY DEF IsList, Elems

\* No node makes the empty list.
LEMMA EmptyList ==
  ASSUME NEW nx, NEW pv
  PROVE  /\ IsList(Null, Null, nx, pv, <<>>) /\ Distinct(<<>>) /\ Elems(<<>>) = {}
         /\ <<>> \in Seq(Nodes) /\ Len(<<>>) = 0
<1>1. <<>> \in Seq(Nodes) /\ Len(<<>>) = 0 /\ 1..0 = {}
  OBVIOUS
<1> QED
  BY <1>1 DEF IsList, At, Distinct, Elems

-----------------------------------------------------------------------------
(* The iterator, and what the other lists keep *)

\* The iteration, seen on the sequences w.
Iterating(w) ==
  \/ iter = NoIter /\ calm = FALSE
  \/ /\ iter.list \in made
     /\ iter.next \in Elems(w[iter.list]) \union {Null}
     /\ given \in Elems(w[iter.list]) \union {Null}
     /\ given # Null => given # iter.next
     /\ calm => /\ Leads(Link(iter.dir), iter.next, todo) /\ Distinct(todo)
                /\ Elems(todo) \subseteq Elems(w[iter.list])
                /\ given \notin Elems(todo)

\* The nodes of a list are allocated, and in no other list.
LEMMA ElemsIn ==
  ASSUME NEW w, Chained(w), NEW l \in Lists
  PROVE  /\ Elems(w[l]) \subseteq heap /\ Elems(w[l]) \subseteq Nodes
         /\ \A o \in Lists \ {l} : Elems(w[o]) \subseteq heap \ Elems(w[l])
<1>1. heap = UNION {Elems(w[o]) : o \in Lists}
  BY DEF Chained
<1>2. \A o \in Lists : l # o => Elems(w[l]) \intersect Elems(w[o]) = {}
  BY DEF Chained
<1>3. Elems(w[l]) \subseteq Nodes
  <2>1. w[l] \in Seq(Nodes)
    BY DEF Chained
  <2> QED
    BY <2>1, NodeIs DEF Elems
<1> QED
  BY <1>1, <1>2, <1>3

\* The list l is that of the nodes s.
Sound(l, s) ==
  /\ IsList(head[l], tail[l], next, prev, s) /\ Distinct(s)
  /\ len[l] = Len(s) /\ (l \in made \/ s = <<>>)

\* A list that keeps its header and the links of its nodes.
LEMMA Kept ==
  ASSUME NEW w, Chained(w), NEW o \in Lists,
         head'[o] = head[o], tail'[o] = tail[o], len'[o] = len[o], o \in made => o \in made',
         \A n \in Elems(w[o]) : next'[n] = next[n] /\ prev'[n] = prev[n]
  PROVE  Sound(o, w[o])'
<1>1. /\ IsList(head[o], tail[o], next, prev, w[o]) /\ Distinct(w[o])
      /\ len[o] = Len(w[o]) /\ (o \in made \/ w[o] = <<>>)
  BY DEF Chained
<1>2. IsList(head[o], tail[o], next', prev', w[o])
  BY <1>1, Untouched
<1> QED
  BY <1>1, <1>2 DEF Sound

\* Only the list l changes, to one of the nodes t.
LEMMA OneReplaced ==
  ASSUME NEW w, Chained(w), NEW l \in Lists, NEW t \in Seq(Nodes),
         IsList(head'[l], tail'[l], next', prev', t), Distinct(t), len'[l] = Len(t),
         l \in made' \/ t = <<>>,
         \A o \in Lists \ {l} : /\ head'[o] = head[o] /\ tail'[o] = tail[o]
                                /\ len'[o] = len[o] /\ (o \in made => o \in made'),
         \A n \in heap \ Elems(w[l]) : next'[n] = next[n] /\ prev'[n] = prev[n],
         Elems(t) \intersect (heap \ Elems(w[l])) = {},
         heap' = (heap \ Elems(w[l])) \union Elems(t)
  PROVE  Chained([w EXCEPT ![l] = t])'
<1> DEFINE w2 == [w EXCEPT ![l] = t]
<1>1. w \in [Lists -> Seq(Nodes)] /\ heap = UNION {Elems(w[o]) : o \in Lists}
  BY DEF Chained
<1>2. w2 \in [Lists -> Seq(Nodes)] /\ w2[l] = t /\ \A o \in Lists \ {l} : w2[o] = w[o]
  BY <1>1
<1> HIDE DEF w2
<1>3. \A o \in Lists \ {l} : Elems(w[o]) \subseteq heap \ Elems(w[l])
  BY ElemsIn
<1>4. heap' = UNION {Elems(w2[o]) : o \in Lists}
  <2>1. ASSUME NEW n, n \in heap' PROVE \E o \in Lists : n \in Elems(w2[o])
    <3>1. CASE n \in Elems(t)
      BY <1>2, <3>1
    <3>2. CASE n \in heap \ Elems(w[l])
      <4>1. PICK o \in Lists : n \in Elems(w[o])
        BY <1>1, <3>2
      <4>2. o # l
        BY <3>2, <4>1
      <4> QED
        BY <1>2, <4>1, <4>2
    <3> QED
      BY <2>1, <3>1, <3>2
  <2>2. ASSUME NEW o \in Lists, NEW n, n \in Elems(w2[o]) PROVE n \in heap'
    <3>1. CASE o = l
      BY <1>2, <2>2, <3>1
    <3>2. CASE o # l
      BY <1>2, <1>3, <2>2, <3>2
    <3> QED
      BY <3>1, <3>2
  <2> QED
    BY <2>1, <2>2
<1>5. ASSUME NEW o \in Lists \ {l} PROVE Sound(o, w[o])'
  BY <1>3, Kept
<1>6. Sound(l, t)'
  BY DEF Sound
<1>7. \A o \in Lists : Sound(o, w2[o])'
  BY <1>2, <1>5, <1>6
<1>8. ASSUME NEW o \in Lists, NEW p \in Lists, o # p
      PROVE  Elems(w2[o]) \intersect Elems(w2[p]) = {}
  <2>1. CASE o = l
    BY <1>2, <1>3, <1>8, <2>1
  <2>2. CASE p = l
    BY <1>2, <1>3, <1>8, <2>2
  <2>3. CASE o # l /\ p # l
    <3>1. Elems(w[o]) \intersect Elems(w[p]) = {}
      BY <1>8 DEF Chained
    <3> QED
      BY <1>2, <2>3, <3>1
  <2> QED
    BY <2>1, <2>2, <2>3
<1>9. Chained(w2)'
  BY <1>2, <1>4, <1>7, <1>8 DEF Chained, Sound
<1> QED
  BY <1>9 DEF w2

\* An iteration over a list that keeps its nodes and their links.
LEMMA IterationKept ==
  ASSUME NEW w, Iterating(w), NEW w2, UNCHANGED iterVars,
         iter.list \in made => /\ iter.list \in made' /\ w2[iter.list] = w[iter.list]
                               /\ \A n \in Elems(w[iter.list]) :
                                    next'[n] = next[n] /\ prev'[n] = prev[n]
  PROVE  Iterating(w2)'
<1>1. iter' = iter /\ given' = given /\ todo' = todo /\ calm' = calm
  BY DEF iterVars
<1>2. CASE iter = NoIter /\ calm = FALSE
  BY <1>1, <1>2 DEF Iterating, NoIter
<1>3. CASE ~(iter = NoIter /\ calm = FALSE)
  <2> DEFINE s == w[iter.list]
  <2>1. /\ iter.list \in made
        /\ iter.next \in Elems(s) \union {Null}
        /\ given \in Elems(s) \union {Null}
        /\ given # Null => given # iter.next
        /\ calm => /\ Leads(Link(iter.dir), iter.next, todo) /\ Distinct(todo)
                   /\ Elems(todo) \subseteq Elems(s)
                   /\ given \notin Elems(todo)
    BY <1>3 DEF Iterating
  <2>2. ASSUME calm PROVE Leads(Link(iter.dir), iter.next, todo)'
    <3>1. Leads(Link(iter.dir), iter.next, todo) /\ Elems(todo) \subseteq Elems(s)
      BY <2>1, <2>2
    <3>2. \A n \in Elems(todo) : Link(iter.dir)'[n] = Link(iter.dir)[n]
      BY <1>1, <2>1, <3>1 DEF Link
    <3>3. \A i \in 1..Len(todo) : todo[i] \in Elems(todo)
      BY DEF Elems
    <3> QED
      BY <1>1, <3>1, <3>2, <3>3 DEF Leads
  <2>3. w2[iter.list] = s /\ iter.list \in made'
    BY <2>1
  <2> HIDE DEF s
  <2>4. (iter.list \in made)' /\ w2[(iter.list)'] = s
    BY <1>1, <2>3
  <2> QED
    BY <1>1, <2>1, <2>2, <2>4 DEF Iterating
<1> QED
  BY <1>2, <1>3

\* The list l was changed, and kept its nodes.
LEMMA IterationDisturbed ==
  ASSUME NEW w, Chained(w), Iterating(w), NEW l \in Lists, NEW w2, Disturb(l),
         made' = made, made \subseteq Lists, Elems(w[l]) \subseteq Elems(w2[l]),
         \A o \in Lists \ {l} : iter.list = o =>
            /\ w2[o] = w[o]
            /\ \A n \in Elems(w[o]) : next'[n] = next[n] /\ prev'[n] = prev[n]
  PROVE  Iterating(w2)'
<1>1. CASE iter.list = l
  <2>1. calm' = FALSE /\ iter' = iter /\ given' = given
    BY <1>1 DEF Disturb
  <2> QED
    BY <1>1, <2>1 DEF Iterating, NoIter
<1>2. CASE iter.list # l
  <2>1. UNCHANGED iterVars
    BY <1>2 DEF Disturb
  <2> QED
    BY <1>2, <2>1, IterationKept
<1> QED
  BY <1>1, <1>2

-----------------------------------------------------------------------------
(* What a call does to the chains: the three ways to add a node *)

\* Lists that free their values have a method to copy them (with one and not
\* the other listDup gives two lists the same values to free).
FreeDups == \A M \in Methods : "free" \in M => "dup" \in M

\* With a free method, the nodes hold different values, all allocated.
Owned == HasFree => \A m, n \in heap : /\ value[n] \in alive
                                       /\ m # n => value[m] # value[n]

\* The list l gets the new node n as its k-th.
Grows(w, l, n, k, v) ==
  LET p == At(w[l], k - 1)
      q == At(w[l], k) IN
  /\ Usable(l)
  /\ heap' = heap \union {n} /\ Store(n, v)
  /\ head' = [head EXCEPT ![l] = IF k = 1 THEN n ELSE @]
  /\ tail' = [tail EXCEPT ![l] = IF k = Len(w[l]) + 1 THEN n ELSE @]
  /\ next' = Write(Write(next, n, q), p, n)
  /\ prev' = Write(Write(prev, n, p), q, n)
  /\ len' = [len EXCEPT ![l] = @ + 1]
  /\ crashed' = crashed
  /\ Disturb(l) /\ UNCHANGED made

\* After the stores that add a node, the lists are those with the new node.
LEMMA Grown ==
  ASSUME TypeOK, NEW w, Chained(w), Iterating(w), NEW l \in Lists, NEW n \in Nodes \ heap,
         NEW k \in 1..Len(w[l]) + 1, NEW v \in Values, Grows(w, l, n, k, v)
  PROVE  Chained([w EXCEPT ![l] = InsertAt(@, k, n)])'
         /\ Iterating([w EXCEPT ![l] = InsertAt(@, k, n)])'
<1> DEFINE s == w[l]
           t == InsertAt(s, k, n)
           w2 == [w EXCEPT ![l] = t]
<1>1. /\ s \in Seq(Nodes) /\ IsList(head[l], tail[l], next, prev, s) /\ Distinct(s)
      /\ len[l] = Len(s) /\ w \in [Lists -> Seq(Nodes)]
  BY DEF Chained
<1>2. /\ head \in [Lists -> Pointers] /\ tail \in [Lists -> Pointers] /\ len \in [Lists -> Nat]
      /\ made \subseteq Lists
  BY DEF TypeOK
<1>3. Elems(s) \subseteq heap /\ n \notin Elems(s)
  BY ElemsIn
<1>4. /\ IsList(IF k = 1 THEN n ELSE head[l], IF k = Len(s) + 1 THEN n ELSE tail[l], next', prev', t)
      /\ Distinct(t) /\ Elems(t) = Elems(s) \union {n} /\ Len(t) = Len(s) + 1
      /\ next' = Write(Write(next, n, At(s, k)), At(s, k - 1), n)
      /\ prev' = Write(Write(prev, n, At(s, k - 1)), At(s, k), n)
  <2>1. /\ next' = Write(Write(next, n, At(s, k)), At(s, k - 1), n)
        /\ prev' = Write(Write(prev, n, At(s, k - 1)), At(s, k), n)
    BY DEF Grows
  <2>2. /\ IsList(IF k = 1 THEN n ELSE head[l], IF k = Len(s) + 1 THEN n ELSE tail[l],
                  Write(Write(next, n, At(s, k)), At(s, k - 1), n),
                  Write(Write(prev, n, At(s, k - 1)), At(s, k), n), t)
        /\ Distinct(t) /\ Elems(t) = Elems(s) \union {n} /\ Len(t) = Len(s) + 1
    <3>1. n \in Nodes \ Elems(s) /\ k \in 1..Len(s) + 1
      BY <1>3
    <3>2. PICK hd, tl, nx, pv : hd = head[l] /\ tl = tail[l] /\ nx = next /\ pv = prev
      OBVIOUS
    <3> HIDE DEF s
    <3>3. IsList(hd, tl, nx, pv, s)
      BY <1>1, <3>2
    <3> QED
      BY <1>1, <3>1, <3>2, <3>3, Inserted
  <2> QED
    BY <2>1, <2>2
<1>5. t \in Seq(Nodes)
  BY <1>4 DEF IsList
<1>6. /\ head' = [head EXCEPT ![l] = IF k = 1 THEN n ELSE @]
      /\ tail' = [tail EXCEPT ![l] = IF k = Len(s) + 1 THEN n ELSE @]
      /\ len' = [len EXCEPT ![l] = @ + 1] /\ heap' = heap \union {n}
      /\ made' = made /\ l \in made /\ Disturb(l)
  BY DEF Grows, Usable
<1>7. w2[l] = t /\ \A o \in Lists \ {l} : w2[o] = w[o]
  BY <1>1
<1>8. \A o \in Lists \ {l} : /\ head'[o] = head[o] /\ tail'[o] = tail[o] /\ len'[o] = len[o]
                             /\ (o \in made => o \in made')
  BY <1>2, <1>6
<1>9. /\ head'[l] = (IF k = 1 THEN n ELSE head[l])
      /\ tail'[l] = (IF k = Len(s) + 1 THEN n ELSE tail[l]) /\ len'[l] = Len(s) + 1
  BY <1>1, <1>2, <1>6
<1>10. \A m \in heap \ Elems(s) : next'[m] = next[m] /\ prev'[m] = prev[m]
  <2>1. At(s, k - 1) \in Elems(s) \union {Null} /\ At(s, k) \in Elems(s) \union {Null}
    BY DEF At, Elems
  <2>2. ASSUME NEW m \in heap \ Elems(s) PROVE next'[m] = next[m] /\ prev'[m] = prev[m]
    <3>1. m \in Nodes /\ m # n /\ m # At(s, k) /\ m # At(s, k - 1)
      BY <2>1, NullAssumption DEF TypeOK
    <3> QED
      BY <1>4, <3>1, WriteIs
  <2> QED
    BY <2>2
<1>11. /\ IsList(head'[l], tail'[l], next', prev', t) /\ len'[l] = Len(t)
       /\ l \in made' \/ t = <<>>
       /\ Elems(t) \intersect (heap \ Elems(s)) = {}
       /\ heap' = (heap \ Elems(s)) \union Elems(t)
  BY <1>3, <1>4, <1>6, <1>9
<1> HIDE DEF t
<1>12. Chained(w2)'
  <2> HIDE DEF s
  <2>1. s = w[l]
    BY DEF s
  <2> QED
    BY <1>4, <1>5, <1>8, <1>10, <1>11, <2>1, OneReplaced, ZenonT(60)
<1>13. Iterating(w2)'
  <2>1. \A o \in Lists \ {l} : \A m \in Elems(w[o]) : next'[m] = next[m] /\ prev'[m] = prev[m]
    BY <1>10, ElemsIn
  <2>2. Elems(w[l]) \subseteq Elems(w2[l])
    BY <1>4, <1>7
  <2> HIDE DEF w2
  <2> QED
    BY <1>2, <1>6, <1>7, <2>1, <2>2, IterationDisturbed
<1>14. w2 = [w EXCEPT ![l] = InsertAt(@, k, n)]
  BY <1>1 DEF t
<1> QED
  BY <1>12, <1>13, <1>14

\* listAddNodeHead adds the first node, in an empty list as in another.
LEMMA AddHead ==
  ASSUME TypeOK, NEW w, Chained(w), NEW l \in Lists, NEW v \in Values, listAddNodeHead(l, v)
  PROVE  \E n \in Nodes \ heap : Grows(w, l, n, 1, v)
<1> DEFINE s == w[l]
<1>1. /\ s \in Seq(Nodes) /\ IsList(head[l], tail[l], next, prev, s) /\ Distinct(s)
      /\ len[l] = Len(s) /\ Len(s) \in Nat
  BY NodeIs DEF Chained
<1>2. head[l] = At(s, 1) /\ tail[l] = At(s, Len(s)) /\ At(s, 0) = Null
  BY <1>1 DEF IsList, At
<1>3. PICK n \in Nodes \ heap :
       /\ heap' = heap \union {n}
       /\ Store(n, v)
       /\ IF len[l] = 0
          THEN /\ tail' = [tail EXCEPT ![l] = n]
               /\ prev' = Write(prev, n, Null) /\ next' = Write(next, n, Null)
               /\ UNCHANGED crashed
          ELSE /\ prev' = Write(Write(prev, n, Null), head[l], n)
               /\ next' = Write(next, n, head[l])
               /\ Faults({head[l]})
               /\ UNCHANGED tail
       /\ head' = [head EXCEPT ![l] = n]
  BY DEF listAddNodeHead
<1>4. /\ Usable(l) /\ len' = [len EXCEPT ![l] = @ + 1] /\ Disturb(l) /\ UNCHANGED made
  BY DEF listAddNodeHead
<1>5. 1 \in 1..Len(s) + 1 /\ 1 - 1 = 0
  BY <1>1
<1>6. \A f, x, y : Write(Write(f, n, x), Null, y) = Write(f, n, x)
  BY NullAssumption DEF Write
<1>7. head \in [Lists -> Pointers] /\ tail \in [Lists -> Pointers] /\ crashed \in BOOLEAN
  BY DEF TypeOK
<1>8. CASE len[l] = 0
  <2>1. At(s, 1) = Null /\ Len(s) + 1 = 1
    BY <1>1, <1>8 DEF At
  <2>2. Grows(w, l, n, 1, v)
    BY <1>1, <1>2, <1>3, <1>4, <1>5, <1>6, <1>8, <2>1 DEF Grows
  <2> QED
    BY <2>2
<1>9. CASE len[l] # 0
  <2>1. At(s, 1) \in heap /\ Len(s) + 1 # 1
    <3>1. 1 \in 1..Len(s) /\ Elems(s) \subseteq heap
      BY <1>1, <1>9, ElemsIn
    <3> QED
      BY <1>1, <1>9, <3>1 DEF At, Elems
  <2>2. crashed' = crashed
    BY <1>2, <1>3, <1>7, <1>9, <2>1 DEF Faults
  <2>3. tail' = [tail EXCEPT ![l] = @]
    BY <1>3, <1>7, <1>9
  <2>4. /\ next' = Write(Write(next, n, At(s, 1)), At(s, 1 - 1), n)
        /\ prev' = Write(Write(prev, n, At(s, 1 - 1)), At(s, 1), n)
    BY <1>2, <1>3, <1>5, <1>6, <1>9
  <2>5. /\ head' = [head EXCEPT ![l] = IF 1 = 1 THEN n ELSE @]
        /\ tail' = [tail EXCEPT ![l] = IF 1 = Len(s) + 1 THEN n ELSE @]
    BY <1>3, <2>1, <2>3
  <2>6. Grows(w, l, n, 1, v)
    BY <1>3, <1>4, <2>2, <2>4, <2>5 DEF Grows
  <2> QED
    BY <2>6
<1> QED
  BY <1>8, <1>9

\* listAddNodeTail adds the last node.
LEMMA AddTail ==
  ASSUME TypeOK, NEW w, Chained(w), NEW l \in Lists, NEW v \in Values, listAddNodeTail(l, v)
  PROVE  \E n \in Nodes \ heap : Grows(w, l, n, Len(w[l]) + 1, v)
<1> DEFINE s == w[l]
           k == Len(s) + 1
<1>1. /\ s \in Seq(Nodes) /\ IsList(head[l], tail[l], next, prev, s) /\ Distinct(s)
      /\ len[l] = Len(s) /\ Len(s) \in Nat
  BY NodeIs DEF Chained
<1>2. head[l] = At(s, 1) /\ tail[l] = At(s, k - 1) /\ At(s, k) = Null
  <2>1. k \notin 1..Len(s) /\ k - 1 = Len(s)
    BY <1>1
  <2> QED
    BY <1>1, <2>1 DEF IsList, At
<1>3. PICK n \in Nodes \ heap :
       /\ heap' = heap \union {n}
       /\ Store(n, v)
       /\ IF len[l] = 0
          THEN /\ head' = [head EXCEPT ![l] = n]
               /\ prev' = Write(prev, n, Null) /\ next' = Write(next, n, Null)
               /\ UNCHANGED crashed
          ELSE /\ next' = Write(Write(next, n, Null), tail[l], n)
               /\ prev' = Write(prev, n, tail[l])
               /\ Faults({tail[l]})
               /\ UNCHANGED head
       /\ tail' = [tail EXCEPT ![l] = n]
  BY DEF listAddNodeTail
<1>4. /\ Usable(l) /\ len' = [len EXCEPT ![l] = @ + 1] /\ Disturb(l) /\ UNCHANGED made
  BY DEF listAddNodeTail
<1>5. tail' = [tail EXCEPT ![l] = IF k = Len(s) + 1 THEN n ELSE @]
  BY <1>3
<1>6. \A f, x, y : Write(Write(f, n, x), Null, y) = Write(f, n, x)
  BY NullAssumption DEF Write
<1>7. head \in [Lists -> Pointers] /\ tail \in [Lists -> Pointers] /\ crashed \in BOOLEAN
  BY DEF TypeOK
<1>8. CASE len[l] = 0
  <2>1. At(s, k - 1) = Null /\ k = 1
    <3>1. k = 1 /\ k - 1 \notin 1..Len(s)
      BY <1>1, <1>8
    <3> QED
      BY <3>1 DEF At
  <2>2. /\ next' = Write(Write(next, n, At(s, k)), At(s, k - 1), n)
        /\ prev' = Write(Write(prev, n, At(s, k - 1)), At(s, k), n)
    BY <1>2, <1>3, <1>6, <1>8, <2>1
  <2>3. head' = [head EXCEPT ![l] = IF k = 1 THEN n ELSE @]
    BY <1>3, <1>8, <2>1
  <2>4. crashed' = crashed
    BY <1>3, <1>8
  <2> QED
    BY <1>3, <1>4, <1>5, <2>2, <2>3, <2>4 DEF Grows
<1>9. CASE len[l] # 0
  <2>1. At(s, k - 1) \in heap /\ k # 1
    <3>1. k - 1 \in 1..Len(s) /\ Elems(s) \subseteq heap /\ k # 1
      BY <1>1, <1>9, ElemsIn
    <3> QED
      BY <3>1 DEF At, Elems
  <2>2. crashed' = crashed
    BY <1>2, <1>3, <1>7, <1>9, <2>1 DEF Faults
  <2>3. head' = [head EXCEPT ![l] = IF k = 1 THEN n ELSE @]
    BY <1>3, <1>7, <1>9, <2>1
  <2>4. /\ next' = Write(Write(next, n, At(s, k)), At(s, k - 1), n)
        /\ prev' = Write(Write(prev, n, At(s, k - 1)), At(s, k), n)
    BY <1>2, <1>3, <1>6, <1>9
  <2> QED
    BY <1>3, <1>4, <1>5, <2>2, <2>3, <2>4 DEF Grows
<1> QED
  BY <1>8, <1>9

\* listInsertNode adds a node next to an existing one.
LEMMA Insert ==
  ASSUME TypeOK, NEW w, Chained(w), NEW l \in Lists, NEW old \in Nodes, NEW v \in Values,
         NEW after \in BOOLEAN, listInsertNode(l, old, v, after)
  PROVE  w[l] # <<>> /\ \E n \in Nodes \ heap, k \in 1..Len(w[l]) + 1 : Grows(w, l, n, k, v)
<1> DEFINE s == w[l]
<1>1. /\ s \in Seq(Nodes) /\ IsList(head[l], tail[l], next, prev, s) /\ Distinct(s)
      /\ len[l] = Len(s) /\ Len(s) \in Nat
  BY NodeIs DEF Chained
<1>2. PICK i \in 1..Len(s) : old = s[i]
  <2>1. old \in Elems(s)
    BY WalkIs DEF listInsertNode
  <2> QED
    BY <2>1 DEF Elems
<1>3. head[l] = At(s, 1) /\ tail[l] = At(s, Len(s)) /\ old = At(s, i)
      /\ next[old] = At(s, i + 1) /\ prev[old] = At(s, i - 1)
  BY <1>1, <1>2 DEF IsList, At
<1> DEFINE p == IF after THEN old ELSE prev[old]
           q == IF after THEN next[old] ELSE old
           k == IF after THEN i + 1 ELSE i
<1>4. PICK n \in Nodes \ heap :
       /\ heap' = heap \union {n}
       /\ Store(n, v)
       /\ tail' = [tail EXCEPT ![l] = IF after /\ @ = old THEN n ELSE @]
       /\ head' = [head EXCEPT ![l] = IF ~after /\ @ = old THEN n ELSE @]
       /\ prev' = Write(Write(prev, n, p), q, n)
       /\ next' = Write(Write(next, n, q), p, n)
       /\ Faults({old} \union ({p, q} \ {Null}))
  BY DEF listInsertNode
<1>5. /\ Usable(l) /\ len' = [len EXCEPT ![l] = @ + 1] /\ Disturb(l) /\ UNCHANGED made
  BY DEF listInsertNode
<1>6. p = At(s, k - 1) /\ q = At(s, k)
  <2>1. CASE after
    <3>1. (i + 1) - 1 = i
      BY <1>2
    <3> QED
      BY <1>3, <2>1, <3>1
  <2>2. CASE ~after
    BY <1>3, <2>2
  <2> QED
    BY <2>1, <2>2
<1>7. k \in 1..Len(s) + 1
  BY <1>1, <1>2
<1>8. (tail[l] = old <=> i = Len(s)) /\ (head[l] = old <=> i = 1)
  BY <1>1, <1>2, <1>3, AtIs
<1>9. /\ tail' = [tail EXCEPT ![l] = IF k = Len(s) + 1 THEN n ELSE @]
      /\ head' = [head EXCEPT ![l] = IF k = 1 THEN n ELSE @]
  <2>1. (after /\ tail[l] = old <=> k = Len(s) + 1) /\ (~after /\ head[l] = old <=> k = 1)
    BY <1>1, <1>2, <1>8
  <2> HIDE DEF k
  <2> QED
    BY <1>4, <2>1
<1>10. crashed' = crashed
  <2>1. {old} \union ({p, q} \ {Null}) \subseteq heap
    <3>1. Elems(s) \subseteq heap
      BY ElemsIn
    <3>2. \A j \in Int : At(s, j) # Null => At(s, j) \in Elems(s)
      BY DEF At, Elems
    <3>3. k \in Int /\ k - 1 \in Int /\ old \in Elems(s)
      BY <1>1, <1>2, <1>7 DEF Elems
    <3> HIDE DEF k, p, q
    <3> QED
      BY <1>6, <3>1, <3>2, <3>3
  <2>2. crashed \in BOOLEAN
    BY DEF TypeOK
  <2> HIDE DEF p, q
  <2> QED
    BY <1>4, <2>1, <2>2 DEF Faults
<1>11. Grows(w, l, n, k, v)
  <2> HIDE DEF p, q, k
  <2> QED
    BY <1>4, <1>5, <1>6, <1>9, <1>10 DEF Grows
<1>12. s # <<>>
  BY <1>1, <1>2
<1> HIDE DEF k
<1> QED
  BY <1>7, <1>11, <1>12

-----------------------------------------------------------------------------
(* Deleting a node and rotating *)

\* Two neighbours lead to each other.
LEMMA Neighbours ==
  ASSUME NEW hd, NEW tl, NEW nx, NEW pv, NEW s, IsList(hd, tl, nx, pv, s), Distinct(s),
         NEW n \in Elems(s)
  PROVE  /\ pv[n] # Null => nx[pv[n]] = n
         /\ nx[n] # Null => pv[nx[n]] = n
         /\ pv[n] \in Elems(s) \union {Null} /\ nx[n] \in Elems(s) \union {Null}
         /\ nx[n] # n /\ pv[n] # n
<1>1. PICK i \in 1..Len(s) : n = s[i]
  BY DEF Elems
<1>2. s \in Seq(Nodes) /\ Len(s) \in Nat /\ n \in Nodes /\ n # Null
  BY <1>1, NodeIs DEF IsList
<1>3. nx[n] = At(s, i + 1) /\ pv[n] = At(s, i - 1)
  BY <1>1 DEF IsList
<1>4. ASSUME pv[n] # Null PROVE nx[pv[n]] = n /\ pv[n] \in Elems(s)
  <2>1. i - 1 \in 1..Len(s) /\ (i - 1) + 1 = i /\ pv[n] = s[i - 1]
    BY <1>2, <1>3, <1>4 DEF At
  <2>2. nx[s[i - 1]] = At(s, i)
    BY <2>1 DEF IsList
  <2> QED
    BY <1>1, <2>1, <2>2 DEF At, Elems
<1>5. ASSUME nx[n] # Null PROVE pv[nx[n]] = n /\ nx[n] \in Elems(s)
  <2>1. i + 1 \in 1..Len(s) /\ (i + 1) - 1 = i /\ nx[n] = s[i + 1]
    BY <1>2, <1>3, <1>5 DEF At
  <2>2. pv[s[i + 1]] = At(s, i)
    BY <2>1 DEF IsList
  <2> QED
    BY <1>1, <2>1, <2>2 DEF At, Elems
<1>6. nx[n] # n /\ pv[n] # n
  <2>1. i + 1 # i /\ i - 1 # i /\ i + 1 \in Int /\ i - 1 \in Int
    BY <1>2
  <2> QED
    BY <1>1, <1>2, <1>3, <2>1, AtIs
<1> QED
  BY <1>4, <1>5, <1>6

\* listDelNode takes out its node, touches allocated ones only, and the iteration goes on.
LEMMA Delete ==
  ASSUME TypeOK, NEW w, Chained(w), Iterating(w), NEW l \in Lists, NEW n \in Nodes,
         listDelNode(l, n)
  PROVE  \E k \in 1..Len(w[l]) :
           /\ n = w[l][k]
           /\ Chained([w EXCEPT ![l] = RemoveAt(@, k)])'
           /\ Iterating([w EXCEPT ![l] = RemoveAt(@, k)])'
           /\ {n} \union ({prev[n], next[n]} \ {Null}) \subseteq heap
<1> DEFINE s == w[l]
<1>1. /\ s \in Seq(Nodes) /\ IsList(head[l], tail[l], next, prev, s) /\ Distinct(s)
      /\ len[l] = Len(s) /\ Len(s) \in Nat /\ w \in [Lists -> Seq(Nodes)]
  BY NodeIs DEF Chained
<1>2. PICK k \in 1..Len(s) : n = s[k]
  <2>1. n \in Elems(s)
    BY WalkIs DEF listDelNode
  <2> QED
    BY <2>1 DEF Elems
<1> DEFINE t == RemoveAt(s, k)
           w2 == [w EXCEPT ![l] = t]
<1>3. prev[n] = At(s, k - 1) /\ next[n] = At(s, k + 1)
  BY <1>1, <1>2 DEF IsList
<1>4. /\ Usable(l) /\ (iter.list = l => n = given)
      /\ head' = [head EXCEPT ![l] = IF prev[n] = Null THEN next[n] ELSE @]
      /\ tail' = [tail EXCEPT ![l] = IF next[n] = Null THEN prev[n] ELSE @]
      /\ prev' = Clear({n}, Write(prev, next[n], prev[n]))
      /\ next' = Clear({n}, Write(next, prev[n], next[n]))
      /\ heap' = heap \ {n} /\ len' = [len EXCEPT ![l] = @ - 1]
      /\ given' = (IF iter.list = l THEN Null ELSE given)
      /\ made' = made /\ iter' = iter /\ todo' = todo /\ calm' = calm
  BY DEF listDelNode, Free
<1>5. head \in [Lists -> Pointers] /\ tail \in [Lists -> Pointers] /\ len \in [Lists -> Nat]
  BY DEF TypeOK
<1>6. /\ IsList(IF prev[n] = Null THEN next[n] ELSE head[l],
                IF next[n] = Null THEN prev[n] ELSE tail[l], next', prev', t)
      /\ Distinct(t) /\ Elems(t) = Elems(s) \ {n} /\ Len(t) = Len(s) - 1
  <2>1. PICK hd, tl, nx, pv : hd = head[l] /\ tl = tail[l] /\ nx = next /\ pv = prev
    OBVIOUS
  <2>2. PICK nx2, pv2 : /\ nx2 = Clear({n}, Write(next, prev[n], next[n]))
                        /\ pv2 = Clear({n}, Write(prev, next[n], prev[n]))
    OBVIOUS
  <2>3. /\ IsList(IF At(s, k - 1) = Null THEN At(s, k + 1) ELSE hd,
                  IF At(s, k + 1) = Null THEN At(s, k - 1) ELSE tl,
                  Clear({s[k]}, Write(nx, At(s, k - 1), At(s, k + 1))),
                  Clear({s[k]}, Write(pv, At(s, k + 1), At(s, k - 1))), t)
        /\ Distinct(t) /\ Elems(t) = Elems(s) \ {s[k]} /\ Len(t) = Len(s) - 1
    <3>0. k \in 1..Len(s)
      OBVIOUS
    <3> HIDE DEF s
    <3>1. IsList(hd, tl, nx, pv, s)
      BY <1>1, <2>1
    <3>2. Distinct(s) /\ s \in Seq(Nodes)
      BY <1>1
    <3>3. /\ IsList(IF At(s, k - 1) = Null THEN At(s, k + 1) ELSE hd,
                    IF At(s, k + 1) = Null THEN At(s, k - 1) ELSE tl,
                    Clear({s[k]}, Write(nx, At(s, k - 1), At(s, k + 1))),
                    Clear({s[k]}, Write(pv, At(s, k + 1), At(s, k - 1))), t)
          /\ Distinct(t)
      BY <3>0, <3>1, <3>2, Deleted, Zenon
    <3>4. Elems(t) = Elems(s) \ {s[k]} /\ Len(t) = Len(s) - 1
      BY <3>0, <3>2, RemovedElems, RemoveAtIs
    <3> QED
      BY <3>3, <3>4
  <2> HIDE DEF s, t
  <2> QED
    BY <1>2, <1>3, <1>4, <2>1, <2>2, <2>3
<1>7. t \in Seq(Nodes)
  BY <1>6 DEF IsList
<1>8. w2[l] = t /\ \A o \in Lists \ {l} : w2[o] = w[o]
  BY <1>1
<1>9. Elems(s) \subseteq heap /\ heap \subseteq Nodes /\ n \in Elems(s)
  BY <1>2, ElemsIn DEF TypeOK, Elems
<1>10. prev[n] \in Elems(s) \union {Null} /\ next[n] \in Elems(s) \union {Null}
  BY <1>3 DEF At, Elems
<1> HIDE DEF t
<1>11. \A m \in Nodes \ {n} : /\ m # prev[n] => next'[m] = next[m]
                              /\ m # next[n] => prev'[m] = prev[m]
  BY <1>4, WriteIs, ClearIs
<1>12. \A m \in heap \ Elems(s) : next'[m] = next[m] /\ prev'[m] = prev[m]
  BY <1>9, <1>10, <1>11, NullAssumption
<1>13. /\ IsList(head'[l], tail'[l], next', prev', t) /\ len'[l] = Len(t)
       /\ l \in made' \/ t = <<>>
       /\ Elems(t) \intersect (heap \ Elems(s)) = {}
       /\ heap' = (heap \ Elems(s)) \union Elems(t)
       /\ \A o \in Lists \ {l} : /\ head'[o] = head[o] /\ tail'[o] = tail[o] /\ len'[o] = len[o]
                                 /\ (o \in made => o \in made')
  <2>1. /\ head'[l] = (IF prev[n] = Null THEN next[n] ELSE head[l])
        /\ tail'[l] = (IF next[n] = Null THEN prev[n] ELSE tail[l])
        /\ len'[l] = Len(s) - 1
    BY <1>1, <1>4, <1>5
  <2>2. IsList(head'[l], tail'[l], next', prev', t) /\ len'[l] = Len(t)
    BY <1>6, <2>1
  <2>3. Elems(t) \intersect (heap \ Elems(s)) = {} /\ heap' = (heap \ Elems(s)) \union Elems(t)
    BY <1>4, <1>6, <1>9
  <2> QED
    BY <1>4, <1>5, <2>2, <2>3 DEF Usable
<1>14. Chained(w2)'
  <2> HIDE DEF s
  <2>1. s = w[l]
    BY DEF s
  <2> QED
    BY <1>6, <1>7, <1>12, <1>13, <2>1, OneReplaced, ZenonT(60)
<1>15. Iterating(w2)'
  <2> HIDE DEF w2
  <2>1. CASE iter.list # l
    <3>1. UNCHANGED iterVars
      BY <1>4, <2>1 DEF iterVars
    <3>2. iter.list \in made => /\ iter.list \in made' /\ w2[iter.list] = w[iter.list]
                                /\ \A m \in Elems(w[iter.list]) :
                                     next'[m] = next[m] /\ prev'[m] = prev[m]
      <4>1. made \subseteq Lists
        BY DEF TypeOK
      <4> QED
        BY <1>4, <1>8, <1>12, <2>1, <4>1, ElemsIn
    <3> QED
      BY <3>1, <3>2, IterationKept
  <2>2. CASE iter.list = l
    <3>1. /\ l \in made /\ given = n /\ n # iter.next /\ n # Null
          /\ iter.next \in Elems(s) \union {Null}
          /\ calm => /\ Leads(Link(iter.dir), iter.next, todo) /\ Distinct(todo)
                     /\ Elems(todo) \subseteq Elems(s) /\ n \notin Elems(todo)
      BY <1>4, <2>2, NullAssumption DEF Iterating, NoIter
    <3>2. /\ iter' = iter /\ given' = Null /\ todo' = todo /\ calm' = calm /\ made' = made
      BY <1>4, <2>2
    <3>3. ASSUME calm PROVE Leads(Link(iter.dir), iter.next, todo)'
      <4>1. /\ todo \in Seq(Nodes) /\ iter.next = At(todo, 1)
            /\ \A i \in 1..Len(todo) : Link(iter.dir)[todo[i]] = At(todo, i + 1)
        BY <3>1, <3>3 DEF Leads
      <4>2. ASSUME NEW i \in 1..Len(todo) PROVE Link(iter.dir)'[todo[i]] = At(todo, i + 1)
        <5>1. todo[i] \in Elems(s) /\ todo[i] # n /\ todo[i] # Null /\ todo[i] \in Nodes
          BY <3>1, <3>3, <4>1, NodeIs DEF Elems
        <5>2. At(todo, i + 1) # n
          BY <3>1, <3>3 DEF At, Elems
        <5>3. Link(iter.dir)[todo[i]] # n
          BY <4>1, <5>2
        <5>4. /\ prev[n] # Null => next[prev[n]] = n
              /\ next[n] # Null => prev[next[n]] = n
          <6> HIDE DEF s
          <6> QED
            BY <1>1, <1>9, Neighbours
        <5>5. CASE iter.dir = "head"
          <6>1. Link(iter.dir) = next /\ Link(iter.dir)' = next'
            BY <3>2, <5>5 DEF Link
          <6>2. todo[i] # prev[n]
            BY <5>1, <5>3, <5>4, <6>1
          <6> QED
            BY <1>11, <4>1, <5>1, <6>1, <6>2
        <5>6. CASE iter.dir # "head"
          <6>1. Link(iter.dir) = prev /\ Link(iter.dir)' = prev'
            BY <3>2, <5>6 DEF Link
          <6>2. todo[i] # next[n]
            BY <5>1, <5>3, <5>4, <6>1
          <6> QED
            BY <1>11, <4>1, <5>1, <6>1, <6>2
        <5> QED
          BY <5>5, <5>6
      <4> QED
        BY <3>2, <4>1, <4>2 DEF Leads
    <3>4. iter.next \in Elems(t) \union {Null}
      BY <1>6, <3>1
    <3>5. calm => /\ Distinct(todo) /\ Elems(todo) \subseteq Elems(t) /\ Null \notin Elems(todo)
      <4>1. Null \notin Elems(s)
        BY <1>1, NodeIs DEF Elems
      <4> QED
        BY <1>6, <3>1, <4>1
    <3>6. w2[(iter.list)'] = t /\ (iter.list \in made)'
      BY <1>8, <2>2, <3>1, <3>2
    <3> QED
      BY <3>2, <3>3, <3>4, <3>5, <3>6 DEF Iterating
  <2> QED
    BY <2>1, <2>2
<1>16. {n} \union ({prev[n], next[n]} \ {Null}) \subseteq heap
  BY <1>9, <1>10
<1>17. w2 = [w EXCEPT ![l] = RemoveAt(@, k)]
  BY <1>1 DEF t
<1> HIDE DEF w2
<1> QED
  BY <1>2, <1>14, <1>15, <1>16, <1>17

\* listRotate moves the last node to the front, through allocated nodes only.
LEMMA Rotate ==
  ASSUME TypeOK, NEW w, Chained(w), Iterating(w), NEW l \in Lists, listRotate(l)
  PROVE  /\ Chained([w EXCEPT ![l] = Rotation(@)])'
         /\ Iterating([w EXCEPT ![l] = Rotation(@)])'
         /\ Len(w[l]) > 1 /\ crashed' = crashed
<1> DEFINE s == w[l]
           t == Rotation(s)
           p == At(s, Len(s) - 1)
           w2 == [w EXCEPT ![l] = t]
<1>1. /\ s \in Seq(Nodes) /\ IsList(head[l], tail[l], next, prev, s) /\ Distinct(s)
      /\ len[l] = Len(s) /\ Len(s) \in Nat /\ w \in [Lists -> Seq(Nodes)]
  BY NodeIs DEF Chained
<1>2. Len(s) > 1 /\ 1 \in 1..Len(s) /\ Len(s) \in 1..Len(s) /\ Len(s) - 1 \in 1..Len(s)
  <2>1. len[l] > 1
    BY DEF listRotate
  <2> QED
    BY <1>1, <2>1
<1>3. /\ head[l] \in Elems(s) /\ tail[l] \in Elems(s) /\ p \in Elems(s)
      /\ prev[tail[l]] = p /\ Elems(s) \subseteq heap /\ heap \subseteq Nodes
  <2>1. head[l] = s[1] /\ tail[l] = s[Len(s)] /\ p = s[Len(s) - 1]
    BY <1>1, <1>2 DEF IsList, At
  <2>2. prev[s[Len(s)]] = p
    BY <1>1, <1>2 DEF IsList
  <2>3. Elems(s) \subseteq heap /\ heap \subseteq Nodes
    BY ElemsIn DEF TypeOK
  <2>4. s[1] \in Elems(s) /\ s[Len(s)] \in Elems(s) /\ s[Len(s) - 1] \in Elems(s)
    BY <1>2 DEF Elems
  <2> HIDE DEF s, p
  <2> QED
    BY <2>1, <2>2, <2>3, <2>4
<1>4. /\ Usable(l) /\ Disturb(l) /\ made' = made /\ len' = len /\ heap' = heap
      /\ head' = [head EXCEPT ![l] = tail[l]] /\ tail' = [tail EXCEPT ![l] = p]
      /\ prev' = Write(Write(prev, head[l], tail[l]), tail[l], Null)
      /\ next' = Write(Write(next, p, Null), tail[l], head[l])
      /\ Faults({tail[l], p, head[l]})
  <2>1. (IF tail[l] \in Nodes THEN prev[tail[l]] ELSE Null) = p
    BY <1>3
  <2> HIDE DEF p
  <2> QED
    BY <2>1 DEF listRotate
<1>5. head \in [Lists -> Pointers] /\ tail \in [Lists -> Pointers] /\ len \in [Lists -> Nat]
      /\ crashed \in BOOLEAN /\ made \subseteq Lists
  BY DEF TypeOK
<1>6. crashed' = crashed
  <2> HIDE DEF p
  <2> QED
    BY <1>3, <1>4, <1>5 DEF Faults
<1>7. /\ IsList(head'[l], tail'[l], next', prev', t) /\ Distinct(t)
      /\ Elems(t) = Elems(s) /\ Len(t) = Len(s)
  <2>1. PICK hd, tl, nx, pv : hd = head[l] /\ tl = tail[l] /\ nx = next /\ pv = prev
    OBVIOUS
  <2>2. head'[l] = tl /\ tail'[l] = p
    BY <1>4, <1>5, <2>1
  <2>3. /\ IsList(tl, p, Write(Write(nx, p, Null), tl, hd), Write(Write(pv, hd, tl), tl, Null), t)
        /\ Distinct(t) /\ Elems(t) = Elems(s) /\ Len(t) = Len(s)
    <3> HIDE DEF s
    <3>1. IsList(hd, tl, nx, pv, s)
      BY <1>1, <2>1
    <3> QED
      BY <1>1, <1>2, <3>1, Rotated, Zenon
  <2> HIDE DEF s, t, p
  <2> QED
    BY <1>4, <2>1, <2>2, <2>3
<1>8. w2[l] = t /\ \A o \in Lists \ {l} : w2[o] = w[o]
  BY <1>1
<1> HIDE DEF t, p
<1>9. \A m \in heap \ Elems(s) : next'[m] = next[m] /\ prev'[m] = prev[m]
  BY <1>3, <1>4, WriteIs
<1>10. /\ len'[l] = Len(t) /\ (l \in made' \/ t = <<>>) /\ t \in Seq(Nodes)
       /\ Elems(t) \intersect (heap \ Elems(s)) = {}
       /\ heap' = (heap \ Elems(s)) \union Elems(t)
       /\ \A o \in Lists \ {l} : /\ head'[o] = head[o] /\ tail'[o] = tail[o] /\ len'[o] = len[o]
                                 /\ (o \in made => o \in made')
  <2>1. len'[l] = Len(t) /\ l \in made' /\ t \in Seq(Nodes)
    BY <1>1, <1>4, <1>7 DEF Usable, IsList
  <2>2. Elems(t) \intersect (heap \ Elems(s)) = {} /\ heap' = (heap \ Elems(s)) \union Elems(t)
    BY <1>3, <1>4, <1>7
  <2> QED
    BY <1>4, <1>5, <2>1, <2>2
<1>11. Chained(w2)'
  <2> HIDE DEF s
  <2>1. s = w[l]
    BY DEF s
  <2> QED
    BY <1>7, <1>9, <1>10, <2>1, OneReplaced, ZenonT(60)
<1>12. Iterating(w2)'
  <2>1. \A o \in Lists \ {l} : \A m \in Elems(w[o]) : next'[m] = next[m] /\ prev'[m] = prev[m]
    BY <1>9, ElemsIn
  <2>2. Elems(w[l]) \subseteq Elems(w2[l])
    BY <1>7, <1>8
  <2> HIDE DEF w2
  <2> QED
    BY <1>4, <1>5, <1>8, <2>1, <2>2, IterationDisturbed
<1>13. w2 = [w EXCEPT ![l] = Rotation(@)]
  BY <1>1 DEF t
<1> HIDE DEF w2
<1> QED
  BY <1>2, <1>6, <1>11, <1>12, <1>13

-----------------------------------------------------------------------------
(* Creating, emptying and joining lists *)

\* The list l is made empty; the nodes it had keep no links.
LEMMA Emptied ==
  ASSUME TypeOK, NEW w, Chained(w), Iterating(w), NEW l \in Lists,
         head' = [head EXCEPT ![l] = Null], tail' = [tail EXCEPT ![l] = Null],
         len' = [len EXCEPT ![l] = 0], heap' = heap \ Elems(w[l]),
         \A n \in heap \ Elems(w[l]) : next'[n] = next[n] /\ prev'[n] = prev[n],
         \A o \in Lists \ {l} : o \in made => o \in made',
         iter.list # l, UNCHANGED iterVars
  PROVE  Chained([w EXCEPT ![l] = <<>>])' /\ Iterating([w EXCEPT ![l] = <<>>])'
<1> DEFINE w2 == [w EXCEPT ![l] = <<>>]
<1>1. head \in [Lists -> Pointers] /\ tail \in [Lists -> Pointers] /\ len \in [Lists -> Nat]
      /\ made \subseteq Lists /\ w \in [Lists -> Seq(Nodes)]
  BY DEF TypeOK, Chained
<1>2. /\ head'[l] = Null /\ tail'[l] = Null /\ len'[l] = 0
      /\ \A o \in Lists \ {l} : /\ head'[o] = head[o] /\ tail'[o] = tail[o] /\ len'[o] = len[o]
                                /\ (o \in made => o \in made')
  BY <1>1
<1>3. PICK t : t = <<>>
  OBVIOUS
<1>4. /\ t \in Seq(Nodes) /\ IsList(head'[l], tail'[l], next', prev', t) /\ Distinct(t)
      /\ len'[l] = Len(t) /\ (l \in made' \/ t = <<>>)
      /\ Elems(t) \intersect (heap \ Elems(w[l])) = {}
      /\ heap' = (heap \ Elems(w[l])) \union Elems(t)
  BY <1>2, <1>3, EmptyList
<1>5. Chained([w EXCEPT ![l] = t])'
  BY <1>2, <1>4, OneReplaced, ZenonT(60)
<1>6. Chained(w2)'
  BY <1>3, <1>5
<1>7. Iterating(w2)'
  <2>1. \A o \in Lists \ {l} : /\ w2[o] = w[o]
                               /\ \A m \in Elems(w[o]) : next'[m] = next[m] /\ prev'[m] = prev[m]
    BY <1>1, ElemsIn
  <2>2. iter.list \in made => /\ iter.list \in made' /\ w2[iter.list] = w[iter.list]
                              /\ \A m \in Elems(w[iter.list]) :
                                   next'[m] = next[m] /\ prev'[m] = prev[m]
    BY <1>1, <1>2, <2>1
  <2> HIDE DEF w2
  <2> QED
    BY <2>2, IterationKept
<1> QED
  BY <1>6, <1>7

\* listCreate makes an empty list.
LEMMA Create ==
  ASSUME TypeOK, NEW w, Chained(w), Iterating(w), NEW l \in Lists, listCreate(l)
  PROVE  /\ Chained([w EXCEPT ![l] = <<>>])' /\ Iterating([w EXCEPT ![l] = <<>>])'
         /\ w[l] = <<>>
<1>1. /\ l \notin made /\ made' = made \union {l}
      /\ head' = [head EXCEPT ![l] = Null] /\ tail' = [tail EXCEPT ![l] = Null]
      /\ len' = [len EXCEPT ![l] = 0] /\ heap' = heap /\ next' = next /\ prev' = prev
      /\ UNCHANGED iterVars
  BY DEF listCreate, fields
<1>2. w[l] = <<>>
  BY <1>1 DEF Chained
<1>3. Elems(w[l]) = {}
  BY <1>2, EmptyList
<1>4. iter.list # l
  BY <1>1, NullAssumption DEF Iterating, NoIter
<1>5. heap' = heap \ Elems(w[l])
  BY <1>1, <1>3
<1>6. /\ \A n \in heap \ Elems(w[l]) : next'[n] = next[n] /\ prev'[n] = prev[n]
      /\ \A o \in Lists \ {l} : o \in made => o \in made'
  BY <1>1
<1> QED
  BY <1>1, <1>2, <1>4, <1>5, <1>6, Emptied

\* listEmpty frees the nodes of its list and no other.
LEMMA FreedAll ==
  ASSUME TypeOK, NEW w, Chained(w), Iterating(w), NEW l \in Lists, FreeAll(l),
         \A o \in Lists \ {l} : o \in made => o \in made'
  PROVE  /\ Chained([w EXCEPT ![l] = <<>>])' /\ Iterating([w EXCEPT ![l] = <<>>])'
<1>1. /\ iter.list # l /\ heap' = heap \ Elems(w[l])
      /\ prev' = Clear(Elems(w[l]), prev) /\ next' = Clear(Elems(w[l]), next)
      /\ head' = [head EXCEPT ![l] = Null] /\ tail' = [tail EXCEPT ![l] = Null]
      /\ len' = [len EXCEPT ![l] = 0] /\ UNCHANGED iterVars
  <2>1. InList(l) = Elems(w[l])
    BY WalkIs
  <2> QED
    BY <2>1 DEF FreeAll, Free
<1>2. \A n \in heap \ Elems(w[l]) : next'[n] = next[n] /\ prev'[n] = prev[n]
  BY <1>1, ClearIs DEF TypeOK
<1> QED
  BY <1>1, <1>2, Emptied

\* listJoin moves the nodes of o behind those of l.
LEMMA Join ==
  ASSUME TypeOK, ~JoinEmpty, NEW w, Chained(w), Iterating(w), NEW l \in Lists, NEW o \in Lists,
         listJoin(l, o)
  PROVE  /\ Chained([w EXCEPT ![l] = w[l] \o w[o], ![o] = <<>>])'
         /\ Iterating([w EXCEPT ![l] = w[l] \o w[o], ![o] = <<>>])'
         /\ crashed' = crashed
<1> DEFINE s == w[l]
           u == w[o]
           t == s \o u
           w2 == [w EXCEPT ![l] = t, ![o] = <<>>]
<1>1. /\ s \in Seq(Nodes) /\ IsList(head[l], tail[l], next, prev, s) /\ Distinct(s)
      /\ len[l] = Len(s) /\ Len(s) \in Nat /\ w \in [Lists -> Seq(Nodes)]
  BY NodeIs DEF Chained
<1>2. /\ u \in Seq(Nodes) /\ IsList(head[o], tail[o], next, prev, u) /\ Distinct(u)
      /\ len[o] = Len(u) /\ Len(u) \in Nat
  BY NodeIs DEF Chained
<1>3. /\ Usable(l) /\ Usable(o) /\ l # o /\ iter.list # o /\ len[o] > 0
      /\ prev' = Write(prev, head[o], tail[l]) /\ next' = Write(next, tail[l], head[o])
      /\ head' = [head EXCEPT ![l] = IF tail[l] = Null THEN head[o] ELSE @, ![o] = Null]
      /\ tail' = [tail EXCEPT ![l] = tail[o], ![o] = Null]
      /\ len' = [len EXCEPT ![l] = @ + len[o], ![o] = 0]
      /\ Faults({head[o], tail[l]} \ {Null})
      /\ Disturb(l) /\ made' = made /\ heap' = heap
  BY DEF listJoin
<1>4. head \in [Lists -> Pointers] /\ tail \in [Lists -> Pointers] /\ len \in [Lists -> Nat]
      /\ crashed \in BOOLEAN /\ made \subseteq Lists
  BY DEF TypeOK
<1>5. Elems(s) \intersect Elems(u) = {} /\ Elems(s) \subseteq heap /\ Elems(u) \subseteq heap
      /\ heap \subseteq Nodes
  BY <1>3, ElemsIn DEF Chained, TypeOK
<1>6. head[o] \in Elems(u) \union {Null} /\ tail[l] \in Elems(s) \union {Null}
  BY <1>1, <1>2 DEF IsList, At, Elems
<1>7. crashed' = crashed
  BY <1>3, <1>4, <1>5, <1>6 DEF Faults
<1>8. /\ head'[l] = (IF tail[l] = Null THEN head[o] ELSE head[l]) /\ tail'[l] = tail[o]
      /\ len'[l] = Len(s) + Len(u) /\ head'[o] = Null /\ tail'[o] = Null /\ len'[o] = 0
      /\ \A q \in Lists \ {l, o} : head'[q] = head[q] /\ tail'[q] = tail[q] /\ len'[q] = len[q]
  BY <1>1, <1>2, <1>3, <1>4
<1>9. /\ IsList(head'[l], tail'[l], next', prev', t) /\ Distinct(t)
      /\ Elems(t) = Elems(s) \union Elems(u) /\ Len(t) = Len(s) + Len(u)
  <2>1. PICK hd, tl, nx, pv, hd2, tl2 : /\ hd = head[l] /\ tl = tail[l] /\ nx = next /\ pv = prev
                                        /\ hd2 = head[o] /\ tl2 = tail[o]
    OBVIOUS
  <2>2. Len(u) > 0
    BY <1>2, <1>3
  <2>3. IsList(hd, tl, nx, pv, s) /\ IsList(hd2, tl2, nx, pv, u)
    BY <1>1, <1>2, <2>1
  <2> HIDE DEF s, u
  <2>4. /\ IsList(IF tl = Null THEN hd2 ELSE hd, tl2, Write(nx, tl, hd2), Write(pv, hd2, tl), t)
        /\ Distinct(t) /\ Elems(t) = Elems(s) \union Elems(u) /\ Len(t) = Len(s) + Len(u)
    BY <1>1, <1>2, <1>5, <2>2, <2>3, Joined
  <2> HIDE DEF t
  <2> QED
    BY <1>3, <1>8, <2>1, <2>4
<1>10. t \in Seq(Nodes)
  BY <1>9 DEF IsList
<1> HIDE DEF t
<1>11. /\ w2 \in [Lists -> Seq(Nodes)] /\ w2[l] = t /\ w2[o] = <<>>
       /\ \A q \in Lists \ {l, o} : w2[q] = w[q]
  BY <1>1, <1>3, <1>10
<1>12. \A m \in heap : m \notin Elems(s) /\ m \notin Elems(u) => next'[m] = next[m] /\ prev'[m] = prev[m]
  BY <1>3, <1>5, <1>6, WriteIs, NullAssumption
<1> HIDE DEF w2
<1>13. \A q \in Lists \ {l, o} : Elems(w[q]) \subseteq heap \ (Elems(s) \union Elems(u))
  BY ElemsIn
<1>14. Chained(w2)'
  <2>1. Sound(l, w2[l])'
    BY <1>3, <1>8, <1>9, <1>11 DEF Usable, Sound
  <2>2. Sound(o, w2[o])'
    BY <1>8, <1>11, EmptyList DEF Sound
  <2>3. Elems(w2[o]) = {} /\ Elems(w2[l]) = Elems(s) \union Elems(u)
    BY <1>9, <1>11, EmptyList
  <2>4. ASSUME NEW q \in Lists \ {l, o} PROVE Sound(q, w2[q])' /\ w2[q] = w[q]
    <3>1. \A m \in Elems(w[q]) : next'[m] = next[m] /\ prev'[m] = prev[m]
      BY <1>12, <1>13
    <3>2. Sound(q, w[q])'
      BY <1>3, <1>8, <3>1, Kept
    <3> QED
      BY <1>11, <3>2
  <2>5. \A q \in Lists : Sound(q, w2[q])'
    BY <2>1, <2>2, <2>4
  <2>6. ASSUME NEW p \in Lists, NEW q \in Lists, p # q
        PROVE  Elems(w2[p]) \intersect Elems(w2[q]) = {}
    <3>1. CASE p \in {l, o} /\ q \in {l, o}
      BY <2>3, <2>6, <3>1
    <3>2. CASE p \in {l, o} /\ q \notin {l, o}
      BY <1>13, <2>3, <2>4, <3>2
    <3>3. CASE p \notin {l, o} /\ q \in {l, o}
      BY <1>13, <2>3, <2>4, <3>3
    <3>4. CASE p \notin {l, o} /\ q \notin {l, o}
      <4>1. Elems(w[p]) \intersect Elems(w[q]) = {}
        BY <2>6 DEF Chained
      <4> QED
        BY <2>4, <3>4, <4>1
    <3> QED
      BY <3>1, <3>2, <3>3, <3>4
  <2>7. heap' = UNION {Elems(w2[q]) : q \in Lists}
    <3>1. heap = UNION {Elems(w[q]) : q \in Lists}
      BY DEF Chained
    <3>2. \A n : (\E q \in Lists : n \in Elems(w[q])) <=> (\E q \in Lists : n \in Elems(w2[q]))
      BY <2>3, <2>4
    <3> QED
      BY <1>3, <3>1, <3>2
  <2> QED
    BY <1>11, <2>5, <2>6, <2>7 DEF Chained, Sound
<1>15. Iterating(w2)'
  <2>1. \A q \in Lists \ {l} : iter.list = q =>
          /\ w2[q] = w[q]
          /\ \A m \in Elems(w[q]) : next'[m] = next[m] /\ prev'[m] = prev[m]
    BY <1>3, <1>11, <1>12, <1>13
  <2>2. Elems(w[l]) \subseteq Elems(w2[l])
    BY <1>9, <1>11
  <2> QED
    BY <1>3, <1>4, <2>1, <2>2, IterationDisturbed
<1> QED
  BY <1>7, <1>14, <1>15 DEF w2, t

-----------------------------------------------------------------------------
(* Copying a list *)

\* The new list c gets the new nodes f with the values g, one for each of k.
Copies(c, k, f, g) ==
  /\ \A i \in 1..k : f[i] \in Nodes \ heap
  /\ \A i, j \in 1..k : f[i] = f[j] => i = j
  /\ made' = made \union {c} /\ heap' = heap \union {f[i] : i \in 1..k}
  /\ \A i \in 1..k : /\ next'[f[i]] = (IF i = k THEN Null ELSE f[i + 1])
                     /\ prev'[f[i]] = (IF i = 1 THEN Null ELSE f[i - 1])
                     /\ value'[f[i]] = g[i]
  /\ \A n \in heap : /\ next'[n] = next[n] /\ prev'[n] = prev[n]
                     /\ value'[n] = value[n]
  /\ prev' = [n \in Nodes |-> prev'[n]] /\ next' = [n \in Nodes |-> next'[n]]
  /\ value' = [n \in Nodes |-> value'[n]]
  /\ \A n \in Nodes : n \notin heap' =>
       next'[n] = next[n] /\ prev'[n] = prev[n] /\ value'[n] = value[n]
  /\ alive' = (IF HasFree THEN alive \union {g[i] : i \in 1..k} ELSE alive)
  /\ head' = [head EXCEPT ![c] = IF k = 0 THEN Null ELSE f[1]]
  /\ tail' = [tail EXCEPT ![c] = IF k = 0 THEN Null ELSE f[k]]
  /\ len' = [len EXCEPT ![c] = k]
  /\ UNCHANGED <<iterVars, crashed>>

\* The nodes of a copy are all different.
LEMMA Numbered ==
  ASSUME NEW k \in Nat, NEW f \in [1..k -> Nodes], Cardinality({f[i] : i \in 1..k}) = k
  PROVE  \A i, j \in 1..k : f[i] = f[j] => i = j
<1> DEFINE S == 1..k
           T == {f[i] : i \in 1..k}
<1>1. f \in Surjection(S, T)
  <2>1. \A i \in S : f[i] \in T
    OBVIOUS
  <2>2. \A t \in T : \E i \in S : f[i] = t
    OBVIOUS
  <2>3. f \in [S -> T]
    BY <2>1
  <2> QED
    BY <2>2, <2>3 DEF Surjection
<1>2. IsFiniteSet(S) /\ Cardinality(S) = k
  <2>1. 1 \in Int /\ k \in Int
    OBVIOUS
  <2>2. IsFiniteSet(1..k) /\ Cardinality(1..k) = IF 1 > k THEN 0 ELSE k - 1 + 1
    BY <2>1, FS_Interval, Zenon
  <2> QED
    BY <2>2
<1>3. Cardinality(T) = k
  OBVIOUS
<1> HIDE DEF S, T
<1>4. f \in Injection(S, T)
  BY <1>1, <1>2, <1>3, FS_Surjection
<1> QED
  BY <1>4 DEF Injection, IsInjective, S

\* listDup builds its copy from new nodes.
LEMMA Dup ==
  ASSUME TypeOK, NEW w, Chained(w), NEW o \in Lists, NEW c \in Lists, listDup(o, c)
  PROVE  /\ Usable(o) /\ c \notin made
         /\ \E f \in [1..Len(w[o]) -> Nodes \ heap], g \in Duplicates(w[o]) :
              Copies(c, Len(w[o]), f, g)
<1> DEFINE s == w[o]
           k == Len(s)
<1>1. s \in Seq(Nodes) /\ k \in Nat /\ Chain(next, head[o]) = s
  BY WalkIs, NodeIs DEF Chained
<1>2. /\ Usable(o) /\ c \notin made /\ made' = made \union {c}
      /\ len' = [len EXCEPT ![c] = k] /\ UNCHANGED <<iterVars, crashed>>
  BY <1>1 DEF listDup
<1> DEFINE Copied(q) ==
       \E f \in [1..Len(q) -> Nodes \ heap], g \in Duplicates(q) :
         LET new  == {f[i] : i \in 1..Len(q)}
             at   == [n \in new |-> CHOOSE i \in 1..Len(q) : f[i] = n]
             Node(i) == IF i \in 1..Len(q) THEN f[i] ELSE Null
         IN  /\ Cardinality(new) = Len(q)
             /\ heap' = heap \union new
             /\ prev' = [n \in Nodes |-> IF n \in new THEN Node(at[n] - 1) ELSE prev[n]]
             /\ next' = [n \in Nodes |-> IF n \in new THEN Node(at[n] + 1) ELSE next[n]]
             /\ value' = [n \in Nodes |-> IF n \in new THEN g[at[n]] ELSE value[n]]
             /\ alive' = (IF HasFree THEN alive \union {g[i] : i \in 1..Len(q)} ELSE alive)
             /\ head' = [head EXCEPT ![c] = Node(1)]
             /\ tail' = [tail EXCEPT ![c] = Node(Len(q))]
<1>a. Copied(Chain(next, head[o]))
  BY Zenon DEF listDup
<1>b. Copied(s)
  <2> HIDE DEF Copied, s
  <2> QED
    BY <1>1, <1>a
<1>3. PICK f \in [1..k -> Nodes \ heap], g \in Duplicates(s) :
       LET new  == {f[i] : i \in 1..k}
           at   == [n \in new |-> CHOOSE i \in 1..k : f[i] = n]
           Node(i) == IF i \in 1..k THEN f[i] ELSE Null
       IN  /\ Cardinality(new) = k
           /\ heap' = heap \union new
           /\ prev' = [n \in Nodes |-> IF n \in new THEN Node(at[n] - 1) ELSE prev[n]]
           /\ next' = [n \in Nodes |-> IF n \in new THEN Node(at[n] + 1) ELSE next[n]]
           /\ value' = [n \in Nodes |-> IF n \in new THEN g[at[n]] ELSE value[n]]
           /\ alive' = (IF HasFree THEN alive \union {g[i] : i \in 1..k} ELSE alive)
           /\ head' = [head EXCEPT ![c] = Node(1)]
           /\ tail' = [tail EXCEPT ![c] = Node(k)]
  <2> HIDE DEF s
  <2> QED
    BY <1>b, Zenon
<1> HIDE DEF Copied
<1> DEFINE new == {f[i] : i \in 1..k}
           at == [n \in new |-> CHOOSE i \in 1..k : f[i] = n]
           Node(i) == IF i \in 1..k THEN f[i] ELSE Null
<1>4. /\ Cardinality(new) = k
      /\ heap' = heap \union new
      /\ prev' = [n \in Nodes |-> IF n \in new THEN Node(at[n] - 1) ELSE prev[n]]
      /\ next' = [n \in Nodes |-> IF n \in new THEN Node(at[n] + 1) ELSE next[n]]
      /\ value' = [n \in Nodes |-> IF n \in new THEN g[at[n]] ELSE value[n]]
      /\ alive' = (IF HasFree THEN alive \union {g[i] : i \in 1..k} ELSE alive)
      /\ head' = [head EXCEPT ![c] = Node(1)]
      /\ tail' = [tail EXCEPT ![c] = Node(k)]
  BY <1>3, Zenon
<1>5. \A i, j \in 1..k : f[i] = f[j] => i = j
  <2>1. f \in [1..k -> Nodes]
    OBVIOUS
  <2> HIDE DEF s
  <2> QED
    BY <1>1, <1>4, <2>1, Numbered
<1>6. \A i \in 1..k : f[i] \in new /\ at[f[i]] = i
  <2>1. ASSUME NEW i \in 1..k PROVE f[i] \in new /\ at[f[i]] = i
    <3>1. f[i] \in new
      OBVIOUS
    <3>2. at[f[i]] = CHOOSE j \in 1..k : f[j] = f[i]
      BY <3>1
    <3> DEFINE j0 == CHOOSE j \in 1..k : f[j] = f[i]
    <3>3. j0 \in 1..k /\ f[j0] = f[i]
      OBVIOUS
    <3> HIDE DEF j0
    <3>4. j0 = i
      BY <1>5, <3>3
    <3> QED
      BY <3>1, <3>2, <3>4 DEF j0
  <2> QED
    BY <2>1
<1>7. \A i \in 1..k : f[i] \in Nodes \ heap
  OBVIOUS
<1>8. new \intersect heap = {} /\ heap \subseteq Nodes
  BY <1>7 DEF TypeOK
<1>9. new = {f[i] : i \in 1..k}
  OBVIOUS
<1> HIDE DEF at, new
<1>10. \A i \in 1..k : /\ next'[f[i]] = (IF i = k THEN Null ELSE f[i + 1])
                       /\ prev'[f[i]] = (IF i = 1 THEN Null ELSE f[i - 1])
                       /\ value'[f[i]] = g[i]
  <2>1. ASSUME NEW i \in 1..k
        PROVE  /\ next'[f[i]] = (IF i = k THEN Null ELSE f[i + 1])
               /\ prev'[f[i]] = (IF i = 1 THEN Null ELSE f[i - 1])
               /\ value'[f[i]] = g[i]
    <3>1. f[i] \in Nodes /\ f[i] \in new /\ at[f[i]] = i
      BY <1>6, <1>7
    <3>2. next'[f[i]] = Node(i + 1) /\ prev'[f[i]] = Node(i - 1) /\ value'[f[i]] = g[i]
      BY <1>4, <3>1
    <3>3. (i + 1 \in 1..k <=> i # k) /\ (i - 1 \in 1..k <=> i # 1)
      BY <1>1
    <3> QED
      BY <3>2, <3>3
  <2> QED
    BY <2>1
<1>11. \A n \in Nodes : n \notin new => /\ next'[n] = next[n] /\ prev'[n] = prev[n]
                                        /\ value'[n] = value[n]
  BY <1>4
<1>12. Node(1) = (IF k = 0 THEN Null ELSE f[1]) /\ Node(k) = (IF k = 0 THEN Null ELSE f[k])
  BY <1>1
<1>13. /\ prev' = [n \in Nodes |-> prev'[n]] /\ next' = [n \in Nodes |-> next'[n]]
       /\ value' = [n \in Nodes |-> value'[n]]
  BY <1>4
<1>14. /\ \A n \in heap : /\ next'[n] = next[n] /\ prev'[n] = prev[n]
                          /\ value'[n] = value[n]
       /\ \A n \in Nodes : n \notin heap' =>
            next'[n] = next[n] /\ prev'[n] = prev[n] /\ value'[n] = value[n]
  BY <1>4, <1>8, <1>11
<1>15. head' = [head EXCEPT ![c] = IF k = 0 THEN Null ELSE f[1]]
       /\ tail' = [tail EXCEPT ![c] = IF k = 0 THEN Null ELSE f[k]]
  BY <1>4, <1>12
<1>16. heap' = heap \union {f[i] : i \in 1..k}
       /\ alive' = (IF HasFree THEN alive \union {g[i] : i \in 1..k} ELSE alive)
  BY <1>4, <1>9
<1> HIDE DEF Node, s
<1>17. Copies(c, k, f, g)
  BY <1>2, <1>5, <1>7, <1>10, <1>13, <1>14, <1>15, <1>16 DEF Copies
<1> QED
  BY <1>2, <1>17 DEF s

\* The copy is a chain, and the other lists are untouched.
LEMMA Copied ==
  ASSUME TypeOK, NEW w, Chained(w), Iterating(w), NEW c \in Lists, c \notin made,
         NEW k \in Nat, NEW f \in [1..k -> Nodes \ heap], NEW g, Copies(c, k, f, g)
  PROVE  Chained([w EXCEPT ![c] = f])' /\ Iterating([w EXCEPT ![c] = f])'
<1> DEFINE w2 == [w EXCEPT ![c] = f]
<1>1. /\ \A i \in 1..k : f[i] \in Nodes \ heap
      /\ \A i, j \in 1..k : f[i] = f[j] => i = j
      /\ made' = made \union {c} /\ heap' = heap \union {f[i] : i \in 1..k}
      /\ \A i \in 1..k : /\ next'[f[i]] = (IF i = k THEN Null ELSE f[i + 1])
                         /\ prev'[f[i]] = (IF i = 1 THEN Null ELSE f[i - 1])
      /\ \A n \in heap : next'[n] = next[n] /\ prev'[n] = prev[n]
      /\ head' = [head EXCEPT ![c] = IF k = 0 THEN Null ELSE f[1]]
      /\ tail' = [tail EXCEPT ![c] = IF k = 0 THEN Null ELSE f[k]]
      /\ len' = [len EXCEPT ![c] = k]
      /\ UNCHANGED iterVars
  BY DEF Copies
<1>2. f \in Seq(Nodes) /\ Len(f) = k
  <2>1. f \in [1..k -> Nodes]
    OBVIOUS
  <2> QED
    BY <2>1
<1>3. head \in [Lists -> Pointers] /\ tail \in [Lists -> Pointers] /\ len \in [Lists -> Nat]
      /\ made \subseteq Lists /\ w \in [Lists -> Seq(Nodes)]
  BY DEF TypeOK, Chained
<1>4. /\ head'[c] = (IF k = 0 THEN Null ELSE f[1]) /\ tail'[c] = (IF k = 0 THEN Null ELSE f[k])
      /\ len'[c] = k
      /\ \A o \in Lists \ {c} : /\ head'[o] = head[o] /\ tail'[o] = tail[o] /\ len'[o] = len[o]
                                /\ (o \in made => o \in made')
  BY <1>1, <1>3
<1>5. w[c] = <<>>
  BY DEF Chained
<1>6. Elems(w[c]) = {} /\ Elems(f) = {f[i] : i \in 1..k}
  BY <1>2, <1>5, EmptyList DEF Elems
<1>7. IsList(head'[c], tail'[c], next', prev', f)
  <2>1. head'[c] = At(f, 1) /\ tail'[c] = At(f, k)
    <3>1. k = 0 \/ (1 \in 1..k /\ k \in 1..k)
      OBVIOUS
    <3> QED
      BY <1>2, <1>4, <3>1 DEF At
  <2>2. ASSUME NEW i \in 1..k PROVE next'[f[i]] = At(f, i + 1) /\ prev'[f[i]] = At(f, i - 1)
    <3>1. (i + 1 \in 1..k <=> i # k) /\ (i - 1 \in 1..k <=> i # 1)
      OBVIOUS
    <3> QED
      BY <1>1, <1>2, <3>1 DEF At
  <2> QED
    BY <1>2, <2>1, <2>2 DEF IsList
<1>8. Distinct(f)
  BY <1>1, <1>2 DEF Distinct
<1>9. /\ len'[c] = Len(f) /\ (c \in made' \/ f = <<>>)
      /\ Elems(f) \intersect (heap \ Elems(w[c])) = {}
      /\ heap' = (heap \ Elems(w[c])) \union Elems(f)
      /\ \A n \in heap \ Elems(w[c]) : next'[n] = next[n] /\ prev'[n] = prev[n]
  BY <1>1, <1>2, <1>4, <1>6
<1>10. Chained(w2)'
  BY <1>2, <1>4, <1>7, <1>8, <1>9, OneReplaced, ZenonT(60)
<1>11. Iterating(w2)'
  <2>1. iter.list \in made => /\ iter.list \in made' /\ w2[iter.list] = w[iter.list]
                              /\ \A m \in Elems(w[iter.list]) :
                                   next'[m] = next[m] /\ prev'[m] = prev[m]
    BY <1>1, <1>3, ElemsIn
  <2> HIDE DEF w2
  <2> QED
    BY <1>1, <2>1, IterationKept
<1> QED
  BY <1>10, <1>11

-----------------------------------------------------------------------------
(* The calls of the iterator *)

\* A call that writes no field leaves the chains alone.
LEMMA ChainedKept ==
  ASSUME NEW w, Chained(w), UNCHANGED <<made, headers, heap, fields>>
  PROVE  Chained(w)'
BY DEF Chained, headers, fields

\* A new iteration has the whole list before it, in its direction.
LEMMA Rewind ==
  ASSUME TypeOK, NEW w, Chained(w), NEW l \in Lists, NEW dir \in {"head", "tail"},
         listRewind(l, dir)
  PROVE  Chained(w)' /\ Iterating(w)' /\ todo' \in Seq(Nodes) /\ iter'.next \in Pointers
<1> DEFINE s == w[l]
           x == IF dir = "head" THEN head[l] ELSE tail[l]
           t == IF dir = "head" THEN s ELSE Reverse(s)
<1>1. /\ l \in made /\ iter' = [list |-> l, dir |-> dir, next |-> x]
      /\ given' = Null /\ calm' = TRUE /\ todo' = t
      /\ UNCHANGED <<made, headers, heap, fields>>
  <2>1. Walk(l) = s
    BY WalkIs
  <2> QED
    BY <2>1 DEF listRewind, Usable
<1>2. Chained(w)'
  BY <1>1, ChainedKept
<1>3. /\ s \in Seq(Nodes) /\ IsList(head[l], tail[l], next, prev, s) /\ Distinct(s)
      /\ Len(s) \in Nat
  BY NodeIs DEF Chained
<1>4. iter'.list = l /\ iter'.dir = dir /\ iter'.next = x
  BY <1>1
<1>5. x \in Elems(s) \union {Null} /\ Elems(s) \subseteq Nodes
  BY <1>3, NodeIs DEF IsList, At, Elems
<1>6. Leads(Link(dir)', x, t) /\ Distinct(t) /\ Elems(t) \subseteq Elems(s)
      /\ t \in Seq(Nodes)
  <2>1. CASE dir = "head"
    <3>1. Link(dir)' = next
      BY <1>1, <2>1 DEF Link, fields
    <3>2. Leads(next, head[l], s)
      BY <1>3 DEF IsList, Leads
    <3> QED
      BY <1>3, <2>1, <3>1, <3>2
  <2>2. CASE dir # "head"
    <3>1. Link(dir)' = prev
      BY <1>1, <2>2 DEF Link, fields
    <3> HIDE DEF s
    <3>2. Leads(prev, tail[l], Reverse(s)) /\ Distinct(Reverse(s))
      BY <1>3, ListLeads
    <3>3. /\ Reverse(s) \in Seq(Nodes) /\ Len(Reverse(s)) = Len(s)
          /\ \A i \in 1..Len(s) : Reverse(s)[i] = s[(Len(s) + 1) - i]
      BY <1>3, ReverseIs
    <3>4. \A i \in 1..Len(s) : (Len(s) + 1) - i \in 1..Len(s)
      BY <1>3
    <3>5. Elems(Reverse(s)) \subseteq Elems(s)
      BY <3>3, <3>4 DEF Elems
    <3> QED
      BY <2>2, <3>1, <3>2, <3>3, <3>5
  <2> QED
    BY <2>1, <2>2
<1>7. Null \notin Elems(t)
  BY <1>5, <1>6, NullAssumption
<1> HIDE DEF x, t
<1>8. Leads(Link(iter.dir), iter.next, todo)'
  <2>1. Link(iter.dir)' = Link(dir)'
    BY <1>4 DEF Link
  <2> QED
    BY <1>1, <1>4, <1>6, <2>1
<1>9. Iterating(w)'
  <2>1. /\ (iter.list)' \in made' /\ w[(iter.list)'] = s
        /\ (iter.next)' = x /\ given' = Null /\ todo' = t
    BY <1>1, <1>4, <1>2 DEF headers
  <2> HIDE DEF s
  <2> QED
    BY <1>5, <1>6, <1>7, <1>8, <2>1 DEF Iterating
<1> QED
  BY <1>1, <1>2, <1>4, <1>5, <1>6, <1>9 DEF Pointers

\* listNext reads an allocated node, and the next one before it is handed out.
LEMMA NextGiven ==
  ASSUME TypeOK, NEW w, Chained(w), Iterating(w), listNext
  PROVE  /\ Chained(w)' /\ Iterating(w)' /\ crashed' = crashed
         /\ todo' \in Seq(Nodes) /\ (iter.next)' \in Pointers
<1> DEFINE s == w[iter.list]
           n == iter.next
           dir == iter.dir
<1>1. /\ iter # NoIter /\ n # Null /\ given' = n
      /\ iter' = [iter EXCEPT !.next = Link(dir)[n]]
      /\ todo' = (IF calm THEN Tail(todo) ELSE todo) /\ calm' = calm
      /\ Faults({n}) /\ UNCHANGED <<made, headers, heap, fields>>
  BY DEF listNext
<1>2. /\ iter \in [list : Lists \union {Null}, dir : {"head", "tail"}, next : Pointers]
      /\ todo \in Seq(Nodes) /\ calm \in BOOLEAN /\ crashed \in BOOLEAN /\ made \subseteq Lists
  BY DEF TypeOK
<1>3. (iter.list)' = iter.list /\ (iter.dir)' = dir /\ (iter.next)' = Link(dir)[n]
  BY <1>1, <1>2
<1>4. /\ iter.list \in made /\ iter.list \in Lists
      /\ n \in Elems(s)
      /\ calm => /\ Leads(Link(dir), n, todo) /\ Distinct(todo)
                 /\ Elems(todo) \subseteq Elems(s)
  BY <1>1, <1>2 DEF Iterating
<1>5. /\ s \in Seq(Nodes) /\ Distinct(s) /\ Elems(s) \subseteq heap /\ Elems(s) \subseteq Nodes
      /\ IsList(head[iter.list], tail[iter.list], next, prev, s)
  BY <1>4, ElemsIn DEF Chained
<1>6. Chained(w)' /\ crashed' = crashed
  BY <1>1, <1>2, <1>4, <1>5, ChainedKept DEF Faults
<1>7. Link(dir)[n] \in Elems(s) \union {Null} /\ Link(dir)[n] # n
  <2> HIDE DEF s, n
  <2>1. /\ next[n] \in Elems(s) \union {Null} /\ next[n] # n
        /\ prev[n] \in Elems(s) \union {Null} /\ prev[n] # n
    BY <1>4, <1>5, Neighbours
  <2> QED
    BY <2>1 DEF Link
<1>8. (Link(iter.dir))' = Link(dir)
  BY <1>1, <1>3 DEF Link, fields
<1>9. ASSUME calm
      PROVE  /\ todo' \in Seq(Nodes) /\ Leads(Link(dir), Link(dir)[n], todo') /\ Distinct(todo')
             /\ Elems(todo') \subseteq Elems(s) /\ n \notin Elems(todo')
  <2>1. /\ Leads(Link(dir), n, todo) /\ Distinct(todo) /\ Elems(todo) \subseteq Elems(s)
        /\ todo' = Tail(todo)
    BY <1>1, <1>4, <1>9
  <2> HIDE DEF n, s
  <2>2. /\ todo \in Seq(Nodes) /\ Len(todo) \in Nat /\ n = At(todo, 1)
        /\ \A i \in 1..Len(todo) : Link(dir)[todo[i]] = At(todo, i + 1)
    BY <1>2, <2>1, LenProperties DEF Leads
  <2>3. 1 \in 1..Len(todo) /\ n = todo[1] /\ todo # <<>>
    <3>1. 1 \in 1..Len(todo)
      BY <1>1, <2>2 DEF At, n
    <3> QED
      BY <2>2, <3>1 DEF At
  <2>4. /\ todo' \in Seq(Nodes) /\ Len(todo') = Len(todo) - 1
        /\ \A i \in 1..Len(todo) - 1 : todo'[i] = todo[i + 1]
    <3>1. /\ Tail(todo) \in Seq(Nodes) /\ Len(Tail(todo)) = Len(todo) - 1
          /\ \A i \in 1..Len(Tail(todo)) : Tail(todo)[i] = todo[i + 1]
      BY <2>2, <2>3, HeadTailProperties
    <3> QED
      BY <2>1, <3>1
  <2>5. \A j \in Nat \ {0} : At(todo', j) = At(todo, j + 1)
    <3>1. \A j \in Nat \ {0} : j \in 1..Len(todo) - 1 <=> j + 1 \in 1..Len(todo)
      BY <2>2
    <3> QED
      BY <2>4, <3>1 DEF At
  <2>6. \A i \in 1..Len(todo) - 1 : i + 1 \in 1..Len(todo) /\ i + 1 # 1 /\ i + 1 \in Nat \ {0}
    BY <2>2
  <2>7. Leads(Link(dir), Link(dir)[n], todo')
    <3>1. Link(dir)[n] = At(todo', 1)
      BY <2>2, <2>3, <2>5
    <3>2. ASSUME NEW i \in 1..Len(todo') PROVE Link(dir)[todo'[i]] = At(todo', i + 1)
      BY <2>2, <2>4, <2>5, <2>6
    <3> QED
      BY <2>4, <3>1, <3>2 DEF Leads
  <2>8. Distinct(todo')
    <3>1. ASSUME NEW i \in 1..Len(todo) - 1, NEW j \in 1..Len(todo) - 1, todo'[i] = todo'[j]
          PROVE  i = j
      <4>1. todo[i + 1] = todo[j + 1] /\ i + 1 \in 1..Len(todo) /\ j + 1 \in 1..Len(todo)
        BY <2>4, <2>6, <3>1
      <4>2. i + 1 = j + 1
        BY <2>1, <4>1 DEF Distinct
      <4> QED
        BY <2>2, <4>2
    <3> QED
      BY <2>4, <3>1 DEF Distinct
  <2>9. Elems(todo') \subseteq Elems(s) /\ n \notin Elems(todo')
    <3>1. \A i \in 1..Len(todo) - 1 : todo'[i] \in Elems(todo) /\ todo'[i] # n
      BY <2>1, <2>3, <2>4, <2>6 DEF Distinct, Elems
    <3> QED
      BY <2>1, <2>4, <3>1 DEF Elems
  <2> QED
    BY <2>4, <2>7, <2>8, <2>9
<1>10. (iter.list \in made)' /\ w[(iter.list)'] = s
  BY <1>1, <1>3, <1>4
<1> HIDE DEF s, n, dir
<1>11. calm' => Leads(Link(iter.dir), iter.next, todo)'
  BY <1>1, <1>3, <1>8, <1>9
<1>12. calm' => /\ Distinct(todo') /\ Elems(todo') \subseteq Elems(s)
                /\ given' \notin Elems(todo')
  BY <1>1, <1>9
<1>13. Iterating(w)'
  <2>1. (iter.next)' \in Elems(s) \union {Null} /\ given' \in Elems(s) /\ given' # (iter.next)'
    BY <1>1, <1>3, <1>4, <1>7
  <2> QED
    BY <1>10, <1>11, <1>12, <2>1 DEF Iterating
<1>14. todo' \in Seq(Nodes)
  BY <1>1, <1>2, <1>9
<1>15. (iter.next)' \in Pointers
  BY <1>3, <1>5, <1>7 DEF Pointers
<1> QED
  BY <1>6, <1>13, <1>14, <1>15

\* Without an iterator nothing has to go on.
LEMMA ReleasedIterator ==
  ASSUME NEW w, Chained(w), listReleaseIterator
  PROVE  Chained(w)' /\ Iterating(w)'
<1>1. iter' = NoIter /\ calm' = FALSE /\ UNCHANGED <<made, headers, heap, fields>>
  BY DEF listReleaseIterator
<1>2. Chained(w)'
  BY <1>1, ChainedKept
<1> QED
  BY <1>1, <1>2 DEF Iterating, NoIter

-----------------------------------------------------------------------------
(* The inductive invariant *)

\* Every node holds what a caller stored.
Held == \A n \in heap : value[n] \in Values

\* What the nodes hold is theirs alone, where a list may free it.
Sane == FreeDups => ~crashed /\ Owned

ListInv == TypeOK /\ Held /\ Sane /\ \E w : Chained(w) /\ Iterating(w)

\* Lists that free their values also copy them.
LEMMA BothMethods ==
  ASSUME TypeOK, FreeDups, HasFree
  PROVE  HasDup
BY DEF TypeOK, FreeDups, HasFree, HasDup

\* The iterator keeps its type when its list is changed.
LEMMA DisturbTypes ==
  ASSUME TypeOK, NEW l \in Lists, Disturb(l)
  PROVE  (/\ iter \in [list : Lists \union {Null}, dir : {"head", "tail"}, next : Pointers]
          /\ given \in Pointers /\ todo \in Seq(Nodes) /\ calm \in BOOLEAN)'
<1>1. /\ iter \in [list : Lists \union {Null}, dir : {"head", "tail"}, next : Pointers]
      /\ given \in Pointers /\ todo \in Seq(Nodes) /\ calm \in BOOLEAN
      /\ <<>> \in Seq(Nodes)
  BY DEF TypeOK
<1>2. CASE iter.list = l
  BY <1>1, <1>2 DEF Disturb
<1>3. CASE iter.list # l
  BY <1>1, <1>3 DEF Disturb, iterVars
<1> QED
  BY <1>2, <1>3

\* Adding a node keeps the invariant.
LEMMA GrowsInv ==
  ASSUME TypeOK, Held, Sane, NEW w, Chained(w), Iterating(w), NEW l \in Lists, NEW n \in Nodes \ heap,
         NEW k \in 1..Len(w[l]) + 1, NEW v \in Values, Grows(w, l, n, k, v), UNCHANGED methods
  PROVE  ListInv'
<1>1. (\E w2 : Chained(w2) /\ Iterating(w2))'
  BY Grown
<1>2. /\ heap' = heap \union {n} /\ Store(n, v) /\ crashed' = crashed
      /\ head' = [head EXCEPT ![l] = IF k = 1 THEN n ELSE @]
      /\ tail' = [tail EXCEPT ![l] = IF k = Len(w[l]) + 1 THEN n ELSE @]
      /\ next' = Write(Write(next, n, At(w[l], k)), At(w[l], k - 1), n)
      /\ prev' = Write(Write(prev, n, At(w[l], k - 1)), At(w[l], k), n)
      /\ len' = [len EXCEPT ![l] = @ + 1] /\ made' = made /\ Disturb(l)
  BY DEF Grows
<1>3. /\ value' = Write(value, n, v)
      /\ IF HasFree THEN v \notin alive /\ alive' = alive \union {v} ELSE alive' = alive
  BY <1>2 DEF Store
<1>4. TypeOK'
  <2>1. /\ made \subseteq Lists /\ heap \subseteq Nodes /\ alive \subseteq Values
        /\ head \in [Lists -> Pointers] /\ tail \in [Lists -> Pointers]
        /\ len \in [Lists -> Nat] /\ crashed \in BOOLEAN /\ methods \in Methods
        /\ prev \in [Nodes -> Pointers] /\ next \in [Nodes -> Pointers]
        /\ value \in [Nodes -> Values \union {Null}]
    BY DEF TypeOK
  <2>2. n \in Pointers
    BY DEF Pointers
  <2>3. (/\ made \subseteq Lists /\ heap \subseteq Nodes /\ crashed \in BOOLEAN /\ methods \in Methods)'
    BY <1>2, <2>1
  <2>4. alive' \subseteq Values
    BY <1>3, <2>1
  <2>5. head' \in [Lists -> Pointers] /\ tail' \in [Lists -> Pointers]
    BY <1>2, <2>1, <2>2
  <2>6. len' \in [Lists -> Nat]
    BY <1>2, <2>1
  <2>7. At(w[l], k - 1) \in Pointers /\ At(w[l], k) \in Pointers
    <3>1. w[l] \in Seq(Nodes)
      BY DEF Chained
    <3> QED
      BY <3>1, NodeIs DEF At, Pointers
  <2>8. prev' \in [Nodes -> Pointers] /\ next' \in [Nodes -> Pointers]
    BY <1>2, <2>1, <2>2, <2>7 DEF Write
  <2>9. value' \in [Nodes -> Values \union {Null}]
    BY <1>3, <2>1 DEF Write
  <2>10. (/\ iter \in [list : Lists \union {Null}, dir : {"head", "tail"}, next : Pointers]
          /\ given \in Pointers /\ todo \in Seq(Nodes) /\ calm \in BOOLEAN)'
    BY <1>2, DisturbTypes
  <2> QED
    BY <2>3, <2>4, <2>5, <2>6, <2>8, <2>9, <2>10 DEF TypeOK
<1>5. Sane'
  <2> SUFFICES ASSUME FreeDups PROVE (~crashed /\ Owned)'
    BY DEF Sane
  <2>1. ~crashed /\ Owned
    BY DEF Sane
  <2>2. ASSUME HasFree
        PROVE  \A m, p \in heap' : value'[p] \in alive' /\ (m # p => value'[m] # value'[p])
    <3>1. \A m, p \in heap : value[p] \in alive /\ (m # p => value[m] # value[p])
      BY <2>1, <2>2 DEF Owned
    <3>2. \A m \in heap : value'[m] = value[m]
      BY <1>3 DEF Write, TypeOK
    <3>3. value'[n] = v /\ alive' = alive \union {v} /\ v \notin alive
      BY <1>3, <2>2 DEF Write
    <3> QED
      BY <1>2, <3>1, <3>2, <3>3
  <2> QED
    BY <1>2, <2>1, <2>2 DEF Owned, HasFree
<1>6. Held'
  <2>1. n \in Nodes /\ heap \subseteq Nodes
    BY DEF TypeOK
  <2> QED
    BY <1>2, <1>3, <2>1 DEF Held, Write
<1> QED
  BY <1>1, <1>4, <1>5, <1>6 DEF ListInv

\* listDelNode keeps the invariant.
LEMMA DeleteInv ==
  ASSUME TypeOK, Held, Sane, NEW w, Chained(w), Iterating(w), NEW l \in Lists, NEW n \in Nodes,
         listDelNode(l, n), UNCHANGED methods
  PROVE  ListInv'
<1>1. PICK k \in 1..Len(w[l]) :
        /\ n = w[l][k]
        /\ Chained([w EXCEPT ![l] = RemoveAt(@, k)])'
        /\ Iterating([w EXCEPT ![l] = RemoveAt(@, k)])'
        /\ {n} \union ({prev[n], next[n]} \ {Null}) \subseteq heap
  BY Delete
<1>2. (\E w2 : Chained(w2) /\ Iterating(w2))'
  BY <1>1
<1>3. /\ head' = [head EXCEPT ![l] = IF prev[n] = Null THEN next[n] ELSE @]
      /\ tail' = [tail EXCEPT ![l] = IF next[n] = Null THEN prev[n] ELSE @]
      /\ prev' = Clear({n}, Write(prev, next[n], prev[n]))
      /\ next' = Clear({n}, Write(next, prev[n], next[n]))
      /\ value' = Clear({n}, value)
      /\ heap' = heap \ {n} /\ len' = [len EXCEPT ![l] = @ - 1]
      /\ alive' = (IF HasFree THEN alive \ {value[n]} ELSE alive)
      /\ crashed' = (\/ crashed
                     \/ ~({n} \union ({prev[n], next[n]} \ {Null}) \subseteq heap)
                     \/ HasFree /\ value[n] \notin alive)
      /\ given' = (IF iter.list = l THEN Null ELSE given)
      /\ made' = made /\ iter' = iter /\ todo' = todo /\ calm' = calm
  BY DEF listDelNode, Free
<1>4. TypeOK'
  <2>1. /\ made \subseteq Lists /\ heap \subseteq Nodes /\ alive \subseteq Values
        /\ head \in [Lists -> Pointers] /\ tail \in [Lists -> Pointers]
        /\ len \in [Lists -> Nat] /\ crashed \in BOOLEAN /\ methods \in Methods
        /\ prev \in [Nodes -> Pointers] /\ next \in [Nodes -> Pointers]
        /\ value \in [Nodes -> Values \union {Null}] /\ Null \in Pointers
        /\ iter \in [list : Lists \union {Null}, dir : {"head", "tail"}, next : Pointers]
        /\ given \in Pointers /\ todo \in Seq(Nodes) /\ calm \in BOOLEAN
    BY DEF TypeOK, Pointers
  <2>2. (/\ made \subseteq Lists /\ heap \subseteq Nodes /\ alive \subseteq Values
         /\ crashed \in BOOLEAN /\ methods \in Methods
         /\ iter \in [list : Lists \union {Null}, dir : {"head", "tail"}, next : Pointers]
         /\ given \in Pointers /\ todo \in Seq(Nodes) /\ calm \in BOOLEAN)'
    BY <1>3, <2>1
  <2>3. head' \in [Lists -> Pointers] /\ tail' \in [Lists -> Pointers]
    BY <1>3, <2>1
  <2>4. len' \in [Lists -> Nat]
    <3>1. w[l] \in Seq(Nodes) /\ len[l] = Len(w[l])
      BY DEF Chained
    <3>2. len[l] - 1 \in Nat
      BY <1>1, <3>1, NodeIs
    <3> QED
      BY <1>3, <2>1, <3>2
  <2>5. prev' \in [Nodes -> Pointers] /\ next' \in [Nodes -> Pointers]
    BY <1>3, <2>1 DEF Write, Clear
  <2>6. value' \in [Nodes -> Values \union {Null}]
    BY <1>3, <2>1 DEF Clear
  <2> QED
    BY <2>2, <2>3, <2>4, <2>5, <2>6 DEF TypeOK
<1>5. Sane'
  <2> SUFFICES ASSUME FreeDups PROVE (~crashed /\ Owned)'
    BY DEF Sane
  <2>1. ~crashed /\ Owned
    BY DEF Sane
  <2>2. n \in heap /\ heap \subseteq Nodes
    BY <1>1 DEF TypeOK
  <2>3. HasFree => value[n] \in alive
    BY <2>1, <2>2 DEF Owned
  <2>4. ASSUME HasFree
        PROVE  \A m, p \in heap' : value'[p] \in alive' /\ (m # p => value'[m] # value'[p])
    <3>1. \A m, p \in heap : value[p] \in alive /\ (m # p => value[m] # value[p])
      BY <2>1, <2>4 DEF Owned
    <3>2. \A m \in heap \ {n} : value'[m] = value[m]
      BY <1>3, <2>2, ClearIs
    <3>3. alive' = alive \ {value[n]} /\ heap' = heap \ {n}
      BY <1>3, <2>4
    <3> QED
      BY <2>2, <3>1, <3>2, <3>3
  <2>5. ~crashed'
    BY <1>1, <1>3, <2>1, <2>3
  <2> QED
    BY <2>4, <2>5 DEF Owned, HasFree
<1>6. Held'
  <2>1. heap \subseteq Nodes
    BY DEF TypeOK
  <2>2. \A m \in heap \ {n} : value'[m] = value[m]
    BY <1>3, <2>1, ClearIs
  <2> QED
    BY <1>3, <2>2 DEF Held
<1> QED
  BY <1>2, <1>4, <1>5, <1>6 DEF ListInv

\* listRotate keeps the invariant.
LEMMA RotateInv ==
  ASSUME TypeOK, Held, Sane, NEW w, Chained(w), Iterating(w), NEW l \in Lists, listRotate(l),
         UNCHANGED methods
  PROVE  ListInv'
<1>1. (\E w2 : Chained(w2) /\ Iterating(w2))' /\ crashed' = crashed
  BY Rotate
<1> DEFINE t == tail[l]
           p == IF t \in Nodes THEN prev[t] ELSE Null
<1>2. /\ tail' = [tail EXCEPT ![l] = p] /\ head' = [head EXCEPT ![l] = t]
      /\ prev' = Write(Write(prev, head[l], t), t, Null)
      /\ next' = Write(Write(next, p, Null), t, head[l])
      /\ Disturb(l) /\ UNCHANGED <<made, len, heap, value, alive>>
  BY DEF listRotate
<1>3. TypeOK'
  <2>1. /\ made \subseteq Lists /\ heap \subseteq Nodes /\ alive \subseteq Values
        /\ head \in [Lists -> Pointers] /\ tail \in [Lists -> Pointers]
        /\ len \in [Lists -> Nat] /\ crashed \in BOOLEAN /\ methods \in Methods
        /\ prev \in [Nodes -> Pointers] /\ next \in [Nodes -> Pointers]
        /\ value \in [Nodes -> Values \union {Null}] /\ Null \in Pointers
    BY DEF TypeOK, Pointers
  <2>2. t \in Pointers /\ p \in Pointers /\ head[l] \in Pointers
    BY <2>1
  <2> HIDE DEF t, p
  <2>3. head' \in [Lists -> Pointers] /\ tail' \in [Lists -> Pointers]
    BY <1>2, <2>1, <2>2
  <2>4. prev' \in [Nodes -> Pointers] /\ next' \in [Nodes -> Pointers]
    BY <1>2, <2>1, <2>2 DEF Write
  <2>5. (/\ iter \in [list : Lists \union {Null}, dir : {"head", "tail"}, next : Pointers]
         /\ given \in Pointers /\ todo \in Seq(Nodes) /\ calm \in BOOLEAN)'
    BY <1>2, DisturbTypes
  <2> QED
    BY <1>1, <1>2, <2>1, <2>3, <2>4, <2>5 DEF TypeOK
<1>4. Sane'
  BY <1>1, <1>2 DEF Sane, Owned, HasFree
<1>5. Held'
  BY <1>2 DEF Held
<1> QED
  BY <1>1, <1>3, <1>4, <1>5 DEF ListInv

\* listJoin keeps the invariant, if the second list is not empty.
LEMMA JoinInv ==
  ASSUME TypeOK, Held, Sane, ~JoinEmpty, NEW w, Chained(w), Iterating(w), NEW l \in Lists,
         NEW o \in Lists, listJoin(l, o), UNCHANGED methods
  PROVE  ListInv'
<1>1. (\E w2 : Chained(w2) /\ Iterating(w2))' /\ crashed' = crashed
  BY Join
<1>2. /\ prev' = Write(prev, head[o], tail[l]) /\ next' = Write(next, tail[l], head[o])
      /\ head' = [head EXCEPT ![l] = IF tail[l] = Null THEN head[o] ELSE @, ![o] = Null]
      /\ tail' = [tail EXCEPT ![l] = tail[o], ![o] = Null]
      /\ len' = [len EXCEPT ![l] = @ + len[o], ![o] = 0]
      /\ Disturb(l) /\ UNCHANGED <<made, heap, value, alive>>
  BY DEF listJoin
<1>3. TypeOK'
  <2>1. /\ made \subseteq Lists /\ heap \subseteq Nodes /\ alive \subseteq Values
        /\ head \in [Lists -> Pointers] /\ tail \in [Lists -> Pointers]
        /\ len \in [Lists -> Nat] /\ crashed \in BOOLEAN /\ methods \in Methods
        /\ prev \in [Nodes -> Pointers] /\ next \in [Nodes -> Pointers]
        /\ value \in [Nodes -> Values \union {Null}] /\ Null \in Pointers
    BY DEF TypeOK, Pointers
  <2>2. head' \in [Lists -> Pointers] /\ tail' \in [Lists -> Pointers]
    BY <1>2, <2>1
  <2>3. prev' \in [Nodes -> Pointers] /\ next' \in [Nodes -> Pointers]
    BY <1>2, <2>1 DEF Write
  <2>4. len' \in [Lists -> Nat]
    BY <1>2, <2>1
  <2>5. (/\ iter \in [list : Lists \union {Null}, dir : {"head", "tail"}, next : Pointers]
         /\ given \in Pointers /\ todo \in Seq(Nodes) /\ calm \in BOOLEAN)'
    BY <1>2, DisturbTypes
  <2> QED
    BY <1>1, <1>2, <2>1, <2>2, <2>3, <2>4, <2>5 DEF TypeOK
<1>4. Sane'
  BY <1>1, <1>2 DEF Sane, Owned, HasFree
<1>5. Held'
  BY <1>2 DEF Held
<1> QED
  BY <1>1, <1>3, <1>4, <1>5 DEF ListInv

\* listCreate keeps the invariant.
LEMMA CreateInv ==
  ASSUME TypeOK, Held, Sane, NEW w, Chained(w), Iterating(w), NEW l \in Lists, listCreate(l),
         UNCHANGED methods
  PROVE  ListInv'
<1>1. (\E w2 : Chained(w2) /\ Iterating(w2))'
  BY Create
<1>2. /\ made' = made \union {l}
      /\ head' = [head EXCEPT ![l] = Null] /\ tail' = [tail EXCEPT ![l] = Null]
      /\ len' = [len EXCEPT ![l] = 0]
      /\ UNCHANGED <<heap, prev, next, value, alive, iter, given, todo, calm, crashed>>
  BY DEF listCreate, fields, iterVars
<1>3. TypeOK'
  BY <1>2 DEF TypeOK, Pointers
<1>4. Sane'
  BY <1>2 DEF Sane, Owned, HasFree
<1>5. Held'
  BY <1>2 DEF Held
<1> QED
  BY <1>1, <1>3, <1>4, <1>5 DEF ListInv

\* listEmpty and listRelease keep the invariant.
LEMMA FreeInv ==
  ASSUME TypeOK, Held, Sane, NEW w, Chained(w), Iterating(w), NEW l \in Lists, FreeAll(l),
         made' \in SUBSET made, \A o \in Lists \ {l} : o \in made => o \in made',
         UNCHANGED methods
  PROVE  ListInv'
<1> DEFINE S == Elems(w[l])
           gone == {value[n] : n \in S}
<1>1. (\E w2 : Chained(w2) /\ Iterating(w2))'
  BY FreedAll
<1>2. InList(l) = S /\ S \subseteq heap /\ S \subseteq Nodes /\ S \ {Null} = S
  <2>1. Null \notin Nodes
    BY NullAssumption
  <2> QED
    BY <2>1, WalkIs, ElemsIn
<1>3. /\ heap' = heap \ S
      /\ prev' = Clear(S, prev) /\ next' = Clear(S, next) /\ value' = Clear(S, value)
      /\ alive' = (IF HasFree THEN alive \ gone ELSE alive)
      /\ crashed' = (\/ crashed \/ ~(S \subseteq heap)
                     \/ HasFree /\ (~(gone \subseteq alive) \/ Cardinality(gone) # len[l]))
      /\ head' = [head EXCEPT ![l] = Null] /\ tail' = [tail EXCEPT ![l] = Null]
      /\ len' = [len EXCEPT ![l] = 0]
      /\ UNCHANGED <<iter, given, todo, calm>>
  <2> HIDE DEF S
  <2> QED
    BY <1>2 DEF FreeAll, Free, iterVars
<1>4. TypeOK'
  <2>1. (/\ made \subseteq Lists /\ heap \subseteq Nodes /\ alive \subseteq Values
         /\ crashed \in BOOLEAN /\ methods \in Methods
         /\ iter \in [list : Lists \union {Null}, dir : {"head", "tail"}, next : Pointers]
         /\ given \in Pointers /\ todo \in Seq(Nodes) /\ calm \in BOOLEAN)'
    BY <1>3 DEF TypeOK
  <2>2. /\ head' \in [Lists -> Pointers] /\ tail' \in [Lists -> Pointers]
        /\ len' \in [Lists -> Nat]
    BY <1>3 DEF TypeOK, Pointers
  <2>3. /\ prev' \in [Nodes -> Pointers] /\ next' \in [Nodes -> Pointers]
        /\ value' \in [Nodes -> Values \union {Null}]
    BY <1>3 DEF TypeOK, Pointers, Clear
  <2> QED
    BY <2>1, <2>2, <2>3 DEF TypeOK
<1>5. Sane'
  <2> SUFFICES ASSUME FreeDups PROVE (~crashed /\ Owned)'
    BY DEF Sane
  <2>1. ~crashed /\ Owned
    BY DEF Sane
  <2> HIDE DEF S
  <2>2. ASSUME HasFree
        PROVE  /\ gone \subseteq alive /\ Cardinality(gone) = len[l]
               /\ \A m, p \in heap' : value'[p] \in alive' /\ (m # p => value'[m] # value'[p])
    <3>1. \A m, p \in heap : value[p] \in alive /\ (m # p => value[m] # value[p])
      BY <2>1, <2>2 DEF Owned
    <3>2. gone \subseteq alive
      BY <1>2, <3>1
    <3>3. Cardinality(gone) = len[l]
      <4> DEFINE f == [n \in S |-> value[n]]
      <4>1. w[l] \in Seq(Nodes) /\ Distinct(w[l]) /\ len[l] = Len(w[l])
        BY DEF Chained
      <4>2. Cardinality(S) = len[l]
        BY <4>1, Size DEF S, Elems
      <4>3. IsFiniteSet(S)
        BY <1>2, NodesAssumption, FS_Subset
      <4>4. DOMAIN f = S /\ f = [n \in S |-> f[n]] /\ \A n \in S : f[n] = value[n]
        OBVIOUS
      <4>5. \A m, p \in S : f[m] = f[p] => m = p
        BY <1>2, <3>1
      <4>6. gone = {f[n] : n \in S}
        OBVIOUS
      <4> HIDE DEF f
      <4>7. Cardinality({f[n] : n \in S}) = Cardinality(S)
        BY <4>3, <4>4, <4>5, ImageSize
      <4> QED
        BY <4>2, <4>6, <4>7
    <3>4. \A m \in heap \ S : m \in Nodes /\ value'[m] = value[m] /\ value[m] \notin gone
      <4>1. heap \subseteq Nodes
        BY DEF TypeOK
      <4>2. \A m \in heap \ S : value[m] \notin gone
        BY <1>2, <3>1
      <4> QED
        BY <1>3, <4>1, <4>2, ClearIs
    <3>5. alive' = alive \ gone /\ heap' = heap \ S
      BY <1>3, <2>2
    <3> QED
      BY <3>1, <3>2, <3>3, <3>4, <3>5
  <2>3. ~crashed'
    BY <1>2, <1>3, <2>1, <2>2
  <2> QED
    BY <2>2, <2>3 DEF Owned, HasFree
<1>6. Held'
  <2> HIDE DEF S
  <2>1. heap \subseteq Nodes
    BY DEF TypeOK
  <2>2. \A m \in heap \ S : value'[m] = value[m]
    BY <1>3, <2>1, ClearIs
  <2> QED
    BY <1>3, <2>2 DEF Held
<1> QED
  BY <1>1, <1>4, <1>5, <1>6 DEF ListInv

\* listDup keeps the invariant.
LEMMA DupInv ==
  ASSUME TypeOK, Held, Sane, NEW w, Chained(w), Iterating(w), NEW o \in Lists, NEW c \in Lists,
         listDup(o, c), UNCHANGED methods
  PROVE  ListInv'
<1> DEFINE s == w[o]
           k == Len(s)
<1>1. PICK f \in [1..k -> Nodes \ heap], g \in Duplicates(s) : Copies(c, k, f, g)
  BY Dup
<1>2. c \notin made
  BY Dup
<1>3. s \in Seq(Nodes) /\ k \in Nat /\ Elems(s) \subseteq heap
  BY NodeIs, ElemsIn DEF Chained
<1>4. (\E w2 : Chained(w2) /\ Iterating(w2))'
  <2> HIDE DEF s
  <2> QED
    BY <1>1, <1>2, <1>3, Copied
<1> DEFINE new == {f[i] : i \in 1..k}
<1>5. /\ \A i \in 1..k : f[i] \in Nodes \ heap
      /\ \A i, j \in 1..k : f[i] = f[j] => i = j
      /\ made' = made \union {c} /\ heap' = heap \union new
      /\ \A i \in 1..k : /\ next'[f[i]] = (IF i = k THEN Null ELSE f[i + 1])
                         /\ prev'[f[i]] = (IF i = 1 THEN Null ELSE f[i - 1])
                         /\ value'[f[i]] = g[i]
      /\ \A n \in Nodes : n \notin new =>
           next'[n] = next[n] /\ prev'[n] = prev[n] /\ value'[n] = value[n]
      /\ prev' = [n \in Nodes |-> prev'[n]] /\ next' = [n \in Nodes |-> next'[n]]
      /\ value' = [n \in Nodes |-> value'[n]]
      /\ alive' = (IF HasFree THEN alive \union {g[i] : i \in 1..k} ELSE alive)
      /\ head' = [head EXCEPT ![c] = IF k = 0 THEN Null ELSE f[1]]
      /\ tail' = [tail EXCEPT ![c] = IF k = 0 THEN Null ELSE f[k]]
      /\ len' = [len EXCEPT ![c] = k]
      /\ UNCHANGED <<iter, given, todo, calm, crashed>>
  <2> HIDE DEF s
  <2> QED
    BY <1>1 DEF Copies, iterVars
<1>6. \A i \in 1..k : s[i] \in heap /\ s[i] \in Nodes /\ value[s[i]] \in Values
  BY <1>3, NodeIs DEF Elems, TypeOK, Held
<1>7. Len(s) = k
  OBVIOUS
<1> HIDE DEF s
<1>8. \A i \in 1..k : g[i] \in Values
  <2>1. CASE HasDup
    BY <1>7, <2>1 DEF Duplicates
  <2>2. CASE ~HasDup
    BY <1>6, <1>7, <2>2 DEF Duplicates, ValuesOf
  <2> QED
    BY <2>1, <2>2
<1>9. ASSUME FreeDups, HasFree
      PROVE  \A i, j \in 1..k : g[i] \in Values \ alive /\ (i # j => g[i] # g[j])
  <2>1. HasDup
    BY <1>9, BothMethods
  <2> QED
    BY <1>7, <1>9, <2>1 DEF Duplicates
<1>10. heap \subseteq Nodes /\ new \subseteq Nodes \ heap
  BY <1>5 DEF TypeOK
<1>11. Held'
  <2>1. \A n \in heap : value'[n] = value[n]
    BY <1>5, <1>10
  <2>2. \A n \in new : value'[n] \in Values
    BY <1>5, <1>8
  <2> QED
    BY <1>5, <2>1, <2>2 DEF Held
<1>12. \A n \in new : \E i \in 1..k : n = f[i]
  OBVIOUS
<1>13. {g[i] : i \in 1..k} \subseteq Values
  BY <1>8
<1> HIDE DEF new
<1>14. TypeOK'
  <2>1. /\ made \subseteq Lists /\ heap \subseteq Nodes /\ alive \subseteq Values
        /\ head \in [Lists -> Pointers] /\ tail \in [Lists -> Pointers]
        /\ len \in [Lists -> Nat] /\ crashed \in BOOLEAN /\ methods \in Methods
        /\ prev \in [Nodes -> Pointers] /\ next \in [Nodes -> Pointers]
        /\ value \in [Nodes -> Values \union {Null}] /\ Null \in Pointers
        /\ Nodes \subseteq Pointers
        /\ iter \in [list : Lists \union {Null}, dir : {"head", "tail"}, next : Pointers]
        /\ given \in Pointers /\ todo \in Seq(Nodes) /\ calm \in BOOLEAN
    BY DEF TypeOK, Pointers
  <2>2. made' \subseteq Lists /\ heap' \subseteq Nodes
    BY <1>5, <1>10, <2>1
  <2>3. alive' \subseteq Values
    BY <1>5, <1>13, <2>1
  <2>4. \A i \in 1..k : f[i] \in Pointers
    BY <1>5, <2>1
  <2>5. k = 0 \/ (1 \in 1..k /\ k \in 1..k)
    BY <1>3
  <2>6. head' \in [Lists -> Pointers] /\ tail' \in [Lists -> Pointers]
    BY <1>5, <2>1, <2>4, <2>5
  <2>7. len' \in [Lists -> Nat]
    BY <1>3, <1>5, <2>1
  <2>8. ASSUME NEW n \in Nodes
        PROVE  /\ next'[n] \in Pointers /\ prev'[n] \in Pointers
               /\ value'[n] \in Values \union {Null}
    <3>1. CASE n \notin new
      BY <1>5, <2>1, <3>1
    <3>2. CASE n \in new
      <4>1. PICK i \in 1..k : n = f[i]
        BY <1>12, <3>2
      <4>2. (i = k \/ i + 1 \in 1..k) /\ (i = 1 \/ i - 1 \in 1..k)
        BY <1>3
      <4>3. /\ next'[n] = (IF i = k THEN Null ELSE f[i + 1])
            /\ prev'[n] = (IF i = 1 THEN Null ELSE f[i - 1])
            /\ value'[n] = g[i]
        BY <1>5, <4>1
      <4> QED
        BY <1>8, <2>1, <2>4, <4>2, <4>3
    <3> QED
      BY <3>1, <3>2
  <2>9. /\ prev' \in [Nodes -> Pointers] /\ next' \in [Nodes -> Pointers]
        /\ value' \in [Nodes -> Values \union {Null}]
    BY <1>5, <2>8, Zenon
  <2>10. (/\ iter \in [list : Lists \union {Null}, dir : {"head", "tail"}, next : Pointers]
          /\ given \in Pointers /\ todo \in Seq(Nodes) /\ calm \in BOOLEAN
          /\ crashed \in BOOLEAN /\ methods \in Methods)'
    BY <1>5, <2>1
  <2> QED
    BY <2>2, <2>3, <2>6, <2>7, <2>9, <2>10 DEF TypeOK
<1>15. Sane'
  <2> SUFFICES ASSUME FreeDups PROVE (~crashed /\ Owned)'
    BY DEF Sane
  <2>1. ~crashed /\ Owned
    BY DEF Sane
  <2>2. ASSUME HasFree
        PROVE  \A m, p \in heap' : value'[p] \in alive' /\ (m # p => value'[m] # value'[p])
    <3>1. \A m, p \in heap : value[p] \in alive /\ (m # p => value[m] # value[p])
      BY <2>1, <2>2 DEF Owned
    <3>2. \A i, j \in 1..k : g[i] \in Values \ alive /\ (i # j => g[i] # g[j])
      BY <1>9, <2>2
    <3>3. \A m \in heap : value'[m] = value[m]
      BY <1>5, <1>10
    <3>4. alive' = alive \union {g[i] : i \in 1..k}
      BY <1>5, <2>2
    <3>5. \A m \in new : value'[m] \in alive' /\ value'[m] \notin alive
      BY <1>5, <1>12, <3>2, <3>4
    <3>6. \A m, p \in new : m # p => value'[m] # value'[p]
      BY <1>5, <1>12, <3>2
    <3>7. heap' = heap \union new
      BY <1>5
    <3> QED
      BY <3>1, <3>3, <3>4, <3>5, <3>6, <3>7
  <2> QED
    BY <1>5, <2>1, <2>2 DEF Owned, HasFree
<1> QED
  BY <1>4, <1>11, <1>14, <1>15 DEF ListInv

\* A listDup that fails keeps the invariant.
LEMMA DupFailsInv ==
  ASSUME TypeOK, Held, Sane, NEW w, Chained(w), Iterating(w), NEW l \in Lists,
         listDupFails(l), UNCHANGED methods
  PROVE  ListInv'
<1>1. HasFree /\ UNCHANGED <<made, headers, heap, fields, iterVars, crashed>>
  BY DEF listDupFails
<1>2. \/ HasDup /\ \E v \in Values \ alive : alive' = alive \union {v}
      \/ ~HasDup /\ alive' \subseteq alive
  BY DEF listDupFails
<1>3. Chained(w)' /\ Iterating(w)'
  BY <1>1 DEF Chained, Iterating, headers, fields, iterVars, Link
<1>4. TypeOK'
  BY <1>1, <1>2 DEF TypeOK, headers, fields, iterVars
<1>5. Held'
  BY <1>1 DEF Held, fields
<1>6. Sane'
  <2> SUFFICES ASSUME FreeDups PROVE (~crashed /\ Owned)'
    BY DEF Sane
  <2>1. ~crashed /\ Owned
    BY DEF Sane
  <2>2. alive \subseteq alive'
    BY <1>1, <1>2, BothMethods
  <2> QED
    BY <1>1, <2>1, <2>2 DEF Owned, HasFree, fields
<1> QED
  BY <1>3, <1>4, <1>5, <1>6 DEF ListInv

\* Starting an iteration keeps the invariant.
LEMMA RewindInv ==
  ASSUME TypeOK, Held, Sane, NEW w, Chained(w), NEW l \in Lists, NEW dir \in {"head", "tail"},
         listRewind(l, dir), UNCHANGED methods
  PROVE  ListInv'
<1>1. Chained(w)' /\ Iterating(w)' /\ todo' \in Seq(Nodes) /\ (iter.next)' \in Pointers
  BY Rewind
<1>2. /\ \E x : iter' = [list |-> l, dir |-> dir, next |-> x]
      /\ given' = Null /\ calm' = TRUE
      /\ UNCHANGED <<made, headers, heap, fields, alive, crashed>>
  BY DEF listRewind
<1>3. (iter \in [list : Lists \union {Null}, dir : {"head", "tail"}, next : Pointers])'
  BY <1>1, <1>2
<1>4. TypeOK'
  BY <1>1, <1>2, <1>3 DEF TypeOK, Pointers, headers, fields
<1>5. Held' /\ Sane'
  BY <1>2 DEF Held, Sane, Owned, HasFree, fields
<1> QED
  BY <1>1, <1>4, <1>5 DEF ListInv

\* listNext keeps the invariant.
LEMMA NextInv ==
  ASSUME TypeOK, Held, Sane, NEW w, Chained(w), Iterating(w), listNext, UNCHANGED methods
  PROVE  ListInv'
<1>1. /\ Chained(w)' /\ Iterating(w)' /\ crashed' = crashed
      /\ todo' \in Seq(Nodes) /\ (iter.next)' \in Pointers
  BY NextGiven
<1>2. /\ iter' = [iter EXCEPT !.next = Link(iter.dir)[@]] /\ given' = iter.next
      /\ UNCHANGED <<made, headers, heap, fields, alive, calm>>
  BY DEF listNext
<1>3. /\ iter \in [list : Lists \union {Null}, dir : {"head", "tail"}, next : Pointers]
      /\ given' \in Pointers
  BY <1>2 DEF TypeOK
<1>4. (iter \in [list : Lists \union {Null}, dir : {"head", "tail"}, next : Pointers])'
  BY <1>1, <1>2, <1>3
<1>5. TypeOK'
  BY <1>1, <1>2, <1>3, <1>4 DEF TypeOK, headers, fields
<1>6. Held' /\ Sane'
  BY <1>1, <1>2 DEF Held, Sane, Owned, HasFree, fields
<1> QED
  BY <1>1, <1>5, <1>6 DEF ListInv

\* Ending an iteration keeps the invariant.
LEMMA ReleaseIteratorInv ==
  ASSUME TypeOK, Held, Sane, NEW w, Chained(w), listReleaseIterator, UNCHANGED methods
  PROVE  ListInv'
<1>1. Chained(w)' /\ Iterating(w)'
  BY ReleasedIterator
<1>2. /\ iter' = NoIter /\ given' = Null /\ todo' = <<>> /\ calm' = FALSE
      /\ UNCHANGED <<made, headers, heap, fields, alive, crashed>>
  BY DEF listReleaseIterator
<1>3. TypeOK'
  <2>1. NoIter \in [list : Lists \union {Null}, dir : {"head", "tail"}, next : Pointers]
        /\ Null \in Pointers /\ <<>> \in Seq(Nodes)
    BY DEF NoIter, Pointers
  <2> QED
    BY <1>2, <2>1 DEF TypeOK, headers, fields
<1>4. Held' /\ Sane'
  BY <1>2 DEF Held, Sane, Owned, HasFree, fields
<1> QED
  BY <1>1, <1>3, <1>4 DEF ListInv

\* At first no list exists.
LEMMA InitInv == Init => ListInv
<1> SUFFICES ASSUME Init PROVE ListInv
  OBVIOUS
<1>1. TypeOK
  <2>1. NoIter \in [list : Lists \union {Null}, dir : {"head", "tail"}, next : Pointers]
        /\ Null \in Pointers /\ <<>> \in Seq(Nodes) /\ 0 \in Nat
    BY DEF NoIter, Pointers
  <2> QED
    BY <2>1 DEF Init, TypeOK
<1>2. Held /\ Sane
  BY DEF Init, Held, Sane, Owned
<1> DEFINE w == [l \in Lists |-> <<>>]
<1>3. w \in [Lists -> Seq(Nodes)] /\ \A l \in Lists : w[l] = <<>>
  OBVIOUS
<1> HIDE DEF w
<1>4. Chained(w)
  <2>1. Elems(<<>>) = {} /\ Distinct(<<>>) /\ Len(<<>>) = 0
    BY DEF Elems, Distinct
  <2>2. IsList(Null, Null, next, prev, <<>>)
    BY <2>1 DEF IsList, At
  <2> QED
    BY <1>3, <2>1, <2>2 DEF Init, Chained
<1>5. Iterating(w)
  BY DEF Init, Iterating
<1> QED
  BY <1>1, <1>2, <1>4, <1>5 DEF ListInv

\* Every call keeps the invariant.
LEMMA NextKeeps ==
  ASSUME ~JoinEmpty, ListInv, [Next]_vars
  PROVE  ListInv'
<1>1. PICK w : Chained(w) /\ Iterating(w)
  BY DEF ListInv
<1>2. TypeOK /\ Held /\ Sane
  BY DEF ListInv
<1>3. CASE Next
  <2>0. UNCHANGED methods
    BY <1>3 DEF Next
  <2>1. ASSUME NEW l \in Lists, listCreate(l) PROVE ListInv'
    BY <1>1, <1>2, <2>0, <2>1, CreateInv
  <2>2. ASSUME NEW l \in Lists, listEmpty(l) PROVE ListInv'
    BY <1>1, <1>2, <2>0, <2>2, FreeInv DEF listEmpty
  <2>3. ASSUME NEW l \in Lists, listRelease(l) PROVE ListInv'
    BY <1>1, <1>2, <2>0, <2>3, FreeInv DEF listRelease
  <2>4. ASSUME NEW l \in Lists, listRotate(l) PROVE ListInv'
    BY <1>1, <1>2, <2>0, <2>4, RotateInv
  <2>5. ASSUME NEW l \in Lists, listDupFails(l) PROVE ListInv'
    BY <1>1, <1>2, <2>0, <2>5, DupFailsInv
  <2>6. ASSUME NEW l \in Lists, NEW o \in Lists, listJoin(l, o) PROVE ListInv'
    BY <1>1, <1>2, <2>0, <2>6, JoinInv
  <2>7. ASSUME NEW l \in Lists, NEW o \in Lists, listDup(l, o) PROVE ListInv'
    BY <1>1, <1>2, <2>0, <2>7, DupInv
  <2>8. ASSUME NEW l \in Lists, NEW v \in Values, listAddNodeHead(l, v) PROVE ListInv'
    <3>1. PICK n \in Nodes \ heap : Grows(w, l, n, 1, v)
      BY <1>1, <1>2, <2>8, AddHead
    <3>2. 1 \in 1..Len(w[l]) + 1
      BY <1>1, NodeIs DEF Chained
    <3> QED
      BY <1>1, <1>2, <2>0, <3>1, <3>2, GrowsInv
  <2>9. ASSUME NEW l \in Lists, NEW v \in Values, listAddNodeTail(l, v) PROVE ListInv'
    <3>1. PICK n \in Nodes \ heap : Grows(w, l, n, Len(w[l]) + 1, v)
      BY <1>1, <1>2, <2>9, AddTail
    <3>2. Len(w[l]) + 1 \in 1..Len(w[l]) + 1
      BY <1>1, NodeIs DEF Chained
    <3> QED
      BY <1>1, <1>2, <2>0, <3>1, <3>2, GrowsInv
  <2>10. ASSUME NEW l \in Lists, NEW old \in Nodes, NEW v \in Values, NEW after \in BOOLEAN,
                listInsertNode(l, old, v, after)
         PROVE  ListInv'
    <3>1. PICK n \in Nodes \ heap, k \in 1..Len(w[l]) + 1 : Grows(w, l, n, k, v)
      BY <1>1, <1>2, <2>10, Insert
    <3> QED
      BY <1>1, <1>2, <2>0, <3>1, GrowsInv
  <2>11. ASSUME NEW l \in Lists, NEW n \in Nodes, listDelNode(l, n) PROVE ListInv'
    BY <1>1, <1>2, <2>0, <2>11, DeleteInv
  <2>12. ASSUME NEW l \in Lists, NEW dir \in {"head", "tail"}, listRewind(l, dir) PROVE ListInv'
    BY <1>1, <1>2, <2>0, <2>12, RewindInv
  <2>13. CASE listNext
    BY <1>1, <1>2, <2>0, <2>13, NextInv
  <2>14. CASE listReleaseIterator
    BY <1>1, <1>2, <2>0, <2>14, ReleaseIteratorInv
  <2> QED
    BY <1>3, <2>1, <2>2, <2>3, <2>4, <2>5, <2>6, <2>7, <2>8, <2>9, <2>10, <2>11, <2>12, <2>13,
       <2>14 DEF Next, Call
<1>4. CASE UNCHANGED vars
  <2>1. UNCHANGED <<made, headers, heap, fields, alive, iterVars, crashed, methods>>
    BY <1>4 DEF vars
  <2>2. Chained(w)' /\ Iterating(w)'
    BY <1>1, <2>1 DEF Chained, Iterating, headers, fields, iterVars, Link
  <2>3. TypeOK'
    BY <1>2, <2>1 DEF TypeOK, headers, fields, iterVars
  <2>4. Held' /\ Sane'
    BY <1>2, <2>1 DEF Held, Sane, Owned, HasFree, fields
  <2> QED
    BY <2>2, <2>3, <2>4 DEF ListInv
<1> QED
  BY <1>3, <1>4

\* If callers join no empty list, then in every reachable state the lists are
\* chains of their own nodes and the iterator is on one of its list (ListInv).
THEOREM ListInvariant == ASSUME ~JoinEmpty PROVE Spec => []ListInv
<1>1. ListInv /\ [Next]_vars => ListInv'
  BY NextKeeps
<1> QED
  BY <1>1, InitInv, PTL DEF Spec

\* Linked, for any number of lists, nodes and values: every call of mcr_list.c
\* leaves each header at the two ends of one chain of len nodes that agrees in both
\* directions, no node in two lists and none lost.
THEOREM ListLinked == ASSUME ~JoinEmpty PROVE Spec => []Linked
<1>1. ListInv => Linked
  BY ChainedLinked DEF ListInv
<1> QED
  BY <1>1, ListInvariant, PTL

\* LookupsRight: listIndex returns the element its index names from either end, and
\* NULL beyond; listSearchKey the first match.
THEOREM ListLookups == ASSUME ~JoinEmpty PROVE Spec => []LookupsRight
<1>1. ListInv => LookupsRight
  BY ChainedLookups DEF ListInv
<1> QED
  BY <1>1, ListInvariant, PTL

\* The iterator is where IterationExact wants it.
LEMMA Exact == ListInv => IterationExact
<1> SUFFICES ASSUME ListInv PROVE IterationExact
  OBVIOUS
<1>1. PICK w : Chained(w) /\ Iterating(w)
  BY DEF ListInv
<1>2. CASE iter = NoIter /\ calm = FALSE
  BY <1>2 DEF IterationExact, NoIter
<1>3. CASE ~(iter = NoIter /\ calm = FALSE)
  <2>1. /\ iter.list \in Lists /\ iter.next \in Elems(w[iter.list]) \union {Null}
        /\ calm => Leads(Link(iter.dir), iter.next, todo) /\ Distinct(todo)
    BY <1>1, <1>3 DEF Iterating, ListInv, TypeOK
  <2>2. Elems(w[iter.list]) \subseteq heap
    BY <1>1, <2>1, ElemsIn
  <2>3. calm => Chain(Link(iter.dir), iter.next) = todo
    BY <2>1, ChainIs
  <2> QED
    BY <2>1, <2>2, <2>3 DEF IterationExact
<1> QED
  BY <1>2, <1>3

\* IterationExact: deleting the current element never makes an iteration skip,
\* repeat or meet a freed node, and no other call makes it meet one.
THEOREM ListIterations == ASSUME ~JoinEmpty PROVE Spec => []IterationExact
BY Exact, ListInvariant, PTL

\* NoFault: if lists that free their values also have a method to copy them, no
\* call dereferences NULL or a freed node or frees a value twice.
THEOREM ListSafe == ASSUME ~JoinEmpty, FreeDups PROVE Spec => []NoFault
<1>1. ListInv => NoFault
  BY DEF ListInv, Sane, Owned, NoFault, OwnValues
<1> QED
  BY <1>1, ListInvariant, PTL

-----------------------------------------------------------------------------
(* What a list holds: the sequences of ListSeq *)

\* The lists as sequences of values, and what a sequence of nodes holds.
Items == [l \in Lists |-> IF l \in made THEN ValuesOf(Walk(l)) ELSE <<>>]
Vals(s, val) == [i \in 1..Len(s) |-> val[s[i]]]

\* What the nodes hold after an insertion.
LEMMA ValsInserted ==
  ASSUME NEW s \in Seq(Nodes), NEW k \in 1..Len(s) + 1, NEW n \in Nodes,
         NEW val \in [Nodes -> Values \union {Null}], NEW val2 \in [Nodes -> Values \union {Null}],
         \A i \in 1..Len(s) : val2[s[i]] = val[s[i]]
  PROVE  Vals(InsertAt(s, k, n), val2) = InsertAt(Vals(s, val), k, val2[n])
<1> DEFINE S == Values \union {Null}
           v == val2[n]
           u == Vals(s, val)
           t == InsertAt(s, k, n)
           r == InsertAt(u, k, v)
<1>1. Len(s) \in Nat
  BY NodeIs
<1>0. v \in S /\ \A i \in 1..Len(s) : val[s[i]] \in S
  BY NodeIs
<1> HIDE DEF S, v
<1>2. u \in Seq(S) /\ Len(u) = Len(s) /\ \A i \in 1..Len(s) : u[i] = val[s[i]]
  <2>1. u \in [1..Len(s) -> S]
    BY <1>0 DEF Vals
  <2> QED
    BY <1>1, <2>1 DEF Vals
<1>3. /\ t \in Seq(Nodes) /\ Len(t) = Len(s) + 1
      /\ \A i \in 1..Len(s) + 1 : t[i] = IF i < k THEN s[i] ELSE IF i = k THEN n ELSE s[i - 1]
  <2>1. s \in Seq(Nodes) /\ k \in 1..Len(s) + 1 /\ n \in Nodes
    OBVIOUS
  <2> HIDE DEF u
  <2> QED
    BY <2>1, InsertAtIs, SMTT(30)
<1> HIDE DEF u, t
<1>4. k \in 1..Len(u) + 1
  BY <1>2
<1>5. /\ r \in Seq(S) /\ Len(r) = Len(u) + 1
      /\ \A i \in 1..Len(u) + 1 :
           r[i] = IF i < k THEN u[i] ELSE IF i = k THEN v ELSE u[i - 1]
  <2>1. u \in Seq(S) /\ v \in S
    BY <1>2, <1>0
  <2> QED
    BY <1>4, <2>1, InsertAtIs
<1> HIDE DEF r
<1>6. ASSUME NEW i \in 1..Len(s) + 1 PROVE r[i] = val2[t[i]]
  <2>1. i \in 1..Len(u) + 1
    BY <1>2
  <2>2. CASE i < k
    <3>1. r[i] = u[i] /\ t[i] = s[i] /\ i \in 1..Len(s)
      BY <1>1, <1>3, <1>5, <2>1, <2>2
    <3> QED
      BY <1>2, <3>1
  <2>3. CASE i = k
    <3>1. r[i] = v /\ t[i] = n
      BY <1>3, <1>5, <2>1, <2>3
    <3> QED
      BY <3>1 DEF v
  <2>4. CASE ~(i < k) /\ i # k
    <3>1. r[i] = u[i - 1] /\ t[i] = s[i - 1] /\ i - 1 \in 1..Len(s)
      BY <1>1, <1>3, <1>5, <2>1, <2>4
    <3> QED
      BY <1>2, <3>1
  <2> QED
    BY <2>2, <2>3, <2>4
<1>7. Vals(t, val2) = [i \in 1..Len(s) + 1 |-> val2[t[i]]]
  BY <1>3 DEF Vals
<1>8. r \in [1..Len(s) + 1 -> S]
  BY <1>1, <1>2, <1>5, LenProperties
<1>9. r = [i \in 1..Len(s) + 1 |-> r[i]]
  BY <1>8
<1> QED
  BY <1>6, <1>7, <1>9 DEF r, t, u, v

\* What the nodes hold after a removal.
LEMMA ValsRemoved ==
  ASSUME NEW s \in Seq(Nodes), NEW k \in 1..Len(s),
         NEW val \in [Nodes -> Values \union {Null}], NEW val2 \in [Nodes -> Values \union {Null}],
         \A i \in 1..Len(s) : i # k => val2[s[i]] = val[s[i]]
  PROVE  Vals(RemoveAt(s, k), val2) = RemoveAt(Vals(s, val), k)
<1> DEFINE S == Values \union {Null}
           u == Vals(s, val)
           t == RemoveAt(s, k)
           r == RemoveAt(u, k)
<1>1. Len(s) \in Nat
  BY NodeIs
<1>0. \A i \in 1..Len(s) : val[s[i]] \in S
  BY NodeIs
<1> HIDE DEF S
<1>2. u \in Seq(S) /\ Len(u) = Len(s) /\ \A i \in 1..Len(s) : u[i] = val[s[i]]
  <2>1. u \in [1..Len(s) -> S]
    BY <1>0 DEF Vals
  <2> QED
    BY <1>1, <2>1 DEF Vals
<1>3. /\ t \in Seq(Nodes) /\ Len(t) = Len(s) - 1
      /\ \A i \in 1..Len(s) - 1 : t[i] = IF i < k THEN s[i] ELSE s[i + 1]
  BY RemoveAtIs
<1> HIDE DEF u, t
<1>4. k \in 1..Len(u)
  BY <1>2
<1>5. /\ r \in Seq(S) /\ Len(r) = Len(u) - 1
      /\ \A i \in 1..Len(u) - 1 : r[i] = IF i < k THEN u[i] ELSE u[i + 1]
  BY <1>2, <1>4, RemoveAtIs, Zenon
<1> HIDE DEF r
<1>6. ASSUME NEW i \in 1..Len(s) - 1 PROVE r[i] = val2[t[i]]
  <2>1. i \in 1..Len(s) /\ i + 1 \in 1..Len(s) /\ i \in 1..Len(u) - 1
    BY <1>1, <1>2
  <2>2. CASE i < k
    <3>1. k \in Int /\ i # k
      BY <1>1, <2>2
    <3>2. r[i] = u[i] /\ t[i] = s[i]
      BY <1>3, <1>5, <2>1, <2>2
    <3> QED
      BY <1>2, <2>1, <3>1, <3>2
  <2>3. CASE ~(i < k)
    <3>1. k \in Int /\ i + 1 # k
      BY <1>1, <2>3
    <3>2. r[i] = u[i + 1] /\ t[i] = s[i + 1]
      BY <1>3, <1>5, <2>1, <2>3
    <3> QED
      BY <1>2, <2>1, <3>1, <3>2
  <2> QED
    BY <2>2, <2>3
<1>7. Vals(t, val2) = [i \in 1..Len(s) - 1 |-> val2[t[i]]]
  BY <1>3 DEF Vals
<1>8. r \in [1..Len(s) - 1 -> S]
  BY <1>1, <1>2, <1>5, LenProperties
<1>9. r = [i \in 1..Len(s) - 1 |-> r[i]]
  BY <1>8
<1> QED
  BY <1>6, <1>7, <1>9 DEF r, t, u

\* What the nodes hold after a rotation.
LEMMA ValsRotated ==
  ASSUME NEW S, NEW s \in Seq(Nodes), Len(s) > 1, NEW val, \A i \in 1..Len(s) : val[s[i]] \in S
  PROVE  Vals(Rotation(s), val) = Rotation(Vals(s, val))
<1> DEFINE u == Vals(s, val)
           t == Rotation(s)
           r == Rotation(u)
<1>1. Len(s) \in Nat /\ Len(s) > 0
  BY NodeIs
<1>2. u \in Seq(S) /\ Len(u) = Len(s) /\ \A i \in 1..Len(s) : u[i] = val[s[i]]
  <2>1. u \in [1..Len(s) -> S]
    BY DEF Vals
  <2> QED
    BY <1>1, <2>1 DEF Vals
<1>3. /\ t \in Seq(Nodes) /\ Len(t) = Len(s)
      /\ \A i \in 1..Len(s) : t[i] = IF i = 1 THEN s[Len(s)] ELSE s[i - 1]
  BY <1>1, RotationIs
<1> HIDE DEF u, t
<1>4. Len(u) > 0
  BY <1>1, <1>2
<1>5. /\ r \in Seq(S) /\ Len(r) = Len(u)
      /\ \A i \in 1..Len(u) : r[i] = IF i = 1 THEN u[Len(u)] ELSE u[i - 1]
  BY <1>2, <1>4, RotationIs, Zenon
<1> HIDE DEF r
<1>6. ASSUME NEW i \in 1..Len(s) PROVE r[i] = val[t[i]]
  <2>1. Len(s) \in 1..Len(s) /\ (i # 1 => i - 1 \in 1..Len(s))
    BY <1>1
  <2> QED
    BY <1>2, <1>3, <1>5, <2>1
<1>7. Vals(t, val) = [i \in 1..Len(s) |-> val[t[i]]]
  BY <1>3 DEF Vals
<1>8. r \in [1..Len(s) -> S]
  BY <1>1, <1>2, <1>5, LenProperties
<1>9. r = [i \in 1..Len(s) |-> r[i]]
  BY <1>8
<1> QED
  BY <1>6, <1>7, <1>9 DEF r, t, u

\* What the nodes of two lists hold.
LEMMA ValsJoined ==
  ASSUME NEW s \in Seq(Nodes), NEW p \in Seq(Nodes), NEW val
  PROVE  Vals(s \o p, val) = Vals(s, val) \o Vals(p, val)
<1>1. Len(s) \in Nat /\ Len(p) \in Nat
  BY NodeIs
<1>2. /\ Len(s \o p) = Len(s) + Len(p)
      /\ \A i \in 1..Len(s) + Len(p) : (s \o p)[i] = IF i <= Len(s) THEN s[i] ELSE p[i - Len(s)]
  BY ConcatProperties
<1> DEFINE S == {val[s[i]] : i \in 1..Len(s)} \union {val[p[i]] : i \in 1..Len(p)}
           u == Vals(s, val)
           q == Vals(p, val)
<1>3. u \in Seq(S) /\ Len(u) = Len(s) /\ \A i \in 1..Len(s) : u[i] = val[s[i]]
  <2>1. \A i \in 1..Len(s) : val[s[i]] \in S
    OBVIOUS
  <2> HIDE DEF S
  <2>2. u \in [1..Len(s) -> S]
    BY <2>1 DEF Vals
  <2> QED
    BY <1>1, <2>2 DEF Vals
<1>4. q \in Seq(S) /\ Len(q) = Len(p) /\ \A i \in 1..Len(p) : q[i] = val[p[i]]
  <2>1. \A i \in 1..Len(p) : val[p[i]] \in S
    OBVIOUS
  <2> HIDE DEF S
  <2>2. q \in [1..Len(p) -> S]
    BY <2>1 DEF Vals
  <2> QED
    BY <1>1, <2>2 DEF Vals
<1> HIDE DEF u, q, S
<1>5. /\ u \o q \in Seq(S) /\ Len(u \o q) = Len(u) + Len(q)
      /\ \A i \in 1..Len(u) + Len(q) : (u \o q)[i] = IF i <= Len(u) THEN u[i] ELSE q[i - Len(u)]
  BY <1>3, <1>4, ConcatProperties
<1>6. ASSUME NEW i \in 1..Len(s) + Len(p) PROVE (u \o q)[i] = val[(s \o p)[i]]
  <2>1. CASE i <= Len(s)
    <3>1. i \in 1..Len(s)
      BY <1>1, <2>1
    <3>2. (u \o q)[i] = u[i] /\ (s \o p)[i] = s[i]
      BY <1>2, <1>3, <1>4, <1>5, <2>1
    <3> QED
      BY <1>3, <3>1, <3>2
  <2>2. CASE ~(i <= Len(s))
    <3>1. i - Len(s) \in 1..Len(p)
      BY <1>1, <2>2
    <3>2. (u \o q)[i] = q[i - Len(s)] /\ (s \o p)[i] = p[i - Len(s)]
      BY <1>2, <1>3, <1>4, <1>5, <2>2
    <3> QED
      BY <1>4, <3>1, <3>2
  <2> QED
    BY <2>1, <2>2
<1>7. Vals(s \o p, val) = [i \in 1..Len(s) + Len(p) |-> val[(s \o p)[i]]]
  BY <1>2 DEF Vals
<1>8. u \o q \in [1..Len(s) + Len(p) -> S]
  BY <1>1, <1>3, <1>4, <1>5, LenProperties
<1>9. u \o q = [i \in 1..Len(s) + Len(p) |-> (u \o q)[i]]
  BY <1>8
<1> QED
  BY <1>6, <1>7, <1>9 DEF u, q

\* Inserting at either end.
LEMMA InsertEnds ==
  ASSUME NEW S, NEW s \in Seq(S), NEW v \in S
  PROVE  /\ InsertAt(s, 1, v) = <<v>> \o s
         /\ InsertAt(s, Len(s) + 1, v) = Append(s, v)
<1>1. Len(s) \in Nat /\ Len(s) \in Int
  BY LenProperties
<1>2. SubSeq(s, 1, 0) = <<>> /\ SubSeq(s, Len(s) + 1, Len(s)) = <<>>
  BY <1>1, SubSeqEmpty
<1>3. SubSeq(s, 1, Len(s)) = s
  BY SubSeqFull
<1>4. <<>> \o <<v>> = <<v>> /\ s \o <<v>> = Append(s, v) /\ s \o <<v>> \o <<>> = Append(s, v)
  BY ConcatEmptySeq, AppendIsConcat
<1>5. InsertAt(s, 1, v) = (SubSeq(s, 1, 1 - 1) \o <<v>>) \o SubSeq(s, 1, Len(s))
      /\ InsertAt(s, Len(s) + 1, v)
           = (SubSeq(s, 1, (Len(s) + 1) - 1) \o <<v>>) \o SubSeq(s, Len(s) + 1, Len(s))
  BY Zenon DEF InsertAt
<1>6. 1 - 1 = 0 /\ (Len(s) + 1) - 1 = Len(s)
  BY <1>1
<1> QED
  BY <1>2, <1>3, <1>4, <1>5, <1>6

\* In chains w, the items are what the nodes of w hold.
ItemsRight == \A w : Chained(w) => Items = [l \in Lists |-> Vals(w[l], value)]

\* The items of a list are what its nodes hold.
LEMMA ItemsAre == ItemsRight
<1> SUFFICES ASSUME NEW w, Chained(w), NEW l \in Lists
             PROVE  (IF l \in made THEN ValuesOf(Walk(l)) ELSE <<>>) = Vals(w[l], value)
  BY DEF ItemsRight, Items
<1>1. CASE l \in made
  <2>1. Walk(l) = w[l]
    BY WalkIs
  <2> QED
    BY <1>1, <2>1 DEF ValuesOf, Vals
<1>2. CASE l \notin made
  <2>1. w[l] = <<>>
    BY <1>2 DEF Chained
  <2>2. Vals(<<>>, value) = <<>>
    BY DEF Vals
  <2> QED
    BY <1>2, <2>1, <2>2
<1> QED
  BY <1>1, <1>2

\* The same after a step.
LEMMA ItemsNext ==
  ASSUME NEW w, Chained(w)'
  PROVE  Items' = [l \in Lists |-> Vals(w[l], value')]
<1>1. ItemsRight'
  BY ItemsAre, PTL
<1> QED
  BY <1>1 DEF ItemsRight

\* A step that changes one list changes its items alone.
LEMMA ItemsChange ==
  ASSUME TypeOK, NEW w, Chained(w), NEW l \in Lists, NEW t, Chained([w EXCEPT ![l] = t])',
         \A m \in heap \ Elems(w[l]) : value'[m] = value[m]
  PROVE  Items' = [Items EXCEPT ![l] = Vals(t, value')] /\ Items[l] = Vals(w[l], value)
<1> DEFINE w2 == [w EXCEPT ![l] = t]
<1>1. Items = [o \in Lists |-> Vals(w[o], value)]
  BY ItemsAre DEF ItemsRight
<1>2. Items' = [o \in Lists |-> Vals(w2[o], value')]
  BY ItemsNext
<1>3. w \in [Lists -> Seq(Nodes)]
  BY DEF Chained
<1>4. ASSUME NEW o \in Lists, o # l PROVE Vals(w2[o], value') = Vals(w[o], value)
  <2>1. w2[o] = w[o]
    BY <1>3, <1>4
  <2>2. \A i \in 1..Len(w[o]) : w[o][i] \in heap \ Elems(w[l])
    <3>1. Elems(w[o]) \subseteq heap \ Elems(w[l])
      BY <1>4, ElemsIn
    <3> QED
      BY <3>1 DEF Elems
  <2> QED
    BY <2>1, <2>2 DEF Vals
<1>5. w2[l] = t
  BY <1>3
<1> HIDE DEF w2
<1> QED
  BY <1>1, <1>2, <1>4, <1>5

\* A call that changes neither chains nor values changes no items.
LEMMA ItemsKept ==
  ASSUME NEW w, Chained(w), Chained(w)', value' = value
  PROVE  Items' = Items
BY ItemsAre, ItemsNext DEF ItemsRight

\* The items of a list, one for each node.
LEMMA ItemIs ==
  ASSUME TypeOK, NEW w, Chained(w), NEW l \in Lists
  PROVE  /\ Vals(w[l], value) \in Seq(Values \union {Null})
         /\ Len(Vals(w[l], value)) = Len(w[l])
<1> DEFINE T == Values \union {Null}
<1>1. w[l] \in Seq(Nodes) /\ Len(w[l]) \in Nat
  BY NodeIs DEF Chained
<1>2. \A i \in 1..Len(w[l]) : value[w[l][i]] \in T
  BY <1>1, NodeIs DEF TypeOK
<1> HIDE DEF T
<1>3. Vals(w[l], value) \in [1..Len(w[l]) -> T]
  BY <1>2 DEF Vals
<1> QED
  BY <1>1, <1>3 DEF T

\* Adding a node inserts its value.
LEMMA GrownItems ==
  ASSUME TypeOK, NEW w, Chained(w), Iterating(w), NEW l \in Lists, NEW n \in Nodes \ heap,
         NEW k \in 1..Len(w[l]) + 1, NEW v \in Values, Grows(w, l, n, k, v)
  PROVE  /\ l \in made /\ made' = made
         /\ Items' = [Items EXCEPT ![l] = InsertAt(@, k, v)]
         /\ Items[l] = Vals(w[l], value)
<1> DEFINE t == InsertAt(w[l], k, n)
<1>1. l \in made /\ made' = made /\ value' = Write(value, n, v)
  BY DEF Grows, Usable, Store
<1>2. Chained([w EXCEPT ![l] = t])'
  <2>1. Chained([w EXCEPT ![l] = InsertAt(@, k, n)])'
    BY Grown
  <2>2. [w EXCEPT ![l] = InsertAt(@, k, n)] = [w EXCEPT ![l] = t]
    OBVIOUS
  <2> HIDE DEF t
  <2> QED
    BY <2>1, <2>2
<1>3. heap \subseteq Nodes /\ w[l] \in Seq(Nodes) /\ value \in [Nodes -> Values \union {Null}]
  BY DEF TypeOK, Chained
<1>4. value'[n] = v /\ \A m \in heap : value'[m] = value[m] /\ value[m] \in Values \union {Null}
  BY <1>1, <1>3 DEF Write
<1>5. \A i \in 1..Len(w[l]) : w[l][i] \in heap
  BY ElemsIn DEF Elems
<1>6. Vals(t, value') = InsertAt(Vals(w[l], value), k, v)
  <2>1. PICK s, a, b : s = w[l] /\ a = value /\ b = value'
    OBVIOUS
  <2>2. b \in [Nodes -> Values \union {Null}]
    BY <1>1, <1>3, <2>1 DEF Write
  <2>3. /\ s \in Seq(Nodes) /\ k \in 1..Len(s) + 1 /\ n \in Nodes /\ b[n] = v
        /\ a \in [Nodes -> Values \union {Null}]
        /\ \A i \in 1..Len(s) : b[s[i]] = a[s[i]]
    BY <1>3, <1>4, <1>5, <2>1
  <2> HIDE DEF t
  <2>4. Vals(InsertAt(s, k, n), b) = InsertAt(Vals(s, a), k, b[n])
    BY <2>2, <2>3, ValsInserted
  <2> QED
    BY <2>1, <2>3, <2>4 DEF t
<1> HIDE DEF t
<1>7. Items' = [Items EXCEPT ![l] = Vals(t, value')] /\ Items[l] = Vals(w[l], value)
  BY <1>2, <1>4, ItemsChange
<1> QED
  BY <1>1, <1>4, <1>6, <1>7

(* Each call of the code is the call of ListSeq of that name. *)

LEMMA AddHeadSteps ==
  ASSUME TypeOK, NEW w, Chained(w), Iterating(w), NEW l \in Lists, NEW v \in Values,
         listAddNodeHead(l, v)
  PROVE  AsSeq!AddHead(l)
<1>1. PICK n \in Nodes \ heap : Grows(w, l, n, 1, v)
  BY AddHead
<1>2. w[l] \in Seq(Nodes) /\ 1 \in 1..Len(w[l]) + 1
  BY NodeIs DEF Chained
<1>3. /\ l \in made /\ made' = made
      /\ Items' = [Items EXCEPT ![l] = InsertAt(@, 1, v)] /\ Items[l] = Vals(w[l], value)
  BY <1>1, <1>2, GrownItems
<1>4. InsertAt(Items[l], 1, v) = <<v>> \o Items[l]
  <2>2. Items[l] \in Seq(Values \union {Null})
    BY <1>3, ItemIs
  <2> QED
    BY <2>2, InsertEnds
<1>5. Items' = [Items EXCEPT ![l] = <<v>> \o Items[l]]
  BY <1>3, <1>4
<1> QED
  BY <1>3, <1>5 DEF AsSeq!AddHead, AsSeq!Change, Items

LEMMA AddTailSteps ==
  ASSUME TypeOK, NEW w, Chained(w), Iterating(w), NEW l \in Lists, NEW v \in Values,
         listAddNodeTail(l, v)
  PROVE  AsSeq!AddTail(l)
<1>1. PICK n \in Nodes \ heap : Grows(w, l, n, Len(w[l]) + 1, v)
  BY AddTail
<1>2. w[l] \in Seq(Nodes) /\ Len(w[l]) + 1 \in 1..Len(w[l]) + 1
  BY NodeIs DEF Chained
<1>3. /\ l \in made /\ made' = made
      /\ Items' = [Items EXCEPT ![l] = InsertAt(@, Len(w[l]) + 1, v)]
      /\ Items[l] = Vals(w[l], value)
  BY <1>1, <1>2, GrownItems
<1>4. InsertAt(Items[l], Len(w[l]) + 1, v) = Append(Items[l], v)
  <2>2. Items[l] \in Seq(Values \union {Null}) /\ Len(Items[l]) = Len(w[l])
    BY <1>3, ItemIs
  <2>3. v \in Values \union {Null}
    OBVIOUS
  <2> QED
    <3> DEFINE T == Values \union {Null}
    <3>1. PICK s : s = Items[l]
      OBVIOUS
    <3>2. s \in Seq(T) /\ v \in T /\ Len(s) = Len(w[l])
      BY <2>2, <2>3, <3>1
    <3> HIDE DEF T
    <3>3. InsertAt(s, Len(s) + 1, v) = Append(s, v)
      BY <3>2, InsertEnds
    <3> QED
      BY <3>1, <3>2, <3>3
<1>5. Items' = [Items EXCEPT ![l] = Append(Items[l], v)]
  BY <1>3, <1>4
<1> QED
  BY <1>3, <1>5 DEF AsSeq!AddTail, AsSeq!Change, Items

LEMMA InsertSteps ==
  ASSUME TypeOK, NEW w, Chained(w), Iterating(w), NEW l \in Lists, NEW old \in Nodes,
         NEW v \in Values, NEW after \in BOOLEAN, listInsertNode(l, old, v, after)
  PROVE  AsSeq!Insert(l)
<1>1. PICK n \in Nodes \ heap, k \in 1..Len(w[l]) + 1 : Grows(w, l, n, k, v)
  BY Insert
<1>2. w[l] # <<>>
  BY Insert
<1>3. /\ l \in made /\ made' = made
      /\ Items' = [Items EXCEPT ![l] = InsertAt(@, k, v)] /\ Items[l] = Vals(w[l], value)
  BY <1>1, GrownItems
<1>4. Items[l] # <<>> /\ k \in 1..Len(Items[l]) + 1
  <2>1. w[l] \in Seq(Nodes)
    BY DEF Chained
  <2>3. Items[l] \in Seq(Values \union {Null}) /\ Len(Items[l]) = Len(w[l])
    BY <1>3, ItemIs
  <2>4. Len(w[l]) # 0
    BY <1>2, <2>1
  <2> QED
    BY <2>3, <2>4
<1>5. Items' = [Items EXCEPT ![l] = InsertAt(Items[l], k, v)] /\ UNCHANGED made
  BY <1>3
<1>6. \E x \in Values, i \in 1..Len(Items[l]) + 1 :
        Items' = [Items EXCEPT ![l] = InsertAt(Items[l], i, x)] /\ UNCHANGED made
  BY <1>4, <1>5, Zenon
<1> QED
  BY <1>3, <1>4, <1>6, Zenon DEF AsSeq!Insert, AsSeq!Change, AsSeq!InsertAt, InsertAt, Items

LEMMA CreateSteps ==
  ASSUME TypeOK, NEW w, Chained(w), Iterating(w), NEW l \in Lists, listCreate(l)
  PROVE  AsSeq!Create(l)
<1>1. l \notin made /\ made' = made \union {l} /\ value' = value
  BY DEF listCreate, fields
<1>2. Chained([w EXCEPT ![l] = <<>>])' /\ w[l] = <<>>
  BY Create
<1>3. [w EXCEPT ![l] = <<>>] = w
  BY <1>2 DEF Chained
<1>4. Items' = Items
  BY <1>1, <1>2, <1>3, ItemsKept
<1> QED
  BY <1>1, <1>4 DEF AsSeq!Create, Items

\* Freeing the nodes empties the items.
LEMMA FreedItems ==
  ASSUME TypeOK, NEW w, Chained(w), Iterating(w), NEW l \in Lists, FreeAll(l),
         \A o \in Lists \ {l} : o \in made => o \in made'
  PROVE  Items' = [Items EXCEPT ![l] = <<>>]
<1>1. Chained([w EXCEPT ![l] = <<>>])'
  BY FreedAll
<1>2. \A m \in heap \ Elems(w[l]) : value'[m] = value[m]
  <2>1. InList(l) = Elems(w[l]) /\ heap \subseteq Nodes
    BY WalkIs DEF TypeOK
  <2>2. value' = Clear(Elems(w[l]), value)
    BY <2>1 DEF FreeAll, Free
  <2> QED
    BY <2>1, <2>2, ClearIs
<1>3. Vals(<<>>, value') = <<>>
  BY DEF Vals
<1> QED
  BY <1>1, <1>2, <1>3, ItemsChange

LEMMA EmptySteps ==
  ASSUME TypeOK, NEW w, Chained(w), Iterating(w), NEW l \in Lists, listEmpty(l)
  PROVE  AsSeq!Empty(l)
<1>1. FreeAll(l) /\ l \in made /\ made' = made
  BY DEF listEmpty, Usable
<1>2. Items' = [Items EXCEPT ![l] = <<>>]
  BY <1>1, FreedItems
<1> QED
  BY <1>1, <1>2 DEF AsSeq!Empty, AsSeq!Change, Items

LEMMA ReleaseSteps ==
  ASSUME TypeOK, NEW w, Chained(w), Iterating(w), NEW l \in Lists, listRelease(l)
  PROVE  AsSeq!Release(l)
<1>1. FreeAll(l) /\ l \in made /\ made' = made \ {l}
  BY DEF listRelease, Usable
<1>2. Items' = [Items EXCEPT ![l] = <<>>]
  BY <1>1, FreedItems
<1> QED
  BY <1>1, <1>2 DEF AsSeq!Release, Items

LEMMA DeleteSteps ==
  ASSUME TypeOK, NEW w, Chained(w), Iterating(w), NEW l \in Lists, NEW n \in Nodes,
         listDelNode(l, n)
  PROVE  AsSeq!Delete(l)
<1>1. PICK k \in 1..Len(w[l]) : n = w[l][k] /\ Chained([w EXCEPT ![l] = RemoveAt(@, k)])'
  BY Delete
<1>2. l \in made /\ made' = made /\ value' = Clear({n}, value)
  BY DEF listDelNode, Usable, Free
<1>3. w[l] \in Seq(Nodes) /\ Distinct(w[l]) /\ Len(w[l]) \in Nat
  BY NodeIs DEF Chained
<1>4. \A m \in Nodes \ {n} : value'[m] = value[m]
  BY <1>2, ClearIs
<1> DEFINE t == RemoveAt(w[l], k)
<1>5. Chained([w EXCEPT ![l] = t])'
  <2>1. [w EXCEPT ![l] = RemoveAt(@, k)] = [w EXCEPT ![l] = t]
    OBVIOUS
  <2> HIDE DEF t
  <2> QED
    BY <1>1, <2>1
<1>6. \A m \in heap \ Elems(w[l]) : value'[m] = value[m]
  <2>1. n \in Elems(w[l]) /\ heap \subseteq Nodes
    BY <1>1 DEF Elems, TypeOK
  <2> QED
    BY <1>4, <2>1
<1> HIDE DEF t
<1>7. Items' = [Items EXCEPT ![l] = Vals(t, value')] /\ Items[l] = Vals(w[l], value)
  BY <1>5, <1>6, ItemsChange
<1>8. Vals(t, value') = RemoveAt(Vals(w[l], value), k)
  <2>1. PICK s, a, b : s = w[l] /\ a = value /\ b = value'
    OBVIOUS
  <2>2. s \in Seq(Nodes) /\ k \in 1..Len(s)
    BY <1>3, <2>1
  <2>3. a \in [Nodes -> Values \union {Null}] /\ b \in [Nodes -> Values \union {Null}]
    BY <1>2, <2>1 DEF TypeOK, Clear
  <2>4. \A i \in 1..Len(s) : s[i] \in Nodes /\ (i # k => s[i] # n)
    BY <1>1, <1>3, <2>1, <2>2, NodeIs DEF Distinct
  <2>5. \A i \in 1..Len(s) : i # k => b[s[i]] = a[s[i]]
    BY <1>4, <2>1, <2>4
  <2>6. Vals(RemoveAt(s, k), b) = RemoveAt(Vals(s, a), k)
    BY <2>2, <2>3, <2>5, ValsRemoved
  <2> QED
    BY <2>1, <2>6 DEF t
<1>9. k \in 1..Len(Items[l]) /\ Items' = [Items EXCEPT ![l] = RemoveAt(Items[l], k)]
  <2>1. Len(Items[l]) = Len(w[l])
    BY <1>7, ItemIs
  <2> QED
    BY <1>7, <1>8, <2>1
<1>10. \E i \in 1..Len(Items[l]) :
         Items' = [Items EXCEPT ![l] = RemoveAt(Items[l], i)] /\ UNCHANGED made
  BY <1>2, <1>9, Zenon
<1> QED
  BY <1>2, <1>10, Zenon DEF AsSeq!Delete, AsSeq!Change, AsSeq!RemoveAt, RemoveAt, Items

LEMMA RotateSteps ==
  ASSUME TypeOK, NEW w, Chained(w), Iterating(w), NEW l \in Lists, listRotate(l)
  PROVE  AsSeq!Rotate(l)
<1>1. Chained([w EXCEPT ![l] = Rotation(@)])' /\ Len(w[l]) > 1
  BY Rotate
<1>2. l \in made /\ made' = made /\ value' = value
  BY DEF listRotate, Usable
<1> DEFINE t == Rotation(w[l])
<1>3. Chained([w EXCEPT ![l] = t])'
  <2>1. [w EXCEPT ![l] = Rotation(@)] = [w EXCEPT ![l] = t]
    OBVIOUS
  <2> HIDE DEF t
  <2> QED
    BY <1>1, <2>1
<1> HIDE DEF t
<1>4. Items' = [Items EXCEPT ![l] = Vals(t, value')] /\ Items[l] = Vals(w[l], value)
  BY <1>2, <1>3, ItemsChange
<1>5. Vals(t, value) = Rotation(Vals(w[l], value))
  <2> DEFINE T == Values \union {Null}
  <2>1. PICK s, a : s = w[l] /\ a = value
    OBVIOUS
  <2>2. s \in Seq(Nodes) /\ Len(s) > 1
    BY <1>1, <2>1 DEF Chained
  <2>3. \A i \in 1..Len(s) : a[s[i]] \in T
    BY <2>1, <2>2, NodeIs DEF TypeOK
  <2> HIDE DEF T
  <2>4. Vals(Rotation(s), a) = Rotation(Vals(s, a))
    BY <2>2, <2>3, ValsRotated, Zenon
  <2> QED
    BY <2>1, <2>4 DEF t
<1>6. Len(Items[l]) > 1 /\ Items' = [Items EXCEPT ![l] = Rotation(Items[l])]
  <2>1. Len(Items[l]) = Len(w[l])
    BY <1>4, ItemIs
  <2> QED
    BY <1>1, <1>2, <1>4, <1>5, <2>1
<1> QED
  BY <1>2, <1>6, Zenon
     DEF AsSeq!Rotate, AsSeq!Change, AsSeq!Last, AsSeq!Front, Rotation, Items

LEMMA JoinSteps ==
  ASSUME TypeOK, ~JoinEmpty, NEW w, Chained(w), Iterating(w), NEW l \in Lists, NEW o \in Lists,
         listJoin(l, o)
  PROVE  AsSeq!Join(l, o)
<1> DEFINE w2 == [w EXCEPT ![l] = w[l] \o w[o], ![o] = <<>>]
<1>1. {l, o} \subseteq made /\ l # o /\ made' = made /\ value' = value
  BY DEF listJoin, Usable
<1>2. Chained(w2)'
  BY Join
<1>3. w \in [Lists -> Seq(Nodes)]
  BY DEF Chained
<1>4. Items = [q \in Lists |-> Vals(w[q], value)]
  BY ItemsAre DEF ItemsRight
<1>5. /\ w2[l] = w[l] \o w[o] /\ w2[o] = <<>>
      /\ \A q \in Lists \ {l, o} : w2[q] = w[q]
  BY <1>1, <1>3
<1> HIDE DEF w2
<1>6. Items' = [q \in Lists |-> Vals(w2[q], value)]
  BY <1>1, <1>2, ItemsNext
<1>7. Vals(w2[l], value) = Items[l] \o Items[o] /\ Vals(w2[o], value) = <<>>
  <2>1. PICK s, p, a : s = w[l] /\ p = w[o] /\ a = value
    OBVIOUS
  <2>2. s \in Seq(Nodes) /\ p \in Seq(Nodes)
    BY <1>3, <2>1
  <2>3. Vals(s \o p, a) = Vals(s, a) \o Vals(p, a)
    BY <2>2, ValsJoined
  <2>4. Vals(<<>>, value) = <<>>
    BY DEF Vals
  <2> QED
    BY <1>4, <1>5, <2>1, <2>3, <2>4
<1>8. Items' = [Items EXCEPT ![l] = Items[l] \o Items[o], ![o] = <<>>]
  BY <1>1, <1>4, <1>5, <1>6, <1>7
<1> QED
  BY <1>1, <1>8, Zenon DEF AsSeq!Join, Items

LEMMA DupSteps ==
  ASSUME TypeOK, NEW w, Chained(w), Iterating(w), NEW o \in Lists, NEW c \in Lists,
         listDup(o, c)
  PROVE  AsSeq!Dup(o, c)
<1> DEFINE k == Len(w[o])
<1>1. PICK f \in [1..k -> Nodes \ heap], g \in Duplicates(w[o]) : Copies(c, k, f, g)
  BY Dup
<1>2. o \in made /\ c \notin made
  BY Dup DEF Usable
<1>3. w[o] \in Seq(Nodes) /\ k \in Nat
  BY NodeIs DEF Chained
<1> HIDE DEF k
<1>4. Chained([w EXCEPT ![c] = f])'
  BY <1>1, <1>2, <1>3, Copied
<1>5. /\ made' = made \union {c} /\ \A i \in 1..k : value'[f[i]] = g[i]
      /\ \A n \in heap : value'[n] = value[n]
  BY <1>1 DEF Copies
<1>6. Items' = [Items EXCEPT ![c] = Vals(f, value')]
  BY <1>4, <1>5, ItemsChange
<1>7. Items[o] = Vals(w[o], value)
  BY ItemsAre DEF ItemsRight
<1>8. Len(f) = k /\ Len(Items[o]) = k
  BY <1>3, <1>7, ItemIs DEF k
<1>9. g = [i \in 1..k |-> g[i]]
  <2>1. CASE HasDup
    BY <2>1 DEF Duplicates, k
  <2>2. CASE ~HasDup
    BY <2>2 DEF Duplicates, ValuesOf, k
  <2> QED
    BY <2>1, <2>2
<1>10. Vals(f, value') = g
  BY <1>5, <1>8, <1>9 DEF Vals
<1>11. g \in IF HasDup THEN [1..Len(Items[o]) -> Values] ELSE {Items[o]}
  <2>1. CASE HasDup
    <3>1. g \in [1..k -> Values \ alive]
      BY <2>1 DEF Duplicates, k
    <3>2. g \in [1..k -> Values]
      BY <3>1
    <3> QED
      BY <1>8, <2>1, <3>2
  <2>2. CASE ~HasDup
    BY <1>7, <2>2 DEF Duplicates, ValuesOf, Vals
  <2> QED
    BY <2>1, <2>2
<1>12. \E s \in IF HasDup THEN [1..Len(Items[o]) -> Values] ELSE {Items[o]} :
         Items' = [Items EXCEPT ![c] = s]
  BY <1>6, <1>10, <1>11, Zenon
<1> QED
  BY <1>2, <1>5, <1>12, Zenon DEF AsSeq!Dup, AsSeq!TupleOf, Items

-----------------------------------------------------------------------------
(* The calls are those of ListSeq *)

\* Both start without lists.
LEMMA StartsEmpty == Init => AsSeq!Init
<1> SUFFICES ASSUME Init PROVE AsSeq!Init
  OBVIOUS
<1>1. made = {}
  BY DEF Init
<1>2. Items = [l \in Lists |-> <<>>]
  BY <1>1 DEF Items
<1>3. HasDup \in BOOLEAN
  BY DEF HasDup
<1> QED
  BY <1>1, <1>2, <1>3 DEF AsSeq!Init, Items

\* Every call is one of ListSeq, or leaves the sequences alone.
LEMMA StepsAsSeq ==
  ASSUME ~JoinEmpty, ListInv, [Next]_vars
  PROVE  [AsSeq!Next]_(AsSeq!lvars)
<1>1. PICK w : Chained(w) /\ Iterating(w)
  BY DEF ListInv
<1>2. TypeOK
  BY DEF ListInv
<1>3. HasDup' = HasDup
  BY DEF Next, vars, HasDup
<1>4. ASSUME Call PROVE AsSeq!Call \/ UNCHANGED <<made, Items>>
  <2>1. ASSUME NEW l \in Lists, listCreate(l) PROVE AsSeq!Create(l)
    BY <1>1, <1>2, <2>1, CreateSteps
  <2>2. ASSUME NEW l \in Lists, listEmpty(l) PROVE AsSeq!Empty(l)
    BY <1>1, <1>2, <2>2, EmptySteps
  <2>3. ASSUME NEW l \in Lists, listRelease(l) PROVE AsSeq!Release(l)
    BY <1>1, <1>2, <2>3, ReleaseSteps
  <2>4. ASSUME NEW l \in Lists, listRotate(l) PROVE AsSeq!Rotate(l)
    BY <1>1, <1>2, <2>4, RotateSteps
  <2>5. ASSUME NEW l \in Lists, listDupFails(l) PROVE UNCHANGED <<made, Items>>
    <3>1. UNCHANGED <<made, headers, heap, fields>>
      BY <2>5 DEF listDupFails
    <3>2. Chained(w)' /\ value' = value
      BY <1>1, <3>1, ChainedKept DEF fields
    <3> QED
      BY <1>1, <3>1, <3>2, ItemsKept
  <2>6. ASSUME NEW l \in Lists, NEW o \in Lists, listJoin(l, o) PROVE AsSeq!Join(l, o)
    BY <1>1, <1>2, <2>6, JoinSteps
  <2>7. ASSUME NEW l \in Lists, NEW o \in Lists, listDup(l, o) PROVE AsSeq!Dup(l, o)
    BY <1>1, <1>2, <2>7, DupSteps
  <2>8. ASSUME NEW l \in Lists, NEW v \in Values, listAddNodeHead(l, v) PROVE AsSeq!AddHead(l)
    BY <1>1, <1>2, <2>8, AddHeadSteps
  <2>9. ASSUME NEW l \in Lists, NEW v \in Values, listAddNodeTail(l, v) PROVE AsSeq!AddTail(l)
    BY <1>1, <1>2, <2>9, AddTailSteps
  <2>10. ASSUME NEW l \in Lists, NEW n \in Nodes, NEW v \in Values, NEW after \in BOOLEAN,
                listInsertNode(l, n, v, after)
         PROVE  AsSeq!Insert(l)
    BY <1>1, <1>2, <2>10, InsertSteps
  <2>11. ASSUME NEW l \in Lists, NEW n \in Nodes, listDelNode(l, n) PROVE AsSeq!Delete(l)
    BY <1>1, <1>2, <2>11, DeleteSteps
  <2>12. ASSUME NEW l \in Lists, NEW dir \in {"head", "tail"}, listRewind(l, dir)
         PROVE  UNCHANGED <<made, Items>>
    <3>1. UNCHANGED <<made, headers, heap, fields>>
      BY <2>12 DEF listRewind
    <3>2. Chained(w)' /\ value' = value
      BY <1>1, <3>1, ChainedKept DEF fields
    <3> QED
      BY <1>1, <3>1, <3>2, ItemsKept
  <2>13. ASSUME listNext \/ listReleaseIterator PROVE UNCHANGED <<made, Items>>
    <3>1. UNCHANGED <<made, headers, heap, fields>>
      BY <2>13 DEF listNext, listReleaseIterator
    <3>2. Chained(w)' /\ value' = value
      BY <1>1, <3>1, ChainedKept DEF fields
    <3> QED
      BY <1>1, <3>1, <3>2, ItemsKept
  <2> QED
    BY <1>4, <2>1, <2>2, <2>3, <2>4, <2>5, <2>6, <2>7, <2>8, <2>9, <2>10, <2>11, <2>12, <2>13,
       Zenon DEF Call, AsSeq!Call
<1>5. CASE Next
  <2>1. AsSeq!Call \/ UNCHANGED <<made, Items>>
    BY <1>4, <1>5 DEF Next
  <2> QED
    BY <1>3, <2>1, Zenon DEF AsSeq!Next, AsSeq!lvars, Items
<1>6. CASE UNCHANGED vars
  <2>1. UNCHANGED <<made, headers, heap, fields>>
    BY <1>6 DEF vars
  <2>2. Chained(w)' /\ value' = value
    BY <1>1, <2>1, ChainedKept DEF fields
  <2>3. Items' = Items
    BY <1>1, <2>2, ItemsKept
  <2> QED
    BY <1>3, <2>1, <2>3 DEF AsSeq!lvars, Items
<1> QED
  BY <1>5, <1>6

\* Every call does to the sequences of values what ListSeq says, whatever the
\* nodes and links it takes.
THEOREM ListRefinement == ASSUME ~JoinEmpty PROVE Spec => ImplementsSeq
<1>1. Init => AsSeq!Init
  BY StartsEmpty
<1>2. ListInv /\ [Next]_vars => [AsSeq!Next]_(AsSeq!lvars)
  BY StepsAsSeq
<1> QED
  BY <1>1, <1>2, ListInvariant, PTL DEF Spec, ImplementsSeq, AsSeq!Spec

=============================================================================
