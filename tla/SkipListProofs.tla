---------------------------- MODULE SkipListProofs -----------------------------
(***************************************************************************)
(* The safety properties of SkipList for every number of threads, every    *)
(* set of keys, every number of levels and every number of nodes.          *)
(***************************************************************************)
EXTENDS SkipList, WellFoundedInduction, FiniteSetTheorems, TLAPS

-----------------------------------------------------------------------------
(* Numbers                                                                 *)

(* A set of numbers that is not empty has a least element.                 *)
LEMMA LeastNumber ==
    ASSUME NEW T \in SUBSET Nat, T # {}
    PROVE  \E x \in T : \A y \in T : x <= y
<1>1. PICK x \in T : \A y \in T : ~ (<<y, x>> \in OpToRel(<, Nat))
  BY NatLessThanWellFounded, WFMin, Zenon
<1>2. \A y \in T : ~ (y < x)
  BY <1>1 DEF OpToRel
<1> QED
  BY <1>2

(* The bounds.                                                             *)
LEMMA SkipSizes ==
    /\ MaxNodes \in Nat /\ maxLevel \in Nat /\ 0 < maxLevel
    /\ \A k \in Keys : k \in Nat /\ 0 < k
    /\ 0 \in Levels /\ Head0 \in NodeIds /\ Null \notin NodeIds
    /\ Inserters \cap Finders = {} /\ Threads = Inserters \cup Finders
BY SkipListAssumption DEF Levels, Head0, NodeIds, Null, Threads

-----------------------------------------------------------------------------
(* A level as a list                                                       *)

Key(n) == IF n = Head0 THEN 0 ELSE GetKey(n)

(* The pointers of level l lead through the set S from the head to Null:   *)
(* p gives the place of each node, z the last one, and keys are in order.  *)
List(l, S, p, z) ==
    /\ S \subseteq NodeIds /\ Head0 \in S
    /\ p \in [NodeIds -> Nat] /\ p[Head0] = 0 /\ z \in Nat
    /\ \A n \in S : /\ p[n] <= z
                    /\ IF p[n] = z THEN GetNext(n, l) = Null
                       ELSE GetNext(n, l) \in S /\ p[GetNext(n, l)] = p[n] + 1
    /\ \A i \in 0 .. z : \E n \in S : p[n] = i
    /\ \A a, b \in S : (p[a] = p[b] => a = b) /\ (p[a] <= p[b] => Key(a) <= Key(b))

(* The nodes of a list by their places.                                    *)
LEMMA Places ==
    ASSUME NEW l, NEW S, NEW p, NEW z, List(l, S, p, z)
    PROVE  \E at \in [0 .. z -> S] :
              /\ at[0] = Head0
              /\ \A i \in 0 .. z : p[at[i]] = i
              /\ \A i \in 0 .. z : i < z => GetNext(at[i], l) = at[i + 1]
              /\ GetNext(at[z], l) = Null
<1>1. PICK at : at = [i \in 0 .. z |-> CHOOSE n \in S : p[n] = i]
  OBVIOUS
<1>2. \A i \in 0 .. z : at[i] \in S /\ p[at[i]] = i
  BY <1>1 DEF List
<1>3. at \in [0 .. z -> S]
  BY <1>1, <1>2
<1>4. z \in Nat /\ 0 \in 0 .. z /\ z \in 0 .. z
  BY DEF List
<1>5. at[0] = Head0
  BY <1>2, <1>4 DEF List
<1>6. ASSUME NEW i \in 0 .. z, i < z PROVE GetNext(at[i], l) = at[i + 1]
  <2>1. i + 1 \in 0 .. z /\ at[i] \in S /\ p[at[i]] = i
    BY <1>2, <1>4, <1>6
  <2>2. GetNext(at[i], l) \in S /\ p[GetNext(at[i], l)] = i + 1
    BY <1>4, <1>6, <2>1 DEF List
  <2>3. at[i + 1] \in S /\ p[at[i + 1]] = i + 1
    BY <1>2, <2>1
  <2> QED
    BY <2>2, <2>3 DEF List
<1>7. GetNext(at[z], l) = Null
  BY <1>2, <1>4 DEF List
<1> QED
  BY <1>2, <1>3, <1>5, <1>6, <1>7

(* A list is no longer than there are nodes.                               *)
LEMMA ListLength ==
    ASSUME NEW l, NEW S, NEW p, NEW z, List(l, S, p, z)
    PROVE  z <= MaxNodes
<1>1. PICK at \in [0 .. z -> S] : \A i \in 0 .. z : p[at[i]] = i
  BY Places
<1>2. z \in Nat /\ S \subseteq NodeIds
  BY DEF List
<1>3. at \in Injection(0 .. z, NodeIds)
  BY <1>1, <1>2 DEF Injection, IsInjective
<1>4. IsFiniteSet(NodeIds) /\ Cardinality(NodeIds) = MaxNodes + 1
  BY SkipSizes, FS_Interval DEF NodeIds
<1>5. Cardinality(0 .. z) = z + 1
  BY <1>2, FS_Interval
<1>6. Cardinality(0 .. z) <= Cardinality(NodeIds)
  BY <1>3, <1>4, FS_Injection
<1> QED
  BY <1>2, <1>4, <1>5, <1>6, SkipSizes

(* The equation that defines Chain.                                        *)
Firsts(f, l) == f = [j \in NodeIds |-> IF j = 0 THEN <<>> ELSE Follower(f[j - 1], l)]

(* Chain is the nodes of the list in their places.                         *)
LEMMA ChainIs ==
    ASSUME NEW l, NEW S, NEW p, NEW z, List(l, S, p, z)
    PROVE  /\ Chain(l) \in Seq(S) /\ Len(Chain(l)) = z
           /\ \A i \in 1 .. z : p[Chain(l)[i]] = i
<1>1. PICK at \in [0 .. z -> S] :
        /\ at[0] = Head0 /\ \A i \in 0 .. z : p[at[i]] = i
        /\ \A i \in 0 .. z : i < z => GetNext(at[i], l) = at[i + 1]
        /\ GetNext(at[z], l) = Null
  BY Places
<1>2. z \in Nat /\ z <= MaxNodes /\ MaxNodes \in Nat /\ S \subseteq NodeIds /\ Null \notin S
  <2>1. z <= MaxNodes
    BY ListLength
  <2> QED
    BY <2>1, SkipSizes DEF List
<1> DEFINE Cut(j) == IF j <= z THEN j ELSE z
<1>3. PICK g : g = [j \in NodeIds |-> [i \in 1 .. Cut(j) |-> at[i]]]
  OBVIOUS
<1>4. \A j \in NodeIds : j \in Nat /\ Cut(j) \in Nat /\ Cut(j) <= z
  BY <1>2 DEF NodeIds
<1>5. \A j \in NodeIds : g[j] \in Seq(S) /\ Len(g[j]) = Cut(j) /\ \A i \in 1 .. Cut(j) : g[j][i] = at[i]
  <2> SUFFICES ASSUME NEW j \in NodeIds
               PROVE  /\ g[j] \in Seq(S) /\ Len(g[j]) = Cut(j)
                      /\ \A i \in 1 .. Cut(j) : g[j][i] = at[i]
    OBVIOUS
  <2>1. PICK c \in Nat : c = Cut(j)
    BY <1>4
  <2>2. c <= z /\ g[j] = [i \in 1 .. c |-> at[i]]
    BY <1>3, <1>4, <2>1
  <2>3. \A i \in 1 .. c : at[i] \in S
    BY <1>1, <1>2, <2>1, <2>2
  <2> QED
    BY <2>1, <2>2, <2>3
<1>6. ASSUME NEW j \in NodeIds, j # 0 PROVE g[j] = Follower(g[j - 1], l)
  <2>1. j - 1 \in NodeIds /\ j \in Nat
    BY <1>2, <1>6 DEF NodeIds
  <2>2. PICK c \in Nat : c = Cut(j - 1)
    BY <1>4, <2>1
  <2>3. c \in Nat /\ c <= z /\ Len(g[j - 1]) = c /\ g[j - 1] \in Seq(S)
    BY <1>4, <1>5, <2>1, <2>2
  <2>4. Last(g[j - 1]) = at[c]
    <3>1. CASE c = 0
      BY <1>1, <2>3, <3>1 DEF Last
    <3>2. CASE c # 0
      <4>1. c \in 1 .. c
        BY <2>3, <3>2
      <4>2. g[j - 1][c] = at[c]
        BY <1>5, <2>1, <2>2, <4>1
      <4>3. g[j - 1] # <<>>
        BY <2>3, <3>2
      <4> QED
        BY <2>3, <4>2, <4>3 DEF Last
    <3> QED
      BY <3>1, <3>2
  <2>5. CASE c = z
    <3>1. Cut(j) = z /\ Cut(j - 1) = z
      BY <1>2, <2>1, <2>2, <2>5
    <3>2. g[j] = g[j - 1]
      BY <1>3, <2>1, <3>1
    <3> QED
      BY <1>1, <2>4, <2>5, <3>2 DEF Follower
  <2>6. CASE c # z
    <3>1. c = j - 1 /\ c + 1 <= z /\ Cut(j) = c + 1
      BY <1>2, <2>1, <2>2, <2>3, <2>6
    <3>2. GetNext(at[c], l) = at[c + 1] /\ at[c + 1] \in S
      BY <1>1, <1>2, <2>2, <3>1
    <3>3. Follower(g[j - 1], l) = Append(g[j - 1], at[c + 1])
      BY <1>2, <2>4, <3>2 DEF Follower
    <3>4. g[j] = [i \in 1 .. c + 1 |-> at[i]] /\ g[j - 1] = [i \in 1 .. c |-> at[i]]
      BY <1>3, <2>1, <2>2, <3>1
    <3>5. Append(g[j - 1], at[c + 1]) = [i \in 1 .. c + 1 |-> at[i]]
      BY <2>2, <3>4
    <3> QED
      BY <3>3, <3>4, <3>5
  <2> QED
    BY <2>5, <2>6
<1>7. g[0] = <<>> /\ 0 \in NodeIds
  <2>1. 0 \in NodeIds /\ Cut(0) = 0
    BY <1>2 DEF NodeIds
  <2>2. Len(g[0]) = 0 /\ g[0] \in Seq(S)
    BY <1>5, <2>1
  <2> QED
    BY <2>1, <2>2
<1>8. Firsts(g, l)
  <2>1. \A j \in NodeIds : g[j] = IF j = 0 THEN <<>> ELSE Follower(g[j - 1], l)
    BY <1>6, <1>7
  <2> QED
    BY <1>3, <2>1 DEF Firsts
<1>9. PICK f : f = CHOOSE h : Firsts(h, l)
  OBVIOUS
<1>10. Firsts(f, l)
  BY <1>8, <1>9
<1>11. Chain(l) = f[MaxNodes]
  BY <1>9 DEF Chain, Firsts
<1>12. \A j \in NodeIds : f[j] = g[j]
  <2> DEFINE T == {j \in NodeIds : f[j] # g[j]}
  <2>1. SUFFICES ASSUME T # {} PROVE FALSE
    OBVIOUS
  <2>2. T \in SUBSET Nat
    BY <1>4
  <2>3. PICK j \in T : \A k \in T : j <= k
    <3> HIDE DEF T
    <3> QED
      BY <2>1, <2>2, LeastNumber
  <2>4. j \in NodeIds /\ f[j] # g[j]
    BY <2>3
  <2>5. CASE j = 0
    BY <1>7, <1>10, <2>4, <2>5 DEF Firsts
  <2>6. CASE j # 0
    <3>1. j - 1 \in NodeIds /\ ~(j <= j - 1)
      BY <1>2, <2>4, <2>6 DEF NodeIds
    <3>2. f[j - 1] = g[j - 1]
      BY <2>3, <3>1
    <3>3. f[j] = Follower(f[j - 1], l)
      BY <1>10, <2>4, <2>6 DEF Firsts
    <3> QED
      BY <1>6, <2>4, <2>6, <3>2, <3>3
  <2> QED
    BY <2>5, <2>6
<1>13. MaxNodes \in NodeIds /\ Cut(MaxNodes) = z
  BY <1>2 DEF NodeIds
<1>14. Chain(l) = g[MaxNodes]
  BY <1>11, <1>12, <1>13
<1>15. \A i \in 1 .. z : i \in 0 .. z
  BY <1>2
<1> QED
  BY <1>1, <1>5, <1>13, <1>14, <1>15

(* What the list says of the chain: it holds the nodes of S but the head,  *)
(* in order and once.                                                      *)
LEMMA ChainFacts ==
    ASSUME NEW l, NEW S, NEW p, NEW z, List(l, S, p, z)
    PROVE  /\ Elements(Chain(l)) = S \ {Head0} /\ Len(Chain(l)) = z
           /\ Cardinality(Elements(Chain(l))) = Len(Chain(l))
           /\ Head0 \notin Elements(Chain(l))
           /\ \A a, b \in DOMAIN Chain(l) : a < b => Key(Chain(l)[a]) <= Key(Chain(l)[b])
<1>1. PICK c : c = Chain(l)
  OBVIOUS
<1>2. c \in Seq(S) /\ Len(c) = z /\ (\A i \in 1 .. z : p[c[i]] = i) /\ DOMAIN c = 1 .. z
  BY <1>1, ChainIs
<1>3. \A i \in 1 .. z : c[i] \in S
  BY <1>2
<1>4. z \in Nat /\ p \in [NodeIds -> Nat] /\ S \subseteq NodeIds /\ p[Head0] = 0
  BY DEF List
<1>5. ASSUME NEW n \in S \ {Head0} PROVE \E i \in 1 .. z : c[i] = n
  <2>1. PICK i : i = p[n]
    OBVIOUS
  <2>2. i \in Nat /\ i <= z /\ i # 0
    BY <1>4, <2>1 DEF List
  <2>3. i \in 1 .. z
    BY <1>4, <2>2
  <2>4. c[i] = n
    BY <1>2, <1>3, <2>1, <2>3 DEF List
  <2> QED
    BY <2>3, <2>4
<1>6. \A i \in 1 .. z : c[i] # Head0
  BY <1>2, <1>4
<1>7. Elements(c) = S \ {Head0}
  BY <1>2, <1>3, <1>5, <1>6 DEF Elements
<1>8. Cardinality(Elements(c)) = z
  <2>1. c \in [1 .. z -> Elements(c)]
    BY <1>2 DEF Elements
  <2>2. \A i, j \in 1 .. z : c[i] = c[j] => i = j
    BY <1>2
  <2>3. \A n \in Elements(c) : \E i \in 1 .. z : c[i] = n
    BY <1>2 DEF Elements
  <2>4. c \in Bijection(1 .. z, Elements(c))
    BY <2>1, <2>2, <2>3 DEF Bijection, Injection, Surjection, IsInjective
  <2> QED
    BY <1>4, <2>4, FS_CountingElements DEF ExistsBijection
<1>9. ASSUME NEW a \in 1 .. z, NEW b \in 1 .. z, a < b PROVE Key(c[a]) <= Key(c[b])
  <2>1. p[c[a]] <= p[c[b]]
    BY <1>2, <1>9
  <2> QED
    BY <1>3, <2>1 DEF List
<1> QED
  BY <1>1, <1>2, <1>7, <1>8, <1>9

(* Node x put between u and the node after it.                             *)
LEMMA ListInsert ==
    ASSUME NEW l \in Levels, NEW S, NEW p, NEW z, List(l, S, p, z),
           nexts \in [NodeIds -> [Levels -> NodeIds \cup {Null}]],
           NEW u \in S, NEW x \in NodeIds \ S,
           GetNext(x, l) = GetNext(u, l),
           nexts' = PutNext(u, l, x),
           \A n \in S \cup {x} : Key(n) \in Nat /\ Key(n)' = Key(n),
           Key(u) <= Key(x), GetNext(u, l) # Null => Key(x) <= Key(GetNext(u, l))
    PROVE  \E q : /\ List(l, S \cup {x}, q, z + 1)'
                  /\ \A a, b \in S : p[a] <= p[b] <=> q[a] <= q[b]
<1>1. PICK m : m = p[u]
  OBVIOUS
<1>2. PICK T, w : T = S \cup {x} /\ w = z + 1
  OBVIOUS
<1>3. PICK q : q = [n \in NodeIds |-> IF n = x THEN m + 1
                                      ELSE IF n \in S /\ p[n] > m THEN p[n] + 1 ELSE p[n]]
  OBVIOUS
<1>4. /\ S \subseteq NodeIds /\ p \in [NodeIds -> Nat] /\ z \in Nat /\ m \in Nat /\ m <= z
      /\ x \in NodeIds /\ x \notin S /\ x # u /\ Head0 \in S
  BY <1>1 DEF List
<1>5. q \in [NodeIds -> Nat] /\ q[x] = m + 1
  BY <1>3, <1>4
<1>6. \A n \in S : /\ p[n] \in Nat /\ p[n] <= z
                   /\ q[n] = IF p[n] > m THEN p[n] + 1 ELSE p[n]
  BY <1>3, <1>4 DEF List
<1>7. \A a, b \in S : p[a] <= p[b] <=> q[a] <= q[b]
  BY <1>4, <1>6
<1>8. /\ GetNext(u, l)' = x /\ GetNext(x, l)' = GetNext(u, l)
      /\ \A n \in S : n # u => GetNext(n, l)' = GetNext(n, l)
  BY <1>4 DEF GetNext, PutNext
<1>9. /\ \A n \in S : IF p[n] = z THEN GetNext(n, l) = Null
                      ELSE GetNext(n, l) \in S /\ p[GetNext(n, l)] = p[n] + 1
      /\ \A i \in 0 .. z : \E n \in S : p[n] = i
      /\ \A a, b \in S : (p[a] = p[b] => a = b) /\ (p[a] <= p[b] => Key(a) <= Key(b))
      /\ p[Head0] = 0
  BY DEF List
<1>10. \A n \in S : n # x /\ (q[n] = m + 1 => FALSE)
  BY <1>4, <1>6
<1>11. ASSUME NEW n \in T
       PROVE  /\ q[n] <= w
              /\ IF q[n] = w THEN GetNext(n, l)' = Null
                 ELSE GetNext(n, l)' \in T /\ q[GetNext(n, l)'] = q[n] + 1
  <2>1. CASE n = x
    <3>1. CASE m = z
      <4>1. GetNext(u, l) = Null
        BY <1>1, <1>9, <3>1
      <4>2. q[n] = w
        BY <1>2, <1>5, <2>1, <3>1
      <4> QED
        BY <1>2, <1>4, <1>8, <2>1, <4>1, <4>2
    <3>2. CASE m # z
      <4>1. GetNext(u, l) \in S /\ p[GetNext(u, l)] = m + 1
        BY <1>1, <1>9, <3>2
      <4>2. q[GetNext(u, l)] = m + 1 + 1
        BY <1>4, <1>6, <4>1
      <4> QED
        BY <1>2, <1>4, <1>5, <1>8, <2>1, <3>2, <4>1, <4>2
    <3> QED
      BY <3>1, <3>2
  <2>2. CASE n = u
    <3>1. q[u] = m
      BY <1>1, <1>4, <1>6
    <3> QED
      BY <1>2, <1>4, <1>5, <1>8, <2>2, <3>1
  <2>3. CASE n # x /\ n # u
    <3>1. n \in S /\ GetNext(n, l)' = GetNext(n, l) /\ p[n] # m
      BY <1>1, <1>2, <1>8, <1>9, <2>3
    <3>2. CASE p[n] = z
      <4>1. q[n] = w /\ GetNext(n, l) = Null
        BY <1>2, <1>4, <1>6, <1>9, <3>1, <3>2
      <4> QED
        BY <1>2, <1>4, <3>1, <4>1
    <3>3. CASE p[n] # z
      <4>1. PICK k : k = GetNext(n, l)
        OBVIOUS
      <4>2. k \in S /\ p[k] = p[n] + 1
        BY <1>9, <3>1, <3>3, <4>1
      <4>3. q[k] = q[n] + 1 /\ q[n] # w /\ q[n] <= w
        <5>1. PICK pn \in Nat, pk \in Nat, qn \in Nat, qk \in Nat :
                pn = p[n] /\ pk = p[k] /\ qn = q[n] /\ qk = q[k]
          BY <1>4, <1>5, <3>1, <4>2
        <5>2. /\ qn = IF pn > m THEN pn + 1 ELSE pn
              /\ qk = IF pk > m THEN pk + 1 ELSE pk
              /\ pn <= z /\ pk <= z /\ pk = pn + 1 /\ pn # m /\ pn # z
          BY <1>6, <3>1, <3>3, <4>2, <5>1
        <5>3. qk = qn + 1 /\ qn # z + 1 /\ qn <= z + 1
          BY <1>4, <5>2
        <5> QED
          BY <1>2, <5>1, <5>3
      <4> QED
        BY <1>2, <3>1, <4>1, <4>2, <4>3
    <3> QED
      BY <3>2, <3>3
  <2> QED
    BY <2>1, <2>2, <2>3
<1>12. ASSUME NEW i \in 0 .. w PROVE \E n \in T : q[n] = i
  <2>1. CASE i <= m
    <3>1. i \in 0 .. z
      BY <1>4, <2>1
    <3>2. PICK n \in S : p[n] = i
      BY <1>9, <3>1
    <3>3. q[n] = i
      BY <1>4, <1>6, <2>1, <3>2
    <3> QED
      BY <1>2, <3>3
  <2>2. CASE i = m + 1
    BY <1>2, <1>5, <2>2
  <2>3. CASE i > m + 1
    <3>1. i - 1 \in 0 .. z /\ i - 1 > m
      BY <1>2, <1>4, <2>3
    <3>2. PICK n \in S : p[n] = i - 1
      BY <1>9, <3>1
    <3>3. q[n] = i
      BY <1>4, <1>6, <3>1, <3>2
    <3> QED
      BY <1>2, <3>3
  <2> QED
    BY <1>2, <1>4, <2>1, <2>2, <2>3
<1>13. ASSUME NEW a \in S PROVE /\ q[a] <= q[x] => Key(a) <= Key(x)
                                /\ q[x] <= q[a] => Key(x) <= Key(a)
  <2>0. Key(a) \in Nat /\ Key(x) \in Nat /\ Key(u) \in Nat
    BY <1>4
  <2>1. CASE p[a] <= m
    <3>1. Key(a) <= Key(u)
      BY <1>1, <1>9, <2>1
    <3>2. Key(a) <= Key(x)
      BY <2>0, <3>1
    <3> QED
      BY <1>4, <1>5, <1>6, <2>1, <3>2
  <2>2. CASE p[a] > m
    <3>1. m # z
      BY <1>4, <1>6, <2>2
    <3>2. PICK k : k = GetNext(u, l)
      OBVIOUS
    <3>3. k \in S /\ p[k] = m + 1
      BY <1>1, <1>9, <3>1, <3>2
    <3>4. p[k] <= p[a] /\ k # Null
      BY <1>4, <1>6, <2>2, <3>3, SkipSizes
    <3>5. Key(k) <= Key(a) /\ Key(x) <= Key(k) /\ Key(k) \in Nat
      BY <1>4, <1>9, <3>2, <3>3, <3>4
    <3>6. Key(x) <= Key(a)
      BY <2>0, <3>5
    <3> QED
      BY <1>4, <1>5, <1>6, <2>2, <3>6
  <2> QED
    BY <1>4, <1>6, <2>1, <2>2
<1>14. ASSUME NEW a \in T, NEW b \in T
       PROVE  (q[a] = q[b] => a = b) /\ (q[a] <= q[b] => Key(a) <= Key(b))
  <2>1. CASE a \in S /\ b \in S
    <3>1. p[a] \in Nat /\ p[b] \in Nat /\ q[a] \in Nat /\ q[b] \in Nat
      BY <1>4, <1>5, <2>1
    <3>2. (p[a] <= p[b] <=> q[a] <= q[b]) /\ (p[b] <= p[a] <=> q[b] <= q[a])
      BY <1>7, <2>1
    <3>3. ASSUME q[a] = q[b] PROVE p[a] = p[b]
      <4>1. q[a] <= q[b] /\ q[b] <= q[a]
        BY <3>1, <3>3
      <4>2. p[a] <= p[b] /\ p[b] <= p[a]
        BY <3>2, <4>1
      <4>3. \A i, j \in Nat : i <= j /\ j <= i => i = j
        OBVIOUS
      <4> QED
        BY <3>1, <4>2, <4>3, Zenon
    <3> QED
      BY <1>9, <2>1, <3>2, <3>3
  <2>2. CASE a = x /\ b \in S
    BY <1>5, <1>10, <1>13, <2>2
  <2>3. CASE a \in S /\ b = x
    BY <1>5, <1>10, <1>13, <2>3
  <2>4. CASE a = x /\ b = x
    BY <1>4, <2>4
  <2> QED
    BY <1>2, <2>1, <2>2, <2>3, <2>4
<1>15. q[Head0] = 0
  BY <1>4, <1>6, <1>9
<1>16. \A n \in T : Key(n)' = Key(n)
  BY <1>2, <1>4
<1>17. T \subseteq NodeIds /\ Head0 \in T /\ w \in Nat
  BY <1>2, <1>4
<1>18. List(l, T, q, w)'
  BY <1>5, <1>11, <1>12, <1>14, <1>15, <1>16, <1>17 DEF List
<1> QED
  BY <1>2, <1>7, <1>18

-----------------------------------------------------------------------------
(* The invariant                                                           *)

Pcs == {"idle", "search", "advance", "lock", "check", "follow", "link", "level", "raise", "found"}
Local == [pc : Pcs, begin : Nat, end : Nat, newNode : NodeIds \cup {Null}, curr : NodeIds,
          i : -1 .. maxLevel - 1, update : [Levels -> NodeIds \cup {Null}],
          curLevel : 0 .. maxLevel, res : Seq(NodeIds), since : SUBSET NodeIds]

Typed ==
    /\ nodes \in Seq([key : Keys, level : 1 .. maxLevel]) /\ Len(nodes) <= MaxNodes
    /\ nexts \in [NodeIds -> [Levels -> NodeIds \cup {Null}]]
    /\ now_level \in 0 .. maxLevel /\ nodeNum \in 0 .. Len(nodes)
    /\ thread \in [Threads -> Local]
    /\ inserted \subseteq 1 .. Len(nodes)

(* The inserters under way; in the locals of a thread: it is looking for a *)
(* place, it is linking its node, it has linked it; its node is on level l.*)
Making      == {t \in Inserters : ~ At(t, "idle")}
Seeking(me) == me.pc \in {"search", "advance"}
Linking(me) == me.pc \in {"lock", "check", "follow", "link"}
Linked(me)  == me.pc \in {"level", "raise"}
On(me, l)   == \/ Linking(me) /\ l < me.i
               \/ Linked(me) /\ l < nodes[me.newNode].level

OnLevel(l) ==
    {n \in NodeIds : \/ n = Head0
                     \/ n \in inserted /\ l < nodes[n].level
                     \/ \E t \in Making : On(thread[t], l) /\ n = thread[t].newNode}

Lists(p, z) == \A l \in Levels : List(l, OnLevel(l), p[l], z[l])

(* The nodes counted are those inserted and those being inserted.          *)
Counted ==
    /\ \A t \in Making : thread[t].newNode \in 1 .. Len(nodes) /\ thread[t].newNode \notin inserted
    /\ \A t, u \in Making : thread[t].newNode = thread[u].newNode => t = u
    /\ \A n \in 1 .. Len(nodes) :
         n > Len(nodes) - nodeNum <=> (n \in inserted \/ \E t \in Making : n = thread[t].newNode)
    /\ \A n \in inserted : n > Len(nodes) - nodeNum /\ nodes[n].level <= now_level

(* Two inserters never hold the same lock.                                 *)
Spot(me) == me.update[me.i]
Holding(me) == me.pc \in {"check", "link"}
Locks ==
    /\ \A t \in Inserters : Holding(thread[t]) => Spot(thread[t]) \in locked
    /\ \A t, u \in Inserters :
         Holding(thread[t]) /\ Holding(thread[u]) /\ Spot(thread[t]) = Spot(thread[u]) => t = u

Smaller(n, l, k) == CompareNodeKey(GetNext(n, l), k)

(* What the locals of a thread know: of the search,                        *)
SearchOK(me) ==
    Seeking(me) =>
        /\ me.curr \in OnLevel(0)
        /\ me.i >= 0 => me.curr \in OnLevel(me.i) /\ Key(me.curr) < me.begin
        /\ me.pc = "advance" => me.i >= 0 /\ Smaller(me.curr, me.i, me.begin)

(* of the places found for a new node, level by level,                     *)
Place(me, l) == me.update[l] \in OnLevel(l) /\ Key(me.update[l]) < me.begin

InsertOK(me) ==
    /\ me.pc # "found" /\ me.begin = Key(me.newNode)
    /\ Seeking(me) => \A l \in Levels : me.i < l /\ l < nodes[me.newNode].level => Place(me, l)
    /\ Linking(me) => /\ me.i >= 0 /\ me.i < nodes[me.newNode].level
                      /\ \A l \in Levels : me.i <= l /\ l < nodes[me.newNode].level => Place(me, l)
    /\ me.pc = "follow" => Smaller(Spot(me), me.i, me.begin)
    /\ me.pc = "raise" => me.curLevel < nodes[me.newNode].level

(* of the new node's pointer when it is about to be linked,                *)
Ready(me) ==
    me.pc = "link" => /\ GetNext(me.newNode, me.i) = GetNext(Spot(me), me.i)
                      /\ ~ Smaller(Spot(me), me.i, me.begin)

(* and of what a finder has found.                                         *)
InRange(me, n) == me.begin <= GetKey(n) /\ GetKey(n) < me.end

FindOK(me, p) ==
    /\ Seeking(me) \/ me.pc = "found"
    /\ me.since \subseteq inserted
    /\ \A a \in DOMAIN me.res : me.res[a] \in OnLevel(0) \ {Head0} /\ InRange(me, me.res[a])
    /\ \A a, b \in DOMAIN me.res : a < b => p[me.res[a]] < p[me.res[b]]
    /\ Seeking(me) =>
         /\ me.i >= 0 => me.res = <<>>
         /\ \A a \in DOMAIN me.res : p[me.res[a]] <= p[me.curr]
         /\ \A n \in me.since : InRange(me, n) /\ p[n] <= p[me.curr] => n \in Elements(me.res)
    /\ me.pc = "found" => \A n \in me.since : InRange(me, n) => n \in Elements(me.res)

ThreadOK(t, me, p) ==
    me.pc # "idle" => /\ SearchOK(me)
                      /\ t \in Inserters => InsertOK(me)
                      /\ t \in Finders => FindOK(me, p)

Threaded(p) == /\ \A t \in Threads : ThreadOK(t, thread[t], p)
               /\ \A t \in Inserters : Ready(thread[t])

Good(p, z) ==
    /\ Typed /\ Lists(p, z) /\ Counted /\ Locks /\ Threaded(p[0])
Kept ==
    \E p \in [Levels -> [NodeIds -> Nat]], z \in [Levels -> Nat] : Good(p, z)

-----------------------------------------------------------------------------
(* Levels                                                                  *)

(* A level has the head and nodes that were made; a lower level has them   *)
(* all, and what was inserted is on the lowest.                            *)
LEMMA LevelFacts ==
    ASSUME Typed, Counted
    PROVE  /\ \A l \in Levels : /\ OnLevel(l) \subseteq 0 .. Len(nodes) /\ Head0 \in OnLevel(l)
                                /\ OnLevel(l) \subseteq NodeIds
           /\ \A k, l \in Levels : k <= l => OnLevel(l) \subseteq OnLevel(k)
           /\ inserted \subseteq OnLevel(0) \ {Head0}
           /\ \A n \in 0 .. Len(nodes) : Key(n) \in Nat
           /\ \A n \in 1 .. Len(nodes) : /\ n \in NodeIds /\ n # Head0 /\ Key(n) = GetKey(n)
                                         /\ GetKey(n) \in Keys /\ nodes[n].level \in 1 .. maxLevel
<1>1. Len(nodes) \in Nat /\ Len(nodes) <= MaxNodes /\ MaxNodes \in Nat /\ maxLevel \in Nat
  BY SkipSizes DEF Typed
<1>2. \A n \in 1 .. Len(nodes) : nodes[n] \in [key : Keys, level : 1 .. maxLevel]
  <2>1. PICK R : R = [key : Keys, level : 1 .. maxLevel]
    OBVIOUS
  <2>2. nodes \in Seq(R)
    BY <2>1 DEF Typed
  <2>3. \A n \in 1 .. Len(nodes) : nodes[n] \in R
    BY <2>2
  <2> QED
    BY <2>1, <2>3
<1>3. \A n \in 1 .. Len(nodes) : n \in NodeIds /\ n # Head0
  BY <1>1 DEF NodeIds, Head0
<1>4. \A n \in 1 .. Len(nodes) : /\ Key(n) = GetKey(n) /\ GetKey(n) \in Keys
                                 /\ nodes[n].level \in 1 .. maxLevel
  BY <1>2, <1>3 DEF Key, GetKey
<1>5. \A n \in 0 .. Len(nodes) : Key(n) \in Nat
  <2> TAKE n \in 0 .. Len(nodes)
  <2>1. CASE n = Head0
    BY <2>1 DEF Key
  <2>2. CASE n # Head0
    <3>1. n \in 1 .. Len(nodes)
      BY <1>1, <2>2 DEF Head0
    <3> QED
      BY <1>4, <3>1, SkipSizes
  <2> QED
    BY <2>1, <2>2
<1>6. inserted \subseteq 1 .. Len(nodes) /\ \A t \in Making : thread[t].newNode \in 1 .. Len(nodes)
  BY DEF Typed, Counted
<1>7. Head0 \in 0 .. Len(nodes) /\ \A n \in 1 .. Len(nodes) : n \in 0 .. Len(nodes)
  BY <1>1 DEF Head0
<1>8. \A l \in Levels : /\ OnLevel(l) \subseteq 0 .. Len(nodes) /\ Head0 \in OnLevel(l)
                        /\ OnLevel(l) \subseteq NodeIds
  BY <1>6, <1>7, SkipSizes DEF OnLevel
<1>9. ASSUME NEW k \in Levels, NEW l \in Levels, k <= l PROVE OnLevel(l) \subseteq OnLevel(k)
  <2>0. k \in Nat /\ l \in Nat
    BY <1>1 DEF Levels
  <2>1. ASSUME NEW t \in Making, On(thread[t], l)
               PROVE  On(thread[t], k)
    <3>1. t \in Threads /\ thread[t] \in Local
      BY DEF Making, Typed, Threads
    <3>2. thread[t].i \in Int
      BY <1>1, <3>1 DEF Local
    <3>3. nodes[thread[t].newNode].level \in Nat
      BY <1>1, <1>4, <1>6
    <3>4. CASE Linking(thread[t]) /\ l < thread[t].i
      BY <1>9, <2>0, <3>2, <3>4 DEF On
    <3>5. CASE Linked(thread[t]) /\ l < nodes[thread[t].newNode].level
      BY <1>9, <2>0, <3>3, <3>5 DEF On
    <3> QED
      BY <2>1, <3>4, <3>5 DEF On
  <2>2. ASSUME NEW n \in inserted, l < nodes[n].level PROVE k < nodes[n].level
    <3>1. PICK h \in Nat : h = nodes[n].level
      BY <1>1, <1>4, <1>6
    <3> QED
      BY <1>9, <2>0, <2>2, <3>1
  <2> QED
    BY <2>1, <2>2 DEF OnLevel
<1>10. inserted \subseteq OnLevel(0) \ {Head0}
  <2> SUFFICES ASSUME NEW n \in inserted PROVE n \in OnLevel(0) /\ n # Head0
    OBVIOUS
  <2>1. n \in 1 .. Len(nodes)
    BY <1>6
  <2>2. 0 < nodes[n].level
    BY <1>1, <1>4, <2>1
  <2> QED
    BY <1>3, <2>1, <2>2 DEF OnLevel
<1> QED
  BY <1>3, <1>4, <1>5, <1>8, <1>9, <1>10

(* A node being inserted is on the levels it was linked on and no other.   *)
LEMMA OwnNode ==
    ASSUME Counted, NEW t \in Making, NEW l \in Levels
    PROVE  thread[t].newNode \in OnLevel(l) => On(thread[t], l)
BY DEF Counted, OnLevel, Head0

(* A level stays as it is if the nodes being inserted stay on it or off it.*)
LEMMA SameLevel ==
    ASSUME NEW l \in Levels, nodes' = nodes, inserted' = inserted, Making' = Making,
           \A u \in Making : thread'[u].newNode = thread[u].newNode,
           \A u \in Making : On(thread'[u], l) <=> On(thread[u], l)
    PROVE  OnLevel(l)' = OnLevel(l)
<1>0. \A u \in Making : On(thread[u], l)' <=> On(thread[u], l)
  BY DEF On, Linking, Linked
<1>1. \A n : (\E t \in Making : On(thread[t], l) /\ n = thread[t].newNode)' <=>
             \E t \in Making : On(thread[t], l) /\ n = thread[t].newNode
  BY <1>0
<1> QED
  BY <1>1 DEF OnLevel

(* What is inserted, or being inserted, is counted as before.              *)
LEMMA SameCount ==
    ASSUME Counted, nodes' = nodes, inserted' = inserted, nodeNum' = nodeNum,
           now_level' = now_level, Making' = Making,
           \A u \in Making : thread'[u].newNode = thread[u].newNode
    PROVE  Counted'
<1>1. \A n : (\E t \in Making : n = thread[t].newNode)' <=> \E t \in Making : n = thread[t].newNode
  OBVIOUS
<1> QED
  BY <1>1 DEF Counted

(* The next node on a level is on that level, and not the head.            *)
LEMMA NextOn ==
    ASSUME NEW p, NEW z, Lists(p, z), NEW l \in Levels, NEW n \in OnLevel(l),
           GetNext(n, l) # Null
    PROVE  /\ GetNext(n, l) \in OnLevel(l) /\ GetNext(n, l) # Head0
           /\ p[l][GetNext(n, l)] = p[l][n] + 1
<1>1. List(l, OnLevel(l), p[l], z[l])
  BY DEF Lists
<1>2. GetNext(n, l) \in OnLevel(l) /\ p[l][GetNext(n, l)] = p[l][n] + 1
  BY <1>1 DEF List
<1>3. p[l][n] \in Nat /\ p[l][Head0] = 0
  BY <1>1 DEF List
<1> QED
  BY <1>2, <1>3

-----------------------------------------------------------------------------
(* The locals of the threads                                               *)

(* What holds of the locals a step gives a thread holds of the thread.     *)
LEMMA LocalsOf ==
    ASSUME NEW t \in Threads, NEW me, me = thread'[t], NEW p
    PROVE  /\ ThreadOK(t, me, p)' => ThreadOK(t, thread[t], p)'
           /\ Ready(me)' => Ready(thread[t])'
<1>1. SearchOK(me)' => SearchOK(thread[t])'
  BY DEF SearchOK, Seeking
<1>2. InsertOK(me)' => InsertOK(thread[t])'
  BY DEF InsertOK, Seeking, Linking, Place, Spot
<1>3. FindOK(me, p)' => FindOK(thread[t], p)'
  BY DEF FindOK, Seeking, InRange
<1>4. Ready(me)' => Ready(thread[t])'
  BY DEF Ready, Spot
<1> QED
  BY <1>1, <1>2, <1>3, <1>4 DEF ThreadOK

(* What the rest of the list does to a thread while another one steps: its *)
(* levels grow, a smaller node stays there, the order stays.               *)
Grows(p, q) ==
    /\ \A l \in Levels : OnLevel(l) \subseteq OnLevel(l)'
    /\ \A l \in Levels : \A n \in OnLevel(l) : \A k \in Nat : Smaller(n, l, k) => Smaller(n, l, k)'
    /\ \A n \in 1 .. Len(nodes) : nodes'[n] = nodes[n]
    /\ inserted \subseteq inserted'
    /\ \A a, b \in OnLevel(0) : p[a] <= p[b] <=> q[a] <= q[b]

(* What a thread knows stays true.                                         *)
LEMMA Stays ==
    ASSUME NEW p \in [NodeIds -> Nat], NEW q \in [NodeIds -> Nat],
           Typed, Counted, Grows(p, q), NEW t \in Threads, NEW me \in Local,
           t \in Making => me.newNode \in 1 .. Len(nodes),
           me.pc # "idle" /\ t \in Inserters => t \in Making,
           ThreadOK(t, me, p)
    PROVE  ThreadOK(t, me, q)'
<1>1. \A n \in 1 .. Len(nodes) : nodes'[n] = nodes[n] /\ GetKey(n)' = GetKey(n)
  BY DEF Grows, GetKey
<1>2. \A n \in 0 .. Len(nodes) : Key(n)' = Key(n)
  <2> TAKE n \in 0 .. Len(nodes)
  <2>1. n = Head0 \/ n \in 1 .. Len(nodes)
    BY DEF Head0
  <2> QED
    BY <1>1, <2>1 DEF Key
<1>3. \A l \in Levels : \A n \in OnLevel(l) : n \in OnLevel(l)' /\ Key(n)' = Key(n)
  BY <1>2, LevelFacts DEF Grows
<1>4. me.i \in -1 .. maxLevel - 1 /\ me.begin \in Nat /\ 0 \in Levels /\ maxLevel \in Nat
  BY SkipSizes DEF Local
<1>5. me.i >= 0 => me.i \in Levels
  BY <1>4 DEF Levels
<1>6. SearchOK(me) => SearchOK(me)'
  <2> SUFFICES ASSUME SearchOK(me), Seeking(me) PROVE SearchOK(me)'
    BY DEF SearchOK, Seeking
  <2>1. me.curr \in OnLevel(0)'
    BY <1>3, <1>4 DEF SearchOK
  <2>2. me.i >= 0 => me.curr \in OnLevel(me.i)' /\ Key(me.curr)' < me.begin
    BY <1>3, <1>5 DEF SearchOK
  <2>3. me.pc = "advance" => me.i >= 0 /\ Smaller(me.curr, me.i, me.begin)'
    BY <1>4, <1>5 DEF SearchOK, Grows
  <2> QED
    BY <2>1, <2>2, <2>3 DEF SearchOK
<1>7. ASSUME t \in Inserters, me.pc # "idle", InsertOK(me) PROVE InsertOK(me)'
  <2>1. me.newNode \in 1 .. Len(nodes)
    BY <1>7
  <2>2. nodes'[me.newNode] = nodes[me.newNode] /\ Key(me.newNode)' = Key(me.newNode)
    <3>1. me.newNode \in 0 .. Len(nodes)
      BY <2>1
    <3> QED
      BY <1>1, <1>2, <2>1, <3>1
  <2>3. \A l \in Levels : Place(me, l) => Place(me, l)'
    BY <1>3 DEF Place
  <2>4. ASSUME me.pc = "follow" PROVE Smaller(Spot(me), me.i, me.begin)'
    <3>1. me.i \in Levels /\ me.i < nodes[me.newNode].level
      BY <1>5, <1>7, <2>4 DEF InsertOK, Linking
    <3>2. Spot(me) \in OnLevel(me.i)
      BY <1>4, <1>7, <2>4, <3>1 DEF InsertOK, Linking, Place, Spot
    <3>3. Smaller(Spot(me), me.i, me.begin)
      BY <1>7, <2>4 DEF InsertOK
    <3> QED
      BY <1>4, <3>1, <3>2, <3>3 DEF Grows
  <2> QED
    BY <1>7, <2>2, <2>3, <2>4 DEF InsertOK, Seeking, Linking
<1>8. ASSUME FindOK(me, p) PROVE FindOK(me, q)'
  <2>1. me.since \subseteq inserted /\ me.since \subseteq OnLevel(0) /\ inserted \subseteq inserted'
    BY <1>8, LevelFacts DEF FindOK, Grows
  <2>2. \A n \in OnLevel(0) \ {Head0} : InRange(me, n)' <=> InRange(me, n)
    <3>1. \A n \in OnLevel(0) \ {Head0} : n \in 1 .. Len(nodes)
      BY <1>4, LevelFacts DEF Head0
    <3> QED
      BY <1>1, <3>1 DEF InRange
  <2>3. me.since \subseteq OnLevel(0) \ {Head0}
    BY <1>8, LevelFacts DEF FindOK
  <2>4. \A a \in DOMAIN me.res : me.res[a] \in OnLevel(0) \ {Head0}
    BY <1>8 DEF FindOK
  <2>5. \A a, b \in OnLevel(0) : (p[a] <= p[b] <=> q[a] <= q[b]) /\ (p[a] < p[b] <=> q[a] < q[b])
    <3> TAKE a, b \in OnLevel(0)
    <3>1. p[a] \in Nat /\ p[b] \in Nat /\ q[a] \in Nat /\ q[b] \in Nat
      BY <1>4, LevelFacts
    <3>2. (p[a] <= p[b] <=> q[a] <= q[b]) /\ (p[b] <= p[a] <=> q[b] <= q[a])
      BY DEF Grows
    <3> QED
      BY <3>1, <3>2
  <2>6. \A a, b \in DOMAIN me.res : a < b => q[me.res[a]] < q[me.res[b]]
    BY <1>8, <2>4, <2>5 DEF FindOK
  <2>7. \A a \in DOMAIN me.res : me.res[a] \in OnLevel(0)' \ {Head0} /\ InRange(me, me.res[a])'
    BY <1>3, <1>4, <1>8, <2>2, <2>4 DEF FindOK
  <2>8. ASSUME Seeking(me)
        PROVE  /\ \A a \in DOMAIN me.res : q[me.res[a]] <= q[me.curr]
               /\ \A n \in me.since : InRange(me, n)' /\ q[n] <= q[me.curr] => n \in Elements(me.res)
    <3>1. me.curr \in OnLevel(0)
      BY <2>8 DEF SearchOK, ThreadOK, Seeking
    <3> QED
      BY <1>8, <2>2, <2>3, <2>4, <2>5, <2>8, <3>1 DEF FindOK
  <2>9. me.pc = "found" => \A n \in me.since : InRange(me, n)' => n \in Elements(me.res)
    BY <1>8, <2>2, <2>3 DEF FindOK
  <2>10. Seeking(me) => (me.i >= 0 => me.res = <<>>)
    BY <1>8 DEF FindOK
  <2>11. Seeking(me) \/ me.pc = "found"
    BY <1>8 DEF FindOK
  <2> QED
    BY <2>1, <2>6, <2>7, <2>8, <2>9, <2>10, <2>11 DEF FindOK, Seeking, Elements
<1> QED
  BY <1>6, <1>7, <1>8 DEF ThreadOK

(* A step that leaves the lists as they are.                               *)
Calm ==
    /\ \A l \in Levels : OnLevel(l)' = OnLevel(l)
    /\ \A l \in Levels : \A n \in OnLevel(l) : GetNext(n, l)' = GetNext(n, l)
    /\ \A n \in 1 .. Len(nodes) : nodes'[n] = nodes[n]
    /\ inserted \subseteq inserted'

(* Keys of the nodes made and the comparisons on the levels are the same.  *)
LEMMA CalmKeys ==
    ASSUME NEW p, NEW z, Typed, Counted, Lists(p, z), Calm
    PROVE  /\ \A n \in 0 .. Len(nodes) : Key(n)' = Key(n)
           /\ \A l \in Levels : \A n \in OnLevel(l) : \A k :
                Smaller(n, l, k)' <=> Smaller(n, l, k)
<1>1. \A n \in 1 .. Len(nodes) : GetKey(n)' = GetKey(n)
  BY DEF Calm, GetKey
<1>2. \A n \in 0 .. Len(nodes) : n = Head0 \/ n \in 1 .. Len(nodes)
  BY DEF Head0
<1>3. \A n \in 0 .. Len(nodes) : Key(n)' = Key(n)
  BY <1>1, <1>2 DEF Key
<1>4. ASSUME NEW l \in Levels, NEW n \in OnLevel(l), NEW k
      PROVE  Smaller(n, l, k)' <=> Smaller(n, l, k)
  <2>1. PICK m : m = GetNext(n, l)
    OBVIOUS
  <2>2. GetNext(n, l)' = m
    BY <2>1 DEF Calm
  <2>3. m = Null \/ m \in 1 .. Len(nodes)
    <3> SUFFICES ASSUME m # Null PROVE m \in 1 .. Len(nodes)
      OBVIOUS
    <3>1. m \in OnLevel(l) /\ m # Head0
      BY <2>1, NextOn
    <3>2. m \in 0 .. Len(nodes)
      BY <3>1, LevelFacts
    <3> QED
      BY <1>2, <3>1, <3>2
  <2>4. CompareNodeKey(m, k)' <=> CompareNodeKey(m, k)
    BY <1>1, <2>3 DEF CompareNodeKey
  <2> QED
    BY <2>1, <2>2, <2>4 DEF Smaller, CompareNodeKey, GetKey
<1> QED
  BY <1>3, <1>4

(* Levels stay lists in a step that leaves them as they are.               *)
LEMMA CalmLists ==
    ASSUME NEW p, NEW z, Typed, Counted, Lists(p, z), Calm
    PROVE  Lists(p, z)' /\ Grows(p[0], p[0])
<1>1. ASSUME NEW l \in Levels PROVE List(l, OnLevel(l), p[l], z[l])'
  <2>1. PICK S, r, w : S = OnLevel(l) /\ r = p[l] /\ w = z[l]
    OBVIOUS
  <2>2. List(l, S, r, w) /\ OnLevel(l)' = S
    BY <2>1 DEF Lists, Calm
  <2>3. \A n \in S : GetNext(n, l)' = GetNext(n, l) /\ Key(n)' = Key(n)
    BY <2>1, CalmKeys, LevelFacts DEF Calm
  <2>4. List(l, S, r, w)'
    BY <2>2, <2>3 DEF List
  <2> QED
    BY <2>1, <2>2, <2>4 DEF List
<1>2. Grows(p[0], p[0])
  <2>1. \A l \in Levels : \A n \in OnLevel(l) : \A k \in Nat : Smaller(n, l, k) => Smaller(n, l, k)'
    BY CalmKeys
  <2> QED
    BY <2>1 DEF Calm, Grows
<1> QED
  BY <1>1, <1>2 DEF Lists

(* What is true of a thread that is about to link stays true in a step     *)
(* that leaves the lists and its node as they are.                         *)
LEMMA CalmReady ==
    ASSUME NEW p, NEW z, Good(p, z), Calm, NEW u \in Inserters, thread'[u] = thread[u],
           \A l \in Levels : thread[u].pc = "link" =>
              GetNext(thread[u].newNode, l)' = GetNext(thread[u].newNode, l)
    PROVE  Ready(thread[u])'
<1> SUFFICES ASSUME NEW me, me = thread[u], me.pc = "link" PROVE Ready(me)'
  BY SkipSizes, LocalsOf DEF Ready
<1>1. /\ Typed /\ Counted /\ Lists(p, z) /\ u \in Threads /\ u \in Making
      /\ ThreadOK(u, me, p[0]) /\ Ready(me)
  BY SkipSizes DEF Good, Threaded, Making, At
<1>2. me.i \in Levels /\ Spot(me) \in OnLevel(me.i)
  <2>1. me \in Local /\ maxLevel \in Nat
    BY <1>1, SkipSizes DEF Typed
  <2>2. me.i \in -1 .. maxLevel - 1
    BY <2>1 DEF Local
  <2>3. InsertOK(me)
    BY <1>1 DEF ThreadOK
  <2>4. me.i >= 0 /\ me.i < nodes[me.newNode].level
    BY <2>3 DEF InsertOK, Linking
  <2>5. me.i \in Levels
    BY <2>1, <2>2, <2>4 DEF Levels
  <2> QED
    BY <2>2, <2>3, <2>4, <2>5 DEF InsertOK, Linking, Place, Spot
<1>3. Smaller(Spot(me), me.i, me.begin)' <=> Smaller(Spot(me), me.i, me.begin)
  <2>1. PICK s, k, b : s = Spot(me) /\ k = me.i /\ b = me.begin
    OBVIOUS
  <2> QED
    BY <1>1, <1>2, <2>1, CalmKeys DEF Spot
<1>4. GetNext(Spot(me), me.i)' = GetNext(Spot(me), me.i)
  BY <1>2 DEF Calm, Spot
<1>5. GetNext(me.newNode, me.i)' = GetNext(me.newNode, me.i)
  BY <1>2
<1> QED
  BY <1>1, <1>3, <1>4, <1>5 DEF Ready, Spot

(* A step of thread t keeps the invariant if it keeps the lists, what is   *)
(* counted and locked, and what the thread's own locals know.              *)
LEMMA StepKeeps ==
    ASSUME NEW p \in [Levels -> [NodeIds -> Nat]], NEW z,
           NEW q \in [Levels -> [NodeIds -> Nat]], NEW w,
           Good(p, z), Typed', Lists(q, w)', Counted', Locks', Grows(p[0], q[0]),
           NEW t \in Threads, \A u \in Threads : u # t => thread'[u] = thread[u],
           NEW me, me = thread'[t], ThreadOK(t, me, q[0])', t \in Inserters => Ready(me)',
           \A u \in Inserters : u # t => Ready(thread[u])'
    PROVE  Good(q, w)'
<1>1. ASSUME NEW u \in Threads, u # t PROVE ThreadOK(u, thread[u], q[0])'
  <2>1. PICK he : he = thread[u]
    OBVIOUS
  <2>2. he = thread'[u] /\ ThreadOK(u, he, p[0]) /\ he \in Local
    BY <1>1, <2>1 DEF Good, Threaded, Typed
  <2>3. /\ u \in Making => he.newNode \in 1 .. Len(nodes)
        /\ he.pc # "idle" /\ u \in Inserters => u \in Making
    BY <2>1 DEF Good, Counted, Making, At
  <2>4. p[0] \in [NodeIds -> Nat] /\ q[0] \in [NodeIds -> Nat] /\ Typed /\ Counted
    BY SkipSizes DEF Good
  <2>5. ThreadOK(u, he, q[0])'
    BY <2>2, <2>3, <2>4, Stays
  <2> QED
    BY <2>2, <2>5, LocalsOf
<1>2. ThreadOK(t, thread[t], q[0])'
  BY LocalsOf
<1>3. \A u \in Inserters : Ready(thread[u])'
  BY LocalsOf
<1> QED
  BY <1>1, <1>2, <1>3 DEF Good, Threaded

(* The locks after a step that gives t other locals.                       *)
LEMMA LocksKept ==
    ASSUME Typed, Locks, NEW t \in Threads, NEW yu, thread' = [thread EXCEPT ![t] = yu],
           \A u \in Inserters : u # t /\ Holding(thread[u]) => Spot(thread[u]) \in locked',
           Holding(yu) /\ t \in Inserters =>
             /\ Spot(yu) \in locked'
             /\ \A u \in Inserters : u # t /\ Holding(thread[u]) => Spot(thread[u]) # Spot(yu)
    PROVE  Locks'
<1>1. thread'[t] = yu /\ \A u \in Threads : u # t => thread'[u] = thread[u]
  BY DEF Typed
<1>2. Inserters \subseteq Threads
  BY SkipSizes
<1>3. ASSUME NEW u \in Inserters, Holding(thread'[u]) PROVE Spot(thread'[u]) \in locked'
  BY <1>1, <1>2, <1>3
<1>4. ASSUME NEW u \in Inserters, NEW v \in Inserters, Holding(thread'[u]), Holding(thread'[v]),
             Spot(thread'[u]) = Spot(thread'[v])
      PROVE  u = v
  BY <1>1, <1>2, <1>4 DEF Locks
<1>5. (\A u \in Inserters : Holding(thread[u]) => Spot(thread[u]) \in locked)'
  BY <1>3 DEF Holding, Spot
<1>6. ASSUME NEW u \in Inserters, NEW v \in Inserters, Holding(thread[u])', Holding(thread[v])',
             Spot(thread[u])' = Spot(thread[v])'
      PROVE  u = v
  <2>1. PICK a, b : a = thread'[u] /\ b = thread'[v]
    OBVIOUS
  <2>2. Holding(a) /\ Holding(b)
    BY <1>6, <2>1 DEF Holding
  <2>3. Spot(a) = Spot(b)
    BY <1>6, <2>1 DEF Spot
  <2> QED
    BY <1>4, <2>1, <2>2, <2>3
<1> QED
  BY <1>5, <1>6 DEF Locks

(* A step that changes the locals of a thread only, and the levels its     *)
(* node is on not at all.                                                  *)
LEMMA QuietStep ==
    ASSUME NEW p \in [Levels -> [NodeIds -> Nat]], NEW z, Good(p, z),
           NEW t \in Threads, NEW me, me = thread[t], NEW yu \in Local,
           thread' = [thread EXCEPT ![t] = yu],
           UNCHANGED <<nodes, nexts, now_level, nodeNum, inserted>>, Locks',
           t \in Inserters => /\ me.pc # "idle" /\ yu.pc # "idle" /\ yu.newNode = me.newNode
                              /\ \A l \in Levels : On(yu, l) <=> On(me, l),
           ThreadOK(t, yu, p[0]), t \in Inserters => Ready(yu)
    PROVE  Good(p, z)'
<1>1. /\ Typed /\ Lists(p, z) /\ Counted /\ p[0] \in [NodeIds -> Nat]
      /\ Inserters \cap Finders = {} /\ Threads = Inserters \cup Finders
  BY SkipSizes DEF Good
<1>2. thread'[t] = yu /\ \A u \in Threads : u # t => thread'[u] = thread[u]
  BY <1>1 DEF Typed
<1>3. Typed'
  <2>1. thread' \in [Threads -> Local]
    BY <1>1 DEF Typed
  <2> QED
    BY <1>1, <2>1 DEF Typed
<1>4. Making' = Making
  BY <1>1, <1>2 DEF Making, At
<1>5. \A u \in Making : /\ thread'[u].newNode = thread[u].newNode
                        /\ \A l \in Levels : On(thread'[u], l) <=> On(thread[u], l)
  BY <1>1, <1>2 DEF Making
<1>6. \A u \in Making, l \in Levels : On(thread[u], l)' <=> On(thread[u], l)
  BY <1>5 DEF On, Linking, Linked
<1>7. ASSUME NEW l \in Levels PROVE OnLevel(l)' = OnLevel(l)
  BY <1>4, <1>5, <1>6 DEF OnLevel
<1>8. Counted'
  BY <1>1, <1>4, <1>5 DEF Counted
<1>9. Calm
  BY <1>7 DEF Calm, GetNext
<1>10. Lists(p, z)' /\ Grows(p[0], p[0])
  BY <1>1, <1>9, CalmLists
<1>11. /\ t \in Making => yu.newNode \in 1 .. Len(nodes)
       /\ yu.pc # "idle" /\ t \in Inserters => t \in Making
  BY <1>1 DEF Making, At, Counted
<1>12. ThreadOK(t, yu, p[0])'
  BY <1>1, <1>10, <1>11, Stays
<1>13. Ready(yu)' <=> Ready(yu)
  BY DEF Ready, GetNext, Spot, Smaller, CompareNodeKey, GetKey
<1>14. ASSUME NEW u \in Inserters, u # t PROVE Ready(thread[u])'
  <2>1. thread'[u] = thread[u]
    BY <1>1, <1>2, <1>14
  <2> QED
    BY <1>9, <2>1, CalmReady DEF GetNext
<1> QED
  BY <1>2, <1>3, <1>8, <1>10, <1>12, <1>13, <1>14, StepKeeps

-----------------------------------------------------------------------------
(* The steps that change the locals of one thread                          *)

(* What the invariant says of one thread.                                  *)
LEMMA Knows ==
    ASSUME NEW p \in [Levels -> [NodeIds -> Nat]], NEW z, Good(p, z),
           NEW t \in Threads, NEW me, me = thread[t]
    PROVE  /\ Typed /\ Lists(p, z) /\ Counted /\ Locks /\ p[0] \in [NodeIds -> Nat]
           /\ me \in Local /\ me.i \in -1 .. maxLevel - 1 /\ me.i \in Int /\ me.begin \in Nat
           /\ me.end \in Nat /\ (me.i >= 0 => me.i \in Levels) /\ 0 \in Levels /\ maxLevel \in Nat
           /\ ThreadOK(t, me, p[0])
           /\ t \in Inserters => Ready(me)
           /\ t \in Inserters /\ me.pc # "idle" =>
                /\ t \in Making /\ me.newNode \in 1 .. Len(nodes) /\ me.newNode \notin inserted
                /\ nodes[me.newNode].level \in 1 .. maxLevel
                /\ nodes[me.newNode].level \in Nat
<1>1. Typed /\ Lists(p, z) /\ Counted /\ Locks /\ p[0] \in [NodeIds -> Nat]
  BY SkipSizes DEF Good
<1>2. me \in Local /\ maxLevel \in Nat /\ 0 \in Levels
  BY <1>1, SkipSizes DEF Typed
<1>3. me.i \in -1 .. maxLevel - 1 /\ me.begin \in Nat /\ me.end \in Nat
  BY <1>2 DEF Local
<1>4. me.i \in Int /\ (me.i >= 0 => me.i \in Levels)
  BY <1>2, <1>3 DEF Levels
<1>5. ThreadOK(t, me, p[0]) /\ (t \in Inserters => Ready(me))
  BY DEF Good, Threaded
<1>6. ASSUME t \in Inserters, me.pc # "idle"
      PROVE  /\ t \in Making /\ me.newNode \in 1 .. Len(nodes) /\ me.newNode \notin inserted
             /\ nodes[me.newNode].level \in 1 .. maxLevel /\ nodes[me.newNode].level \in Nat
  <2>1. t \in Making /\ me.newNode \in 1 .. Len(nodes) /\ me.newNode \notin inserted
    BY <1>1, <1>6 DEF Making, At, Counted
  <2>2. nodes[me.newNode].level \in 1 .. maxLevel
    BY <1>1, <2>1, LevelFacts
  <2> QED
    BY <1>2, <2>1, <2>2
<1> QED
  BY <1>1, <1>2, <1>3, <1>4, <1>5, <1>6

(* An unlocked step of a thread that holds no lock afterwards.             *)
LEMMA LocksQuiet ==
    ASSUME Typed, Locks, NEW t \in Threads, NEW yu, thread' = [thread EXCEPT ![t] = yu],
           locked' = locked, ~ Holding(yu)
    PROVE  Locks'
<1>1. \A u \in Inserters : u # t /\ Holding(thread[u]) => Spot(thread[u]) \in locked'
  BY DEF Locks
<1> QED
  BY <1>1, LocksKept

(* Comparing with the next node of the level, and going down, keeps the    *)
(* invariant.                                                              *)
LEMMA SearchKeeps ==
    ASSUME NEW p \in [Levels -> [NodeIds -> Nat]], NEW z, Good(p, z),
           NEW t \in Threads, Search(t)
    PROVE  Good(p, z)'
<1>1. PICK me : me = thread[t]
  OBVIOUS
<1>2. /\ Typed /\ Lists(p, z) /\ Counted /\ Locks /\ p[0] \in [NodeIds -> Nat]
      /\ me \in Local /\ me.i \in -1 .. maxLevel - 1 /\ me.i \in Int /\ me.begin \in Nat
      /\ 0 \in Levels /\ maxLevel \in Nat /\ ThreadOK(t, me, p[0])
  BY <1>1, Knows
<1>3. me.pc = "search" /\ me.i \in Levels /\ me.i >= 0 /\ Seeking(me)
  BY <1>1, Knows DEF Search, At, Seeking
<1>4. SearchOK(me) /\ (t \in Inserters => InsertOK(me)) /\ (t \in Finders => FindOK(me, p[0]))
  BY <1>2, <1>3 DEF ThreadOK
<1>5. me.curr \in OnLevel(0) /\ me.curr \in OnLevel(me.i) /\ Key(me.curr) < me.begin
  BY <1>3, <1>4 DEF SearchOK
<1>6. UNCHANGED <<nodes, nexts, locked, now_level, nodeNum, inserted>>
  BY DEF Search
<1>7. CASE Smaller(me.curr, me.i, me.begin)
  <2>1. PICK yu : yu = [me EXCEPT !.pc = "advance"]
    OBVIOUS
  <2>2. thread' = [thread EXCEPT ![t] = yu]
    BY <1>1, <1>7, <2>1 DEF Search, Goto, Smaller
  <2>3. yu \in Local /\ Seeking(yu)
    BY <1>2, <2>1 DEF Local, Pcs, Seeking
  <2>4. /\ yu.pc = "advance" /\ yu.begin = me.begin /\ yu.end = me.end
        /\ yu.newNode = me.newNode /\ yu.curr = me.curr /\ yu.i = me.i /\ yu.update = me.update
        /\ yu.res = me.res /\ yu.since = me.since
    BY <1>2, <2>1 DEF Local
  <2>5. SearchOK(yu)
    BY <1>3, <1>5, <1>7, <2>4 DEF SearchOK
  <2>6. t \in Inserters => InsertOK(yu)
    BY <1>3, <1>4, <2>3, <2>4 DEF InsertOK, Place, Linking
  <2>7. t \in Finders => FindOK(yu, p[0])
    BY <1>3, <1>4, <2>3, <2>4 DEF FindOK, InRange
  <2>8. Locks'
    BY <1>2, <1>6, <2>2, <2>4, LocksQuiet DEF Holding
  <2>9. \A l \in Levels : On(yu, l) <=> On(me, l)
    BY <1>3, <2>4 DEF On, Linking, Linked
  <2>10. ThreadOK(t, yu, p[0]) /\ Ready(yu)
    BY <2>4, <2>5, <2>6, <2>7 DEF ThreadOK, Ready
  <2> QED
    BY <1>1, <1>3, <1>6, <2>2, <2>3, <2>4, <2>8, <2>9, <2>10, QuietStep
<1>8. CASE ~ Smaller(me.curr, me.i, me.begin)
  <2>1. PICK yu : yu = [me EXCEPT !.update = [me.update EXCEPT ![me.i] = me.curr], !.i = me.i - 1]
    OBVIOUS
  <2>2. thread' = [thread EXCEPT ![t] = yu]
    BY <1>1, <1>8, <2>1 DEF Search, Smaller
  <2>3. /\ me.update \in [Levels -> NodeIds \cup {Null}] /\ me.curr \in NodeIds
        /\ me.i - 1 \in -1 .. maxLevel - 1
    BY <1>2, <1>3 DEF Local
  <2>4. /\ yu.pc = "search" /\ yu.begin = me.begin /\ yu.end = me.end
        /\ yu.newNode = me.newNode /\ yu.curr = me.curr /\ yu.i = me.i - 1
        /\ yu.update = [me.update EXCEPT ![me.i] = me.curr]
        /\ yu.res = me.res /\ yu.since = me.since
    BY <1>2, <1>3, <2>1 DEF Local
  <2>5. yu \in Local /\ Seeking(yu)
    <3>1. [me.update EXCEPT ![me.i] = me.curr] \in [Levels -> NodeIds \cup {Null}]
      BY <2>3
    <3> QED
      BY <1>2, <2>1, <2>3, <2>4, <3>1 DEF Local, Seeking
  <2>6. SearchOK(yu)
    <3>1. ASSUME yu.i >= 0 PROVE yu.curr \in OnLevel(yu.i)
      <4>1. yu.i \in Levels /\ yu.i <= me.i
        BY <1>2, <2>3, <2>4, <3>1 DEF Levels
      <4> QED
        BY <1>2, <1>3, <1>5, <2>4, <4>1, LevelFacts
    <3> QED
      BY <1>5, <2>4, <3>1 DEF SearchOK
  <2>7. ASSUME t \in Inserters PROVE InsertOK(yu)
    <3>1. ASSUME NEW l \in Levels, yu.i < l, l < nodes[yu.newNode].level PROVE Place(yu, l)
      <4>1. CASE l = me.i
        BY <1>3, <1>5, <2>3, <2>4, <4>1 DEF Place
      <4>2. CASE l # me.i
        <5>1. me.i < l
          BY <1>2, <2>4, <3>1, <4>2 DEF Levels
        <5>2. Place(me, l)
          BY <1>3, <1>4, <2>4, <2>7, <3>1, <5>1 DEF InsertOK
        <5> QED
          BY <2>3, <2>4, <4>2, <5>2 DEF Place
      <4> QED
        BY <4>1, <4>2
    <3> QED
      BY <1>4, <2>4, <2>7, <3>1 DEF InsertOK, Linking
  <2>8. ASSUME t \in Finders PROVE FindOK(yu, p[0])
    <3>1. me.res = <<>>
      BY <1>3, <1>4, <2>8 DEF FindOK
    <3> QED
      BY <1>3, <1>4, <2>4, <2>5, <2>8, <3>1 DEF FindOK, InRange
  <2>9. Locks'
    BY <1>2, <1>6, <2>2, <2>4, LocksQuiet DEF Holding
  <2>10. \A l \in Levels : On(yu, l) <=> On(me, l)
    BY <1>3, <2>4 DEF On, Linking, Linked
  <2>11. ThreadOK(t, yu, p[0]) /\ Ready(yu)
    BY <2>4, <2>6, <2>7, <2>8 DEF ThreadOK, Ready
  <2> QED
    BY <1>1, <1>3, <1>6, <2>2, <2>4, <2>5, <2>9, <2>10, <2>11, QuietStep
<1> QED
  BY <1>7, <1>8

(* Order on a level.                                                       *)
LEMMA KeysInOrder ==
    ASSUME NEW p, NEW z, Lists(p, z), NEW l \in Levels, NEW a \in OnLevel(l), NEW b \in OnLevel(l)
    PROVE  p[l][a] <= p[l][b] => Key(a) <= Key(b)
BY DEF Lists, List

(* Going on along the level keeps the invariant.                           *)
LEMMA AdvanceKeeps ==
    ASSUME NEW p \in [Levels -> [NodeIds -> Nat]], NEW z, Good(p, z),
           NEW t \in Threads, Advance(t)
    PROVE  Good(p, z)'
<1>1. PICK me : me = thread[t]
  OBVIOUS
<1>2. /\ Typed /\ Lists(p, z) /\ Counted /\ Locks /\ p[0] \in [NodeIds -> Nat]
      /\ me \in Local /\ me.i \in -1 .. maxLevel - 1 /\ me.i \in Int /\ me.begin \in Nat
      /\ 0 \in Levels /\ maxLevel \in Nat /\ ThreadOK(t, me, p[0])
  BY <1>1, Knows
<1>3. me.pc = "advance" /\ Seeking(me)
  BY <1>1 DEF Advance, At, Seeking
<1>4. SearchOK(me) /\ (t \in Inserters => InsertOK(me)) /\ (t \in Finders => FindOK(me, p[0]))
  BY <1>2, <1>3 DEF ThreadOK
<1>5. /\ me.i >= 0 /\ me.curr \in OnLevel(0) /\ me.curr \in OnLevel(me.i)
      /\ Smaller(me.curr, me.i, me.begin)
  BY <1>3, <1>4 DEF SearchOK
<1>6. me.i \in Levels
  BY <1>1, <1>5, Knows
<1>7. UNCHANGED <<nodes, nexts, locked, now_level, nodeNum, inserted>>
  BY DEF Advance
<1>8. PICK c : c = GetNext(me.curr, me.i)
  OBVIOUS
<1>9. c # Null /\ GetKey(c) < me.begin
  BY <1>5, <1>8 DEF Smaller, CompareNodeKey
<1>10. c \in OnLevel(me.i) /\ c # Head0
  BY <1>2, <1>5, <1>6, <1>8, <1>9, NextOn
<1>11. c \in OnLevel(0) /\ c \in NodeIds
  <2>1. 0 <= me.i
    BY <1>2, <1>5
  <2> QED
    BY <1>2, <1>6, <1>10, <2>1, LevelFacts
<1>12. Key(c) < me.begin
  BY <1>9, <1>10 DEF Key
<1>13. PICK yu : yu = [me EXCEPT !.pc = "search", !.curr = c]
  OBVIOUS
<1>14. thread' = [thread EXCEPT ![t] = yu]
  BY <1>1, <1>8, <1>13 DEF Advance
<1>15. yu \in Local /\ Seeking(yu)
  BY <1>2, <1>11, <1>13 DEF Local, Pcs, Seeking
<1>16. /\ yu.pc = "search" /\ yu.begin = me.begin /\ yu.end = me.end
       /\ yu.newNode = me.newNode /\ yu.curr = c /\ yu.i = me.i /\ yu.update = me.update
       /\ yu.res = me.res /\ yu.since = me.since
  BY <1>2, <1>13 DEF Local
<1>17. SearchOK(yu)
  BY <1>10, <1>11, <1>12, <1>16 DEF SearchOK
<1>18. t \in Inserters => InsertOK(yu)
  BY <1>3, <1>4, <1>15, <1>16 DEF InsertOK, Place, Linking
<1>19. ASSUME t \in Finders PROVE FindOK(yu, p[0])
  <2>1. me.res = <<>> /\ me.since \subseteq inserted
    BY <1>3, <1>4, <1>5, <1>19 DEF FindOK
  <2>2. ASSUME NEW n \in me.since, InRange(yu, n), p[0][n] <= p[0][c] PROVE FALSE
    <3>1. n \in OnLevel(0) /\ n # Head0
      BY <1>2, <2>1, LevelFacts
    <3>2. Key(n) <= Key(c)
      BY <1>2, <1>11, <2>2, <3>1, KeysInOrder
    <3>3. me.begin <= Key(n)
      BY <1>16, <2>2, <3>1 DEF InRange, Key
    <3>4. PICK x \in Nat, y \in Nat : x = Key(n) /\ y = Key(c)
      BY <1>2, <1>11, <3>1, LevelFacts
    <3> QED
      BY <1>2, <1>12, <3>2, <3>3, <3>4
  <2> QED
    BY <1>15, <1>16, <2>1, <2>2 DEF FindOK
<1>20. Locks'
  BY <1>2, <1>7, <1>14, <1>16, LocksQuiet DEF Holding
<1>21. \A l \in Levels : On(yu, l) <=> On(me, l)
  BY <1>3, <1>16 DEF On, Linking, Linked
<1>22. ThreadOK(t, yu, p[0]) /\ Ready(yu)
  BY <1>16, <1>17, <1>18, <1>19 DEF ThreadOK, Ready
<1> QED
  BY <1>1, <1>3, <1>7, <1>14, <1>15, <1>16, <1>20, <1>21, <1>22, QuietStep

(* The scan of findByRange on the lowest level keeps the invariant.        *)
LEMMA ScanKeeps ==
    ASSUME NEW p \in [Levels -> [NodeIds -> Nat]], NEW z, Good(p, z),
           NEW t \in Finders, Scan(t)
    PROVE  Good(p, z)'
<1>0. t \in Threads /\ t \notin Inserters
  BY SkipSizes
<1>1. PICK me : me = thread[t]
  OBVIOUS
<1>2. /\ Typed /\ Lists(p, z) /\ Counted /\ Locks /\ p[0] \in [NodeIds -> Nat]
      /\ me \in Local /\ me.i \in Int /\ me.begin \in Nat /\ me.end \in Nat
      /\ 0 \in Levels /\ ThreadOK(t, me, p[0])
  BY <1>0, <1>1, Knows
<1>3. me.pc = "search" /\ Seeking(me) /\ me.i < 0
  BY <1>1 DEF Scan, Searched, At, Seeking
<1>4. SearchOK(me) /\ FindOK(me, p[0])
  BY <1>2, <1>3 DEF ThreadOK
<1>5. me.curr \in OnLevel(0)
  BY <1>3, <1>4 DEF SearchOK
<1>6. UNCHANGED <<nodes, nexts, locked, now_level, nodeNum, inserted>>
  BY DEF Scan
<1>7. PICK r, c : r = p[0] /\ c = GetNext(me.curr, 0)
  OBVIOUS
<1>8. /\ me.since \subseteq inserted /\ me.since \subseteq OnLevel(0) \ {Head0}
      /\ \A a \in DOMAIN me.res : me.res[a] \in OnLevel(0) \ {Head0} /\ InRange(me, me.res[a])
      /\ \A a, b \in DOMAIN me.res : a < b => r[me.res[a]] < r[me.res[b]]
      /\ \A a \in DOMAIN me.res : r[me.res[a]] <= r[me.curr]
      /\ \A n \in me.since : InRange(me, n) /\ r[n] <= r[me.curr] => n \in Elements(me.res)
  BY <1>2, <1>3, <1>4, <1>7, LevelFacts DEF FindOK
<1>9. \A n \in OnLevel(0) : n \in NodeIds /\ r[n] \in Nat /\ Key(n) \in Nat
  BY <1>2, <1>7, LevelFacts
<1>10. c # Null => c \in OnLevel(0) /\ c # Head0 /\ r[c] = r[me.curr] + 1
  BY <1>2, <1>5, <1>7, NextOn
<1>11. List(0, OnLevel(0), r, z[0])
  BY <1>2, <1>7 DEF Lists
<1>12. CASE c = Null \/ (GetKey(c) >= me.begin /\ GetKey(c) >= me.end)
  <2>1. PICK yu : yu = [me EXCEPT !.pc = "found"]
    OBVIOUS
  <2>2. thread' = [thread EXCEPT ![t] = yu]
    BY <1>1, <1>7, <1>12, <2>1 DEF Scan, Goto
  <2>3. yu \in Local
    BY <1>2, <2>1 DEF Local, Pcs
  <2>4. /\ yu.pc = "found" /\ yu.begin = me.begin /\ yu.end = me.end
        /\ yu.res = me.res /\ yu.since = me.since
    BY <1>2, <2>1 DEF Local
  <2>5. ASSUME NEW n \in me.since, InRange(me, n) PROVE r[n] <= r[me.curr]
    <3>1. n \in OnLevel(0) /\ n # Head0 /\ r[n] \in Nat /\ r[me.curr] \in Nat
      BY <1>5, <1>8, <1>9
    <3>2. CASE c = Null
      <4>1. r[me.curr] = z[0]
        BY <1>5, <1>7, <1>11, <1>9, <3>2, SkipSizes DEF List
      <4> QED
        BY <1>11, <3>1, <4>1 DEF List
    <3>3. CASE c # Null
      <4>1. c \in OnLevel(0) /\ c # Head0 /\ r[c] = r[me.curr] + 1
        BY <1>10, <3>3
      <4>2. Key(c) = GetKey(c) /\ Key(n) = GetKey(n)
        BY <3>1, <4>1 DEF Key
      <4>3. ~ (Key(c) <= Key(n))
        <5>1. PICK x \in Nat, y \in Nat : x = Key(n) /\ y = Key(c)
          BY <1>9, <3>1, <4>1
        <5>2. x < me.end /\ y >= me.end
          BY <1>12, <2>5, <3>3, <4>2, <5>1 DEF InRange
        <5> QED
          BY <1>2, <5>1, <5>2
      <4>4. ~ (r[c] <= r[n])
        BY <1>2, <1>7, <3>1, <4>1, <4>3, KeysInOrder
      <4> QED
        BY <3>1, <4>1, <4>4
    <3> QED
      BY <3>2, <3>3
  <2>6. FindOK(yu, p[0])
    BY <1>7, <1>8, <2>4, <2>5 DEF FindOK, Seeking, InRange
  <2>7. SearchOK(yu) /\ ThreadOK(t, yu, p[0])
    BY <1>0, <2>4, <2>6 DEF SearchOK, Seeking, ThreadOK
  <2>8. Locks'
    BY <1>0, <1>2, <1>6, <2>2, <2>4, LocksQuiet DEF Holding
  <2> QED
    BY <1>0, <1>1, <1>6, <2>2, <2>3, <2>7, <2>8, QuietStep
<1>13. CASE ~ (c = Null \/ (GetKey(c) >= me.begin /\ GetKey(c) >= me.end))
  <2>1. PICK s : s = IF GetKey(c) < me.begin THEN me.res ELSE Append(me.res, c)
    OBVIOUS
  <2>2. PICK yu : yu = [me EXCEPT !.curr = c, !.res = s]
    OBVIOUS
  <2>3. thread' = [thread EXCEPT ![t] = yu]
    BY <1>1, <1>7, <1>13, <2>1, <2>2 DEF Scan, GetValue
  <2>4. /\ c \in OnLevel(0) /\ c # Head0 /\ r[c] = r[me.curr] + 1 /\ c \in NodeIds
        /\ Key(c) = GetKey(c) /\ GetKey(c) \in Nat /\ r[c] \in Nat /\ r[me.curr] \in Nat
    BY <1>5, <1>9, <1>10, <1>13 DEF Key
  <2>5. me.res \in Seq(NodeIds) /\ s \in Seq(NodeIds)
    BY <1>2, <2>1, <2>4 DEF Local
  <2>6. yu \in Local
    BY <1>2, <2>2, <2>4, <2>5 DEF Local
  <2>7. /\ yu.pc = "search" /\ yu.begin = me.begin /\ yu.end = me.end /\ yu.i = me.i
        /\ yu.res = s /\ yu.since = me.since /\ yu.curr = c
    BY <1>2, <1>3, <2>2 DEF Local
  <2>8. ASSUME NEW n \in me.since, InRange(me, n), r[n] <= r[c] PROVE n \in Elements(s)
    <3>1. n \in OnLevel(0) /\ n # Head0 /\ r[n] \in Nat
      BY <1>8, <1>9
    <3>2. CASE r[n] <= r[me.curr]
      <4>1. PICK a \in DOMAIN me.res : n = me.res[a]
        BY <1>8, <2>8, <3>2 DEF Elements
      <4>2. a \in DOMAIN s /\ s[a] = n
        BY <2>1, <2>4, <2>5, <4>1
      <4> QED
        BY <4>2 DEF Elements
    <3>3. CASE ~ (r[n] <= r[me.curr])
      <4>1. n = c
        <5>1. r[n] = r[c]
          BY <2>4, <2>8, <3>1, <3>3
        <5> QED
          BY <1>11, <2>4, <3>1, <5>1 DEF List
      <4>2. ~ (GetKey(c) < me.begin)
        BY <1>2, <2>4, <2>8, <4>1 DEF InRange
      <4>3. Len(s) \in DOMAIN s /\ s[Len(s)] = c
        BY <2>1, <2>4, <2>5, <4>2
      <4> QED
        BY <4>1, <4>3 DEF Elements
    <3> QED
      BY <3>2, <3>3
  <2>9. /\ \A a \in DOMAIN s : s[a] \in OnLevel(0) \ {Head0} /\ InRange(me, s[a]) /\ r[s[a]] <= r[c]
        /\ \A a, b \in DOMAIN s : a < b => r[s[a]] < r[s[b]]
    <3>1. \A a \in DOMAIN me.res : r[me.res[a]] \in Nat /\ r[me.res[a]] < r[c]
      <4> TAKE a \in DOMAIN me.res
      <4>1. r[me.res[a]] \in Nat /\ r[me.res[a]] <= r[me.curr]
        BY <1>8, <1>9
      <4> QED
        BY <2>4, <4>1
    <3>2. CASE GetKey(c) < me.begin
      BY <1>8, <2>1, <2>4, <3>1, <3>2
    <3>3. CASE ~ (GetKey(c) < me.begin)
      <4>1. InRange(me, c)
        BY <1>2, <1>13, <2>4, <3>3 DEF InRange
      <4>2. s = Append(me.res, c) /\ Len(me.res) \in Nat
        BY <2>1, <2>5, <3>3
      <4>3. \A a \in DOMAIN s : \/ a \in DOMAIN me.res /\ s[a] = me.res[a]
                                \/ a = Len(me.res) + 1 /\ s[a] = c
        BY <2>4, <2>5, <4>2
      <4>4. DOMAIN me.res = 1 .. Len(me.res)
        BY <2>5
      <4>5. \A a \in DOMAIN s : s[a] \in OnLevel(0) \ {Head0} /\ InRange(me, s[a]) /\ r[s[a]] <= r[c]
        BY <1>8, <2>4, <3>1, <4>1, <4>3
      <4>6. ASSUME NEW a \in DOMAIN s, NEW b \in DOMAIN s, a < b PROVE r[s[a]] < r[s[b]]
        <5>1. CASE b \in DOMAIN me.res /\ s[b] = me.res[b]
          <6>1. a # Len(me.res) + 1
            BY <4>2, <4>4, <4>6, <5>1
          <6> QED
            BY <1>8, <4>3, <4>6, <5>1, <6>1
        <5>2. CASE b = Len(me.res) + 1 /\ s[b] = c
          <6>1. a \in DOMAIN me.res /\ s[a] = me.res[a]
            BY <4>2, <4>3, <4>6, <5>2
          <6> QED
            BY <3>1, <5>2, <6>1
        <5> QED
          BY <4>3, <5>1, <5>2
      <4> QED
        BY <4>5, <4>6
    <3> QED
      BY <3>2, <3>3
  <2>10. FindOK(yu, p[0])
    <3>1. \A n : InRange(yu, n) <=> InRange(me, n)
      BY <2>7 DEF InRange
    <3>2. Seeking(yu) /\ yu.pc # "found" /\ ~ (yu.i >= 0)
      BY <1>2, <1>3, <2>7 DEF Seeking
    <3>3. \A a \in DOMAIN yu.res : /\ yu.res[a] \in OnLevel(0) \ {Head0} /\ InRange(yu, yu.res[a])
                                  /\ r[yu.res[a]] <= r[yu.curr]
      BY <2>7, <2>9, <3>1
    <3>4. \A a, b \in DOMAIN yu.res : a < b => r[yu.res[a]] < r[yu.res[b]]
      BY <2>7, <2>9
    <3>5. \A n \in yu.since : InRange(yu, n) /\ r[n] <= r[yu.curr] => n \in Elements(yu.res)
      BY <2>7, <2>8, <3>1
    <3>6. yu.since \subseteq inserted
      BY <1>8, <2>7
    <3> QED
      BY <1>7, <3>2, <3>3, <3>4, <3>5, <3>6 DEF FindOK
  <2>11. SearchOK(yu) /\ ThreadOK(t, yu, p[0])
    BY <1>0, <1>2, <1>3, <2>4, <2>7, <2>10 DEF SearchOK, Seeking, ThreadOK
  <2>12. Locks'
    BY <1>0, <1>2, <1>6, <2>3, <2>7, LocksQuiet DEF Holding
  <2> QED
    BY <1>0, <1>1, <1>6, <2>3, <2>6, <2>11, <2>12, QuietStep
<1> QED
  BY <1>12, <1>13

(* The locals of a thread that does nothing.                               *)
LEMMA IdleLocal ==
    /\ Idle \in Local /\ Idle.pc = "idle" /\ Idle.curr = Head0 /\ Idle.i = 0 /\ Idle.res = <<>>
    /\ Idle.since = {} /\ Idle.newNode = Null /\ ~ Holding(Idle)
<1>1. 0 \in -1 .. maxLevel - 1 /\ 0 \in 0 .. maxLevel
  BY SkipSizes
<1>2. [l \in Levels |-> Null] \in [Levels -> NodeIds \cup {Null}] /\ Head0 \in NodeIds
  BY SkipSizes
<1>3. <<>> \in Seq(NodeIds)
  OBVIOUS
<1> QED
  BY <1>1, <1>2, <1>3 DEF Idle, Local, Pcs, Holding

(* The start of findByRange keeps the invariant.                           *)
LEMMA StartFindKeeps ==
    ASSUME NEW p \in [Levels -> [NodeIds -> Nat]], NEW z, Good(p, z),
           NEW t \in Finders, NEW b \in Keys, NEW e \in Nat, StartFind(t, b, e)
    PROVE  Good(p, z)'
<1>0. t \in Threads /\ t \notin Inserters /\ b \in Nat /\ 0 < b
  BY SkipSizes
<1>1. PICK me : me = thread[t]
  OBVIOUS
<1>2. /\ Typed /\ Lists(p, z) /\ Counted /\ Locks /\ p[0] \in [NodeIds -> Nat]
      /\ 0 \in Levels /\ maxLevel \in Nat
  BY <1>0, <1>1, Knows
<1>3. UNCHANGED <<nodes, nexts, locked, now_level, nodeNum, inserted>>
  BY DEF StartFind
<1>4. now_level \in 0 .. maxLevel /\ inserted \subseteq NodeIds
  BY <1>2, LevelFacts DEF Typed
<1>5. now_level - 1 \in -1 .. maxLevel - 1 /\ (now_level - 1 >= 0 => now_level - 1 \in Levels)
  BY <1>2, <1>4 DEF Levels
<1>6. PICK yu : yu = [Idle EXCEPT !.pc = "search", !.begin = b, !.end = e,
                                  !.i = now_level - 1, !.since = inserted]
  OBVIOUS
<1>7. thread' = [thread EXCEPT ![t] = yu]
  BY <1>6 DEF StartFind
<1>8. Idle \in Local /\ Idle.curr = Head0 /\ Idle.res = <<>>
  BY IdleLocal
<1>9. yu \in Local
  BY <1>0, <1>4, <1>5, <1>6, <1>8 DEF Local, Pcs
<1>10. /\ yu.pc = "search" /\ yu.begin = b /\ yu.end = e /\ yu.i = now_level - 1
       /\ yu.res = <<>> /\ yu.since = inserted /\ yu.curr = Head0
  BY <1>6, <1>8 DEF Local
<1>11. SearchOK(yu)
  <2>1. yu.i >= 0 => yu.curr \in OnLevel(yu.i)
    BY <1>2, <1>5, <1>10, LevelFacts
  <2>2. yu.curr \in OnLevel(0) /\ Key(yu.curr) < yu.begin
    BY <1>0, <1>2, <1>10, LevelFacts DEF Key
  <2> QED
    BY <1>10, <2>1, <2>2 DEF SearchOK
<1>12. FindOK(yu, p[0])
  <2>1. PICK r : r = p[0]
    OBVIOUS
  <2>2. List(0, OnLevel(0), r, z[0])
    BY <1>2, <2>1 DEF Lists
  <2>3. ASSUME NEW n \in inserted, r[n] <= r[Head0] PROVE FALSE
    <3>1. n \in OnLevel(0) /\ n # Head0 /\ r[n] \in Nat /\ Head0 \in OnLevel(0)
      BY <1>2, <2>1, LevelFacts
    <3>2. r[n] = r[Head0]
      BY <2>2, <2>3, <3>1 DEF List
    <3> QED
      BY <2>2, <3>1, <3>2 DEF List
  <2> QED
    BY <1>10, <2>1, <2>3 DEF FindOK, Seeking
<1>13. Locks'
  BY <1>0, <1>2, <1>3, <1>7, <1>10, LocksQuiet DEF Holding
<1>14. ThreadOK(t, yu, p[0])
  BY <1>0, <1>11, <1>12 DEF ThreadOK
<1> QED
  BY <1>0, <1>1, <1>3, <1>7, <1>9, <1>13, <1>14, QuietStep

(* The return of findByRange keeps the invariant.                          *)
LEMMA FindReturnsKeeps ==
    ASSUME NEW p \in [Levels -> [NodeIds -> Nat]], NEW z, Good(p, z),
           NEW t \in Finders, FindReturns(t)
    PROVE  Good(p, z)'
<1>0. t \in Threads /\ t \notin Inserters
  BY SkipSizes
<1>1. PICK me, yu : me = thread[t] /\ yu = Idle
  OBVIOUS
<1>2. Typed /\ Locks
  BY DEF Good
<1>3. thread' = [thread EXCEPT ![t] = yu] /\ UNCHANGED <<nodes, nexts, locked, now_level, nodeNum, inserted>>
  BY <1>1 DEF FindReturns
<1>4. yu \in Local /\ yu.pc = "idle" /\ ~ Holding(yu)
  BY <1>1, IdleLocal
<1>5. Locks'
  BY <1>0, <1>2, <1>3, <1>4, LocksQuiet
<1>6. ThreadOK(t, yu, p[0])
  BY <1>4 DEF ThreadOK
<1> QED
  BY <1>0, <1>1, <1>3, <1>4, <1>5, <1>6, QuietStep

(* Following the next pointer after an unlock keeps the invariant.         *)
LEMMA FollowKeeps ==
    ASSUME NEW p \in [Levels -> [NodeIds -> Nat]], NEW z, Good(p, z),
           NEW t \in Inserters, Follow(t)
    PROVE  Good(p, z)'
<1>0. t \in Threads /\ t \notin Finders
  BY SkipSizes
<1>1. PICK me : me = thread[t]
  OBVIOUS
<1>2. /\ Typed /\ Lists(p, z) /\ Counted /\ Locks /\ me \in Local /\ me.i \in Int
      /\ 0 \in Levels /\ maxLevel \in Nat /\ ThreadOK(t, me, p[0])
  BY <1>0, <1>1, Knows
<1>3. me.pc = "follow" /\ Linking(me)
  BY <1>1 DEF Follow, At, Linking
<1>4. InsertOK(me)
  BY <1>2, <1>3 DEF ThreadOK
<1>5. me.i >= 0 /\ me.i < nodes[me.newNode].level /\ Smaller(Spot(me), me.i, me.begin)
  BY <1>3, <1>4 DEF InsertOK
<1>6. me.i \in Levels
  BY <1>0, <1>1, <1>5, Knows
<1>7. Spot(me) \in OnLevel(me.i)
  BY <1>2, <1>3, <1>4, <1>5, <1>6 DEF InsertOK, Place, Spot
<1>8. PICK c : c = GetNext(Spot(me), me.i)
  OBVIOUS
<1>9. c # Null /\ GetKey(c) < me.begin
  BY <1>5, <1>8 DEF Smaller, CompareNodeKey
<1>10. c \in OnLevel(me.i) /\ c # Head0
  BY <1>2, <1>6, <1>7, <1>8, <1>9, NextOn
<1>11. c \in NodeIds /\ Key(c) < me.begin
  BY <1>2, <1>6, <1>9, <1>10, LevelFacts DEF Key
<1>12. UNCHANGED <<nodes, nexts, locked, now_level, nodeNum, inserted>>
  BY DEF Follow
<1>13. PICK yu : yu = [me EXCEPT !.pc = "lock", !.update = [me.update EXCEPT ![me.i] = c]]
  OBVIOUS
<1>14. thread' = [thread EXCEPT ![t] = yu]
  BY <1>1, <1>8, <1>13 DEF Follow, After, Before, Spot
<1>15. me.update \in [Levels -> NodeIds \cup {Null}]
  BY <1>2 DEF Local
<1>16. yu \in Local /\ Linking(yu)
  <2>1. [me.update EXCEPT ![me.i] = c] \in [Levels -> NodeIds \cup {Null}]
    BY <1>11, <1>15
  <2> QED
    BY <1>2, <1>13, <2>1 DEF Local, Pcs, Linking
<1>17. /\ yu.pc = "lock" /\ yu.begin = me.begin /\ yu.newNode = me.newNode /\ yu.i = me.i
       /\ yu.update = [me.update EXCEPT ![me.i] = c]
  BY <1>2, <1>13 DEF Local
<1>18. ASSUME NEW l \in Levels, yu.i <= l, l < nodes[yu.newNode].level PROVE Place(yu, l)
  <2>1. CASE l = me.i
    BY <1>6, <1>10, <1>11, <1>15, <1>17, <2>1 DEF Place
  <2>2. CASE l # me.i
    <3>1. Place(me, l)
      BY <1>3, <1>4, <1>17, <1>18 DEF InsertOK
    <3> QED
      BY <1>15, <1>17, <2>2, <3>1 DEF Place
  <2> QED
    BY <2>1, <2>2
<1>19. InsertOK(yu)
  BY <1>4, <1>5, <1>16, <1>17, <1>18 DEF InsertOK, Seeking
<1>20. Locks'
  BY <1>0, <1>2, <1>12, <1>14, <1>17, LocksQuiet DEF Holding
<1>21. \A l \in Levels : On(yu, l) <=> On(me, l)
  BY <1>3, <1>17 DEF On, Linking, Linked
<1>22. ThreadOK(t, yu, p[0]) /\ Ready(yu)
  BY <1>0, <1>17, <1>19 DEF ThreadOK, SearchOK, Seeking, Ready
<1> QED
  BY <1>0, <1>1, <1>3, <1>12, <1>14, <1>16, <1>17, <1>20, <1>21, <1>22, QuietStep

(* Taking the lock of the node to insert behind keeps the invariant.       *)
LEMMA LockNodeKeeps ==
    ASSUME NEW p \in [Levels -> [NodeIds -> Nat]], NEW z, Good(p, z),
           NEW t \in Inserters, LockNode(t)
    PROVE  Good(p, z)'
<1>0. t \in Threads /\ t \notin Finders
  BY SkipSizes
<1>1. PICK me : me = thread[t]
  OBVIOUS
<1>2. /\ Typed /\ Lists(p, z) /\ Counted /\ Locks /\ me \in Local /\ me.i \in Int
      /\ me.i \in -1 .. maxLevel - 1
      /\ 0 \in Levels /\ maxLevel \in Nat /\ ThreadOK(t, me, p[0])
  BY <1>0, <1>1, Knows
<1>3. me.pc \in {"search", "lock"} /\ (me.pc = "search" => me.i < 0)
  BY <1>1 DEF LockNode, Searched, At
<1>4. PICK k : k = IF me.pc = "search" THEN 0 ELSE me.i
  OBVIOUS
<1>5. PICK yu : yu = [me EXCEPT !.pc = "check", !.i = k]
  OBVIOUS
<1>6. InsertOK(me) /\ 0 < nodes[me.newNode].level
  <2>1. nodes[me.newNode].level \in 1 .. maxLevel
    BY <1>0, <1>1, <1>3, Knows
  <2> QED
    BY <1>2, <1>3, <2>1 DEF ThreadOK
<1>7. k \in Levels /\ k < nodes[me.newNode].level
  BY <1>0, <1>1, <1>2, <1>3, <1>4, <1>6, Knows DEF InsertOK, Linking
<1>8. k \in -1 .. maxLevel - 1 /\ k \in Int /\ k >= 0
  BY <1>2, <1>7 DEF Levels
<1>9. yu \in Local /\ Linking(yu)
  BY <1>2, <1>5, <1>8 DEF Local, Pcs, Linking
<1>10. /\ yu.pc = "check" /\ yu.begin = me.begin /\ yu.newNode = me.newNode /\ yu.i = k
       /\ yu.update = me.update
  BY <1>2, <1>5 DEF Local
<1>11. thread' = [thread EXCEPT ![t] = yu]
  <2>1. CASE me.pc = "search"
    BY <1>1, <1>4, <1>5, <2>1 DEF LockNode, Searched, At
  <2>2. CASE me.pc # "search"
    <3>1. thread' = [thread EXCEPT ![t].pc = "check"]
      BY <1>1, <2>2 DEF LockNode, Searched, At, Goto
    <3>2. yu = [me EXCEPT !.pc = "check"]
      BY <1>2, <1>4, <1>5, <2>2 DEF Local
    <3> QED
      BY <1>1, <3>1, <3>2
  <2> QED
    BY <2>1, <2>2
<1>12. Spot(yu) \notin locked /\ locked' = locked \cup {Spot(yu)}
  BY <1>1, <1>4, <1>10 DEF LockNode, Searched, At, Before, Spot
<1>13. UNCHANGED <<nodes, nexts, now_level, nodeNum, inserted>>
  BY DEF LockNode
<1>14. ASSUME NEW l \in Levels, yu.i <= l, l < nodes[yu.newNode].level PROVE Place(yu, l)
  <2>1. Place(me, l)
    <3>1. CASE me.pc = "search"
      <4>1. me.i < l
        BY <1>2, <1>3, <3>1 DEF Levels
      <4> QED
        BY <1>6, <1>10, <1>14, <3>1, <4>1 DEF InsertOK, Seeking
    <3>2. CASE me.pc = "lock"
      BY <1>4, <1>6, <1>10, <1>14, <3>2 DEF InsertOK, Linking
    <3> QED
      BY <1>3, <3>1, <3>2
  <2> QED
    BY <1>10, <2>1 DEF Place
<1>15. InsertOK(yu)
  BY <1>6, <1>7, <1>8, <1>9, <1>10, <1>14 DEF InsertOK, Seeking
<1>16. Locks'
  <2>1. \A u \in Inserters : u # t /\ Holding(thread[u]) =>
          Spot(thread[u]) \in locked' /\ Spot(thread[u]) # Spot(yu)
    BY <1>2, <1>12 DEF Locks
  <2> QED
    BY <1>0, <1>2, <1>11, <1>12, <2>1, LocksKept
<1>17. \A l \in Levels : On(yu, l) <=> On(me, l)
  <2>1. \A l \in Levels : l \in Nat
    BY <1>2 DEF Levels
  <2>2. CASE me.pc = "search"
    BY <1>4, <1>10, <2>1, <2>2 DEF On, Linking, Linked
  <2>3. CASE me.pc = "lock"
    BY <1>4, <1>10, <2>3 DEF On, Linking, Linked
  <2> QED
    BY <1>3, <2>2, <2>3
<1>18. ThreadOK(t, yu, p[0]) /\ Ready(yu)
  BY <1>0, <1>10, <1>15 DEF ThreadOK, SearchOK, Seeking, Ready
<1> QED
  BY <1>0, <1>1, <1>3, <1>9, <1>10, <1>11, <1>13, <1>16, <1>17, <1>18, QuietStep

-----------------------------------------------------------------------------
(* The steps of an insert                                                  *)

(* Looking at the successor again under the lock keeps the invariant.      *)
LEMMA CheckNextKeeps ==
    ASSUME NEW p \in [Levels -> [NodeIds -> Nat]], NEW z, Good(p, z),
           NEW t \in Inserters, CheckNext(t)
    PROVE  Good(p, z)'
<1>0. t \in Threads /\ t \notin Finders
  BY SkipSizes
<1>1. PICK me : me = thread[t]
  OBVIOUS
<1>2. /\ Typed /\ Lists(p, z) /\ Counted /\ Locks /\ p[0] \in [NodeIds -> Nat]
      /\ me \in Local /\ me.i \in Int /\ me.begin \in Nat
      /\ 0 \in Levels /\ maxLevel \in Nat /\ ThreadOK(t, me, p[0])
  BY <1>0, <1>1, Knows
<1>3. me.pc = "check" /\ Linking(me) /\ Holding(me)
  BY <1>1 DEF CheckNext, At, Linking, Holding
<1>4. InsertOK(me)
  BY <1>2, <1>3 DEF ThreadOK
<1>5. me.i >= 0 /\ me.i < nodes[me.newNode].level
  BY <1>3, <1>4 DEF InsertOK
<1>6. me.i \in Levels
  BY <1>0, <1>1, <1>5, Knows
<1>7. Spot(me) \in OnLevel(me.i)
  BY <1>2, <1>3, <1>4, <1>5, <1>6 DEF InsertOK, Place, Spot
<1>8. /\ Before(t) = Spot(me) /\ After(t) = GetNext(Spot(me), me.i)
      /\ CompareNodeKey(After(t), thread[t].begin) <=> Smaller(Spot(me), me.i, me.begin)
  BY <1>1 DEF Before, After, Spot, Smaller
<1>9. Spot(me) \in locked /\ \A u \in Inserters : u # t /\ Holding(thread[u]) =>
                               Spot(thread[u]) \in locked /\ Spot(thread[u]) # Spot(me)
  BY <1>1, <1>2, <1>3 DEF Locks
<1>10. UNCHANGED <<nodes, now_level, nodeNum, inserted>>
  BY DEF CheckNext
<1>11. CASE Smaller(Spot(me), me.i, me.begin)
  <2>1. PICK yu : yu = [me EXCEPT !.pc = "follow"]
    OBVIOUS
  <2>2. thread' = [thread EXCEPT ![t] = yu] /\ locked' = locked \ {Spot(me)} /\ nexts' = nexts
    BY <1>1, <1>8, <1>11, <2>1 DEF CheckNext, Goto, UnlockNode
  <2>3. yu \in Local /\ Linking(yu)
    BY <1>2, <2>1 DEF Local, Pcs, Linking
  <2>4. /\ yu.pc = "follow" /\ yu.begin = me.begin /\ yu.newNode = me.newNode /\ yu.i = me.i
        /\ yu.update = me.update /\ Spot(yu) = Spot(me)
    BY <1>2, <2>1 DEF Local, Spot
  <2>5. InsertOK(yu)
    BY <1>3, <1>4, <1>11, <2>3, <2>4 DEF InsertOK, Place, Seeking
  <2>6. Locks'
    <3>1. ~ Holding(yu)
      BY <2>4 DEF Holding
    <3>2. \A u \in Inserters : u # t /\ Holding(thread[u]) => Spot(thread[u]) \in locked'
      BY <1>9, <2>2
    <3> QED
      BY <1>0, <1>2, <2>2, <3>1, <3>2, LocksKept
  <2>7. \A l \in Levels : On(yu, l) <=> On(me, l)
    BY <1>3, <2>4 DEF On, Linking, Linked
  <2>8. ThreadOK(t, yu, p[0]) /\ Ready(yu)
    BY <1>0, <2>4, <2>5 DEF ThreadOK, SearchOK, Seeking, Ready
  <2> QED
    BY <1>0, <1>1, <1>3, <1>10, <2>2, <2>3, <2>4, <2>6, <2>7, <2>8, QuietStep
<1>12. CASE ~ Smaller(Spot(me), me.i, me.begin)
  <2>1. PICK yu : yu = [me EXCEPT !.pc = "link"]
    OBVIOUS
  <2>2. PICK x, i, s : x = me.newNode /\ i = me.i /\ s = Spot(me)
    OBVIOUS
  <2>3. /\ thread' = [thread EXCEPT ![t] = yu] /\ locked' = locked
        /\ nexts' = PutNext(x, i, GetNext(s, i))
    BY <1>1, <1>8, <1>12, <2>1, <2>2 DEF CheckNext, Goto
  <2>4. yu \in Local /\ Linking(yu)
    BY <1>2, <2>1 DEF Local, Pcs, Linking
  <2>5. /\ yu.pc = "link" /\ yu.begin = me.begin /\ yu.newNode = x /\ yu.i = i
        /\ yu.update = me.update /\ Spot(yu) = s
    <3>1. yu.pc = "link" /\ yu.begin = me.begin /\ yu.newNode = me.newNode /\ yu.i = me.i
          /\ yu.update = me.update
      BY <1>2, <2>1 DEF Local
    <3>2. Spot(yu) = Spot(me)
      BY <3>1 DEF Spot
    <3> QED
      BY <2>2, <3>1, <3>2
  <2>6. thread'[t] = yu /\ \A u \in Threads : u # t => thread'[u] = thread[u]
    BY <1>0, <1>2, <2>3 DEF Typed
  <2>7. t \in Making /\ x \in 1 .. Len(nodes) /\ x \in NodeIds
    BY <1>0, <1>1, <1>2, <1>3, <2>2, Knows, LevelFacts
  <2>8. i \in Levels /\ s \in OnLevel(i) /\ x \notin OnLevel(i)
    <3>1. ~ On(me, i)
      BY <1>2, <1>3, <2>2 DEF On, Linking, Linked
    <3> QED
      BY <1>1, <1>2, <1>6, <1>7, <2>2, <2>7, <3>1, OwnNode
  <2>9. GetNext(s, i) \in NodeIds \cup {Null}
    <3>1. s \in NodeIds
      BY <1>2, <2>8, LevelFacts
    <3> QED
      BY <1>2, <2>8, <3>1 DEF GetNext, Typed
  <2>10. Typed'
    <3>1. thread' \in [Threads -> Local]
      BY <1>2, <2>3, <2>4 DEF Typed
    <3>2. nexts' \in [NodeIds -> [Levels -> NodeIds \cup {Null}]]
      BY <1>2, <2>3, <2>7, <2>8, <2>9 DEF Typed, PutNext
    <3> QED
      BY <1>2, <1>10, <3>1, <3>2 DEF Typed
  <2>11. \A n \in NodeIds, l \in Levels : ~ (n = x /\ l = i) => GetNext(n, l)' = GetNext(n, l)
    BY <1>2, <2>3, <2>7, <2>8 DEF Typed, PutNext, GetNext
  <2>12. GetNext(x, i)' = GetNext(s, i)
    BY <1>2, <2>3, <2>7, <2>8 DEF Typed, PutNext, GetNext
  <2>13. Making' = Making
    BY <1>0, <1>1, <1>3, <2>5, <2>6, SkipSizes DEF Making, At
  <2>14. \A u \in Making : /\ thread'[u].newNode = thread[u].newNode
                           /\ \A l \in Levels : On(thread'[u], l) <=> On(thread[u], l)
    <3> TAKE u \in Making
    <3>1. u \in Threads
      BY SkipSizes DEF Making
    <3>2. CASE u = t
      BY <1>1, <1>3, <2>2, <2>5, <2>6, <3>2 DEF On, Linking, Linked
    <3>3. CASE u # t
      BY <2>6, <3>1, <3>3
    <3> QED
      BY <3>2, <3>3
  <2>15. ASSUME NEW l \in Levels PROVE OnLevel(l)' = OnLevel(l)
    BY <1>10, <2>13, <2>14, SameLevel
  <2>16. Counted'
    <3>1. \A u \in Making : thread'[u].newNode = thread[u].newNode
      BY <2>14
    <3> QED
      BY <1>2, <1>10, <2>13, <3>1 DEF Counted
  <2>17. Calm
    <3>1. ASSUME NEW l \in Levels, NEW n \in OnLevel(l) PROVE GetNext(n, l)' = GetNext(n, l)
      BY <1>2, <2>8, <2>11, <3>1, LevelFacts
    <3> QED
      BY <1>10, <2>15, <3>1 DEF Calm
  <2>18. Lists(p, z)' /\ Grows(p[0], p[0])
    BY <1>2, <2>17, CalmLists
  <2>19. Ready(yu)'
    <3>1. GetNext(s, i)' = GetNext(s, i)
      BY <2>8, <2>17 DEF Calm
    <3>2. Smaller(s, i, me.begin)' <=> Smaller(s, i, me.begin)
      <4>1. PICK k : k = me.begin
        OBVIOUS
      <4> QED
        BY <1>2, <2>8, <2>17, <4>1, CalmKeys
    <3>3. ~ Smaller(s, i, me.begin)'
      BY <1>12, <2>2, <3>2
    <3> QED
      BY <2>5, <2>12, <3>1, <3>3 DEF Ready, Spot
  <2>20. InsertOK(yu)
    BY <1>3, <1>4, <2>2, <2>4, <2>5 DEF InsertOK, Place, Seeking
  <2>21. ThreadOK(t, yu, p[0])
    BY <1>0, <2>5, <2>20 DEF ThreadOK, SearchOK, Seeking
  <2>22. ThreadOK(t, yu, p[0])'
    BY <1>0, <1>2, <2>4, <2>5, <2>7, <2>18, <2>21, Stays
  <2>23. ASSUME NEW u \in Inserters, u # t PROVE Ready(thread[u])'
    <3>1. thread'[u] = thread[u] /\ u \in Threads
      BY <2>6, <2>23, SkipSizes
    <3>2. ASSUME thread[u].pc = "link", NEW l \in Levels
          PROVE  GetNext(thread[u].newNode, l)' = GetNext(thread[u].newNode, l)
      <4>1. PICK y : y = thread[u].newNode
        OBVIOUS
      <4>2. u \in Making
        BY <3>2 DEF Making, At
      <4>3. y \in 1 .. Len(nodes) /\ y # x
        BY <1>1, <1>2, <2>2, <2>7, <2>23, <4>1, <4>2 DEF Counted
      <4>4. y \in NodeIds
        BY <1>2, <4>3, LevelFacts
      <4>5. GetNext(y, l)' = GetNext(y, l)
        BY <2>11, <4>3, <4>4
      <4> QED
        BY <3>1, <4>1, <4>5 DEF GetNext
    <3> QED
      BY <2>17, <3>1, <3>2, CalmReady
  <2>24. Locks'
    <3>1. \A u \in Inserters : u # t /\ Holding(thread[u]) =>
            Spot(thread[u]) \in locked' /\ Spot(thread[u]) # Spot(yu)
      BY <1>9, <2>2, <2>3, <2>5
    <3>2. Spot(yu) \in locked'
      BY <1>9, <2>2, <2>3, <2>5
    <3> QED
      BY <1>0, <1>2, <2>3, <3>1, <3>2, LocksKept
  <2> QED
    BY <1>0, <2>6, <2>10, <2>16, <2>18, <2>19, <2>22, <2>23, <2>24, StepKeeps
<1> QED
  BY <1>11, <1>12

(* An insert returns when its node is on all its levels and the list has   *)
(* the level.                                                              *)
LEMMA ReturnKeeps ==
    ASSUME NEW p \in [Levels -> [NodeIds -> Nat]], NEW z, Good(p, z),
           NEW t \in Inserters, NEW me, me = thread[t], Linked(me), InsertReturns(t),
           UNCHANGED <<nodes, nexts, locked, nodeNum>>,
           now_level' \in 0 .. maxLevel, now_level <= now_level',
           nodes[me.newNode].level <= now_level'
    PROVE  Good(p, z)'
<1>0. t \in Threads /\ t \notin Finders
  BY SkipSizes
<1>1. /\ Typed /\ Lists(p, z) /\ Counted /\ Locks /\ p[0] \in [NodeIds -> Nat]
      /\ 0 \in Levels /\ maxLevel \in Nat
  BY <1>0, Knows
<1>2. PICK x, yu : x = me.newNode /\ yu = Idle
  OBVIOUS
<1>3. t \in Making /\ x \in 1 .. Len(nodes) /\ x \in NodeIds /\ x # Head0
  <2>1. me.pc # "idle"
    BY DEF Linked
  <2> QED
    BY <1>0, <1>1, <1>2, <2>1, Knows, LevelFacts
<1>4. thread' = [thread EXCEPT ![t] = yu] /\ inserted' = inserted \cup {x}
  BY <1>2 DEF InsertReturns
<1>5. yu \in Local /\ yu.pc = "idle" /\ ~ Holding(yu)
  BY <1>2, IdleLocal
<1>6. thread'[t] = yu /\ \A u \in Threads : u # t => thread'[u] = thread[u]
  BY <1>0, <1>1, <1>4 DEF Typed
<1>7. Typed'
  <2>1. thread' \in [Threads -> Local]
    BY <1>1, <1>4, <1>5 DEF Typed
  <2>2. inserted' \subseteq 1 .. Len(nodes)
    BY <1>1, <1>3, <1>4 DEF Typed
  <2> QED
    BY <1>1, <2>1, <2>2 DEF Typed
<1>8. Making' = Making \ {t} /\ \A u \in Making \ {t} : thread'[u] = thread[u]
  BY <1>5, <1>6, SkipSizes DEF Making, At
<1>9. \A l \in Levels : On(me, l) <=> l < nodes[x].level
  BY <1>2 DEF On, Linking, Linked
<1>10. ASSUME NEW l \in Levels PROVE OnLevel(l)' = OnLevel(l)
  <2>1. \A u \in Making \ {t} : On(thread[u], l)' <=> On(thread[u], l)
    BY <1>8 DEF On, Linking, Linked
  <2>2. ASSUME NEW n \in NodeIds
        PROVE  (\/ n \in inserted /\ l < nodes[n].level
                \/ \E u \in Making : On(thread[u], l) /\ n = thread[u].newNode)' <=>
               (\/ n \in inserted /\ l < nodes[n].level
                \/ \E u \in Making : On(thread[u], l) /\ n = thread[u].newNode)
    <3>1. (\E u \in Making : On(thread[u], l) /\ n = thread[u].newNode)' <=>
             \E u \in Making \ {t} : On(thread[u], l) /\ n = thread[u].newNode
      BY <1>8, <2>1
    <3>2. (\E u \in Making : On(thread[u], l) /\ n = thread[u].newNode) <=>
             \/ \E u \in Making \ {t} : On(thread[u], l) /\ n = thread[u].newNode
             \/ n = x /\ l < nodes[x].level
      BY <1>2, <1>3, <1>9
    <3>3. (n \in inserted /\ l < nodes[n].level)' <=>
             \/ n \in inserted /\ l < nodes[n].level
             \/ n = x /\ l < nodes[x].level
      BY <1>4
    <3> QED
      BY <3>1, <3>2, <3>3
  <2> QED
    BY <2>2 DEF OnLevel
<1>11. Counted'
  <2>1. /\ \A u \in Making \ {t} : /\ thread[u].newNode \in 1 .. Len(nodes)
                                   /\ thread[u].newNode \notin inserted /\ thread[u].newNode # x
        /\ \A u, v \in Making : thread[u].newNode = thread[v].newNode => u = v
    BY <1>2, <1>3, <1>1 DEF Counted
  <2>2. \A u \in Making' : /\ thread'[u].newNode \in 1 .. Len(nodes')
                           /\ thread'[u].newNode \notin inserted'
    BY <1>4, <1>8, <2>1
  <2>3. \A u, v \in Making' : thread'[u].newNode = thread'[v].newNode => u = v
    BY <1>8, <2>1
  <2>4. ASSUME NEW n \in 1 .. Len(nodes)
        PROVE  n > Len(nodes) - nodeNum <=> (n \in inserted' \/ \E u \in Making' : n = thread'[u].newNode)
    <3>1. n > Len(nodes) - nodeNum <=> (n \in inserted \/ \E u \in Making : n = thread[u].newNode)
      BY <1>1 DEF Counted
    <3> QED
      BY <1>2, <1>3, <1>4, <1>8, <3>1
  <2>5. ASSUME NEW n \in inserted'
        PROVE  n > Len(nodes) - nodeNum /\ nodes[n].level <= now_level'
    <3>1. CASE n \in inserted
      <4>1. n > Len(nodes) - nodeNum /\ nodes[n].level <= now_level
        BY <1>1, <3>1 DEF Counted
      <4>2. nodes[n].level \in 1 .. maxLevel
        BY <1>1, <3>1, LevelFacts DEF Typed
      <4>3. PICK h \in Nat, a \in Nat, b \in Nat : h = nodes[n].level /\ a = now_level /\ b = now_level'
        BY <1>1, <4>2 DEF Typed
      <4>4. h <= b
        BY <4>1, <4>3
      <4> QED
        BY <4>1, <4>3, <4>4
    <3>2. CASE n = x
      BY <1>1, <1>2, <1>3, <3>2 DEF Counted
    <3> QED
      BY <1>4, <3>1, <3>2
  <2> QED
    BY <2>2, <2>3, <2>4, <2>5 DEF Counted
<1>12. Calm
  BY <1>4, <1>10 DEF Calm, GetNext
<1>13. Lists(p, z)' /\ Grows(p[0], p[0])
  BY <1>1, <1>12, CalmLists
<1>14. Locks'
  BY <1>0, <1>1, <1>4, <1>5, LocksQuiet
<1>15. ThreadOK(t, yu, p[0])' /\ Ready(yu)'
  BY <1>5 DEF ThreadOK, Ready
<1>16. ASSUME NEW u \in Inserters, u # t PROVE Ready(thread[u])'
  <2>1. thread'[u] = thread[u]
    BY <1>6, <1>16, SkipSizes
  <2> QED
    BY <1>12, <2>1, CalmReady DEF GetNext
<1> QED
  BY <1>0, <1>6, <1>7, <1>11, <1>13, <1>14, <1>15, <1>16, StepKeeps

(* Reading the level of the list keeps the invariant.                      *)
LEMMA LoadLevelKeeps ==
    ASSUME NEW p \in [Levels -> [NodeIds -> Nat]], NEW z, Good(p, z),
           NEW t \in Inserters, LoadLevel(t)
    PROVE  Good(p, z)'
<1>0. t \in Threads /\ t \notin Finders
  BY SkipSizes
<1>1. PICK me : me = thread[t]
  OBVIOUS
<1>2. /\ Typed /\ Locks /\ me \in Local /\ maxLevel \in Nat /\ ThreadOK(t, me, p[0])
  BY <1>0, <1>1, Knows
<1>3. me.pc = "level" /\ Linked(me) /\ LevelOf(t) = nodes[me.newNode].level
  BY <1>1 DEF LoadLevel, At, Linked, LevelOf
<1>4. InsertOK(me) /\ nodes[me.newNode].level \in Nat /\ now_level \in Nat /\ now_level \in 0 .. maxLevel
  <2>1. nodes[me.newNode].level \in Nat
    BY <1>0, <1>1, <1>3, Knows
  <2> QED
    BY <1>2, <1>3, <2>1 DEF ThreadOK, Typed
<1>5. UNCHANGED <<nodes, nexts, locked, now_level, nodeNum>>
  BY DEF LoadLevel
<1>6. CASE now_level < LevelOf(t)
  <2>1. PICK yu : yu = [me EXCEPT !.pc = "raise", !.curLevel = now_level]
    OBVIOUS
  <2>2. thread' = [thread EXCEPT ![t] = yu] /\ inserted' = inserted
    BY <1>1, <1>6, <2>1 DEF LoadLevel
  <2>3. yu \in Local
    BY <1>2, <1>4, <2>1 DEF Local, Pcs
  <2>4. /\ yu.pc = "raise" /\ yu.begin = me.begin /\ yu.newNode = me.newNode
        /\ yu.curLevel = now_level
    BY <1>2, <2>1 DEF Local
  <2>5. InsertOK(yu)
    BY <1>3, <1>4, <1>6, <2>4 DEF InsertOK, Seeking, Linking
  <2>6. Locks'
    BY <1>0, <1>2, <1>5, <2>2, <2>4, LocksQuiet DEF Holding
  <2>7. \A l \in Levels : On(yu, l) <=> On(me, l)
    BY <1>3, <2>4 DEF On, Linking, Linked
  <2>8. ThreadOK(t, yu, p[0]) /\ Ready(yu)
    BY <1>0, <2>4, <2>5 DEF ThreadOK, SearchOK, Seeking, Ready
  <2> QED
    BY <1>0, <1>1, <1>3, <1>5, <2>2, <2>3, <2>4, <2>6, <2>7, <2>8, QuietStep
<1>7. CASE ~ (now_level < LevelOf(t))
  <2>1. InsertReturns(t)
    BY <1>7 DEF LoadLevel
  <2>2. nodes[me.newNode].level <= now_level' /\ now_level <= now_level' /\ now_level' \in 0 .. maxLevel
    BY <1>3, <1>4, <1>5, <1>7
  <2> QED
    BY <1>1, <1>3, <1>5, <2>1, <2>2, ReturnKeeps
<1> QED
  BY <1>6, <1>7

(* Raising the level of the list keeps the invariant.                      *)
LEMMA RaiseLevelKeeps ==
    ASSUME NEW p \in [Levels -> [NodeIds -> Nat]], NEW z, Good(p, z),
           NEW t \in Inserters, RaiseLevel(t)
    PROVE  Good(p, z)'
<1>0. t \in Threads /\ t \notin Finders
  BY SkipSizes
<1>1. PICK me : me = thread[t]
  OBVIOUS
<1>2. /\ Typed /\ Locks /\ me \in Local /\ maxLevel \in Nat /\ ThreadOK(t, me, p[0])
  BY <1>0, <1>1, Knows
<1>3. me.pc = "raise" /\ Linked(me) /\ LevelOf(t) = nodes[me.newNode].level
  BY <1>1 DEF RaiseLevel, At, Linked, LevelOf
<1>4. /\ InsertOK(me) /\ nodes[me.newNode].level \in Nat /\ nodes[me.newNode].level \in 1 .. maxLevel
      /\ now_level \in Nat /\ me.curLevel < nodes[me.newNode].level
  <2>1. nodes[me.newNode].level \in 1 .. maxLevel /\ nodes[me.newNode].level \in Nat
    BY <1>0, <1>1, <1>3, Knows
  <2>2. InsertOK(me)
    BY <1>2, <1>3 DEF ThreadOK
  <2> QED
    BY <1>2, <1>3, <2>1, <2>2 DEF InsertOK, Typed
<1>5. UNCHANGED <<nodes, nexts, locked, nodeNum>>
  BY DEF RaiseLevel
<1>6. CASE now_level = me.curLevel
  <2>1. InsertReturns(t) /\ now_level' = nodes[me.newNode].level
    BY <1>1, <1>3, <1>6 DEF RaiseLevel
  <2>2. nodes[me.newNode].level <= now_level' /\ now_level <= now_level' /\ now_level' \in 0 .. maxLevel
    BY <1>2, <1>4, <1>6, <2>1
  <2> QED
    BY <1>1, <1>3, <1>5, <2>1, <2>2, ReturnKeeps
<1>7. CASE now_level # me.curLevel
  <2>1. PICK yu : yu = [me EXCEPT !.pc = "level"]
    OBVIOUS
  <2>2. /\ thread' = [thread EXCEPT ![t] = yu]
        /\ UNCHANGED <<nodes, nexts, now_level, nodeNum, inserted, locked>>
    BY <1>1, <1>5, <1>7, <2>1 DEF RaiseLevel, Goto
  <2>3. yu \in Local
    BY <1>2, <2>1 DEF Local, Pcs
  <2>4. yu.pc = "level" /\ yu.begin = me.begin /\ yu.newNode = me.newNode
    BY <1>2, <2>1 DEF Local
  <2>5. InsertOK(yu)
    BY <1>3, <1>4, <2>4 DEF InsertOK, Seeking, Linking
  <2>6. Locks'
    BY <1>0, <1>2, <2>2, <2>4, LocksQuiet DEF Holding
  <2>7. \A l \in Levels : On(yu, l) <=> On(me, l)
    BY <1>3, <2>4 DEF On, Linking, Linked
  <2>8. ThreadOK(t, yu, p[0]) /\ Ready(yu)
    BY <1>0, <2>4, <2>5 DEF ThreadOK, SearchOK, Seeking, Ready
  <2> QED
    BY <1>0, <1>1, <1>3, <2>2, <2>3, <2>4, <2>6, <2>7, <2>8, QuietStep
<1> QED
  BY <1>6, <1>7

(* The start of insert keeps the invariant.                                *)
LEMMA StartInsertKeeps ==
    ASSUME NEW p \in [Levels -> [NodeIds -> Nat]], NEW z, Good(p, z),
           NEW t \in Inserters, NEW k \in Keys, NEW h \in RandomLevel, StartInsert(t, k, h)
    PROVE  Good(p, z)'
<1>0. t \in Threads /\ t \notin Finders
  BY SkipSizes
<1>1. /\ Typed /\ Lists(p, z) /\ Counted /\ Locks /\ p[0] \in [NodeIds -> Nat]
      /\ 0 \in Levels /\ maxLevel \in Nat
  BY <1>0, Knows
<1>2. PICK x : x = Len(nodes) + 1
  OBVIOUS
<1>3. /\ Len(nodes) \in Nat /\ x \in Nat /\ x <= MaxNodes /\ MaxNodes \in Nat /\ x \in NodeIds
      /\ nodeNum \in Nat /\ nodeNum <= Len(nodes) /\ x \notin 1 .. Len(nodes)
      /\ now_level \in 0 .. maxLevel
  <2>1. Len(nodes) \in Nat /\ MaxNodes \in Nat /\ Len(nodes) < MaxNodes
    BY <1>1, SkipSizes DEF Typed, StartInsert
  <2> QED
    BY <1>1, <1>2, <2>1 DEF Typed, NodeIds
<1>4. PICK R, nn : /\ R = [key : Keys, level : 1 .. maxLevel] /\ nn = NewNode(k, h)
                   /\ nn \in R /\ nn.key = k /\ nn.level = h
  <2>1. PICK R : R = [key : Keys, level : 1 .. maxLevel]
    OBVIOUS
  <2>2. PICK nn : nn = NewNode(k, h)
    OBVIOUS
  <2>3. nn \in R /\ nn.key = k /\ nn.level = h
    BY <2>1, <2>2 DEF NewNode, RandomLevel
  <2> QED
    BY <2>1, <2>2, <2>3
<1>5. nodes \in Seq(R) /\ nodes' = Append(nodes, nn)
  BY <1>1, <1>4 DEF Typed, StartInsert
<1>6. /\ nodes' \in Seq(R) /\ Len(nodes') = x /\ nodes'[x] = nn
      /\ \A n \in 1 .. Len(nodes) : nodes'[n] = nodes[n]
  BY <1>2, <1>4, <1>5
<1>7. PICK i : i = (IF now_level > h THEN now_level ELSE h) - 1
  OBVIOUS
<1>8. h \in 1 .. maxLevel /\ h \in Nat /\ i \in -1 .. maxLevel - 1 /\ i \in Levels /\ h - 1 <= i /\ i \in Int
  BY <1>1, <1>3, <1>7 DEF RandomLevel, Levels
<1>9. PICK yu : yu = [Idle EXCEPT !.pc = "search", !.begin = k, !.newNode = x, !.i = i]
  OBVIOUS
<1>10. /\ thread' = [thread EXCEPT ![t] = yu] /\ nodeNum' = nodeNum + 1 /\ thread[t].pc = "idle"
       /\ UNCHANGED <<nexts, locked, now_level, inserted>>
  BY <1>2, <1>7, <1>9 DEF StartInsert, At
<1>11. k \in Nat /\ 0 < k
  BY SkipSizes
<1>12. yu \in Local
  BY <1>3, <1>8, <1>9, <1>11, IdleLocal DEF Local, Pcs
<1>13. /\ yu.pc = "search" /\ yu.begin = k /\ yu.newNode = x /\ yu.i = i /\ yu.curr = Head0
  BY <1>9, IdleLocal DEF Local
<1>14. thread'[t] = yu /\ \A u \in Threads : u # t => thread'[u] = thread[u]
  BY <1>0, <1>1, <1>10 DEF Typed
<1>15. Typed'
  <2>1. thread' \in [Threads -> Local]
    BY <1>1, <1>10, <1>12 DEF Typed
  <2>2. inserted' \subseteq 1 .. x
    BY <1>1, <1>2, <1>3, <1>10 DEF Typed
  <2>3. nodeNum' \in 0 .. x
    BY <1>2, <1>3, <1>10
  <2> QED
    BY <1>1, <1>3, <1>4, <1>6, <1>10, <2>1, <2>2, <2>3 DEF Typed
<1>16. t \notin Making /\ Making' = Making \cup {t} /\ \A u \in Making : u # t /\ thread'[u] = thread[u]
  BY <1>10, <1>13, <1>14, SkipSizes DEF Making, At
<1>17. \A u \in Making : thread[u].newNode \in 1 .. Len(nodes)
  BY <1>1 DEF Counted
<1>18. inserted \subseteq 1 .. Len(nodes)
  BY <1>1 DEF Typed
<1>19. ASSUME NEW l \in Levels PROVE OnLevel(l)' = OnLevel(l)
  <2>1. \A u \in Making : On(thread[u], l)' <=> On(thread[u], l)
    BY <1>6, <1>16, <1>17 DEF On, Linking, Linked
  <2>2. ~ On(thread[t], l)'
    BY <1>13, <1>14 DEF On, Linking, Linked
  <2>3. \A n : (\E u \in Making : On(thread[u], l) /\ n = thread[u].newNode)' <=>
                  \E u \in Making : On(thread[u], l) /\ n = thread[u].newNode
    BY <1>16, <2>1, <2>2
  <2>4. \A n : (n \in inserted /\ l < nodes[n].level)' <=> (n \in inserted /\ l < nodes[n].level)
    BY <1>6, <1>10, <1>18
  <2> QED
    BY <2>3, <2>4 DEF OnLevel
<1>20. Counted'
  <2>1. /\ \A u \in Making : /\ thread[u].newNode \in 1 .. Len(nodes)
                             /\ thread[u].newNode \notin inserted /\ thread[u].newNode # x
        /\ \A u, v \in Making : thread[u].newNode = thread[v].newNode => u = v
    BY <1>1, <1>3 DEF Counted
  <2>2. \A n \in 1 .. Len(nodes) : n \in 1 .. x
    BY <1>2, <1>3
  <2>3. x \in 1 .. x
    BY <1>2, <1>3
  <2>4. \A u \in Making' : /\ thread'[u].newNode \in 1 .. Len(nodes')
                           /\ thread'[u].newNode \notin inserted'
    BY <1>3, <1>6, <1>10, <1>13, <1>14, <1>16, <1>18, <2>1, <2>2, <2>3
  <2>5. \A u, v \in Making' : thread'[u].newNode = thread'[v].newNode => u = v
    BY <1>13, <1>14, <1>16, <2>1
  <2>6. PICK o \in Int : o = Len(nodes) - nodeNum /\ o = Len(nodes') - nodeNum'
    BY <1>2, <1>3, <1>6, <1>10
  <2>7. ASSUME NEW n \in 1 .. Len(nodes')
        PROVE  n > o <=> (n \in inserted' \/ \E u \in Making' : n = thread'[u].newNode)
    <3>1. CASE n = x
      <4>1. n > o
        BY <1>2, <1>3, <2>6, <3>1
      <4> QED
        BY <1>13, <1>14, <1>16, <3>1, <4>1
    <3>2. CASE n # x
      <4>1. n \in 1 .. Len(nodes)
        BY <1>2, <1>3, <1>6, <3>2
      <4>2. n > o <=> (n \in inserted \/ \E u \in Making : n = thread[u].newNode)
        BY <1>1, <2>6, <4>1 DEF Counted
      <4> QED
        BY <1>10, <1>13, <1>14, <1>16, <3>2, <4>2
    <3> QED
      BY <3>1, <3>2
  <2>8. ASSUME NEW n \in inserted' PROVE n > o /\ nodes'[n].level <= now_level'
    BY <1>1, <1>6, <1>10, <1>18, <2>6 DEF Counted
  <2> QED
    BY <2>4, <2>5, <2>6, <2>7, <2>8 DEF Counted
<1>21. Calm
  BY <1>6, <1>10, <1>19 DEF Calm, GetNext
<1>22. Lists(p, z)' /\ Grows(p[0], p[0])
  BY <1>1, <1>21, CalmLists
<1>23. Locks'
  BY <1>0, <1>1, <1>10, <1>13, LocksQuiet DEF Holding
<1>24. SearchOK(yu)'
  <2>1. Head0 \in OnLevel(0)' /\ Head0 \in OnLevel(i)'
    BY <1>1, <1>8, <1>19, LevelFacts
  <2>2. Key(Head0)' = 0
    BY DEF Key
  <2> QED
    BY <1>11, <1>13, <2>1, <2>2 DEF SearchOK
<1>25. InsertOK(yu)'
  <2>1. Key(x)' = k
    <3>1. x # Head0
      BY <1>2, <1>3 DEF Head0
    <3> QED
      BY <1>4, <1>6, <3>1 DEF Key, GetKey
  <2>2. nodes'[x].level = h
    BY <1>4, <1>6
  <2>3. ASSUME NEW l \in Levels, i < l, l < h PROVE FALSE
    BY <1>1, <1>8, <2>3 DEF Levels
  <2> QED
    BY <1>13, <2>1, <2>2, <2>3 DEF InsertOK, Linking
<1>26. ThreadOK(t, yu, p[0])' /\ Ready(yu)'
  BY <1>0, <1>13, <1>24, <1>25 DEF ThreadOK, Ready
<1>27. ASSUME NEW u \in Inserters, u # t PROVE Ready(thread[u])'
  <2>1. thread'[u] = thread[u]
    BY <1>14, <1>27, SkipSizes
  <2> QED
    BY <1>10, <1>21, <2>1, CalmReady DEF GetNext
<1> QED
  BY <1>0, <1>14, <1>15, <1>20, <1>22, <1>23, <1>26, <1>27, StepKeeps

(* Inserter t is to put node x behind node s on level i, which has the     *)
(* nodes S.                                                                *)
Linker(t, i, x, s, S) ==
    /\ i = thread[t].i /\ x = thread[t].newNode /\ s = Spot(thread[t]) /\ S = OnLevel(i)

(* The level's list afterwards.                                            *)
LinkedIn(p, i, x, s, S, r, v) ==
    /\ i \in Levels /\ s \in S /\ x \in NodeIds \ S /\ x # Head0
    /\ GetNext(s, i) # Null => Key(x) <= Key(GetNext(s, i))
    /\ List(i, S \cup {x}, r, v)'
    /\ \A a, b \in S : p[i][a] <= p[i][b] <=> r[a] <= r[b]

(* What a linking step does to the level: the new node is on it, between   *)
(* the node it was put behind and the next, and the others keep their      *)
(* order.                                                                  *)
LEMMA LinkLevel ==
    ASSUME NEW p \in [Levels -> [NodeIds -> Nat]], NEW z \in [Levels -> Nat], Good(p, z),
           NEW t \in Inserters, LinkNode(t), NEW i, NEW x, NEW s, NEW S, Linker(t, i, x, s, S)
    PROVE  \E r \in [NodeIds -> Nat], v \in Nat : LinkedIn(p, i, x, s, S, r, v)
<1>0. t \in Threads
  BY SkipSizes
<1> SUFFICES ASSUME NEW me, me = thread[t], i = me.i, x = me.newNode, s = Spot(me), S = OnLevel(i)
             PROVE  \E r \in [NodeIds -> Nat], v \in Nat : LinkedIn(p, i, x, s, S, r, v)
  BY DEF Linker
<1>1. /\ Typed /\ Lists(p, z) /\ Counted /\ me.begin \in Nat
      /\ 0 \in Levels /\ maxLevel \in Nat /\ ThreadOK(t, me, p[0]) /\ Ready(me)
  BY <1>0, Knows
<1>2. me.pc = "link" /\ Linking(me)
  BY DEF LinkNode, At, Linking
<1>3. InsertOK(me)
  BY <1>1, <1>2, SkipSizes DEF ThreadOK
<1>4. i >= 0 /\ i < nodes[x].level /\ me.begin = Key(x)
  BY <1>2, <1>3 DEF InsertOK
<1>5. i \in Levels
  BY <1>0, <1>4, Knows
<1>6. s \in OnLevel(i) /\ Key(s) < Key(x)
  <2>1. i <= i
    BY <1>1, <1>5 DEF Levels
  <2> QED
    BY <1>2, <1>3, <1>4, <1>5, <2>1 DEF InsertOK, Place, Spot
<1>7. t \in Making /\ x \in 1 .. Len(nodes) /\ x \in NodeIds /\ x # Head0
  BY <1>0, <1>1, <1>2, Knows, LevelFacts
<1>8. x \notin OnLevel(i)
  <2>1. ~ On(me, i)
    BY <1>1, <1>2, <1>5 DEF On, Linking, Linked, Levels
  <2> QED
    BY <1>1, <1>5, <1>7, <2>1, OwnNode
<1>9. GetNext(x, i) = GetNext(s, i) /\ ~ Smaller(s, i, Key(x))
  BY <1>1, <1>2, <1>4 DEF Ready
<1>10. \A n \in OnLevel(i) \cup {x} : Key(n) \in Nat /\ Key(n)' = Key(n)
  <2>1. \A n \in OnLevel(i) \cup {x} : Key(n) \in Nat
    BY <1>1, <1>5, <1>7, LevelFacts
  <2> QED
    BY <2>1 DEF LinkNode, Key, GetKey
<1>11. GetNext(s, i) # Null => Key(x) <= Key(GetNext(s, i))
  <2> SUFFICES ASSUME GetNext(s, i) # Null PROVE Key(x) <= Key(GetNext(s, i))
    OBVIOUS
  <2>1. PICK c : c = GetNext(s, i)
    OBVIOUS
  <2>2. c \in OnLevel(i) /\ c # Head0
    BY <1>1, <1>5, <1>6, <2>1, NextOn
  <2>3. Key(c) = GetKey(c) /\ Key(c) \in Nat /\ Key(x) \in Nat
    BY <1>10, <2>2 DEF Key
  <2>4. ~ (GetKey(c) < Key(x))
    BY <1>9, <2>1 DEF Smaller, CompareNodeKey
  <2> QED
    BY <2>1, <2>3, <2>4
<1>12. nexts' = PutNext(s, i, x)
  BY DEF LinkNode, Before, Spot
<1>13. PICK T, o, y : T = S /\ o = p[i] /\ y = z[i]
  OBVIOUS
<1>14. List(i, T, o, y) /\ y \in Nat
  BY <1>1, <1>5, <1>13 DEF Lists
<1>15. nexts \in [NodeIds -> [Levels -> NodeIds \cup {Null}]]
  BY <1>1 DEF Typed
<1>16. Key(s) <= Key(x)
  BY <1>6, <1>10
<1>17. \A n \in T \cup {x} : Key(n) \in Nat /\ Key(n)' = Key(n)
  BY <1>10, <1>13
<1>18. s \in T /\ x \in NodeIds \ T
  BY <1>6, <1>7, <1>8, <1>13
<1>19. \E r : List(i, T \cup {x}, r, y + 1)' /\ \A a, b \in T : o[a] <= o[b] <=> r[a] <= r[b]
  BY <1>5, <1>9, <1>11, <1>12, <1>14, <1>15, <1>16, <1>17, <1>18, ListInsert
<1>20. PICK r : List(i, T \cup {x}, r, y + 1)' /\ \A a, b \in T : o[a] <= o[b] <=> r[a] <= r[b]
  BY <1>19
<1>21. r \in [NodeIds -> Nat] /\ y + 1 \in Nat
  BY <1>14, <1>20 DEF List
<1>22. \A a, b \in S : p[i][a] <= p[i][b] <=> r[a] <= r[b]
  BY <1>13, <1>20
<1>23. PICK v \in Nat : v = y + 1
  BY <1>21
<1>24. List(i, S \cup {x}, r, v)'
  BY <1>13, <1>20, <1>23
<1>25. LinkedIn(p, i, x, s, S, r, v)
  BY <1>5, <1>6, <1>7, <1>8, <1>11, <1>22, <1>24 DEF LinkedIn
<1> QED
  BY <1>21, <1>25

(* Linking the node on one level keeps the invariant.                      *)
LEMMA LinkNodeKeeps ==
    ASSUME NEW p \in [Levels -> [NodeIds -> Nat]], NEW z \in [Levels -> Nat], Good(p, z),
           NEW t \in Inserters, LinkNode(t)
    PROVE  Kept'
<1>0. t \in Threads /\ t \notin Finders
  BY SkipSizes
<1>1. PICK me : me = thread[t]
  OBVIOUS
<1>2. PICK i, x, s, S : /\ i = me.i /\ x = me.newNode /\ s = Spot(me) /\ S = OnLevel(i)
                         /\ Linker(t, i, x, s, S)
  <2>1. PICK i, x, s, S : i = me.i /\ x = me.newNode /\ s = Spot(me) /\ S = OnLevel(i)
    OBVIOUS
  <2>2. Linker(t, i, x, s, S)
    BY <1>1, <2>1 DEF Linker
  <2> QED
    BY <2>1, <2>2
<1>3. /\ Typed /\ Lists(p, z) /\ Counted /\ Locks /\ p[0] \in [NodeIds -> Nat] /\ me \in Local
      /\ 0 \in Levels /\ maxLevel \in Nat /\ ThreadOK(t, me, p[0])
  BY <1>0, <1>1, Knows
<1>4. PICK r \in [NodeIds -> Nat], v \in Nat : LinkedIn(p, i, x, s, S, r, v)
  <2>1. Linker(t, i, x, s, S)
    BY <1>2
  <2> QED
    BY <2>1, LinkLevel
<1>5. /\ i \in Levels /\ s \in S /\ x \in NodeIds /\ x \notin S /\ x # Head0
      /\ GetNext(s, i) # Null => Key(x) <= Key(GetNext(s, i))
      /\ List(i, S \cup {x}, r, v)'
      /\ \A a, b \in S : p[i][a] <= p[i][b] <=> r[a] <= r[b]
  BY <1>4 DEF LinkedIn
<1>6. me.pc = "link" /\ Linking(me) /\ Holding(me)
  BY <1>1 DEF LinkNode, At, Linking, Holding
<1>7. InsertOK(me) /\ i \in Int /\ i < nodes[x].level /\ nodes[x].level \in Nat /\ nodes[x].level \in 1 .. maxLevel
  BY <1>0, <1>1, <1>2, <1>3, <1>6, Knows DEF ThreadOK, InsertOK
<1>8. t \in Making /\ x \in 1 .. Len(nodes)
  BY <1>0, <1>1, <1>2, <1>6, Knows
<1>9. nexts' = PutNext(s, i, x) /\ locked' = locked \ {s}
  BY <1>1, <1>2 DEF LinkNode, Before, Spot, UnlockNode
<1>10. UNCHANGED <<nodes, now_level, nodeNum, inserted>>
  BY DEF LinkNode
<1>11. PICK yu : yu = IF i + 1 < nodes[x].level THEN [me EXCEPT !.pc = "lock", !.i = i + 1]
                      ELSE [me EXCEPT !.pc = "level"]
  OBVIOUS
<1>12. thread' = [thread EXCEPT ![t] = yu]
  <2>1. LevelOf(t) = nodes[x].level /\ thread[t].i = i
    BY <1>1, <1>2 DEF LevelOf
  <2>2. CASE i + 1 < nodes[x].level
    BY <1>1, <1>11, <2>1, <2>2 DEF LinkNode
  <2>3. CASE ~ (i + 1 < nodes[x].level)
    BY <1>1, <1>11, <2>1, <2>3 DEF LinkNode
  <2> QED
    BY <2>2, <2>3
<1>13. /\ yu \in Local /\ yu.newNode = x /\ yu.begin = me.begin /\ yu.update = me.update
       /\ \/ yu.pc = "lock" /\ yu.i = i + 1 /\ i + 1 < nodes[x].level
          \/ yu.pc = "level" /\ ~ (i + 1 < nodes[x].level)
  <2>1. CASE i + 1 < nodes[x].level
    <3>1. i + 1 \in -1 .. maxLevel - 1
      BY <1>3, <1>5, <1>7, <2>1 DEF Levels
    <3>2. yu = [me EXCEPT !.pc = "lock", !.i = i + 1]
      BY <1>11, <2>1
    <3> QED
      BY <1>2, <1>3, <2>1, <3>1, <3>2 DEF Local, Pcs
  <2>2. CASE ~ (i + 1 < nodes[x].level)
    <3>1. yu = [me EXCEPT !.pc = "level"]
      BY <1>11, <2>2
    <3> QED
      BY <1>2, <1>3, <2>2, <3>1 DEF Local, Pcs
  <2> QED
    BY <2>1, <2>2
<1>14. thread'[t] = yu /\ \A u \in Threads : u # t => thread'[u] = thread[u]
  BY <1>0, <1>3, <1>12 DEF Typed
<1>15. S \subseteq NodeIds /\ s \in NodeIds
  BY <1>2, <1>3, <1>5, LevelFacts
<1>16. Typed'
  <2>1. thread' \in [Threads -> Local]
    BY <1>3, <1>12, <1>13 DEF Typed
  <2>2. nexts' \in [NodeIds -> [Levels -> NodeIds \cup {Null}]]
    BY <1>3, <1>5, <1>9, <1>15 DEF Typed, PutNext
  <2> QED
    BY <1>3, <1>10, <2>1, <2>2 DEF Typed
<1>17. /\ \A n \in NodeIds, l \in Levels : ~ (n = s /\ l = i) => GetNext(n, l)' = GetNext(n, l)
       /\ GetNext(s, i)' = x
  BY <1>3, <1>5, <1>9, <1>15 DEF Typed, PutNext, GetNext
<1>18. Making' = Making /\ \A u \in Making \ {t} : thread'[u] = thread[u]
  BY <1>0, <1>6, <1>1, <1>13, <1>14, SkipSizes DEF Making, At
<1>19. \A u \in Making : thread'[u].newNode = thread[u].newNode
  BY <1>1, <1>2, <1>13, <1>14, <1>18
<1>20. Counted'
  <2>1. Making' = Making
    BY <1>18
  <2> QED
    BY <1>3, <1>10, <1>19, <2>1, SameCount
<1>21. \A l \in Levels : On(yu, l) <=> (On(me, l) \/ l = i)
  <2> TAKE l \in Levels
  <2>0. l < i + 1 <=> l < i \/ l = i
    BY <1>3, <1>5 DEF Levels
  <2>1. l \in Int /\ (On(me, l) <=> l < i)
    BY <1>2, <1>3, <1>6 DEF On, Linking, Linked, Levels
  <2>2. CASE yu.pc = "lock" /\ yu.i = i + 1
    <3>1. On(yu, l) <=> l < i + 1
      BY <2>2 DEF On, Linking, Linked
    <3> QED
      BY <2>0, <2>1, <3>1
  <2>3. CASE yu.pc = "level" /\ ~ (i + 1 < nodes[x].level)
    <3>1. On(yu, l) <=> l < nodes[x].level
      BY <1>13, <2>3 DEF On, Linking, Linked
    <3>2. nodes[x].level = i + 1
      <4>1. PICK h \in Nat : h = nodes[x].level
        BY <1>7
      <4>2. i \in Int /\ i < h /\ ~ (i + 1 < h)
        BY <1>7, <2>3, <4>1
      <4>3. h = i + 1
        BY <4>2
      <4> QED
        BY <4>1, <4>3
    <3> QED
      BY <2>0, <2>1, <3>1, <3>2
  <2> QED
    BY <1>13, <2>2, <2>3
<1>22. ASSUME NEW l \in Levels
       PROVE  OnLevel(l)' = IF l = i THEN OnLevel(l) \cup {x} ELSE OnLevel(l)
  <2>1. \A u \in Making \ {t} : On(thread[u], l)' <=> On(thread[u], l)
    BY <1>10, <1>18 DEF On, Linking, Linked
  <2>2. On(thread[t], l)' <=> (On(thread[t], l) \/ l = i)
    <3>1. On(yu, l)' <=> On(yu, l)
      BY <1>10 DEF On
    <3>2. On(thread[t], l)' <=> On(yu, l)'
      BY <1>14 DEF On, Linking, Linked
    <3> QED
      BY <1>1, <1>21, <3>1, <3>2
  <2>3. \A n : (\E u \in Making : On(thread[u], l) /\ n = thread[u].newNode)' <=>
                  \/ \E u \in Making : On(thread[u], l) /\ n = thread[u].newNode
                  \/ l = i /\ n = x
    <3> TAKE n
    <3>1. (\E u \in Making : On(thread[u], l) /\ n = thread[u].newNode)' <=>
             \/ \E u \in Making \ {t} : On(thread[u], l) /\ n = thread[u].newNode
             \/ (On(thread[t], l) \/ l = i) /\ n = x
      BY <1>8, <1>13, <1>14, <1>18, <2>1, <2>2
    <3>2. (\E u \in Making : On(thread[u], l) /\ n = thread[u].newNode) <=>
             \/ \E u \in Making \ {t} : On(thread[u], l) /\ n = thread[u].newNode
             \/ On(thread[t], l) /\ n = x
      BY <1>1, <1>2, <1>8
    <3> QED
      BY <3>1, <3>2
  <2>4. \A n : (n \in inserted /\ l < nodes[n].level)' <=> (n \in inserted /\ l < nodes[n].level)
    BY <1>10
  <2>5. \A n : n \in OnLevel(l)' <=> (n \in OnLevel(l) \/ (l = i /\ n = x))
    BY <1>5, <2>3, <2>4 DEF OnLevel
  <2> QED
    BY <2>5
<1>23. PICK q, w : q = [p EXCEPT ![i] = r] /\ w = [z EXCEPT ![i] = v]
  OBVIOUS
<1>24. /\ q \in [Levels -> [NodeIds -> Nat]] /\ w \in [Levels -> Nat]
       /\ q[i] = r /\ w[i] = v /\ \A l \in Levels : l # i => q[l] = p[l] /\ w[l] = z[l]
  BY <1>4, <1>5, <1>23
<1>25. \A n : Key(n)' = Key(n) /\ GetKey(n)' = GetKey(n)
  BY <1>10 DEF Key, GetKey
<1>26. ASSUME NEW l \in Levels PROVE List(l, OnLevel(l), q[l], w[l])'
  <2>1. PICK U, o, y : U = OnLevel(l)' /\ o = q[l] /\ y = w[l]
    OBVIOUS
  <2>2. CASE l = i
    <3>1. U = S \cup {x} /\ o = r /\ y = v
      BY <1>2, <1>22, <1>24, <2>1, <2>2
    <3>2. List(l, U, o, y)'
      BY <1>5, <2>2, <3>1
    <3> QED
      BY <2>1, <3>2 DEF List
  <2>3. CASE l # i
    <3>1. U = OnLevel(l) /\ o = p[l] /\ y = z[l]
      BY <1>22, <1>24, <2>1, <2>3
    <3>2. List(l, U, o, y)
      BY <1>3, <3>1 DEF Lists
    <3>3. \A n \in U : GetNext(n, l)' = GetNext(n, l)
      BY <1>3, <1>17, <2>3, <3>1, LevelFacts
    <3>4. List(l, U, o, y)'
      BY <1>25, <3>2, <3>3 DEF List
    <3> QED
      BY <2>1, <3>4 DEF List
  <2> QED
    BY <2>2, <2>3
<1>27. Lists(q, w)'
  BY <1>26 DEF Lists
<1>28. ASSUME NEW l \in Levels, NEW n \in OnLevel(l), NEW k \in Nat, Smaller(n, l, k)
       PROVE  Smaller(n, l, k)'
  <2>0. n \in NodeIds
    BY <1>3, LevelFacts
  <2>1. CASE n = s /\ l = i
    <3>1. PICK c : c = GetNext(s, i)
      OBVIOUS
    <3>2. c # Null /\ GetKey(c) < k
      BY <1>28, <2>1, <3>1 DEF Smaller, CompareNodeKey
    <3>3. c \in OnLevel(i) /\ c # Head0
      BY <1>2, <1>3, <1>5, <3>1, <3>2, NextOn
    <3>4. Key(x) <= Key(c) /\ Key(c) = GetKey(c) /\ Key(x) = GetKey(x)
      BY <1>5, <3>1, <3>2, <3>3 DEF Key
    <3>5. Key(x) \in Nat /\ Key(c) \in Nat
      BY <1>3, <1>5, <1>8, <3>3, LevelFacts
    <3>6. GetKey(x) < k
      BY <3>2, <3>4, <3>5
    <3>7. x # Null
      BY <1>5, SkipSizes
    <3> QED
      BY <1>17, <1>25, <2>1, <3>6, <3>7 DEF Smaller, CompareNodeKey
  <2>2. CASE ~ (n = s /\ l = i)
    BY <1>17, <1>25, <1>28, <2>0, <2>2 DEF Smaller, CompareNodeKey
  <2> QED
    BY <2>1, <2>2
<1>29. Grows(p[0], q[0])
  <2>1. \A a, b \in OnLevel(0) : p[0][a] <= p[0][b] <=> q[0][a] <= q[0][b]
    BY <1>2, <1>3, <1>5, <1>24
  <2>2. \A l \in Levels : OnLevel(l) \subseteq OnLevel(l)'
    BY <1>22
  <2> QED
    BY <1>10, <1>28, <2>1, <2>2 DEF Grows
<1>30. InsertOK(yu)
  <2>1. \A l \in Levels : Place(me, l) => Place(yu, l)
    BY <1>13 DEF Place
  <2>2. CASE yu.pc = "lock" /\ yu.i = i + 1 /\ i + 1 < nodes[x].level
    <3>1. ASSUME NEW l \in Levels, yu.i <= l, l < nodes[x].level PROVE Place(yu, l)
      <4>1. i <= l
        BY <1>3, <1>7, <2>2, <3>1 DEF Levels
      <4> QED
        BY <1>2, <1>6, <1>7, <2>1, <3>1, <4>1 DEF InsertOK
    <3>2. yu.i >= 0
      BY <1>3, <1>5, <2>2 DEF Levels
    <3> QED
      BY <1>2, <1>7, <1>13, <2>2, <3>1, <3>2 DEF InsertOK, Seeking
  <2>3. CASE yu.pc = "level"
    BY <1>2, <1>7, <1>13, <2>3 DEF InsertOK, Seeking, Linking
  <2> QED
    BY <1>13, <2>2, <2>3
<1>31. ThreadOK(t, yu, q[0])'
  <2>1. ThreadOK(t, yu, p[0])
    BY <1>0, <1>13, <1>30 DEF ThreadOK, SearchOK, Seeking
  <2>2. q[0] \in [NodeIds -> Nat]
    BY <1>3, <1>24
  <2> QED
    BY <1>0, <1>3, <1>8, <1>13, <1>29, <2>1, <2>2, Stays
<1>32. Ready(yu)'
  BY <1>13 DEF Ready
<1>33. s \in locked /\ \A u \in Inserters : u # t /\ Holding(thread[u]) =>
                         Spot(thread[u]) \in locked /\ Spot(thread[u]) # s
  BY <1>1, <1>2, <1>3, <1>6 DEF Locks
<1>34. Locks'
  <2>1. ~ Holding(yu)
    BY <1>13 DEF Holding
  <2>2. \A u \in Inserters : u # t /\ Holding(thread[u]) => Spot(thread[u]) \in locked'
    BY <1>9, <1>33
  <2> QED
    BY <1>0, <1>3, <1>12, <2>1, <2>2, LocksKept
<1>35. ASSUME NEW u \in Inserters, u # t PROVE Ready(thread[u])'
  <2>1. PICK he : he = thread[u]
    OBVIOUS
  <2>2. he = thread'[u] /\ u \in Threads
    BY <1>14, <1>35, <2>1, SkipSizes
  <2>3. ASSUME he.pc = "link" PROVE Ready(he)'
    <3>1. /\ Ready(he) /\ InsertOK(he) /\ u \in Making /\ he.newNode \in 1 .. Len(nodes)
          /\ (he.i >= 0 => he.i \in Levels) /\ he.i \in Int /\ ThreadOK(u, he, p[0])
      BY <2>1, <2>2, <2>3, Knows DEF ThreadOK
    <3>2. he.i \in Levels /\ he.i < nodes[he.newNode].level
      BY <2>3, <3>1 DEF InsertOK, Linking
    <3>3. Spot(he) \in OnLevel(he.i)
      BY <2>3, <3>1, <3>2 DEF InsertOK, Linking, Place, Spot
    <3>4. he.newNode \notin OnLevel(he.i)
      <4>1. ~ On(he, he.i)
        BY <2>3, <3>1 DEF On, Linking, Linked
      <4> QED
        BY <1>3, <2>1, <3>1, <3>2, <4>1, OwnNode
    <3>5. PICK b, j, y : b = Spot(he) /\ j = he.i /\ y = he.newNode
      OBVIOUS
    <3>6. b # s
      BY <1>33, <1>35, <2>1, <2>3, <3>5 DEF Holding
    <3>7. b \in NodeIds /\ y \in NodeIds /\ j \in Levels
      BY <1>3, <3>1, <3>2, <3>3, <3>5, LevelFacts
    <3>8. ~ (y = s /\ j = i)
      BY <1>2, <1>5, <3>4, <3>5
    <3>9. GetNext(b, j)' = GetNext(b, j) /\ GetNext(y, j)' = GetNext(y, j)
      BY <1>17, <3>6, <3>7, <3>8
    <3>10. GetNext(y, j) = GetNext(b, j) /\ ~ Smaller(b, j, he.begin)
      BY <2>3, <3>1, <3>5 DEF Ready
    <3>11. ~ Smaller(b, j, he.begin)'
      BY <1>25, <3>9, <3>10 DEF Smaller, CompareNodeKey
    <3> QED
      BY <3>5, <3>9, <3>10, <3>11 DEF Ready, Spot
  <2>4. Ready(he)'
    BY <2>3 DEF Ready
  <2> QED
    BY <2>2, <2>4, LocalsOf
<1>36. Good(q, w)'
  BY <1>0, <1>14, <1>16, <1>20, <1>24, <1>27, <1>29, <1>31, <1>32, <1>34, <1>35, StepKeeps
<1> QED
  BY <1>24, <1>36 DEF Kept

-----------------------------------------------------------------------------
(* The invariant holds                                                     *)

(* An empty list: no thread is in it and nothing is inserted.              *)
Empty ==
    /\ Typed /\ inserted = {} /\ nodeNum = 0
    /\ \A t \in Threads : thread[t].pc = "idle"
    /\ \A l \in Levels : GetNext(Head0, l) = Null

(* A list of the head alone, with every thread idle, has the invariant.    *)
LEMMA EmptyGood == Empty => Kept
<1> SUFFICES ASSUME Typed, \A t \in Threads : thread[t].pc = "idle", inserted = {}, nodeNum = 0,
                    \A l \in Levels : GetNext(Head0, l) = Null
             PROVE  Kept
  BY DEF Empty
<1>1. PICK p, z : p = [l \in Levels |-> [n \in NodeIds |-> 0]] /\ z = [l \in Levels |-> 0]
  OBVIOUS
<1>2. p \in [Levels -> [NodeIds -> Nat]] /\ z \in [Levels -> Nat]
  BY <1>1
<1>3. Making = {}
  BY SkipSizes DEF Making, At
<1>4. \A l \in Levels : OnLevel(l) = {Head0}
  BY <1>3, SkipSizes DEF OnLevel
<1>5. ASSUME NEW l \in Levels PROVE List(l, OnLevel(l), p[l], z[l])
  <2>1. p[l] = [n \in NodeIds |-> 0] /\ z[l] = 0 /\ OnLevel(l) = {Head0}
    BY <1>1, <1>4
  <2>2. List(l, {Head0}, [n \in NodeIds |-> 0], 0)
    <3>1. \A i \in 0 .. 0 : i = 0
      OBVIOUS
    <3>2. [n \in NodeIds |-> 0] \in [NodeIds -> Nat] /\ Head0 \in NodeIds
      BY SkipSizes
    <3>3. [n \in NodeIds |-> 0][Head0] = 0 /\ Key(Head0) = 0
      BY <3>2 DEF Key
    <3> QED
      BY <3>1, <3>2, <3>3 DEF List
  <2> QED
    BY <2>1, <2>2
<1>6. Counted
  <2>1. Len(nodes) \in Nat
    BY DEF Typed
  <2>2. \A n \in 1 .. Len(nodes) : ~ (n > Len(nodes) - nodeNum)
    BY <2>1
  <2> QED
    BY <1>3, <2>2 DEF Counted
<1>7. Locks
  BY SkipSizes DEF Locks, Holding
<1>8. Threaded(p[0])
  BY SkipSizes DEF Threaded, ThreadOK, Ready
<1>9. Lists(p, z)
  BY <1>5 DEF Lists
<1>10. Good(p, z)
  BY <1>6, <1>7, <1>8, <1>9 DEF Good
<1> QED
  BY <1>2, <1>10 DEF Kept

(* The constructor's list has the invariant.                               *)
LEMMA InitKept == Init => Kept
<1> SUFFICES ASSUME Init PROVE Kept
  OBVIOUS
<1>1. thread \in [Threads -> Local] /\ \A t \in Threads : thread[t].pc = "idle"
  BY IdleLocal DEF Init
<1>2. \A l \in Levels : GetNext(Head0, l) = Null
  BY SkipSizes DEF Init, GetNext
<1>3. nexts \in [NodeIds -> [Levels -> NodeIds \cup {Null}]]
  BY DEF Init
<1>4. nodes = <<>> /\ Len(nodes) = 0 /\ nodes \in Seq([key : Keys, level : 1 .. maxLevel])
  BY DEF Init
<1>5. now_level = 0 /\ nodeNum = 0 /\ inserted = {}
  BY DEF Init
<1>6. Typed
  BY <1>1, <1>3, <1>4, <1>5, SkipSizes DEF Typed
<1> QED
  BY <1>1, <1>2, <1>5, <1>6, EmptyGood DEF Empty

(* The same after a step.                                                  *)
LEMMA EmptyStays == Empty' => Kept'
BY EmptyGood, PTL

(* Writing out and clearing the list keeps the invariant.                  *)
LEMMA WriteAndClearKeeps ==
    ASSUME Typed, WriteAndClear
    PROVE  Kept'
<1>1. \A t \in Threads : thread'[t].pc = "idle"
  BY DEF WriteAndClear, At
<1>2. nexts' \in [NodeIds -> [Levels -> NodeIds \cup {Null}]] /\ \A l \in Levels : GetNext(Head0, l)' = Null
  BY SkipSizes DEF Typed, WriteAndClear, ClearHead, GetNext
<1>3. inserted' = {} /\ nodeNum' = 0 /\ UNCHANGED <<nodes, now_level, thread>>
  BY DEF WriteAndClear
<1>4. Typed'
  <2>1. 0 \in 0 .. Len(nodes)
    BY DEF Typed
  <2> QED
    BY <1>2, <1>3, <2>1 DEF Typed
<1>5. Empty'
  BY <1>1, <1>2, <1>3, <1>4 DEF Empty
<1> QED
  BY <1>5, EmptyStays

(* Every step keeps the invariant.                                         *)
LEMMA NextKeeps ==
    ASSUME NEW p \in [Levels -> [NodeIds -> Nat]], NEW z \in [Levels -> Nat], Good(p, z), Next
    PROVE  Kept'
<1>1. Good(p, z)' => Kept'
  BY DEF Kept
<1>2. Inserters \subseteq Threads /\ Finders \subseteq Threads
  BY SkipSizes
<1>3. ASSUME NEW t \in Inserters, Inserter(t) PROVE Kept'
  <2>1. CASE \E k \in Keys, h \in RandomLevel : StartInsert(t, k, h)
    BY <1>1, <2>1, StartInsertKeeps
  <2>2. CASE Search(t)
    BY <1>1, <1>2, <2>2, SearchKeeps
  <2>3. CASE Advance(t)
    BY <1>1, <1>2, <2>3, AdvanceKeeps
  <2>4. CASE LockNode(t)
    BY <1>1, <2>4, LockNodeKeeps
  <2>5. CASE CheckNext(t)
    BY <1>1, <2>5, CheckNextKeeps
  <2>6. CASE Follow(t)
    BY <1>1, <2>6, FollowKeeps
  <2>7. CASE LinkNode(t)
    BY <2>7, LinkNodeKeeps
  <2>8. CASE LoadLevel(t)
    BY <1>1, <2>8, LoadLevelKeeps
  <2>9. CASE RaiseLevel(t)
    BY <1>1, <2>9, RaiseLevelKeeps
  <2> QED
    BY <1>3, <2>1, <2>2, <2>3, <2>4, <2>5, <2>6, <2>7, <2>8, <2>9 DEF Inserter
<1>4. ASSUME NEW t \in Finders, Finder(t) PROVE Kept'
  <2>1. CASE \E b \in Keys, e \in {k + 1 : k \in Keys} : b < e /\ StartFind(t, b, e)
    <3>1. PICK b \in Keys, e \in {k + 1 : k \in Keys} : StartFind(t, b, e)
      BY <2>1
    <3>2. e \in Nat
      BY <3>1, SkipSizes
    <3> QED
      BY <1>1, <3>1, <3>2, StartFindKeeps
  <2>2. CASE Search(t)
    BY <1>1, <1>2, <2>2, SearchKeeps
  <2>3. CASE Advance(t)
    BY <1>1, <1>2, <2>3, AdvanceKeeps
  <2>4. CASE Scan(t)
    BY <1>1, <2>4, ScanKeeps
  <2>5. CASE FindReturns(t)
    BY <1>1, <2>5, FindReturnsKeeps
  <2> QED
    BY <1>4, <2>1, <2>2, <2>3, <2>4, <2>5 DEF Finder
<1>5. CASE WriteAndClear
  BY <1>5, WriteAndClearKeeps DEF Good
<1> QED
  BY <1>3, <1>4, <1>5 DEF Next

(* So does a step that changes nothing.                                    *)
LEMMA StutterKeeps == Kept /\ UNCHANGED vars => Kept'
<1> SUFFICES ASSUME NEW p \in [Levels -> [NodeIds -> Nat]], NEW z \in [Levels -> Nat], Good(p, z),
                    UNCHANGED <<nodes, nexts, locked, now_level, nodeNum, thread, inserted>>
             PROVE  Good(p, z)'
  BY DEF Kept, vars
<1>1. Typed'
  BY DEF Good, Typed
<1>2. Making' = Making /\ \A l : OnLevel(l)' = OnLevel(l)
  BY DEF OnLevel, Making, At, On, Linking, Linked
<1>3. Counted'
  BY <1>2, SameCount DEF Good
<1>4. Calm
  BY <1>2 DEF Calm, GetNext
<1>5. Lists(p, z)' /\ Grows(p[0], p[0])
  BY <1>4, CalmLists DEF Good
<1>6. Locks'
  BY DEF Good, Locks, Holding, Spot
<1>7. ASSUME NEW u \in Inserters PROVE Ready(thread[u])'
  BY <1>4, CalmReady DEF GetNext
<1>8. ASSUME NEW u \in Threads PROVE ThreadOK(u, thread[u], p[0])'
  <2>1. PICK he : he = thread[u]
    OBVIOUS
  <2>2. he = thread'[u] /\ ThreadOK(u, he, p[0]) /\ he \in Local /\ Typed /\ Counted
    BY <2>1 DEF Good, Threaded, Typed
  <2>3. /\ u \in Making => he.newNode \in 1 .. Len(nodes)
        /\ he.pc # "idle" /\ u \in Inserters => u \in Making
    BY <2>1 DEF Good, Counted, Making, At
  <2>4. p[0] \in [NodeIds -> Nat]
    BY SkipSizes
  <2>5. ThreadOK(u, he, p[0])'
    BY <1>5, <2>2, <2>3, <2>4, Stays
  <2> QED
    BY <2>2, <2>5, LocalsOf
<1> QED
  BY <1>1, <1>3, <1>5, <1>6, <1>7, <1>8 DEF Good, Threaded

(* The invariant holds throughout.                                         *)
LEMMA AlwaysKept == Spec => []Kept
<1>1. Kept /\ [Next]_vars => Kept'
  BY NextKeeps, StutterKeeps DEF Kept
<1> QED
  BY <1>1, InitKept, PTL DEF Spec

-----------------------------------------------------------------------------
(* The properties                                                          *)

(* What Chain gives on a level of the invariant.                           *)
LEMMA LevelChain ==
    ASSUME NEW p \in [Levels -> [NodeIds -> Nat]], NEW z, Good(p, z), NEW l \in Levels
    PROVE  /\ Elements(Chain(l)) = OnLevel(l) \ {Head0}
           /\ Cardinality(Elements(Chain(l))) = Len(Chain(l))
           /\ InOrder(Chain(l))
<1>1. PICK S, o, y : S = OnLevel(l) /\ o = p[l] /\ y = z[l]
  OBVIOUS
<1>2. List(l, S, o, y)
  BY <1>1 DEF Good, Lists
<1>3. PICK c : c = Chain(l)
  OBVIOUS
<1>4. /\ Elements(c) = S \ {Head0} /\ Cardinality(Elements(c)) = Len(c)
      /\ \A a, b \in DOMAIN c : a < b => Key(c[a]) <= Key(c[b])
  BY <1>2, <1>3, ChainFacts
<1>5. \A a \in DOMAIN c : c[a] # Head0
  BY <1>4 DEF Elements
<1>6. InOrder(c)
  BY <1>4, <1>5 DEF InOrder, Key
<1> QED
  BY <1>1, <1>3, <1>4, <1>6

(* Whatever inserts are under way, each level is in order and ends, and a  *)
(* node is on the level below before it is on a level.                     *)
THEOREM LevelsOrdered == Spec => []LevelsInOrder
<1>1. Kept => LevelsInOrder
  <2> SUFFICES ASSUME NEW p \in [Levels -> [NodeIds -> Nat]], NEW z, Good(p, z), NEW l \in Levels
               PROVE  /\ InOrder(Chain(l)) /\ Cardinality(Elements(Chain(l))) = Len(Chain(l))
                      /\ l > 0 => Elements(Chain(l)) \subseteq Elements(Chain(l - 1))
    BY DEF Kept, LevelsInOrder
  <2>1. ASSUME l > 0 PROVE Elements(Chain(l)) \subseteq Elements(Chain(l - 1))
    <3>1. l - 1 \in Levels /\ l - 1 <= l
      BY <2>1, SkipSizes DEF Levels
    <3>2. OnLevel(l) \subseteq OnLevel(l - 1)
      BY <3>1, LevelFacts DEF Good
    <3>3. Elements(Chain(l - 1)) = OnLevel(l - 1) \ {Head0}
      BY <3>1, LevelChain
    <3> QED
      BY <3>2, <3>3, LevelChain
  <2> QED
    BY <2>1, LevelChain
<1> QED
  BY <1>1, AlwaysKept, PTL

(* The numbers from a to b.                                                *)
LEMMA CountedFrom ==
    ASSUME NEW k \in Nat, NEW m \in Nat, m <= k, NEW T, T = {n \in 1 .. k : n > k - m}
    PROVE  Cardinality(T) = m
<1>1. T = (k - m + 1) .. k /\ k - m + 1 \in Int /\ k \in Int
  OBVIOUS
<1>2. PICK a \in Int : a = k - m + 1
  BY <1>1
<1>3. Cardinality(a .. k) = IF a > k THEN 0 ELSE k - a + 1
  BY <1>1, FS_Interval
<1>4. (IF a > k THEN 0 ELSE k - a + 1) = m
  BY <1>2
<1>5. T = a .. k
  BY <1>1, <1>2
<1> QED
  BY <1>3, <1>4, <1>5

(* No insert is lost: a node whose insert has returned is on all its       *)
(* levels, the list has its level, and the count is right when no insert   *)
(* is under way.                                                           *)
THEOREM NoInsertLost == Spec => []InsertsKept
<1>1. Kept => InsertsKept
  <2> SUFFICES ASSUME NEW p \in [Levels -> [NodeIds -> Nat]], NEW z, Good(p, z)
               PROVE  InsertsKept
    BY DEF Kept
  <2>0. Typed /\ Counted /\ maxLevel \in Nat
    BY SkipSizes DEF Good
  <2>1. ASSUME NEW n \in inserted
        PROVE  /\ \A l \in 0 .. nodes[n].level - 1 : n \in Elements(Chain(l))
               /\ now_level >= nodes[n].level
    <3>1. n \in 1 .. Len(nodes) /\ nodes[n].level \in 1 .. maxLevel /\ n \in NodeIds /\ n # Head0
      BY <2>0, LevelFacts DEF Typed
    <3>2. nodes[n].level <= now_level /\ now_level \in Nat
      BY <2>0, <2>1 DEF Counted, Typed
    <3>3. ASSUME NEW l \in 0 .. nodes[n].level - 1 PROVE n \in Elements(Chain(l))
      <4>1. l \in Levels /\ l < nodes[n].level
        BY <2>0, <3>1 DEF Levels
      <4>2. n \in OnLevel(l)
        BY <2>1, <3>1, <4>1 DEF OnLevel
      <4> QED
        BY <3>1, <4>1, <4>2, LevelChain
    <3>4. now_level >= nodes[n].level
      BY <2>0, <3>1, <3>2
    <3> QED
      BY <3>3, <3>4
  <2>2. ASSUME \A t \in Inserters : At(t, "idle") PROVE nodeNum = Cardinality(inserted)
    <3>1. Making = {}
      BY <2>2 DEF Making
    <3>2. inserted = {n \in 1 .. Len(nodes) : n > Len(nodes) - nodeNum}
      BY <2>0, <3>1 DEF Counted, Typed
    <3>3. Len(nodes) \in Nat /\ nodeNum \in Nat /\ nodeNum <= Len(nodes)
      BY <2>0 DEF Typed
    <3>4. PICK k \in Nat, m \in Nat : k = Len(nodes) /\ m = nodeNum
      BY <3>3
    <3>5. inserted = {n \in 1 .. k : n > k - m}
      BY <3>2, <3>4
    <3>6. Cardinality(inserted) = m
      BY <3>3, <3>4, <3>5, CountedFrom
    <3> QED
      BY <3>4, <3>6
  <2> QED
    BY <2>1, <2>2 DEF InsertsKept
<1> QED
  BY <1>1, AlwaysKept, PTL

(* A search that returns has found, in order and once, what is in its      *)
(* range of what was inserted before it began, whatever was inserted       *)
(* meanwhile.                                                              *)
THEOREM FindsComplete == Spec => []FindComplete
<1>1. Kept => FindComplete
  <2> SUFFICES ASSUME NEW p \in [Levels -> [NodeIds -> Nat]], NEW z, Good(p, z),
                      NEW t \in Finders, At(t, "found"), NEW me, me = thread[t]
               PROVE  /\ InOrder(me.res) /\ Cardinality(Elements(me.res)) = Len(me.res)
                      /\ {n \in me.since : me.begin <= GetKey(n) /\ GetKey(n) < me.end}
                           \subseteq Elements(me.res)
                      /\ \A n \in Elements(me.res) : me.begin <= GetKey(n) /\ GetKey(n) < me.end
    BY DEF Kept, FindComplete
  <2>1. /\ t \in Threads /\ Typed /\ Counted /\ Lists(p, z) /\ 0 \in Levels
        /\ me \in Local /\ ThreadOK(t, me, p[0]) /\ p[0] \in [NodeIds -> Nat]
    BY SkipSizes, Knows
  <2>2. FindOK(me, p[0]) /\ me.pc = "found"
    BY <2>1 DEF ThreadOK, At
  <2>3. PICK s, r : s = me.res /\ r = p[0]
    OBVIOUS
  <2>4. /\ \A a \in DOMAIN s : s[a] \in OnLevel(0) \ {Head0} /\ InRange(me, s[a])
        /\ \A a, b \in DOMAIN s : a < b => r[s[a]] < r[s[b]]
        /\ \A n \in me.since : InRange(me, n) => n \in Elements(s)
    BY <2>2, <2>3 DEF FindOK
  <2>5. s \in Seq(NodeIds) /\ Len(s) \in Nat /\ DOMAIN s = 1 .. Len(s)
    BY <2>1, <2>3 DEF Local
  <2>6. \A a \in DOMAIN s : r[s[a]] \in Nat
    BY <2>1, <2>3, <2>5
  <2>7. InOrder(s)
    <3>1. ASSUME NEW a \in DOMAIN s, NEW b \in DOMAIN s, a < b PROVE GetKey(s[a]) <= GetKey(s[b])
      <4>1. r[s[a]] <= r[s[b]]
        BY <2>4, <2>6, <3>1
      <4>2. s[a] \in OnLevel(0) /\ s[b] \in OnLevel(0) /\ s[a] # Head0 /\ s[b] # Head0
        BY <2>4
      <4>3. Key(s[a]) <= Key(s[b])
        BY <2>1, <2>3, <4>1, <4>2, KeysInOrder
      <4> QED
        BY <4>2, <4>3 DEF Key
    <3> QED
      BY <3>1 DEF InOrder
  <2>8. Cardinality(Elements(s)) = Len(s)
    <3>1. s \in [1 .. Len(s) -> Elements(s)]
      BY <2>5 DEF Elements
    <3>2. ASSUME NEW a \in 1 .. Len(s), NEW b \in 1 .. Len(s), s[a] = s[b] PROVE a = b
      <4>1. r[s[a]] \in Nat /\ r[s[a]] = r[s[b]]
        BY <2>5, <2>6, <3>2
      <4>2. ~ (a < b) /\ ~ (b < a)
        BY <2>4, <2>5, <4>1
      <4> QED
        BY <2>5, <4>2
    <3>3. \A n \in Elements(s) : \E a \in 1 .. Len(s) : s[a] = n
      BY <2>5 DEF Elements
    <3>4. s \in Bijection(1 .. Len(s), Elements(s))
      BY <3>1, <3>2, <3>3 DEF Bijection, Injection, Surjection, IsInjective
    <3> QED
      BY <2>5, <3>4, FS_CountingElements DEF ExistsBijection
  <2>9. \A n \in Elements(s) : InRange(me, n)
    BY <2>4 DEF Elements
  <2> QED
    BY <2>3, <2>4, <2>7, <2>8, <2>9 DEF InRange
<1> QED
  BY <1>1, AlwaysKept, PTL

(* What is written when the list is emptied is every inserted node, in     *)
(* order and once.                                                         *)
THEOREM EverythingWritten == Spec => AllWritten
<1>1. Kept /\ [Next]_vars =>
        [WriteAndClear => Elements(WriteNode) = inserted /\ InOrder(WriteNode)]_vars
  <2> SUFFICES ASSUME NEW p \in [Levels -> [NodeIds -> Nat]], NEW z, Good(p, z), WriteAndClear
               PROVE  Elements(WriteNode) = inserted /\ InOrder(WriteNode)
    BY DEF Kept
  <2>1. Making = {}
    BY SkipSizes DEF Making, WriteAndClear
  <2>2. OnLevel(0) \ {Head0} = inserted
    <3>1. inserted \subseteq OnLevel(0) \ {Head0}
      BY LevelFacts DEF Good
    <3> QED
      BY <2>1, <3>1 DEF OnLevel
  <2>3. PICK c : c = Chain(0)
    OBVIOUS
  <2>4. c \in Seq(NodeIds)
    <3>1. PICK S, o, y : S = OnLevel(0) /\ o = p[0] /\ y = z[0]
      OBVIOUS
    <3>2. List(0, S, o, y) /\ S \subseteq NodeIds
      BY <3>1, SkipSizes DEF Good, Lists, List
    <3>3. c \in Seq(S)
      BY <2>3, <3>2, ChainIs
    <3> QED
      BY <3>2, <3>3
  <2>5. WriteNode = c
    BY <2>3, <2>4 DEF WriteNode, GetValue
  <2>6. Elements(c) = OnLevel(0) \ {Head0} /\ InOrder(c)
    BY <2>3, SkipSizes, LevelChain
  <2> QED
    BY <2>2, <2>5, <2>6
<1> QED
  BY <1>1, AlwaysKept, PTL DEF Spec, AllWritten
=============================================================================
