--------------------------- MODULE WpsMemoryProofs ---------------------------
(***************************************************************************)
(* Proofs about WpsMemory, for every number of connections, queue size and *)
(* frame size: its types; that no node of a pool is lost or in two places; *)
(* and, under the conditions the last two theorems name, that frames keep  *)
(* their bytes to themselves and a node always finds space.                *)
(***************************************************************************)
EXTENDS WpsMemory, SetInduction, FiniteSetTheorems, SequenceTheorems, TLAPS

-----------------------------------------------------------------------------
(* Lists of nodes *)

Once(s) == \A i, j \in DOMAIN s : s[i] = s[j] => i = j

LEMMA AppendFacts ==
  ASSUME NEW S, NEW s \in Seq(S), NEW x \in S
  PROVE  /\ Append(s, x) \in Seq(S) /\ Len(Append(s, x)) = Len(s) + 1
         /\ Elements(Append(s, x)) = Elements(s) \cup {x}
         /\ Once(s) /\ x \notin Elements(s) => Once(Append(s, x))
<1> DEFINE t == Append(s, x)
<1>1. /\ t \in Seq(S) /\ Len(s) \in Nat /\ Len(t) = Len(s) + 1
      /\ DOMAIN s = 1 .. Len(s) /\ DOMAIN t = 1 .. Len(s) + 1
      /\ t[Len(s) + 1] = x /\ \A i \in 1 .. Len(s) : t[i] = s[i]
  OBVIOUS
<1> HIDE DEF t
<1>2. Elements(t) = Elements(s) \cup {x}
  <2>1. ASSUME NEW i \in DOMAIN t PROVE t[i] \in Elements(s) \cup {x}
    <3>1. CASE i = Len(s) + 1
      BY <1>1, <3>1
    <3>2. CASE i # Len(s) + 1
      <4>1. i \in 1 .. Len(s)
        BY <1>1, <3>2
      <4> QED
        BY <1>1, <4>1 DEF Elements
    <3> QED
      BY <3>1, <3>2
  <2>2. ASSUME NEW i \in DOMAIN s PROVE s[i] \in Elements(t)
    <3>1. i \in DOMAIN t /\ t[i] = s[i]
      BY <1>1
    <3> QED
      BY <3>1 DEF Elements
  <2>3. x \in Elements(t)
    <3>1. Len(s) + 1 \in DOMAIN t
      BY <1>1
    <3> QED
      BY <1>1, <3>1 DEF Elements
  <2> QED
    BY <2>1, <2>2, <2>3 DEF Elements
<1>3. ASSUME Once(s), x \notin Elements(s), NEW i \in DOMAIN t, NEW j \in DOMAIN t, t[i] = t[j]
      PROVE  i = j
  <2>1. ASSUME NEW k \in DOMAIN t, k # Len(s) + 1 PROVE k \in DOMAIN s /\ t[k] = s[k] /\ t[k] # x
    <3>1. k \in DOMAIN s /\ t[k] = s[k]
      BY <1>1, <2>1
    <3> QED
      BY <1>3, <3>1 DEF Elements
  <2>2. CASE i = Len(s) + 1
    BY <1>1, <1>3, <2>1, <2>2
  <2>3. CASE j = Len(s) + 1
    BY <1>1, <1>3, <2>1, <2>3
  <2>4. CASE i # Len(s) + 1 /\ j # Len(s) + 1
    BY <1>3, <2>1, <2>4 DEF Once
  <2> QED
    BY <2>2, <2>3, <2>4
<1>4. Once(s) /\ x \notin Elements(s) => Once(t)
  BY <1>3 DEF Once
<1> QED
  BY <1>1, <1>2, <1>4 DEF t

LEMMA TailFacts ==
  ASSUME NEW S, NEW s \in Seq(S), s # <<>>
  PROVE  /\ Tail(s) \in Seq(S) /\ Len(Tail(s)) = Len(s) - 1
         /\ Head(s) \in S /\ Head(s) \in Elements(s)
         /\ Once(s) => Once(Tail(s)) /\ Elements(Tail(s)) = Elements(s) \ {Head(s)}
<1> DEFINE t == Tail(s)
<1>1. /\ t \in Seq(S) /\ Len(s) \in Nat /\ Len(s) > 0 /\ Len(t) = Len(s) - 1
      /\ DOMAIN s = 1 .. Len(s) /\ DOMAIN t = 1 .. Len(s) - 1
      /\ Head(s) = s[1] /\ \A i \in 1 .. Len(s) - 1 : t[i] = s[i + 1]
  OBVIOUS
<1> HIDE DEF t
<1>2. Head(s) \in S /\ 1 \in DOMAIN s /\ Head(s) \in Elements(s)
  BY <1>1 DEF Elements
<1>3. ASSUME NEW i \in DOMAIN t PROVE i + 1 \in DOMAIN s /\ t[i] = s[i + 1] /\ i \in Int /\ i + 1 # 1
  BY <1>1
<1>4. ASSUME Once(s) PROVE Once(t)
  <2> SUFFICES ASSUME NEW i \in DOMAIN t, NEW j \in DOMAIN t, t[i] = t[j] PROVE i = j
    BY DEF Once
  <2>1. s[i + 1] = s[j + 1] /\ i + 1 \in DOMAIN s /\ j + 1 \in DOMAIN s
    BY <1>3
  <2>2. i + 1 = j + 1
    BY <1>4, <2>1, Zenon DEF Once
  <2> QED
    BY <1>3, <2>2
<1>5. ASSUME Once(s) PROVE Elements(t) = Elements(s) \ {Head(s)}
  <2>1. ASSUME NEW i \in DOMAIN t PROVE t[i] \in Elements(s) /\ t[i] # Head(s)
    <3>1. i + 1 \in DOMAIN s /\ t[i] = s[i + 1] /\ i + 1 # 1
      BY <1>3
    <3>2. s[i + 1] # s[1]
      BY <1>2, <1>5, <3>1, Zenon DEF Once
    <3> QED
      BY <1>1, <3>1, <3>2 DEF Elements
  <2>2. ASSUME NEW i \in DOMAIN s, s[i] # Head(s) PROVE s[i] \in Elements(t)
    <3>1. i - 1 \in DOMAIN t /\ t[i - 1] = s[i]
      BY <1>1, <2>2
    <3> QED
      BY <3>1 DEF Elements
  <2> QED
    BY <2>1, <2>2 DEF Elements
<1> QED
  BY <1>1, <1>2, <1>4, <1>5 DEF t

LEMMA ConcatFacts ==
  ASSUME NEW S, NEW s \in Seq(S), NEW r \in Seq(S)
  PROVE  /\ s \o r \in Seq(S) /\ Elements(s \o r) = Elements(s) \cup Elements(r)
         /\ Once(s) /\ Once(r) /\ Elements(s) \cap Elements(r) = {} => Once(s \o r)
<1> DEFINE t == s \o r
<1>1. /\ t \in Seq(S) /\ Len(s) \in Nat /\ Len(r) \in Nat
      /\ DOMAIN s = 1 .. Len(s) /\ DOMAIN r = 1 .. Len(r) /\ DOMAIN t = 1 .. Len(s) + Len(r)
      /\ \A i \in 1 .. Len(s) : t[i] = s[i]
      /\ \A i \in Len(s) + 1 .. Len(s) + Len(r) : t[i] = r[i - Len(s)]
  OBVIOUS
<1> HIDE DEF t
<1>2. ASSUME NEW i \in DOMAIN t
      PROVE  \/ i \in DOMAIN s /\ t[i] = s[i]
             \/ i - Len(s) \in DOMAIN r /\ t[i] = r[i - Len(s)] /\ i \notin DOMAIN s
  BY <1>1
<1>3. ASSUME NEW i \in DOMAIN s PROVE i \in DOMAIN t /\ t[i] = s[i]
  BY <1>1
<1>4. ASSUME NEW i \in DOMAIN r PROVE i + Len(s) \in DOMAIN t /\ t[i + Len(s)] = r[i]
  <2>1. i + Len(s) \in Len(s) + 1 .. Len(s) + Len(r) /\ (i + Len(s)) - Len(s) = i
    BY <1>1
  <2> QED
    BY <1>1, <2>1
<1>5. Elements(t) = Elements(s) \cup Elements(r)
  <2>1. ASSUME NEW i \in DOMAIN t PROVE t[i] \in Elements(s) \cup Elements(r)
    BY <1>2 DEF Elements
  <2>2. ASSUME NEW i \in DOMAIN s PROVE s[i] \in Elements(t)
    BY <1>3 DEF Elements
  <2>3. ASSUME NEW i \in DOMAIN r PROVE r[i] \in Elements(t)
    BY <1>4 DEF Elements
  <2> QED
    BY <2>1, <2>2, <2>3 DEF Elements
<1>6. ASSUME Once(s), Once(r), Elements(s) \cap Elements(r) = {} PROVE Once(t)
  <2> SUFFICES ASSUME NEW i \in DOMAIN t, NEW j \in DOMAIN t, t[i] = t[j] PROVE i = j
    BY DEF Once
  <2>1. CASE i \in DOMAIN s /\ j \in DOMAIN s
    BY <1>3, <1>6, <2>1 DEF Once
  <2>2. CASE i \notin DOMAIN s /\ j \notin DOMAIN s
    <3>1. i - Len(s) \in DOMAIN r /\ j - Len(s) \in DOMAIN r /\ r[i - Len(s)] = r[j - Len(s)]
      BY <1>2, <2>2
    <3>2. i - Len(s) = j - Len(s)
      BY <1>6, <3>1, Zenon DEF Once
    <3> QED
      BY <1>1, <3>2
  <2>3. ASSUME NEW k \in DOMAIN t, NEW l \in DOMAIN t, k \in DOMAIN s, l \notin DOMAIN s
        PROVE  t[k] # t[l]
    <3>1. t[k] \in Elements(s)
      BY <1>3, <2>3 DEF Elements
    <3>2. t[l] \in Elements(r)
      BY <1>2, <2>3 DEF Elements
    <3> QED
      BY <1>6, <3>1, <3>2
  <2> QED
    BY <2>1, <2>2, <2>3
<1> QED
  BY <1>1, <1>5, <1>6 DEF t

\* A list that lacks a node of a pool is shorter than the pool.
LEMMA ShorterThanPool ==
  ASSUME NEW S, IsFiniteSet(S), NEW s \in Seq(S), Once(s), NEW x \in S, x \notin Elements(s)
  PROVE  Len(s) < Cardinality(S)
<1> DEFINE T == S \ {x}
<1>1. IsFiniteSet(T) /\ Cardinality(T) = Cardinality(S) - 1 /\ Cardinality(S) \in Nat
  BY FS_RemoveElement, FS_CardinalityType
<1>2. Len(s) \in Nat /\ DOMAIN s = 1 .. Len(s)
  OBVIOUS
<1>3. s \in [1 .. Len(s) -> T]
  <2>1. s \in [1 .. Len(s) -> S] /\ \A i \in 1 .. Len(s) : s[i] # x
    BY <1>2 DEF Elements
  <2> QED
    BY <2>1
<1>4. s \in Injection(1 .. Len(s), T)
  BY <1>2, <1>3 DEF Injection, IsInjective, Once
<1>5. Cardinality(1 .. Len(s)) <= Cardinality(T)
  BY <1>1, <1>4, FS_Injection
<1>6. Cardinality(1 .. Len(s)) = Len(s)
  BY SMTT(30), <1>2, FS_Interval
<1> QED
  BY <1>1, <1>2, <1>5, <1>6

-----------------------------------------------------------------------------
(* The ledger: which lists there are, and whose hand may hold one node *)

FreeTx == <<"free", "tx">>
FreeRx == <<"free", "rx">>
Queue(c) == <<"queue", c>>
Lists == {FreeTx, FreeRx} \cup {Queue(c) : c \in Conns}

TheMac == <<"mac", None>>
TheApp == <<"app", None>>
Held(c) == <<"tx_node", c>>
Hands == {TheMac, TheApp} \cup {Held(c) : c \in TxConns}

Ledger(L, H) == L \in [Lists -> Seq(Nodes)] /\ H \in [Hands -> Nodes \cup {None}]

\* Every node is in one place of one list, or in one hand.
Balanced(L, H) ==
  /\ \A l \in Lists : Once(L[l])
  /\ \A n \in Nodes : (\E l \in Lists : n \in Elements(L[l])) \/ (\E h \in Hands : H[h] = n)
  /\ \A l, k \in Lists : \A n \in Elements(L[l]) : n \in Elements(L[k]) => l = k
  /\ \A h, k \in Hands : H[h] = H[k] /\ H[h] # None => h = k
  /\ \A l \in Lists, h \in Hands : H[h] \notin Elements(L[l])

\* From hand h to the end of list l.
Puts(L, H, M, I, l, h) ==
  /\ l \in Lists /\ h \in Hands /\ H[h] # None
  /\ M[l] = Append(L[l], H[h]) /\ \A k \in Lists \ {l} : M[k] = L[k]
  /\ I[h] = None /\ \A k \in Hands \ {h} : I[k] = H[k]

\* From the front of list l into hand h.
Takes(L, H, M, I, l, h) ==
  /\ l \in Lists /\ h \in Hands /\ H[h] = None /\ L[l] # <<>>
  /\ M[l] = Tail(L[l]) /\ \A k \in Lists \ {l} : M[k] = L[k]
  /\ I[h] = Head(L[l]) /\ \A k \in Hands \ {h} : I[k] = H[k]

\* From hand g into hand h.
Passes(H, I, g, h) ==
  /\ g \in Hands /\ h \in Hands /\ g # h /\ H[h] = None
  /\ I[h] = H[g] /\ I[g] = None /\ \A k \in Hands \ {g, h} : I[k] = H[k]

\* All of list k to the end of list l.
Pours(L, M, k, l) ==
  /\ l \in Lists /\ k \in Lists /\ l # k
  /\ M[l] = L[l] \o L[k] /\ M[k] = <<>> /\ \A j \in Lists \ {l, k} : M[j] = L[j]

LEMMA Put ==
  ASSUME NEW L, NEW H, NEW M, NEW I, Ledger(L, H), Ledger(M, I), Balanced(L, H),
         NEW l, NEW h, Puts(L, H, M, I, l, h)
  PROVE  Balanced(M, I)
<1> USE DEF Puts
<1> DEFINE n == H[h]
<1>1. /\ L[l] \in Seq(Nodes) /\ n \in Nodes /\ n \notin Elements(L[l]) /\ Once(L[l])
      /\ \A k \in Lists : n \notin Elements(L[k])
      /\ \A k \in Hands \ {h} : H[k] # n
      /\ None \notin Nodes
  BY NullAssumption DEF Ledger, Balanced
<1> HIDE DEF n
<1>2. Elements(M[l]) = Elements(L[l]) \cup {n} /\ Once(M[l])
  <2>1. M[l] = Append(L[l], n)
    BY DEF n
  <2> QED
    BY <1>1, <2>1, AppendFacts
<1>3. \A k \in Lists : Once(M[k])
  BY <1>2 DEF Balanced
<1>4. ASSUME NEW x \in Nodes
      PROVE  (\E k \in Lists : x \in Elements(M[k])) \/ (\E k \in Hands : I[k] = x)
  <2>1. CASE x = n
    BY <1>2, <2>1
  <2>2. CASE x # n
    <3>1. CASE \E k \in Lists : x \in Elements(L[k])
      <4>1. PICK k \in Lists : x \in Elements(L[k])
        BY <3>1
      <4>2. x \in Elements(M[k])
        BY <1>2, <4>1
      <4> QED
        BY <4>2
    <3>2. CASE \E k \in Hands : H[k] = x
      <4>1. PICK k \in Hands : H[k] = x
        BY <3>2
      <4>2. k # h /\ I[k] = x
        BY <2>2, <4>1 DEF n
      <4> QED
        BY <4>2
    <3> QED
      BY <3>1, <3>2 DEF Balanced
  <2> QED
    BY <2>1, <2>2
<1>5. ASSUME NEW j \in Lists, NEW k \in Lists, NEW x \in Elements(M[j]), x \in Elements(M[k])
      PROVE  j = k
  <2>1. CASE x = n
    <3>1. ASSUME NEW i \in Lists, n \in Elements(M[i]) PROVE i = l
      BY <1>1, <3>1
    <3> QED
      BY <1>5, <2>1, <3>1
  <2>2. CASE x # n
    <3>1. ASSUME NEW i \in Lists, x \in Elements(M[i]) PROVE x \in Elements(L[i])
      <4>1. CASE i = l
        BY <1>2, <2>2, <3>1, <4>1
      <4>2. CASE i # l
        BY <3>1, <4>2
      <4> QED
        BY <4>1, <4>2
    <3>2. \A p, q \in Lists : \A y \in Elements(L[p]) : y \in Elements(L[q]) => p = q
      BY DEF Balanced
    <3>3. x \in Elements(L[j]) /\ x \in Elements(L[k])
      BY <1>5, <3>1
    <3> QED
      BY <3>2, <3>3, Zenon
  <2> QED
    BY <2>1, <2>2
<1>6. \A j, k \in Hands : I[j] = I[k] /\ I[j] # None => j = k
  BY DEF Balanced
<1>7. \A k \in Lists, j \in Hands : I[j] \notin Elements(M[k])
  <2> SUFFICES ASSUME NEW k \in Lists, NEW j \in Hands, I[j] \in Elements(M[k]) PROVE FALSE
    OBVIOUS
  <2>1. I[j] # None
    <3>1. M[k] \in Seq(Nodes)
      BY DEF Ledger
    <3>2. \A x \in Elements(M[k]) : x \in Nodes
      BY <3>1 DEF Elements
    <3> QED
      BY <1>1, <3>2
  <2>2. j # h /\ I[j] = H[j] /\ I[j] # n
    BY <1>1, <2>1
  <2>3. I[j] \in Elements(L[k])
    BY <1>2, <2>2
  <2> QED
    BY <2>2, <2>3 DEF Balanced
<1> QED
  BY <1>3, <1>4, <1>5, <1>6, <1>7 DEF Balanced

LEMMA Take ==
  ASSUME NEW L, NEW H, NEW M, NEW I, Ledger(L, H), Ledger(M, I), Balanced(L, H),
         NEW l, NEW h, Takes(L, H, M, I, l, h)
  PROVE  Balanced(M, I)
<1> USE DEF Takes
<1> DEFINE n == Head(L[l])
<1>1. L[l] \in Seq(Nodes) /\ Once(L[l]) /\ None \notin Nodes
  BY NullAssumption DEF Ledger, Balanced
<1>2. /\ n \in Nodes /\ n \in Elements(L[l])
      /\ Elements(M[l]) = Elements(L[l]) \ {n} /\ Once(M[l])
  BY <1>1, TailFacts
<1> HIDE DEF n
<1>3. I[h] = n
  BY DEF n
<1>4. \A k \in Lists : Once(M[k])
  BY <1>2 DEF Balanced
<1>5. /\ \A k \in Lists : n \notin Elements(M[k])
      /\ \A k \in Hands : H[k] # n
  <2>1. \A k \in Lists \ {l} : n \notin Elements(L[k])
    BY <1>2 DEF Balanced
  <2> QED
    BY <1>2, <2>1 DEF Balanced
<1>6. ASSUME NEW x \in Nodes
      PROVE  (\E k \in Lists : x \in Elements(M[k])) \/ (\E k \in Hands : I[k] = x)
  <2>1. CASE x = n
    BY <1>3, <2>1
  <2>2. CASE x # n
    <3>1. CASE \E k \in Lists : x \in Elements(L[k])
      <4>1. PICK k \in Lists : x \in Elements(L[k])
        BY <3>1
      <4>2. x \in Elements(M[k])
        BY <1>2, <2>2, <4>1
      <4> QED
        BY <4>2
    <3>2. CASE \E k \in Hands : H[k] = x
      <4>1. PICK k \in Hands : H[k] = x
        BY <3>2
      <4>2. k # h
        BY <1>1, <4>1
      <4> QED
        BY <4>1, <4>2
    <3> QED
      BY <3>1, <3>2 DEF Balanced
  <2> QED
    BY <2>1, <2>2
<1>7. ASSUME NEW k \in Lists PROVE \A x \in Elements(M[k]) : x \in Elements(L[k])
  BY <1>2
<1>8. \A j, k \in Lists : \A x \in Elements(M[j]) : x \in Elements(M[k]) => j = k
  BY <1>7 DEF Balanced
<1>9. \A j, k \in Hands : I[j] = I[k] /\ I[j] # None => j = k
  BY <1>3, <1>5 DEF Balanced
<1>10. \A k \in Lists, j \in Hands : I[j] \notin Elements(M[k])
  BY <1>3, <1>5, <1>7 DEF Balanced
<1> QED
  BY <1>4, <1>6, <1>8, <1>9, <1>10 DEF Balanced

LEMMA Pass ==
  ASSUME NEW L, NEW H, NEW I, Ledger(L, H), Balanced(L, H),
         NEW g, NEW h, Passes(H, I, g, h)
  PROVE  Balanced(L, I)
<1> USE DEF Passes
<1>1. None \notin Nodes
  BY NullAssumption
<1>2. ASSUME NEW x \in Nodes, NEW k \in Hands, H[k] = x PROVE \E j \in Hands : I[j] = x
  <2>1. CASE k = g
    BY <1>2, <2>1
  <2>2. CASE k # g
    BY <1>1, <1>2, <2>2
  <2> QED
    BY <2>1, <2>2
<1>3. \A n \in Nodes : (\E l \in Lists : n \in Elements(L[l])) \/ (\E k \in Hands : I[k] = n)
  BY <1>2 DEF Balanced
<1>4. ASSUME NEW j \in Hands, NEW k \in Hands, I[j] = I[k], I[j] # None PROVE j = k
  <2> DEFINE from(i) == IF i = h THEN g ELSE i
  <2>1. \A i \in Hands : I[i] # None => from(i) \in Hands /\ H[from(i)] = I[i] /\ i # g
    OBVIOUS
  <2>2. from(j) = from(k)
    BY <1>4, <2>1 DEF Balanced
  <2> QED
    BY <1>4, <2>1, <2>2
<1>5. ASSUME NEW l \in Lists, NEW k \in Hands PROVE I[k] \notin Elements(L[l])
  <2>1. H[g] \notin Elements(L[l]) /\ H[h] \notin Elements(L[l]) /\ H[k] \notin Elements(L[l])
    BY DEF Balanced
  <2> QED
    BY <2>1
<1> QED
  BY <1>3, <1>4, <1>5 DEF Balanced

LEMMA Pour ==
  ASSUME NEW L, NEW H, NEW M, Ledger(L, H), Ledger(M, H), Balanced(L, H),
         NEW k, NEW l, Pours(L, M, k, l)
  PROVE  Balanced(M, H)
<1> USE DEF Pours
<1>1. /\ L[l] \in Seq(Nodes) /\ L[k] \in Seq(Nodes) /\ Once(L[l]) /\ Once(L[k])
      /\ Elements(L[l]) \cap Elements(L[k]) = {}
  BY DEF Ledger, Balanced
<1>2. Elements(M[l]) = Elements(L[l]) \cup Elements(L[k]) /\ Once(M[l])
  BY <1>1, ConcatFacts
<1>3. Elements(M[k]) = {} /\ Once(M[k])
  BY DEF Elements, Once
<1>4. \A j \in Lists : Once(M[j])
  BY <1>2, <1>3 DEF Balanced
<1>5. ASSUME NEW x, NEW j \in Lists, x \in Elements(L[j])
      PROVE  \E i \in Lists : x \in Elements(M[i])
  <2>1. CASE j = l \/ j = k
    BY <1>2, <1>5, <2>1
  <2>2. CASE j # l /\ j # k
    BY <1>5, <2>2
  <2> QED
    BY <2>1, <2>2
<1>6. \A n \in Nodes : (\E i \in Lists : n \in Elements(M[i])) \/ (\E h \in Hands : H[h] = n)
  BY <1>5 DEF Balanced
<1>7. ASSUME NEW j \in Lists, NEW x \in Elements(M[j])
      PROVE  j # k /\ (x \in Elements(L[j]) \/ (j = l /\ x \in Elements(L[k])))
  BY <1>2, <1>3, <1>7
<1>8. ASSUME NEW i \in Lists, NEW j \in Lists, NEW x \in Elements(M[i]), x \in Elements(M[j])
      PROVE  i = j
  <2>1. /\ i # k /\ (x \in Elements(L[i]) \/ (i = l /\ x \in Elements(L[k])))
        /\ j # k /\ (x \in Elements(L[j]) \/ (j = l /\ x \in Elements(L[k])))
    BY <1>7, <1>8
  <2>2. \A p, q \in Lists : x \in Elements(L[p]) /\ x \in Elements(L[q]) => p = q
    BY DEF Balanced
  <2> QED
    BY <2>1, <2>2
<1>9. \A j \in Lists, h \in Hands : H[h] \notin Elements(M[j])
  BY <1>7 DEF Balanced
<1> QED
  BY <1>4, <1>6, <1>8, <1>9 DEF Balanced

-----------------------------------------------------------------------------
(* The circular buffer *)

LEMMA BytesFacts == Bytes \in Nat /\ MaxFrameSize \in Nat /\ QueueSize \in Nat
<1>1. QueueSize \in Nat /\ MaxFrameSize \in Nat
  BY MemoryAssumption
<1> QED
  BY <1>1 DEF Bytes

LEMMA PlaceFacts ==
  ASSUME NEW d \in Rings, NEW n \in 0 .. MaxFrameSize
  PROVE  /\ Place(d, n) = NoSpace \/ [at |-> Place(d, n), bytes |-> n] \in Blocks
         /\ AllocateSpace(d, n) \in Rings
<1>1. /\ Bytes \in Nat /\ MaxFrameSize \in Nat /\ n \in Nat
      /\ d.size = Bytes /\ d.head \in 0 .. Bytes /\ d.tail \in 0 .. Bytes
  BY BytesFacts DEF Rings
<1> DEFINE at == Place(d, n)
<1>2. at = NoSpace \/ (at \in 0 .. Bytes /\ at + n \in 0 .. Bytes)
  BY <1>1 DEF Place, NoSpace
<1> HIDE DEF at
<1>3. ASSUME at # NoSpace PROVE [at |-> at, bytes |-> n] \in Blocks
  BY <1>1, <1>2, <1>3 DEF Blocks
<1>4. AllocateSpace(d, n) \in Rings
  <2> DEFINE h == at + n
  <2>1. AllocateSpace(d, n) = IF at = NoSpace THEN d ELSE [d EXCEPT !.lastHead = at, !.head = h]
    BY DEF AllocateSpace, at
  <2>2. CASE at = NoSpace
    BY <2>1, <2>2
  <2>3. CASE at # NoSpace
    <3>1. h \in 0 .. Bytes
      BY <1>2, <2>3
    <3> HIDE DEF h
    <3> QED
      BY <1>2, <2>1, <2>3, <3>1 DEF Rings
  <2> QED
    BY <2>2, <2>3
<1> QED
  BY <1>3, <1>4 DEF at

LEMMA FreeSpaceFacts ==
  ASSUME NEW d \in Rings, NEW b \in Blocks
  PROVE  /\ FreeSpace(d, b.at, b.bytes) \in Rings
         /\ FreedField(d, b.at, b.bytes) \in {"head", "tail", "none"}
<1>1. Bytes \in Nat /\ b.at \in 0 .. Bytes /\ b.at + b.bytes \in 0 .. Bytes
  BY BytesFacts DEF Blocks
<1> DEFINE e == b.at + b.bytes
<1>2. FreeSpace(d, b.at, b.bytes) \in {d, [d EXCEPT !.head = b.at], [d EXCEPT !.tail = e]}
  BY DEF FreeSpace
<1> HIDE DEF e
<1>3. [d EXCEPT !.head = b.at] \in Rings /\ [d EXCEPT !.tail = e] \in Rings
  BY <1>1 DEF Rings, e
<1> QED
  BY <1>2, <1>3 DEF FreedField

-----------------------------------------------------------------------------
(* The memory, and the ledger it is *)

MemOK(m) ==
  /\ m \in MemStates
  /\ \A c \in TxConns : m.queue[c] \in Seq(TxNodes)
  /\ \A c \in RxConns : m.queue[c] \in Seq(RxNodes)
  /\ \A c \in Conns : Len(m.queue[c]) <= QueueSize

ListsOf(m) ==
  [l \in Lists |-> IF l = FreeTx THEN m.freeTx ELSE IF l = FreeRx THEN m.freeRx ELSE m.queue[l[2]]]

HandsOf(mac, ap, held) ==
  [h \in Hands |-> IF h = TheMac THEN mac ELSE IF h = TheApp THEN ap ELSE held[h[2]]]

LEMMA NameFacts ==
  /\ FreeTx \in Lists /\ FreeRx \in Lists /\ FreeTx # FreeRx
  /\ \A c \in Conns : Queue(c) \in Lists /\ Queue(c) # FreeTx /\ Queue(c) # FreeRx /\ Queue(c)[2] = c
  /\ \A l \in Lists : l # FreeTx /\ l # FreeRx => l[2] \in Conns /\ l = Queue(l[2])
  /\ \A c, e \in Conns : Queue(c) = Queue(e) => c = e
  /\ TheMac \in Hands /\ TheApp \in Hands /\ TheMac # TheApp
  /\ \A c \in TxConns : Held(c) \in Hands /\ Held(c) # TheMac /\ Held(c) # TheApp /\ Held(c)[2] = c
  /\ \A h \in Hands : h # TheMac /\ h # TheApp => h[2] \in TxConns /\ h = Held(h[2])
  /\ \A c, e \in TxConns : Held(c) = Held(e) => c = e
  /\ TxConns \subseteq Conns /\ RxConns \subseteq Conns
BY DEF FreeTx, FreeRx, Lists, Queue, TheMac, TheApp, Held, Hands, Conns

LEMMA ListsFacts ==
  ASSUME NEW m \in MemStates
  PROVE  /\ ListsOf(m) \in [Lists -> Seq(Nodes)]
         /\ ListsOf(m)[FreeTx] = m.freeTx /\ ListsOf(m)[FreeRx] = m.freeRx
         /\ \A c \in Conns : ListsOf(m)[Queue(c)] = m.queue[c]
<1>1. m.freeTx \in Seq(TxNodes) /\ m.freeRx \in Seq(RxNodes) /\ m.queue \in [Conns -> Seq(Nodes)]
  BY DEF MemStates
<1>2. m.freeTx \in Seq(Nodes) /\ m.freeRx \in Seq(Nodes)
  <2>1. TxNodes \subseteq Nodes /\ RxNodes \subseteq Nodes
    BY DEF Nodes
  <2> QED
    BY <1>1, <2>1, SeqMonotonic
<1>3. ASSUME NEW l \in Lists
      PROVE  (IF l = FreeTx THEN m.freeTx ELSE IF l = FreeRx THEN m.freeRx ELSE m.queue[l[2]])
               \in Seq(Nodes)
  BY <1>1, <1>2, NameFacts
<1>4. ListsOf(m) \in [Lists -> Seq(Nodes)]
  BY <1>3 DEF ListsOf
<1>5. ListsOf(m)[FreeTx] = m.freeTx /\ ListsOf(m)[FreeRx] = m.freeRx
  BY NameFacts DEF ListsOf
<1>6. ASSUME NEW c \in Conns PROVE ListsOf(m)[Queue(c)] = m.queue[c]
  BY NameFacts DEF ListsOf
<1> QED
  BY <1>4, <1>5, <1>6

Handable(mac, ap, held) ==
  /\ mac \in Nodes \cup {None} /\ ap \in Nodes \cup {None}
  /\ held \in [TxConns -> Nodes \cup {None}]

LEMMA HandsFacts ==
  ASSUME NEW mac, NEW ap, NEW held, Handable(mac, ap, held)
  PROVE  /\ HandsOf(mac, ap, held) \in [Hands -> Nodes \cup {None}]
         /\ HandsOf(mac, ap, held)[TheMac] = mac /\ HandsOf(mac, ap, held)[TheApp] = ap
         /\ \A c \in TxConns : HandsOf(mac, ap, held)[Held(c)] = held[c]
<1> USE DEF Handable
<1>1. ASSUME NEW h \in Hands
      PROVE  (IF h = TheMac THEN mac ELSE IF h = TheApp THEN ap ELSE held[h[2]]) \in Nodes \cup {None}
  BY NameFacts
<1>2. HandsOf(mac, ap, held) \in [Hands -> Nodes \cup {None}]
  BY <1>1 DEF HandsOf
<1>3. HandsOf(mac, ap, held)[TheMac] = mac /\ HandsOf(mac, ap, held)[TheApp] = ap
  BY NameFacts DEF HandsOf
<1>4. ASSUME NEW c \in TxConns PROVE HandsOf(mac, ap, held)[Held(c)] = held[c]
  BY NameFacts DEF HandsOf
<1> QED
  BY <1>2, <1>3, <1>4

\* What a change of the memory does to its lists.
LEMMA SameLists ==
  ASSUME NEW m \in MemStates, NEW p \in MemStates,
         p.freeTx = m.freeTx, p.freeRx = m.freeRx, p.queue = m.queue
  PROVE  ListsOf(p) = ListsOf(m)
BY DEF ListsOf

LEMMA OtherLists ==
  ASSUME NEW m \in MemStates, NEW p \in MemStates, NEW S \in SUBSET Lists,
         FreeTx \notin S => p.freeTx = m.freeTx, FreeRx \notin S => p.freeRx = m.freeRx,
         \A c \in Conns : Queue(c) \notin S => p.queue[c] = m.queue[c]
  PROVE  \A k \in Lists \ S : ListsOf(p)[k] = ListsOf(m)[k]
<1> SUFFICES ASSUME NEW k \in Lists, k \notin S PROVE ListsOf(p)[k] = ListsOf(m)[k]
  OBVIOUS
<1>1. CASE k = FreeTx
  BY <1>1, ListsFacts
<1>2. CASE k = FreeRx
  BY <1>2, ListsFacts
<1>3. CASE k # FreeTx /\ k # FreeRx
  <2>1. PICK c \in Conns : k = Queue(c)
    BY <1>3, NameFacts
  <2> QED
    BY <2>1, ListsFacts
<1> QED
  BY <1>1, <1>2, <1>3

LEMMA PoolFacts ==
  /\ IsFiniteSet(TxNodes) /\ Cardinality(TxNodes) \in Nat
  /\ TxNodes = {<<"tx", i>> : i \in 1 .. Cardinality(TxNodes)}
  /\ IsFiniteSet(RxNodes) /\ Cardinality(RxNodes) \in Nat
  /\ Cardinality(RxNodes) = QueueSize * Cardinality(RxConns)
  /\ RxNodes = {<<"rx", i>> : i \in 1 .. Cardinality(RxNodes)}
  /\ TxNodes \cap RxNodes = {}
<1>1. ASSUME NEW N \in Nat, NEW tag
      PROVE  LET S == {<<tag, i>> : i \in 1 .. N}
             IN  IsFiniteSet(S) /\ Cardinality(S) = N
  <2> DEFINE S == {<<tag, i>> : i \in 1 .. N}
             f == [i \in 1 .. N |-> <<tag, i>>]
  <2>1. f \in Bijection(1 .. N, S)
    BY DEF Bijection, Injection, IsInjective, Surjection
  <2>2. IsFiniteSet(1 .. N) /\ Cardinality(1 .. N) = N
    BY FS_Interval
  <2>3. ExistsBijection(1 .. N, S)
    BY <2>1, Zenon DEF ExistsBijection
  <2> QED
    BY <2>2, <2>3, FS_Bijection
<1>2. QueueSize * Cardinality(TxConns) \in Nat /\ QueueSize * Cardinality(RxConns) \in Nat
  <2>1. Cardinality(TxConns) \in Nat /\ Cardinality(RxConns) \in Nat
    BY MemoryAssumption, FS_CardinalityType
  <2> QED
    BY <2>1, BytesFacts
<1> DEFINE K == QueueSize * Cardinality(TxConns)
           N == QueueSize * Cardinality(RxConns)
<1>3. TxNodes = {<<"tx", i>> : i \in 1 .. K} /\ RxNodes = {<<"rx", i>> : i \in 1 .. N}
  BY DEF TxNodes, RxNodes
<1> HIDE DEF K, N
<1>4. IsFiniteSet(TxNodes) /\ Cardinality(TxNodes) = K
  BY <1>1, <1>2, <1>3 DEF K
<1>5. IsFiniteSet(RxNodes) /\ Cardinality(RxNodes) = N
  BY <1>1, <1>2, <1>3 DEF N
<1>6. TxNodes \cap RxNodes = {}
  BY <1>3
<1> QED
  BY <1>2, <1>3, <1>4, <1>5, <1>6 DEF K, N

-----------------------------------------------------------------------------
(* Operations on nodes *)

LEMMA FreeTxNodeOK ==
  ASSUME NEW m, MemOK(m), NEW n \in TxNodes
  PROVE  LET p == FreeTxNode(m, n)
         IN  /\ MemOK(p)
             /\ p.freeRx = m.freeRx /\ p.rxNode = m.rxNode /\ p.queue = m.queue
             /\ p.ring = m.ring /\ p.block = m.block
             /\ Len(m.freeTx) < Cardinality(TxNodes) => p.freeTx = Append(m.freeTx, n)
<1> DEFINE p == FreeTxNode(m, n)
           f == Append(m.freeTx, n)
<1>1. m \in MemStates /\ m.freeTx \in Seq(TxNodes)
  BY DEF MemOK, MemStates
<1>2. f \in Seq(TxNodes)
  BY <1>1
<1>3. p = IF Len(m.freeTx) < Cardinality(TxNodes) THEN [m EXCEPT !.freeTx = f] ELSE m
  BY DEF FreeTxNode
<1> HIDE DEF p, f
<1>4. /\ p \in MemStates
      /\ p.freeRx = m.freeRx /\ p.rxNode = m.rxNode /\ p.queue = m.queue
      /\ p.ring = m.ring /\ p.block = m.block
      /\ Len(m.freeTx) < Cardinality(TxNodes) => p.freeTx = f
  BY <1>1, <1>2, <1>3 DEF MemStates
<1> QED
  BY <1>4 DEF p, f, MemOK

LEMMA FreeRxNodeOK ==
  ASSUME NEW m, MemOK(m), NEW n \in RxNodes \cup {None}
  PROVE  LET p == FreeRxNode(m, n)
         IN  /\ MemOK(p)
             /\ p.freeTx = m.freeTx /\ p.rxNode = m.rxNode /\ p.queue = m.queue
             /\ p.ring = m.ring /\ p.block = m.block
             /\ n # None /\ Len(m.freeRx) < Cardinality(RxNodes) => p.freeRx = Append(m.freeRx, n)
             /\ n = None => p = m
<1> DEFINE p == FreeRxNode(m, n)
           f == Append(m.freeRx, n)
<1>1. m \in MemStates /\ m.freeRx \in Seq(RxNodes)
  BY DEF MemOK, MemStates
<1>2. n # None => f \in Seq(RxNodes)
  BY <1>1
<1>3. p = IF n # None /\ Len(m.freeRx) < Cardinality(RxNodes) THEN [m EXCEPT !.freeRx = f] ELSE m
  BY DEF FreeRxNode
<1> HIDE DEF p, f
<1>4. /\ p \in MemStates
      /\ p.freeTx = m.freeTx /\ p.rxNode = m.rxNode /\ p.queue = m.queue
      /\ p.ring = m.ring /\ p.block = m.block
      /\ n # None /\ Len(m.freeRx) < Cardinality(RxNodes) => p.freeRx = f
      /\ n = None => p = m
  BY <1>1, <1>2, <1>3 DEF MemStates
<1> QED
  BY <1>4 DEF p, f, MemOK

\* A node in a hand goes back to its pool, which has room for it.
LEMMA FreeTxNodeKeeps ==
  ASSUME NEW m, MemOK(m), NEW n \in TxNodes,
         NEW H \in [Hands -> Nodes \cup {None}], NEW I \in [Hands -> Nodes \cup {None}],
         Balanced(ListsOf(m), H),
         NEW h \in Hands, H[h] = n, I[h] = None, \A k \in Hands \ {h} : I[k] = H[k]
  PROVE  Balanced(ListsOf(FreeTxNode(m, n)), I)
<1> DEFINE p == FreeTxNode(m, n)
           L == ListsOf(m)
           M == ListsOf(p)
<1>1. m \in MemStates /\ m.freeTx \in Seq(TxNodes)
  BY DEF MemOK, MemStates
<1>2. L \in [Lists -> Seq(Nodes)] /\ L[FreeTx] = m.freeTx /\ FreeTx \in Lists
  BY <1>1, ListsFacts, NameFacts
<1>3. Once(m.freeTx) /\ n \notin Elements(m.freeTx)
  BY <1>2 DEF Balanced
<1>4. Len(m.freeTx) < Cardinality(TxNodes)
  BY <1>1, <1>3, PoolFacts, ShorterThanPool
<1>5. /\ p \in MemStates /\ p.freeTx = Append(m.freeTx, n)
      /\ p.freeRx = m.freeRx /\ p.queue = m.queue
  BY <1>4, FreeTxNodeOK DEF MemOK
<1> HIDE DEF p
<1>6. M \in [Lists -> Seq(Nodes)] /\ M[FreeTx] = Append(L[FreeTx], H[h])
  BY <1>2, <1>5, ListsFacts
<1>7. \A k \in Lists \ {FreeTx} : M[k] = L[k]
  <2>1. {FreeTx} \in SUBSET Lists /\ p.queue = m.queue /\ p.freeRx = m.freeRx
    BY <1>1, <1>2, <1>5
  <2> QED
    BY <1>1, <1>5, <2>1, OtherLists
<1>8. H[h] # None
  BY NullAssumption DEF Nodes
<1> HIDE DEF L, M
<1>9. Ledger(L, H) /\ Ledger(M, I)
  BY <1>2, <1>6 DEF Ledger
<1>10. Balanced(L, H)
  BY DEF L
<1>11. Puts(L, H, M, I, FreeTx, h)
  BY <1>2, <1>6, <1>7, <1>8 DEF Puts
<1>12. Balanced(M, I)
  BY <1>9, <1>10, <1>11, Put
<1> QED
  BY <1>12 DEF M, p

LEMMA FreeRxNodeKeeps ==
  ASSUME NEW m, MemOK(m), NEW n \in RxNodes \cup {None},
         NEW H \in [Hands -> Nodes \cup {None}], NEW I \in [Hands -> Nodes \cup {None}],
         Balanced(ListsOf(m), H),
         NEW h \in Hands, H[h] = n, I[h] = None, \A k \in Hands \ {h} : I[k] = H[k]
  PROVE  Balanced(ListsOf(FreeRxNode(m, n)), I)
<1> DEFINE p == FreeRxNode(m, n)
           L == ListsOf(m)
           M == ListsOf(p)
<1>1. m \in MemStates /\ m.freeRx \in Seq(RxNodes)
  BY DEF MemOK, MemStates
<1>2. L \in [Lists -> Seq(Nodes)] /\ L[FreeRx] = m.freeRx /\ FreeRx \in Lists
  BY <1>1, ListsFacts, NameFacts
<1>3. CASE n = None
  <2>1. p = m
    BY <1>3, FreeRxNodeOK
  <2>2. I = H
    BY <1>3
  <2> QED
    BY <2>1, <2>2
<1>4. CASE n # None
  <2>1. Once(m.freeRx) /\ n \notin Elements(m.freeRx)
    BY <1>2 DEF Balanced
  <2>2. Len(m.freeRx) < Cardinality(RxNodes)
    BY <1>1, <1>4, <2>1, PoolFacts, ShorterThanPool
  <2>3. /\ p \in MemStates /\ p.freeRx = Append(m.freeRx, n)
        /\ p.freeTx = m.freeTx /\ p.queue = m.queue
    BY <1>4, <2>2, FreeRxNodeOK DEF MemOK
  <2> HIDE DEF p
  <2>4. M \in [Lists -> Seq(Nodes)] /\ M[FreeRx] = Append(L[FreeRx], H[h])
    BY <1>2, <2>3, ListsFacts
  <2>5. \A k \in Lists \ {FreeRx} : M[k] = L[k]
    <3>1. {FreeRx} \in SUBSET Lists /\ p.queue = m.queue /\ p.freeTx = m.freeTx
      BY <1>1, <1>2, <2>3
    <3> QED
      BY <1>1, <2>3, <3>1, OtherLists
  <2> HIDE DEF L, M
  <2>6. Ledger(L, H) /\ Ledger(M, I)
    BY <1>2, <2>4 DEF Ledger
  <2>7. Balanced(L, H)
    BY DEF L
  <2>8. Puts(L, H, M, I, FreeRx, h)
    BY <1>2, <1>4, <2>4, <2>5 DEF Puts
  <2>9. Balanced(M, I)
    BY <2>6, <2>7, <2>8, Put
  <2> QED
    BY <2>9 DEF M, p
<1> QED
  BY <1>3, <1>4

\* Memory p is m with queue q and ring r for connection c.
Requeues(m, c, q, r, p) ==
  /\ c \in Conns /\ r \in Rings /\ Len(q) <= QueueSize
  /\ c \in TxConns => q \in Seq(TxNodes)
  /\ c \in RxConns => q \in Seq(RxNodes)
  /\ p = [m EXCEPT !.queue[c] = q, !.ring[c] = r]

LEMMA MemQueue ==
  ASSUME NEW m, MemOK(m), NEW c, NEW q, NEW r, NEW p, Requeues(m, c, q, r, p)
  PROVE  /\ MemOK(p)
         /\ p.freeTx = m.freeTx /\ p.freeRx = m.freeRx /\ p.rxNode = m.rxNode /\ p.block = m.block
         /\ p.queue[c] = q /\ \A e \in Conns \ {c} : p.queue[e] = m.queue[e]
         /\ p.ring[c] = r /\ \A e \in Conns \ {c} : p.ring[e] = m.ring[e]
<1> USE DEF Requeues
<1> DEFINE Q == [m.queue EXCEPT ![c] = q]
           R == [m.ring EXCEPT ![c] = r]
<1>1. /\ m \in MemStates /\ m.queue \in [Conns -> Seq(Nodes)] /\ m.ring \in [Conns -> Rings]
  BY DEF MemOK, MemStates
<1>2. q \in Seq(Nodes)
  <2>1. TxNodes \subseteq Nodes /\ RxNodes \subseteq Nodes
    BY DEF Nodes
  <2>2. CASE c \in TxConns
    BY <2>1, <2>2, SeqMonotonic
  <2>3. CASE c \in RxConns
    BY <2>1, <2>3, SeqMonotonic
  <2> QED
    BY <2>2, <2>3 DEF Conns
<1>3. /\ Q \in [Conns -> Seq(Nodes)] /\ R \in [Conns -> Rings]
      /\ Q[c] = q /\ \A e \in Conns \ {c} : Q[e] = m.queue[e]
      /\ R[c] = r /\ \A e \in Conns \ {c} : R[e] = m.ring[e]
  BY <1>1, <1>2
<1>4. p = [m EXCEPT !.queue = Q, !.ring = R]
  BY <1>1 DEF MemStates
<1> HIDE DEF Q, R
<1>5. /\ p \in MemStates /\ p.queue = Q /\ p.ring = R
      /\ p.freeTx = m.freeTx /\ p.freeRx = m.freeRx /\ p.rxNode = m.rxNode /\ p.block = m.block
  BY <1>1, <1>3, <1>4 DEF MemStates
<1>6. /\ \A e \in TxConns : Q[e] \in Seq(TxNodes)
      /\ \A e \in RxConns : Q[e] \in Seq(RxNodes)
      /\ \A e \in Conns : Len(Q[e]) <= QueueSize
  BY <1>3, NameFacts DEF MemOK
<1>7. MemOK(p)
  BY <1>5, <1>6 DEF MemOK
<1> QED
  BY <1>3, <1>5, <1>7

LEMMA MemRxNode ==
  ASSUME NEW m, MemOK(m), NEW n \in RxNodes \cup {None}
  PROVE  LET p == [m EXCEPT !.rxNode = n]
         IN  /\ MemOK(p) /\ p.rxNode = n /\ ListsOf(p) = ListsOf(m) /\ p.block = m.block
             /\ p.queue = m.queue /\ p.freeTx = m.freeTx /\ p.freeRx = m.freeRx /\ p.ring = m.ring
<1> DEFINE p == [m EXCEPT !.rxNode = n]
<1>1. m \in MemStates
  BY DEF MemOK
<1>2. /\ p \in MemStates /\ p.rxNode = n /\ p.block = m.block /\ p.ring = m.ring
      /\ p.queue = m.queue /\ p.freeTx = m.freeTx /\ p.freeRx = m.freeRx
  BY <1>1 DEF MemStates
<1> HIDE DEF p
<1>3. MemOK(p) /\ ListsOf(p) = ListsOf(m)
  BY <1>1, <1>2, SameLists DEF MemOK
<1> QED
  BY <1>2, <1>3 DEF p

\* Space changes hands, nodes do not.
Respaces(m, c, r, n, b, p) ==
  /\ c \in Conns /\ r \in Rings /\ n \in Nodes /\ b \in Blocks
  /\ p = [m EXCEPT !.ring[c] = r, !.block[n] = b]

LEMMA MemSpace ==
  ASSUME NEW m, MemOK(m), NEW c, NEW r, NEW n, NEW b, NEW p, Respaces(m, c, r, n, b, p)
  PROVE  /\ MemOK(p)
         /\ p.freeTx = m.freeTx /\ p.freeRx = m.freeRx /\ p.rxNode = m.rxNode
         /\ p.queue = m.queue /\ p.block[n] = b /\ ListsOf(p) = ListsOf(m)
<1> USE DEF Respaces
<1> DEFINE R == [m.ring EXCEPT ![c] = r]
           B == [m.block EXCEPT ![n] = b]
<1>1. m \in MemStates /\ m.ring \in [Conns -> Rings] /\ m.block \in [Nodes -> Blocks]
  BY DEF MemOK, MemStates
<1>2. R \in [Conns -> Rings] /\ B \in [Nodes -> Blocks] /\ B[n] = b
  BY <1>1
<1>3. p = [m EXCEPT !.ring = R, !.block = B]
  BY <1>1 DEF MemStates
<1> HIDE DEF R, B
<1>4. /\ p \in MemStates /\ p.queue = m.queue /\ p.block = B
      /\ p.freeTx = m.freeTx /\ p.freeRx = m.freeRx /\ p.rxNode = m.rxNode
  BY <1>1, <1>2, <1>3 DEF MemStates
<1>5. MemOK(p)
  BY <1>4 DEF MemOK
<1>6. ListsOf(p) = ListsOf(m)
  BY <1>1, <1>4, SameLists
<1> QED
  BY <1>2, <1>4, <1>5, <1>6

LEMMA MemBlocks ==
  ASSUME NEW m, MemOK(m), NEW c, NEW r, NEW n, NEW b, NEW p, Respaces(m, c, r, n, b, p)
  PROVE  /\ p.ring[c] = r /\ \A e \in Conns \ {c} : p.ring[e] = m.ring[e]
         /\ p.block[n] = b /\ \A k \in Nodes \ {n} : p.block[k] = m.block[k]
<1> USE DEF Respaces
<1>1. m \in MemStates /\ m.ring \in [Conns -> Rings] /\ m.block \in [Nodes -> Blocks]
  BY DEF MemOK, MemStates
<1>2. p.ring = [m.ring EXCEPT ![c] = r] /\ p.block = [m.block EXCEPT ![n] = b]
  BY <1>1 DEF MemStates
<1> QED
  BY <1>1, <1>2

LEMMA BlockFacts ==
  ASSUME NEW m, MemOK(m), NEW n \in Nodes, NEW c \in Conns
  PROVE  /\ m.block[n] \in Blocks /\ m.ring[c] \in Rings /\ NoBlock \in Blocks
         /\ FreeSpace(m.ring[c], m.block[n].at, m.block[n].bytes) \in Rings
<1>1. m.block[n] \in Blocks /\ m.ring[c] \in Rings
  BY DEF MemOK, MemStates
<1>2. NoBlock \in Blocks
  BY BytesFacts DEF NoBlock, Blocks
<1> QED
  BY <1>1, <1>2, FreeSpaceFacts

LEMMA SendDoneFacts ==
  ASSUME NEW m, MemOK(m), NEW c \in TxConns
  PROVE  /\ MemOK(SendDone(m, c)) /\ SendDone(m, c).rxNode = m.rxNode
         /\ \A H \in [Hands -> Nodes \cup {None}] :
              Balanced(ListsOf(m), H) /\ H[TheMac] = None => Balanced(ListsOf(SendDone(m, c)), H)
<1> DEFINE q == m.queue[c]
           n == Head(q)
           t == Tail(q)
           r == FreeSpace(m.ring[c], m.block[n].at, m.block[n].bytes)
           w == [m EXCEPT !.queue[c] = t, !.ring[c] = r]
           p == FreeTxNode(w, n)
<1>1. CASE q = <<>>
  <2>1. SendDone(m, c) = m
    BY <1>1 DEF SendDone
  <2> QED
    BY <2>1
<1>2. CASE q # <<>>
  <2>1. /\ q \in Seq(TxNodes) /\ c \in Conns /\ Len(q) <= QueueSize /\ m \in MemStates
        /\ Len(q) \in Nat /\ QueueSize \in Nat /\ m.rxNode \in RxNodes \cup {None}
    BY NameFacts, BytesFacts DEF MemOK, MemStates
  <2>2. t \in Seq(TxNodes) /\ Len(t) <= QueueSize /\ n \in TxNodes /\ n \in Nodes
    BY <1>2, <2>1, TailFacts DEF Nodes
  <2>3. r \in Rings
    BY <2>1, <2>2, BlockFacts
  <2>4. SendDone(m, c) = p
    BY <1>2 DEF SendDone
  <2> HIDE DEF r
  <2>6. c \notin RxConns
    BY <2>1, MemoryAssumption
  <2>7. w = [m EXCEPT !.queue[c] = t, !.ring[c] = r]
    OBVIOUS
  <2>8. /\ MemOK(w)
        /\ w.freeTx = m.freeTx /\ w.freeRx = m.freeRx /\ w.rxNode = m.rxNode
        /\ w.queue[c] = t /\ \A e \in Conns \ {c} : w.queue[e] = m.queue[e]
    <3>1. Requeues(m, c, t, r, w)
      BY <2>1, <2>2, <2>3, <2>6, <2>7 DEF Requeues
    <3> HIDE DEF t, w
    <3> QED
      BY <3>1, MemQueue
  <2> HIDE DEF w
  <2>9. MemOK(p) /\ p.rxNode = m.rxNode
    BY <2>2, <2>8, FreeTxNodeOK
  <2>10. ASSUME NEW H \in [Hands -> Nodes \cup {None}], Balanced(ListsOf(m), H),
                H[TheMac] = None
         PROVE  Balanced(ListsOf(p), H)
    <3> DEFINE I == [H EXCEPT ![TheMac] = n]
               L == ListsOf(m)
               M == ListsOf(w)
    <3>1. /\ I \in [Hands -> Nodes \cup {None}] /\ I[TheMac] = n
          /\ \A k \in Hands \ {TheMac} : I[k] = H[k]
      BY <2>2, NameFacts
    <3>2. w \in MemStates
      BY <2>8 DEF MemOK
    <3>3. /\ L \in [Lists -> Seq(Nodes)] /\ M \in [Lists -> Seq(Nodes)]
          /\ Queue(c) \in Lists /\ L[Queue(c)] = q /\ M[Queue(c)] = t
      BY <2>1, <2>8, <3>2, ListsFacts, NameFacts
    <3>4. \A k \in Lists \ {Queue(c)} : M[k] = L[k]
      <4>1. /\ {Queue(c)} \in SUBSET Lists
            /\ \A e \in Conns : Queue(e) \notin {Queue(c)} => w.queue[e] = m.queue[e]
        BY <2>1, <2>8, NameFacts
      <4> HIDE DEF I, q, t, n
      <4> QED
        BY <2>1, <2>8, <3>2, <4>1, OtherLists
    <3>5. TheMac \in Hands
      BY NameFacts
    <3> HIDE DEF I, L, M
    <3>6. Takes(L, H, M, I, Queue(c), TheMac)
      BY <1>2, <2>10, <3>1, <3>3, <3>4, <3>5 DEF Takes
    <3>7. Ledger(L, H) /\ Ledger(M, I) /\ Balanced(L, H)
      BY <2>10, <3>1, <3>3 DEF Ledger, L
    <3>8. Balanced(M, I)
      BY <3>6, <3>7, Take
    <3>9. Balanced(ListsOf(w), I)
      BY <3>8 DEF M
    <3> HIDE DEF n
    <3> QED
      BY <2>2, <2>8, <2>10, <3>1, <3>5, <3>9, FreeTxNodeKeeps
  <2> QED
    BY <2>4, <2>9, <2>10
<1> QED
  BY <1>1, <1>2

\* What the slot leaves of a memory whose late frames are gone.
Prepared(m) == [m EXCEPT !.rxNode = IF cfg.ackFrames THEN None ELSE @]

\* A property of memories that SendDone keeps holds when the frames past their
\* deadline are gone.
LEMMA DropsKeep ==
  ASSUME NEW c, NEW S, NEW m \in S, \A p \in S : SendDone(p, c) \in S, NEW drops \in Nat
  PROVE  \E p \in S : PrepareTx(m, c, drops) = Prepared(p)
<1> DEFINE next == [p \in S |-> SendDone(p, c)]
           IsDrop(d) == d = [k \in Nat |-> IF k = 0 THEN m ELSE SendDone(d[k - 1], c)]
           D == CHOOSE d : IsDrop(d)
           T == {k \in Nat : D[k] \in S}
<1>1. next \in [S -> S]
  OBVIOUS
<1>2. \E d : IsDrop(d)
  <2> HIDE DEF T
  <2>1. PICK d \in [Nat -> S] : d[0] = m /\ \A k \in Nat : d[k + 1] = next[d[k]]
    <3> HIDE DEF next
    <3>1. Iterates(S, next, m)
      BY <1>1, IterationExists
    <3> QED
      BY <3>1 DEF Iterates
  <2>2. ASSUME NEW k \in Nat PROVE d[k] = IF k = 0 THEN m ELSE SendDone(d[k - 1], c)
    <3>1. CASE k = 0
      BY <2>1, <3>1
    <3>2. CASE k # 0
      <4>1. k - 1 \in Nat /\ (k - 1) + 1 = k
        BY <3>2
      <4>2. d[k] = next[d[k - 1]] /\ d[k - 1] \in S
        BY <2>1, <4>1
      <4> QED
        BY <3>2, <4>2
    <3> QED
      BY <3>1, <3>2
  <2>3. IsDrop(d)
    BY <2>1, <2>2
  <2> QED
    BY <2>3
<1>3. IsDrop(D)
  <2> HIDE DEF IsDrop
  <2> QED
    BY <1>2
<1>4. PrepareTx(m, c, drops) = Prepared(D[drops])
  BY DEF PrepareTx, Prepared
<1> HIDE DEF D
<1>5. D[0] = m
  BY <1>3
<1>6. ASSUME NEW k \in Nat PROVE D[k + 1] = SendDone(D[k], c)
  <2>1. k + 1 \in Nat /\ k + 1 # 0 /\ (k + 1) - 1 = k
    OBVIOUS
  <2> QED
    BY <1>3, <2>1
<1> HIDE DEF IsDrop
<1>7. 0 \in T /\ \A k \in T : k + 1 \in T
  BY <1>5, <1>6
<1>8. T \in SUBSET Nat
  OBVIOUS
<1> HIDE DEF T
<1>9. T = Nat
  BY <1>7, <1>8, InductionOnSet
<1> QED
  BY <1>4, <1>9 DEF T

\* The frames past their deadline go one after the other.
LEMMA PrepareTxFacts ==
  ASSUME NEW m, MemOK(m), NEW c \in TxConns, NEW drops \in Nat
  PROVE  /\ MemOK(PrepareTx(m, c, drops))
         /\ PrepareTx(m, c, drops).rxNode = IF cfg.ackFrames THEN None ELSE m.rxNode
         /\ \A H \in [Hands -> Nodes \cup {None}] :
              Balanced(ListsOf(m), H) /\ H[TheMac] = None
                => Balanced(ListsOf(PrepareTx(m, c, drops)), H)
<1> DEFINE S == {x \in MemStates :
                   /\ MemOK(x) /\ x.rxNode = m.rxNode
                   /\ \A H \in [Hands -> Nodes \cup {None}] :
                        Balanced(ListsOf(m), H) /\ H[TheMac] = None => Balanced(ListsOf(x), H)}
<1>1. m \in S
  BY DEF MemOK
<1>2. ASSUME NEW x \in S PROVE SendDone(x, c) \in S
  <2>1. MemOK(x)
    OBVIOUS
  <2>2. /\ MemOK(SendDone(x, c)) /\ SendDone(x, c) \in MemStates
        /\ SendDone(x, c).rxNode = m.rxNode
    BY <2>1, SendDoneFacts DEF MemOK
  <2>3. ASSUME NEW H \in [Hands -> Nodes \cup {None}], Balanced(ListsOf(m), H), H[TheMac] = None
        PROVE  Balanced(ListsOf(SendDone(x, c)), H)
    BY <2>1, <2>3, SendDoneFacts
  <2> QED
    BY <2>2, <2>3
<1> HIDE DEF S
<1>3. PICK x \in S : PrepareTx(m, c, drops) = Prepared(x)
  <2>1. \A x \in S : SendDone(x, c) \in S
    BY <1>2
  <2> QED
    BY <1>1, <2>1, DropsKeep
<1> DEFINE n == IF cfg.ackFrames THEN None ELSE x.rxNode
           p == PrepareTx(m, c, drops)
<1>4. /\ MemOK(x) /\ x.rxNode = m.rxNode
      /\ \A H \in [Hands -> Nodes \cup {None}] :
           Balanced(ListsOf(m), H) /\ H[TheMac] = None => Balanced(ListsOf(x), H)
  BY DEF S
<1>5. n \in RxNodes \cup {None} /\ p = [x EXCEPT !.rxNode = n]
  BY <1>3, <1>4 DEF MemOK, MemStates, Prepared
<1> HIDE DEF p
<1>6. MemOK(p) /\ p.rxNode = n /\ ListsOf(p) = ListsOf(x)
  <2> HIDE DEF n
  <2> QED
    BY <1>4, <1>5, MemRxNode
<1> QED
  BY <1>4, <1>6 DEF p

\* The MAC goes from holding node a in memory m to holding node b in memory p,
\* and the other hands keep what they have.
MacTurns(m, a, p, b) ==
  \A H, I \in [Hands -> Nodes \cup {None}] :
    /\ Balanced(ListsOf(m), H) /\ H[TheMac] = a /\ I[TheMac] = b
    /\ \A k \in Hands \ {TheMac} : I[k] = H[k]
    => Balanced(ListsOf(p), I)

\* The node of the slot goes back to its pool.
LEMMA ProcessRxNoneFacts ==
  ASSUME NEW m, MemOK(m), NEW c \in Conns
  PROVE  /\ MemOK(ProcessRxNone(m, c))
         /\ MacTurns(m, m.rxNode, ProcessRxNone(m, c), None)
<1> USE DEF MacTurns
<1> DEFINE n == m.rxNode
           r == FreeSpace(m.ring[c], m.block[n].at, m.block[n].bytes)
           w == [m EXCEPT !.ring[c] = r, !.block[n] = NoBlock]
           p == FreeNodeWithData(m, c, n)
<1>1. n \in RxNodes \cup {None} /\ TheMac \in Hands
  BY NameFacts DEF MemOK, MemStates
<1>2. /\ MemOK(p)
      /\ \A H, I \in [Hands -> Nodes \cup {None}] :
           /\ Balanced(ListsOf(m), H) /\ H[TheMac] = n /\ I[TheMac] = None
           /\ \A k \in Hands \ {TheMac} : I[k] = H[k]
           => Balanced(ListsOf(p), I)
  <2>1. CASE n = None
    <3>1. p = m
      BY <2>1 DEF FreeNodeWithData
    <3>2. ASSUME NEW H \in [Hands -> Nodes \cup {None}], NEW I \in [Hands -> Nodes \cup {None}],
                 H[TheMac] = n, I[TheMac] = None, \A k \in Hands \ {TheMac} : I[k] = H[k]
          PROVE  I = H
      BY <2>1, <3>2
    <3> QED
      BY <3>1, <3>2
  <2>2. CASE n # None
    <3>1. n \in RxNodes /\ n \in Nodes
      BY <1>1, <2>2 DEF Nodes
    <3>2. r \in Rings /\ NoBlock \in Blocks
      BY <3>1, BlockFacts
    <3>3. p = FreeRxNode(w, n)
      BY <2>2 DEF FreeNodeWithData
    <3>4. Respaces(m, c, r, n, NoBlock, w)
      BY <3>1, <3>2 DEF Respaces
    <3> HIDE DEF r, n, w
    <3>5. MemOK(w) /\ ListsOf(w) = ListsOf(m)
      BY <3>4, MemSpace
    <3>6. MemOK(p)
      BY <3>1, <3>3, <3>5, FreeRxNodeOK
    <3>7. ASSUME NEW H \in [Hands -> Nodes \cup {None}], NEW I \in [Hands -> Nodes \cup {None}],
                 Balanced(ListsOf(m), H), H[TheMac] = n, I[TheMac] = None,
                 \A k \in Hands \ {TheMac} : I[k] = H[k]
          PROVE  Balanced(ListsOf(p), I)
      <4>1. Balanced(ListsOf(w), H)
        BY <3>5, <3>7
      <4> QED
        BY <1>1, <3>1, <3>3, <3>5, <3>7, <4>1, FreeRxNodeKeeps
    <3> QED
      BY <3>6, <3>7
  <2> QED
    BY <2>1, <2>2
<1>3. ProcessRxNone(m, c) = [p EXCEPT !.rxNode = None]
  BY DEF ProcessRxNone
<1> HIDE DEF p
<1>4. /\ MemOK(ProcessRxNone(m, c)) /\ ProcessRxNone(m, c).rxNode = None
      /\ ListsOf(ProcessRxNone(m, c)) = ListsOf(p)
  BY <1>2, <1>3, MemRxNode
<1> QED
  BY <1>2, <1>4

LEMMA UpdateRxPayloadBufferFacts ==
  ASSUME NEW m, MemOK(m), NEW c \in RxConns
  PROVE  LET p == UpdateRxPayloadBuffer(m, c)
         IN  MemOK(p) /\ p.rxNode = m.rxNode /\ p.queue = m.queue /\ ListsOf(p) = ListsOf(m)
<1> DEFINE n == m.rxNode
           at == Place(m.ring[c], MaxFrameSize)
           r == AllocateSpace(m.ring[c], MaxFrameSize)
           b == IF at = NoSpace THEN NoBlock ELSE [at |-> at, bytes |-> MaxFrameSize]
           p == UpdateRxPayloadBuffer(m, c)
<1>1. CASE n = None
  BY <1>1 DEF UpdateRxPayloadBuffer
<1>2. CASE n # None
  <2>1. n \in RxNodes /\ n \in Nodes /\ c \in Conns
    BY <1>2, NameFacts DEF MemOK, MemStates, Nodes
  <2>2. MaxFrameSize \in 0 .. MaxFrameSize /\ m.ring[c] \in Rings /\ NoBlock \in Blocks
    BY <2>1, BytesFacts, BlockFacts
  <2>3. r \in Rings /\ b \in Blocks
    BY <2>2, PlaceFacts
  <2>4. p = [m EXCEPT !.ring[c] = r, !.block[n] = b]
    BY <1>2 DEF UpdateRxPayloadBuffer
  <2>5. Respaces(m, c, r, n, b, p)
    BY <2>1, <2>3, <2>4 DEF Respaces
  <2> HIDE DEF p, r, b, n
  <2>6. MemOK(p) /\ p.rxNode = m.rxNode /\ p.queue = m.queue /\ ListsOf(p) = ListsOf(m)
    BY <2>5, MemSpace
  <2> QED
    BY <2>6 DEF p
<1> QED
  BY <1>1, <1>2

\* The node of the slot joins the queue.
LEMMA QueuedFacts ==
  ASSUME NEW m, MemOK(m), NEW c \in RxConns, m.rxNode # None, Len(m.queue[c]) < QueueSize
  PROVE  LET p == [m EXCEPT !.queue[c] = Append(@, m.rxNode)]
         IN  MemOK(p) /\ MacTurns(m, m.rxNode, p, None)
<1> DEFINE n == m.rxNode
           q == Append(m.queue[c], n)
           p == [m EXCEPT !.queue[c] = Append(@, n)]
<1>1. /\ n \in RxNodes /\ c \in Conns /\ c \notin TxConns /\ m.ring[c] \in Rings
      /\ m \in MemStates /\ m.queue[c] \in Seq(RxNodes)
  BY NameFacts, MemoryAssumption, BlockFacts DEF MemOK, MemStates
<1>2. q \in Seq(RxNodes) /\ Len(q) <= QueueSize
  BY <1>1, BytesFacts
<1>3. p = [m EXCEPT !.queue[c] = q, !.ring[c] = m.ring[c]]
  BY <1>1 DEF MemStates
<1>4. Requeues(m, c, q, m.ring[c], p)
  BY <1>1, <1>2, <1>3 DEF Requeues
<1> HIDE DEF p, q
<1>5. /\ MemOK(p) /\ p \in MemStates /\ p.freeTx = m.freeTx /\ p.freeRx = m.freeRx
      /\ p.queue[c] = q /\ \A e \in Conns \ {c} : p.queue[e] = m.queue[e]
  BY <1>4, MemQueue DEF MemOK
<1> DEFINE L == ListsOf(m)
           M == ListsOf(p)
<1>6. /\ L \in [Lists -> Seq(Nodes)] /\ M \in [Lists -> Seq(Nodes)] /\ TheMac \in Hands
      /\ Queue(c) \in Lists /\ M[Queue(c)] = Append(L[Queue(c)], n)
  BY <1>1, <1>5, ListsFacts, NameFacts DEF q
<1>7. \A k \in Lists \ {Queue(c)} : M[k] = L[k]
  <2>1. /\ {Queue(c)} \in SUBSET Lists
        /\ \A e \in Conns : Queue(e) \notin {Queue(c)} => p.queue[e] = m.queue[e]
    BY <1>5, <1>6, NameFacts
  <2> QED
    BY <1>1, <1>5, <2>1, OtherLists
<1> HIDE DEF L, M
<1>8. ASSUME NEW H \in [Hands -> Nodes \cup {None}], NEW I \in [Hands -> Nodes \cup {None}],
             Balanced(L, H), H[TheMac] = n, I[TheMac] = None,
             \A k \in Hands \ {TheMac} : I[k] = H[k]
      PROVE  Balanced(M, I)
  <2>1. Ledger(L, H) /\ Ledger(M, I)
    BY <1>6 DEF Ledger
  <2>2. Puts(L, H, M, I, Queue(c), TheMac)
    BY <1>6, <1>7, <1>8 DEF Puts
  <2> QED
    BY <1>8, <2>1, <2>2, Put
<1>9. MacTurns(m, n, p, None)
  BY <1>8 DEF MacTurns, L, M
<1> QED
  BY <1>5, <1>9 DEF p

LEMMA ProcessRxDataFacts ==
  ASSUME NEW m, MemOK(m), NEW c \in RxConns, NEW duplicate
  PROVE  /\ MemOK(ProcessRxData(m, c, duplicate))
         /\ MacTurns(m, m.rxNode, ProcessRxData(m, c, duplicate), None)
<1> DEFINE got == UpdateRxPayloadBuffer(m, c)
           n == got.rxNode
           lost == duplicate \/ got.block[n] = NoBlock \/ Len(got.queue[c]) >= QueueSize
           p == ProcessRxData(m, c, duplicate)
<1>1. MemOK(got) /\ n = m.rxNode /\ ListsOf(got) = ListsOf(m) /\ c \in Conns
  BY UpdateRxPayloadBufferFacts, NameFacts
<1>2. p = CASE n = None -> got
            [] n # None /\ lost -> ProcessRxNone(got, c)
            [] OTHER -> [got EXCEPT !.queue[c] = Append(@, got.rxNode)]
  BY DEF ProcessRxData
<1>3. got.queue[c] \in Seq(RxNodes) /\ QueueSize \in Nat
  BY <1>1, BytesFacts DEF MemOK
<1> HIDE DEF p, got
<1>4. ASSUME NEW r, MemOK(r), MacTurns(got, got.rxNode, r, None)
      PROVE  MacTurns(m, m.rxNode, r, None)
  BY <1>1, <1>4 DEF MacTurns
<1>5. CASE n = None
  <2>1. p = got
    BY <1>2, <1>5
  <2>2. ASSUME NEW H \in [Hands -> Nodes \cup {None}], NEW I \in [Hands -> Nodes \cup {None}],
               H[TheMac] = n, I[TheMac] = None, \A k \in Hands \ {TheMac} : I[k] = H[k]
        PROVE  I = H
    BY <1>5, <2>2
  <2>3. MacTurns(m, m.rxNode, p, None)
    BY <1>1, <2>1, <2>2 DEF MacTurns
  <2> QED
    BY <1>1, <2>1, <2>3 DEF p
<1>6. CASE n # None /\ lost
  <2>1. p = ProcessRxNone(got, c)
    BY <1>2, <1>6
  <2> HIDE DEF lost
  <2>2. MemOK(p) /\ MacTurns(got, got.rxNode, p, None)
    BY <1>1, <2>1, ProcessRxNoneFacts
  <2> QED
    BY <1>4, <2>2 DEF p
<1>7. CASE n # None /\ ~lost
  <2>1. p = [got EXCEPT !.queue[c] = Append(@, got.rxNode)]
    BY <1>2, <1>7
  <2>2. Len(got.queue[c]) < QueueSize
    BY <1>3, <1>7
  <2> HIDE DEF lost
  <2>3. MemOK(p) /\ MacTurns(got, got.rxNode, p, None)
    BY <1>1, <1>7, <2>1, <2>2, QueuedFacts
  <2> QED
    BY <1>4, <2>3 DEF p
<1> QED
  BY <1>5, <1>6, <1>7

LEMMA PrepareRxFacts ==
  ASSUME NEW m, MemOK(m)
  PROVE  MemOK(PrepareRx(m)) /\ MacTurns(m, None, PrepareRx(m), PrepareRx(m).rxNode)
<1> DEFINE n == Head(m.freeRx)
           t == Tail(m.freeRx)
           p == PrepareRx(m)
<1>1. m \in MemStates /\ m.freeRx \in Seq(RxNodes) /\ TheMac \in Hands
  BY NameFacts DEF MemOK, MemStates
<1>2. CASE m.freeRx = <<>>
  <2>1. p = [m EXCEPT !.rxNode = None]
    BY <1>2 DEF PrepareRx
  <2> HIDE DEF p
  <2>2. MemOK(p) /\ p.rxNode = None /\ ListsOf(p) = ListsOf(m)
    BY <2>1, MemRxNode
  <2>3. ASSUME NEW H \in [Hands -> Nodes \cup {None}], NEW I \in [Hands -> Nodes \cup {None}],
               H[TheMac] = None, I[TheMac] = None, \A k \in Hands \ {TheMac} : I[k] = H[k]
        PROVE  I = H
    BY <2>3
  <2>4. MacTurns(m, None, p, p.rxNode)
    BY <2>2, <2>3 DEF MacTurns
  <2> QED
    BY <2>2, <2>4 DEF p
<1>3. CASE m.freeRx # <<>>
  <2>1. n \in RxNodes /\ t \in Seq(RxNodes)
    BY <1>1, <1>3, TailFacts
  <2>2. p = [m EXCEPT !.rxNode = n, !.freeRx = t]
    BY <1>3 DEF PrepareRx
  <2> HIDE DEF p, t
  <2>3. /\ p \in MemStates /\ p.rxNode = n /\ p.freeRx = t
        /\ p.freeTx = m.freeTx /\ p.queue = m.queue
    BY <1>1, <2>1, <2>2 DEF MemStates
  <2>4. MemOK(p)
    BY <2>3 DEF MemOK
  <2> DEFINE L == ListsOf(m)
             M == ListsOf(p)
  <2>5. /\ L \in [Lists -> Seq(Nodes)] /\ M \in [Lists -> Seq(Nodes)]
        /\ FreeRx \in Lists /\ L[FreeRx] = m.freeRx /\ M[FreeRx] = t
    BY <1>1, <2>3, ListsFacts, NameFacts
  <2>6. \A k \in Lists \ {FreeRx} : M[k] = L[k]
    <3>1. {FreeRx} \in SUBSET Lists
      BY <2>5
    <3> QED
      BY <1>1, <2>3, <3>1, OtherLists
  <2> HIDE DEF L, M
  <2>7. ASSUME NEW H \in [Hands -> Nodes \cup {None}], NEW I \in [Hands -> Nodes \cup {None}],
               Balanced(L, H), H[TheMac] = None, I[TheMac] = n,
               \A k \in Hands \ {TheMac} : I[k] = H[k]
        PROVE  Balanced(M, I)
    <3>1. Ledger(L, H) /\ Ledger(M, I)
      BY <2>5 DEF Ledger
    <3>2. Takes(L, H, M, I, FreeRx, TheMac)
      BY <1>1, <1>3, <2>5, <2>6, <2>7 DEF Takes, t
    <3> QED
      BY <2>7, <3>1, <3>2, Take
  <2>8. MacTurns(m, None, p, p.rxNode)
    BY <2>3, <2>7 DEF MacTurns, L, M
  <2> QED
    BY <2>4, <2>8 DEF p
<1> QED
  BY <1>2, <1>3

\* Whatever a slot did, the MAC has let go of its node, to the queue or to the
\* pool.
LEMMA ProcessFacts ==
  ASSUME NEW m, MemOK(m), NEW c \in Conns, NEW p \in Process(m, c)
  PROVE  MemOK(p) /\ ((c \in TxConns => m.rxNode = None) => MacTurns(m, m.rxNode, p, None))
<1>1. CASE c \in RxConns
  <2>1. p \in {ProcessRxNone(m, c), ProcessRxData(m, c, TRUE), ProcessRxData(m, c, FALSE)}
    BY <1>1 DEF Process
  <2> QED
    BY <1>1, <2>1, ProcessRxNoneFacts, ProcessRxDataFacts
<1>2. CASE c \notin RxConns
  <2>1. p \in {m, SendDone(m, c)} /\ c \in TxConns
    BY <1>2 DEF Process, Conns
  <2>2. MemOK(p)
    BY <2>1, SendDoneFacts
  <2>3. ASSUME m.rxNode = None,
               NEW H \in [Hands -> Nodes \cup {None}], NEW I \in [Hands -> Nodes \cup {None}],
               Balanced(ListsOf(m), H), H[TheMac] = m.rxNode, I[TheMac] = None,
               \A k \in Hands \ {TheMac} : I[k] = H[k]
        PROVE  Balanced(ListsOf(p), I)
    <3>1. I = H
      BY <2>3
    <3> QED
      BY <2>1, <2>3, <3>1, SendDoneFacts
  <2> QED
    BY <2>1, <2>2, <2>3 DEF MacTurns
<1> QED
  BY <1>1, <1>2

\* The next slot is prepared with a node of the pool, or none.
LEMMA PrepareFacts ==
  ASSUME NEW m, MemOK(m), NEW c \in Conns, NEW p \in Prepare(m, c), cfg.ackFrames \in BOOLEAN
  PROVE  /\ MemOK(p)
         /\ cfg.ackFrames => MacTurns(m, None, p, p.rxNode)
         /\ cfg.ackFrames /\ c \in TxConns => p.rxNode = None
<1>1. CASE c \in RxConns
  <2>1. p = PrepareRx(m) /\ c \notin TxConns
    BY <1>1, MemoryAssumption DEF Prepare
  <2> QED
    BY <2>1, PrepareRxFacts
<1>2. CASE c \notin RxConns
  <2>1. c \in TxConns /\ m.queue[c] \in Seq(TxNodes)
    BY <1>2 DEF Conns, MemOK
  <2>2. PICK k \in 0 .. Len(m.queue[c]) : p = PrepareTx(m, c, k)
    BY <1>2 DEF Prepare
  <2>3. k \in Nat
    BY <2>1
  <2>4. MemOK(p) /\ (cfg.ackFrames => p.rxNode = None)
    BY <2>1, <2>2, <2>3, PrepareTxFacts
  <2>5. ASSUME cfg.ackFrames,
               NEW H \in [Hands -> Nodes \cup {None}], NEW I \in [Hands -> Nodes \cup {None}],
               Balanced(ListsOf(m), H), H[TheMac] = None, I[TheMac] = None,
               \A j \in Hands \ {TheMac} : I[j] = H[j]
        PROVE  Balanced(ListsOf(p), I)
    <3>1. I = H
      BY <2>5
    <3> QED
      BY <2>1, <2>2, <2>3, <2>5, <3>1, PrepareTxFacts
  <2> QED
    BY <2>4, <2>5 DEF MacTurns
<1> QED
  BY <1>1, <1>2

-----------------------------------------------------------------------------
(* The inductive invariant *)

\* rx_node counts while the MAC is connected; a disconnected MAC forgets it.
MacNode == IF connected THEN mem.rxNode ELSE None

TheHands == HandsOf(MacNode, app.node, txNode)

\* The slot is one of a connection the node has; a slot to send in holds no
\* node to receive into; the place for the slot the application asks for is
\* free.
SlotInv ==
  /\ slot.onAir => connected
  /\ connected => slot.conn \in Conns
  /\ cfg.ackFrames /\ connected /\ slot.conn \in TxConns => mem.rxNode = None
  /\ app.at = "allocating" => txNode[app.conn] = None

MemoryInv ==
  /\ TypeOK
  /\ SlotInv
  /\ cfg.ackFrames => Balanced(ListsOf(mem), TheHands)

LEMMA TypeFacts ==
  TypeOK <=> /\ cfg \in Settings /\ MemOK(mem)
             /\ slot \in [conn : Conns \cup {None}, onAir : BOOLEAN]
             /\ connected \in BOOLEAN /\ request \in BOOLEAN
             /\ app \in AppStates
             /\ txNode \in [TxConns -> TxNodes \cup {None}]
BY DEF TypeOK, MemOK

LEMMA TypeFactsNext ==
  TypeOK' <=> /\ cfg' \in Settings /\ MemOK(mem')
              /\ slot' \in [conn : Conns \cup {None}, onAir : BOOLEAN]
              /\ connected' \in BOOLEAN /\ request' \in BOOLEAN
              /\ app' \in AppStates
              /\ txNode' \in [TxConns -> TxNodes \cup {None}]
BY DEF TypeOK, MemOK

LEMMA AppFacts ==
  ASSUME NEW a \in AppStates
  PROVE  /\ a.node \in Nodes \cup {None}
         /\ a = Idle => a.node = None /\ a.at = "idle"
         /\ a.at = "allocating" =>
              /\ a.conn \in TxConns /\ a.node \in TxNodes
              /\ a.data \in Blocks \cup [at : {NoSpace}, bytes : 0 .. MaxFrameSize]
         /\ a.at \in {"dequeued", "freeing", "freed"} => a.conn \in RxConns /\ a.node \in RxNodes
         /\ a.at \in {"dequeued", "freeing", "freed"} =>
              \A at \in {"dequeued", "freeing", "freed"}, data \in {None, "head", "tail", "none"} :
                [a EXCEPT !.at = at, !.data = data] \in AppStates
<1>1. CASE a = Idle
  BY <1>1 DEF Idle
<1>2. CASE a \in [at : {"allocating"}, conn : TxConns, node : TxNodes,
                  data : Blocks \cup [at : {NoSpace}, bytes : 0 .. MaxFrameSize]]
  <2>1. a.at = "allocating" /\ a.node \in TxNodes /\ a # Idle
    BY <1>2 DEF Idle
  <2> QED
    BY <1>2, <2>1 DEF Nodes
<1>3. CASE a \in [at : {"dequeued", "freeing", "freed"}, conn : RxConns, node : RxNodes,
                  data : {None, "head", "tail", "none"}]
  <2>1. a.at \in {"dequeued", "freeing", "freed"} /\ a.node \in RxNodes /\ a # Idle
    BY <1>3 DEF Idle
  <2>2. \A at \in {"dequeued", "freeing", "freed"}, data \in {None, "head", "tail", "none"} :
          [a EXCEPT !.at = at, !.data = data]
            \in [at : {"dequeued", "freeing", "freed"}, conn : RxConns, node : RxNodes,
                 data : {None, "head", "tail", "none"}]
    BY <1>3
  <2> QED
    BY <1>3, <2>1, <2>2 DEF Nodes, AppStates
<1> QED
  BY <1>1, <1>2, <1>3 DEF AppStates

\* The hands before and after a step between states of the right type, which
\* leaves all hands but those of S alone.
LEMMA StepHands ==
  ASSUME TypeOK, TypeOK', NEW S \in SUBSET Hands,
         TheMac \notin S => MacNode' = MacNode, TheApp \notin S => app'.node = app.node,
         \A c \in TxConns : Held(c) \notin S => txNode'[c] = txNode[c]
  PROVE  /\ TheHands \in [Hands -> Nodes \cup {None}] /\ TheHands' \in [Hands -> Nodes \cup {None}]
         /\ \A k \in Hands \ S : TheHands'[k] = TheHands[k]
         /\ TheHands[TheMac] = MacNode /\ TheHands'[TheMac] = MacNode'
         /\ TheHands[TheApp] = app.node /\ TheHands'[TheApp] = app'.node
         /\ \A c \in TxConns : TheHands[Held(c)] = txNode[c] /\ TheHands'[Held(c)] = txNode'[c]
<1>1. TxNodes \cup {None} \subseteq Nodes \cup {None} /\ RxNodes \subseteq Nodes
  BY DEF Nodes
<1>2. /\ mem.rxNode \in RxNodes \cup {None} /\ mem'.rxNode \in RxNodes \cup {None}
      /\ app \in AppStates /\ app' \in AppStates
  BY DEF TypeOK, MemStates
<1>3. /\ MacNode \in Nodes \cup {None} /\ MacNode' \in Nodes \cup {None}
      /\ app.node \in Nodes \cup {None} /\ app'.node \in Nodes \cup {None}
  BY <1>1, <1>2, AppFacts DEF MacNode
<1>4. txNode \in [TxConns -> Nodes \cup {None}] /\ txNode' \in [TxConns -> Nodes \cup {None}]
  BY <1>1 DEF TypeOK
<1>5. /\ TheHands = HandsOf(MacNode, app.node, txNode)
      /\ TheHands' = HandsOf(MacNode', app'.node, txNode')
  BY DEF TheHands
<1>6. Handable(MacNode, app.node, txNode) /\ Handable(MacNode', app'.node, txNode')
  BY <1>3, <1>4 DEF Handable
<1>7. /\ TheHands \in [Hands -> Nodes \cup {None}]
      /\ TheHands[TheMac] = MacNode /\ TheHands[TheApp] = app.node
      /\ \A c \in TxConns : TheHands[Held(c)] = txNode[c]
  BY <1>5, <1>6, HandsFacts
<1>8. /\ TheHands' \in [Hands -> Nodes \cup {None}]
      /\ TheHands'[TheMac] = MacNode' /\ TheHands'[TheApp] = app'.node
      /\ \A c \in TxConns : TheHands'[Held(c)] = txNode'[c]
  BY <1>5, <1>6, HandsFacts
<1>9. ASSUME NEW k \in Hands, k \notin S PROVE TheHands'[k] = TheHands[k]
  <2>1. CASE k = TheMac
    BY <1>7, <1>8, <1>9, <2>1
  <2>2. CASE k = TheApp
    BY <1>7, <1>8, <1>9, <2>2
  <2>3. CASE k # TheMac /\ k # TheApp
    <3>1. k[2] \in TxConns /\ k = Held(k[2])
      BY <2>3, NameFacts
    <3> QED
      BY <1>7, <1>8, <1>9, <3>1
  <2> QED
    BY <2>1, <2>2, <2>3
<1> QED
  BY <1>7, <1>8, <1>9

-----------------------------------------------------------------------------
(* The steps of the MAC interrupt *)

LEMMA FrameOutcomeKeeps ==
  ASSUME MemoryInv, FrameOutcome
  PROVE  MemoryInv'
<1>1. PICK c \in Conns, m \in Process(mem, slot.conn) :
        mem' \in Prepare(m, c) /\ slot' = [conn |-> c, onAir |-> FALSE]
  BY DEF FrameOutcome
<1>2. /\ slot.onAir /\ connected /\ slot.conn \in Conns /\ cfg.ackFrames \in BOOLEAN
      /\ UNCHANGED <<cfg, connected, request, app, txNode>>
  BY MemoryAssumption DEF FrameOutcome, MemoryInv, SlotInv, TypeOK, SettingsType
<1>3. MemOK(mem) /\ TypeOK
  BY TypeFacts DEF MemoryInv
<1>4. /\ MemOK(m)
      /\ ((slot.conn \in TxConns => mem.rxNode = None) => MacTurns(mem, mem.rxNode, m, None))
  BY <1>1, <1>2, <1>3, ProcessFacts
<1>5. /\ MemOK(mem')
      /\ cfg.ackFrames => MacTurns(m, None, mem', mem'.rxNode)
      /\ cfg.ackFrames /\ c \in TxConns => mem'.rxNode = None
  BY <1>1, <1>2, <1>4, PrepareFacts
<1>6. TypeOK'
  <2>1. slot' \in [conn : Conns \cup {None}, onAir : BOOLEAN]
    BY <1>1
  <2> QED
    BY <1>2, <1>3, <1>5, <2>1, TypeFacts, TypeFactsNext
<1>7. SlotInv'
  BY <1>1, <1>2, <1>5 DEF MemoryInv, SlotInv
<1>8. ASSUME cfg'.ackFrames PROVE Balanced(ListsOf(mem'), TheHands')
  <2> DEFINE G == [TheHands EXCEPT ![TheMac] = None]
  <2>1. cfg.ackFrames /\ Balanced(ListsOf(mem), TheHands) /\ (slot.conn \in TxConns => mem.rxNode = None)
    BY <1>2, <1>8 DEF MemoryInv, SlotInv
  <2>2. TheMac \in Hands /\ {TheMac} \in SUBSET Hands
    BY NameFacts
  <2>3. /\ TheHands \in [Hands -> Nodes \cup {None}] /\ TheHands' \in [Hands -> Nodes \cup {None}]
        /\ \A k \in Hands \ {TheMac} : TheHands'[k] = TheHands[k]
        /\ TheHands[TheMac] = MacNode /\ TheHands'[TheMac] = MacNode'
    BY <1>2, <1>3, <1>6, <2>2, StepHands
  <2>4. MacNode = mem.rxNode /\ MacNode' = mem'.rxNode
    BY <1>2 DEF MacNode
  <2>5. /\ G \in [Hands -> Nodes \cup {None}] /\ G[TheMac] = None
        /\ \A k \in Hands \ {TheMac} : G[k] = TheHands[k] /\ TheHands'[k] = G[k]
    BY <2>2, <2>3
  <2> HIDE DEF G
  <2>6. Balanced(ListsOf(m), G)
    <3>1. MacTurns(mem, mem.rxNode, m, None)
      BY <1>4, <2>1
    <3> QED
      BY <2>1, <2>3, <2>4, <2>5, <3>1 DEF MacTurns
  <2>7. MacTurns(m, None, mem', mem'.rxNode)
    BY <1>5, <2>1
  <2> QED
    BY <2>3, <2>4, <2>5, <2>6, <2>7 DEF MacTurns
<1> QED
  BY <1>6, <1>7, <1>8 DEF MemoryInv

LEMMA ConfigCompleteKeeps ==
  ASSUME MemoryInv, ConfigComplete
  PROVE  MemoryInv'
<1>1. MemOK(mem) /\ TypeOK /\ connected /\ ~slot.onAir /\ UNCHANGED <<cfg, app, txNode>>
  BY TypeFacts DEF MemoryInv, ConfigComplete
<1>2. mem.rxNode \in RxNodes \cup {None} /\ TheMac \in Hands /\ {TheMac} \in SUBSET Hands
  BY <1>1, NameFacts DEF MemOK, MemStates
<1>3. CASE request
  <2>1. /\ mem' = FreeRxNode(mem, mem.rxNode) /\ connected' = FALSE /\ request' = FALSE
        /\ slot' = [conn |-> None, onAir |-> FALSE]
    BY <1>3 DEF ConfigComplete, ProcessDisconnectRequest
  <2>2. MemOK(mem')
    BY <1>1, <1>2, <2>1, FreeRxNodeOK
  <2>3. TypeOK'
    <3>1. slot' \in [conn : Conns \cup {None}, onAir : BOOLEAN]
      BY <2>1
    <3> QED
      BY <1>1, <2>1, <2>2, <3>1, TypeFacts, TypeFactsNext
  <2>4. SlotInv'
    BY <1>1, <2>1 DEF MemoryInv, SlotInv
  <2>5. ASSUME cfg'.ackFrames PROVE Balanced(ListsOf(mem'), TheHands')
    <3>1. Balanced(ListsOf(mem), TheHands)
      BY <1>1, <2>5 DEF MemoryInv
    <3>2. /\ TheHands \in [Hands -> Nodes \cup {None}] /\ TheHands' \in [Hands -> Nodes \cup {None}]
          /\ \A k \in Hands \ {TheMac} : TheHands'[k] = TheHands[k]
          /\ TheHands[TheMac] = MacNode /\ TheHands'[TheMac] = MacNode'
      BY <1>1, <1>2, <2>3, StepHands
    <3>3. MacNode = mem.rxNode /\ MacNode' = None
      BY <1>1, <2>1 DEF MacNode
    <3>4. Balanced(ListsOf(FreeRxNode(mem, mem.rxNode)), TheHands')
      BY <1>1, <1>2, <3>1, <3>2, <3>3, FreeRxNodeKeeps
    <3> QED
      BY <2>1, <3>4
  <2> QED
    BY <2>3, <2>4, <2>5 DEF MemoryInv
<1>4. CASE ~request
  <2>1. slot' = [slot EXCEPT !.onAir = TRUE] /\ UNCHANGED <<mem, connected, request>>
    BY <1>4 DEF ConfigComplete
  <2>2. /\ slot \in [conn : Conns \cup {None}, onAir : BOOLEAN]
        /\ slot' \in [conn : Conns \cup {None}, onAir : BOOLEAN] /\ slot'.conn = slot.conn
    BY <1>1, <2>1 DEF TypeOK
  <2>3. TypeOK'
    BY <1>1, <2>1, <2>2, TypeFacts, TypeFactsNext
  <2>4. SlotInv'
    BY <1>1, <2>1, <2>2 DEF MemoryInv, SlotInv
  <2>5. TheHands' = TheHands
    BY <1>1, <2>1 DEF TheHands, MacNode
  <2> QED
    BY <1>1, <2>1, <2>3, <2>4, <2>5 DEF MemoryInv
<1> QED
  BY <1>3, <1>4

-----------------------------------------------------------------------------
(* The steps of the application *)

LEMMA ConnectKeeps ==
  ASSUME MemoryInv, Connect
  PROVE  MemoryInv'
<1>1. PICK c \in Conns : mem' \in Prepare(mem, c) /\ slot' = [conn |-> c, onAir |-> FALSE]
  BY DEF Connect
<1>2. /\ MemOK(mem) /\ TypeOK /\ cfg.ackFrames \in BOOLEAN /\ app = Idle /\ ~connected /\ connected'
      /\ UNCHANGED <<cfg, request, app, txNode>>
  BY MemoryAssumption, TypeFacts DEF Connect, MemoryInv, TypeOK, SettingsType, Ready
<1>3. /\ MemOK(mem')
      /\ cfg.ackFrames => MacTurns(mem, None, mem', mem'.rxNode)
      /\ cfg.ackFrames /\ c \in TxConns => mem'.rxNode = None
  BY <1>1, <1>2, PrepareFacts
<1>4. TypeOK'
  <2>1. slot' \in [conn : Conns \cup {None}, onAir : BOOLEAN] /\ connected' \in BOOLEAN
    BY <1>1 DEF Connect
  <2> QED
    BY <1>2, <1>3, <2>1, TypeFacts, TypeFactsNext
<1>5. SlotInv'
  BY <1>1, <1>2, <1>3 DEF MemoryInv, SlotInv
<1>6. ASSUME cfg'.ackFrames PROVE Balanced(ListsOf(mem'), TheHands')
  <2>1. cfg.ackFrames /\ Balanced(ListsOf(mem), TheHands)
    BY <1>2, <1>6 DEF MemoryInv
  <2>2. TheMac \in Hands /\ {TheMac} \in SUBSET Hands
    BY NameFacts
  <2>3. /\ TheHands \in [Hands -> Nodes \cup {None}] /\ TheHands' \in [Hands -> Nodes \cup {None}]
        /\ \A k \in Hands \ {TheMac} : TheHands'[k] = TheHands[k]
        /\ TheHands[TheMac] = MacNode /\ TheHands'[TheMac] = MacNode'
    BY <1>2, <1>4, <2>2, StepHands
  <2>4. MacNode = None /\ MacNode' = mem'.rxNode
    BY <1>2 DEF MacNode
  <2>5. MacTurns(mem, None, mem', mem'.rxNode)
    BY <1>3, <2>1
  <2> QED
    BY <2>1, <2>3, <2>4, <2>5 DEF MacTurns
<1> QED
  BY <1>4, <1>5, <1>6 DEF MemoryInv

\* Steps that move no node.
LEMMA NodesStay ==
  ASSUME MemoryInv, TypeOK', SlotInv', cfg' = cfg, ListsOf(mem') = ListsOf(mem),
         MacNode' = MacNode, app'.node = app.node, txNode' = txNode
  PROVE  MemoryInv'
<1>1. TheHands' = TheHands
  BY DEF TheHands
<1> QED
  BY <1>1 DEF MemoryInv

LEMMA DisconnectKeeps ==
  ASSUME MemoryInv, Disconnect
  PROVE  MemoryInv'
<1>1. request' = TRUE /\ UNCHANGED <<cfg, mem, slot, connected, app, txNode>>
  BY DEF Disconnect
<1>2. TypeOK'
  BY <1>1, TypeFacts, TypeFactsNext DEF MemoryInv
<1>3. SlotInv'
  BY <1>1 DEF MemoryInv, SlotInv
<1>4. MacNode' = MacNode
  BY <1>1 DEF MacNode
<1> QED
  BY <1>1, <1>2, <1>3, <1>4, NodesStay

LEMMA GetFreeSlotKeeps ==
  ASSUME MemoryInv, NEW c \in TxConns, GetFreeSlot(c)
  PROVE  MemoryInv'
<1> DEFINE n == Head(mem.freeTx)
           t == Tail(mem.freeTx)
<1>1. PICK bytes \in FrameSizes :
        app' = [at |-> "allocating", conn |-> c, node |-> n,
                data |-> [at |-> Place(mem.ring[c], bytes), bytes |-> bytes]]
  BY DEF GetFreeSlot
<1>2. /\ mem' = [mem EXCEPT !.freeTx = t] /\ mem.freeTx # <<>> /\ txNode[c] = None /\ app = Idle
      /\ UNCHANGED <<cfg, slot, connected, request, txNode>>
  BY DEF GetFreeSlot, Ready
<1>3. /\ MemOK(mem) /\ TypeOK /\ mem \in MemStates /\ mem.freeTx \in Seq(TxNodes)
      /\ c \in Conns /\ mem.ring[c] \in Rings /\ app \in AppStates
  BY TypeFacts, NameFacts DEF MemoryInv, MemOK, MemStates
<1>4. n \in TxNodes /\ t \in Seq(TxNodes)
  BY <1>2, <1>3, TailFacts
<1> HIDE DEF t
<1>5. /\ mem' \in MemStates /\ mem'.freeTx = t /\ mem'.freeRx = mem.freeRx
      /\ mem'.queue = mem.queue /\ mem'.rxNode = mem.rxNode
  BY <1>2, <1>3, <1>4 DEF MemStates
<1>6. MemOK(mem')
  BY <1>3, <1>5 DEF MemOK
<1>7. app' \in AppStates
  <2> DEFINE at == Place(mem.ring[c], bytes)
             data == [at |-> at, bytes |-> bytes]
  <2>1. bytes \in 0 .. MaxFrameSize
    BY MemoryAssumption
  <2>2. at = NoSpace \/ data \in Blocks
    BY <1>3, <2>1, PlaceFacts
  <2> HIDE DEF at
  <2>3. data \in Blocks \cup [at : {NoSpace}, bytes : 0 .. MaxFrameSize]
    BY <2>1, <2>2
  <2>4. app' = [at |-> "allocating", conn |-> c, node |-> n, data |-> data]
    BY <1>1 DEF at
  <2> HIDE DEF data, n
  <2> QED
    BY <1>4, <2>3, <2>4 DEF AppStates
<1>8. TypeOK'
  BY <1>2, <1>3, <1>6, <1>7, TypeFacts, TypeFactsNext
<1>9. SlotInv'
  BY <1>1, <1>2, <1>5 DEF MemoryInv, SlotInv
<1>10. ASSUME cfg'.ackFrames PROVE Balanced(ListsOf(mem'), TheHands')
  <2> DEFINE L == ListsOf(mem)
             M == ListsOf(mem')
  <2>1. Balanced(L, TheHands)
    BY <1>2, <1>10 DEF MemoryInv
  <2>2. TheApp \in Hands /\ {TheApp} \in SUBSET Hands /\ TheApp # TheMac
        /\ \A e \in TxConns : Held(e) # TheApp
    BY NameFacts
  <2>3. MacNode' = MacNode
    BY <1>2, <1>5 DEF MacNode
  <2>4. /\ TheHands \in [Hands -> Nodes \cup {None}] /\ TheHands' \in [Hands -> Nodes \cup {None}]
        /\ \A k \in Hands \ {TheApp} : TheHands'[k] = TheHands[k]
        /\ TheHands[TheApp] = app.node /\ TheHands'[TheApp] = app'.node
    BY <1>2, <1>3, <1>8, <2>2, <2>3, StepHands
  <2>5. app.node = None /\ app'.node = n
    BY <1>1, <1>2, <1>3, AppFacts
  <2>6. /\ L \in [Lists -> Seq(Nodes)] /\ M \in [Lists -> Seq(Nodes)]
        /\ FreeTx \in Lists /\ L[FreeTx] = mem.freeTx /\ M[FreeTx] = t
    BY <1>3, <1>5, ListsFacts, NameFacts
  <2>7. \A k \in Lists \ {FreeTx} : M[k] = L[k]
    <3>1. {FreeTx} \in SUBSET Lists
      BY <2>6
    <3> QED
      BY <1>3, <1>5, <3>1, OtherLists
  <2> HIDE DEF L, M
  <2>8. Ledger(L, TheHands) /\ Ledger(M, TheHands')
    BY <2>4, <2>6 DEF Ledger
  <2>9. Takes(L, TheHands, M, TheHands', FreeTx, TheApp)
    BY <1>2, <2>2, <2>4, <2>5, <2>6, <2>7 DEF Takes, t
  <2>10. Balanced(M, TheHands')
    BY <2>1, <2>8, <2>9, Take
  <2> QED
    BY <2>10 DEF M
<1> QED
  BY <1>8, <1>9, <1>10 DEF MemoryInv

LEMMA NoPlaceKeeps ==
  ASSUME MemoryInv, Allocated, app.data.at = NoSpace
  PROVE  MemoryInv'
<1>1. /\ app.at = "allocating" /\ mem' = FreeTxNode(mem, app.node) /\ app' = Idle
      /\ UNCHANGED <<cfg, slot, connected, request, txNode>>
  BY DEF Allocated
<1>2. MemOK(mem) /\ TypeOK /\ app \in AppStates /\ Idle \in AppStates
  BY TypeFacts DEF MemoryInv, AppStates
<1>3. app.node \in TxNodes
  BY <1>1, <1>2, AppFacts
<1>4. MemOK(mem') /\ mem'.rxNode = mem.rxNode
  BY <1>1, <1>2, <1>3, FreeTxNodeOK
<1>5. TypeOK'
  BY <1>1, <1>2, <1>4, TypeFacts, TypeFactsNext
<1>6. app'.node = None /\ app'.at = "idle"
  BY <1>1 DEF Idle
<1>7. SlotInv'
  BY <1>1, <1>4, <1>6 DEF MemoryInv, SlotInv
<1>8. ASSUME cfg'.ackFrames PROVE Balanced(ListsOf(mem'), TheHands')
  <2>1. Balanced(ListsOf(mem), TheHands)
    BY <1>1, <1>8 DEF MemoryInv
  <2>2. TheApp \in Hands /\ {TheApp} \in SUBSET Hands /\ TheApp # TheMac
        /\ \A e \in TxConns : Held(e) # TheApp
    BY NameFacts
  <2>3. MacNode' = MacNode
    BY <1>1, <1>4 DEF MacNode
  <2>4. /\ TheHands \in [Hands -> Nodes \cup {None}] /\ TheHands' \in [Hands -> Nodes \cup {None}]
        /\ \A k \in Hands \ {TheApp} : TheHands'[k] = TheHands[k]
        /\ TheHands[TheApp] = app.node /\ TheHands'[TheApp] = app'.node
    BY <1>1, <1>2, <1>5, <2>2, <2>3, StepHands
  <2>5. Balanced(ListsOf(FreeTxNode(mem, app.node)), TheHands')
    BY <1>2, <1>3, <1>6, <2>1, <2>2, <2>4, FreeTxNodeKeeps
  <2> QED
    BY <1>1, <2>5
<1> QED
  BY <1>5, <1>7, <1>8 DEF MemoryInv

LEMMA PlacedKeeps ==
  ASSUME MemoryInv, Allocated, app.data.at # NoSpace
  PROVE  MemoryInv'
<1> DEFINE c == app.conn
           n == app.node
           b == app.data
           d == mem.ring[c]
           r == [d EXCEPT !.lastHead = b.at, !.head = b.at + b.bytes]
<1>1. /\ app.at = "allocating" /\ app' = Idle
      /\ mem' = [mem EXCEPT !.ring[c].lastHead = b.at, !.ring[c].head = b.at + b.bytes,
                            !.block[n] = b]
      /\ txNode' = [txNode EXCEPT ![c] = n]
      /\ UNCHANGED <<cfg, slot, connected, request>>
  BY DEF Allocated
<1>2. /\ MemOK(mem) /\ TypeOK /\ app \in AppStates /\ Idle \in AppStates /\ mem \in MemStates
      /\ txNode \in [TxConns -> TxNodes \cup {None}]
  BY TypeFacts DEF MemoryInv, AppStates, MemOK
<1>3. c \in TxConns /\ n \in TxNodes /\ b \in Blocks /\ c \in Conns /\ n \in Nodes /\ d \in Rings
  <2>1. c \in TxConns /\ n \in TxNodes /\ b \in Blocks \cup [at : {NoSpace}, bytes : 0 .. MaxFrameSize]
    BY <1>1, <1>2, AppFacts
  <2>2. b \in Blocks
    BY <2>1
  <2>3. c \in Conns /\ n \in Nodes
    BY <2>1, NameFacts DEF Nodes
  <2> QED
    BY <1>2, <2>1, <2>2, <2>3, BlockFacts
<1>4. r \in Rings
  <2>1. b.at \in 0 .. Bytes /\ b.at + b.bytes \in 0 .. Bytes
    BY <1>3, BytesFacts DEF Blocks
  <2> DEFINE e == b.at + b.bytes
  <2> HIDE DEF e, d
  <2>2. [d EXCEPT !.lastHead = b.at, !.head = e] \in Rings
    BY <1>3, <2>1 DEF Rings, e
  <2> QED
    BY <2>2 DEF e
<1>5. mem' = [mem EXCEPT !.ring[c] = r, !.block[n] = b]
  <2> DEFINE e == b.at + b.bytes
  <2> HIDE DEF e, c, b, n
  <2>1. mem' = [mem EXCEPT !.ring[c].lastHead = b.at, !.ring[c].head = e, !.block[n] = b]
    BY <1>1 DEF e
  <2>2. [mem EXCEPT !.ring[c].lastHead = b.at, !.ring[c].head = e]
          = [mem EXCEPT !.ring[c] = [d EXCEPT !.lastHead = b.at, !.head = e]]
    BY <1>2, <1>3 DEF MemStates, Rings
  <2> QED
    BY <1>2, <1>3, <2>1, <2>2 DEF MemStates, e
<1>6. Respaces(mem, c, r, n, b, mem')
  BY <1>3, <1>4, <1>5 DEF Respaces
<1> HIDE DEF r
<1>7. MemOK(mem') /\ mem'.rxNode = mem.rxNode /\ ListsOf(mem') = ListsOf(mem)
  BY <1>2, <1>6, MemSpace
<1>8. TypeOK'
  <2>1. txNode' \in [TxConns -> TxNodes \cup {None}]
    BY <1>1, <1>2, <1>3
  <2> QED
    BY <1>1, <1>2, <1>7, <2>1, TypeFacts, TypeFactsNext
<1>9. app'.node = None /\ app'.at = "idle"
  BY <1>1 DEF Idle
<1>10. SlotInv'
  BY <1>1, <1>7, <1>9 DEF MemoryInv, SlotInv
<1>11. ASSUME cfg'.ackFrames PROVE Balanced(ListsOf(mem'), TheHands')
  <2> DEFINE S == {TheApp, Held(c)}
  <2>1. Balanced(ListsOf(mem), TheHands)
    BY <1>1, <1>11 DEF MemoryInv
  <2>2. /\ TheApp \in Hands /\ Held(c) \in Hands /\ S \in SUBSET Hands /\ TheMac \notin S
        /\ TheApp # Held(c) /\ \A e \in TxConns : Held(e) \notin S => e # c
    BY <1>3, NameFacts
  <2>3. MacNode' = MacNode /\ \A e \in TxConns : Held(e) \notin S => txNode'[e] = txNode[e]
    BY <1>1, <1>2, <1>7, <2>2 DEF MacNode
  <2>4. txNode[c] = None /\ txNode'[c] = n
    BY <1>1, <1>2, <1>3 DEF MemoryInv, SlotInv
  <2> HIDE DEF c, n
  <2>5. /\ TheHands \in [Hands -> Nodes \cup {None}] /\ TheHands' \in [Hands -> Nodes \cup {None}]
        /\ \A k \in Hands \ S : TheHands'[k] = TheHands[k]
        /\ TheHands[TheApp] = app.node /\ TheHands'[TheApp] = app'.node
        /\ \A e \in TxConns : TheHands[Held(e)] = txNode[e] /\ TheHands'[Held(e)] = txNode'[e]
    <3> HIDE DEF S
    <3> QED
      BY <1>2, <1>8, <2>2, <2>3, StepHands DEF S
  <2>6. Passes(TheHands, TheHands', TheApp, Held(c))
    BY <1>3, <1>9, <2>2, <2>4, <2>5 DEF Passes, n
  <2>7. Ledger(ListsOf(mem), TheHands)
    BY <1>2, <2>5, ListsFacts DEF Ledger
  <2>8. Balanced(ListsOf(mem), TheHands')
    BY <2>1, <2>6, <2>7, Pass
  <2> QED
    BY <1>7, <2>8
<1> QED
  BY <1>8, <1>10, <1>11 DEF MemoryInv

LEMMA SendKeeps ==
  ASSUME MemoryInv, NEW c \in TxConns, Send(c)
  PROVE  MemoryInv'
<1> DEFINE n == txNode[c]
           q == Append(mem.queue[c], n)
<1>1. /\ n # None /\ Len(mem.queue[c]) < QueueSize /\ app = Idle
      /\ mem' = [mem EXCEPT !.queue[c] = q]
      /\ txNode' = [txNode EXCEPT ![c] = None]
      /\ UNCHANGED <<cfg, slot, connected, request, app>>
  BY DEF Send, Ready
<1>2. /\ MemOK(mem) /\ TypeOK /\ mem \in MemStates /\ c \in Conns /\ c \notin RxConns
      /\ txNode \in [TxConns -> TxNodes \cup {None}] /\ mem.ring[c] \in Rings
      /\ mem.queue[c] \in Seq(TxNodes)
  <2>1. MemOK(mem) /\ TypeOK
    BY TypeFacts DEF MemoryInv
  <2>2. c \in Conns /\ c \notin RxConns
    BY NameFacts, MemoryAssumption
  <2>3. mem \in MemStates /\ mem.queue[c] \in Seq(TxNodes)
    BY <2>1, <2>2 DEF MemOK
  <2>4. mem.ring[c] \in Rings
    BY <2>2, <2>3 DEF MemStates
  <2> QED
    BY <2>1, <2>2, <2>3, <2>4 DEF TypeOK
<1>3. n \in TxNodes /\ q \in Seq(TxNodes) /\ Len(q) <= QueueSize
  <2>1. n \in TxNodes
    BY <1>1, <1>2
  <2> HIDE DEF n
  <2> QED
    BY <1>1, <1>2, <2>1, BytesFacts
<1> HIDE DEF q
<1>4. mem' = [mem EXCEPT !.queue[c] = q, !.ring[c] = mem.ring[c]]
  BY <1>1, <1>2 DEF MemStates
<1>5. Requeues(mem, c, q, mem.ring[c], mem')
  BY <1>2, <1>3, <1>4 DEF Requeues
<1>6. /\ MemOK(mem') /\ mem'.freeTx = mem.freeTx /\ mem'.freeRx = mem.freeRx
      /\ mem'.rxNode = mem.rxNode
      /\ mem'.queue[c] = q /\ \A e \in Conns \ {c} : mem'.queue[e] = mem.queue[e]
  BY <1>2, <1>5, MemQueue
<1>7. TypeOK'
  <2>1. txNode' \in [TxConns -> TxNodes \cup {None}]
    BY <1>1, <1>2
  <2> QED
    BY <1>1, <1>2, <1>6, <2>1, TypeFacts, TypeFactsNext
<1>8. SlotInv'
  <2>1. app'.at # "allocating"
    BY <1>1 DEF Idle
  <2> QED
    BY <1>1, <1>6, <2>1 DEF MemoryInv, SlotInv
<1>9. ASSUME cfg'.ackFrames PROVE Balanced(ListsOf(mem'), TheHands')
  <2> DEFINE L == ListsOf(mem)
             M == ListsOf(mem')
             h == Held(c)
  <2>1. Balanced(L, TheHands)
    BY <1>1, <1>9 DEF MemoryInv
  <2>2. /\ h \in Hands /\ {h} \in SUBSET Hands /\ h # TheMac /\ h # TheApp
        /\ \A e \in TxConns : Held(e) \notin {h} => e # c
    BY NameFacts
  <2>3. MacNode' = MacNode /\ \A e \in TxConns : Held(e) \notin {h} => txNode'[e] = txNode[e]
    BY <1>1, <1>2, <1>6, <2>2 DEF MacNode
  <2>4. txNode'[c] = None /\ app'.node = app.node
    BY <1>1, <1>2
  <2>5. /\ TheHands \in [Hands -> Nodes \cup {None}] /\ TheHands' \in [Hands -> Nodes \cup {None}]
        /\ \A k \in Hands \ {h} : TheHands'[k] = TheHands[k]
        /\ TheHands[h] = n /\ TheHands'[h] = None
    <3> DEFINE S == {h}
    <3>1. /\ S \in SUBSET Hands /\ TheMac \notin S /\ TheApp \notin S
          /\ \A e \in TxConns : Held(e) \notin S => txNode'[e] = txNode[e]
      BY <2>2, <2>3
    <3> HIDE DEF S
    <3>2. /\ TheHands \in [Hands -> Nodes \cup {None}] /\ TheHands' \in [Hands -> Nodes \cup {None}]
          /\ \A k \in Hands \ S : TheHands'[k] = TheHands[k]
          /\ TheHands[Held(c)] = txNode[c] /\ TheHands'[Held(c)] = txNode'[c]
      BY <1>2, <1>7, <2>3, <2>4, <3>1, StepHands
    <3> QED
      BY <2>4, <3>2 DEF S
  <2>6. mem' \in MemStates
    BY <1>6 DEF MemOK
  <2>7. /\ L \in [Lists -> Seq(Nodes)] /\ M \in [Lists -> Seq(Nodes)]
        /\ Queue(c) \in Lists /\ M[Queue(c)] = Append(L[Queue(c)], n)
    BY <1>2, <1>6, <2>6, ListsFacts, NameFacts DEF q
  <2>8. \A k \in Lists \ {Queue(c)} : M[k] = L[k]
    <3>1. /\ {Queue(c)} \in SUBSET Lists
          /\ \A e \in Conns : Queue(e) \notin {Queue(c)} => mem'.queue[e] = mem.queue[e]
      BY <1>6, <2>7, NameFacts
    <3> QED
      BY <1>2, <1>6, <2>6, <3>1, OtherLists
  <2> HIDE DEF L, M, h
  <2>9. Ledger(L, TheHands) /\ Ledger(M, TheHands')
    BY <2>5, <2>7 DEF Ledger
  <2>10. Puts(L, TheHands, M, TheHands', Queue(c), h)
    BY <1>1, <2>2, <2>5, <2>7, <2>8 DEF Puts
  <2>11. Balanced(M, TheHands')
    BY <2>1, <2>9, <2>10, Put
  <2> QED
    BY <2>11 DEF M
<1> QED
  BY <1>7, <1>8, <1>9 DEF MemoryInv

LEMMA ReadDoneKeeps ==
  ASSUME MemoryInv, NEW c \in RxConns, ReadDone(c)
  PROVE  MemoryInv'
<1> DEFINE n == Head(mem.queue[c])
           t == Tail(mem.queue[c])
<1>1. /\ mem.queue[c] # <<>> /\ app = Idle
      /\ mem' = [mem EXCEPT !.queue[c] = t]
      /\ app' = [at |-> "dequeued", conn |-> c, node |-> n, data |-> None]
      /\ UNCHANGED <<cfg, slot, connected, request, txNode>>
  BY DEF ReadDone, Ready
<1>2. /\ MemOK(mem) /\ TypeOK /\ mem \in MemStates /\ c \in Conns /\ c \notin TxConns
      /\ mem.ring[c] \in Rings /\ mem.queue[c] \in Seq(RxNodes)
      /\ Len(mem.queue[c]) <= QueueSize /\ app \in AppStates
  <2>1. MemOK(mem) /\ TypeOK
    BY TypeFacts DEF MemoryInv
  <2>2. c \in Conns /\ c \notin TxConns
    BY NameFacts, MemoryAssumption
  <2>3. mem \in MemStates /\ mem.queue[c] \in Seq(RxNodes) /\ Len(mem.queue[c]) <= QueueSize
    BY <2>1, <2>2 DEF MemOK
  <2>4. mem.ring[c] \in Rings
    BY <2>2, <2>3 DEF MemStates
  <2> QED
    BY <2>1, <2>2, <2>3, <2>4 DEF TypeOK
<1>3. n \in RxNodes /\ t \in Seq(RxNodes) /\ Len(t) <= QueueSize
  BY <1>1, <1>2, TailFacts, BytesFacts
<1> HIDE DEF t, n
<1>4. mem' = [mem EXCEPT !.queue[c] = t, !.ring[c] = mem.ring[c]]
  BY <1>1, <1>2 DEF MemStates
<1>5. Requeues(mem, c, t, mem.ring[c], mem')
  BY <1>2, <1>3, <1>4 DEF Requeues
<1>6. /\ MemOK(mem') /\ mem'.freeTx = mem.freeTx /\ mem'.freeRx = mem.freeRx
      /\ mem'.rxNode = mem.rxNode
      /\ mem'.queue[c] = t /\ \A e \in Conns \ {c} : mem'.queue[e] = mem.queue[e]
  BY <1>2, <1>5, MemQueue
<1>7. TypeOK'
  <2>1. app' \in AppStates
    BY <1>1, <1>3 DEF AppStates
  <2> QED
    BY <1>1, <1>2, <1>6, <2>1, TypeFacts, TypeFactsNext
<1>8. SlotInv'
  BY <1>1, <1>6 DEF MemoryInv, SlotInv
<1>9. ASSUME cfg'.ackFrames PROVE Balanced(ListsOf(mem'), TheHands')
  <2> DEFINE L == ListsOf(mem)
             M == ListsOf(mem')
  <2>1. Balanced(L, TheHands)
    BY <1>1, <1>9 DEF MemoryInv
  <2>2. /\ TheApp \in Hands /\ {TheApp} \in SUBSET Hands /\ TheApp # TheMac
        /\ \A e \in TxConns : Held(e) # TheApp
    BY NameFacts
  <2>3. MacNode' = MacNode
    BY <1>1, <1>6 DEF MacNode
  <2>4. /\ TheHands \in [Hands -> Nodes \cup {None}] /\ TheHands' \in [Hands -> Nodes \cup {None}]
        /\ \A k \in Hands \ {TheApp} : TheHands'[k] = TheHands[k]
        /\ TheHands[TheApp] = app.node /\ TheHands'[TheApp] = app'.node
    BY <1>1, <1>2, <1>7, <2>2, <2>3, StepHands
  <2>5. app.node = None /\ app'.node = n
    BY <1>1, <1>2, AppFacts
  <2>6. mem' \in MemStates
    BY <1>6 DEF MemOK
  <2>7. /\ L \in [Lists -> Seq(Nodes)] /\ M \in [Lists -> Seq(Nodes)]
        /\ Queue(c) \in Lists /\ L[Queue(c)] = mem.queue[c] /\ M[Queue(c)] = t
    BY <1>2, <1>6, <2>6, ListsFacts, NameFacts
  <2>8. \A k \in Lists \ {Queue(c)} : M[k] = L[k]
    <3>1. /\ {Queue(c)} \in SUBSET Lists
          /\ \A e \in Conns : Queue(e) \notin {Queue(c)} => mem'.queue[e] = mem.queue[e]
      BY <1>6, <2>7, NameFacts
    <3> QED
      BY <1>2, <1>6, <2>6, <3>1, OtherLists
  <2> HIDE DEF L, M
  <2>9. Ledger(L, TheHands) /\ Ledger(M, TheHands')
    BY <2>4, <2>7 DEF Ledger
  <2>10. Takes(L, TheHands, M, TheHands', Queue(c), TheApp)
    BY <1>1, <2>2, <2>4, <2>5, <2>7, <2>8 DEF Takes, t, n
  <2>11. Balanced(M, TheHands')
    BY <2>1, <2>9, <2>10, Take
  <2> QED
    BY <2>11 DEF M
<1> QED
  BY <1>7, <1>8, <1>9 DEF MemoryInv

LEMMA FreeingSpaceKeeps ==
  ASSUME MemoryInv, FreeingSpace
  PROVE  MemoryInv'
<1> DEFINE b == mem.block[app.node]
           f == FreedField(mem.ring[app.conn], b.at, b.bytes)
<1>1. /\ app.at = "dequeued" /\ app' = [app EXCEPT !.at = "freeing", !.data = f]
      /\ UNCHANGED <<cfg, mem, slot, connected, request, txNode>>
  BY DEF FreeingSpace
<1>2. MemOK(mem) /\ TypeOK /\ app \in AppStates
  BY TypeFacts DEF MemoryInv
<1>3. app.conn \in Conns /\ app.node \in Nodes
  BY <1>1, <1>2, AppFacts, NameFacts DEF Nodes
<1>4. f \in {None, "head", "tail", "none"}
  <2>1. b \in Blocks /\ mem.ring[app.conn] \in Rings
    BY <1>2, <1>3, BlockFacts
  <2> QED
    BY <2>1, FreeSpaceFacts
<1> HIDE DEF f
<1>5. app' \in AppStates
  BY <1>1, <1>2, <1>4, AppFacts
<1>6. app'.node = app.node /\ app'.at = "freeing"
  BY <1>1, <1>2 DEF AppStates, Idle
<1>7. TypeOK'
  BY <1>1, <1>2, <1>5, TypeFacts, TypeFactsNext
<1>8. SlotInv'
  BY <1>1, <1>6 DEF MemoryInv, SlotInv
<1>9. MacNode' = MacNode
  BY <1>1 DEF MacNode
<1> QED
  BY <1>1, <1>6, <1>7, <1>8, <1>9, NodesStay

LEMMA FreedSpaceKeeps ==
  ASSUME MemoryInv, FreedSpace
  PROVE  MemoryInv'
<1> DEFINE c == app.conn
           n == app.node
           b == mem.block[n]
           d == mem.ring[c]
<1>1. /\ app.at = "freeing" /\ app' = [app EXCEPT !.at = "freed", !.data = None]
      /\ UNCHANGED <<cfg, slot, connected, request, txNode>>
  BY DEF FreedSpace
<1>2. MemOK(mem) /\ TypeOK /\ app \in AppStates
  BY TypeFacts DEF MemoryInv
<1>3. c \in Conns /\ n \in Nodes
  BY <1>1, <1>2, AppFacts, NameFacts DEF Nodes
<1>4. b \in Blocks /\ d \in Rings /\ NoBlock \in Blocks
  BY <1>2, <1>3, BlockFacts
<1>5. PICK head \in {b.at, d.lastHead} :
        mem' = [mem EXCEPT
                  !.ring[c] = CASE app.data = "head" -> [d EXCEPT !.head = head]
                                [] app.data = "tail" -> [d EXCEPT !.tail = b.at + b.bytes]
                                [] OTHER -> d,
                  !.block[n] = NoBlock]
  BY DEF FreedSpace
<1> DEFINE e == b.at + b.bytes
           r == CASE app.data = "head" -> [d EXCEPT !.head = head]
                  [] app.data = "tail" -> [d EXCEPT !.tail = e]
                  [] OTHER -> d
<1>6. r \in Rings
  <2>1. head \in 0 .. Bytes /\ e \in 0 .. Bytes
    BY <1>4, <1>5, BytesFacts DEF Blocks, Rings
  <2> HIDE DEF e, d
  <2>2. [d EXCEPT !.head = head] \in Rings /\ [d EXCEPT !.tail = e] \in Rings
    BY <1>4, <2>1 DEF Rings
  <2>3. r \in {[d EXCEPT !.head = head], [d EXCEPT !.tail = e], d}
    OBVIOUS
  <2> QED
    BY <1>4, <2>2, <2>3
<1>7. Respaces(mem, c, r, n, NoBlock, mem')
  BY <1>3, <1>4, <1>5, <1>6 DEF Respaces
<1> HIDE DEF r
<1>8. MemOK(mem') /\ mem'.rxNode = mem.rxNode /\ ListsOf(mem') = ListsOf(mem)
  BY <1>2, <1>7, MemSpace
<1>9. app' \in AppStates /\ app'.node = app.node /\ app'.at = "freed"
  <2>1. app' \in AppStates
    BY <1>1, <1>2, AppFacts
  <2> QED
    BY <1>1, <1>2, <2>1 DEF AppStates, Idle
<1>10. TypeOK'
  BY <1>1, <1>2, <1>8, <1>9, TypeFacts, TypeFactsNext
<1>11. SlotInv'
  BY <1>1, <1>8, <1>9 DEF MemoryInv, SlotInv
<1>12. MacNode' = MacNode
  BY <1>1, <1>8 DEF MacNode
<1> QED
  BY <1>1, <1>8, <1>9, <1>10, <1>11, <1>12, NodesStay

LEMMA FreedNodeKeeps ==
  ASSUME MemoryInv, FreedNode
  PROVE  MemoryInv'
<1>1. /\ app.at = "freed" /\ mem' = FreeRxNode(mem, app.node) /\ app' = Idle
      /\ UNCHANGED <<cfg, slot, connected, request, txNode>>
  BY DEF FreedNode
<1>2. MemOK(mem) /\ TypeOK /\ app \in AppStates /\ Idle \in AppStates
  BY TypeFacts DEF MemoryInv, AppStates
<1>3. app.node \in RxNodes \cup {None}
  BY <1>1, <1>2, AppFacts
<1>4. MemOK(mem') /\ mem'.rxNode = mem.rxNode
  BY <1>1, <1>2, <1>3, FreeRxNodeOK
<1>5. TypeOK'
  BY <1>1, <1>2, <1>4, TypeFacts, TypeFactsNext
<1>6. app'.node = None /\ app'.at = "idle"
  BY <1>1 DEF Idle
<1>7. SlotInv'
  BY <1>1, <1>4, <1>6 DEF MemoryInv, SlotInv
<1>8. ASSUME cfg'.ackFrames PROVE Balanced(ListsOf(mem'), TheHands')
  <2>1. Balanced(ListsOf(mem), TheHands)
    BY <1>1, <1>8 DEF MemoryInv
  <2>2. /\ TheApp \in Hands /\ {TheApp} \in SUBSET Hands /\ TheApp # TheMac
        /\ \A e \in TxConns : Held(e) # TheApp
    BY NameFacts
  <2>3. MacNode' = MacNode
    BY <1>1, <1>4 DEF MacNode
  <2>4. /\ TheHands \in [Hands -> Nodes \cup {None}] /\ TheHands' \in [Hands -> Nodes \cup {None}]
        /\ \A k \in Hands \ {TheApp} : TheHands'[k] = TheHands[k]
        /\ TheHands[TheApp] = app.node /\ TheHands'[TheApp] = app'.node
    BY <1>1, <1>2, <1>5, <2>2, <2>3, StepHands
  <2>5. Balanced(ListsOf(FreeRxNode(mem, app.node)), TheHands')
    BY <1>2, <1>3, <1>6, <2>1, <2>2, <2>4, FreeRxNodeKeeps
  <2> QED
    BY <1>1, <2>5
<1> QED
  BY <1>5, <1>7, <1>8 DEF MemoryInv

LEMMA EmptyQueue ==
  ASSUME NEW q, q = <<>>
  PROVE  q \in Seq(TxNodes) /\ q \in Seq(RxNodes) /\ Len(q) <= QueueSize
BY BytesFacts

LEMMA FlushQueueKeeps ==
  ASSUME MemoryInv, NEW c \in Conns, FlushQueue(c)
  PROVE  MemoryInv'
<1> DEFINE q == mem.queue[c]
           Q == [mem.queue EXCEPT ![c] = <<>>]
           pool == IF c \in TxConns THEN FreeTx ELSE FreeRx
           tx == mem.freeTx \o q
           rx == mem.freeRx \o q
<1>1. /\ mem' = IF c \in TxConns THEN [mem EXCEPT !.queue = Q, !.freeTx = tx]
                ELSE [mem EXCEPT !.queue = Q, !.freeRx = rx]
      /\ UNCHANGED <<cfg, slot, connected, request, app, txNode>>
  <2>1. mem \in MemStates
    BY DEF MemoryInv, TypeOK
  <2> QED
    BY <2>1 DEF FlushQueue, MemStates
<1>2. MemOK(mem) /\ TypeOK /\ mem \in MemStates /\ mem.queue \in [Conns -> Seq(Nodes)]
  BY TypeFacts DEF MemoryInv, MemOK, MemStates
<1>3. /\ mem.freeTx \in Seq(TxNodes) /\ mem.freeRx \in Seq(RxNodes)
      /\ c \in TxConns => q \in Seq(TxNodes)
      /\ c \notin TxConns => q \in Seq(RxNodes)
  BY <1>2 DEF MemOK, MemStates, Conns
<1>4. (c \in TxConns => tx \in Seq(TxNodes)) /\ (c \notin TxConns => rx \in Seq(RxNodes))
  BY <1>3
<1>5. /\ Q \in [Conns -> Seq(Nodes)] /\ Q[c] = <<>> /\ \A e \in Conns \ {c} : Q[e] = mem.queue[e]
  BY <1>2
<1> HIDE DEF Q, tx, rx
<1>6. /\ mem' \in MemStates /\ mem'.queue = Q /\ mem'.rxNode = mem.rxNode
      /\ mem'.freeTx = IF c \in TxConns THEN tx ELSE mem.freeTx
      /\ mem'.freeRx = IF c \in TxConns THEN mem.freeRx ELSE rx
  BY <1>1, <1>2, <1>4, <1>5 DEF MemStates
<1>7. MemOK(mem')
  <2>1. /\ \A e \in TxConns : Q[e] \in Seq(TxNodes)
        /\ \A e \in RxConns : Q[e] \in Seq(RxNodes)
        /\ \A e \in Conns : Len(Q[e]) <= QueueSize
    <3>1. Q[c] \in Seq(TxNodes) /\ Q[c] \in Seq(RxNodes) /\ Len(Q[c]) <= QueueSize
      BY <1>5, EmptyQueue
    <3> QED
      BY <1>2, <1>5, <3>1, NameFacts DEF MemOK
  <2> QED
    BY <1>6, <2>1 DEF MemOK
<1>8. TypeOK'
  BY <1>1, <1>2, <1>7, TypeFacts, TypeFactsNext
<1>9. SlotInv'
  BY <1>1, <1>6 DEF MemoryInv, SlotInv
<1>10. ASSUME cfg'.ackFrames PROVE Balanced(ListsOf(mem'), TheHands')
  <2> DEFINE L == ListsOf(mem)
             M == ListsOf(mem')
             none == {}
  <2>1. Balanced(L, TheHands)
    BY <1>1, <1>10 DEF MemoryInv
  <2>2. MacNode' = MacNode /\ TheHands' = TheHands
    BY <1>1, <1>6 DEF MacNode, TheHands
  <2>3. TheHands \in [Hands -> Nodes \cup {None}]
    BY <1>1, <1>2, <1>8, <2>2, StepHands
  <2>4. /\ L \in [Lists -> Seq(Nodes)] /\ M \in [Lists -> Seq(Nodes)]
        /\ L[FreeTx] = mem.freeTx /\ L[FreeRx] = mem.freeRx /\ L[Queue(c)] = q
        /\ M[FreeTx] = mem'.freeTx /\ M[FreeRx] = mem'.freeRx /\ M[Queue(c)] = <<>>
    BY <1>2, <1>5, <1>6, ListsFacts
  <2>5. /\ pool \in Lists /\ Queue(c) \in Lists /\ pool # Queue(c)
        /\ FreeTx # FreeRx /\ \A e \in Conns : Queue(e) = Queue(c) => e = c
    BY NameFacts
  <2>6. M[pool] = L[pool] \o L[Queue(c)]
    BY <1>6, <2>4 DEF tx, rx
  <2>7. \A k \in Lists \ {pool, Queue(c)} : M[k] = L[k]
    <3> DEFINE S == {pool, Queue(c)}
    <3>1. /\ S \in SUBSET Lists
          /\ FreeTx \notin S => mem'.freeTx = mem.freeTx
          /\ FreeRx \notin S => mem'.freeRx = mem.freeRx
          /\ \A e \in Conns : Queue(e) \notin S => mem'.queue[e] = mem.queue[e]
      BY <1>5, <1>6, <2>5
    <3> HIDE DEF S
    <3>2. \A k \in Lists \ S : M[k] = L[k]
      BY <1>2, <1>6, <3>1, OtherLists
    <3> QED
      BY <3>2 DEF S
  <2> HIDE DEF L, M, pool
  <2>8. Ledger(L, TheHands) /\ Ledger(M, TheHands)
    BY <2>3, <2>4 DEF Ledger
  <2>9. Pours(L, M, Queue(c), pool)
    BY <2>4, <2>5, <2>6, <2>7 DEF Pours
  <2>10. Balanced(M, TheHands)
    BY <2>1, <2>8, <2>9, Pour
  <2> QED
    BY <2>2, <2>10 DEF M
<1> QED
  BY <1>8, <1>9, <1>10 DEF MemoryInv

\* The pool of nodes a buffer is cut into.
Numbered(f, N, tag, S) ==
  N \in Nat /\ f = [i \in 1 .. N |-> <<tag, i>>] /\ S = {<<tag, i>> : i \in 1 .. N}

LEMMA NumberedFacts ==
  ASSUME NEW f, NEW N, NEW tag, NEW S, Numbered(f, N, tag, S)
  PROVE  f \in Seq(S) /\ Elements(f) = S /\ Once(f)
<1>1. /\ N \in Nat /\ f \in [1 .. N -> S] /\ DOMAIN f = 1 .. N
      /\ \A i \in 1 .. N : f[i] = <<tag, i>>
  BY DEF Numbered
<1>2. f \in Seq(S)
  BY <1>1, SeqDef
<1>3. Elements(f) = S
  BY <1>1 DEF Numbered, Elements
<1>4. Once(f)
  BY <1>1 DEF Once
<1> QED
  BY <1>2, <1>3, <1>4

LEMMA MemoryInit == Init => MemoryInv
<1> SUFFICES ASSUME Init PROVE MemoryInv
  OBVIOUS
<1> DEFINE tx == [i \in 1 .. Cardinality(TxNodes) |-> <<"tx", i>>]
           rx == [i \in 1 .. Cardinality(RxNodes) |-> <<"rx", i>>]
           queue == [c \in Conns |-> <<>>]
           ring == [c \in Conns |-> CircularDataInit(Bytes)]
           block == [n \in Nodes |-> NoBlock]
<1>1. /\ mem = [freeTx |-> tx, freeRx |-> rx, rxNode |-> None, queue |-> queue,
                ring |-> ring, block |-> block]
      /\ cfg \in Settings
      /\ slot = [conn |-> None, onAir |-> FALSE] /\ connected = FALSE /\ request = FALSE
      /\ app = Idle /\ txNode = [c \in TxConns |-> None]
  BY DEF Init
<1>2. /\ Numbered(tx, Cardinality(TxNodes), "tx", TxNodes)
      /\ Numbered(rx, Cardinality(RxNodes), "rx", RxNodes)
  BY PoolFacts DEF Numbered
<1>3. tx \in Seq(TxNodes) /\ Elements(tx) = TxNodes /\ Once(tx)
  <2> HIDE DEF tx
  <2> QED
    BY <1>2, NumberedFacts
<1>4. rx \in Seq(RxNodes) /\ Elements(rx) = RxNodes /\ Once(rx)
  <2> HIDE DEF rx
  <2> QED
    BY <1>2, NumberedFacts
<1>5. ring \in [Conns -> Rings] /\ block \in [Nodes -> Blocks] /\ queue \in [Conns -> Seq(Nodes)]
  <2>1. CircularDataInit(Bytes) \in Rings /\ NoBlock \in Blocks
    BY BytesFacts DEF CircularDataInit, Rings, NoBlock, Blocks
  <2> QED
    BY <2>1
<1>6. \A c \in Conns : queue[c] = <<>>
  OBVIOUS
<1> HIDE DEF tx, rx, queue, ring, block
<1>7. mem \in MemStates /\ mem.freeTx = tx /\ mem.freeRx = rx /\ mem.queue = queue
  BY <1>1, <1>3, <1>4, <1>5 DEF MemStates
<1>8. MemOK(mem)
  BY <1>6, <1>7, NameFacts, EmptyQueue DEF MemOK
<1>9. TypeOK
  <2>1. /\ slot \in [conn : Conns \cup {None}, onAir : BOOLEAN] /\ app \in AppStates
        /\ txNode \in [TxConns -> TxNodes \cup {None}]
    BY <1>1 DEF AppStates
  <2> QED
    BY <1>1, <1>8, <2>1, TypeFacts
<1>10. SlotInv
  BY <1>1 DEF SlotInv, Idle
<1>11. Balanced(ListsOf(mem), TheHands)
  <2> DEFINE L == ListsOf(mem)
             H == TheHands
  <2>1. /\ L[FreeTx] = tx /\ L[FreeRx] = rx /\ \A c \in Conns : L[Queue(c)] = <<>>
    BY <1>6, <1>7, ListsFacts
  <2>2. \A k \in Hands : H[k] = None
    BY <1>1, NameFacts DEF TheHands, HandsOf, MacNode, Idle
  <2>3. ASSUME NEW l \in Lists
        PROVE  \/ l = FreeTx /\ Once(L[l]) /\ Elements(L[l]) = TxNodes
               \/ l = FreeRx /\ Once(L[l]) /\ Elements(L[l]) = RxNodes
               \/ Once(L[l]) /\ Elements(L[l]) = {}
    <3>1. CASE l = FreeTx \/ l = FreeRx
      BY <1>3, <1>4, <2>1, <3>1
    <3>2. CASE l # FreeTx /\ l # FreeRx
      <4>1. l[2] \in Conns /\ l = Queue(l[2])
        BY <3>2, NameFacts
      <4>2. L[l] = <<>>
        BY <2>1, <4>1
      <4> QED
        BY <4>2 DEF Once, Elements
    <3> QED
      BY <3>1, <3>2
  <2> HIDE DEF L, H
  <2>4. \A n \in Nodes : \E l \in Lists : n \in Elements(L[l])
    BY <1>3, <1>4, <2>1, NameFacts DEF Nodes
  <2>5. \A l, k \in Lists : \A n \in Elements(L[l]) : n \in Elements(L[k]) => l = k
    BY <2>3, PoolFacts
  <2>6. \A l \in Lists : Once(L[l]) /\ None \notin Elements(L[l])
    BY <2>3, NullAssumption DEF Nodes
  <2>7. Balanced(L, H)
    BY <2>2, <2>4, <2>5, <2>6 DEF Balanced
  <2> QED
    BY <2>7 DEF L, H
<1> QED
  BY <1>9, <1>10, <1>11 DEF MemoryInv

LEMMA MemoryStep == MemoryInv /\ [Next]_vars => MemoryInv'
<1> SUFFICES ASSUME MemoryInv, [Next]_vars PROVE MemoryInv'
  OBVIOUS
<1>1. CASE FrameOutcome
  BY <1>1, FrameOutcomeKeeps
<1>2. CASE ConfigComplete
  BY <1>2, ConfigCompleteKeeps
<1>3. CASE Connect
  BY <1>3, ConnectKeeps
<1>4. CASE Disconnect
  BY <1>4, DisconnectKeeps
<1>5. CASE \E c \in TxConns : GetFreeSlot(c) \/ Send(c)
  BY <1>5, GetFreeSlotKeeps, SendKeeps
<1>6. CASE \E c \in RxConns : ReadDone(c)
  BY <1>6, ReadDoneKeeps
<1>7. CASE Allocated
  BY <1>7, NoPlaceKeeps, PlacedKeeps
<1>8. CASE FreeingSpace
  BY <1>8, FreeingSpaceKeeps
<1>9. CASE FreedSpace
  BY <1>9, FreedSpaceKeeps
<1>10. CASE FreedNode
  BY <1>10, FreedNodeKeeps
<1>11. CASE \E c \in Conns : FlushQueue(c)
  BY <1>11, FlushQueueKeeps
<1>12. CASE UNCHANGED vars
  <2>1. /\ cfg' = cfg /\ mem' = mem /\ slot' = slot /\ connected' = connected
        /\ request' = request /\ app' = app /\ txNode' = txNode
    BY <1>12 DEF vars
  <2>2. TypeOK'
    BY <2>1, TypeFacts, TypeFactsNext DEF MemoryInv
  <2>3. SlotInv' /\ MacNode' = MacNode
    BY <2>1 DEF MemoryInv, SlotInv, MacNode
  <2> QED
    BY <2>1, <2>2, <2>3, NodesStay
<1> QED
  BY <1>1, <1>2, <1>3, <1>4, <1>5, <1>6, <1>7, <1>8, <1>9, <1>10, <1>11, <1>12 DEF Next

-----------------------------------------------------------------------------
(* Theorems *)

(* Every variable keeps its type: whatever the two contexts do and wherever *)
(* the interrupt comes, a queue holds only nodes of its direction and never *)
(* more than its size, and every block and every index of a circular buffer *)
(* stays inside the buffer (xlayer_circular_data.c).                        *)
THEOREM MemoryTypeOK == Spec => []TypeOK
<1>1. MemoryInv => TypeOK
  BY DEF MemoryInv
<1> QED
  BY <1>1, MemoryInit, MemoryStep, PTL DEF Spec

\* The places of node n in one list.
PlacesIn(s, tag, n) == {<<tag, i>> : i \in {j \in DOMAIN s : s[j] = n}}

LEMMA PlacesInList ==
  ASSUME NEW s, Once(s), NEW n, NEW tag
  PROVE  IF n \in Elements(s) THEN \E x : PlacesIn(s, tag, n) = {x} ELSE PlacesIn(s, tag, n) = {}
<1> USE DEF PlacesIn
<1> DEFINE P == {<<tag, i>> : i \in {j \in DOMAIN s : s[j] = n}}
<1>1. CASE n \in Elements(s)
  <2>1. PICK i \in DOMAIN s : s[i] = n
    BY <1>1 DEF Elements
  <2>2. \A j \in DOMAIN s : s[j] = n <=> j = i
    BY <2>1 DEF Once
  <2>3. P = {<<tag, i>>}
    BY <2>2
  <2> QED
    BY <1>1, <2>3
<1>2. CASE n \notin Elements(s)
  <2>1. \A j \in DOMAIN s : s[j] # n
    BY <1>2 DEF Elements
  <2>2. P = {}
    BY <2>1
  <2> QED
    BY <1>2, <2>2
<1> QED
  BY <1>1, <1>2

LEMMA HandsNow ==
  ASSUME TypeOK
  PROVE  /\ TheHands[TheMac] = MacNode /\ TheHands[TheApp] = app.node
         /\ \A c \in TxConns : TheHands[Held(c)] = txNode[c]
<1>1. TxNodes \cup {None} \subseteq Nodes \cup {None} /\ RxNodes \subseteq Nodes
  BY DEF Nodes
<1>2. mem.rxNode \in RxNodes \cup {None} /\ app \in AppStates
  BY DEF TypeOK, MemStates
<1>3. txNode \in [TxConns -> Nodes \cup {None}]
  BY <1>1 DEF TypeOK
<1>4. Handable(MacNode, app.node, txNode)
  BY <1>1, <1>2, <1>3, AppFacts DEF Handable, MacNode
<1> QED
  BY <1>4, HandsFacts DEF TheHands

LEMMA OnePlace ==
  ASSUME MemoryInv, cfg.ackFrames, NEW n \in Nodes
  PROVE  \E x : HeldAt(n) = {x}
<1> DEFINE L == ListsOf(mem)
           H == TheHands
           A == PlacesIn(mem.freeTx, "freeTx", n)
           B == PlacesIn(mem.freeRx, "freeRx", n)
           q(c) == PlacesIn(mem.queue[c], c, n)
           C == UNION {q(c) : c \in Conns}
           D == {<<"tx_node", c>> : c \in {d \in TxConns : txNode[d] = n}}
           E == {<<"rx_node", c>> : c \in {d \in {None} : connected /\ mem.rxNode = n}}
           F == {<<"app", c>> : c \in {d \in {app.conn} : app.node = n}}
<1>1. HeldAt(n) = A \cup B \cup C \cup D \cup E \cup F
  BY DEF HeldAt, PlacesIn
<1>2. Balanced(L, H) /\ TypeOK /\ mem \in MemStates /\ n # None
  BY NullAssumption DEF MemoryInv, TypeOK
<1>3. /\ L[FreeTx] = mem.freeTx /\ L[FreeRx] = mem.freeRx
      /\ \A c \in Conns : L[Queue(c)] = mem.queue[c]
  BY <1>2, ListsFacts
<1>4. /\ H[TheMac] = MacNode /\ H[TheApp] = app.node /\ \A c \in TxConns : H[Held(c)] = txNode[c]
  BY <1>2, HandsNow
<1>5. /\ \A l \in Lists : Once(L[l])
      /\ (\E l \in Lists : n \in Elements(L[l])) \/ (\E h \in Hands : H[h] = n)
      /\ \A l, k \in Lists : n \in Elements(L[l]) /\ n \in Elements(L[k]) => l = k
      /\ \A h, k \in Hands : H[h] = n /\ H[k] = n => h = k
      /\ \A l \in Lists, h \in Hands : H[h] = n => n \notin Elements(L[l])
  BY <1>2 DEF Balanced
<1> HIDE DEF L, H
<1>6. IF n \in Elements(L[FreeTx]) THEN \E x : A = {x} ELSE A = {}
  <2>1. Once(mem.freeTx)
    BY <1>3, <1>5, NameFacts
  <2> QED
    BY ZenonT(30), <1>3, <2>1, PlacesInList
<1>7. IF n \in Elements(L[FreeRx]) THEN \E x : B = {x} ELSE B = {}
  <2>1. Once(mem.freeRx)
    BY <1>3, <1>5, NameFacts
  <2> QED
    BY ZenonT(30), <1>3, <2>1, PlacesInList
<1>8. ASSUME NEW c \in Conns
      PROVE  IF n \in Elements(L[Queue(c)]) THEN \E x : q(c) = {x} ELSE q(c) = {}
  <2>1. Once(mem.queue[c])
    BY <1>3, <1>5, NameFacts
  <2> QED
    BY <1>3, <2>1, PlacesInList
<1>9. /\ H[TheMac] = n => E = {<<"rx_node", None>>}
      /\ H[TheMac] # n => E = {}
      /\ H[TheApp] = n => F = {<<"app", app.conn>>}
      /\ H[TheApp] # n => F = {}
  BY <1>2, <1>4 DEF MacNode
<1>10. /\ \A c \in TxConns : H[Held(c)] = n => <<"tx_node", c>> \in D
       /\ \A x \in D : \E c \in TxConns : x = <<"tx_node", c>> /\ H[Held(c)] = n
  BY <1>4
<1> HIDE DEF A, B, q, D, E, F
<1>11. CASE n \in Elements(L[FreeTx])
  <2>1. /\ n \notin Elements(L[FreeRx]) /\ \A c \in Conns : n \notin Elements(L[Queue(c)])
        /\ \A h \in Hands : H[h] # n
    BY <1>5, <1>11, NameFacts
  <2>2. B = {} /\ C = {} /\ D = {} /\ E = {} /\ F = {}
    BY <1>7, <1>8, <1>9, <1>10, <2>1, NameFacts
  <2> QED
    BY <1>1, <1>6, <1>11, <2>2
<1>12. CASE n \in Elements(L[FreeRx])
  <2>1. /\ n \notin Elements(L[FreeTx]) /\ \A c \in Conns : n \notin Elements(L[Queue(c)])
        /\ \A h \in Hands : H[h] # n
    BY <1>5, <1>12, NameFacts
  <2>2. A = {} /\ C = {} /\ D = {} /\ E = {} /\ F = {}
    BY <1>6, <1>8, <1>9, <1>10, <2>1, NameFacts
  <2> QED
    BY <1>1, <1>7, <1>12, <2>2
<1>13. ASSUME NEW c \in Conns, n \in Elements(L[Queue(c)]) PROVE \E x : HeldAt(n) = {x}
  <2>1. /\ n \notin Elements(L[FreeTx]) /\ n \notin Elements(L[FreeRx])
        /\ \A e \in Conns : n \in Elements(L[Queue(e)]) => e = c
        /\ \A h \in Hands : H[h] # n
    BY <1>5, <1>13, NameFacts
  <2>2. A = {} /\ B = {} /\ D = {} /\ E = {} /\ F = {}
    BY <1>6, <1>7, <1>9, <1>10, <2>1, NameFacts
  <2>3. \A e \in Conns : e # c => q(e) = {}
    BY <1>8, <2>1
  <2>4. C = q(c)
    BY <2>3
  <2> QED
    BY <1>1, <1>8, <1>13, <2>2, <2>4
<1> HIDE DEF C
<1>14. ASSUME NEW h \in Hands, H[h] = n PROVE \E x : HeldAt(n) = {x}
  <2>1. /\ n \notin Elements(L[FreeTx]) /\ n \notin Elements(L[FreeRx])
        /\ \A e \in Conns : n \notin Elements(L[Queue(e)])
        /\ \A k \in Hands : H[k] = n => k = h
    BY <1>5, <1>14, NameFacts
  <2>2. A = {} /\ B = {} /\ C = {}
    BY <1>6, <1>7, <1>8, <2>1 DEF C
  <2>3. CASE h = TheMac
    <3>1. E = {<<"rx_node", None>>} /\ F = {} /\ D = {}
      BY <1>9, <1>10, <1>14, <2>1, <2>3, NameFacts
    <3> QED
      BY <1>1, <2>2, <3>1
  <2>4. CASE h = TheApp
    <3>1. F = {<<"app", app.conn>>} /\ E = {} /\ D = {}
      BY <1>9, <1>10, <1>14, <2>1, <2>4, NameFacts
    <3> QED
      BY <1>1, <2>2, <3>1
  <2>5. CASE h # TheMac /\ h # TheApp
    <3>1. PICK c \in TxConns : h = Held(c)
      BY <2>5, NameFacts
    <3>2. E = {} /\ F = {}
      BY <1>9, <2>1, <2>5, NameFacts
    <3>3. \A e \in TxConns : H[Held(e)] = n => e = c
      BY <2>1, <3>1, NameFacts
    <3>4. D = {<<"tx_node", c>>}
      BY <1>10, <1>14, <3>1, <3>3
    <3> QED
      BY <1>1, <2>2, <3>2, <3>4
  <2> QED
    BY <2>3, <2>4, <2>5
<1>15. CASE \E l \in Lists : n \in Elements(L[l])
  <2>1. PICK l \in Lists : n \in Elements(L[l])
    BY <1>15
  <2>2. l = FreeTx \/ l = FreeRx \/ \E c \in Conns : l = Queue(c)
    BY NameFacts
  <2> QED
    BY <1>11, <1>12, <1>13, <2>1, <2>2
<1>16. CASE \E h \in Hands : H[h] = n
  BY <1>14, <1>16
<1> QED
  BY <1>5, <1>15, <1>16

(* No node is lost or in two places: for every number of connections and    *)
(* every queue size, each node is in exactly one place of the pools, of the *)
(* queues, of the slots the application holds, of the slot on air and of    *)
(* the read it is in the middle of (xlayer_queue.c, wps_mac_xlayer.c,       *)
(* wps.c).                                                                  *)
THEOREM MemoryNodesAccounted == Spec => []NodesAccounted
<1>1. MemoryInv => NodesAccounted
  <2> SUFFICES ASSUME MemoryInv, cfg.ackFrames, NEW n \in Nodes
               PROVE  Cardinality(HeldAt(n)) = 1
    BY DEF NodesAccounted
  <2>1. PICK x : HeldAt(n) = {x}
    BY OnePlace
  <2> QED
    BY <2>1, FS_Singleton
<1> QED
  BY <1>1, MemoryInit, MemoryStep, PTL DEF Spec

-----------------------------------------------------------------------------
(* The bytes of a buffer *)

\* With frames of one size a buffer is QueueSize places, of MaxFrameSize bytes
\* each.
Mark(i) == MaxFrameSize * i

\* Place of the i-th block of a line that starts at place t: the places go
\* round.
Turn(t, i) == IF t + i - 1 < QueueSize THEN t + i - 1 ELSE t + i - 1 - QueueSize

\* Indices t, h and l of a buffer with k blocks in line, and the last block cut
\* off either the last of the line or just given back.
Round(t, h, l, k) ==
  /\ (t <= h /\ k = h - t) \/ (0 < t /\ h <= t /\ k = h + QueueSize - t)
  /\ (l = h /\ k < QueueSize /\ l < QueueSize) \/ (l = h - 1 /\ 0 < k)

\* The blocks of the nodes of line s lie in buffer d one after the other, from
\* the tail to the head.
Packed(d, blk, s) ==
  \E t, h, l \in 0 .. QueueSize :
    /\ d = [size |-> Bytes, head |-> Mark(h), tail |-> Mark(t), lastHead |-> Mark(l)]
    /\ Round(t, h, l, Len(s))
    /\ \A i \in DOMAIN s : blk[s[i]] = [at |-> Mark(Turn(t, i)), bytes |-> MaxFrameSize]

LEMMA MarkFacts ==
  /\ Mark(0) = 0 /\ Mark(QueueSize) = Bytes /\ MaxFrameSize \in Nat \ {0}
  /\ QueueSize \in Nat \ {0, 1}
  /\ \A i \in Nat : Mark(i) \in Nat
  /\ \A i, j \in Nat : j = i + 1 => Mark(i) + MaxFrameSize = Mark(j)
  /\ \A i, j \in Nat : i < j => Mark(i) + MaxFrameSize <= Mark(j)
<1>1. QueueSize \in Nat \ {0, 1} /\ MaxFrameSize \in Nat \ {0}
  BY MemoryAssumption
<1>2. ASSUME NEW i \in Nat PROVE Mark(i) \in Nat /\ Mark(i) + MaxFrameSize = Mark(i + 1)
  BY <1>1 DEF Mark
<1>3. ASSUME NEW i \in Nat, NEW j \in Nat, i < j PROVE Mark(i) + MaxFrameSize <= Mark(j)
  <2> DEFINE e == j - (i + 1)
  <2>1. e \in Nat /\ j = (i + 1) + e
    BY <1>3
  <2> HIDE DEF e
  <2>2. MaxFrameSize * e \in Nat
    BY <1>1, <2>1
  <2>3. MaxFrameSize * ((i + 1) + e) = MaxFrameSize * (i + 1) + MaxFrameSize * e
    BY <1>1, <2>1
  <2>4. Mark(j) = Mark(i + 1) + MaxFrameSize * e /\ Mark(i + 1) \in Nat
    BY <1>2, <2>1, <2>3 DEF Mark
  <2> QED
    BY <1>1, <1>2, <2>2, <2>4
<1> QED
  BY <1>1, <1>2, <1>3 DEF Mark, Bytes

\* The two searches of a buffer, in places.
LEMMA PlaceMarks ==
  ASSUME NEW d, NEW t \in 0 .. QueueSize, NEW h \in 0 .. QueueSize,
         d.size = Bytes, d.head = Mark(h), d.tail = Mark(t)
  PROVE  Place(d, MaxFrameSize) =
           IF t <= h /\ h < QueueSize THEN Mark(h)
           ELSE IF t <= h /\ 0 < t THEN Mark(0)
           ELSE IF h < t THEN Mark(h) ELSE NoSpace
<1>1. /\ Mark(h) \in Nat /\ Mark(t) \in Nat /\ Bytes \in Nat /\ MaxFrameSize \in Nat \ {0}
      /\ Mark(0) = 0 /\ Bytes = Mark(QueueSize) /\ t \in Nat /\ h \in Nat /\ QueueSize \in Nat
  <2>1. QueueSize \in Nat /\ MaxFrameSize \in Nat \ {0} /\ Mark(0) = 0 /\ Bytes = Mark(QueueSize)
    BY MarkFacts
  <2>2. t \in Nat /\ h \in Nat
    BY <2>1
  <2>3. Mark(h) \in Nat /\ Mark(t) \in Nat /\ Mark(QueueSize) \in Nat
    BY <2>1, <2>2, MarkFacts
  <2> QED
    BY <2>1, <2>2, <2>3
<1>2. /\ t <= h <=> Mark(t) <= Mark(h)
      /\ h < t => Mark(h) + MaxFrameSize <= Mark(t)
      /\ h < QueueSize => Mark(h) + MaxFrameSize <= Bytes
      /\ h = QueueSize => Mark(h) = Bytes
      /\ 0 < t => MaxFrameSize <= Mark(t)
      /\ t = 0 => Mark(t) = 0
  <2>1. h < t => Mark(h) + MaxFrameSize <= Mark(t)
    BY <1>1, MarkFacts
  <2>2. t < h => Mark(t) + MaxFrameSize <= Mark(h)
    BY <1>1, MarkFacts
  <2>3. h < QueueSize => Mark(h) + MaxFrameSize <= Bytes
    BY <1>1, MarkFacts
  <2>4. 0 < t => Mark(0) + MaxFrameSize <= Mark(t)
    BY <1>1, MarkFacts
  <2> QED
    BY <1>1, <2>1, <2>2, <2>3, <2>4
<1> QED
  BY <1>1, <1>2 DEF Place

LEMMA FreedMarks ==
  ASSUME NEW d, NEW t \in 0 .. QueueSize, NEW l \in 0 .. QueueSize, NEW i \in 0 .. QueueSize - 1,
         d.size = Bytes, d.tail = Mark(t), d.lastHead = Mark(l)
  PROVE  FreedField(d, Mark(i), MaxFrameSize) =
           IF i = l THEN "head"
           ELSE IF i = t \/ (t = QueueSize /\ i = 0) THEN "tail" ELSE "none"
<1>1. /\ Mark(i) \in Nat /\ Mark(t) \in Nat /\ Mark(l) \in Nat /\ Bytes \in Nat
      /\ MaxFrameSize \in Nat \ {0} /\ Mark(0) = 0 /\ Bytes = Mark(QueueSize)
      /\ t \in Nat /\ l \in Nat /\ i \in Nat /\ QueueSize \in Nat
  <2>1. QueueSize \in Nat /\ MaxFrameSize \in Nat \ {0} /\ Mark(0) = 0 /\ Bytes = Mark(QueueSize)
    BY MarkFacts
  <2>2. t \in Nat /\ l \in Nat /\ i \in Nat
    BY <2>1
  <2>3. Mark(i) \in Nat /\ Mark(t) \in Nat /\ Mark(l) \in Nat /\ Mark(QueueSize) \in Nat
    BY <2>1, <2>2, MarkFacts
  <2> QED
    BY <2>1, <2>2, <2>3
<1>2. ASSUME NEW j \in Nat, NEW k \in Nat PROVE Mark(j) = Mark(k) <=> j = k
  <2>1. j < k => Mark(j) + MaxFrameSize <= Mark(k)
    BY MarkFacts
  <2>2. k < j => Mark(k) + MaxFrameSize <= Mark(j)
    BY MarkFacts
  <2>3. Mark(j) \in Nat /\ Mark(k) \in Nat
    BY MarkFacts
  <2> QED
    BY <1>1, <2>1, <2>2, <2>3
<1>3. /\ t < QueueSize => ~(Mark(t) + MaxFrameSize > Bytes)
      /\ t = QueueSize => Mark(t) + MaxFrameSize > Bytes
  <2>1. t < QueueSize => Mark(t) + MaxFrameSize <= Mark(QueueSize)
    BY <1>1, MarkFacts
  <2> QED
    BY <1>1, <2>1
<1>4. /\ Mark(i) = Mark(l) <=> i = l
      /\ Mark(i) = Mark(t) <=> i = t
      /\ Mark(i) = 0 <=> i = 0
  BY <1>1, <1>2
<1>5. t < QueueSize \/ t = QueueSize
  BY <1>1
<1>6. CASE t < QueueSize
  BY <1>1, <1>3, <1>4, <1>6 DEF FreedField
<1>7. CASE t = QueueSize
  BY <1>1, <1>3, <1>4, <1>7 DEF FreedField
<1> QED
  BY <1>5, <1>6, <1>7

\* An empty buffer.
LEMMA PackedInit ==
  ASSUME NEW blk
  PROVE  Packed(CircularDataInit(Bytes), blk, <<>>)
<1>1. /\ 0 \in 0 .. QueueSize /\ Mark(0) = 0 /\ Round(0, 0, 0, 0)
  BY MarkFacts DEF Round
<1>2. Len(<<>>) = 0 /\ DOMAIN <<>> = {}
  OBVIOUS
<1>3. CircularDataInit(Bytes) =
        [size |-> Bytes, head |-> Mark(0), tail |-> Mark(0), lastHead |-> Mark(0)]
  BY <1>1 DEF CircularDataInit
<1> QED
  BY <1>1, <1>2, <1>3 DEF Packed

\* Only the blocks of the nodes in line matter.
LEMMA PackedSame ==
  ASSUME NEW d, NEW blk, NEW cut, NEW s, Packed(d, blk, s),
         \A n \in Elements(s) : cut[n] = blk[n]
  PROVE  Packed(d, cut, s)
<1>1. \A i \in DOMAIN s : cut[s[i]] = blk[s[i]]
  BY DEF Elements
<1> QED
  BY <1>1 DEF Packed

LEMMA TurnFacts ==
  ASSUME NEW t \in 0 .. QueueSize, NEW i \in 1 .. QueueSize
  PROVE  /\ Turn(t, i) \in 0 .. QueueSize - 1
         /\ \A j \in 1 .. QueueSize : Turn(t, i) = Turn(t, j) => i = j
<1>1. QueueSize \in Nat \ {0, 1}
  BY MemoryAssumption
<1> QED
  BY <1>1 DEF Turn

\* A buffer with a node to spare has room, apart from every block in line.  The
\* block cut off is the next in line, and given back at once it leaves the
\* buffer with the same line.
LEMMA PackedGrows ==
  ASSUME NEW d, NEW blk, NEW S, NEW s \in Seq(S), Packed(d, blk, s), Len(s) < QueueSize
  PROVE  LET b == [at |-> Place(d, MaxFrameSize), bytes |-> MaxFrameSize]
             e == AllocateSpace(d, MaxFrameSize)
         IN  /\ b.at # NoSpace
             /\ \A n \in Elements(s) : ~Overlapping(b, blk[n])
             /\ e = [d EXCEPT !.lastHead = b.at, !.head = b.at + b.bytes]
             /\ \A cut, n : cut[n] = b /\ (\A m \in Elements(s) : cut[m] = blk[m])
                              => Packed(e, cut, Append(s, n))
             /\ Packed(FreeSpace(e, b.at, b.bytes), blk, s)
<1> DEFINE k == Len(s)
           b == [at |-> Place(d, MaxFrameSize), bytes |-> MaxFrameSize]
           e == AllocateSpace(d, MaxFrameSize)
<1>1. PICK t \in 0 .. QueueSize, h \in 0 .. QueueSize, l \in 0 .. QueueSize :
        /\ d = [size |-> Bytes, head |-> Mark(h), tail |-> Mark(t), lastHead |-> Mark(l)]
        /\ Round(t, h, l, k)
        /\ \A i \in DOMAIN s : blk[s[i]] = [at |-> Mark(Turn(t, i)), bytes |-> MaxFrameSize]
  BY DEF Packed
<1>2. /\ k \in Nat /\ DOMAIN s = 1 .. k /\ QueueSize \in Nat \ {0, 1} /\ MaxFrameSize \in Nat \ {0}
      /\ t \in Nat /\ h \in Nat /\ l \in Nat /\ k < QueueSize
  BY MarkFacts
<1> DEFINE g == IF h < QueueSize THEN h ELSE 0
<1>3. /\ g \in 0 .. QueueSize - 1 /\ g + 1 \in 0 .. QueueSize /\ g = Turn(t, k + 1)
      /\ Round(t, g + 1, g, k + 1) /\ Round(t, g, g, k)
      /\ \/ t <= h /\ h < QueueSize /\ g = h
         \/ t <= h /\ h = QueueSize /\ 0 < t /\ g = 0
         \/ h < t /\ g = h
  BY <1>1, <1>2 DEF Round, Turn
<1>4. Place(d, MaxFrameSize) = Mark(g)
  BY <1>1, <1>2, <1>3, PlaceMarks
<1> HIDE DEF k, g
<1>5. /\ Mark(g) \in Nat /\ Mark(g) + MaxFrameSize = Mark(g + 1) /\ Mark(g) # NoSpace
      /\ b = [at |-> Mark(g), bytes |-> MaxFrameSize]
  <2>1. g \in Nat /\ g + 1 \in Nat
    BY <1>2, <1>3
  <2>2. Mark(g) \in Nat /\ Mark(g) + MaxFrameSize = Mark(g + 1)
    BY <2>1, MarkFacts
  <2> QED
    BY <1>4, <2>2 DEF NoSpace
<1>6. e = [size |-> Bytes, head |-> Mark(g + 1), tail |-> Mark(t), lastHead |-> Mark(g)]
  BY <1>1, <1>4, <1>5 DEF AllocateSpace
<1>7. e = [d EXCEPT !.lastHead = b.at, !.head = b.at + b.bytes]
  BY <1>4, <1>5 DEF AllocateSpace
<1> HIDE DEF b, e
<1>8. ASSUME NEW n \in Elements(s) PROVE ~Overlapping(b, blk[n])
  <2>1. PICK i \in 1 .. k : n = s[i]
    BY <1>2 DEF Elements
  <2> DEFINE j == Turn(t, i)
  <2>2. /\ i \in 1 .. QueueSize /\ k + 1 \in 1 .. QueueSize /\ i # k + 1
    BY <1>2, <2>1
  <2>3. j \in Nat /\ g \in Nat /\ j # g
    BY <1>3, <2>2, TurnFacts
  <2>4. blk[n] = [at |-> Mark(j), bytes |-> MaxFrameSize]
    BY <1>1, <1>2, <2>1
  <2> HIDE DEF j
  <2>5. Mark(j) \in Nat /\ (Mark(j) + MaxFrameSize <= Mark(g) \/ Mark(g) + MaxFrameSize <= Mark(j))
    <3>1. j < g \/ g < j
      BY <2>3
    <3> QED
      BY <2>3, <3>1, MarkFacts
  <2> QED
    BY <1>2, <1>5, <2>4, <2>5 DEF Overlapping
<1>9. ASSUME NEW cut, NEW n, cut[n] = b, \A m \in Elements(s) : cut[m] = blk[m]
      PROVE  Packed(e, cut, Append(s, n))
  <2> DEFINE r == Append(s, n)
  <2>1. Len(r) = k + 1 /\ DOMAIN r = 1 .. k + 1 /\ r[k + 1] = n /\ \A i \in 1 .. k : r[i] = s[i]
    BY DEF k
  <2> HIDE DEF r
  <2>2. ASSUME NEW i \in DOMAIN r
        PROVE  cut[r[i]] = [at |-> Mark(Turn(t, i)), bytes |-> MaxFrameSize]
    <3>1. CASE i = k + 1
      BY <1>3, <1>5, <1>9, <2>1, <3>1
    <3>2. CASE i # k + 1
      <4>1. i \in 1 .. k /\ i \in DOMAIN s /\ r[i] = s[i] /\ s[i] \in Elements(s)
        BY <1>2, <2>1, <3>2 DEF Elements
      <4> QED
        BY <1>1, <1>9, <4>1
    <3> QED
      BY <3>1, <3>2
  <2>3. Round(t, g + 1, g, Len(r)) /\ g \in 0 .. QueueSize
    BY <1>2, <1>3, <2>1
  <2>4. Packed(e, cut, r)
    BY <1>3, <1>6, <2>2, <2>3 DEF Packed
  <2> QED
    BY <2>4 DEF r
<1>10. Packed(FreeSpace(e, b.at, b.bytes), blk, s)
  <2>1. FreedField(e, Mark(g), MaxFrameSize) = "head"
    <3>1. e.size = Bytes /\ e.tail = Mark(t) /\ e.lastHead = Mark(g) /\ g \in 0 .. QueueSize
      BY <1>2, <1>3, <1>6
    <3> QED
      BY <1>3, <3>1, FreedMarks
  <2>2. FreeSpace(e, b.at, b.bytes) =
          [size |-> Bytes, head |-> Mark(g), tail |-> Mark(t), lastHead |-> Mark(g)]
    BY <1>5, <1>6, <2>1 DEF FreeSpace
  <2>3. Round(t, g, g, Len(s)) /\ g \in 0 .. QueueSize
    BY <1>2, <1>3 DEF k
  <2> QED
    BY <1>1, <2>2, <2>3 DEF Packed
<1> QED
  BY <1>5, <1>7, <1>8, <1>9, <1>10 DEF b, e

\* The oldest block given back leaves the line without its first node.
LEMMA PackedShrinks ==
  ASSUME NEW d, NEW blk, NEW S, NEW s \in Seq(S), Packed(d, blk, s), s # <<>>
  PROVE  LET b == blk[Head(s)] IN Packed(FreeSpace(d, b.at, b.bytes), blk, Tail(s))
<1> DEFINE k == Len(s)
           r == Tail(s)
<1>1. PICK t \in 0 .. QueueSize, h \in 0 .. QueueSize, l \in 0 .. QueueSize :
        /\ d = [size |-> Bytes, head |-> Mark(h), tail |-> Mark(t), lastHead |-> Mark(l)]
        /\ Round(t, h, l, k)
        /\ \A i \in DOMAIN s : blk[s[i]] = [at |-> Mark(Turn(t, i)), bytes |-> MaxFrameSize]
  BY DEF Packed
<1>2. /\ k \in Nat \ {0} /\ DOMAIN s = 1 .. k /\ QueueSize \in Nat \ {0, 1}
      /\ t \in Nat /\ h \in Nat /\ l \in Nat /\ Head(s) = s[1]
      /\ Len(r) = k - 1 /\ DOMAIN r = 1 .. k - 1 /\ \A i \in 1 .. k - 1 : r[i] = s[i + 1]
  BY MarkFacts
<1> HIDE DEF k, r
<1> DEFINE g == IF t < QueueSize THEN t ELSE 0
           e == FreeSpace(d, Mark(g), MaxFrameSize)
<1>3. g = Turn(t, 1) /\ g \in 0 .. QueueSize - 1 /\ g + 1 \in 0 .. QueueSize /\ k <= QueueSize
  BY <1>1, <1>2 DEF Turn, Round
<1>4. blk[Head(s)] = [at |-> Mark(g), bytes |-> MaxFrameSize]
  <2>1. 1 \in DOMAIN s
    BY <1>2
  <2> QED
    BY <1>1, <1>2, <1>3, <2>1
<1>5. g = t \/ (t = QueueSize /\ g = 0)
  BY <1>2
<1>6. FreedField(d, Mark(g), MaxFrameSize) = IF g = l THEN "head" ELSE "tail"
  <2>1. d.size = Bytes /\ d.tail = Mark(t) /\ d.lastHead = Mark(l)
    BY <1>1
  <2> HIDE DEF g
  <2> QED
    BY <1>3, <1>5, <2>1, FreedMarks
<1>7. CASE g = l
  <2>1. e = [size |-> Bytes, head |-> Mark(g), tail |-> Mark(t), lastHead |-> Mark(g)]
    BY <1>1, <1>6, <1>7 DEF FreeSpace
  <2>2. k = 1 /\ Round(t, g, g, 0)
    BY <1>1, <1>2, <1>7 DEF Round
  <2>3. Round(t, g, g, Len(r)) /\ DOMAIN r = {} /\ g \in 0 .. QueueSize
    BY <1>2, <1>3, <2>2
  <2> HIDE DEF g, e
  <2>4. Packed(e, blk, r)
    BY <2>1, <2>3 DEF Packed
  <2> QED
    BY <1>4, <2>4 DEF e, r
<1>8. CASE g # l
  <2>1. e = [size |-> Bytes, head |-> Mark(h), tail |-> Mark(g + 1), lastHead |-> Mark(l)]
    <3>1. Mark(g) + MaxFrameSize = Mark(g + 1)
      <4>1. g \in Nat /\ g + 1 \in Nat
        BY <1>2, <1>3
      <4> QED
        BY <4>1, MarkFacts
    <3> QED
      BY <1>1, <1>6, <1>8, <3>1 DEF FreeSpace
  <2>2. Round(g + 1, h, l, Len(r))
    BY <1>1, <1>2, <1>8 DEF Round
  <2>3. ASSUME NEW i \in DOMAIN r
        PROVE  blk[r[i]] = [at |-> Mark(Turn(g + 1, i)), bytes |-> MaxFrameSize]
    <3>1. i + 1 \in DOMAIN s /\ r[i] = s[i + 1] /\ i \in 1 .. k - 1
      BY <1>2
    <3>2. Turn(t, i + 1) = Turn(g + 1, i)
      <4>1. i \in Nat \ {0} /\ i < QueueSize /\ t \in Nat /\ t <= QueueSize /\ QueueSize \in Nat
        BY <1>2, <1>3, <3>1
      <4> QED
        BY <4>1 DEF Turn
    <3> QED
      BY <1>1, <3>1, <3>2
  <2> HIDE DEF g, e
  <2>4. Packed(e, blk, r)
    BY <1>3, <2>1, <2>2, <2>3 DEF Packed
  <2> QED
    BY <1>4, <2>4 DEF e, r
<1> QED
  BY <1>7, <1>8

-----------------------------------------------------------------------------
(* The line of each connection: the nodes whose blocks are in its buffer, from *)
(* the oldest to the newest                                                    *)

\* Frames that wait to be sent, then the slot the application got.
TxLine(q, n) == IF n = None THEN q ELSE Append(q, n)

\* The frame being read, then those that wait to be read.
RxLine(n, q) == IF n = None THEN q ELSE <<n>> \o q

\* In memory m, with the frames the application is reading and its slots.
LineOf(m, reading, held, c) ==
  IF c \in TxConns THEN TxLine(m.queue[c], held[c]) ELSE RxLine(reading[c], m.queue[c])

\* Every buffer holds the blocks of its line and nothing else, and a node that
\* waits to receive has no block.
Tidy(m, reading, held) ==
  /\ \A c \in Conns : Packed(m.ring[c], m.block, LineOf(m, reading, held, c))
  /\ \A n \in RxNodes :
       (\A c \in RxConns : n \notin Elements(LineOf(m, reading, held, c))) => m.block[n] = NoBlock

Handy(reading, held) ==
  /\ reading \in [RxConns -> RxNodes \cup {None}]
  /\ held \in [TxConns -> TxNodes \cup {None}]

LEMMA TxLineFacts ==
  ASSUME NEW q \in Seq(TxNodes), NEW n \in TxNodes \cup {None}
  PROVE  /\ TxLine(q, n) \in Seq(TxNodes)
         /\ Elements(q) \subseteq Elements(TxLine(q, n))
         /\ n # None => n \in Elements(TxLine(q, n))
         /\ Len(TxLine(q, n)) = IF n = None THEN Len(q) ELSE Len(q) + 1
         /\ q # <<>> => /\ TxLine(q, n) # <<>> /\ Head(TxLine(q, n)) = Head(q)
                        /\ Tail(TxLine(q, n)) = TxLine(Tail(q), n)
<1>1. CASE n = None
  BY <1>1 DEF TxLine
<1>2. CASE n # None
  <2>1. n \in TxNodes /\ TxLine(q, n) = Append(q, n)
    BY <1>2 DEF TxLine
  <2>2. /\ Append(q, n) \in Seq(TxNodes) /\ Len(Append(q, n)) = Len(q) + 1
        /\ Elements(Append(q, n)) = Elements(q) \cup {n}
    BY <2>1, AppendFacts
  <2>3. ASSUME q # <<>>
        PROVE  /\ Append(q, n) # <<>> /\ Head(Append(q, n)) = Head(q)
               /\ Tail(Append(q, n)) = Append(Tail(q), n)
    BY <2>1, <2>3, HeadTailAppend, AppendProperties
  <2> QED
    BY <1>2, <2>1, <2>2, <2>3 DEF TxLine
<1> QED
  BY <1>1, <1>2

LEMMA RxLineFacts ==
  ASSUME NEW q \in Seq(RxNodes), NEW n \in RxNodes \cup {None}
  PROVE  /\ RxLine(n, q) \in Seq(RxNodes)
         /\ Elements(RxLine(n, q)) = Elements(q) \cup ({n} \ {None})
         /\ \A x \in RxNodes : RxLine(n, Append(q, x)) = Append(RxLine(n, q), x)
         /\ Once(q) /\ n \notin Elements(q) => Once(RxLine(n, q))
         /\ n # None => RxLine(n, q) # <<>> /\ Head(RxLine(n, q)) = n /\ Tail(RxLine(n, q)) = q
<1>1. CASE n = None
  <2>1. None \notin RxNodes
    BY NullAssumption DEF Nodes
  <2> QED
    BY <1>1, <2>1 DEF RxLine
<1>2. CASE n # None
  <2> DEFINE s == <<n>>
  <2>1. n \in RxNodes /\ s \in Seq(RxNodes) /\ RxLine(n, q) = s \o q /\ Elements(s) = {n} /\ Once(s)
    BY <1>2 DEF RxLine, Elements, Once
  <2>2. s \o q \in Seq(RxNodes) /\ Elements(s \o q) = {n} \cup Elements(q)
        /\ (Once(q) /\ n \notin Elements(q) => Once(s \o q))
    <3> HIDE DEF s
    <3> QED
      BY <2>1, ConcatFacts
  <2>3. ASSUME NEW x \in RxNodes PROVE RxLine(n, Append(q, x)) = Append(s \o q, x)
    <3>1. <<x>> \in Seq(RxNodes) /\ Append(q, x) = q \o <<x>>
      BY AppendIsConcat
    <3>2. Append(s \o q, x) = (s \o q) \o <<x>>
      BY <2>2, AppendIsConcat
    <3>3. (s \o q) \o <<x>> = s \o (q \o <<x>>)
      BY <2>1, <3>1, ConcatAssociative
    <3> QED
      BY <1>2, <3>1, <3>2, <3>3 DEF RxLine
  <2>4. s \o q # <<>> /\ Head(s \o q) = n /\ Tail(s \o q) = q
    <3>1. /\ Len(s \o q) = Len(q) + 1 /\ DOMAIN (s \o q) = 1 .. Len(q) + 1 /\ Len(q) \in Nat
          /\ (s \o q)[1] = n /\ \A i \in 1 .. Len(q) : (s \o q)[i + 1] = q[i]
      OBVIOUS
    <3>2. s \o q # <<>> /\ Head(s \o q) = n
      BY <3>1
    <3>3. /\ Tail(s \o q) \in Seq(RxNodes) /\ Len(Tail(s \o q)) = Len(q)
          /\ \A i \in 1 .. Len(q) : Tail(s \o q)[i] = q[i]
      BY <2>2, <3>1, <3>2, HeadTailProperties
    <3>4. Tail(s \o q) = q
      BY <3>3, SeqEqual
    <3> QED
      BY <3>2, <3>4
  <2> QED
    BY <1>2, <2>1, <2>2, <2>3, <2>4
<1> QED
  BY <1>1, <1>2

LEMMA LineFacts ==
  ASSUME NEW m, MemOK(m), NEW reading, NEW held, Handy(reading, held)
  PROVE  /\ \A c \in TxConns : /\ LineOf(m, reading, held, c) = TxLine(m.queue[c], held[c])
                               /\ LineOf(m, reading, held, c) \in Seq(TxNodes)
                               /\ c \in Conns /\ held[c] \in TxNodes \cup {None}
                               /\ m.queue[c] \in Seq(TxNodes)
         /\ \A c \in RxConns : /\ LineOf(m, reading, held, c) = RxLine(reading[c], m.queue[c])
                               /\ LineOf(m, reading, held, c) \in Seq(RxNodes)
                               /\ c \in Conns /\ reading[c] \in RxNodes \cup {None}
                               /\ m.queue[c] \in Seq(RxNodes)
<1>1. ASSUME NEW c \in TxConns
      PROVE  /\ LineOf(m, reading, held, c) = TxLine(m.queue[c], held[c])
             /\ LineOf(m, reading, held, c) \in Seq(TxNodes)
             /\ c \in Conns /\ held[c] \in TxNodes \cup {None} /\ m.queue[c] \in Seq(TxNodes)
  <2>1. m.queue[c] \in Seq(TxNodes) /\ held[c] \in TxNodes \cup {None}
    BY DEF MemOK, Handy
  <2> QED
    BY <2>1, TxLineFacts, NameFacts DEF LineOf
<1>2. ASSUME NEW c \in RxConns
      PROVE  /\ LineOf(m, reading, held, c) = RxLine(reading[c], m.queue[c])
             /\ LineOf(m, reading, held, c) \in Seq(RxNodes)
             /\ c \in Conns /\ reading[c] \in RxNodes \cup {None} /\ m.queue[c] \in Seq(RxNodes)
  <2>1. m.queue[c] \in Seq(RxNodes) /\ reading[c] \in RxNodes \cup {None} /\ c \notin TxConns
    BY MemoryAssumption DEF MemOK, Handy
  <2> QED
    BY <2>1, RxLineFacts, NameFacts DEF LineOf
<1> QED
  BY <1>1, <1>2

\* What is to be shown of a step that touches the buffer of connection c.
LEMMA TidyChange ==
  ASSUME NEW m, NEW p, NEW a, NEW b, NEW x, NEW y, Tidy(m, a, x), NEW c \in Conns,
         \A e \in Conns \ {c} :
           /\ p.ring[e] = m.ring[e] /\ LineOf(p, b, y, e) = LineOf(m, a, x, e)
           /\ \A k \in Elements(LineOf(m, a, x, e)) : p.block[k] = m.block[k],
         Packed(p.ring[c], p.block, LineOf(p, b, y, c)),
         \A k \in RxNodes :
           p.block[k] # m.block[k] \/ (c \in RxConns /\ k \in Elements(LineOf(m, a, x, c))) =>
             p.block[k] = NoBlock \/ (c \in RxConns /\ k \in Elements(LineOf(p, b, y, c)))
  PROVE  Tidy(p, b, y)
<1>1. ASSUME NEW e \in Conns PROVE Packed(p.ring[e], p.block, LineOf(p, b, y, e))
  <2>1. CASE e = c
    BY <2>1
  <2>2. CASE e # c
    <3>1. Packed(m.ring[e], m.block, LineOf(m, a, x, e))
      BY DEF Tidy
    <3>2. Packed(m.ring[e], p.block, LineOf(m, a, x, e))
      BY <2>2, <3>1, PackedSame
    <3> QED
      BY <2>2, <3>2
  <2> QED
    BY <2>1, <2>2
<1>2. ASSUME NEW k \in RxNodes, \A e \in RxConns : k \notin Elements(LineOf(p, b, y, e))
      PROVE  p.block[k] = NoBlock
  <2>1. CASE p.block[k] # m.block[k] \/ (c \in RxConns /\ k \in Elements(LineOf(m, a, x, c)))
    BY <1>2, <2>1
  <2>2. CASE ~(p.block[k] # m.block[k] \/ (c \in RxConns /\ k \in Elements(LineOf(m, a, x, c))))
    <3>1. ASSUME NEW e \in RxConns PROVE k \notin Elements(LineOf(m, a, x, e))
      <4>1. CASE e = c
        BY <2>2, <4>1
      <4>2. CASE e # c
        BY <1>2, <4>2, NameFacts
      <4> QED
        BY <4>1, <4>2
    <3>2. m.block[k] = NoBlock
      BY <3>1 DEF Tidy
    <3> QED
      BY <2>2, <3>2
  <2> QED
    BY <2>1, <2>2
<1> QED
  BY <1>1, <1>2 DEF Tidy

\* Only queues, buffers and blocks matter.
LEMMA TidySame ==
  ASSUME NEW m, NEW p, NEW a, NEW x, Tidy(m, a, x),
         p.queue = m.queue, p.ring = m.ring, p.block = m.block
  PROVE  Tidy(p, a, x)
BY DEF Tidy, LineOf

\* A frame that goes from a hand to the queue stays in its line.
LEMMA TidyLines ==
  ASSUME NEW m, NEW p, NEW a, NEW b, NEW x, NEW y, Tidy(m, a, x),
         p.ring = m.ring, p.block = m.block,
         \A c \in Conns : LineOf(p, b, y, c) = LineOf(m, a, x, c)
  PROVE  Tidy(p, b, y)
<1>1. \A c \in RxConns : LineOf(p, b, y, c) = LineOf(m, a, x, c)
  BY NameFacts
<1> QED
  BY <1>1 DEF Tidy

\* The oldest frame sent or dropped.
LEMMA SendDoneTidy ==
  ASSUME NEW m, MemOK(m), NEW a, NEW x, Handy(a, x), Tidy(m, a, x), NEW c \in TxConns
  PROVE  /\ Tidy(SendDone(m, c), a, x)
         /\ \A e \in Conns : Len(SendDone(m, c).queue[e]) <= Len(m.queue[e])
<1> DEFINE q == m.queue[c]
           n == Head(q)
           t == Tail(q)
           r == FreeSpace(m.ring[c], m.block[n].at, m.block[n].bytes)
           w == [m EXCEPT !.queue[c] = t, !.ring[c] = r]
           p == FreeTxNode(w, n)
<1>1. CASE q = <<>>
  <2>1. SendDone(m, c) = m /\ \A e \in Conns : m.queue[e] \in Seq(Nodes)
    BY <1>1 DEF SendDone, MemOK, MemStates
  <2> QED
    BY <2>1
<1>2. CASE q # <<>>
  <2>1. /\ q \in Seq(TxNodes) /\ c \in Conns /\ c \notin RxConns /\ Len(q) <= QueueSize
        /\ x[c] \in TxNodes \cup {None} /\ Len(q) \in Nat /\ QueueSize \in Nat
    BY NameFacts, BytesFacts, MemoryAssumption DEF MemOK, Handy
  <2>2. /\ t \in Seq(TxNodes) /\ Len(t) <= QueueSize /\ Len(t) <= Len(q)
        /\ n \in TxNodes /\ n \in Nodes
    BY <1>2, <2>1, TailFacts DEF Nodes
  <2>3. r \in Rings
    BY <2>1, <2>2, BlockFacts
  <2>4. SendDone(m, c) = p
    BY <1>2 DEF SendDone
  <2>5. Requeues(m, c, t, r, w)
    BY <2>1, <2>2, <2>3 DEF Requeues
  <2>6. r = FreeSpace(m.ring[c], m.block[n].at, m.block[n].bytes)
    OBVIOUS
  <2> HIDE DEF r, w, t, n
  <2>7. /\ MemOK(w) /\ w.block = m.block /\ w.queue[c] = t /\ w.ring[c] = r
        /\ \A e \in Conns \ {c} : w.queue[e] = m.queue[e] /\ w.ring[e] = m.ring[e]
    BY <2>5, MemQueue
  <2>8. p.queue = w.queue /\ p.ring = w.ring /\ p.block = w.block
    BY <2>2, <2>7, FreeTxNodeOK
  <2> DEFINE s == LineOf(m, a, x, c)
  <2>9. /\ s = TxLine(q, x[c]) /\ s \in Seq(TxNodes) /\ s # <<>> /\ Head(s) = n
        /\ Tail(s) = TxLine(t, x[c])
    BY <1>2, <2>1, TxLineFacts DEF LineOf, n, t
  <2>10. LineOf(p, a, x, c) = Tail(s)
    BY <2>7, <2>8, <2>9 DEF LineOf
  <2>11. \A e \in Conns \ {c} : p.ring[e] = m.ring[e] /\ LineOf(p, a, x, e) = LineOf(m, a, x, e)
    BY <2>7, <2>8 DEF LineOf
  <2> HIDE DEF s, p
  <2>12. Packed(p.ring[c], p.block, LineOf(p, a, x, c))
    <3>1. Packed(m.ring[c], m.block, s)
      BY <2>1 DEF Tidy, s
    <3>2. Packed(r, m.block, Tail(s))
      BY <2>6, <2>9, <3>1, PackedShrinks
    <3> QED
      BY <2>7, <2>8, <2>10, <3>2
  <2>13. Tidy(p, a, x)
    BY <2>1, <2>7, <2>8, <2>11, <2>12, TidyChange
  <2>14. ASSUME NEW e \in Conns PROVE Len(p.queue[e]) <= Len(m.queue[e])
    <3>1. Len(m.queue[e]) \in Nat
      BY DEF MemOK, MemStates
    <3> QED
      BY <2>2, <2>7, <2>8, <3>1 DEF q
  <2> QED
    BY <2>4, <2>13, <2>14
<1> QED
  BY <1>1, <1>2

\* The MAC may receive: its node is in no line, so the buffer has room for it.
Spare(m, a, x) ==
  m.rxNode # None =>
    \A c \in RxConns : /\ m.rxNode \notin Elements(LineOf(m, a, x, c))
                       /\ Len(LineOf(m, a, x, c)) < QueueSize

LEMMA ProcessRxNoneTidy ==
  ASSUME NEW m, MemOK(m), NEW a, NEW x, Handy(a, x), Tidy(m, a, x), Spare(m, a, x),
         NEW c \in RxConns
  PROVE  /\ Tidy(ProcessRxNone(m, c), a, x)
         /\ ProcessRxNone(m, c).queue = m.queue
<1> DEFINE n == m.rxNode
           r == FreeSpace(m.ring[c], m.block[n].at, m.block[n].bytes)
           w == [m EXCEPT !.ring[c] = r, !.block[n] = NoBlock]
           p == FreeNodeWithData(m, c, n)
<1>1. n \in RxNodes \cup {None} /\ c \in Conns
  BY NameFacts DEF MemOK, MemStates
<1>2. MemOK(p) /\ p.queue = m.queue /\ p.ring = m.ring /\ p.block = m.block
  <2>1. CASE n = None
    BY <2>1 DEF FreeNodeWithData
  <2>2. CASE n # None
    <3>1. n \in RxNodes /\ n \in Nodes
      BY <1>1, <2>2 DEF Nodes
    <3>2. m.block[n] = NoBlock
      BY <2>2, <3>1 DEF Spare, Tidy
    <3>3. r = m.ring[c]
      BY <3>2 DEF FreeSpace, FreedField, NoBlock
    <3>4. r \in Rings /\ NoBlock \in Blocks
      BY <1>1, <3>1, BlockFacts
    <3>5. p = FreeRxNode(w, n)
      BY <2>2 DEF FreeNodeWithData
    <3>6. Respaces(m, c, r, n, NoBlock, w)
      BY <1>1, <3>1, <3>4 DEF Respaces
    <3> HIDE DEF r, n, w
    <3>7. MemOK(w) /\ w.queue = m.queue
      BY <3>6, MemSpace
    <3>8. w.ring = m.ring /\ w.block = m.block
      <4>1. /\ m.ring \in [Conns -> Rings] /\ m.block \in [Nodes -> Blocks]
            /\ w.ring \in [Conns -> Rings] /\ w.block \in [Nodes -> Blocks]
        BY <3>7 DEF MemOK, MemStates
      <4>2. /\ w.ring[c] = r /\ \A e \in Conns \ {c} : w.ring[e] = m.ring[e]
            /\ w.block[n] = NoBlock /\ \A k \in Nodes \ {n} : w.block[k] = m.block[k]
        BY <3>6, MemBlocks
      <4>3. \A e \in Conns : w.ring[e] = m.ring[e]
        BY <3>3, <4>2
      <4>4. \A k \in Nodes : w.block[k] = m.block[k]
        BY <3>2, <4>2
      <4> QED
        BY <4>1, <4>3, <4>4
    <3>9. MemOK(p) /\ p.queue = w.queue /\ p.ring = w.ring /\ p.block = w.block
      BY <3>1, <3>5, <3>7, FreeRxNodeOK
    <3> QED
      BY <3>7, <3>8, <3>9
  <2> QED
    BY <2>1, <2>2
<1>3. ProcessRxNone(m, c) = [p EXCEPT !.rxNode = None]
  BY DEF ProcessRxNone
<1> HIDE DEF p
<1> DEFINE z == ProcessRxNone(m, c)
<1>4. z.queue = m.queue /\ z.ring = m.ring /\ z.block = m.block
  BY <1>2, <1>3, MemRxNode
<1> QED
  BY <1>4, TidySame

\* Space for a payload received, given back or left to the frame.
LEMMA ProcessRxDataTidy ==
  ASSUME NEW m, MemOK(m), NEW a, NEW x, Handy(a, x), Tidy(m, a, x), Spare(m, a, x),
         NEW c \in RxConns, NEW duplicate
  PROVE  /\ Tidy(ProcessRxData(m, c, duplicate), a, x)
         /\ \A e \in TxConns : ProcessRxData(m, c, duplicate).queue[e] = m.queue[e]
<1> DEFINE n == m.rxNode
           d == m.ring[c]
           s == LineOf(m, a, x, c)
           b == [at |-> Place(d, MaxFrameSize), bytes |-> MaxFrameSize]
           g == AllocateSpace(d, MaxFrameSize)
           got == UpdateRxPayloadBuffer(m, c)
           lost == duplicate \/ got.block[n] = NoBlock \/ Len(got.queue[c]) >= QueueSize
           p == ProcessRxData(m, c, duplicate)
<1>1. CASE n = None
  <2>1. p = m
    BY <1>1 DEF ProcessRxData, UpdateRxPayloadBuffer
  <2> QED
    BY <2>1
<1>2. CASE n # None
  <2>1. /\ n \in RxNodes /\ n \in Nodes /\ c \in Conns /\ c \notin TxConns /\ d \in Rings
        /\ m.ring \in [Conns -> Rings] /\ m.block \in [Nodes -> Blocks]
        /\ s \in Seq(RxNodes) /\ s = RxLine(a[c], m.queue[c]) /\ m.queue[c] \in Seq(RxNodes)
        /\ a[c] \in RxNodes \cup {None} /\ MaxFrameSize \in 0 .. MaxFrameSize
    <3>1. n \in RxNodes /\ n \in Nodes /\ c \in Conns /\ c \notin TxConns
      BY <1>2, NameFacts, MemoryAssumption DEF MemOK, MemStates, Nodes
    <3>2. m.ring \in [Conns -> Rings] /\ m.block \in [Nodes -> Blocks] /\ d \in Rings
      BY <3>1 DEF MemOK, MemStates
    <3>3. /\ s \in Seq(RxNodes) /\ s = RxLine(a[c], m.queue[c]) /\ m.queue[c] \in Seq(RxNodes)
          /\ a[c] \in RxNodes \cup {None}
      BY LineFacts
    <3>4. MaxFrameSize \in 0 .. MaxFrameSize
      BY BytesFacts
    <3> QED
      BY <3>1, <3>2, <3>3, <3>4
  <2>2. /\ n \notin Elements(s) /\ Len(s) < QueueSize /\ m.block[n] = NoBlock
        /\ Packed(d, m.block, s)
    BY <1>2, <2>1 DEF Spare, Tidy
  <2> HIDE DEF s, d
  <2>3. /\ b.at # NoSpace
        /\ \A cut, k : cut[k] = b /\ (\A j \in Elements(s) : cut[j] = m.block[j])
                         => Packed(g, cut, Append(s, k))
        /\ Packed(FreeSpace(g, b.at, b.bytes), m.block, s)
    BY <2>1, <2>2, PackedGrows, Zenon
  <2>4. b \in Blocks /\ g \in Rings
    BY <2>1, <2>3, PlaceFacts
  <2>5. Respaces(m, c, g, n, b, got)
    <3>1. got = [m EXCEPT !.ring[c] = g, !.block[n] = b]
      BY <1>2, <2>3 DEF UpdateRxPayloadBuffer, d
    <3> QED
      BY <2>1, <2>4, <3>1 DEF Respaces
  <2> HIDE DEF b, g, got, n
  <2>6. MemOK(got) /\ got.rxNode = n /\ got.queue = m.queue
    BY <2>5, MemSpace DEF n
  <2>7. /\ got.ring[c] = g /\ got.block[n] = b
        /\ \A e \in Conns \ {c} : got.ring[e] = m.ring[e]
        /\ \A k \in Nodes \ {n} : got.block[k] = m.block[k]
    BY <2>5, MemBlocks
  <2>8. p = IF lost THEN ProcessRxNone(got, c) ELSE [got EXCEPT !.queue[c] = Append(@, n)]
    BY <1>2, <2>6 DEF ProcessRxData, got
  <2>9. ASSUME NEW e \in Conns, NEW k \in Elements(LineOf(m, a, x, e))
        PROVE  k \in Nodes \ {n}
    <3>1. CASE e \in TxConns
      <4>1. k \in TxNodes
        BY <3>1, LineFacts DEF Elements
      <4> QED
        BY <2>1, <4>1, PoolFacts DEF Nodes
    <3>2. CASE e \in RxConns
      <4>1. k \in RxNodes /\ n \notin Elements(LineOf(m, a, x, e))
        BY <1>2, <3>2, LineFacts DEF Elements, Spare, n
      <4> QED
        BY <4>1 DEF Nodes
    <3> QED
      BY <3>1, <3>2 DEF Conns
  <2> HIDE DEF lost, p
  <2>10. CASE lost
    <3> DEFINE r == FreeSpace(g, b.at, b.bytes)
               w == [got EXCEPT !.ring[c] = r, !.block[n] = NoBlock]
               f == FreeRxNode(w, n)
    <3>1. p = [f EXCEPT !.rxNode = None]
      BY <1>2, <2>6, <2>7, <2>8, <2>10 DEF ProcessRxNone, FreeNodeWithData
    <3>2. r \in Rings /\ NoBlock \in Blocks
      BY <2>1, <2>4, FreeSpaceFacts, BlockFacts
    <3>3. Packed(r, m.block, s)
      BY <2>3
    <3>4. Respaces(got, c, r, n, NoBlock, w)
      BY <2>1, <3>2 DEF Respaces
    <3> HIDE DEF r, w, f
    <3>5. MemOK(w) /\ w.queue = m.queue
      BY <2>6, <3>4, MemSpace
    <3>6. /\ w.ring[c] = r /\ \A e \in Conns \ {c} : w.ring[e] = m.ring[e]
          /\ \A k \in Nodes : w.block[k] = m.block[k]
      <4>1. /\ w.ring[c] = r /\ \A e \in Conns \ {c} : w.ring[e] = got.ring[e]
            /\ w.block[n] = NoBlock /\ \A k \in Nodes \ {n} : w.block[k] = got.block[k]
        BY <2>6, <3>4, MemBlocks
      <4> QED
        BY <2>2, <2>7, <4>1
    <3>7. MemOK(f) /\ f.queue = w.queue /\ f.ring = w.ring /\ f.block = w.block
      BY <2>1, <3>5, FreeRxNodeOK DEF f
    <3>8. p.queue = m.queue /\ p.ring = w.ring /\ p.block = w.block
      BY <3>1, <3>5, <3>7, MemRxNode
    <3>9. /\ p.ring[c] = r /\ \A e \in Conns \ {c} : p.ring[e] = m.ring[e]
          /\ \A k \in Nodes : p.block[k] = m.block[k]
      BY <3>6, <3>8
    <3>10. \A e \in Conns : LineOf(p, a, x, e) = LineOf(m, a, x, e)
      BY <3>8 DEF LineOf
    <3>11. Packed(p.ring[c], p.block, LineOf(p, a, x, c))
      <4>1. \A k \in Elements(s) : p.block[k] = m.block[k]
        BY <2>1, <2>9, <3>9 DEF s
      <4>2. Packed(r, p.block, s)
        BY <3>3, <4>1, PackedSame
      <4> QED
        BY <2>1, <3>9, <3>10, <4>2 DEF s
    <3>12. Tidy(p, a, x)
      <4>1. \A e \in Conns : \A k \in Elements(LineOf(m, a, x, e)) : p.block[k] = m.block[k]
        BY <2>9, <3>9
      <4>2. \A k \in RxNodes : p.block[k] = m.block[k]
        BY <3>9 DEF Nodes
      <4> QED
        BY <2>1, <3>9, <3>10, <3>11, <4>1, <4>2, TidyChange
    <3> QED
      BY <3>8, <3>12 DEF p
  <2>11. CASE ~lost
    <3> DEFINE q == Append(m.queue[c], n)
    <3>1. Len(m.queue[c]) < QueueSize
      <4>1. Len(m.queue[c]) \in Nat /\ QueueSize \in Nat
        BY <2>1, BytesFacts
      <4> QED
        BY <2>6, <2>11, <4>1 DEF lost
    <3>2. q \in Seq(RxNodes) /\ Len(q) <= QueueSize
      BY <2>1, <3>1, BytesFacts
    <3>3. p = [got EXCEPT !.queue[c] = q, !.ring[c] = g]
      <4>1. got.queue[c] = m.queue[c] /\ got.ring[c] = g /\ got.ring \in [Conns -> Rings]
            /\ got.queue \in [Conns -> Seq(Nodes)]
        BY <2>6, <2>7 DEF MemOK, MemStates
      <4>2. got \in MemStates
        BY <2>6 DEF MemOK
      <4> QED
        BY <2>1, <2>8, <2>11, <4>1, <4>2 DEF MemStates
    <3>4. Requeues(got, c, q, g, p)
      BY <2>1, <2>4, <3>2, <3>3 DEF Requeues
    <3> HIDE DEF q
    <3>5. /\ p.block = got.block /\ p.queue[c] = q /\ p.ring[c] = g
          /\ \A e \in Conns \ {c} : p.queue[e] = m.queue[e] /\ p.ring[e] = m.ring[e]
      <4>1. /\ p.block = got.block /\ p.queue[c] = q /\ p.ring[c] = g
            /\ \A e \in Conns \ {c} : p.queue[e] = got.queue[e] /\ p.ring[e] = got.ring[e]
        BY <2>6, <3>4, MemQueue
      <4> QED
        BY <2>6, <2>7, <4>1
    <3>6. \A e \in Conns \ {c} : LineOf(p, a, x, e) = LineOf(m, a, x, e)
      BY <3>5 DEF LineOf
    <3>7. LineOf(p, a, x, c) = Append(s, n)
      <4>1. LineOf(p, a, x, c) = RxLine(a[c], Append(m.queue[c], n))
        BY <2>1, <3>5 DEF LineOf, q
      <4>2. RxLine(a[c], Append(m.queue[c], n)) = Append(RxLine(a[c], m.queue[c]), n)
        BY <2>1, RxLineFacts
      <4> QED
        BY <2>1, <4>1, <4>2
    <3>8. \A e \in Conns : \A k \in Elements(LineOf(m, a, x, e)) : p.block[k] = m.block[k]
      BY <2>7, <2>9, <3>5
    <3>9. Packed(p.ring[c], p.block, LineOf(p, a, x, c))
      <4>1. p.block[n] = b /\ \A j \in Elements(s) : p.block[j] = m.block[j]
        BY <2>1, <2>7, <3>5, <3>8 DEF s
      <4> QED
        BY <2>3, <3>5, <3>7, <4>1
    <3>10. Elements(LineOf(p, a, x, c)) = Elements(s) \cup {n}
      BY <2>1, <3>7, AppendFacts
    <3>11. \A k \in RxNodes : p.block[k] # m.block[k] => k = n
      BY <2>7, <3>5 DEF Nodes
    <3>12. Tidy(p, a, x)
      BY <2>1, <3>5, <3>6, <3>8, <3>9, <3>10, <3>11, TidyChange DEF s
    <3>13. \A e \in TxConns : p.queue[e] = m.queue[e]
      BY <2>1, <3>5, NameFacts
    <3> QED
      BY <3>12, <3>13 DEF p
  <2> QED
    BY <2>10, <2>11
<1> QED
  BY <1>1, <1>2

\* The queues of p hold no more to send than those of m.
NoMore(m, p) == \A c \in TxConns : Len(p.queue[c]) <= Len(m.queue[c])

LEMMA PrepareTidy ==
  ASSUME NEW m, MemOK(m), NEW a, NEW x, Handy(a, x), Tidy(m, a, x),
         NEW c \in Conns, NEW p \in Prepare(m, c)
  PROVE  Tidy(p, a, x) /\ NoMore(m, p)
<1>1. \A e \in Conns : Len(m.queue[e]) \in Nat
  BY DEF MemOK, MemStates
<1>2. CASE c \in RxConns
  <2>1. p = PrepareRx(m)
    BY <1>2 DEF Prepare
  <2>2. p.queue = m.queue /\ p.ring = m.ring /\ p.block = m.block
    <3>1. m \in MemStates
      BY DEF MemOK
    <3> QED
      BY <2>1, <3>1 DEF PrepareRx, MemStates
  <2>3. Tidy(p, a, x)
    BY <2>2, TidySame
  <2> QED
    BY <1>1, <2>2, <2>3, NameFacts DEF NoMore
<1>3. CASE c \notin RxConns
  <2>1. c \in TxConns /\ Len(m.queue[c]) \in Nat
    BY <1>1, <1>3 DEF Conns
  <2>2. PICK k \in 0 .. Len(m.queue[c]) : p = PrepareTx(m, c, k)
    BY <1>3 DEF Prepare
  <2>3. k \in Nat
    BY <2>1
  <2> DEFINE S == {w \in MemStates : MemOK(w) /\ Tidy(w, a, x) /\ NoMore(m, w)}
  <2>4. m \in S
    BY <1>1, NameFacts DEF MemOK, NoMore
  <2>5. ASSUME NEW w \in S PROVE SendDone(w, c) \in S
    <3>1. MemOK(w) /\ Tidy(w, a, x) /\ NoMore(m, w)
      OBVIOUS
    <3>2. MemOK(SendDone(w, c)) /\ Tidy(SendDone(w, c), a, x)
          /\ \A e \in Conns : Len(SendDone(w, c).queue[e]) <= Len(w.queue[e])
      BY <2>1, <3>1, SendDoneFacts, SendDoneTidy
    <3>3. ASSUME NEW e \in TxConns PROVE Len(SendDone(w, c).queue[e]) <= Len(m.queue[e])
      <4>1. /\ Len(SendDone(w, c).queue[e]) \in Nat /\ Len(w.queue[e]) \in Nat
            /\ Len(m.queue[e]) \in Nat /\ e \in Conns
        BY <1>1, <3>1, <3>2, NameFacts DEF MemOK, MemStates
      <4> QED
        BY <3>1, <3>2, <4>1 DEF NoMore
    <3> QED
      BY <3>2, <3>3 DEF MemOK, NoMore
  <2> HIDE DEF S
  <2>6. PICK w \in S : p = Prepared(w)
    <3>1. \A w \in S : SendDone(w, c) \in S
      BY <2>5
    <3>2. \E w \in S : PrepareTx(m, c, k) = Prepared(w)
      BY <2>3, <2>4, <3>1, DropsKeep
    <3> QED
      BY <2>2, <3>2
  <2>7. MemOK(w) /\ Tidy(w, a, x) /\ NoMore(m, w) /\ w \in MemStates
    BY DEF S
  <2>8. p.queue = w.queue /\ p.ring = w.ring /\ p.block = w.block
    BY <2>6, <2>7 DEF MemStates, Prepared
  <2>9. Tidy(p, a, x)
    BY <2>7, <2>8, TidySame
  <2> QED
    BY <2>7, <2>8, <2>9 DEF NoMore
<1> QED
  BY <1>2, <1>3

LEMMA ProcessTidy ==
  ASSUME NEW m, MemOK(m), NEW a, NEW x, Handy(a, x), Tidy(m, a, x), Spare(m, a, x),
         NEW c \in Conns, NEW p \in Process(m, c)
  PROVE  Tidy(p, a, x) /\ NoMore(m, p)
<1>1. \A e \in TxConns : Len(m.queue[e]) \in Nat /\ e \in Conns
  BY NameFacts DEF MemOK, MemStates
<1>2. CASE c \in RxConns
  <2>1. p \in {ProcessRxNone(m, c), ProcessRxData(m, c, TRUE), ProcessRxData(m, c, FALSE)}
    BY <1>2 DEF Process
  <2>2. Tidy(p, a, x) /\ \A e \in TxConns : p.queue[e] = m.queue[e]
    <3>1. CASE p = ProcessRxNone(m, c)
      BY <1>2, <3>1, ProcessRxNoneTidy
    <3>2. CASE p = ProcessRxData(m, c, TRUE)
      BY <1>2, <3>2, ProcessRxDataTidy
    <3>3. CASE p = ProcessRxData(m, c, FALSE)
      BY <1>2, <3>3, ProcessRxDataTidy
    <3> QED
      BY <2>1, <3>1, <3>2, <3>3
  <2> QED
    BY <1>1, <2>2 DEF NoMore
<1>3. CASE c \notin RxConns
  <2>1. p \in {m, SendDone(m, c)} /\ c \in TxConns
    BY <1>3 DEF Process, Conns
  <2>2. CASE p = m
    BY <1>1, <2>2 DEF NoMore
  <2>3. CASE p = SendDone(m, c)
    BY <1>1, <2>1, <2>3, SendDoneTidy DEF NoMore
  <2> QED
    BY <2>1, <2>2, <2>3
<1> QED
  BY <1>2, <1>3

-----------------------------------------------------------------------------
(* The invariant of the buffers *)

\* What the application is reading: the frame keeps its bytes until they are
\* given back.
Reading ==
  [c \in RxConns |-> IF app.at \in {"dequeued", "freeing"} /\ app.conn = c THEN app.node ELSE None]

\* Buffers hold their lines; a slot the application has, or is about to get,
\* has its place in the queue; and nothing has changed since the application
\* looked at the buffer.
Space ==
  /\ Tidy(mem, Reading, txNode)
  /\ \A c \in TxConns : txNode[c] # None => Len(mem.queue[c]) < QueueSize
  /\ app.at = "allocating" => /\ Len(mem.queue[app.conn]) < QueueSize
                              /\ app.data = NextBlock(app.conn)
  /\ app.at = "freeing" =>
       LET b == mem.block[app.node]
       IN  app.data = FreedField(mem.ring[app.conn], b.at, b.bytes)

SpaceInv == cfg.ackFrames /\ Orderly => Space

LEMMA ReadingFacts ==
  ASSUME TypeOK
  PROVE  /\ Handy(Reading, txNode)
         /\ \A c \in RxConns : Reading[c] # None =>
              app.at \in {"dequeued", "freeing"} /\ app.conn = c /\ Reading[c] = app.node
<1>1. app \in AppStates /\ txNode \in [TxConns -> TxNodes \cup {None}]
  BY DEF TypeOK
<1>2. app.at \in {"dequeued", "freeing"} => app.node \in RxNodes
  BY <1>1, AppFacts
<1> QED
  BY <1>1, <1>2 DEF Handy, Reading

\* A node in a hand is in no queue and in no other hand.
LEMMA HeldOnce ==
  ASSUME MemoryInv, cfg.ackFrames, NEW n \in Nodes
  PROVE  /\ \A c \in Conns : Once(mem.queue[c])
         /\ (connected /\ mem.rxNode = n) \/ app.node = n =>
              \A c \in Conns : n \notin Elements(mem.queue[c])
         /\ connected /\ mem.rxNode = n => app.node # n
         /\ app.node = n => \A c \in TxConns : txNode[c] # n
<1> DEFINE L == ListsOf(mem)
           H == TheHands
<1>1. Balanced(L, H) /\ TypeOK /\ mem \in MemStates /\ n # None
  BY NullAssumption DEF MemoryInv, TypeOK
<1>2. \A c \in Conns : L[Queue(c)] = mem.queue[c] /\ Queue(c) \in Lists
  BY <1>1, ListsFacts, NameFacts
<1>3. /\ H[TheMac] = MacNode /\ H[TheApp] = app.node /\ \A c \in TxConns : H[Held(c)] = txNode[c]
      /\ TheMac \in Hands /\ TheApp \in Hands /\ TheMac # TheApp
      /\ \A c \in TxConns : Held(c) \in Hands /\ Held(c) # TheApp
  BY <1>1, HandsNow, NameFacts
<1>4. /\ \A l \in Lists : Once(L[l])
      /\ \A h, k \in Hands : H[h] = n /\ H[k] = n => h = k
      /\ \A l \in Lists, h \in Hands : H[h] = n => n \notin Elements(L[l])
  BY <1>1 DEF Balanced
<1> HIDE DEF L, H
<1> QED
  BY <1>2, <1>3, <1>4 DEF MacNode

\* A receive connection alone in its pool: a node the MAC holds is one that its
\* line lacks.
LEMMA SpareNow ==
  ASSUME MemoryInv, cfg.ackFrames, connected, Cardinality(RxConns) <= 1
  PROVE  Spare(mem, Reading, txNode)
<1> SUFFICES ASSUME mem.rxNode # None, NEW c \in RxConns
             PROVE  /\ mem.rxNode \notin Elements(LineOf(mem, Reading, txNode, c))
                    /\ Len(LineOf(mem, Reading, txNode, c)) < QueueSize
  BY DEF Spare
<1> DEFINE n == mem.rxNode
           s == LineOf(mem, Reading, txNode, c)
           q == mem.queue[c]
           r == Reading[c]
<1>1. TypeOK /\ MemOK(mem) /\ Handy(Reading, txNode)
  BY TypeFacts, ReadingFacts DEF MemoryInv
<1>2. /\ s = RxLine(r, q) /\ s \in Seq(RxNodes) /\ c \in Conns
      /\ q \in Seq(RxNodes) /\ r \in RxNodes \cup {None}
  BY <1>1, LineFacts
<1>3. n \in RxNodes /\ n \in Nodes
  BY <1>1 DEF MemOK, MemStates, Nodes
<1>4. Once(q) /\ n \notin Elements(q) /\ app.node # n
  BY <1>2, <1>3, HeldOnce
<1>5. r # n /\ r \notin Elements(q)
  <2>1. CASE r = None
    <3>1. None \notin RxNodes
      BY NullAssumption DEF Nodes
    <3> QED
      BY <1>2, <1>3, <2>1, <3>1 DEF Elements
  <2>2. CASE r # None
    <3>1. r = app.node /\ r \in Nodes
      BY <1>1, <1>2, <2>2, ReadingFacts DEF Nodes
    <3> QED
      BY <1>2, <1>4, <3>1, HeldOnce
  <2> QED
    BY <2>1, <2>2
<1> HIDE DEF q, r, n, s
<1>6. Once(s) /\ n \notin Elements(s)
  BY <1>2, <1>3, <1>4, <1>5, RxLineFacts
<1>7. Len(s) < Cardinality(RxNodes)
  BY <1>2, <1>3, <1>6, PoolFacts, ShorterThanPool
<1>8. Cardinality(RxNodes) = QueueSize
  <2>1. Cardinality(RxConns) \in Nat /\ RxConns # {} /\ QueueSize \in Nat
    BY MemoryAssumption, FS_CardinalityType
  <2>2. Cardinality(RxConns) # 0
    BY <2>1, MemoryAssumption, FS_EmptySet
  <2>3. Cardinality(RxConns) = 1
    BY <2>1, <2>2
  <2> QED
    BY <2>1, <2>3, PoolFacts
<1> QED
  BY <1>6, <1>7, <1>8 DEF n, s

\* Steps that touch neither queues nor buffers.
LEMMA SpaceStill ==
  ASSUME Space, mem'.queue = mem.queue, mem'.ring = mem.ring, mem'.block = mem.block,
         Reading' = Reading, txNode' = txNode,
         app'.at = "allocating" => /\ Len(mem.queue[app'.conn]) < QueueSize
                                   /\ app'.data = NextBlock(app'.conn),
         app'.at = "freeing" => LET b == mem.block[app'.node]
                                IN  app'.data = FreedField(mem.ring[app'.conn], b.at, b.bytes)
  PROVE  Space'
<1>1. Tidy(mem', Reading', txNode')
  BY TidySame DEF Space
<1>2. app'.at = "allocating" =>
        app'.data = [at |-> Place(mem'.ring[app'.conn], MaxFrameSize), bytes |-> MaxFrameSize]
  BY DEF NextBlock
<1> QED
  BY <1>1, <1>2 DEF Space, NextBlock

LEMMA SpaceFrameOutcome ==
  ASSUME MemoryInv, MemoryInv', Space, cfg.ackFrames, Orderly, Cardinality(RxConns) <= 1, FrameOutcome
  PROVE  Space'
<1>1. PICK c \in Conns, m \in Process(mem, slot.conn) : mem' \in Prepare(m, c)
  BY DEF FrameOutcome
<1>2. /\ connected /\ slot.conn \in Conns /\ app' = app /\ txNode' = txNode
      /\ app.at # "allocating" /\ app.at # "freeing"
  BY DEF FrameOutcome, MemoryInv, SlotInv, Interruptible, Orderly
<1>3. MemOK(mem) /\ MemOK(mem') /\ Handy(Reading, txNode) /\ Spare(mem, Reading, txNode)
  BY <1>2, TypeFacts, TypeFactsNext, ReadingFacts, SpareNow DEF MemoryInv
<1>4. MemOK(m) /\ Tidy(m, Reading, txNode) /\ NoMore(mem, m)
  BY <1>1, <1>2, <1>3, ProcessFacts, ProcessTidy DEF Space
<1>5. Tidy(mem', Reading, txNode) /\ NoMore(m, mem')
  BY <1>1, <1>3, <1>4, PrepareTidy
<1>6. Reading' = Reading
  BY <1>2 DEF Reading
<1>7. ASSUME NEW e \in TxConns, txNode[e] # None PROVE Len(mem'.queue[e]) < QueueSize
  <2>1. /\ Len(mem.queue[e]) \in Nat /\ Len(m.queue[e]) \in Nat /\ Len(mem'.queue[e]) \in Nat
        /\ QueueSize \in Nat
    BY <1>3, <1>4, NameFacts, BytesFacts DEF MemOK, MemStates
  <2>2. Len(mem.queue[e]) < QueueSize
    BY <1>7 DEF Space
  <2> QED
    BY <1>4, <1>5, <2>1, <2>2 DEF NoMore
<1> QED
  BY <1>2, <1>5, <1>6, <1>7 DEF Space

LEMMA SpaceConfigComplete ==
  ASSUME MemoryInv, Space, Orderly, ConfigComplete
  PROVE  Space'
<1>1. /\ app' = app /\ txNode' = txNode /\ app.at # "allocating" /\ app.at # "freeing"
  BY DEF ConfigComplete, Interruptible, Orderly
<1>2. MemOK(mem) /\ mem.rxNode \in RxNodes \cup {None}
  BY TypeFacts DEF MemoryInv, MemOK, MemStates
<1>3. mem'.queue = mem.queue /\ mem'.ring = mem.ring /\ mem'.block = mem.block
  <2>1. mem' = FreeRxNode(mem, mem.rxNode) \/ mem' = mem
    BY DEF ConfigComplete, ProcessDisconnectRequest
  <2> QED
    BY <1>2, <2>1, FreeRxNodeOK
<1>4. Reading' = Reading
  BY <1>1 DEF Reading
<1> QED
  BY <1>1, <1>3, <1>4, SpaceStill

LEMMA SpaceConnect ==
  ASSUME MemoryInv, MemoryInv', Space, Connect
  PROVE  Space'
<1>1. PICK c \in Conns : mem' \in Prepare(mem, c)
  BY DEF Connect
<1>2. app = Idle /\ app' = app /\ txNode' = txNode
  BY DEF Connect, Ready
<1>3. MemOK(mem) /\ MemOK(mem') /\ Handy(Reading, txNode)
  BY TypeFacts, TypeFactsNext, ReadingFacts DEF MemoryInv
<1>4. Tidy(mem', Reading, txNode) /\ NoMore(mem, mem')
  BY <1>1, <1>3, PrepareTidy DEF Space
<1>5. Reading' = Reading /\ app'.at = "idle"
  BY <1>2 DEF Reading, Idle
<1>6. ASSUME NEW e \in TxConns, txNode[e] # None PROVE Len(mem'.queue[e]) < QueueSize
  <2>1. Len(mem.queue[e]) \in Nat /\ Len(mem'.queue[e]) \in Nat /\ QueueSize \in Nat
    BY <1>3, NameFacts, BytesFacts DEF MemOK, MemStates
  <2>2. Len(mem.queue[e]) < QueueSize
    BY <1>6 DEF Space
  <2> QED
    BY <1>4, <2>1, <2>2 DEF NoMore
<1> QED
  BY <1>2, <1>4, <1>5, <1>6 DEF Space

LEMMA SpaceGetFreeSlot ==
  ASSUME MemoryInv, Space, FrameSizes \subseteq {MaxFrameSize}, NEW c \in TxConns, GetFreeSlot(c)
  PROVE  Space'
<1>1. /\ app = Idle /\ txNode' = txNode /\ Len(mem.queue[c]) < QueueSize
      /\ mem' = [mem EXCEPT !.freeTx = Tail(@)]
      /\ app' = [at |-> "allocating", conn |-> c, node |-> Head(mem.freeTx), data |-> NextBlock(c)]
  BY DEF GetFreeSlot, Ready, NextBlock
<1>2. mem \in MemStates
  BY DEF MemoryInv, TypeOK
<1>3. mem'.queue = mem.queue /\ mem'.ring = mem.ring /\ mem'.block = mem.block
  BY <1>1, <1>2 DEF MemStates
<1>4. Reading' = Reading
  BY <1>1 DEF Reading, Idle
<1>5. app'.at = "allocating" /\ app'.conn = c /\ app'.data = NextBlock(c)
  BY <1>1
<1> QED
  BY <1>1, <1>3, <1>4, <1>5, SpaceStill

LEMMA SpaceNoPlace ==
  ASSUME MemoryInv, Space, Allocated, app.data.at = NoSpace
  PROVE  Space'
<1>1. /\ app.at = "allocating" /\ mem' = FreeTxNode(mem, app.node) /\ app' = Idle /\ txNode' = txNode
  BY DEF Allocated
<1>2. MemOK(mem) /\ app.node \in TxNodes
  BY <1>1, TypeFacts, AppFacts DEF MemoryInv
<1>3. mem'.queue = mem.queue /\ mem'.ring = mem.ring /\ mem'.block = mem.block
  BY <1>1, <1>2, FreeTxNodeOK
<1>4. Reading' = Reading /\ app'.at = "idle"
  BY <1>1 DEF Reading, Idle
<1> QED
  BY <1>1, <1>3, <1>4, SpaceStill

LEMMA SpacePlaced ==
  ASSUME MemoryInv, Space, cfg.ackFrames, Allocated, app.data.at # NoSpace
  PROVE  Space'
<1> DEFINE c == app.conn
           n == app.node
           d == mem.ring[c]
           b == [at |-> Place(d, MaxFrameSize), bytes |-> MaxFrameSize]
           g == AllocateSpace(d, MaxFrameSize)
           s == LineOf(mem, Reading, txNode, c)
<1>1. /\ app.at = "allocating" /\ app' = Idle
      /\ mem' = [mem EXCEPT !.ring[c].lastHead = app.data.at,
                            !.ring[c].head = app.data.at + app.data.bytes,
                            !.block[n] = app.data]
      /\ txNode' = [txNode EXCEPT ![c] = n]
  BY DEF Allocated
<1>2. app.data = b /\ Len(mem.queue[c]) < QueueSize /\ txNode[c] = None
  BY <1>1 DEF Space, NextBlock, MemoryInv, SlotInv
<1>3. /\ MemOK(mem) /\ mem \in MemStates /\ Handy(Reading, txNode)
      /\ txNode \in [TxConns -> TxNodes \cup {None}]
  BY TypeFacts, ReadingFacts DEF MemoryInv, MemOK, TypeOK
<1>4. c \in TxConns /\ c \in Conns /\ c \notin RxConns /\ n \in TxNodes /\ n \in Nodes /\ d \in Rings
  <2>1. c \in TxConns /\ n \in TxNodes
    BY <1>1, TypeFacts, AppFacts DEF MemoryInv
  <2> QED
    BY <1>3, <2>1, NameFacts, MemoryAssumption, BlockFacts DEF Nodes
<1>5. s = mem.queue[c] /\ s \in Seq(TxNodes)
  BY <1>2, <1>3, <1>4, LineFacts DEF TxLine
<1>6. /\ g = [d EXCEPT !.lastHead = b.at, !.head = b.at + b.bytes]
      /\ \A cut, k : cut[k] = b /\ (\A j \in Elements(s) : cut[j] = mem.block[j])
                       => Packed(g, cut, Append(s, k))
  <2>1. Packed(d, mem.block, s)
    BY <1>4 DEF Space, Tidy
  <2>2. Len(s) < QueueSize
    BY <1>2, <1>5
  <2>3. g = [d EXCEPT !.lastHead = b.at, !.head = b.at + b.bytes]
    <3> HIDE DEF d
    <3> QED
      BY <1>2 DEF AllocateSpace
  <2> HIDE DEF d, s
  <2>4. \A cut, k : cut[k] = b /\ (\A j \in Elements(s) : cut[j] = mem.block[j])
                     => Packed(g, cut, Append(s, k))
    <3>1. s \in Seq(TxNodes)
      BY <1>5
    <3> QED
      BY <2>1, <2>2, <3>1, PackedGrows
  <2> QED
    BY <2>3, <2>4
<1> HIDE DEF b, g
<1>7. mem' = [mem EXCEPT !.ring[c] = g, !.block[n] = b]
  <2> DEFINE u == b.at
             v == b.at + b.bytes
  <2>1. mem' = [mem EXCEPT !.ring[c].lastHead = u, !.ring[c].head = v, !.block[n] = b]
    BY <1>1, <1>2
  <2>2. g = [d EXCEPT !.lastHead = u, !.head = v]
    BY <1>6
  <2> HIDE DEF u, v, c, n
  <2>3. [mem EXCEPT !.ring[c].lastHead = u, !.ring[c].head = v]
          = [mem EXCEPT !.ring[c] = [(mem.ring[c]) EXCEPT !.lastHead = u, !.head = v]]
    BY <1>3, <1>4 DEF MemStates, Rings
  <2> QED
    BY <1>3, <1>4, <2>1, <2>2, <2>3 DEF MemStates
<1>8. /\ mem'.queue = mem.queue /\ mem'.ring[c] = g /\ mem'.block[n] = b
      /\ \A e \in Conns \ {c} : mem'.ring[e] = mem.ring[e]
      /\ \A k \in Nodes \ {n} : mem'.block[k] = mem.block[k]
  <2>1. mem.ring \in [Conns -> Rings] /\ mem.block \in [Nodes -> Blocks]
    BY <1>3 DEF MemStates
  <2>2. /\ mem'.queue = mem.queue /\ mem'.ring = [mem.ring EXCEPT ![c] = g]
        /\ mem'.block = [mem.block EXCEPT ![n] = b]
    BY <1>3, <1>7 DEF MemStates
  <2> HIDE DEF c, n
  <2> QED
    BY <1>4, <2>1, <2>2
<1>9. Reading' = Reading /\ app'.at = "idle"
  BY <1>1 DEF Reading, Idle
<1>10. txNode'[c] = n /\ \A e \in TxConns \ {c} : txNode'[e] = txNode[e]
  BY <1>1, <1>3, <1>4
<1> HIDE DEF c, n, d, s
<1>11. /\ \A e \in Conns \ {c} : LineOf(mem', Reading', txNode', e) = LineOf(mem, Reading, txNode, e)
       /\ LineOf(mem', Reading', txNode', c) = Append(s, n)
  <2>1. n # None
    BY <1>4, NullAssumption
  <2> QED
    BY <1>4, <1>5, <1>8, <1>9, <1>10, <2>1 DEF LineOf, TxLine
<1>12. ASSUME NEW e \in Conns, NEW k \in Elements(LineOf(mem, Reading, txNode, e))
       PROVE  mem'.block[k] = mem.block[k]
  <2>1. CASE e \in TxConns
    <3> DEFINE q == mem.queue[e]
    <3>1. n \notin Elements(q) /\ txNode[e] # n
      BY <1>4, <2>1, HeldOnce, NameFacts DEF n
    <3>2. /\ q \in Seq(TxNodes) /\ txNode[e] \in TxNodes \cup {None}
          /\ LineOf(mem, Reading, txNode, e) = TxLine(q, txNode[e])
      BY <1>3, <2>1, LineFacts
    <3> HIDE DEF q
    <3>3. k \in TxNodes /\ k # n
      <4>1. CASE txNode[e] = None
        BY <3>1, <3>2, <4>1 DEF TxLine, Elements
      <4>2. CASE txNode[e] # None
        <5>1. Elements(Append(q, txNode[e])) = Elements(q) \cup {txNode[e]}
          BY <3>2, <4>2, AppendFacts
        <5>2. k \in Elements(q) \cup {txNode[e]}
          BY <3>2, <4>2, <5>1 DEF TxLine
        <5> QED
          BY <3>1, <3>2, <4>2, <5>2 DEF Elements
      <4> QED
        BY <4>1, <4>2
    <3> QED
      BY <1>8, <3>3 DEF Nodes
  <2>2. CASE e \in RxConns
    <3>1. k \in RxNodes
      BY <1>3, <2>2, LineFacts DEF Elements
    <3>2. k # n
      BY <1>4, <3>1, PoolFacts
    <3> QED
      BY <1>8, <3>1, <3>2 DEF Nodes
  <2> QED
    BY <2>1, <2>2 DEF Conns
<1>13. Packed(mem'.ring[c], mem'.block, LineOf(mem', Reading', txNode', c))
  <2>1. \A j \in Elements(s) : mem'.block[j] = mem.block[j]
    BY <1>4, <1>12 DEF s
  <2> QED
    BY <1>6, <1>8, <1>11, <2>1
<1>14. ASSUME NEW k \in RxNodes PROVE mem'.block[k] = mem.block[k]
  <2>1. k # n
    BY <1>4, PoolFacts
  <2> QED
    BY <1>8, <2>1 DEF Nodes
<1>15. Tidy(mem', Reading', txNode')
  <2>1. Tidy(mem, Reading, txNode)
    BY DEF Space
  <2> QED
    <3>1. \A e \in Conns \ {c} :
            /\ mem'.ring[e] = mem.ring[e]
            /\ LineOf(mem', Reading', txNode', e) = LineOf(mem, Reading, txNode, e)
            /\ \A k \in Elements(LineOf(mem, Reading, txNode, e)) : mem'.block[k] = mem.block[k]
      BY <1>8, <1>11, <1>12
    <3>2. \A k \in RxNodes :
            ~(mem'.block[k] # mem.block[k]
                \/ (c \in RxConns /\ k \in Elements(LineOf(mem, Reading, txNode, c))))
      BY <1>4, <1>14
    <3> QED
      BY <1>4, <1>13, <2>1, <3>1, <3>2, TidyChange
<1>16. ASSUME NEW e \in TxConns, txNode'[e] # None PROVE Len(mem'.queue[e]) < QueueSize
  <2>1. CASE e = c
    BY <1>2, <1>8, <2>1 DEF c
  <2>2. CASE e # c
    BY <1>8, <1>10, <1>16, <2>2 DEF Space
  <2> QED
    BY <2>1, <2>2
<1> QED
  BY <1>9, <1>15, <1>16 DEF Space

LEMMA SpaceSend ==
  ASSUME MemoryInv, Space, NEW c \in TxConns, Send(c)
  PROVE  Space'
<1> DEFINE n == txNode[c]
           q == Append(mem.queue[c], n)
<1>1. /\ app = Idle /\ app' = app /\ n # None
      /\ mem' = [mem EXCEPT !.queue[c] = q]
      /\ txNode' = [txNode EXCEPT ![c] = None]
  BY DEF Send, Ready
<1>2. /\ mem \in MemStates /\ mem.queue \in [Conns -> Seq(Nodes)] /\ c \in Conns
      /\ txNode \in [TxConns -> TxNodes \cup {None}]
  BY NameFacts DEF MemoryInv, TypeOK, MemStates
<1>3. /\ mem'.ring = mem.ring /\ mem'.block = mem.block
      /\ mem'.queue[c] = q /\ \A e \in Conns \ {c} : mem'.queue[e] = mem.queue[e]
  <2> HIDE DEF q
  <2>1. /\ mem'.ring = mem.ring /\ mem'.block = mem.block
        /\ mem'.queue = [mem.queue EXCEPT ![c] = q]
    BY <1>1, <1>2 DEF MemStates
  <2> QED
    BY <1>2, <2>1
<1>4. txNode'[c] = None /\ \A e \in TxConns \ {c} : txNode'[e] = txNode[e]
  BY <1>1, <1>2
<1>5. Reading' = Reading /\ app'.at = "idle"
  BY <1>1 DEF Reading, Idle
<1>6. ASSUME NEW e \in Conns
      PROVE  LineOf(mem', Reading', txNode', e) = LineOf(mem, Reading, txNode, e)
  <2>1. CASE e = c
    BY <1>1, <1>3, <1>4, <2>1 DEF LineOf, TxLine
  <2>2. CASE e # c
    BY <1>3, <1>4, <1>5, <2>2 DEF LineOf
  <2> QED
    BY <2>1, <2>2
<1>7. Tidy(mem', Reading', txNode')
  BY <1>3, <1>6, TidyLines DEF Space
<1>8. ASSUME NEW e \in TxConns, txNode'[e] # None PROVE Len(mem'.queue[e]) < QueueSize
  BY <1>3, <1>4, <1>8, NameFacts DEF Space
<1> QED
  BY <1>5, <1>7, <1>8 DEF Space

LEMMA ReadLine ==
  ASSUME NEW q \in Seq(RxNodes), q # <<>>
  PROVE  Head(q) \in RxNodes /\ RxLine(Head(q), Tail(q)) = q
<1> DEFINE n == Head(q)
           s == <<n>>
           t == Tail(q)
<1>1. /\ n \in RxNodes /\ n = q[1] /\ t \in Seq(RxNodes) /\ Len(t) = Len(q) - 1
      /\ Len(q) \in Nat \ {0} /\ \A i \in 1 .. Len(t) : t[i] = q[i + 1]
  BY HeadTailProperties
<1>2. n # None
  BY <1>1, NullAssumption DEF Nodes
<1>3. s \in Seq(RxNodes) /\ Len(s) = 1 /\ s[1] = n
  BY <1>1
<1> HIDE DEF s, t, n
<1>4. /\ s \o t \in Seq(RxNodes) /\ Len(s \o t) = Len(s) + Len(t)
      /\ \A i \in 1 .. Len(s) + Len(t) : (s \o t)[i] = IF i <= Len(s) THEN s[i] ELSE t[i - Len(s)]
  BY <1>1, <1>3, ConcatProperties
<1>5. Len(s \o t) = Len(q) /\ \A i \in 1 .. Len(q) : (s \o t)[i] = q[i]
  <2>1. Len(s \o t) = Len(q) /\ Len(s) + Len(t) = Len(q)
    BY <1>1, <1>3, <1>4
  <2>2. ASSUME NEW i \in 1 .. Len(q) PROVE (s \o t)[i] = q[i]
    <3>1. CASE i = 1
      BY <1>1, <1>3, <1>4, <2>1, <3>1
    <3>2. CASE i # 1
      <4>1. i - 1 \in 1 .. Len(t) /\ (i - 1) + 1 = i /\ ~(i <= Len(s)) /\ i - Len(s) = i - 1
        BY <1>1, <1>3, <3>2
      <4>2. t[i - 1] = q[i]
        BY <1>1, <4>1
      <4> QED
        BY <1>4, <2>1, <4>1, <4>2
    <3> QED
      BY <3>1, <3>2
  <2> QED
    BY <2>1, <2>2
<1>6. s \o t = q
  BY <1>4, <1>5, SeqEqual
<1> QED
  BY <1>1, <1>2, <1>6 DEF RxLine, s, t, n

LEMMA SpaceReadDone ==
  ASSUME MemoryInv, Space, NEW c \in RxConns, ReadDone(c)
  PROVE  Space'
<1> DEFINE q == mem.queue[c]
           n == Head(q)
           t == Tail(q)
<1>1. /\ app = Idle /\ txNode' = txNode /\ q # <<>>
      /\ mem' = [mem EXCEPT !.queue[c] = t]
      /\ app' = [at |-> "dequeued", conn |-> c, node |-> n, data |-> None]
  BY DEF ReadDone, Ready
<1>2. /\ mem \in MemStates /\ mem.queue \in [Conns -> Seq(Nodes)] /\ c \in Conns /\ c \notin TxConns
      /\ q \in Seq(RxNodes)
  BY NameFacts, MemoryAssumption DEF MemoryInv, TypeOK, MemStates
<1>3. RxLine(n, t) = q
  BY <1>1, <1>2, ReadLine
<1> HIDE DEF t, n, q
<1>4. /\ mem'.ring = mem.ring /\ mem'.block = mem.block
      /\ mem'.queue[c] = t /\ \A e \in Conns \ {c} : mem'.queue[e] = mem.queue[e]
  <2>1. /\ mem'.ring = mem.ring /\ mem'.block = mem.block
        /\ mem'.queue = [mem.queue EXCEPT ![c] = t]
    BY <1>1, <1>2 DEF MemStates
  <2> QED
    BY <1>2, <2>1
<1>5. /\ \A e \in RxConns : Reading[e] = None
      /\ Reading'[c] = n /\ \A e \in RxConns \ {c} : Reading'[e] = None
  BY <1>1 DEF Reading, Idle
<1>6. ASSUME NEW e \in Conns
      PROVE  LineOf(mem', Reading', txNode', e) = LineOf(mem, Reading, txNode, e)
  <2>1. CASE e = c
    <3>1. LineOf(mem', Reading', txNode', c) = RxLine(n, t)
      BY <1>2, <1>4, <1>5 DEF LineOf
    <3>2. LineOf(mem, Reading, txNode, c) = q
      BY <1>2, <1>5 DEF LineOf, RxLine, q
    <3> QED
      BY <1>3, <2>1, <3>1, <3>2
  <2>2. CASE e # c
    BY <1>1, <1>4, <1>5, <2>2 DEF LineOf, Conns
  <2> QED
    BY <2>1, <2>2
<1>7. Tidy(mem', Reading', txNode')
  BY <1>4, <1>6, TidyLines DEF Space
<1>8. ASSUME NEW e \in TxConns, txNode'[e] # None PROVE Len(mem'.queue[e]) < QueueSize
  <2>1. e \in Conns /\ e # c
    BY <1>2, NameFacts
  <2> QED
    BY <1>1, <1>4, <1>8, <2>1 DEF Space
<1>9. app'.at = "dequeued"
  BY <1>1
<1> QED
  BY <1>7, <1>8, <1>9 DEF Space

LEMMA SpaceFreeingSpace ==
  ASSUME MemoryInv, Space, FreeingSpace
  PROVE  Space'
<1> DEFINE b == mem.block[app.node]
           f == FreedField(mem.ring[app.conn], b.at, b.bytes)
<1>1. /\ app.at = "dequeued" /\ app' = [app EXCEPT !.at = "freeing", !.data = f]
      /\ mem' = mem /\ txNode' = txNode
  BY DEF FreeingSpace
<1>2. app \in AppStates
  BY DEF MemoryInv, TypeOK
<1> HIDE DEF f
<1>3. app'.at = "freeing" /\ app'.conn = app.conn /\ app'.node = app.node /\ app'.data = f
  BY <1>1, <1>2 DEF AppStates, Idle
<1>4. Reading' = Reading
  BY <1>1, <1>3 DEF Reading
<1> QED
  BY <1>1, <1>3, <1>4, SpaceStill DEF f

LEMMA SpaceFreedSpace ==
  ASSUME MemoryInv, Space, cfg.ackFrames, FreedSpace
  PROVE  Space'
<1> DEFINE c == app.conn
           n == app.node
           b == mem.block[n]
           d == mem.ring[c]
           q == mem.queue[c]
           s == LineOf(mem, Reading, txNode, c)
           r == FreeSpace(d, b.at, b.bytes)
<1>1. /\ app.at = "freeing" /\ app' = [app EXCEPT !.at = "freed", !.data = None] /\ txNode' = txNode
      /\ app.data = FreedField(d, b.at, b.bytes)
  BY DEF FreedSpace, Space
<1>2. /\ MemOK(mem) /\ mem \in MemStates /\ app \in AppStates /\ Handy(Reading, txNode)
      /\ mem.ring \in [Conns -> Rings] /\ mem.block \in [Nodes -> Blocks]
  BY TypeFacts, ReadingFacts DEF MemoryInv, MemOK, MemStates
<1>3. /\ c \in RxConns /\ c \in Conns /\ c \notin TxConns /\ n \in RxNodes /\ n \in Nodes /\ n # None
      /\ Reading[c] = n
  <2>1. c \in RxConns /\ n \in RxNodes
    BY <1>1, <1>2, AppFacts
  <2> QED
    BY <1>1, <2>1, NameFacts, MemoryAssumption, NullAssumption DEF Nodes, Reading
<1>4. mem' = [mem EXCEPT !.ring[c] = r, !.block[n] = NoBlock]
  <2>1. PICK head \in {b.at, d.lastHead} :
          mem' = [mem EXCEPT
                    !.ring[c] = CASE app.data = "head" -> [d EXCEPT !.head = head]
                                  [] app.data = "tail" -> [d EXCEPT !.tail = b.at + b.bytes]
                                  [] OTHER -> d,
                    !.block[n] = NoBlock]
    BY DEF FreedSpace
  <2>2. app.data = "head" => b.at = d.lastHead
    BY <1>1 DEF FreedField
  <2>3. r = CASE app.data = "head" -> [d EXCEPT !.head = head]
              [] app.data = "tail" -> [d EXCEPT !.tail = b.at + b.bytes]
              [] OTHER -> d
    BY <1>1, <2>1, <2>2 DEF FreeSpace
  <2> QED
    BY <2>1, <2>3
<1>5. /\ s = RxLine(n, q) /\ s \in Seq(RxNodes) /\ s # <<>> /\ Head(s) = n /\ Tail(s) = q
      /\ q \in Seq(RxNodes) /\ Elements(s) = Elements(q) \cup {n}
  <2>1. s = RxLine(n, q) /\ s \in Seq(RxNodes) /\ q \in Seq(RxNodes)
    BY <1>2, <1>3, LineFacts
  <2> HIDE DEF s, n, q
  <2>2. /\ RxLine(n, q) # <<>> /\ Head(RxLine(n, q)) = n /\ Tail(RxLine(n, q)) = q
        /\ Elements(RxLine(n, q)) = Elements(q) \cup ({n} \ {None})
    BY <1>3, <2>1, RxLineFacts
  <2>3. {n} \ {None} = {n}
    BY <1>3
  <2> QED
    BY <2>1, <2>2, <2>3
<1>6. Packed(r, mem.block, q)
  <2>1. Packed(d, mem.block, s)
    BY <1>3 DEF Space, Tidy
  <2> HIDE DEF d, s, n, q
  <2> QED
    BY <1>5, <2>1, PackedShrinks
<1> HIDE DEF r, b, d, c, n, q, s
<1>7. /\ mem'.queue = mem.queue /\ mem'.ring[c] = r /\ mem'.block[n] = NoBlock
      /\ \A e \in Conns \ {c} : mem'.ring[e] = mem.ring[e]
      /\ \A k \in Nodes \ {n} : mem'.block[k] = mem.block[k]
  <2>1. /\ mem'.queue = mem.queue /\ mem'.ring = [mem.ring EXCEPT ![c] = r]
        /\ mem'.block = [mem.block EXCEPT ![n] = NoBlock]
    BY <1>2, <1>4 DEF MemStates
  <2> QED
    BY <1>2, <1>3, <2>1
<1>8. app'.at = "freed"
  BY <1>1, <1>2 DEF AppStates, Idle
<1>9. Reading'[c] = None /\ \A e \in RxConns \ {c} : Reading'[e] = None /\ Reading[e] = None
  BY <1>1, <1>3, <1>8 DEF Reading, c
<1>10. /\ \A e \in Conns \ {c} : LineOf(mem', Reading', txNode', e) = LineOf(mem, Reading, txNode, e)
       /\ LineOf(mem', Reading', txNode', c) = q
  BY <1>1, <1>3, <1>7, <1>9 DEF LineOf, RxLine, Conns, q
<1>11. \A e \in Conns : n \notin Elements(mem.queue[e])
  BY <1>3, HeldOnce DEF n
<1>12. ASSUME NEW e \in Conns \ {c}, NEW k \in Elements(LineOf(mem, Reading, txNode, e))
       PROVE  mem'.block[k] = mem.block[k]
  <2>1. CASE e \in TxConns
    <3>1. k \in TxNodes
      BY <1>2, <2>1, LineFacts DEF Elements
    <3>2. k # n
      BY <1>3, <3>1, PoolFacts
    <3> QED
      BY <1>7, <3>1, <3>2 DEF Nodes
  <2>2. CASE e \in RxConns
    <3>1. k \in RxNodes /\ LineOf(mem, Reading, txNode, e) = mem.queue[e]
      <4> DEFINE z == LineOf(mem, Reading, txNode, e)
      <4>1. z = RxLine(Reading[e], mem.queue[e]) /\ z \in Seq(RxNodes)
        BY <1>2, <2>2, LineFacts
      <4>2. Reading[e] = None
        BY <1>9, <2>2
      <4>3. k \in Elements(z)
        OBVIOUS
      <4> HIDE DEF z
      <4>4. k \in RxNodes
        BY <4>1, <4>3 DEF Elements
      <4> QED
        BY <4>1, <4>2, <4>4 DEF z, RxLine
    <3>2. k # n
      BY <1>11, <3>1
    <3> QED
      BY <1>7, <3>1, <3>2 DEF Nodes
  <2> QED
    BY <2>1, <2>2 DEF Conns
<1>13. Packed(mem'.ring[c], mem'.block, LineOf(mem', Reading', txNode', c))
  <2>1. ASSUME NEW k \in Elements(q) PROVE mem'.block[k] = mem.block[k]
    <3>1. k \in RxNodes /\ k # n
      BY <1>3, <1>5, <1>11 DEF q, Elements
    <3> QED
      BY <1>7, <3>1 DEF Nodes
  <2> QED
    BY <1>6, <1>7, <1>10, <2>1, PackedSame
<1>14. ASSUME NEW k \in RxNodes,
              mem'.block[k] # mem.block[k] \/ k \in Elements(LineOf(mem, Reading, txNode, c))
       PROVE  mem'.block[k] = NoBlock \/ k \in Elements(LineOf(mem', Reading', txNode', c))
  <2>1. k = n \/ k \in Elements(q)
    BY <1>5, <1>7, <1>14 DEF s, Nodes
  <2> QED
    BY <1>7, <1>10, <2>1
<1>15. Tidy(mem', Reading', txNode')
  <2>1. Tidy(mem, Reading, txNode)
    BY DEF Space
  <2> QED
    BY <1>3, <1>7, <1>10, <1>12, <1>13, <1>14, <2>1, TidyChange
<1> QED
  BY <1>1, <1>7, <1>8, <1>15 DEF Space

LEMMA SpaceFreedNode ==
  ASSUME MemoryInv, Space, FreedNode
  PROVE  Space'
<1>1. /\ app.at = "freed" /\ mem' = FreeRxNode(mem, app.node) /\ app' = Idle /\ txNode' = txNode
  BY DEF FreedNode
<1>2. MemOK(mem) /\ app.node \in RxNodes \cup {None}
  BY <1>1, TypeFacts, AppFacts DEF MemoryInv
<1>3. mem'.queue = mem.queue /\ mem'.ring = mem.ring /\ mem'.block = mem.block
  BY <1>1, <1>2, FreeRxNodeOK
<1>4. Reading' = Reading /\ app'.at = "idle"
  BY <1>1 DEF Reading, Idle
<1> QED
  BY <1>1, <1>3, <1>4, SpaceStill

\* What the two theorems are said of: frames of one size, and one connection
\* to receive from.
OneSize == FrameSizes \subseteq {MaxFrameSize}
OneReader == Cardinality(RxConns) <= 1

LEMMA SpaceInit == Init => SpaceInv
<1> SUFFICES ASSUME Init PROVE Space
  BY DEF SpaceInv
<1>1. /\ mem.queue = [c \in Conns |-> <<>>] /\ mem.ring = [c \in Conns |-> CircularDataInit(Bytes)]
      /\ mem.block = [n \in Nodes |-> NoBlock]
      /\ app = Idle /\ txNode = [c \in TxConns |-> None]
  BY DEF Init
<1>2. \A c \in RxConns : Reading[c] = None
  BY <1>1 DEF Reading, Idle
<1>3. \A c \in Conns : LineOf(mem, Reading, txNode, c) = <<>>
  BY <1>1, <1>2, NameFacts DEF LineOf, TxLine, RxLine, Conns
<1>4. Tidy(mem, Reading, txNode)
  <2>1. \A n \in RxNodes : mem.block[n] = NoBlock
    BY <1>1 DEF Nodes
  <2>2. \A c \in Conns : mem.ring[c] = CircularDataInit(Bytes)
    BY <1>1
  <2> QED
    BY <1>3, <2>1, <2>2, PackedInit DEF Tidy
<1>5. app.at = "idle" /\ \A c \in TxConns : txNode[c] = None
  BY <1>1 DEF Idle
<1> QED
  BY <1>4, <1>5 DEF Space

LEMMA SpaceStep ==
  ASSUME OneSize, OneReader, MemoryInv, MemoryInv', SpaceInv, [Next]_vars
  PROVE  SpaceInv'
<1>1. cfg' = cfg
  BY DEF Next, vars, FrameOutcome, ConfigComplete, Connect, Disconnect, GetFreeSlot, Send, ReadDone,
         Allocated, FreeingSpace, FreedSpace, FreedNode, FlushQueue
<1> SUFFICES ASSUME cfg.ackFrames, Orderly PROVE Space'
  BY <1>1 DEF SpaceInv, Orderly
<1>2. Space /\ Cardinality(RxConns) <= 1 /\ FrameSizes \subseteq {MaxFrameSize}
  BY DEF SpaceInv, OneSize, OneReader
<1>3. CASE FrameOutcome
  BY <1>2, <1>3, SpaceFrameOutcome
<1>4. CASE ConfigComplete
  BY <1>2, <1>4, SpaceConfigComplete
<1>5. CASE Connect
  BY <1>2, <1>5, SpaceConnect
<1>6. CASE Disconnect \/ UNCHANGED vars
  <2>1. mem' = mem /\ app' = app /\ txNode' = txNode
    BY <1>6 DEF Disconnect, vars
  <2>2. Reading' = Reading
    BY <2>1 DEF Reading
  <2> QED
    BY <1>2, <2>1, <2>2, SpaceStill DEF Space
<1>7. CASE \E c \in TxConns : GetFreeSlot(c) \/ Send(c)
  BY <1>2, <1>7, SpaceGetFreeSlot, SpaceSend
<1>8. CASE \E c \in RxConns : ReadDone(c)
  BY <1>2, <1>8, SpaceReadDone
<1>9. CASE Allocated
  BY <1>2, <1>9, SpaceNoPlace, SpacePlaced
<1>10. CASE FreeingSpace
  BY <1>2, <1>10, SpaceFreeingSpace
<1>11. CASE FreedSpace
  BY <1>2, <1>11, SpaceFreedSpace
<1>12. CASE FreedNode
  BY <1>2, <1>12, SpaceFreedNode
<1>13. CASE \E c \in Conns : FlushQueue(c)
  BY <1>13 DEF FlushQueue, Orderly
<1> QED
  <2>1. Next \/ UNCHANGED vars
    BY Zenon
  <2> QED
    BY ZenonT(30), <1>3, <1>4, <1>5, <1>6, <1>7, <1>8, <1>9, <1>10, <1>11, <1>12, <1>13, <2>1 DEF Next

\* Blocks in line do not overlap.
LEMMA PackedApart ==
  ASSUME NEW d, NEW blk, NEW S, NEW s \in Seq(S), Packed(d, blk, s),
         NEW m \in Elements(s), NEW n \in Elements(s), m # n
  PROVE  ~Overlapping(blk[m], blk[n])
<1>1. PICK t \in 0 .. QueueSize, h \in 0 .. QueueSize, l \in 0 .. QueueSize :
        /\ Round(t, h, l, Len(s))
        /\ \A i \in DOMAIN s : blk[s[i]] = [at |-> Mark(Turn(t, i)), bytes |-> MaxFrameSize]
  BY DEF Packed
<1>2. Len(s) \in Nat /\ DOMAIN s = 1 .. Len(s) /\ QueueSize \in Nat /\ MaxFrameSize \in Nat \ {0}
  BY MarkFacts
<1>3. Len(s) <= QueueSize
  BY <1>1, <1>2 DEF Round
<1>4. PICK i \in DOMAIN s, j \in DOMAIN s : m = s[i] /\ n = s[j] /\ i # j
  BY DEF Elements
<1> DEFINE u == Turn(t, i)
           v == Turn(t, j)
<1>5. u \in Nat /\ v \in Nat /\ u # v
  <2>1. i \in 1 .. QueueSize /\ j \in 1 .. QueueSize
    BY <1>2, <1>3
  <2>2. u \in 0 .. QueueSize - 1 /\ v \in 0 .. QueueSize - 1
    BY <2>1, TurnFacts
  <2>3. u # v
    BY <1>4, <2>1, TurnFacts
  <2> HIDE DEF u, v
  <2> QED
    BY <1>2, <2>2, <2>3
<1>6. blk[m] = [at |-> Mark(u), bytes |-> MaxFrameSize] /\ blk[n] = [at |-> Mark(v), bytes |-> MaxFrameSize]
  BY <1>1, <1>4
<1> HIDE DEF u, v
<1>7. /\ Mark(u) \in Nat /\ Mark(v) \in Nat
      /\ Mark(u) + MaxFrameSize <= Mark(v) \/ Mark(v) + MaxFrameSize <= Mark(u)
  <2>1. u < v \/ v < u
    BY <1>5
  <2> QED
    BY <1>5, <2>1, MarkFacts
<1> QED
  BY <1>2, <1>6, <1>7 DEF Overlapping

\* Whose payload is of use is in line.
LEMMA LiveInLine ==
  ASSUME MemoryInv, NEW c \in Conns
  PROVE  /\ Live(c) \subseteq Elements(LineOf(mem, Reading, txNode, c))
         /\ LineOf(mem, Reading, txNode, c) \in Seq(Nodes)
<1> DEFINE s == LineOf(mem, Reading, txNode, c)
           q == mem.queue[c]
<1>1. MemOK(mem) /\ Handy(Reading, txNode) /\ app \in AppStates
  BY TypeFacts, ReadingFacts DEF MemoryInv
<1>2. CASE c \in TxConns
  <2>1. /\ s = TxLine(q, txNode[c]) /\ s \in Seq(TxNodes)
        /\ q \in Seq(TxNodes) /\ txNode[c] \in TxNodes \cup {None}
    BY <1>1, <1>2, LineFacts
  <2>2. c \notin RxConns /\ None \notin TxNodes
    BY <1>2, MemoryAssumption, NullAssumption DEF Nodes
  <2>3. app.at = "dequeued" => app.conn # c
    BY <1>1, <2>2, AppFacts
  <2>4. Live(c) = Elements(q) \cup {n \in TxNodes : txNode[c] = n}
    BY <1>2, <2>3 DEF Live
  <2>5. Elements(q) \subseteq Elements(s) /\ (txNode[c] # None => txNode[c] \in Elements(s))
    BY <2>1, TxLineFacts
  <2>6. s \in Seq(Nodes)
    BY <2>1, SeqMonotonic DEF Nodes
  <2> QED
    BY <2>2, <2>4, <2>5, <2>6
<1>3. CASE c \in RxConns
  <2>1. /\ s = RxLine(Reading[c], q) /\ s \in Seq(RxNodes)
        /\ q \in Seq(RxNodes) /\ Reading[c] \in RxNodes \cup {None}
    BY <1>1, <1>3, LineFacts
  <2>2. c \notin TxConns
    BY <1>3, MemoryAssumption
  <2>3. Elements(s) = Elements(q) \cup ({Reading[c]} \ {None})
    BY <2>1, RxLineFacts
  <2>4. app.at = "dequeued" /\ app.conn = c => Reading[c] = app.node
    BY <1>3 DEF Reading
  <2>5. Live(c) = Elements(q) \cup {n \in Nodes : app.at = "dequeued" /\ app.conn = c /\ app.node = n}
    BY <2>2 DEF Live
  <2>6. None \notin Nodes
    BY NullAssumption
  <2>7. s \in Seq(Nodes)
    BY <2>1, SeqMonotonic DEF Nodes
  <2> HIDE DEF s, q
  <2>8. Live(c) \subseteq Elements(s)
    BY <2>3, <2>4, <2>5, <2>6
  <2> QED
    BY <2>7, <2>8 DEF s
<1> QED
  BY <1>2, <1>3 DEF Conns

\* Whoever asks for space has a place in line.
LEMMA RoomInLine ==
  ASSUME MemoryInv, cfg.ackFrames, OneReader, NEW c \in Conns, MayAllocate(c)
  PROVE  Len(LineOf(mem, Reading, txNode, c)) < QueueSize
<1>1. CASE c \in TxConns
  BY <1>1 DEF MayAllocate, LineOf, TxLine
<1>2. CASE c \notin TxConns
  <2>1. slot = [conn |-> c, onAir |-> TRUE] /\ mem.rxNode # None /\ c \in RxConns
    BY <1>2 DEF MayAllocate, Conns
  <2>2. connected
    BY <2>1 DEF MemoryInv, SlotInv
  <2> QED
    BY <2>1, <2>2, SpareNow DEF OneReader, Spare
<1> QED
  BY <1>1, <1>2

LEMMA SpaceSound ==
  ASSUME MemoryInv, SpaceInv, cfg.ackFrames, OneReader
  PROVE  SpaceIsFree /\ RoomForNextFrame
<1> SUFFICES ASSUME Orderly, NEW c \in Conns
             PROVE  /\ MayAllocate(c) => /\ NextBlock(c).at # NoSpace
                                         /\ \A n \in Live(c) : ~Overlapping(NextBlock(c), mem.block[n])
                    /\ \A m, n \in Live(c) : m # n => ~Overlapping(mem.block[m], mem.block[n])
  BY DEF SpaceIsFree, RoomForNextFrame, AllocatesFreeSpace
<1> DEFINE s == LineOf(mem, Reading, txNode, c)
<1>1. Packed(mem.ring[c], mem.block, s)
  BY DEF SpaceInv, Space, Tidy
<1>2. Live(c) \subseteq Elements(s) /\ s \in Seq(Nodes)
  BY LiveInLine
<1>3. MayAllocate(c) => Len(s) < QueueSize
  BY RoomInLine
<1> HIDE DEF s
<1>4. ASSUME MayAllocate(c)
      PROVE  /\ NextBlock(c).at # NoSpace
             /\ \A n \in Elements(s) : ~Overlapping(NextBlock(c), mem.block[n])
  BY <1>1, <1>2, <1>3, <1>4, PackedGrows, Zenon DEF NextBlock
<1>5. ASSUME NEW m \in Live(c), NEW n \in Live(c), m # n
      PROVE  ~Overlapping(mem.block[m], mem.block[n])
  BY <1>1, <1>2, <1>5, PackedApart
<1> QED
  BY <1>2, <1>4, <1>5

(* Frames keep their bytes to themselves: where transmit slots listen for an *)
(* acknowledgement frame, with frames of one size and at most one connection *)
(* to receive from, no frame that waits to be sent or read overlaps another, *)
(* or the space found for the next one, for every queue size, frame size and *)
(* number of connections to send on (xlayer_circular_data.c,                 *)
(* wps_mac_xlayer.c).                                                        *)
THEOREM MemorySpaceIsFree ==
  ASSUME OneSize, OneReader, \A use \in Settings : use.ackFrames
  PROVE  Spec => []SpaceIsFree
<1> DEFINE Inv == MemoryInv /\ SpaceInv
<1>1. Init => Inv
  BY MemoryInit, SpaceInit
<1>2. Inv /\ [Next]_vars => Inv'
  BY MemoryStep, SpaceStep
<1>3. Inv => SpaceIsFree
  <2>1. MemoryInv => cfg.ackFrames
    BY DEF MemoryInv, TypeOK
  <2> QED
    BY <2>1, SpaceSound
<1> HIDE DEF Inv
<1> QED
  BY <1>1, <1>2, <1>3, PTL DEF Spec

(* A node is enough: under the same conditions the buffer has room whenever  *)
(* a slot is asked for or a frame may be received, so no frame that the      *)
(* radio has acknowledged is lost for want of space.                         *)
THEOREM MemoryRoomForNextFrame ==
  ASSUME OneSize, OneReader, \A use \in Settings : use.ackFrames
  PROVE  Spec => []RoomForNextFrame
<1> DEFINE Inv == MemoryInv /\ SpaceInv
<1>1. Init => Inv
  BY MemoryInit, SpaceInit
<1>2. Inv /\ [Next]_vars => Inv'
  BY MemoryStep, SpaceStep
<1>3. Inv => RoomForNextFrame
  <2>1. MemoryInv => cfg.ackFrames
    BY DEF MemoryInv, TypeOK
  <2> QED
    BY <2>1, SpaceSound
<1> HIDE DEF Inv
<1> QED
  BY <1>1, <1>2, <1>3, PTL DEF Spec
=============================================================================
