-------------------------- MODULE KeyAgreementLemmas --------------------------
(* What keeps the participants of KeyAgreement consistent: the inductive      *)
(* invariant, and the steps their handlers are made of (signing, rotating,    *)
(* sealing, absorbing, receiving), for every set of members and every value   *)
(* of the bounds.  KeyAgreementProofs puts the steps together.                *)
EXTENDS KeyAgreement, CausalGraphProofs

\* What the bound on buffers needs of finite sets.  A hypothesis like LeastNumber:
\* KeyAgreementProofs proves both from the library.
FiniteSteps ==
    /\ IsFiniteSet({}) /\ Cardinality({}) = 0
    /\ \A S : IsFiniteSet(S) => Cardinality(S) \in Nat
    /\ \A S, x : IsFiniteSet(S) =>
         /\ IsFiniteSet(S \cup {x})
         /\ Cardinality(S \cup {x}) = IF x \in S THEN Cardinality(S) ELSE Cardinality(S) + 1

-----------------------------------------------------------------------------
(* Numbers and sequences.                                                     *)

\* The order of positions and of operation numbers.
LEMMA NumberOrder ==
    /\ \A n \in Nat : \A x \in 1..n : x > 0
    /\ \A x \in Nat : ~(x < x) /\ ~(x > x) /\ x <= x
    /\ \A x, y \in Nat : /\ x < y => x # y /\ x <= y
                         /\ x <= y /\ x # y => y > x
                         /\ x <= y => ~(x > y)
                         /\ x > y => x # y
  OBVIOUS

\* What a Vec holds has the type of its elements.
LEMMA SeqElement == \A S : \A s \in Seq(S) : \A i \in 1..Len(s) : s[i] \in S
  OBVIOUS

\* Vec::extend.
LEMMA ConcatFacts ==
    ASSUME NEW S, NEW s \in Seq(S), NEW t \in Seq(S)
    PROVE  /\ s \o t \in Seq(S) /\ Len(s \o t) = Len(s) + Len(t)
           /\ \A i \in 1..(Len(s) + Len(t)) : (s \o t)[i] = IF i <= Len(s) THEN s[i] ELSE t[i - Len(s)]
  OBVIOUS

\* A slice of a Vec.
LEMMA SubSeqFacts ==
    ASSUME NEW S, NEW s \in Seq(S), NEW m \in 1..(Len(s) + 1), NEW n \in (m - 1)..Len(s)
    PROVE  /\ SubSeq(s, m, n) \in Seq(S) /\ Len(SubSeq(s, m, n)) = n - m + 1
           /\ \A i \in 1..(n - m + 1) : SubSeq(s, m, n)[i] = s[m + i - 1]
  OBVIOUS

-----------------------------------------------------------------------------
(* NodeKeys.                                                                  *)

KeyList(keys) == keys \in Seq(Nat) /\ IsInjective(keys) /\ Len(keys) <= OVERLAP

\* Vec::remove of a position.
LEMMA Removed ==
    ASSUME NEW keys \in Seq(Nat), IsInjective(keys), NEW i \in 1..Len(keys)
    PROVE  LET r == SubSeq(keys, 1, i - 1) \o SubSeq(keys, i + 1, Len(keys)) IN
           /\ r \in Seq(Nat) /\ IsInjective(r) /\ Len(r) = Len(keys) - 1
           /\ \A j \in 1..(Len(keys) - 1) : \E x \in 1..Len(keys) : x # i /\ r[j] = keys[x]
<1> DEFINE n == Len(keys)
           f == SubSeq(keys, 1, i - 1)
           b == SubSeq(keys, i + 1, n)
           r == f \o b
<1>1. n \in Nat /\ i \in 1..n
  OBVIOUS
<1>2. /\ f \in Seq(Nat) /\ Len(f) = i - 1 /\ \A j \in 1..(i - 1) : f[j] = keys[j]
  BY SubSeqFacts
<1>3. /\ b \in Seq(Nat) /\ Len(b) = n - i /\ \A j \in 1..(n - i) : b[j] = keys[j + i]
  BY SubSeqFacts
<1> HIDE DEF f, b
<1>4. /\ r \in Seq(Nat) /\ Len(r) = n - 1
      /\ \A j \in 1..(n - 1) : /\ j < i => r[j] = keys[j]
                               /\ j >= i => r[j] = keys[j + 1]
  <2>1. /\ r \in Seq(Nat) /\ Len(r) = (i - 1) + (n - i)
        /\ \A j \in 1..Len(r) : r[j] = IF j <= i - 1 THEN f[j] ELSE b[j - (i - 1)]
    <3>1. /\ f \o b \in Seq(Nat) /\ Len(f \o b) = Len(f) + Len(b)
          /\ \A j \in 1..(Len(f) + Len(b)) : (f \o b)[j] = IF j <= Len(f) THEN f[j] ELSE b[j - Len(f)]
      BY <1>2, <1>3, ConcatFacts, Zenon
    <3> QED
      BY <1>2, <1>3, <3>1, Zenon
  <2>2. Len(r) = n - 1
    BY <1>1, <2>1
  <2>3. ASSUME NEW j \in 1..(n - 1), j < i PROVE r[j] = keys[j]
    <3>1. j <= i - 1 /\ j \in 1..(i - 1)
      BY <1>1, <2>3
    <3> QED
      BY <1>2, <2>1, <2>2, <3>1
  <2>4. ASSUME NEW j \in 1..(n - 1), j >= i PROVE r[j] = keys[j + 1]
    <3>1. ~(j <= i - 1) /\ j - (i - 1) \in 1..(n - i) /\ (j - (i - 1)) + i = j + 1
      BY <1>1, <2>4
    <3> QED
      BY <1>3, <2>1, <2>2, <3>1, Zenon
  <2> QED
    BY <2>1, <2>2, <2>3, <2>4, Zenon
<1>5. SubSeq(keys, 1, i - 1) \o SubSeq(keys, i + 1, Len(keys)) = r
  BY DEF f, b
<1> HIDE DEF r, n
<1>6. DOMAIN r = 1..(n - 1) /\ DOMAIN keys = 1..n
  BY <1>4 DEF n
<1>7. ASSUME NEW j \in 1..(n - 1)
      PROVE  \E x \in 1..n : x # i /\ r[j] = keys[x] /\ (j < i => x = j) /\ (j >= i => x = j + 1)
  <2>1. CASE j < i
    <3>1. j \in 1..n /\ j # i /\ ~(j >= i)
      BY <1>1, <2>1
    <3>2. r[j] = keys[j]
      BY <1>4, <2>1, Zenon
    <3> QED
      BY <2>1, <3>1, <3>2, Zenon
  <2>2. CASE j >= i
    <3>1. j + 1 \in 1..n /\ j + 1 # i /\ ~(j < i)
      BY <1>1, <2>2
    <3>2. r[j] = keys[j + 1]
      BY <1>4, <2>2
    <3> QED
      BY <2>2, <3>1, <3>2, Zenon
  <2> QED
    BY <1>1, <2>1, <2>2
<1>8. IsInjective(r)
  <2> SUFFICES ASSUME NEW j \in 1..(n - 1), NEW k \in 1..(n - 1), r[j] = r[k] PROVE j = k
    BY <1>6 DEF IsInjective
  <2>1. PICK x \in 1..n : r[j] = keys[x] /\ (j < i => x = j) /\ (j >= i => x = j + 1) /\ x # i
    BY <1>7
  <2>2. PICK y \in 1..n : r[k] = keys[y] /\ (k < i => y = k) /\ (k >= i => y = k + 1) /\ y # i
    BY <1>7
  <2>3. x = y
    BY <1>6, <2>1, <2>2, Zenon DEF IsInjective
  <2> QED
    BY <1>1, <2>1, <2>2, <2>3
<1> QED
  BY <1>4, <1>5, <1>7, <1>8, Zenon DEF n

\* NodeKeys::insert keeps one place per key and no more than OVERLAP of them.
LEMMA Inserted ==
    ASSUME NEW keys, KeyList(keys), NEW o \in Nat
    PROVE  KeyList(Insert(keys, o)) /\ Range(Insert(keys, o)) \subseteq Range(keys) \cup {o}
<1>1. keys \in Seq(Nat) /\ Len(keys) \in Nat /\ IsInjective(keys) /\ DOMAIN keys = 1..Len(keys)
  BY DEF KeyList
<1>2. PICK r : r = Without(keys, o)
  OBVIOUS
<1>3. /\ r \in Seq(Nat) /\ IsInjective(r)
      /\ \A j \in 1..Len(r) : r[j] # o /\ \E x \in 1..Len(keys) : r[j] = keys[x]
  <2>1. CASE \E i \in 1..Len(keys) : keys[i] = o
    <3>1. o \in Range(keys) /\ \E i \in DOMAIN keys : keys[i] = o
      BY <1>1, <2>1 DEF Range
    <3>2. PICK i \in 1..Len(keys) : keys[i] = o /\ r = SubSeq(keys, 1, i - 1) \o SubSeq(keys, i + 1, Len(keys))
      BY <1>1, <1>2, <3>1, Zenon DEF Without
    <3>4. /\ r \in Seq(Nat) /\ IsInjective(r) /\ Len(r) = Len(keys) - 1
          /\ \A j \in 1..(Len(keys) - 1) : \E x \in 1..Len(keys) : x # i /\ r[j] = keys[x]
      <4>1. PICK q : q = SubSeq(keys, 1, i - 1) \o SubSeq(keys, i + 1, Len(keys))
        BY Zenon
      <4>2. /\ q \in Seq(Nat) /\ IsInjective(q) /\ Len(q) = Len(keys) - 1
            /\ \A j \in 1..(Len(keys) - 1) : \E x \in 1..Len(keys) : x # i /\ q[j] = keys[x]
        BY <1>1, <4>1, Removed, Zenon
      <4> QED
        BY <3>2, <4>1, <4>2, Zenon
    <3>5. \A x \in 1..Len(keys) : x # i => keys[x] # o
      BY <1>1, <3>2 DEF IsInjective
    <3> QED
      BY <3>4, <3>5
  <2>2. CASE ~(\E i \in 1..Len(keys) : keys[i] = o)
    <3>1. r = keys
      BY <1>1, <1>2, <2>2 DEF Without, Range
    <3> QED
      BY <1>1, <2>2, <3>1
  <2> QED
    BY <2>1, <2>2
<1>4. PICK a : a = Append(r, o)
  BY Zenon
<1>5. PICK n : n = Len(a)
  BY Zenon
<1>6. /\ a \in Seq(Nat) /\ n \in Nat /\ n = Len(r) + 1 /\ a[n] = o /\ Len(r) \in Nat
      /\ \A j \in 1..Len(r) : a[j] = r[j]
  BY <1>3, <1>4, <1>5
<1>18. \A j \in 1..n : j \in 1..Len(r) \/ j = n
  BY <1>6
<1>7. \A j, k \in 1..n : a[j] = a[k] => j = k
  <2>2. \A j, k \in 1..Len(r) : r[j] = r[k] => j = k
    BY <1>3 DEF IsInjective
  <2> SUFFICES ASSUME NEW j \in 1..n, NEW k \in 1..n, a[j] = a[k] PROVE j = k
    OBVIOUS
  <2>3. CASE j \in 1..Len(r) /\ k \in 1..Len(r)
    BY <1>6, <2>2, <2>3, Zenon
  <2>4. CASE j = n /\ k \in 1..Len(r)
    BY <1>3, <1>6, <2>4, Zenon
  <2>5. CASE j \in 1..Len(r) /\ k = n
    BY <1>3, <1>6, <2>5, Zenon
  <2> QED
    BY <1>18, <2>3, <2>4, <2>5, Zenon
<1>8. \A j \in 1..n : a[j] = o \/ \E x \in 1..Len(keys) : a[j] = keys[x]
  BY <1>3, <1>6, <1>18, Zenon
<1>9. PICK m : m = IF n > OVERLAP THEN n - OVERLAP + 1 ELSE 1
  OBVIOUS
<1>10. m \in 1..n /\ n - m + 1 <= OVERLAP /\ m \in Int
  BY <1>6, <1>9, AgreementAssumption
<1>11. Insert(keys, o) = SubSeq(a, m, n)
  BY <1>2, <1>4, <1>5, <1>9 DEF Insert
<1>12. PICK z : z = SubSeq(a, m, n)
  BY Zenon
<1>13. /\ z \in Seq(Nat) /\ Len(z) = n - m + 1 /\ DOMAIN z = 1..(n - m + 1)
       /\ \A j \in 1..(n - m + 1) : z[j] = a[m + j - 1]
  <2>1. \A j \in m..n : a[j] \in Nat
    <3>1. \A j \in 1..n : a[j] \in Nat
      BY <1>5, <1>6, SeqElement, Zenon
    <3>2. \A j \in m..n : j \in 1..n
      BY <1>6, <1>10
    <3> QED
      BY <3>1, <3>2
  <2>2. m <= n
    BY <1>10
  <2> QED
    BY <1>6, <1>10, <1>12, <2>1, <2>2, SubSeqFacts
<1>14. \A j \in 1..(n - m + 1) : m + j - 1 \in 1..n
  BY <1>6, <1>10
<1>15. IsInjective(z)
  <2> SUFFICES ASSUME NEW j \in 1..(n - m + 1), NEW k \in 1..(n - m + 1), z[j] = z[k] PROVE j = k
    BY <1>13 DEF IsInjective
  <2>1. m + j - 1 = m + k - 1
    BY <1>7, <1>13, <1>14, Zenon
  <2> QED
    BY <1>6, <1>10, <2>1
<1>16. Range(z) \subseteq Range(keys) \cup {o}
  <2>1. \A j \in 1..(n - m + 1) : z[j] = o \/ \E x \in 1..Len(keys) : z[j] = keys[x]
    BY <1>8, <1>13, <1>14, Zenon
  <2> QED
    BY <1>1, <1>13, <2>1, Zenon DEF Range
<1>17. KeyList(z)
  BY <1>10, <1>13, <1>15 DEF KeyList
<1> QED
  BY <1>11, <1>12, <1>16, <1>17

\* f lists what the keys are after the first n insertions of os.
Run(keys, os, n, f) == f = [i \in 0..n |-> IF i = 0 THEN keys ELSE Insert(f[i - 1], os[i])]

\* The insertions one after another are a function of the number made.
LEMMA RunExists ==
    ASSUME LeastNumber, NEW keys, NEW os, NEW m \in Nat
    PROVE  \E f : Run(keys, os, m, f)
<1> DEFINE Bad == {n \in Nat : ~\E f : Run(keys, os, n, f)}
<1>1. ASSUME Bad # {} PROVE FALSE
  <2>1. PICK n \in Bad : \A x \in Bad : n <= x
    BY <1>1, Zenon DEF LeastNumber
  <2>2. n # 0
    <3> DEFINE f == [i \in 0..0 |-> keys]
    <3>1. f = [i \in 0..0 |-> IF i = 0 THEN keys ELSE Insert(f[i - 1], os[i])]
      OBVIOUS
    <3>2. Run(keys, os, 0, f)
      BY <3>1 DEF Run
    <3> QED
      BY <2>1, <3>2
  <2>3. n - 1 \in Nat /\ n - 1 \notin Bad /\ n \in Nat
    BY <2>1, <2>2
  <2>4. PICK f : Run(keys, os, n - 1, f)
    BY <2>3
  <2> DEFINE g == [i \in 0..n |-> IF i = n THEN Insert(f[n - 1], os[n]) ELSE f[i]]
  <2>5. \A i \in 0..(n - 1) : g[i] = f[i]
    BY <2>3
  <2>6. \A i \in 0..(n - 1) : f[i] = IF i = 0 THEN keys ELSE Insert(f[i - 1], os[i])
    BY <2>4 DEF Run
  <2>7. ASSUME NEW i \in 0..n PROVE g[i] = IF i = 0 THEN keys ELSE Insert(g[i - 1], os[i])
    <3>1. CASE i = n
      <4>1. n - 1 \in 0..(n - 1)
        BY <2>3
      <4>2. g[n - 1] = f[n - 1] /\ g[n] = Insert(f[n - 1], os[n])
        BY <2>3, <2>5, <4>1
      <4> HIDE DEF g
      <4> QED
        BY <2>2, <3>1, <4>2
    <3>2. CASE i = 0
      <4>1. 0 \in 0..(n - 1)
        BY <2>3
      <4> HIDE DEF g
      <4> QED
        BY <2>5, <2>6, <3>2, <4>1
    <3>3. CASE i # n /\ i # 0
      <4>1. i \in 0..(n - 1) /\ i - 1 \in 0..(n - 1)
        BY <2>3, <3>3
      <4>2. g[i] = f[i] /\ g[i - 1] = f[i - 1] /\ f[i] = Insert(f[i - 1], os[i])
        BY <2>5, <2>6, <3>3, <4>1
      <4> HIDE DEF g
      <4> QED
        BY <3>3, <4>2
    <3> QED
      BY <3>1, <3>2, <3>3
  <2>8. g = [i \in 0..n |-> g[i]]
    OBVIOUS
  <2> HIDE DEF g
  <2>9. g = [i \in 0..n |-> IF i = 0 THEN keys ELSE Insert(g[i - 1], os[i])]
    BY <2>7, <2>8, Zenon
  <2>10. Run(keys, os, n, g)
    BY <2>9 DEF Run
  <2> QED
    BY <2>1, <2>10
<1> QED
  BY <1>1

\* NodeKeys::insert of several keys, in turn.
LEMMA InsertedAll ==
    ASSUME LeastNumber, NEW keys, KeyList(keys), NEW os \in Seq(Nat)
    PROVE  KeyList(InsertAll(keys, os)) /\ Range(InsertAll(keys, os)) \subseteq Range(keys) \cup Range(os)
<1> DEFINE m == Len(os)
           f == CHOOSE f : f = [i \in 0..m |-> IF i = 0 THEN keys ELSE Insert(f[i - 1], os[i])]
           Fine(k) == KeyList(k) /\ Range(k) \subseteq Range(keys) \cup Range(os)
           Bad == {n \in 0..m : ~Fine(f[n])}
<1>1. m \in Nat /\ DOMAIN os = 1..m
  OBVIOUS
<1>2. InsertAll(keys, os) = f[m]
  BY DEF InsertAll
<1>3. f = [i \in 0..m |-> IF i = 0 THEN keys ELSE Insert(f[i - 1], os[i])]
  <2>1. \E x : x = [i \in 0..m |-> IF i = 0 THEN keys ELSE Insert(x[i - 1], os[i])]
    <3> HIDE DEF m
    <3>1. \E x : Run(keys, os, m, x)
      BY <1>1, RunExists, Zenon
    <3> QED
      BY <3>1, Zenon DEF Run
  <2> QED
    BY <2>1, Zenon
<1> HIDE DEF f
<1>4. ASSUME NEW n \in Bad, \A x \in Bad : n <= x PROVE FALSE
  <2>1. n \in 0..m /\ ~Fine(f[n]) /\ n \in Nat
    BY <1>1
  <2>2. CASE n = 0
    <3>1. f[0] = keys
      BY <1>1, <1>3
    <3>2. Fine(keys)
      OBVIOUS
    <3> QED
      BY <2>1, <2>2, <3>1, <3>2
  <2>3. CASE n # 0
    <3>1. n - 1 \in 0..m /\ n \in 1..m /\ ~(n <= n - 1)
      BY <1>1, <2>1, <2>3
    <3>2. f[n] = Insert(f[n - 1], os[n])
      BY <1>3, <2>1, <2>3, Zenon
    <3>3. Fine(f[n - 1])
      BY <1>4, <3>1
    <3>4. os[n] \in Nat /\ os[n] \in Range(os)
      BY <1>1, <3>1, SeqElement DEF Range
    <3>5. KeyList(Insert(f[n - 1], os[n])) /\ Range(Insert(f[n - 1], os[n])) \subseteq Range(f[n - 1]) \cup {os[n]}
      BY <3>3, <3>4, Inserted, Zenon
    <3> QED
      BY <2>1, <3>2, <3>3, <3>4, <3>5
  <2> QED
    BY <2>2, <2>3
<1>5. Bad = {}
  <2>1. Bad \subseteq Nat
    BY <1>1
  <2> QED
    BY <1>4, <2>1, Zenon DEF LeastNumber
<1>6. Fine(f[m])
  BY <1>1, <1>5
<1> QED
  BY <1>2, <1>6

-----------------------------------------------------------------------------
(* The channels.                                                              *)

\* With nothing buffered the loop over take_next changes nothing.
LEMMA DrainNothing ==
    ASSUME LeastNumber, NEW os, NEW s, NEW p, NEW a, s.recv[a].buffer = {}
    PROVE  Drain(os, s, p, a) = s
<1> DEFINE M == MAX_BUFFERED
           go == [s |-> s, stop |-> FALSE]
           done == [s |-> s, stop |-> TRUE]
           f == CHOOSE f : f = [n \in 0..M |-> IF n = 0 THEN go ELSE TakeNext(os, f[n - 1], p, a)]
           Bad == {n \in 0..M : f[n] # go /\ f[n] # done}
<1>1. M \in Nat
  BY AgreementAssumption
<1>2. Drain(os, s, p, a) = f[M].s
  BY DEF Drain
<1>3. TakeNext(os, go, p, a) = done /\ TakeNext(os, done, p, a) = done
  <2>1. ASSUME NEW r, r.s = s PROVE TakeNext(os, r, p, a) = done
    BY <2>1, Zenon DEF TakeNext
  <2>2. go.s = s /\ done.s = s
    OBVIOUS
  <2> HIDE DEF go, done
  <2> QED
    BY <2>1, <2>2, Zenon
<1>4. go.s = s /\ done.s = s
  OBVIOUS
<1> HIDE DEF go, done
<1>5. f = [n \in 0..M |-> IF n = 0 THEN go ELSE TakeNext(os, f[n - 1], p, a)]
  <2> DEFINE g == [n \in 0..M |-> IF n = 0 THEN go ELSE done]
  <2>1. ASSUME NEW n \in 0..M, n # 0 PROVE g[n - 1] = go \/ g[n - 1] = done
    <3>1. n - 1 \in 0..M
      BY <1>1, <2>1
    <3> QED
      BY <3>1
  <2>2. \A n \in 0..M : g[n] = IF n = 0 THEN go ELSE TakeNext(os, g[n - 1], p, a)
    BY <1>3, <2>1
  <2>3. g = [n \in 0..M |-> g[n]]
    OBVIOUS
  <2> HIDE DEF g
  <2>4. g = [n \in 0..M |-> IF n = 0 THEN go ELSE TakeNext(os, g[n - 1], p, a)]
    BY <2>2, <2>3
  <2> QED
    BY <2>4, Zenon
<1> HIDE DEF f
<1>6. ASSUME NEW n \in Bad, \A x \in Bad : n <= x PROVE FALSE
  <2>1. n # 0
    BY <1>1, <1>5
  <2>2. n - 1 \in 0..M /\ ~(n <= n - 1)
    BY <1>1, <2>1
  <2>3. f[n - 1] = go \/ f[n - 1] = done
    BY <1>6, <2>2
  <2> QED
    BY <1>3, <1>5, <2>1, <2>3, Zenon
<1>7. Bad = {}
  <2>1. Bad \subseteq Nat
    BY <1>1
  <2> QED
    BY <1>6, <2>1, Zenon DEF LeastNumber
<1> QED
  BY <1>1, <1>2, <1>4, <1>7

-----------------------------------------------------------------------------
(* The inductive invariant.                                                   *)

Slices == [eph : Nat, gen : Int, seq : Nat]
Operation == [author : Peers, kind : {"Contrib", "Prekeys"}, deps : SUBSET Nat, gen : Int,
              cparents : SUBSET Nat, slices : UNION {[D -> Slices] : D \in SUBSET Peers}]

Pools == [gen : Nat, sealed : BOOLEAN, age : Nat, served : SUBSET Peers]
Chans == [eph : Nat, next : Nat]
Recvs == [eph : Nat, next : Nat, buffer : SUBSET Nat]
Pasts == UNION {[D -> SUBSET Nat] : D \in SUBSET Nat}
State == [graph : Pasts, pool : Pools, prekeys : [Peers -> Nat], send : [Peers -> Chans],
          recv : [Peers -> Recvs], keys : Seq(Nat), absorbed : SUBSET Nat, missing : SUBSET Nat]

\* The contributions of p with a slice for q, and where those are sealed.
Mail(O, p, q) == {o \in 1..Len(O) : O[o].kind = "Contrib" /\ O[o].author = p /\ q \in DOMAIN O[o].slices}
EphOf(O, o, q) == O[o].slices[q].eph
PosOf(O, o, q) == O[o].slices[q].seq

\* The slice that opens a channel says which prekey it used; every other one
\* takes the position after the one before it.
Continues(O, M, o, q) ==
    \/ EphOf(O, o, q) = o /\ PosOf(O, o, q) = 0 /\ O[o].slices[q].gen # NoGen
    \/ /\ EphOf(O, o, q) # o /\ O[o].slices[q].gen = NoGen
       /\ \E x \in M : /\ x < o /\ \A y \in M : y < o => y <= x
                       /\ EphOf(O, x, q) = EphOf(O, o, q) /\ PosOf(O, x, q) + 1 = PosOf(O, o, q)

\* The slices of p to q: channels follow one another, positions rise.
Threaded(O, p, q) ==
    LET M == Mail(O, p, q) IN
    /\ \A o \in M : EphOf(O, o, q) \in 1..o /\ Continues(O, M, o, q)
    /\ \A x, y \in M : x < y => /\ EphOf(O, x, q) <= EphOf(O, y, q)
                                /\ EphOf(O, x, q) = EphOf(O, y, q) => PosOf(O, x, q) < PosOf(O, y, q)

\* p's sending channel to q continues the last slice it sent.
Sends(O, p, q, c) ==
    LET M == Mail(O, p, q) IN
    c.eph # 0 => \E x \in M : /\ \A y \in M : y <= x
                              /\ EphOf(O, x, q) = c.eph /\ PosOf(O, x, q) + 1 = c.next

\* q's receiving channel from p, with graph g: every slice of the channel that
\* is there was opened, and what is buffered was sealed on a later channel.
Receives(O, p, q, g, c) ==
    LET I == Mail(O, p, q) \cap DOMAIN g IN
    /\ c.eph = 0 => c = NoRecv
    /\ c.eph # 0 =>
         /\ c.eph \in I /\ EphOf(O, c.eph, q) = c.eph
         /\ \E x \in I : /\ EphOf(O, x, q) = c.eph /\ PosOf(O, x, q) + 1 = c.next
                         /\ \A y \in I : EphOf(O, y, q) = c.eph => y <= x
    /\ c.buffer \subseteq I /\ IsFiniteSet(c.buffer) /\ Cardinality(c.buffer) <= MAX_BUFFERED
    /\ \A b \in c.buffer : EphOf(O, b, q) > c.eph /\ PosOf(O, b, q) > c.next
    /\ \A b, d \in c.buffer : PosOf(O, b, q) = PosOf(O, d, q) => b = d

Wired(O) ==
    /\ O \in Seq(Operation) /\ Ordered(O) /\ Len(O) >= 2
    /\ \A o \in 2..Len(O) : O[o].kind = "Contrib" => DOMAIN O[o].slices = Others(O[o].author)
    /\ \A p, q \in Peers : p # q => Threaded(O, p, q)

\* p has all it signed, each operation after those it signed before.
Own(O, p, g) ==
    \A o \in 1..Len(O) : O[o].author = p =>
        o \in DOMAIN g /\ \A x \in 1..(o - 1) : O[x].author = p => x \in g[o]

Rooted(O, p, g) == Good(O, g) /\ {1, 2} \subseteq DOMAIN g /\ Own(O, p, g)

Pooled(p, pool) == pool.served \subseteq Others(p) /\ (~pool.sealed => pool.age < SEAL_AFTER)

Nodes(O, s) ==
    /\ s.absorbed \cap s.missing = {}
    /\ s.absorbed \cup s.missing \cup Range(s.keys) \subseteq Contribs(O) \cap DOMAIN s.graph

Linked(O, p, s) ==
    /\ s.prekeys[p] = 0 /\ s.send[p] = NoChan /\ s.recv[p] = NoRecv
    /\ \A q \in Others(p) : Sends(O, p, q, s.send[q]) /\ Receives(O, q, p, s.graph, s.recv[q])

Local(O, p, s) ==
    /\ s \in State /\ Rooted(O, p, s.graph) /\ Pooled(p, s.pool) /\ KeyList(s.keys)
    /\ Nodes(O, s) /\ Linked(O, p, s)

IInv ==
    /\ Wired(ops) /\ me \in [Peers -> State]
    /\ \A p \in Peers : Local(ops, p, me[p])
    /\ \A p, q \in Peers : Agree(me[p].graph, me[q].graph)

-----------------------------------------------------------------------------
(* Operations are added.                                                      *)

\* p goes on from operations O and graph g to P and h, all it adds being its own.
Grown(O, g, P, h, p) ==
    /\ Len(O) <= Len(P) /\ \A o \in 1..Len(O) : P[o] = O[o]
    /\ \A o \in 1..Len(P) : o \in 1..Len(O) \/ P[o].author = p
    /\ \A x : Good(O, x) => Good(P, x)
    /\ \A x : Good(O, x) /\ Agree(g, x) => Agree(h, x)

\* Two extensions by one author make one.
LEMMA GrownOn ==
    ASSUME NEW O, NEW g, NEW P, NEW h, NEW Q, NEW k, NEW p, Wired(O), Wired(P), Wired(Q),
           Grown(O, g, P, h, p), Grown(P, h, Q, k, p)
    PROVE  Grown(O, g, Q, k, p)
<1>1. Len(O) \in Nat /\ Len(P) \in Nat /\ Len(Q) \in Nat
  BY DEF Wired
<1>2. \A o \in 1..Len(O) : o \in 1..Len(P)
  BY <1>1 DEF Grown
<1>3. Len(O) <= Len(Q) /\ \A o \in 1..Len(O) : Q[o] = O[o]
  BY <1>1, <1>2 DEF Grown
<1>4. \A o \in 1..Len(Q) : o \in 1..Len(O) \/ Q[o].author = p
  BY DEF Grown
<1> QED
  BY <1>3, <1>4 DEF Grown

\* What p said to q is not touched.
Untouched(O, P, p, q) == Mail(P, p, q) = Mail(O, p, q) /\ \A o \in Mail(O, p, q) : P[o] = O[o]

\* Slices nobody touched stay threaded,
LEMMA ThreadedKept ==
    ASSUME NEW O, NEW P, NEW p, NEW q, Untouched(O, P, p, q), Threaded(O, p, q)
    PROVE  Threaded(P, p, q)
<1> DEFINE M == Mail(O, p, q)
<1>1. Mail(P, p, q) = M /\ \A o \in M : P[o] = O[o]
  BY DEF Untouched
<1>2. \A o \in M : EphOf(P, o, q) = EphOf(O, o, q) /\ PosOf(P, o, q) = PosOf(O, o, q)
  BY <1>1 DEF EphOf, PosOf
<1> HIDE DEF M
<1>3. \A o \in M : Continues(O, M, o, q) => Continues(P, M, o, q)
  BY <1>1, <1>2 DEF Continues
<1> QED
  BY <1>1, <1>2, <1>3 DEF Threaded, M

\* the sending end still matches them,
LEMMA SendsKept ==
    ASSUME NEW O, NEW P, NEW p, NEW q, Untouched(O, P, p, q), NEW c, Sends(O, p, q, c)
    PROVE  Sends(P, p, q, c)
  BY DEF Untouched, Sends, EphOf, PosOf

\* and so does the receiving end.
LEMMA ReceivesKept ==
    ASSUME NEW O, NEW P, NEW p, NEW q, \A o \in Mail(O, p, q) : P[o] = O[o], NEW g, NEW h, NEW c,
           Mail(P, p, q) \cap DOMAIN h = Mail(O, p, q) \cap DOMAIN g, Receives(O, p, q, g, c)
    PROVE  Receives(P, p, q, h, c)
<1> DEFINE I == Mail(O, p, q) \cap DOMAIN g
<1>1. Mail(P, p, q) \cap DOMAIN h = I /\ \A o \in I : P[o] = O[o]
  OBVIOUS
<1>2. \A o \in I : EphOf(P, o, q) = EphOf(O, o, q) /\ PosOf(P, o, q) = PosOf(O, o, q)
  BY <1>1 DEF EphOf, PosOf
<1> HIDE DEF I
<1>3. /\ c.eph = 0 => c = NoRecv
      /\ c.eph # 0 =>
           /\ c.eph \in I /\ EphOf(O, c.eph, q) = c.eph
           /\ \E x \in I : /\ EphOf(O, x, q) = c.eph /\ PosOf(O, x, q) + 1 = c.next
                           /\ \A y \in I : EphOf(O, y, q) = c.eph => y <= x
      /\ c.buffer \subseteq I /\ IsFiniteSet(c.buffer) /\ Cardinality(c.buffer) <= MAX_BUFFERED
      /\ \A b \in c.buffer : EphOf(O, b, q) > c.eph /\ PosOf(O, b, q) > c.next
      /\ \A b, d \in c.buffer : PosOf(O, b, q) = PosOf(O, d, q) => b = d
  BY DEF Receives, I
<1>4. /\ c.eph = 0 => c = NoRecv
      /\ c.eph # 0 =>
           /\ c.eph \in I /\ EphOf(P, c.eph, q) = c.eph
           /\ \E x \in I : /\ EphOf(P, x, q) = c.eph /\ PosOf(P, x, q) + 1 = c.next
                           /\ \A y \in I : EphOf(P, y, q) = c.eph => y <= x
      /\ c.buffer \subseteq I /\ IsFiniteSet(c.buffer) /\ Cardinality(c.buffer) <= MAX_BUFFERED
      /\ \A b \in c.buffer : EphOf(P, b, q) > c.eph /\ PosOf(P, b, q) > c.next
      /\ \A b, d \in c.buffer : PosOf(P, b, q) = PosOf(P, d, q) => b = d
  BY <1>2, <1>3
<1> QED
  BY <1>1, <1>4 DEF Receives

\* Operations of p touch the slices of p only.
LEMMA OthersMail ==
    ASSUME NEW O, NEW P, NEW g, NEW h, NEW p, Wired(O), Wired(P), Grown(O, g, P, h, p)
    PROVE  /\ \A q, r : q # p => Untouched(O, P, q, r)
           /\ \A q, r : \A o \in Mail(O, q, r) : P[o] = O[o]
           /\ \A q, r, x : Good(O, x) => Mail(P, q, r) \cap DOMAIN x = Mail(O, q, r) \cap DOMAIN x
<1>1. Len(O) \in Nat /\ Len(P) \in Nat /\ Len(O) <= Len(P) /\ 1..Len(O) \subseteq 1..Len(P)
  BY DEF Wired, Grown
<1>2. \A o \in 1..Len(O) : P[o] = O[o]
  BY DEF Grown
<1>3. \A o \in 1..Len(P) : o \in 1..Len(O) \/ P[o].author = p
  BY DEF Grown
<1>4. ASSUME NEW q, NEW r, q # p PROVE Untouched(O, P, q, r)
  BY <1>1, <1>2, <1>3, <1>4 DEF Untouched, Mail
<1>5. \A q, r : \A o \in Mail(O, q, r) : P[o] = O[o]
  BY <1>2 DEF Mail
<1>6. ASSUME NEW q, NEW r, NEW x, Good(O, x)
      PROVE  Mail(P, q, r) \cap DOMAIN x = Mail(O, q, r) \cap DOMAIN x
  <2>1. DOMAIN x \subseteq 1..Len(O)
    BY <1>6 DEF Good
  <2> QED
    BY <1>1, <1>2, <2>1 DEF Mail
<1> QED
  BY <1>4, <1>5, <1>6

\* Whatever p adds, the others' states stay consistent with the operations.
LEMMA OtherLocal ==
    ASSUME NEW O, NEW P, NEW g, NEW h, NEW p \in Peers, Wired(O), Wired(P), Grown(O, g, P, h, p),
           NEW q \in Peers, q # p, NEW s, Local(O, q, s)
    PROVE  Local(P, q, s)
<1>1. /\ s \in State /\ Rooted(O, q, s.graph) /\ Pooled(q, s.pool) /\ KeyList(s.keys)
      /\ Nodes(O, s) /\ Linked(O, q, s)
  BY DEF Local
<1>2. /\ Len(O) \in Nat /\ Len(P) \in Nat /\ 1..Len(O) \subseteq 1..Len(P)
      /\ DOMAIN O = 1..Len(O) /\ DOMAIN P = 1..Len(P)
  BY DEF Wired, Grown
<1>3. /\ \A o \in 1..Len(O) : P[o] = O[o]
      /\ \A o \in 1..Len(P) : o \in 1..Len(O) \/ P[o].author = p
      /\ \A x : Good(O, x) => Good(P, x)
  BY DEF Grown
<1>4. Good(O, s.graph) /\ DOMAIN s.graph \subseteq 1..Len(O)
  BY <1>1 DEF Rooted, Good
<1>5. Rooted(P, q, s.graph)
  <2>1. Own(P, q, s.graph)
    <3> SUFFICES ASSUME NEW o \in 1..Len(P), P[o].author = q
                 PROVE  /\ o \in DOMAIN s.graph
                        /\ \A x \in 1..(o - 1) : P[x].author = q => x \in s.graph[o]
      BY DEF Own
    <3>1. o \in 1..Len(O) /\ \A x \in 1..(o - 1) : x \in 1..Len(O)
      BY <1>2, <1>3
    <3> QED
      BY <1>1, <1>3, <3>1 DEF Rooted, Own
  <2> QED
    BY <1>1, <1>3, <2>1 DEF Rooted
<1>6. Nodes(P, s)
  <2>1. Contribs(O) \subseteq Contribs(P)
    BY <1>2, <1>3 DEF Contribs
  <2> QED
    BY <1>1, <2>1 DEF Nodes
<1>7. ASSUME NEW r \in Others(q)
      PROVE  Sends(P, q, r, s.send[r]) /\ Receives(P, r, q, s.graph, s.recv[r])
  <2>1. Sends(O, q, r, s.send[r]) /\ Receives(O, r, q, s.graph, s.recv[r])
    BY <1>1 DEF Linked
  <2>2. Untouched(O, P, q, r)
    BY OthersMail
  <2>3. /\ \A o \in Mail(O, r, q) : P[o] = O[o]
        /\ Mail(P, r, q) \cap DOMAIN s.graph = Mail(O, r, q) \cap DOMAIN s.graph
    BY <1>4, OthersMail
  <2> QED
    BY <2>1, <2>2, <2>3, SendsKept, ReceivesKept, Zenon
<1>8. Linked(P, q, s)
  BY <1>1, <1>7 DEF Linked
<1> QED
  BY <1>1, <1>5, <1>6, <1>8 DEF Local

\* p ends a handler with operations P and state u.
LEMMA SetInv ==
    ASSUME IInv, NEW p \in Peers, NEW P, NEW u, Wired(P), Local(P, p, u),
           Grown(ops, me[p].graph, P, u.graph, p), ops' = P, me' = [me EXCEPT ![p] = u]
    PROVE  IInv'
<1>1. /\ Wired(ops) /\ me \in [Peers -> State] /\ (\A q \in Peers : Local(ops, q, me[q]))
      /\ \A q, r \in Peers : Agree(me[q].graph, me[r].graph)
  BY DEF IInv
<1>2. u \in State
  BY DEF Local
<1>3. /\ me' \in [Peers -> State] /\ me'[p] = u
      /\ \A q \in Peers : q # p => me'[q] = me[q]
  BY <1>1, <1>2
<1>4. \A q \in Peers : Local(P, q, me'[q])
  <2>1. \A q \in Peers : q # p => Local(P, q, me[q])
    BY <1>1, OtherLocal
  <2> QED
    BY <1>3, <2>1
<1>5. \A x, y : Agree(x, y) => Agree(y, x)
  BY DEF Agree
<1>6. \A q \in Peers : Agree(u.graph, me[q].graph)
  BY <1>1 DEF Grown, Local, Rooted
<1>7. \A q, r \in Peers : Agree(me'[q].graph, me'[r].graph)
  <2>1. Agree(u.graph, u.graph)
    BY DEF Agree
  <2> QED
    BY <1>1, <1>3, <1>5, <1>6, <2>1
<1> QED
  BY <1>3, <1>4, <1>7 DEF IInv

-----------------------------------------------------------------------------
(* Signing.                                                                   *)

\* An operation may carry no slices.
LEMMA NoSlices == <<>> \in UNION {[D -> Slices] : D \in SUBSET Peers}
<1>1. <<>> \in [{} -> Slices]
  OBVIOUS
<1>2. {} \in SUBSET Peers
  OBVIOUS
<1> QED
  BY <1>1, <1>2

\* A good graph is a map from operations to pasts.
LEMMA GoodPasts ==
    ASSUME NEW O, Len(O) \in Nat, NEW g, Good(O, g)
    PROVE  g \in Pasts
<1>1. DOMAIN g \in SUBSET Nat /\ g \in [DOMAIN g -> SUBSET DOMAIN g]
  BY DEF Good
<1>2. g \in [DOMAIN g -> SUBSET Nat]
  BY <1>1
<1> QED
  BY <1>1, <1>2 DEF Pasts

\* p with operations O and state s has signed one more, and has P and graph h.
Signs(O, p, s, P, h) ==
    /\ Wired(P) /\ Grown(O, s.graph, P, h, p)
    /\ Rooted(P, p, h) /\ h \in Pasts /\ DOMAIN h = DOMAIN s.graph \cup {Len(O) + 1}
    /\ Contribs(O) \subseteq Contribs(P)
    /\ \A q \in Others(p) : Receives(P, q, p, h, s.recv[q])

\* Signing an operation on top of the own graph.
LEMMA Signed ==
    ASSUME LeastNumber, NEW O, Wired(O), NEW p \in Peers, NEW s, Local(O, p, s), NEW op \in Operation,
           op.author = p, op.deps = Heads(s.graph), op.kind = "Contrib" => DOMAIN op.slices = Others(p),
           \A q \in Others(p) : Threaded(Append(O, op), p, q)
    PROVE  Signs(O, p, s, Append(O, op), Add(s.graph, Len(O) + 1, op.deps))
<1>1. PICK P, k, g, h : /\ P = Append(O, op) /\ k = Len(O) + 1 /\ g = s.graph
                        /\ h = Add(g, k, op.deps)
  BY Zenon
<1>2. O \in Seq(Operation) /\ Len(O) \in Nat /\ Ordered(O) /\ Len(O) >= 2
  BY DEF Wired
<1>3. Good(O, g) /\ DOMAIN g \subseteq 1..Len(O) /\ {1, 2} \subseteq DOMAIN g /\ Own(O, p, g)
  BY <1>1 DEF Local, Rooted, Good
<1>4. op.deps \subseteq DOMAIN g /\ Closure(g, op.deps) = DOMAIN g
  BY <1>1, <1>2, <1>3, HeadsCover
<1>5. /\ P \in Seq(Operation) /\ Len(P) = k /\ P[k] = op /\ \A o \in 1..Len(O) : P[o] = O[o]
  BY <1>1, <1>2
<1>6. /\ k \in Nat /\ Len(O) <= k /\ k \notin DOMAIN g /\ DOMAIN O = 1..Len(O) /\ DOMAIN P = 1..k
      /\ \A o \in 1..k : o \in 1..Len(O) \/ o = k
  BY <1>1, <1>2, <1>3, <1>5
<1>7. /\ Ordered(P) /\ Good(P, h)
      /\ \A x : Good(O, x) => Good(P, x)
      /\ \A x : Good(O, x) /\ Agree(g, x) => Agree(h, x)
  <2>1. /\ Ordered(Append(O, op)) /\ Good(Append(O, op), Add(g, Len(O) + 1, op.deps))
        /\ \A x : Good(O, x) => Good(Append(O, op), x)
        /\ \A x : Good(O, x) /\ Agree(g, x) => Agree(Add(g, Len(O) + 1, op.deps), x)
    BY ONLY <1>2, <1>3, <1>4, op \in Operation, SignGood, Zenon
  <2> QED
    BY <1>1, <2>1, Zenon
<1>8. /\ DOMAIN h = DOMAIN g \cup {k} /\ h[k] = DOMAIN g /\ \A x \in DOMAIN g : h[x] = g[x]
  BY <1>1, <1>4, <1>6, Zenon DEF Add
<1>9. Grown(O, g, P, h, p)
  <2>1. \A o \in 1..Len(P) : o \in 1..Len(O) \/ P[o].author = p
    BY <1>5, <1>6
  <2> QED
    BY <1>5, <1>6, <1>7, <2>1 DEF Grown
<1>10. Rooted(P, p, h)
  <2>1. ASSUME NEW o \in 1..k, P[o].author = p
        PROVE  o \in DOMAIN h /\ \A x \in 1..(o - 1) : P[x].author = p => x \in h[o]
    <3>1. \A x \in 1..Len(O) : O[x].author = p => x \in DOMAIN g
      BY <1>3 DEF Own
    <3>2. CASE o = k
      <4>1. \A x \in 1..(o - 1) : x \in 1..Len(O)
        BY <1>1, <1>2, <3>2
      <4> QED
        BY <1>5, <1>8, <3>1, <3>2, <4>1
    <3>3. CASE o \in 1..Len(O)
      <4>1. \A x \in 1..(o - 1) : x \in 1..Len(O)
        BY <1>2, <3>3
      <4>2. o \in DOMAIN g /\ h[o] = g[o]
        BY <1>5, <1>8, <2>1, <3>1, <3>3, Zenon
      <4> QED
        BY <1>3, <1>5, <1>8, <2>1, <3>3, <4>1, <4>2 DEF Own
    <3> QED
      BY <1>6, <3>2, <3>3
  <2>2. Own(P, p, h)
    BY <1>5, <2>1 DEF Own
  <2> QED
    BY <1>3, <1>7, <1>8, <2>2, SMTT(30), Zenon DEF Rooted
<1>11. h \in Pasts
  BY <1>5, <1>6, <1>7, GoodPasts, Zenon
<1>12. \A q, r : q # p => Untouched(O, P, q, r)
  BY <1>5, <1>6 DEF Untouched, Mail
<1>13. Wired(P)
  <2>1. \A o \in 2..Len(P) : P[o].kind = "Contrib" => DOMAIN P[o].slices = Others(P[o].author)
    <3>1. \A o \in 2..Len(P) : o \in 2..Len(O) \/ o = k
      BY <1>1, <1>2, <1>5
    <3>2. \A o \in 2..Len(O) : o \in 1..Len(O)
      BY <1>2
    <3> QED
      BY <1>5, <3>1, <3>2 DEF Wired
  <2>2. ASSUME NEW q \in Peers, NEW r \in Peers, q # r PROVE Threaded(P, q, r)
    <3>1. CASE q = p
      BY <1>1, <2>2, <3>1 DEF Others
    <3>2. CASE q # p
      BY <1>12, <2>2, <3>2, ThreadedKept, Zenon DEF Wired
    <3> QED
      BY <3>1, <3>2
  <2>3. Len(P) >= 2
    BY <1>1, <1>2, <1>5
  <2> QED
    BY <1>5, <1>7, <2>1, <2>2, <2>3, Zenon DEF Wired
<1>14. Contribs(O) \subseteq Contribs(P)
  BY <1>1, <1>2, <1>5, <1>6, SMTT(30), Zenon DEF Contribs
<1>15. ASSUME NEW q \in Others(p) PROVE Receives(P, q, p, h, s.recv[q])
  <2>1. Receives(O, q, p, g, s.recv[q]) /\ q # p
    BY <1>1 DEF Local, Linked, Others
  <2>2. Mail(P, q, p) = Mail(O, q, p) /\ \A o \in Mail(O, q, p) : P[o] = O[o]
    BY <1>12, <2>1 DEF Untouched
  <2>3. k \notin Mail(O, q, p)
    BY <1>1, <1>2 DEF Mail
  <2>4. Mail(P, q, p) \cap DOMAIN h = Mail(O, q, p) \cap DOMAIN g
    BY <1>8, <2>2, <2>3, Zenon
  <2> QED
    BY <2>1, <2>2, <2>4, ReceivesKept, Zenon
<1>16. Signs(O, p, s, P, h)
  BY <1>1, <1>8, <1>9, <1>10, <1>11, <1>13, <1>14, <1>15 DEF Signs
<1> QED
  BY <1>1, <1>16

Threads == [ops : Seq(Operation), s : State]

\* From operations O and state s, p has come to t.
Onward(O, p, s, t) ==
    /\ t \in Threads /\ Wired(t.ops) /\ Local(t.ops, p, t.s)
    /\ Grown(O, s.graph, t.ops, t.s.graph, p)

\* One step after another.
LEMMA OnwardOn ==
    ASSUME NEW O, Wired(O), NEW p, NEW s, NEW t, Onward(O, p, s, t), NEW u, Onward(t.ops, p, t.s, u)
    PROVE  Onward(O, p, s, u)
  BY GrownOn DEF Onward

\* What signing leaves in the participant.
LEMMA SignOpFields ==
    ASSUME NEW t \in Threads, NEW p, NEW op \in Operation, NEW h \in Pasts,
           h = Add(t.s.graph, Len(t.ops) + 1, op.deps)
    PROVE  /\ SignOp(t, p, op) \in Threads
           /\ SignOp(t, p, op).ops = Append(t.ops, op) /\ SignOp(t, p, op).s = [t.s EXCEPT !.graph = h]
<1>1. t.ops \in Seq(Operation) /\ t.s \in State
  BY DEF Threads
<1>2. Append(t.ops, op) \in Seq(Operation)
  BY <1>1
<1>3. [t.s EXCEPT !.graph = h] \in State
  BY <1>1, Zenon DEF State
<1>4. SignOp(t, p, op) = [ops |-> Append(t.ops, op), s |-> [t.s EXCEPT !.graph = h]]
  BY DEF SignOp
<1> QED
  BY <1>2, <1>3, <1>4 DEF Threads

\* Assigning the graph leaves the other fields.
LEMMA NewGraph ==
    ASSUME NEW s \in State, NEW h \in Pasts
    PROVE  LET u == [s EXCEPT !.graph = h] IN
           /\ u \in State /\ u.graph = h /\ u.pool = s.pool /\ u.prekeys = s.prekeys /\ u.send = s.send
           /\ u.recv = s.recv /\ u.keys = s.keys /\ u.absorbed = s.absorbed /\ u.missing = s.missing
  BY Zenon DEF State

\* Assigning the prekey pool leaves the other fields.
LEMMA NewPool ==
    ASSUME NEW s \in State, NEW c \in Pools
    PROVE  LET u == [s EXCEPT !.pool = c] IN
           /\ u \in State /\ u.graph = s.graph /\ u.pool = c /\ u.prekeys = s.prekeys /\ u.send = s.send
           /\ u.recv = s.recv /\ u.keys = s.keys /\ u.absorbed = s.absorbed /\ u.missing = s.missing
  BY Zenon DEF State

\* A new prekey generation has served nobody.
LEMMA FreshPool == ASSUME NEW g \in Nat, NEW p PROVE Pool(g) \in Pools /\ Pooled(p, Pool(g))
  BY AgreementAssumption DEF Pool, Pools, Pooled

\* Participant::rotate_prekeys.
LEMMA Rotated ==
    ASSUME LeastNumber, NEW t \in Threads, NEW p \in Peers, Wired(t.ops), Local(t.ops, p, t.s)
    PROVE  Onward(t.ops, p, t.s, RotatePrekeys(t, p))
<1>1. PICK O, s, g, c : O = t.ops /\ s = t.s /\ g = t.s.pool.gen + 1 /\ c = Pool(g)
  OBVIOUS
<1>2. s \in State /\ O \in Seq(Operation) /\ Wired(O) /\ Local(O, p, s) /\ s.pool \in Pools
  BY <1>1 DEF Threads, State
<1>3. g \in Nat /\ c \in Pools /\ Pooled(p, c)
  <2>1. g \in Nat
    BY <1>1, <1>2 DEF Pools
  <2> QED
    BY <1>1, <2>1, FreshPool
<1>4. PICK z : z = [s EXCEPT !.pool = c]
  BY Zenon
<1>5. /\ z \in State /\ z.graph = s.graph /\ z.pool = c /\ z.prekeys = s.prekeys /\ z.send = s.send
      /\ z.recv = s.recv /\ z.keys = s.keys /\ z.absorbed = s.absorbed /\ z.missing = s.missing
  BY <1>2, <1>3, <1>4, NewPool, Zenon
<1>6. Local(O, p, z)
  BY <1>2, <1>3, <1>5 DEF Local, Nodes, Linked
<1>7. PICK v : v = [t EXCEPT !.s.pool = c]
  BY Zenon
<1>8. v \in Threads /\ v.ops = O /\ v.s = z
  BY <1>1, <1>2, <1>4, <1>5, <1>7 DEF Threads
<1>9. PICK op : op = [author |-> p, kind |-> "Prekeys", deps |-> Heads(s.graph), gen |-> g,
                      cparents |-> {}, slices |-> <<>>]
  BY Zenon
<1>10. op \in Operation /\ op.author = p /\ op.kind = "Prekeys" /\ op.deps = Heads(z.graph)
  <2>1. Heads(s.graph) \in SUBSET Nat
    BY <1>2 DEF Local, Rooted, Good, Heads
  <2>2. g \in Int
    BY <1>3
  <2> QED
    BY <1>5, <1>9, <2>1, <2>2, NoSlices, ZenonT(30) DEF Operation
<1>11. PICK P, h : P = Append(O, op) /\ h = Add(z.graph, Len(O) + 1, op.deps)
  BY Zenon
<1>12. \A q : Untouched(O, P, p, q)
  <2>1. /\ Len(P) = Len(O) + 1 /\ P[Len(O) + 1] = op /\ (\A o \in 1..Len(O) : P[o] = O[o])
        /\ Len(O) \in Nat
    BY <1>2, <1>10, <1>11
  <2>2. 1..Len(O) \subseteq 1..Len(P) /\ \A o \in 1..Len(P) : o \in 1..Len(O) \/ P[o] = op
    BY <2>1
  <2> QED
    BY <1>10, <2>1, <2>2, Zenon DEF Untouched, Mail
<1>13. Signs(O, p, z, P, h)
  <2>1. \A q \in Others(p) : Threaded(P, p, q)
    BY <1>2, <1>12, ThreadedKept, Zenon DEF Wired, Others
  <2>2. op.kind = "Contrib" => DOMAIN op.slices = Others(p)
    BY <1>10
  <2> QED
    BY <1>2, <1>6, <1>10, <1>11, <2>1, <2>2, Signed
<1>14. PICK w : w = RotatePrekeys(t, p)
  OBVIOUS
<1>15. w = SignOp(v, p, op)
  BY <1>1, <1>7, <1>9, <1>14, Zenon DEF RotatePrekeys
<1>16. h \in Pasts
  BY <1>13 DEF Signs
<1>17. w \in Threads /\ w.ops = P /\ w.s = [z EXCEPT !.graph = h]
  BY <1>8, <1>10, <1>11, <1>15, <1>16, SignOpFields, SMTT(30), Zenon
<1>18. PICK u : u = w.s
  OBVIOUS
<1>19. /\ u \in State /\ u.graph = h /\ u.pool = z.pool /\ u.prekeys = z.prekeys /\ u.send = z.send
       /\ u.recv = z.recv /\ u.keys = z.keys /\ u.absorbed = z.absorbed /\ u.missing = z.missing
  BY <1>5, <1>16, <1>17, <1>18, NewGraph, SMTT(30), Zenon
<1>20. Local(P, p, u)
  <2>1. Nodes(P, u)
    BY <1>6, <1>13, <1>19, ZenonT(30) DEF Local, Nodes, Signs
  <2>2. Linked(P, p, u)
    <3>1. \A q \in Others(p) : Sends(P, p, q, u.send[q])
      BY <1>6, <1>12, <1>19, SendsKept, Zenon DEF Local, Linked
    <3>2. \A q \in Others(p) : Receives(P, q, p, u.graph, u.recv[q])
      BY <1>13, <1>19, Zenon DEF Signs
    <3> QED
      BY <1>6, <1>19, <3>1, <3>2, Zenon DEF Local, Linked
  <2>3. Rooted(P, p, u.graph) /\ Pooled(p, u.pool) /\ KeyList(u.keys)
    BY <1>6, <1>13, <1>19, Zenon DEF Local, Signs
  <2> QED
    BY <1>19, <2>1, <2>2, <2>3, Zenon DEF Local
<1>21. Onward(O, p, s, w)
  BY <1>5, <1>13, <1>17, <1>18, <1>19, <1>20, Zenon DEF Onward, Signs
<1> QED
  BY <1>1, <1>14, <1>21

\* What a slice of a contribution consists of.
LEMMA MailTyped ==
    ASSUME NEW O \in Seq(Operation), NEW p, NEW q, NEW o \in Mail(O, p, q)
    PROVE  /\ o \in Nat /\ o \in 1..Len(O) /\ o \in DOMAIN O /\ O[o].slices[q] \in Slices
           /\ EphOf(O, o, q) \in Nat /\ PosOf(O, o, q) \in Nat /\ O[o].slices[q].gen \in Int
<1>1. o \in 1..Len(O) /\ O[o] \in Operation /\ q \in DOMAIN O[o].slices
  BY DEF Mail
<1>2. PICK f, D : f = O[o].slices /\ f \in [D -> Slices]
  BY <1>1 DEF Operation
<1>3. f[q] \in Slices
  BY <1>1, <1>2
<1>4. O[o].slices[q] \in Slices
  BY <1>2, <1>3, Zenon
<1> QED
  BY <1>1, <1>4 DEF EphOf, PosOf, Slices

\* What Participant::contribute_excluding seals for q on the channel c, as the
\* contribution k: on c itself, or on a channel it opens with a prekey of q.
Seals(c, k, sl) ==
    \/ c.eph = 0 /\ sl.eph = k /\ sl.gen # NoGen /\ sl.seq = 0
    \/ c.eph # 0 /\ sl.eph = c.eph /\ sl.gen = NoGen /\ sl.seq = c.next

\* A slice sealed at the sending end continues the thread and moves that end on.
LEMMA Sealed ==
    ASSUME NEW O \in Seq(Operation), NEW P \in Seq(Operation), NEW p, NEW q, Threaded(O, p, q),
           NEW c, Sends(O, p, q, c), NEW k \in Nat \ {0},
           Mail(P, p, q) = Mail(O, p, q) \cup {k}, \A o \in Mail(O, p, q) : P[o] = O[o] /\ o < k,
           Seals(c, k, P[k].slices[q])
    PROVE  /\ Threaded(P, p, q)
           /\ Sends(P, p, q, [eph |-> P[k].slices[q].eph, next |-> P[k].slices[q].seq + 1])
<1> DEFINE M == Mail(O, p, q)
           N == Mail(P, p, q)
           e(o) == EphOf(P, o, q)
           s(o) == PosOf(P, o, q)
<1>1. N = M \cup {k} /\ \A o \in N : o \in Nat /\ e(o) \in Nat /\ s(o) \in Nat
  BY MailTyped
<1>2. \A o \in M : P[o] = O[o] /\ o < k /\ o \in Nat /\ e(o) = EphOf(O, o, q) /\ s(o) = PosOf(O, o, q)
  BY MailTyped DEF EphOf, PosOf
<1>3. e(k) = P[k].slices[q].eph /\ s(k) = P[k].slices[q].seq
  BY DEF EphOf, PosOf
<1>4. /\ \A o \in M : e(o) \in 1..o /\ Continues(O, M, o, q)
      /\ \A x, y \in M : x < y => e(x) <= e(y) /\ (e(x) = e(y) => s(x) < s(y))
  BY <1>2, Zenon DEF Threaded
<1>5. ASSUME NEW o \in M PROVE Continues(P, N, o, q)
  <2>1. CASE EphOf(O, o, q) = o /\ PosOf(O, o, q) = 0 /\ O[o].slices[q].gen # NoGen
    BY <1>2, <2>1 DEF Continues
  <2>2. CASE /\ EphOf(O, o, q) # o /\ O[o].slices[q].gen = NoGen
             /\ \E x \in M : /\ x < o /\ \A y \in M : y < o => y <= x
                             /\ EphOf(O, x, q) = EphOf(O, o, q) /\ PosOf(O, x, q) + 1 = PosOf(O, o, q)
    <3>1. PICK x \in M : /\ x < o /\ \A y \in M : y < o => y <= x
                         /\ EphOf(O, x, q) = EphOf(O, o, q) /\ PosOf(O, x, q) + 1 = PosOf(O, o, q)
      BY <2>2
    <3>2. \A y \in N : y < o => y <= x
      BY <1>1, <1>2, <3>1
    <3>3. e(x) = e(o) /\ s(x) + 1 = s(o) /\ e(o) # o /\ P[o].slices[q].gen = NoGen /\ x \in N
      BY <1>1, <1>2, <2>2, <3>1
    <3> QED
      BY <3>1, <3>2, <3>3 DEF Continues
  <2> QED
    BY <1>4, <2>1, <2>2 DEF Continues
<1>6. /\ Continues(P, N, k, q) /\ e(k) \in 1..k
      /\ \A x \in M : e(x) <= e(k) /\ (e(x) = e(k) => s(x) < s(k))
  <2>1. CASE c.eph = 0
    <3>1. e(k) = k /\ s(k) = 0 /\ P[k].slices[q].gen # NoGen
      BY <1>3, <2>1 DEF Seals
    <3>2. Continues(P, N, k, q) /\ e(k) \in 1..k
      BY <3>1 DEF Continues
    <3>3. \A x \in M : e(x) <= e(k) /\ e(x) # e(k)
      BY <1>1, <1>2, <1>4, <3>1
    <3> QED
      BY <3>2, <3>3
  <2>2. CASE c.eph # 0
    <3>1. PICK x \in M : /\ \A y \in M : y <= x
                         /\ e(x) = c.eph /\ s(x) + 1 = c.next
      BY <1>2, <2>2, Zenon DEF Sends
    <3>2. e(k) = e(x) /\ s(k) = s(x) + 1 /\ P[k].slices[q].gen = NoGen
      BY <1>3, <2>2, <3>1 DEF Seals
    <3>3. x \in N /\ x < k /\ x \in Nat /\ e(x) \in 1..x /\ \A y \in N : y < k => y <= x
      BY <1>1, <1>2, <1>4, <3>1
    <3>4. e(k) \in 1..k /\ e(k) # k
      BY <3>2, <3>3
    <3>5. Continues(P, N, k, q)
      BY <3>2, <3>3, <3>4 DEF Continues
    <3>6. ASSUME NEW y \in M PROVE e(y) <= e(k) /\ (e(y) = e(k) => s(y) < s(k))
      <4>1. y = x \/ y < x
        BY <1>1, <3>1, <3>3
      <4>2. e(y) \in Nat /\ s(y) \in Nat /\ e(x) \in Nat /\ s(x) \in Nat
        BY <1>1
      <4>3. y < x => e(y) <= e(x) /\ (e(y) = e(x) => s(y) < s(x))
        BY <1>4
      <4> HIDE DEF e, s
      <4> QED
        BY <3>2, <4>1, <4>2, <4>3
    <3> QED
      BY <3>4, <3>5, <3>6
  <2> QED
    BY <2>1, <2>2
<1>7. \A x, y \in N : x < y => e(x) <= e(y) /\ (e(x) = e(y) => s(x) < s(y))
  <2>1. \A x \in N : ~(k < x)
    BY <1>1, <1>2
  <2> HIDE DEF e, s, M, N
  <2> QED
    BY <1>1, <1>4, <1>6, <2>1
<1>8. \A o \in N : e(o) \in 1..o /\ Continues(P, N, o, q)
  <2> HIDE DEF e, M, N
  <2> QED
    BY <1>1, <1>4, <1>5, <1>6, Zenon
<1>9. Threaded(P, p, q)
  BY <1>7, <1>8, Zenon DEF Threaded
<1>10. \A y \in N : y <= k
  BY <1>1, <1>2
<1>11. Sends(P, p, q, [eph |-> e(k), next |-> s(k) + 1])
  <2> HIDE DEF e, s
  <2>1. k \in N
    BY <1>1, Zenon
  <2> QED
    BY <1>10, <2>1 DEF Sends, e, s
<1> QED
  BY <1>3, <1>9, <1>11

-----------------------------------------------------------------------------
(* Absorbing.                                                                 *)

\* u is s with other keys, and other nodes absorbed and missing.
Holding(O, s, u) ==
    /\ u \in State /\ KeyList(u.keys) /\ Nodes(O, u)
    /\ u.graph = s.graph /\ u.pool = s.pool /\ u.prekeys = s.prekeys /\ u.send = s.send /\ u.recv = s.recv

\* Learning node keys leaves everything else a participant must satisfy.
LEMMA HoldingLocal ==
    ASSUME NEW O, NEW p, NEW s, NEW u, Local(O, p, s), Holding(O, s, u)
    PROVE  Local(O, p, u)
  BY DEF Local, Holding, Linked

\* NodeKeys after an absorption: nodes held are no longer missing.
LEMMA NewKeys ==
    ASSUME NEW O, NEW s \in State, Nodes(O, s), NEW keys, KeyList(keys), NEW K \in SUBSET Nat,
           K \subseteq Contribs(O) \cap DOMAIN s.graph, Range(keys) \subseteq Range(s.keys) \cup K,
           NEW u, u = [s EXCEPT !.keys = keys, !.absorbed = @ \cup K, !.missing = @ \ K]
    PROVE  Holding(O, s, u)
<1>1. keys \in Seq(Nat) /\ s.absorbed \cup K \in SUBSET Nat /\ s.missing \ K \in SUBSET Nat
  BY DEF KeyList, State
<1>2. u \in State
  BY <1>1, Zenon DEF State
<1>3. /\ u.graph = s.graph /\ u.pool = s.pool /\ u.prekeys = s.prekeys /\ u.send = s.send
      /\ u.recv = s.recv /\ u.keys = keys /\ u.absorbed = s.absorbed \cup K /\ u.missing = s.missing \ K
  BY DEF State
<1>4. Nodes(O, u)
  BY <1>3 DEF Nodes
<1> QED
  BY <1>2, <1>3, <1>4 DEF Holding

\* A node that cannot be opened is marked missing.
LEMMA MarkedMissing ==
    ASSUME NEW O, NEW s \in State, KeyList(s.keys), Nodes(O, s), NEW o \in Nat, o \notin s.absorbed,
           o \in Contribs(O) \cap DOMAIN s.graph,
           NEW u, u = [s EXCEPT !.missing = @ \cup {o}]
    PROVE  Holding(O, s, u)
<1>1. s.missing \cup {o} \in SUBSET Nat
  BY DEF State
<1>2. u \in State
  BY <1>1, Zenon DEF State
<1>3. /\ u.graph = s.graph /\ u.pool = s.pool /\ u.prekeys = s.prekeys /\ u.send = s.send
      /\ u.recv = s.recv /\ u.keys = s.keys /\ u.absorbed = s.absorbed /\ u.missing = s.missing \cup {o}
  BY DEF State
<1>4. Nodes(O, u)
  BY <1>3 DEF Nodes
<1> QED
  BY <1>2, <1>3, <1>4 DEF Holding

\* Participant::absorb.
LEMMA Absorbed ==
    ASSUME NEW O, NEW s \in State, KeyList(s.keys), Nodes(O, s), NEW o \in Nat,
           o \in Contribs(O) \cap DOMAIN s.graph
    PROVE  Holding(O, s, Absorb(O, s, o))
<1>1. PICK u : u = Absorb(O, s, o)
  OBVIOUS
<1>2. CASE o \in s.absorbed
  <2>1. u = s
    BY <1>1, <1>2 DEF Absorb
  <2> QED
    BY <1>1, <2>1 DEF Holding
<1>3. CASE o \notin s.absorbed /\ ~(O[o].cparents \subseteq Range(s.keys))
  <2>1. u = [s EXCEPT !.missing = @ \cup {o}]
    BY <1>1, <1>3, Zenon DEF Absorb
  <2> QED
    BY <1>1, <1>3, <2>1, MarkedMissing
<1>4. CASE o \notin s.absorbed /\ O[o].cparents \subseteq Range(s.keys)
  <2>1. PICK keys, K : keys = Insert(s.keys, o) /\ K = {o}
    BY Zenon
  <2>2. u = [s EXCEPT !.keys = keys, !.absorbed = @ \cup K, !.missing = @ \ K]
    BY <1>1, <1>4, <2>1 DEF Absorb
  <2>3. KeyList(keys) /\ Range(keys) \subseteq Range(s.keys) \cup K
    BY <2>1, Inserted
  <2>4. K \in SUBSET Nat /\ K \subseteq Contribs(O) \cap DOMAIN s.graph
    BY <2>1
  <2> QED
    BY <1>1, <2>2, <2>3, <2>4, NewKeys, Zenon
<1> QED
  BY <1>2, <1>3, <1>4

\* Assigning the sending ends leaves the other fields.
LEMMA NewSend ==
    ASSUME NEW s \in State, NEW c \in [Peers -> Chans]
    PROVE  LET u == [s EXCEPT !.send = c] IN
           /\ u \in State /\ u.graph = s.graph /\ u.pool = s.pool /\ u.prekeys = s.prekeys /\ u.send = c
           /\ u.recv = s.recv /\ u.keys = s.keys /\ u.absorbed = s.absorbed /\ u.missing = s.missing
  BY Zenon DEF State

-----------------------------------------------------------------------------
(* Contributing.                                                              *)

\* contribute_excluding seals a slice at the sending end, or establishes a channel.
LEMMA SliceSeals ==
    ASSUME NEW t \in Threads, NEW q \in Peers
    PROVE  Slice(t, q) \in Slices /\ Seals(t.s.send[q], Len(t.ops) + 1, Slice(t, q))
<1>1. t.s \in State /\ Len(t.ops) \in Nat
  BY DEF Threads
<1>2. t.s.send[q] \in Chans /\ t.s.prekeys[q] \in Nat
  BY <1>1 DEF State
<1>3. t.s.send[q].eph \in Nat /\ t.s.send[q].next \in Nat
  BY <1>2 DEF Chans
<1>4. NoGen \in Int /\ t.s.prekeys[q] # NoGen /\ t.s.prekeys[q] \in Int
  BY <1>2 DEF NoGen
<1>5. CASE t.s.send[q].eph = 0
  <2>1. Slice(t, q) = [eph |-> Len(t.ops) + 1, gen |-> t.s.prekeys[q], seq |-> 0]
    BY <1>5, Zenon DEF Slice
  <2> QED
    BY <1>1, <1>4, <1>5, <2>1, SMTT(30), Zenon DEF Slices, Seals
<1>6. CASE t.s.send[q].eph # 0
  <2>1. Slice(t, q) = [eph |-> t.s.send[q].eph, gen |-> NoGen, seq |-> t.s.send[q].next]
    BY <1>6 DEF Slice
  <2> QED
    BY <1>3, <1>4, <1>6, <2>1, SMTT(30), Zenon DEF Slices, Seals
<1> QED
  BY <1>5, <1>6

\* Participant::contribute_excluding.
LEMMA Contributed ==
    ASSUME LeastNumber, NEW t \in Threads, NEW p \in Peers, Wired(t.ops), Local(t.ops, p, t.s)
    PROVE  Onward(t.ops, p, t.s, ContributeTo(t, p))
<1>1. PICK O, s, k, f, F : /\ O = t.ops /\ s = t.s /\ k = Len(t.ops) + 1
                           /\ f = [q \in Others(p) |-> Slice(t, q)] /\ F = FrontierOf(t.ops, t.s)
  BY Zenon
<1>2. /\ s \in State /\ O \in Seq(Operation) /\ Len(O) \in Nat /\ Wired(O) /\ Local(O, p, s)
      /\ k = Len(O) + 1 /\ k \in Nat \ {0}
  BY <1>1 DEF Threads
<1>3. PICK op : op = [author |-> p, kind |-> "Contrib", deps |-> Heads(s.graph), gen |-> NoGen,
                      cparents |-> F, slices |-> f]
  BY Zenon
<1>4. /\ op \in Operation /\ op.author = p /\ op.kind = "Contrib" /\ op.deps = Heads(s.graph)
      /\ op.slices = f /\ DOMAIN f = Others(p)
  <2>1. Good(O, s.graph)
    BY <1>2, Zenon DEF Local, Rooted
  <2>2. Heads(s.graph) \in SUBSET Nat /\ F \in SUBSET Nat
    BY <1>1, <2>1 DEF Good, Heads, FrontierOf, Frontier
  <2>3. f \in [Others(p) -> Slices]
    BY <1>1, SliceSeals DEF Others
  <2>4. f \in UNION {[D -> Slices] : D \in SUBSET Peers}
    <3>1. Others(p) \in SUBSET Peers
      BY DEF Others
    <3> QED
      BY <2>3, <3>1
  <2>5. NoGen \in Int
    BY DEF NoGen
  <2>6. op \in Operation
    BY <1>3, <2>2, <2>4, <2>5, Zenon DEF Operation
  <2> QED
    BY <1>3, <2>3, <2>6, Zenon
<1>5. PICK P, h : P = Append(O, op) /\ h = Add(s.graph, Len(O) + 1, op.deps)
  BY Zenon
<1>6. /\ P \in Seq(Operation) /\ Len(P) = k /\ P[k] = op /\ \A o \in 1..Len(O) : P[o] = O[o]
  BY <1>2, <1>4, <1>5, SMTT(30), Zenon
<1>7. ASSUME NEW q \in Others(p)
      PROVE  /\ Threaded(P, p, q)
             /\ Sends(P, p, q, [eph |-> f[q].eph, next |-> f[q].seq + 1])
  <2>1. Threaded(O, p, q) /\ Sends(O, p, q, s.send[q]) /\ q \in Peers
    BY <1>2, Zenon DEF Wired, Local, Linked, Others
  <2>2. Mail(P, p, q) = Mail(O, p, q) \cup {k} /\ \A o \in Mail(O, p, q) : P[o] = O[o] /\ o < k
    <3>1. 1..k = 1..Len(O) \cup {k} /\ \A o \in 1..Len(O) : o < k
      BY <1>2
    <3> QED
      BY <1>4, <1>6, <3>1, Zenon DEF Mail
  <2>3. f[q] = Slice(t, q) /\ P[k].slices[q] = f[q]
    BY <1>1, <1>4, <1>6, Zenon
  <2>4. Seals(s.send[q], k, P[k].slices[q])
    BY <1>1, <2>1, <2>3, SliceSeals, Zenon
  <2>5. /\ Threaded(P, p, q)
        /\ Sends(P, p, q, [eph |-> P[k].slices[q].eph, next |-> P[k].slices[q].seq + 1])
    BY <1>2, <1>6, <2>1, <2>2, <2>4, Sealed, Zenon
  <2> QED
    BY <2>3, <2>5, Zenon
<1>8. Signs(O, p, s, P, h)
  BY <1>2, <1>4, <1>5, <1>7, Signed, Zenon
<1>9. h \in Pasts
  BY <1>8 DEF Signs
<1>10. PICK u : u = SignOp(t, p, op)
  OBVIOUS
<1>11. u \in Threads /\ u.ops = P /\ u.s = [s EXCEPT !.graph = h]
  BY <1>1, <1>4, <1>5, <1>9, <1>10, SignOpFields, SMTT(30), Zenon
<1>12. PICK y, c : y = u.s /\ c = [q \in Peers |-> IF q = p THEN NoChan
                                               ELSE [eph |-> f[q].eph, next |-> f[q].seq + 1]]
  BY Zenon
<1>13. /\ y \in State /\ y.graph = h /\ y.pool = s.pool /\ y.prekeys = s.prekeys /\ y.send = s.send
       /\ y.recv = s.recv /\ y.keys = s.keys /\ y.absorbed = s.absorbed /\ y.missing = s.missing
  BY <1>2, <1>9, <1>11, <1>12, NewGraph, SMTT(30), Zenon
<1>14. c \in [Peers -> Chans] /\ c[p] = NoChan
       /\ \A q \in Others(p) : c[q] = [eph |-> f[q].eph, next |-> f[q].seq + 1]
  <2>1. \A q \in Others(p) : f[q] \in Slices
    BY <1>1, SliceSeals, Zenon DEF Others
  <2>2. NoChan \in Chans /\ \A q \in Others(p) : [eph |-> f[q].eph, next |-> f[q].seq + 1] \in Chans
    BY <2>1 DEF Slices, Chans, NoChan
  <2> QED
    BY <1>12, <2>2 DEF Others
<1>15. PICK z : z = [y EXCEPT !.send = c]
  BY Zenon
<1>16. /\ z \in State /\ z.graph = y.graph /\ z.pool = y.pool /\ z.prekeys = y.prekeys /\ z.send = c
       /\ z.recv = y.recv /\ z.keys = y.keys /\ z.absorbed = y.absorbed /\ z.missing = y.missing
  BY <1>13, <1>14, <1>15, NewSend
<1>17. Local(P, p, z)
  <2>1. Nodes(P, z)
    BY <1>2, <1>8, <1>13, <1>16, Zenon DEF Local, Nodes, Signs
  <2>2. Linked(P, p, z)
    <3>1. \A q \in Others(p) : Sends(P, p, q, z.send[q])
      BY <1>7, <1>14, <1>16, Zenon
    <3>2. \A q \in Others(p) : Receives(P, q, p, z.graph, z.recv[q])
      BY <1>8, <1>13, <1>16, Zenon DEF Signs
    <3> QED
      BY <1>2, <1>13, <1>14, <1>16, <3>1, <3>2, Zenon DEF Local, Linked
  <2>3. Rooted(P, p, z.graph) /\ Pooled(p, z.pool) /\ KeyList(z.keys)
    BY <1>2, <1>8, <1>13, <1>16, Zenon DEF Local, Signs
  <2> QED
    BY <1>16, <2>1, <2>2, <2>3, Zenon DEF Local
<1>18. PICK x : x = Absorb(P, z, k)
  BY Zenon
<1>19. Holding(P, z, x)
  <2>1. k \in Contribs(P) /\ k \in DOMAIN z.graph
    BY <1>2, <1>4, <1>6, <1>8, <1>13, <1>16 DEF Contribs, Signs
  <2> QED
    BY <1>2, <1>17, <1>18, <2>1, Absorbed, Zenon DEF Local
<1>20. PICK w : w = ContributeTo(t, p)
  OBVIOUS
<1>21. w = [u EXCEPT !.s = x]
  <2>1. w = [u EXCEPT !.s = Absorb(u.ops, [@ EXCEPT !.send = c], k)]
    BY <1>1, <1>3, <1>10, <1>12, <1>20, Zenon DEF ContributeTo
  <2> QED
    BY <1>11, <1>12, <1>15, <1>18, <2>1, Zenon
<1>22. w \in Threads /\ w.ops = P /\ w.s = x
  <2>1. x \in State
    BY <1>19, Zenon DEF Holding
  <2> QED
    BY <1>11, <1>21, <2>1, Zenon DEF Threads
<1>23. Local(P, p, x) /\ x.graph = h
  BY <1>13, <1>16, <1>17, <1>19, HoldingLocal, Zenon DEF Holding
<1>24. Onward(O, p, s, w)
  BY <1>8, <1>22, <1>23, Zenon DEF Onward, Signs
<1> QED
  BY <1>1, <1>20, <1>24

-----------------------------------------------------------------------------
(* Receiving.                                                                 *)

\* What a signs reaches p in the order a signed it.
LEMMA InOrder ==
    ASSUME IInv, NEW p \in Peers, NEW o \in DOMAIN ops \ DOMAIN me[p].graph,
           DepsSatisfied(me[p].graph, ops[o].deps)
    PROVE  /\ ops[o].author \in Peers /\ ops[o].author # p
           /\ \A y \in 1..Len(ops) : ops[y].author = ops[o].author => (y \in DOMAIN me[p].graph <=> y < o)
<1>1. PICK g, a, h : g = me[p].graph /\ a = ops[o].author /\ h = Add(g, o, ops[o].deps)
  OBVIOUS
<1>2. /\ ops \in Seq(Operation) /\ Len(ops) \in Nat /\ DOMAIN ops = 1..Len(ops) /\ Ordered(ops)
      /\ o \in 1..Len(ops) /\ o \notin DOMAIN g /\ ops[o].deps \subseteq DOMAIN g
  BY <1>1 DEF IInv, Wired, DepsSatisfied
<1>3. a \in Peers
  <2>1. ops[o] \in Operation
    BY <1>2, SeqElement
  <2> QED
    BY <1>1, <2>1 DEF Operation
<1>4. PICK k : k = me[a].graph
  BY Zenon
<1>5. Good(ops, g) /\ Own(ops, p, g) /\ Good(ops, k) /\ Own(ops, a, k) /\ Agree(g, k)
  BY <1>1, <1>3, <1>4, Zenon DEF IInv, Local, Rooted
<1>6. a # p
  BY <1>1, <1>2, <1>5, Zenon DEF Own
<1>7. Good(ops, h) /\ Agree(h, k) /\ DOMAIN h = DOMAIN g \cup {o}
  <2>1. /\ Good(ops, Add(g, o, ops[o].deps))
        /\ \A x : Good(ops, x) /\ Agree(g, x) => Agree(Add(g, o, ops[o].deps), x)
    BY <1>2, <1>5, AddGood, Zenon
  <2> QED
    BY <1>1, <1>5, <2>1, AddDomain, Zenon
<1>8. ASSUME NEW y \in 1..Len(ops), ops[y].author = a PROVE y \in DOMAIN g <=> y < o
  <2>1. y \in Nat /\ o \in Nat
    BY <1>2
  <2>2. ASSUME y < o PROVE y \in DOMAIN g
    <3>1. o \in DOMAIN k /\ y \in k[o]
      <4>1. y \in 1..(o - 1)
        BY <2>1, <2>2
      <4> QED
        BY <1>1, <1>2, <1>5, <1>8, <4>1 DEF Own
    <3>2. y \in h[o] /\ o \in DOMAIN h
      BY <1>7, <3>1 DEF Agree
    <3>3. y \in DOMAIN h
      BY <1>7, <3>2 DEF Good
    <3> QED
      BY <1>7, <2>1, <2>2, <3>3, SMTT(30), Zenon
  <2>3. ASSUME y \in DOMAIN g, ~(y < o) PROVE FALSE
    <3>1. o \in 1..(y - 1)
      BY <1>2, <2>1, <2>3, SMTT(30), Zenon
    <3>2. y \in DOMAIN k /\ o \in k[y]
      BY <1>1, <1>2, <1>5, <1>8, <3>1, Zenon DEF Own
    <3>3. o \in g[y]
      BY <1>5, <2>3, <3>2, Zenon DEF Agree
    <3> QED
      BY <1>2, <1>5, <2>3, <3>3 DEF Good
  <2> QED
    BY <2>2, <2>3
<1> QED
  BY <1>1, <1>3, <1>6, <1>8

\* The contribution o of a, the next one p has not seen, is the next position of
\* the channel p has from a, with nothing left in its buffer, or lies on a later
\* channel.
LEMMA Arrival ==
    ASSUME NEW O \in Seq(Operation), NEW a, NEW p, Threaded(O, a, p), NEW g, NEW c \in Recvs,
           Receives(O, a, p, g, c), NEW o \in Mail(O, a, p),
           \A y \in Mail(O, a, p) : y \in DOMAIN g <=> y < o
    PROVE  \/ /\ c.eph # 0 /\ EphOf(O, o, p) = c.eph /\ PosOf(O, o, p) = c.next /\ c.buffer = {}
              /\ O[o].slices[p].gen = NoGen
           \/ EphOf(O, o, p) > c.eph
<1> DEFINE M == Mail(O, a, p)
           I == M \cap DOMAIN g
           e(y) == EphOf(O, y, p)
           s(y) == PosOf(O, y, p)
<1>1. /\ \A y \in M : e(y) \in 1..y /\ Continues(O, M, y, p)
      /\ \A x, y \in M : x < y => e(x) <= e(y) /\ (e(x) = e(y) => s(x) < s(y))
  BY Zenon DEF Threaded
<1>2. \A y \in M : y \in Nat /\ e(y) \in Nat /\ s(y) \in Nat
  BY MailTyped
<1>3. \A y \in I : y \in M /\ y < o
  OBVIOUS
<1>4. c.eph \in Nat /\ c.next \in Nat
  BY Zenon DEF Recvs
<1>5. CASE c.eph = 0
  <2>1. o \in Nat /\ e(o) \in 1..o
    BY <1>1, <1>2, Zenon
  <2> QED
    BY <1>5, <2>1, NumberOrder, Zenon
<1>6. CASE c.eph # 0 /\ e(o) # c.eph
  <2>1. c.eph \in I /\ e(c.eph) = c.eph
    BY <1>6 DEF Receives
  <2>2. e(c.eph) <= e(o)
    BY <1>1, <1>3, <2>1, Zenon
  <2> QED
    BY <1>2, <1>4, <1>6, <2>1, <2>2, NumberOrder, Zenon
<1>7. CASE c.eph # 0 /\ e(o) = c.eph
  <2>1. c.eph \in I /\ e(c.eph) = c.eph
    BY <1>7, Zenon DEF Receives
  <2>2. e(o) # o
    BY <1>2, <1>3, <1>4, <1>7, <2>1, NumberOrder, Zenon
  <2>3. O[o].slices[p].gen = NoGen
    BY <1>1, <2>2 DEF Continues
  <2>4. PICK x \in M : x < o /\ (\A y \in M : y < o => y <= x) /\ e(x) = e(o) /\ s(x) + 1 = s(o)
    BY <1>1, <2>2, Zenon DEF Continues
  <2>5. PICK z \in I : e(z) = c.eph /\ s(z) + 1 = c.next /\ \A y \in I : e(y) = c.eph => y <= z
    BY <1>7, Zenon DEF Receives
  <2>6. x \in I /\ x <= z /\ z <= x
    BY <1>3, <1>7, <2>4, <2>5, Zenon
  <2>7. x = z
    BY <1>2, <2>4, <2>5, <2>6
  <2>8. s(o) = c.next
    BY <2>4, <2>5, <2>7, Zenon
  <2>9. ASSUME NEW b \in c.buffer PROVE FALSE
    <3>1. b \in I /\ e(b) > c.eph
      BY Zenon DEF Receives
    <3>2. e(b) <= e(o)
      BY <1>1, <1>3, <3>1, Zenon
    <3>3. e(b) \in Nat /\ e(o) \in Nat /\ e(b) > e(o)
      BY <1>2, <1>3, <1>7, <3>1, Zenon
    <3> QED
      BY <3>2, <3>3, NumberOrder, Zenon
  <2> QED
    BY <1>7, <2>3, <2>8, <2>9, Zenon
<1> QED
  BY <1>5, <1>6, <1>7, Zenon

\* Local, but for what p makes of the contributions of a.
Almost(O, p, s, a) ==
    /\ s \in State /\ Rooted(O, p, s.graph) /\ Pooled(p, s.pool) /\ KeyList(s.keys) /\ Nodes(O, s)
    /\ s.prekeys[p] = 0 /\ s.send[p] = NoChan /\ s.recv[p] = NoRecv
    /\ \A q \in Others(p) : /\ Sends(O, p, q, s.send[q])
                            /\ q # a => Receives(O, q, p, s.graph, s.recv[q])

\* A participant whose end towards a is right is right altogether.
LEMMA AlmostLocal ==
    ASSUME NEW O, NEW p, NEW s, NEW a, Almost(O, p, s, a), Receives(O, a, p, s.graph, s.recv[a])
    PROVE  Local(O, p, s)
  BY Zenon DEF Almost, Local, Linked

\* Learning node keys does not touch the ends.
LEMMA HoldingAlmost ==
    ASSUME NEW O, NEW p, NEW s, NEW u, NEW a, Almost(O, p, s, a), Holding(O, s, u)
    PROVE  Almost(O, p, u, a)
  BY Zenon DEF Almost, Holding

\* u is s with the receiving channel c from a, and the pool d.
Rewired(s, u, a, c, d) ==
    /\ u \in State /\ u.graph = s.graph /\ u.pool = d /\ u.prekeys = s.prekeys /\ u.send = s.send
    /\ u.recv[a] = c /\ (\A q \in Peers : q # a => u.recv[q] = s.recv[q])
    /\ u.keys = s.keys /\ u.absorbed = s.absorbed /\ u.missing = s.missing

\* Nor does replacing the receiving end from a touch the others.
LEMMA RewiredAlmost ==
    ASSUME NEW O, NEW p \in Peers, NEW s, NEW u, NEW a, p # a, Almost(O, p, s, a), NEW c, NEW d,
           Pooled(p, d), Rewired(s, u, a, c, d)
    PROVE  Almost(O, p, u, a)
  BY Zenon DEF Almost, Rewired, Nodes, Others

\* A receiving end that is replaced,
LEMMA NewRecv ==
    ASSUME NEW s \in State, NEW a \in Peers, NEW c \in Recvs, NEW d \in Pools
    PROVE  Rewired(s, [s EXCEPT !.pool = d, !.recv[a] = c], a, c, d)
<1>1. PICK u, f : u = [s EXCEPT !.pool = d, !.recv[a] = c] /\ f = [s.recv EXCEPT ![a] = c]
  BY Zenon
<1>2. s.recv \in [Peers -> Recvs]
  BY DEF State
<1>3. f \in [Peers -> Recvs] /\ f[a] = c /\ \A q \in Peers : q # a => f[q] = s.recv[q]
  BY <1>1, <1>2
<1>4. u = [s EXCEPT !.pool = d, !.recv = f]
  BY <1>1, <1>3 DEF State
<1>5. u \in State
  BY <1>3, <1>4, Zenon DEF State
<1>6. /\ u.graph = s.graph /\ u.pool = d /\ u.prekeys = s.prekeys /\ u.send = s.send /\ u.recv = f
      /\ u.keys = s.keys /\ u.absorbed = s.absorbed /\ u.missing = s.missing
  BY <1>4 DEF State
<1>7. Rewired(s, u, a, c, d)
  BY <1>3, <1>5, <1>6 DEF Rewired
<1> QED
  BY <1>1, <1>7

\* moved on by RecvChan::commit,
LEMMA NextRecv ==
    ASSUME NEW s \in State, NEW a \in Peers
    PROVE  LET c == [eph |-> s.recv[a].eph, next |-> s.recv[a].next + 1, buffer |-> s.recv[a].buffer] IN
           Rewired(s, [s EXCEPT !.recv[a].next = @ + 1], a, c, s.pool)
<1>1. PICK u, f, c : /\ u = [s EXCEPT !.recv[a].next = @ + 1]
                     /\ c = [eph |-> s.recv[a].eph, next |-> s.recv[a].next + 1, buffer |-> s.recv[a].buffer]
                     /\ f = [s.recv EXCEPT ![a] = c]
  BY Zenon
<1>2. s.recv \in [Peers -> Recvs] /\ s.recv[a] \in Recvs
  BY DEF State
<1>3. c \in Recvs /\ c = [s.recv[a] EXCEPT !.next = s.recv[a].next + 1]
  BY <1>1, <1>2 DEF Recvs
<1>4. f \in [Peers -> Recvs] /\ f[a] = c /\ \A q \in Peers : q # a => f[q] = s.recv[q]
  BY <1>1, <1>2, <1>3
<1>5. u = [s EXCEPT !.recv = f]
  BY <1>1, <1>3
<1>6. u \in State
  BY <1>4, <1>5, Zenon DEF State
<1>7. /\ u.graph = s.graph /\ u.pool = s.pool /\ u.prekeys = s.prekeys /\ u.send = s.send /\ u.recv = f
      /\ u.keys = s.keys /\ u.absorbed = s.absorbed /\ u.missing = s.missing
  BY <1>5 DEF State
<1>8. Rewired(s, u, a, c, s.pool)
  BY <1>4, <1>6, <1>7 DEF Rewired
<1> QED
  BY <1>1, <1>8

\* or given a slice to keep by RecvChan::offer.
LEMMA BufferRecv ==
    ASSUME NEW s \in State, NEW a \in Peers, NEW o \in Nat
    PROVE  LET c == [eph |-> s.recv[a].eph, next |-> s.recv[a].next, buffer |-> s.recv[a].buffer \cup {o}] IN
           Rewired(s, [s EXCEPT !.recv[a].buffer = @ \cup {o}], a, c, s.pool)
<1>1. PICK u, f, c : /\ u = [s EXCEPT !.recv[a].buffer = @ \cup {o}]
                     /\ c = [eph |-> s.recv[a].eph, next |-> s.recv[a].next,
                             buffer |-> s.recv[a].buffer \cup {o}]
                     /\ f = [s.recv EXCEPT ![a] = c]
  BY Zenon
<1>2. s.recv \in [Peers -> Recvs] /\ s.recv[a] \in Recvs
  BY DEF State
<1>3. c \in Recvs /\ c = [s.recv[a] EXCEPT !.buffer = s.recv[a].buffer \cup {o}]
  <2>1. PICK r, b : r = s.recv[a] /\ b = s.recv[a].buffer \cup {o}
    BY Zenon
  <2>2. r \in Recvs /\ b \in SUBSET Nat /\ c = [eph |-> r.eph, next |-> r.next, buffer |-> b]
    BY <1>1, <1>2, <2>1 DEF Recvs
  <2>3. c \in Recvs /\ c = [r EXCEPT !.buffer = b]
    BY <2>2 DEF Recvs
  <2> QED
    BY <2>1, <2>3
<1>4. f \in [Peers -> Recvs] /\ f[a] = c /\ \A q \in Peers : q # a => f[q] = s.recv[q]
  BY <1>1, <1>2, <1>3
<1>5. u = [s EXCEPT !.recv = f]
  BY <1>1, <1>3, Zenon
<1>6. u \in State
  BY <1>4, <1>5, Zenon DEF State
<1>7. /\ u.graph = s.graph /\ u.pool = s.pool /\ u.prekeys = s.prekeys /\ u.send = s.send /\ u.recv = f
      /\ u.keys = s.keys /\ u.absorbed = s.absorbed /\ u.missing = s.missing
  BY <1>5 DEF State
<1>8. Rewired(s, u, a, c, s.pool)
  BY <1>4, <1>6, <1>7, Zenon DEF Rewired
<1> QED
  BY <1>1, <1>8

\* p has handled an operation and holds u instead of s.
Handled(O, p, s, u) == u \in State /\ Local(O, p, u) /\ u.graph = s.graph

\* RecvChan::offer of a slice at the awaited position of its channel.
LEMMA OfferOpens ==
    ASSUME LeastNumber, FiniteSteps,
           NEW O \in Seq(Operation), NEW p \in Peers, NEW a \in Peers, a # p, NEW s, Almost(O, p, s, a),
           NEW o \in Mail(O, a, p) \cap DOMAIN s.graph, NEW c, c = s.recv[a], c.eph # 0, c.buffer = {},
           EphOf(O, o, p) = c.eph, PosOf(O, o, p) = c.next,
           c.eph \in Mail(O, a, p) \cap DOMAIN s.graph, EphOf(O, c.eph, p) = c.eph,
           \A y \in Mail(O, a, p) \cap DOMAIN s.graph : y <= o
    PROVE  Handled(O, p, s, Offer(O, s, p, o))
<1>1. PICK y, v : y = Absorb(O, s, o) /\ v = [y EXCEPT !.recv[a].next = @ + 1]
  BY Zenon
<1>2. /\ O[o].author = a /\ O[o].slices[p].eph = c.eph /\ O[o].slices[p].seq = c.next
      /\ o \in Nat /\ o \in Contribs(O) /\ c.next \in Nat
  <2>1. o \in Nat /\ PosOf(O, o, p) \in Nat
    BY MailTyped, Zenon
  <2>2. o \in 1..Len(O) /\ O[o].kind = "Contrib" /\ O[o].author = a
    BY Zenon DEF Mail
  <2>3. o \in DOMAIN O
    BY <2>2
  <2> QED
    BY <2>1, <2>2, <2>3 DEF EphOf, PosOf, Contribs
<1>3. Holding(O, s, y)
  BY <1>1, <1>2, Absorbed, Zenon DEF Almost
<1>4. y \in State /\ y.graph = s.graph /\ y.recv = s.recv /\ y.pool = s.pool
  BY <1>3, Zenon DEF Holding
<1>5. Almost(O, p, y, a)
  BY <1>3, HoldingAlmost, Zenon
<1>6. PICK d : d = [eph |-> c.eph, next |-> c.next + 1, buffer |-> {}]
  BY Zenon
<1>7. Rewired(y, v, a, d, y.pool)
  <2>1. Rewired(y, [y EXCEPT !.recv[a].next = @ + 1], a,
                [eph |-> y.recv[a].eph, next |-> y.recv[a].next + 1, buffer |-> y.recv[a].buffer], y.pool)
    BY <1>4, NextRecv, Zenon
  <2> QED
    BY <1>1, <1>4, <1>6, <2>1, Zenon
<1>8. Almost(O, p, v, a)
  <2>1. Pooled(p, y.pool)
    BY <1>5, Zenon DEF Almost
  <2> QED
    BY <1>5, <1>7, <2>1, RewiredAlmost, Zenon
<1>9. v \in State /\ v.graph = s.graph /\ v.recv[a] = d
  BY <1>4, <1>7, Zenon DEF Rewired
<1>10. Receives(O, a, p, v.graph, d)
  <2>1. d.eph = c.eph /\ d.next = c.next + 1 /\ d.buffer = {}
    BY <1>6, Zenon
  <2>2. Cardinality({}) <= MAX_BUFFERED /\ IsFiniteSet({})
    BY AgreementAssumption, SMTT(30), Zenon DEF FiniteSteps
  <2> QED
    BY <1>9, <2>1, <2>2, Zenon DEF Receives
<1>11. Local(O, p, v)
  BY <1>8, <1>9, <1>10, AlmostLocal
<1>12. Opens(s, a, O[o].slices[p])
  BY <1>2 DEF Opens
<1>13. OpenSlice(O, s, p, a, o) = v
  BY <1>1, <1>12, Zenon DEF OpenSlice
<1>14. Drain(O, v, p, a) = v
  <2>1. v.recv[a].buffer = {}
    BY <1>6, <1>9
  <2> QED
    BY <2>1, DrainNothing, Zenon
<1>15. Offer(O, s, p, o) = v
  <2>1. ~(c.next < c.next) /\ ~(c.next > c.next)
    BY <1>2, NumberOrder, Zenon
  <2> QED
    BY <1>2, <1>12, <1>13, <1>14, <2>1, Zenon DEF Offer
<1> QED
  BY <1>9, <1>11, <1>15, Zenon DEF Handled

\* A slice of a later channel changes nothing for the channel p has.
LEMMA LaterReceives ==
    ASSUME NEW O \in Seq(Operation), NEW p, NEW a, NEW g, NEW h, NEW c \in Recvs, Receives(O, a, p, g, c),
           NEW o \in Mail(O, a, p), DOMAIN h = DOMAIN g \cup {o}, EphOf(O, o, p) > c.eph
    PROVE  Receives(O, a, p, h, c)
<1> DEFINE I == Mail(O, a, p) \cap DOMAIN g
           J == Mail(O, a, p) \cap DOMAIN h
<1>1. J = I \cup {o} /\ EphOf(O, o, p) # c.eph
  <2>1. EphOf(O, o, p) \in Nat /\ c.eph \in Nat
    BY MailTyped DEF Recvs
  <2>2. EphOf(O, o, p) # c.eph
    BY <2>1, NumberOrder, Zenon
  <2>3. J = I \cup {o}
    BY Zenon
  <2> QED
    BY <2>2, <2>3, Zenon
<1>2. c.eph # 0 => /\ c.eph \in J /\ EphOf(O, c.eph, p) = c.eph
                   /\ \E x \in J : /\ EphOf(O, x, p) = c.eph /\ PosOf(O, x, p) + 1 = c.next
                                   /\ \A y \in J : EphOf(O, y, p) = c.eph => y <= x
  <2> SUFFICES ASSUME c.eph # 0
               PROVE  /\ c.eph \in J /\ EphOf(O, c.eph, p) = c.eph
                      /\ \E x \in J : /\ EphOf(O, x, p) = c.eph /\ PosOf(O, x, p) + 1 = c.next
                                      /\ \A y \in J : EphOf(O, y, p) = c.eph => y <= x
    BY Zenon
  <2>1. c.eph \in I /\ EphOf(O, c.eph, p) = c.eph
    BY Zenon DEF Receives
  <2>2. PICK x \in I : /\ EphOf(O, x, p) = c.eph /\ PosOf(O, x, p) + 1 = c.next
                       /\ \A y \in I : EphOf(O, y, p) = c.eph => y <= x
    BY Zenon DEF Receives
  <2> HIDE DEF I, J
  <2> QED
    BY <1>1, <2>1, <2>2
<1>3. c.buffer \subseteq J
  BY <1>1, Zenon DEF Receives
<1> QED
  BY <1>2, <1>3, Zenon DEF Receives

\* RecvChan::offer of a slice of a later channel: it is buffered, marked missing
\* or ignored.
LEMMA OfferLater ==
    ASSUME FiniteSteps, NEW O \in Seq(Operation), NEW p \in Peers, NEW a \in Peers, a # p, NEW s, Almost(O, p, s, a),
           NEW o \in Mail(O, a, p) \cap DOMAIN s.graph, o \notin s.absorbed,
           Receives(O, a, p, s.graph, s.recv[a]), EphOf(O, o, p) > s.recv[a].eph
    PROVE  Handled(O, p, s, Offer(O, s, p, o))
<1>1. PICK c, sl : c = s.recv[a] /\ sl = O[o].slices[p]
  BY Zenon
<1>2. s \in State /\ c \in Recvs /\ KeyList(s.keys) /\ Nodes(O, s) /\ Pooled(p, s.pool)
  BY <1>1, Zenon DEF Almost, State
<1>3. /\ o \in Nat /\ sl.eph = EphOf(O, o, p) /\ sl.seq = PosOf(O, o, p) /\ sl.seq \in Nat /\ sl.eph \in Nat
      /\ c.next \in Nat /\ c.eph \in Nat
  <2>1. o \in Nat /\ EphOf(O, o, p) \in Nat /\ PosOf(O, o, p) \in Nat
    BY MailTyped, Zenon
  <2>2. sl.eph = EphOf(O, o, p) /\ sl.seq = PosOf(O, o, p)
    BY <1>1, Zenon DEF EphOf, PosOf
  <2>3. c.next \in Nat /\ c.eph \in Nat
    BY <1>2, Zenon DEF Recvs
  <2> QED
    BY <2>1, <2>2, <2>3, Zenon
<1>4. O[o].author = a /\ o \in Contribs(O) \cap DOMAIN s.graph
  <2>1. o \in 1..Len(O) /\ O[o].kind = "Contrib" /\ O[o].author = a
    BY DEF Mail
  <2>2. o \in DOMAIN O
    BY <2>1
  <2> QED
    BY <2>1, <2>2, Zenon DEF Contribs
<1>5. ~Opens(s, a, sl)
  BY <1>1, <1>3, NumberOrder, Zenon DEF Opens
<1>6. Local(O, p, s)
  BY <1>1, AlmostLocal
<1>7. PICK v : v = Offer(O, s, p, o)
  BY Zenon
<1>8. CASE v = s
  BY <1>2, <1>6, <1>7, <1>8, Zenon DEF Handled
<1>9. CASE v = [s EXCEPT !.missing = @ \cup {o}]
  <2>1. Holding(O, s, v)
    BY <1>2, <1>3, <1>4, <1>9, MarkedMissing, Zenon
  <2> QED
    BY <1>6, <1>7, <2>1, HoldingLocal, Zenon DEF Handled, Holding
<1>10. CASE /\ v = [s EXCEPT !.recv[a].buffer = @ \cup {o}] /\ c.eph # 0 /\ sl.seq > c.next
            /\ Cardinality(c.buffer) < MAX_BUFFERED
            /\ \A b \in c.buffer : O[b].slices[p].seq # sl.seq
  <2>1. PICK d : d = [eph |-> c.eph, next |-> c.next, buffer |-> c.buffer \cup {o}]
    BY Zenon
  <2>2. Rewired(s, v, a, d, s.pool)
    <3>1. Rewired(s, [s EXCEPT !.recv[a].buffer = @ \cup {o}], a,
                  [eph |-> s.recv[a].eph, next |-> s.recv[a].next, buffer |-> s.recv[a].buffer \cup {o}], s.pool)
      BY <1>2, <1>3, BufferRecv, Zenon
    <3> QED
      BY <1>1, <1>10, <2>1, <3>1, Zenon
  <2>3. Almost(O, p, v, a)
    BY <1>2, <2>2, RewiredAlmost, Zenon
  <2>4. v \in State /\ v.graph = s.graph /\ v.recv[a] = d
    BY <2>2 DEF Rewired
  <2>5. d.eph = c.eph /\ d.next = c.next /\ d.buffer = c.buffer \cup {o}
    BY <2>1
  <2>6. IsFiniteSet(d.buffer) /\ Cardinality(d.buffer) <= MAX_BUFFERED
    <3>1. IsFiniteSet(c.buffer)
      BY <1>1, Zenon DEF Receives
    <3>2. Cardinality(c.buffer) \in Nat
      BY <3>1, Zenon DEF FiniteSteps
    <3>3. /\ IsFiniteSet(c.buffer \cup {o})
          /\ \/ Cardinality(c.buffer \cup {o}) = Cardinality(c.buffer)
             \/ Cardinality(c.buffer \cup {o}) = Cardinality(c.buffer) + 1
      BY <3>1, Zenon DEF FiniteSteps
    <3> QED
      BY <1>10, <2>5, <3>2, <3>3, AgreementAssumption
  <2>7. d.buffer \subseteq Mail(O, a, p) \cap DOMAIN s.graph
    BY <1>1, <2>5, Zenon DEF Receives
  <2>8. \A b \in d.buffer : EphOf(O, b, p) > d.eph /\ PosOf(O, b, p) > d.next
    BY <1>1, <1>3, <1>10, <2>5, Zenon DEF Receives
  <2>9. \A b, e \in d.buffer : PosOf(O, b, p) = PosOf(O, e, p) => b = e
    <3>1. \A b \in c.buffer : PosOf(O, b, p) # PosOf(O, o, p)
      BY <1>3, <1>10, Zenon DEF PosOf
    <3>2. \A b, e \in c.buffer : PosOf(O, b, p) = PosOf(O, e, p) => b = e
      BY <1>1, Zenon DEF Receives
    <3> QED
      BY <2>5, <3>1, <3>2
  <2>10. /\ c.eph \in Mail(O, a, p) \cap DOMAIN s.graph /\ EphOf(O, c.eph, p) = c.eph
         /\ \E x \in Mail(O, a, p) \cap DOMAIN s.graph :
              /\ EphOf(O, x, p) = c.eph /\ PosOf(O, x, p) + 1 = c.next
              /\ \A y \in Mail(O, a, p) \cap DOMAIN s.graph : EphOf(O, y, p) = c.eph => y <= x
    BY <1>1, <1>10 DEF Receives
  <2>11. Receives(O, a, p, v.graph, d)
    BY <1>10, <2>4, <2>5, <2>6, <2>7, <2>8, <2>9, <2>10, SMTT(30), Zenon DEF Receives
  <2>12. Local(O, p, v)
    BY <2>3, <2>4, <2>11, AlmostLocal
  <2> QED
    BY <1>7, <2>4, <2>12, Zenon DEF Handled
<1> QED
  <2>1. CASE c.eph = 0 \/ sl.seq < c.next
    <3>1. v = s
      BY <1>1, <1>4, <1>7, <2>1, Zenon DEF Offer
    <3> QED
      BY <1>8, <3>1
  <2>2. CASE c.eph # 0 /\ sl.seq > c.next
    <3>1. ~(sl.seq < c.next)
      BY <1>3, <2>2
    <3>2. CASE Cardinality(c.buffer) < MAX_BUFFERED /\ \A b \in c.buffer : O[b].slices[p].seq # sl.seq
      <4>1. v = [s EXCEPT !.recv[a].buffer = @ \cup {o}]
        BY <1>1, <1>4, <1>7, <2>2, <3>1, <3>2 DEF Offer
      <4> QED
        BY <1>10, <2>2, <3>2, <4>1, Zenon
    <3>3. CASE ~(Cardinality(c.buffer) < MAX_BUFFERED /\ \A b \in c.buffer : O[b].slices[p].seq # sl.seq)
      <4>1. v = s
        BY <1>1, <1>4, <1>7, <2>2, <3>1, <3>3 DEF Offer
      <4> QED
        BY <1>8, <4>1
    <3> QED
      BY <3>2, <3>3
  <2>3. CASE c.eph # 0 /\ ~(sl.seq < c.next) /\ ~(sl.seq > c.next)
    <3>1. v = OpenSlice(O, s, p, a, o)
      BY <1>1, <1>4, <1>5, <1>7, <2>3 DEF Offer
    <3>2. v = [s EXCEPT !.missing = @ \cup {o}]
      BY <1>1, <1>5, <3>1, Zenon DEF OpenSlice
    <3> QED
      BY <1>9, <3>2
  <2> QED
    BY <2>1, <2>2, <2>3, Zenon

\* Nothing signed extends nothing.
LEMMA GrownNot == ASSUME NEW O \in Seq(Operation), NEW g, NEW p PROVE Grown(O, g, O, g, p)
<1>1. Len(O) \in Nat
  OBVIOUS
<1> QED
  BY <1>1 DEF Grown

\* Assigning the participant of a thread leaves the operations.
LEMMA NewState ==
    ASSUME NEW t \in Threads, NEW u \in State
    PROVE  LET r == [t EXCEPT !.s = u] IN r \in Threads /\ r.ops = t.ops /\ r.s = u
  BY DEF Threads

\* A handler that signs nothing takes a thread onward.
LEMMA HandledOnward ==
    ASSUME NEW t \in Threads, NEW p, Wired(t.ops), NEW u, Handled(t.ops, p, t.s, u)
    PROVE  Onward(t.ops, p, t.s, [t EXCEPT !.s = u])
<1>1. PICK r : r = [t EXCEPT !.s = u]
  BY Zenon
<1>2. u \in State /\ Local(t.ops, p, u) /\ u.graph = t.s.graph /\ t.ops \in Seq(Operation)
  BY DEF Handled, Threads
<1>3. r \in Threads /\ r.ops = t.ops /\ r.s = u
  BY <1>1, <1>2, NewState
<1>4. Grown(t.ops, t.s.graph, r.ops, r.s.graph, p)
  BY <1>2, <1>3, GrownNot
<1>5. Onward(t.ops, p, t.s, r)
  BY <1>2, <1>3, <1>4 DEF Onward
<1> QED
  BY <1>1, <1>5

\* PrekeyPool::agree_for.
LEMMA Served ==
    ASSUME NEW pool \in Pools, NEW p \in Peers, NEW a \in Peers, a # p, Pooled(p, pool), ~pool.sealed
    PROVE  AgreeFor(pool, p, a) \in Pools /\ Pooled(p, AgreeFor(pool, p, a))
<1>1. PICK d, v, b : /\ d = AgreeFor(pool, p, a) /\ v = pool.served \cup {a}
                     /\ b = (Others(p) \subseteq pool.served \cup {a})
  BY Zenon
<1>2. d = [pool EXCEPT !.served = v, !.sealed = b]
  BY <1>1 DEF AgreeFor
<1>3. v \subseteq Others(p) /\ v \in SUBSET Peers /\ b \in BOOLEAN
  BY <1>1 DEF Pooled, Others
<1>4. d \in Pools
  BY <1>2, <1>3, Zenon DEF Pools
<1>5. d.served = v /\ d.age = pool.age
  BY <1>2 DEF Pools
<1>6. Pooled(p, d)
  BY <1>3, <1>5 DEF Pooled
<1> QED
  BY <1>1, <1>4, <1>6

\* The contribution o of a has just joined the graph g of p, after everything a
\* contributed before.
Arrives(O, p, s, a, g, o) ==
    /\ Almost(O, p, s, a) /\ DOMAIN s.graph = DOMAIN g \cup {o} /\ o \in Mail(O, a, p) /\ o \notin s.absorbed
    /\ Receives(O, a, p, g, s.recv[a])
    /\ \A y \in Mail(O, a, p) : y \in DOMAIN g <=> y < o

\* Participant::receive_contribution with a prekey of the current generation:
\* a new channel.
LEMMA ChannelOpened ==
    ASSUME LeastNumber, FiniteSteps, NEW O, Wired(O), NEW p \in Peers, NEW a \in Peers, a # p, NEW s, NEW g, NEW o,
           Arrives(O, p, s, a, g, o), O[o].slices[p].gen # NoGen, ~s.pool.sealed,
           NEW u, u = [s EXCEPT !.pool = AgreeFor(s.pool, p, a),
                                !.recv[a] = [eph |-> O[o].slices[p].eph, next |-> 0, buffer |-> {}]]
    PROVE  Handled(O, p, s, Offer(O, u, p, o))
<1>1. PICK c, d : /\ c = [eph |-> O[o].slices[p].eph, next |-> 0, buffer |-> {}]
                  /\ d = AgreeFor(s.pool, p, a)
  BY Zenon
<1>2. O \in Seq(Operation) /\ Threaded(O, a, p) /\ o \in Mail(O, a, p)
  BY DEF Wired, Arrives
<1>3. s \in State /\ s.pool \in Pools /\ Almost(O, p, s, a) /\ Pooled(p, s.pool)
  BY DEF Arrives, Almost, State
<1>4. EphOf(O, o, p) = o /\ PosOf(O, o, p) = 0 /\ o \in Nat /\ o # 0
  <2>1. Continues(O, Mail(O, a, p), o, p)
    BY <1>2 DEF Threaded
  <2>2. o \in 1..Len(O)
    BY <1>2, MailTyped
  <2> QED
    BY <2>1, <2>2 DEF Continues
<1>5. c.eph = o /\ c.next = 0 /\ c.buffer = {} /\ c \in Recvs
  BY <1>1, <1>4 DEF EphOf, Recvs
<1>6. d \in Pools /\ Pooled(p, d)
  BY <1>1, <1>3, Served
<1>7. Rewired(s, u, a, c, d)
  <2>1. u = [s EXCEPT !.pool = d, !.recv[a] = c]
    BY <1>1, Zenon
  <2>2. Rewired(s, [s EXCEPT !.pool = d, !.recv[a] = c], a, c, d)
    BY <1>3, <1>5, <1>6, NewRecv, Zenon
  <2> QED
    BY <2>1, <2>2
<1>8. Almost(O, p, u, a)
  BY <1>3, <1>6, <1>7, RewiredAlmost
<1>9. u.graph = s.graph /\ u.recv[a] = c
  BY <1>7 DEF Rewired
<1>10. o \in Mail(O, a, p) \cap DOMAIN u.graph
  BY <1>2, <1>9 DEF Arrives
<1>11. \A y \in Mail(O, a, p) \cap DOMAIN u.graph : y <= o
  <2> SUFFICES ASSUME NEW y \in Mail(O, a, p) \cap DOMAIN u.graph PROVE y <= o
    OBVIOUS
  <2>1. y \in Nat
    BY <1>2, MailTyped
  <2>2. y = o \/ y < o
    BY <1>9 DEF Arrives
  <2> QED
    BY <1>4, <2>1, <2>2
<1>12. Handled(O, p, u, Offer(O, u, p, o))
  BY <1>2, <1>4, <1>5, <1>8, <1>9, <1>10, <1>11, OfferOpens, Zenon
<1> QED
  BY <1>9, <1>12 DEF Handled

\* Participant::receive_contribution.
LEMMA Received ==
    ASSUME LeastNumber, FiniteSteps,
           NEW t \in Threads, Wired(t.ops), NEW p \in Peers, NEW a \in Peers, a # p, NEW g, NEW o,
           Arrives(t.ops, p, t.s, a, g, o)
    PROVE  Onward(t.ops, p, t.s, ReceiveContribution(t, p, o))
<1>1. PICK O, s, c, sl : O = t.ops /\ s = t.s /\ c = t.s.recv[a] /\ sl = t.ops[o].slices[p]
  BY Zenon
<1>2. /\ O \in Seq(Operation) /\ Wired(O) /\ Threaded(O, a, p) /\ o \in Mail(O, a, p) /\ s \in State
      /\ c \in Recvs /\ s.pool \in Pools /\ Almost(O, p, s, a) /\ Receives(O, a, p, g, c)
  BY <1>1, Zenon DEF Wired, Arrives, Threads, State
<1>3. /\ O[o].author = a /\ o \in Contribs(O) \cap DOMAIN s.graph /\ o \in Nat
      /\ sl.eph = EphOf(O, o, p) /\ sl.eph \in Nat /\ c.eph \in Nat
  <2>1. o \in 1..Len(O) /\ O[o].kind = "Contrib" /\ O[o].author = a
    BY <1>2 DEF Mail
  <2>2. o \in Nat /\ o \in DOMAIN O /\ EphOf(O, o, p) \in Nat
    BY <1>2, MailTyped, Zenon
  <2>3. o \in Contribs(O)
    BY <2>1, <2>2, Zenon DEF Contribs
  <2>4. o \in DOMAIN s.graph
    BY <1>1, Zenon DEF Arrives
  <2>5. sl.eph = EphOf(O, o, p)
    BY <1>1, Zenon DEF EphOf
  <2>6. c.eph \in Nat
    BY <1>2, Zenon DEF Recvs
  <2> QED
    BY <2>1, <2>2, <2>3, <2>4, <2>5, <2>6, Zenon
<1>4. PICK r : r = ReceiveContribution(t, p, o)
  OBVIOUS
<1>5. ASSUME NEW u, Handled(O, p, s, u), r = [t EXCEPT !.s = u] PROVE Onward(t.ops, p, t.s, r)
  BY <1>1, <1>5, HandledOnward
<1>6. CASE /\ c.eph # 0 /\ EphOf(O, o, p) = c.eph /\ PosOf(O, o, p) = c.next /\ c.buffer = {}
           /\ O[o].slices[p].gen = NoGen
  <2>1. r = [t EXCEPT !.s = Offer(O, s, p, o)]
    BY <1>1, <1>4, <1>6, Zenon DEF ReceiveContribution
  <2>2. c.eph \in Mail(O, a, p) \cap DOMAIN s.graph /\ EphOf(O, c.eph, p) = c.eph
    BY <1>1, <1>2, <1>6, Zenon DEF Receives, Arrives
  <2>3. \A y \in Mail(O, a, p) \cap DOMAIN s.graph : y <= o
    <3> SUFFICES ASSUME NEW y \in Mail(O, a, p) \cap DOMAIN s.graph PROVE y <= o
      BY Zenon
    <3>1. y \in Nat
      BY <1>2, MailTyped, Zenon
    <3>2. y = o \/ y < o
      BY <1>1, Zenon DEF Arrives
    <3> QED
      BY <1>3, <3>1, <3>2, NumberOrder, Zenon
  <2>4. Handled(O, p, s, Offer(O, s, p, o))
    BY <1>1, <1>2, <1>3, <1>6, <2>2, <2>3, OfferOpens, Zenon
  <2> QED
    BY <1>4, <1>5, <2>1, <2>4, Zenon
<1>7. CASE EphOf(O, o, p) > c.eph
  <2>1. c.eph # sl.eph
    BY <1>3, <1>7
  <2>2. Receives(O, a, p, s.graph, c)
    <3>1. DOMAIN s.graph = DOMAIN g \cup {o}
      BY <1>1, Zenon DEF Arrives
    <3> QED
      BY <1>2, <1>7, <3>1, LaterReceives, Zenon
  <2>3. Local(O, p, s) /\ o \notin s.absorbed
    BY <1>1, <1>2, <2>2, AlmostLocal, Zenon DEF Arrives
  <2>4. PICK w, z : w = [s EXCEPT !.missing = @ \cup {o}] /\ z = [t EXCEPT !.s.missing = @ \cup {o}]
    BY Zenon
  <2>5. Handled(O, p, s, w)
    <3>1. Holding(O, s, w)
      BY <1>2, <1>3, <2>3, <2>4, MarkedMissing DEF Almost
    <3> QED
      BY <2>3, <3>1, HoldingLocal, Zenon DEF Handled, Holding
  <2>6. z = [t EXCEPT !.s = w]
    BY <1>1, <2>4 DEF Threads, State
  <2>7. CASE sl.gen = NoGen
    <3>1. r = [t EXCEPT !.s = Offer(O, s, p, o)]
      BY <1>1, <1>4, <2>7, Zenon DEF ReceiveContribution
    <3>2. Handled(O, p, s, Offer(O, s, p, o))
      BY <1>1, <1>2, <1>3, <1>7, <2>2, <2>3, OfferLater, Zenon
    <3> QED
      BY <1>4, <1>5, <3>1, <3>2
  <2>8. CASE sl.gen # NoGen /\ sl.gen # s.pool.gen
    <3>1. r = z
      BY <1>1, <1>3, <1>4, <2>1, <2>4, <2>8 DEF ReceiveContribution
    <3> QED
      BY <1>4, <1>5, <2>5, <2>6, <3>1, Zenon
  <2>9. CASE sl.gen # NoGen /\ sl.gen = s.pool.gen /\ s.pool.sealed
    <3>1. r = RotatePrekeys(z, p)
      BY <1>1, <1>3, <1>4, <2>1, <2>4, <2>9, Zenon DEF ReceiveContribution
    <3>2. Onward(O, p, s, z)
      BY <1>1, <2>5, <2>6, HandledOnward
    <3>3. z \in Threads /\ Wired(z.ops) /\ Local(z.ops, p, z.s) /\ Grown(O, s.graph, z.ops, z.s.graph, p)
      BY <3>2 DEF Onward
    <3>4. Onward(z.ops, p, z.s, r)
      BY <3>1, <3>3, Rotated, Zenon
    <3>5. Onward(O, p, s, r)
      BY <1>2, <3>2, <3>4, OnwardOn, Zenon
    <3> QED
      BY <1>1, <1>4, <3>5, Zenon
  <2>10. CASE sl.gen # NoGen /\ sl.gen = s.pool.gen /\ ~s.pool.sealed
    <3>1. PICK u : u = [s EXCEPT !.pool = AgreeFor(s.pool, p, a),
                                 !.recv[a] = [eph |-> O[o].slices[p].eph, next |-> 0, buffer |-> {}]]
      OBVIOUS
    <3>2. r = [t EXCEPT !.s = Offer(O, u, p, o)]
      BY <1>1, <1>3, <1>4, <2>1, <2>10, <3>1, Zenon DEF ReceiveContribution
    <3>3. Handled(O, p, s, Offer(O, u, p, o))
      BY <1>1, <1>2, <2>10, <3>1, ChannelOpened, Zenon
    <3> QED
      BY <1>4, <1>5, <3>2, <3>3
  <2> QED
    BY <2>7, <2>8, <2>9, <2>10, Zenon
<1> QED
  <2>1. \A y \in Mail(O, a, p) : y \in DOMAIN g <=> y < o
    BY <1>1 DEF Arrives
  <2> QED
    BY <1>2, <1>6, <1>7, <2>1, Arrival, Zenon

===============================================================================
