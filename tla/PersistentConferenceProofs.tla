---------------------- MODULE PersistentConferenceProofs ----------------------
(* PersistentConference: whatever the limits, the peers and the number of     *)
(* messages, crashes and failed writes, a message is processed once within    *)
(* the window, a delivery key names one message, no answer is lost and no     *)
(* sender counter leaves twice.                                               *)
EXTENDS PersistentConference, FiniteSetTheorems, SequenceTheorems, TLAPS

Keys == Peers \X Nat
Outboxes == UNION {[D -> Row] : D \in SUBSET Nat}
LogicalState == [seq : Nat, log : Seq(Keys), counter : Nat, asks : Nat,
                 inbound : Seq(Keys), outbox : Outboxes, next : Nat]
Message == [from : Peers, id : Nat, row : Row]

\* The window holds the newest entries of the log, in order.
Newest(w, log) ==
    /\ Len(w) <= Window /\ Len(w) <= Len(log)
    /\ Len(w) = Window \/ Len(w) = Len(log)
    /\ \A i \in 1..Len(w) : w[i] = log[Len(log) - Len(w) + i]

\* Equal entries of a log lie more than a window apart.
Apart(log) == \A i, j \in 1..Len(log) : i < j /\ log[i] = log[j] => j - i > Window

\* The outbox is within its limit, under ids that were assigned.
Bounded(s) ==
    /\ s.next >= 1
    /\ DOMAIN s.outbox \subseteq 1..(s.next - 1)
    /\ Cardinality(DOMAIN s.outbox) <= MaxOutbox

\* A state any restart may find.
Valid(s) ==
    s \in LogicalState /\ Bounded(s) /\ Newest(s.inbound, s.log) /\ Apart(s.log)

\* t is s or a candidate derived from s: counters do not fall, and rows under
\* ids that s has already assigned are rows of s.
Follows(s, t) ==
    /\ s.next <= t.next /\ s.counter <= t.counter
    /\ \A i \in DOMAIN t.outbox :
         i < s.next => i \in DOMAIN s.outbox /\ t.outbox[i] = s.outbox[i]

\* Every key in the log was sent by someone.
Sent(s) == \A i \in 1..Len(s.log) : \E m \in net : Key(m) = s.log[i]

Reply(m) == [to |-> m.from, kind |-> "tell", re |-> m.id]

\* The reply to m, which q processed, waits in the outbox of s or was sent.
Kept(q, s, m) ==
    m.row.kind = "ask" /\ Key(m) \in Range(s.log) =>
      \/ \E i \in DOMAIN s.outbox : s.outbox[i] = Reply(m)
      \/ \E n \in net : n.from = q /\ n.row = Reply(m)

\* What was sent, the live state still knows: its id is assigned, and a row
\* that is there is the one that was sent.
Assigned(m) ==
    LET s == live[m.from] IN
    m.id < s.next /\ (m.id \in DOMAIN s.outbox => s.outbox[m.id] = m.row)

Typed ==
    /\ up \in [Peers -> BOOLEAN]
    /\ live \in [Peers -> LogicalState] /\ stored \in [Peers -> LogicalState]
    /\ reply \in [Peers -> Int] /\ frames \in [Peers -> Seq(Nat)]
    /\ net \subseteq Message

\* The frame of an operation that is running, and the frames that have left.
FramesBelow(p) ==
    /\ ~up[p] => reply[p] = Nothing
    /\ reply[p] # Nothing =>
         reply[p] = live[p].counter /\ stored[p].counter = live[p].counter + 1
    /\ IsInjective(frames[p])
    /\ \A i \in 1..Len(frames[p]) : frames[p][i] < live[p].counter

\* The inductive invariant.
IInv ==
    /\ Typed
    /\ \A p \in Peers : /\ Valid(live[p]) /\ Valid(stored[p])
                        /\ Follows(live[p], stored[p])
                        /\ FramesBelow(p)
                        /\ Sent(live[p]) /\ Sent(stored[p])
    /\ \A m \in net : Assigned(m)
    /\ KeyNamesOne
    /\ \A m \in net : /\ Kept(m.row.to, live[m.row.to], m)
                      /\ Kept(m.row.to, stored[m.row.to], m)

-----------------------------------------------------------------------------
(* LogicalState.                                                              *)

\* A map from identifiers to rows is an outbox,
LEMMA OutboxesIntro ==
    ASSUME NEW D, D \subseteq Nat, NEW f \in [D -> Row]
    PROVE  f \in Outboxes
  BY DEF Outboxes

\* and every outbox is one.
LEMMA OutboxesElim ==
    ASSUME NEW f \in Outboxes
    PROVE  DOMAIN f \subseteq Nat /\ f \in [DOMAIN f -> Row]
<1>1. PICK D \in SUBSET Nat : f \in [D -> Row]
  BY DEF Outboxes
<1> QED
  BY <1>1

\* The parts of a logical state.
LEMMA Fields ==
    ASSUME NEW s \in LogicalState
    PROVE  /\ s.seq \in Nat /\ s.counter \in Nat /\ s.asks \in Nat /\ s.next \in Nat
           /\ s.log \in Seq(Keys) /\ s.inbound \in Seq(Keys) /\ s.outbox \in Outboxes
  BY DEF LogicalState

\* Store::append numbers the record: nothing else of the state changes.
LEMMA NumberedValid ==
    ASSUME NEW s, Valid(s), NEW t, t = [s EXCEPT !.seq = @ + 1]
    PROVE  /\ Valid(t) /\ t.log = s.log /\ t.inbound = s.inbound /\ t.outbox = s.outbox
           /\ t.next = s.next /\ t.counter = s.counter
<1>1. s \in LogicalState
  BY DEF Valid
<1>2. t \in LogicalState
  BY <1>1 DEF LogicalState
<1>3. /\ t.log = s.log /\ t.inbound = s.inbound /\ t.outbox = s.outbox
      /\ t.next = s.next /\ t.counter = s.counter
  BY <1>1 DEF LogicalState
<1> QED
  BY <1>2, <1>3 DEF Valid, Bounded

\* The identifiers below one are finitely many.
LEMMA FiniteBelow ==
    ASSUME NEW n \in Nat
    PROVE  IsFiniteSet(1..(n - 1))
<1>1. 1 \in Int /\ n - 1 \in Int
  OBVIOUS
<1> QED
  BY <1>1, FS_Interval

\* enqueue keeps the outbox within its limit and the rows that were there, and
\* every new row is found under an id above the ones assigned before.
LEMMA EnqueueRows ==
    ASSUME NEW s \in LogicalState, Bounded(s), NEW rows \in Seq(Row), Fits(s, rows),
           NEW t, t = Enqueue(s, rows)
    PROVE  /\ t \in LogicalState /\ Bounded(t) /\ Follows(s, t)
           /\ t.log = s.log /\ t.inbound = s.inbound /\ t.counter = s.counter
           /\ \A i \in DOMAIN s.outbox : i \in DOMAIN t.outbox /\ t.outbox[i] = s.outbox[i]
           /\ \A k \in 1..Len(rows) : \E i \in DOMAIN t.outbox : t.outbox[i] = rows[k]
<1> DEFINE n == Len(rows)
           D == DOMAIN s.outbox
           E == s.next .. (s.next + n - 1)
           f == [i \in D \cup E |-> IF i < s.next THEN s.outbox[i] ELSE rows[i - s.next + 1]]
<1>1. n \in Nat /\ \A k \in 1..n : rows[k] \in Row
  BY LenProperties, ElementOfSeq
<1>2. /\ s.next \in Nat /\ s.next >= 1 /\ D \subseteq 1..(s.next - 1)
      /\ s.outbox \in [D -> Row] /\ D \subseteq Nat
  BY Fields, OutboxesElim DEF Bounded
<1>3. /\ t.outbox = f /\ t.next = s.next + n
      /\ t.log = s.log /\ t.inbound = s.inbound /\ t.counter = s.counter
      /\ t.seq = s.seq /\ t.asks = s.asks
  BY DEF Enqueue, LogicalState
<1>4. f \in [D \cup E -> Row]
  <2> SUFFICES ASSUME NEW i \in D \cup E PROVE f[i] \in Row
    BY Zenon
  <2>1. CASE i < s.next
    BY <2>1, <1>2
  <2>2. CASE ~(i < s.next)
    <3>1. i \in E /\ i - s.next + 1 \in 1..n
      BY <2>2, <1>1, <1>2
    <3> QED
      BY <2>2, <3>1, <1>1
  <2> QED
    BY <2>1, <2>2
<1>5. D \cup E \subseteq 1..(s.next + n - 1) /\ D \cup E \subseteq Nat /\ D \cap E = {}
  BY <1>1, <1>2
<1>6. t \in LogicalState
  <2>1. t.outbox \in Outboxes
    BY <1>3, <1>4, <1>5, OutboxesIntro, Zenon
  <2>2. t.next \in Nat
    BY <1>1, <1>2, <1>3
  <2> QED
    BY <2>1, <2>2, <1>3, Zenon DEF Enqueue, LogicalState
<1>7. Cardinality(D \cup E) <= MaxOutbox
  <2> HIDE DEF D, E, f, n
  <2>1. IsFiniteSet(D) /\ Cardinality(D) \in Nat
    <3>1. IsFiniteSet(1..(s.next - 1))
      BY <1>2, FiniteBelow
    <3> QED
      BY <3>1, <1>2, FS_Subset, FS_CardinalityType, Zenon
  <2>2. IsFiniteSet(E) /\ Cardinality(E) = n
    <3>1. s.next + n - 1 \in Int /\ s.next \in Int
      BY <1>1, <1>2
    <3>2. IsFiniteSet(E) /\ Cardinality(E) =
             IF s.next > s.next + n - 1 THEN 0 ELSE (s.next + n - 1) - s.next + 1
      BY <3>1, FS_Interval DEF E
    <3> QED
      BY <3>2, <1>1, <1>2
  <2>3. Cardinality(D \cup E) = Cardinality(D) + n
    <3>1. Cardinality(D \cup E) = Cardinality(D) + Cardinality(E) - Cardinality(D \cap E)
      BY <2>1, <2>2, FS_Union
    <3>2. Cardinality(D \cap E) = 0
      BY <1>5, FS_EmptySet, Zenon
    <3> QED
      BY <2>1, <2>2, <3>1, <3>2, <1>1
  <2>4. n <= MaxOutbox - Cardinality(D)
    BY DEF Fits, n, D
  <2> QED
    BY <2>1, <2>3, <2>4, <1>1, ConferenceAssumption
<1>8. Bounded(t)
  BY <1>1, <1>2, <1>3, <1>5, <1>7 DEF Bounded
<1>9. Follows(s, t)
  BY <1>1, <1>2, <1>3, Fields DEF Follows
<1>10. \A i \in D : i \in DOMAIN t.outbox /\ t.outbox[i] = s.outbox[i]
  BY <1>2, <1>3
<1>11. \A k \in 1..n : \E i \in DOMAIN t.outbox : t.outbox[i] = rows[k]
  <2> SUFFICES ASSUME NEW k \in 1..n PROVE \E i \in DOMAIN t.outbox : t.outbox[i] = rows[k]
    OBVIOUS
  <2>1. s.next + k - 1 \in E /\ ~(s.next + k - 1 < s.next) /\ (s.next + k - 1) - s.next + 1 = k
    BY <1>1, <1>2
  <2> QED
    BY <2>1, <1>3
<1> QED
  BY <1>3, <1>6, <1>8, <1>9, <1>10, <1>11, Zenon

\* record_inbound: the window follows the log.
LEMMA WindowSlides ==
    ASSUME NEW log \in Seq(Keys), NEW w \in Seq(Keys), Newest(w, log), NEW k \in Keys,
           NEW v, v = IF Len(Append(w, k)) > Window THEN Tail(Append(w, k)) ELSE Append(w, k)
    PROVE  v \in Seq(Keys) /\ Newest(v, Append(log, k))
<1> DEFINE m == Len(w)
           n == Len(log)
           x == Append(w, k)
           g == Append(log, k)
<1>1. m \in Nat /\ n \in Nat /\ Window \in Nat /\ Window > 0
  BY LenProperties, ConferenceAssumption
<1>2. /\ x \in Seq(Keys) /\ x # <<>> /\ Len(x) = m + 1 /\ x[m + 1] = k
      /\ \A i \in 1..m : x[i] = w[i]
  BY AppendProperties
<1>3. Len(g) = n + 1 /\ g[n + 1] = k /\ \A i \in 1..n : g[i] = log[i]
  BY AppendProperties
<1>4. /\ m <= Window /\ m <= n /\ (m = Window \/ m = n)
      /\ \A i \in 1..m : w[i] = log[n - m + i]
  BY DEF Newest
<1> HIDE DEF m, n, x, g
<1>5. \A i \in 1..(m + 1) : x[i] = g[(n - m) + i]
  <2> SUFFICES ASSUME NEW i \in 1..(m + 1) PROVE x[i] = g[(n - m) + i]
    OBVIOUS
  <2>1. CASE i = m + 1
    <3>1. (n - m) + i = n + 1
      BY <2>1, <1>1
    <3> QED
      BY <2>1, <3>1, <1>2, <1>3
  <2>2. CASE i \in 1..m
    <3>1. (n - m) + i \in 1..n
      BY <2>2, <1>1, <1>4
    <3> QED
      BY <2>2, <3>1, <1>2, <1>3, <1>4
  <2> QED
    BY <2>1, <2>2, <1>1
<1>6. CASE m + 1 > Window
  <2>1. v = Tail(x) /\ m = Window
    BY <1>6, <1>1, <1>2, <1>4 DEF x
  <2>2. v \in Seq(Keys) /\ Len(v) = m /\ \A i \in 1..m : v[i] = x[i + 1]
    <3>1. /\ Tail(x) \in Seq(Keys) /\ Len(Tail(x)) = Len(x) - 1
          /\ \A i \in 1..Len(Tail(x)) : Tail(x)[i] = x[i + 1]
      BY <1>2, HeadTailProperties, Zenon
    <3>2. Len(x) - 1 = m
      BY <1>1, <1>2
    <3> QED
      BY <2>1, <3>1, <3>2, Zenon
  <2>3. \A i \in 1..m : v[i] = g[Len(g) - Len(v) + i]
    <3> SUFFICES ASSUME NEW i \in 1..m PROVE v[i] = g[Len(g) - Len(v) + i]
      BY Zenon
    <3>1. i + 1 \in 1..(m + 1) /\ (n - m) + (i + 1) = (n + 1) - m + i
      BY <1>1
    <3>2. Len(g) - Len(v) + i = (n - m) + (i + 1)
      BY <3>1, <2>2, <1>3
    <3>3. v[i] = x[i + 1] /\ x[i + 1] = g[(n - m) + (i + 1)]
      BY <3>1, <2>2, <1>5
    <3> QED
      BY <3>2, <3>3, Zenon
  <2>4. Len(v) <= Window /\ Len(v) <= Len(g) /\ Len(v) = Window
    BY <2>1, <2>2, <1>1, <1>3, <1>4
  <2> QED
    BY <2>2, <2>3, <2>4, Zenon DEF Newest, g
<1>7. CASE ~(m + 1 > Window)
  <2>1. v = x /\ m = n
    BY <1>7, <1>1, <1>2, <1>4 DEF x
  <2>2. \A i \in 1..(m + 1) : v[i] = g[Len(g) - Len(v) + i]
    <3>1. Len(g) - Len(v) = n - m
      BY <2>1, <1>1, <1>2, <1>3
    <3> QED
      BY <2>1, <3>1, <1>5, Zenon
  <2>3. Len(v) = m + 1 /\ Len(v) <= Window /\ Len(v) = Len(g) /\ Len(v) <= Len(g)
    BY <2>1, <1>1, <1>2, <1>3, <1>7, SMTT(30), Zenon
  <2> QED
    BY <2>1, <2>2, <2>3, <1>2, Zenon DEF Newest, g
<1> QED
  BY <1>6, <1>7

\* What a sequence holds is at some position.
LEMMA InRange ==
    ASSUME NEW S, NEW s \in Seq(S), NEW e
    PROVE  e \in Range(s) <=> \E i \in 1..Len(s) : s[i] = e
  BY DEF Range

\* handle_inbound: a key that is not in the window may be logged again.
LEMMA StaysApart ==
    ASSUME NEW log \in Seq(Keys), NEW w \in Seq(Keys), Newest(w, log), Apart(log),
           NEW k \in Keys, k \notin Range(w)
    PROVE  Apart(Append(log, k))
<1> DEFINE m == Len(w)
           n == Len(log)
           g == Append(log, k)
<1>1. m \in Nat /\ n \in Nat /\ Window \in Nat
  BY LenProperties, ConferenceAssumption
<1>2. Len(g) = n + 1 /\ g[n + 1] = k /\ \A i \in 1..n : g[i] = log[i]
  BY AppendProperties
<1>3. /\ m <= n /\ (m = Window \/ m = n)
      /\ \A i \in 1..m : w[i] = log[n - m + i]
  BY DEF Newest
<1>4. \A i \in 1..m : w[i] # k
  BY DEF Range
<1> SUFFICES ASSUME NEW i \in 1..(n + 1), NEW j \in 1..(n + 1), i < j, g[i] = g[j]
             PROVE  j - i > Window
  BY <1>2 DEF Apart
<1> HIDE DEF m, n, g
<1>5. i \in 1..n
  BY <1>1
<1>6. CASE j = n + 1
  <2> SUFFICES ASSUME ~(j - i > Window) PROVE FALSE
    OBVIOUS
  <2>1. i - (n - m) \in 1..m /\ n - m + (i - (n - m)) = i
    BY <1>1, <1>3, <1>5, <1>6
  <2>2. w[i - (n - m)] = log[i]
    BY <2>1, <1>3
  <2> QED
    BY <2>1, <2>2, <1>2, <1>4, <1>5, <1>6
<1>7. CASE j \in 1..n
  BY <1>2, <1>5, <1>7 DEF Apart, n
<1> QED
  BY <1>1, <1>6, <1>7

\* A window over a log whose equal entries are apart holds no key twice.
LEMMA WindowInjective ==
    ASSUME NEW log \in Seq(Keys), NEW w \in Seq(Keys), Newest(w, log), Apart(log)
    PROVE  IsInjective(w)
<1> DEFINE m == Len(w)
           n == Len(log)
<1>1. m \in Nat /\ n \in Nat /\ Window \in Nat /\ DOMAIN w = 1..m
  BY LenProperties, ConferenceAssumption
<1>2. m <= Window /\ m <= n /\ \A i \in 1..m : w[i] = log[n - m + i]
  BY DEF Newest
<1>3. \A i, j \in 1..n : i < j /\ log[i] = log[j] => j - i > Window
  BY DEF Apart
<1> HIDE DEF m, n
<1>4. ASSUME NEW a \in 1..m, NEW b \in 1..m, a < b, w[a] = w[b] PROVE FALSE
  <2>1. n - m + a \in 1..n /\ n - m + b \in 1..n /\ n - m + a < n - m + b
    BY <1>1, <1>2, <1>4
  <2>2. (n - m + b) - (n - m + a) > Window
    BY <2>1, <1>2, <1>3, <1>4
  <2> QED
    BY <2>2, <1>1, <1>2
<1> SUFFICES ASSUME NEW a \in 1..m, NEW b \in 1..m, w[a] = w[b] PROVE a = b
  BY <1>1 DEF IsInjective
<1> QED
  BY <1>1, <1>4

\* The conference takes in a message.
LEMMA Logged ==
    ASSUME NEW s, Valid(s), NEW k \in Keys, NEW a, a = [s EXCEPT !.log = Append(@, k)]
    PROVE  /\ a \in LogicalState /\ a.log = Append(s.log, k) /\ a.inbound = s.inbound
           /\ a.counter = s.counter /\ a.outbox = s.outbox /\ a.next = s.next
<1>1. s \in LogicalState
  BY DEF Valid
<1>2. Append(s.log, k) \in Seq(Keys)
  BY <1>1, Fields, AppendProperties
<1>3. a \in LogicalState
  BY <1>1, <1>2, Zenon DEF LogicalState
<1> QED
  BY <1>1, <1>3 DEF LogicalState

\* handle_inbound on a state: a is s with the message logged; the message is
\* remembered and its outputs are queued.
LEMMA ProcessedValid ==
    ASSUME NEW s, Valid(s), NEW k \in Keys, k \notin Range(s.inbound),
           NEW rows \in Seq(Row), Fits(s, rows),
           NEW a \in LogicalState, a.log = Append(s.log, k), a.inbound = s.inbound,
           a.counter = s.counter, a.outbox = s.outbox, a.next = s.next,
           NEW t, t = RecordInbound(Enqueue(a, rows), k)
    PROVE  /\ Valid(t) /\ Follows(s, t)
           /\ t.log = Append(s.log, k) /\ t.counter = s.counter
           /\ \A i \in DOMAIN s.outbox : i \in DOMAIN t.outbox /\ t.outbox[i] = s.outbox[i]
           /\ \A j \in 1..Len(rows) : \E i \in DOMAIN t.outbox : t.outbox[i] = rows[j]
<1> DEFINE b == Enqueue(a, rows)
<1>1. s \in LogicalState /\ Bounded(s) /\ Newest(s.inbound, s.log) /\ Apart(s.log)
  BY DEF Valid
<1>2. s.log \in Seq(Keys) /\ s.inbound \in Seq(Keys)
  BY <1>1, Fields
<1>3. Bounded(a) /\ Fits(a, rows)
  BY <1>1 DEF Bounded, Fits
<1>6. /\ b \in LogicalState /\ Bounded(b) /\ Follows(a, b)
      /\ b.log = a.log /\ b.inbound = a.inbound /\ b.counter = a.counter
      /\ \A i \in DOMAIN a.outbox : i \in DOMAIN b.outbox /\ b.outbox[i] = a.outbox[i]
      /\ \A j \in 1..Len(rows) : \E i \in DOMAIN b.outbox : b.outbox[i] = rows[j]
  BY <1>3, EnqueueRows
<1> HIDE DEF b
<1> DEFINE w == Append(b.inbound, k)
           v == IF Len(w) > Window THEN Tail(w) ELSE w
<1>7. t = [b EXCEPT !.inbound = v]
  BY DEF RecordInbound, b
<1>8. v \in Seq(Keys) /\ Newest(v, Append(s.log, k))
  BY <1>1, <1>2, <1>6, WindowSlides, Zenon
<1>9. Apart(Append(s.log, k))
  BY <1>1, <1>2, StaysApart
<1> HIDE DEF v
<1>10. /\ t \in LogicalState /\ t.log = b.log /\ t.inbound = v /\ t.counter = b.counter
       /\ t.outbox = b.outbox /\ t.next = b.next
  BY <1>6, <1>7, <1>8, Zenon DEF LogicalState
<1>11. Bounded(t)
  BY <1>6, <1>10 DEF Bounded
<1>12. Follows(s, t)
  BY <1>6, <1>10 DEF Follows
<1> QED
  BY <1>6, <1>8, <1>9, <1>10, <1>11, <1>12 DEF Valid

\* An operation that sends counts itself.
LEMMA CountedAsk ==
    ASSUME NEW s, Valid(s), NEW a, a = [s EXCEPT !.asks = @ + 1]
    PROVE  /\ a \in LogicalState /\ a.log = s.log /\ a.inbound = s.inbound
           /\ a.counter = s.counter /\ a.outbox = s.outbox /\ a.next = s.next
<1>1. s \in LogicalState
  BY DEF Valid
<1>2. a \in LogicalState
  BY <1>1 DEF LogicalState
<1> QED
  BY <1>1, <1>2 DEF LogicalState

\* mutate_conference of an operation that sends, on a state: a is s with the
\* operation counted.
LEMMA AskedValid ==
    ASSUME NEW s, Valid(s), NEW rows \in Seq(Row), Fits(s, rows),
           NEW a \in LogicalState, a.log = s.log, a.inbound = s.inbound,
           a.counter = s.counter, a.outbox = s.outbox, a.next = s.next,
           NEW t, t = Enqueue(a, rows)
    PROVE  /\ Valid(t) /\ Follows(s, t) /\ t.log = s.log /\ t.counter = s.counter
           /\ \A i \in DOMAIN s.outbox : i \in DOMAIN t.outbox /\ t.outbox[i] = s.outbox[i]
<1>1. s \in LogicalState /\ Bounded(s) /\ Newest(s.inbound, s.log) /\ Apart(s.log)
  BY DEF Valid
<1>3. Bounded(a) /\ Fits(a, rows)
  BY <1>1 DEF Bounded, Fits
<1>4. /\ t \in LogicalState /\ Bounded(t) /\ Follows(a, t)
      /\ t.log = a.log /\ t.inbound = a.inbound /\ t.counter = a.counter
      /\ \A i \in DOMAIN a.outbox : i \in DOMAIN t.outbox /\ t.outbox[i] = a.outbox[i]
  BY <1>3, EnqueueRows
<1> QED
  BY <1>1, <1>4 DEF Valid, Follows

\* protect, on a state.
LEMMA ProtectedValid ==
    ASSUME NEW s, Valid(s), NEW t, t = [s EXCEPT !.counter = @ + 1]
    PROVE  /\ Valid(t) /\ Follows(s, t) /\ t.log = s.log /\ t.outbox = s.outbox
           /\ t.counter = s.counter + 1
<1>1. s \in LogicalState
  BY DEF Valid
<1>2. /\ t \in LogicalState /\ t.log = s.log /\ t.inbound = s.inbound
      /\ t.counter = s.counter + 1 /\ t.outbox = s.outbox /\ t.next = s.next
  BY <1>1, SMTT(30), Zenon DEF LogicalState
<1>3. s.counter \in Nat /\ s.next \in Nat /\ s.outbox \in Outboxes
  BY <1>1, Fields
<1>4. Valid(t)
  BY <1>2 DEF Valid, Bounded
<1>5. Follows(s, t)
  BY <1>2, <1>3 DEF Follows
<1> QED
  BY <1>2, <1>4, <1>5

\* acknowledge, on a state: one row leaves the outbox.
LEMMA AcknowledgedValid ==
    ASSUME NEW s, Valid(s), NEW id \in DOMAIN s.outbox,
           NEW f, f = [i \in DOMAIN s.outbox \ {id} |-> s.outbox[i]],
           NEW t, t = [s EXCEPT !.outbox = f]
    PROVE  /\ Valid(t) /\ Follows(s, t) /\ t.log = s.log /\ t.counter = s.counter
           /\ DOMAIN t.outbox = DOMAIN s.outbox \ {id}
           /\ \A i \in DOMAIN t.outbox : t.outbox[i] = s.outbox[i]
<1> DEFINE D == DOMAIN s.outbox
<1>1. s \in LogicalState /\ Bounded(s)
  BY DEF Valid
<1>2. D \subseteq Nat /\ s.outbox \in [D -> Row] /\ s.next \in Nat /\ s.counter \in Nat
  BY <1>1, Fields, OutboxesElim
<1>3. f \in Outboxes
  BY <1>2, OutboxesIntro
<1>4. /\ t.outbox = f /\ t.log = s.log /\ t.inbound = s.inbound
      /\ t.counter = s.counter /\ t.next = s.next
  BY <1>1 DEF LogicalState
<1>5. t \in LogicalState
  BY <1>1, <1>3, Zenon DEF LogicalState
<1>6. Cardinality(D \ {id}) <= MaxOutbox
  <2>1. IsFiniteSet(1..(s.next - 1))
    BY <1>2, FiniteBelow
  <2>2. IsFiniteSet(D) /\ Cardinality(D) \in Nat /\ Cardinality(D) <= MaxOutbox
    BY <2>1, <1>1, FS_Subset, FS_CardinalityType, Zenon DEF Bounded
  <2>3. Cardinality(D \ {id}) = Cardinality(D) - 1
    BY <2>2, FS_RemoveElement
  <2> QED
    BY <2>2, <2>3, ConferenceAssumption
<1>7. Bounded(t)
  BY <1>1, <1>4, <1>6 DEF Bounded
<1>8. Valid(t)
  BY <1>4, <1>5, <1>7 DEF Valid
<1>9. Follows(s, t)
  BY <1>2, <1>4 DEF Follows
<1> QED
  BY <1>4, <1>8, <1>9

-----------------------------------------------------------------------------
(* Steps.                                                                     *)

\* The invariant holds of an empty conference.
LEMMA InitInv == Init => IInv
<1> SUFFICES ASSUME Init PROVE IInv
  OBVIOUS
<1>1. Empty \in LogicalState
  <2>1. Empty.outbox \in Outboxes
    <3>1. <<>> \in [{} -> Row]
      OBVIOUS
    <3> QED
      BY <3>1, OutboxesIntro, Zenon DEF Empty
  <2> QED
    BY <2>1 DEF Empty, LogicalState
<1>2. /\ Empty.log = <<>> /\ Empty.inbound = <<>> /\ DOMAIN Empty.outbox = {}
      /\ Empty.next = 1 /\ Empty.counter = 0
  BY DEF Empty
<1>3. Valid(Empty)
  <2>1. Bounded(Empty)
    BY <1>2, FS_EmptySet, ConferenceAssumption DEF Bounded
  <2>2. Newest(<<>>, <<>>) /\ Apart(<<>>)
    BY ConferenceAssumption DEF Newest, Apart
  <2> QED
    BY <1>1, <1>2, <2>1, <2>2 DEF Valid
<1>4. \A p \in Peers : live[p] = Empty /\ stored[p] = Empty
  BY DEF Init
<1>5. Typed
  BY <1>1 DEF Init, Typed, Nothing
<1>6. ASSUME NEW p \in Peers PROVE FramesBelow(p)
  <2>1. frames[p] = <<>> /\ reply[p] = Nothing
    BY DEF Init
  <2> QED
    BY <2>1 DEF FramesBelow, IsInjective
<1>7. Follows(Empty, Empty) /\ Sent(Empty)
  BY <1>2 DEF Follows, Sent
<1>8. net = {}
  BY DEF Init
<1> QED
  BY <1>3, <1>4, <1>5, <1>6, <1>7, <1>8 DEF IInv, KeyNamesOne

\* commit_candidate: a candidate that follows the live state, whose log holds
\* only keys that were sent and whose outputs are all there, may be stored.
LEMMA CommitInv ==
    ASSUME IInv, NEW p \in Peers, up[p], NEW s, Valid(s), Follows(live[p], s), Sent(s),
           \A m \in net : m.row.to = p => Kept(p, s, m),
           NEW result \in Int,
           result # Nothing => result = live[p].counter /\ s.counter = live[p].counter + 1,
           Commit(p, s, result)
    PROVE  IInv'
<1>1. PICK t : t = [s EXCEPT !.seq = @ + 1]
  BY Zenon
<1>2. /\ Valid(t) /\ t.log = s.log /\ t.inbound = s.inbound /\ t.outbox = s.outbox
      /\ t.next = s.next /\ t.counter = s.counter
  BY <1>1, NumberedValid, Zenon
<1>3. /\ stored' = [stored EXCEPT ![p] = t] /\ reply' = [reply EXCEPT ![p] = result]
      /\ up' = up /\ live' = live /\ net' = net /\ frames' = frames
  BY <1>1 DEF Commit
<1>4. Typed /\ Typed'
  <2>1. t \in LogicalState
    BY <1>2 DEF Valid
  <2> QED
    BY <2>1, <1>3 DEF IInv, Typed
<1>5. /\ stored'[p] = t /\ reply'[p] = result
      /\ \A q \in Peers \ {p} : stored'[q] = stored[q] /\ reply'[q] = reply[q]
  BY <1>3, <1>4 DEF Typed
<1>6. Follows(live[p], t)
  BY <1>2 DEF Follows
<1>7. ASSUME NEW q \in Peers
      PROVE  /\ Valid(live[q])' /\ Valid(stored[q])' /\ Follows(live[q], stored[q])'
             /\ FramesBelow(q)' /\ Sent(live[q])' /\ Sent(stored[q])'
  <2>1. CASE q = p
    <3>1. Valid(live[q])' /\ Valid(stored[q])' /\ Follows(live[q], stored[q])'
      BY <2>1, <1>2, <1>3, <1>5, <1>6, Zenon DEF IInv
    <3>2. FramesBelow(q)'
      BY <2>1, <1>2, <1>3, <1>5 DEF IInv, FramesBelow
    <3>3. Sent(live[q])' /\ Sent(stored[q])'
      BY <2>1, <1>2, <1>3, <1>5 DEF IInv, Sent
    <3> QED
      BY <3>1, <3>2, <3>3
  <2>2. CASE q # p
    <3>1. Valid(live[q])' /\ Valid(stored[q])' /\ Follows(live[q], stored[q])'
      BY <2>2, <1>3, <1>5, Zenon DEF IInv
    <3>2. FramesBelow(q)' /\ Sent(live[q])' /\ Sent(stored[q])'
      BY <2>2, <1>3, <1>5, SMTT(30), Zenon DEF IInv, FramesBelow, Sent
    <3> QED
      BY <3>1, <3>2
  <2> QED
    BY <2>1, <2>2
<1>8. \A m \in net' : Assigned(m)'
  BY <1>3 DEF IInv, Assigned
<1>9. KeyNamesOne'
  BY <1>3 DEF IInv, KeyNamesOne
<1>10. ASSUME NEW m \in net'
       PROVE  /\ Kept(m.row.to, live[m.row.to], m)'
              /\ Kept(m.row.to, stored[m.row.to], m)'
  <2>1. m \in net /\ m.row.to \in Peers
    BY <1>3, <1>4, Zenon DEF Typed, Message, Row
  <2>2. Kept(m.row.to, live[m.row.to], m)'
    BY <2>1, <1>3 DEF IInv, Kept
  <2>3. CASE m.row.to = p
    BY <2>1, <2>2, <2>3, <1>2, <1>3, <1>5, SMTT(30), Zenon DEF Kept
  <2>4. CASE m.row.to # p
    <3>1. stored'[m.row.to] = stored[m.row.to]
      BY <2>1, <2>4, <1>5
    <3>2. Kept(m.row.to, stored[m.row.to], m)
      BY <2>1 DEF IInv
    <3> QED
      BY <2>2, <3>1, <3>2, <1>3, SMTT(30), Zenon DEF Kept
  <2> QED
    BY <2>2, <2>3, <2>4
<1> QED
  BY <1>4, <1>7, <1>8, <1>9, <1>10 DEF IInv

\* handle_inbound keeps the invariant: a duplicate changes nothing, a new message enters the window.
LEMMA HandleInboundInv ==
    ASSUME IInv, NEW p \in Peers, NEW m \in net, HandleInbound(p, m)
    PROVE  IInv'
<1> DEFINE s == live[p]
           k == Key(m)
           rows == IF m.row.kind = "ask" THEN <<Reply(m)>> ELSE <<>>
<1>9. PICK a : a = [s EXCEPT !.log = Append(@, k)]
  BY Zenon
<1>10. PICK c : c = RecordInbound(Enqueue(a, rows), k)
  OBVIOUS
<1>1. /\ up[p] /\ m.row.to = p /\ k \notin Range(s.inbound) /\ Fits(s, rows)
      /\ Commit(p, c, Nothing)
  BY <1>9, <1>10 DEF HandleInbound, Reply, Free
<1>2. /\ m \in Message /\ m.from \in Peers /\ m.id \in Nat /\ m.row \in Row /\ k \in Keys
      /\ Reply(m) \in Row
  BY DEF IInv, Typed, Message, Row, Kinds, Reply, Keys, Key
<1>3. rows \in Seq(Row)
  BY <1>2
<1>4. Valid(s) /\ Sent(s) /\ s.log \in Seq(Keys)
  BY Fields DEF IInv, Valid
<1> HIDE DEF s, k, rows
<1>11. /\ a \in LogicalState /\ a.log = Append(s.log, k) /\ a.inbound = s.inbound
       /\ a.counter = s.counter /\ a.outbox = s.outbox /\ a.next = s.next
  BY <1>2, <1>4, <1>9, Logged, Zenon
<1>5. /\ Valid(c) /\ Follows(s, c)
      /\ c.log = Append(s.log, k) /\ c.counter = s.counter
      /\ \A i \in DOMAIN s.outbox : i \in DOMAIN c.outbox /\ c.outbox[i] = s.outbox[i]
      /\ \A j \in 1..Len(rows) : \E i \in DOMAIN c.outbox : c.outbox[i] = rows[j]
  BY <1>1, <1>2, <1>3, <1>4, <1>10, <1>11, ProcessedValid
<1>6. /\ Len(c.log) = Len(s.log) + 1 /\ c.log[Len(s.log) + 1] = k /\ Len(s.log) \in Nat
      /\ \A i \in 1..Len(s.log) : c.log[i] = s.log[i]
  BY <1>2, <1>4, <1>5, AppendProperties, LenProperties
<1>7. Sent(c)
  <2> SUFFICES ASSUME NEW i \in 1..(Len(s.log) + 1)
               PROVE  \E n \in net : Key(n) = c.log[i]
    BY <1>6 DEF Sent
  <2>1. CASE i = Len(s.log) + 1
    BY <2>1, <1>6 DEF k
  <2>2. CASE i \in 1..Len(s.log)
    BY <2>2, <1>4, <1>6 DEF Sent
  <2> QED
    BY <2>1, <2>2, <1>6
<1>8. ASSUME NEW n \in net, n.row.to = p PROVE Kept(p, c, n)
  <2> SUFFICES ASSUME n.row.kind = "ask", Key(n) \in Range(c.log)
               PROVE  \/ \E i \in DOMAIN c.outbox : c.outbox[i] = Reply(n)
                      \/ \E x \in net : x.from = p /\ x.row = Reply(n)
    BY DEF Kept
  <2>1. PICK i \in 1..(Len(s.log) + 1) : c.log[i] = Key(n)
    BY <1>6 DEF Range
  <2>2. CASE i = Len(s.log) + 1
    <3>1. n = m
      BY <2>1, <2>2, <1>6 DEF IInv, KeyNamesOne, k
    <3>2. Len(rows) = 1 /\ rows[1] = Reply(n)
      BY <3>1 DEF rows
    <3> QED
      BY <3>2, <1>5
  <2>3. CASE i \in 1..Len(s.log)
    <3>1. Key(n) \in Range(s.log)
      BY <2>1, <2>3, <1>6, SMTT(30), Zenon DEF Range
    <3>2. \/ \E j \in DOMAIN s.outbox : s.outbox[j] = Reply(n)
          \/ \E x \in net : x.from = p /\ x.row = Reply(n)
      BY <1>8, <3>1, Zenon DEF IInv, Kept, s
    <3> QED
      BY <3>2, <1>5
  <2> QED
    BY <2>1, <2>2, <2>3, <1>6
<1> QED
  BY <1>1, <1>5, <1>7, <1>8, CommitInv DEF s, Nothing

\* A question enters the outbox under an identifier that nothing sent carries.
LEMMA AskInv ==
    ASSUME IInv, NEW p \in Peers, NEW q \in Peers, Ask(p, q)
    PROVE  IInv'
<1> DEFINE s == live[p]
           rows == <<[to |-> q, kind |-> "ask", re |-> 0]>>
<1>1. PICK a : a = [s EXCEPT !.asks = @ + 1]
  BY Zenon
<1>2. PICK c : c = Enqueue(a, rows)
  OBVIOUS
<1>3. up[p] /\ Fits(s, rows) /\ Commit(p, c, Nothing)
  BY <1>1, <1>2 DEF Ask, Free
<1>4. rows \in Seq(Row)
  BY DEF Row, Kinds
<1>5. Valid(s) /\ Sent(s)
  BY DEF IInv
<1> HIDE DEF s, rows
<1>6. /\ a \in LogicalState /\ a.log = s.log /\ a.inbound = s.inbound
      /\ a.counter = s.counter /\ a.outbox = s.outbox /\ a.next = s.next
  BY <1>1, <1>5, CountedAsk, Zenon
<1>7. /\ Valid(c) /\ Follows(s, c) /\ c.log = s.log
      /\ \A i \in DOMAIN s.outbox : i \in DOMAIN c.outbox /\ c.outbox[i] = s.outbox[i]
  BY <1>2, <1>3, <1>4, <1>5, <1>6, AskedValid
<1>8. Sent(c)
  BY <1>5, <1>7, Zenon DEF Sent
<1>9. \A m \in net : m.row.to = p => Kept(p, c, m)
  BY <1>7 DEF IInv, Kept, s
<1> QED
  BY <1>3, <1>7, <1>8, <1>9, CommitInv DEF s, Nothing

\* protect takes the next sender counter.
LEMMA ProtectInv ==
    ASSUME IInv, NEW p \in Peers, Protect(p)
    PROVE  IInv'
<1> DEFINE s == live[p]
<1>1. PICK c : c = [s EXCEPT !.counter = @ + 1]
  BY Zenon
<1>2. up[p] /\ Commit(p, c, s.counter)
  BY <1>1 DEF Protect, Free
<1>3. Valid(s) /\ Sent(s) /\ s.counter \in Nat
  BY Fields DEF IInv, Valid
<1> HIDE DEF s
<1>4. /\ Valid(c) /\ Follows(s, c) /\ c.log = s.log /\ c.outbox = s.outbox
      /\ c.counter = s.counter + 1
  BY <1>1, <1>3, ProtectedValid, Zenon
<1>5. Sent(c)
  BY <1>3, <1>4, Zenon DEF Sent
<1>6. \A m \in net : m.row.to = p => Kept(p, c, m)
  BY <1>4, Zenon DEF IInv, Kept, s
<1> QED
  BY <1>2, <1>3, <1>4, <1>5, <1>6, CommitInv DEF s

\* acknowledge removes a row that was sent.
LEMMA AcknowledgeInv ==
    ASSUME IInv, NEW p \in Peers, NEW id, Acknowledge(p, id)
    PROVE  IInv'
<1> DEFINE s == live[p]
<1>7. PICK f : f = [i \in DOMAIN s.outbox \ {id} |-> s.outbox[i]]
  BY Zenon
<1>1. PICK c : c = [s EXCEPT !.outbox = f]
  BY Zenon
<1>2. /\ up[p] /\ Commit(p, c, Nothing)
      /\ id \in DOMAIN s.outbox /\ Delivery(p, id, s.outbox[id]) \in net
  BY <1>1, <1>7 DEF Acknowledge, Free
<1>3. Valid(s) /\ Sent(s)
  BY DEF IInv
<1> HIDE DEF s
<1>4. /\ Valid(c) /\ Follows(s, c) /\ c.log = s.log
      /\ DOMAIN c.outbox = DOMAIN s.outbox \ {id}
      /\ \A i \in DOMAIN c.outbox : c.outbox[i] = s.outbox[i]
  BY <1>1, <1>2, <1>3, <1>7, AcknowledgedValid
<1>5. Sent(c)
  BY <1>3, <1>4 DEF Sent
<1>6. ASSUME NEW m \in net, m.row.to = p PROVE Kept(p, c, m)
  <2> SUFFICES ASSUME m.row.kind = "ask", Key(m) \in Range(s.log)
               PROVE  \/ \E i \in DOMAIN c.outbox : c.outbox[i] = Reply(m)
                      \/ \E n \in net : n.from = p /\ n.row = Reply(m)
    BY <1>4 DEF Kept
  <2>1. \/ \E i \in DOMAIN s.outbox : s.outbox[i] = Reply(m)
        \/ \E n \in net : n.from = p /\ n.row = Reply(m)
    BY <1>6, Zenon DEF IInv, Kept, s
  <2>2. ASSUME s.outbox[id] = Reply(m) PROVE \E n \in net : n.from = p /\ n.row = Reply(m)
    BY <2>2, <1>2, Zenon DEF Delivery
  <2> QED
    BY <2>1, <2>2, <1>4
<1> QED
  BY <1>2, <1>4, <1>5, <1>6, CommitInv DEF s, Nothing

\* Finish and Open: the stored state becomes the live one.
LEMMA AdvanceInv ==
    ASSUME IInv, NEW p \in Peers, live' = [live EXCEPT ![p] = stored[p]],
           stored' = stored, net' = net, Typed',
           \A q \in Peers : FramesBelow(q)'
    PROVE  IInv'
<1>1. /\ live'[p] = stored[p] /\ \A q \in Peers \ {p} : live'[q] = live[q]
      /\ \A q \in Peers : live[q] \in LogicalState /\ stored[q] \in LogicalState
      /\ net \subseteq Message
  BY DEF IInv, Typed
<1>2. ASSUME NEW q \in Peers
      PROVE  /\ Valid(live[q])' /\ Valid(stored[q])' /\ Follows(live[q], stored[q])'
             /\ Sent(live[q])' /\ Sent(stored[q])'
  <2>1. Follows(stored[q], stored[q])
    BY <1>1, Fields DEF Follows
  <2> QED
    BY <1>1, <2>1 DEF IInv, Sent
<1>3. ASSUME NEW m \in net PROVE Assigned(m)'
  <2>1. m.from \in Peers /\ m.id \in Nat
    BY <1>1 DEF Message
  <2>2. CASE m.from = p
    <3>1. m.id < live[p].next /\ (m.id \in DOMAIN live[p].outbox => live[p].outbox[m.id] = m.row)
      BY <2>2 DEF IInv, Assigned
    <3>2. /\ live[p].next <= stored[p].next
          /\ \A i \in DOMAIN stored[p].outbox : i < live[p].next =>
               i \in DOMAIN live[p].outbox /\ stored[p].outbox[i] = live[p].outbox[i]
      BY DEF IInv, Follows
    <3>3. live[p].next \in Nat /\ stored[p].next \in Nat
      BY <1>1, Fields
    <3>4. m.id < stored[p].next
      BY <2>1, <3>1, <3>2, <3>3
    <3>5. m.id \in DOMAIN stored[p].outbox => stored[p].outbox[m.id] = m.row
      BY <3>1, <3>2
    <3> QED
      BY <1>1, <2>2, <3>4, <3>5 DEF Assigned
  <2>3. CASE m.from # p
    BY <1>1, <2>1, <2>3, Zenon DEF IInv, Assigned
  <2> QED
    BY <2>2, <2>3
<1>4. ASSUME NEW m \in net
      PROVE  Kept(m.row.to, live[m.row.to], m)' /\ Kept(m.row.to, stored[m.row.to], m)'
  <2>1. m.row.to \in Peers
    BY <1>1 DEF Message, Row
  <2>2. live'[m.row.to] \in {live[m.row.to], stored[m.row.to]}
    BY <1>1, <2>1
  <2> QED
    BY <2>2, Zenon DEF IInv, Kept
<1>5. KeyNamesOne'
  BY DEF IInv, KeyNamesOne
<1> QED
  BY <1>2, <1>3, <1>4, <1>5 DEF IInv

\* The candidate becomes durable and live, and its result leaves.
LEMMA FinishInv ==
    ASSUME IInv, NEW p \in Peers, Finish(p)
    PROVE  IInv'
<1>1. /\ live' = [live EXCEPT ![p] = stored[p]] /\ stored' = stored /\ net' = net /\ up' = up
      /\ reply' = [reply EXCEPT ![p] = Nothing]
      /\ frames' = IF reply[p] = Nothing THEN frames
                   ELSE [frames EXCEPT ![p] = Append(@, reply[p])]
  BY DEF Finish
<1>2. /\ live[p].counter \in Nat /\ stored[p].counter \in Nat
      /\ live[p].counter <= stored[p].counter
      /\ frames[p] \in Seq(Nat) /\ reply[p] \in Int /\ stored[p] \in LogicalState
  BY Fields, SMTT(30), Zenon DEF IInv, Typed, Follows
<1>3. reply[p] # Nothing => reply[p] = live[p].counter /\ reply[p] < stored[p].counter
  BY <1>2, SMTT(30), Zenon DEF IInv, FramesBelow
<1>4. Typed'
  BY <1>1, <1>2, <1>3, AppendProperties DEF IInv, Typed, Nothing
<1>5. ASSUME NEW q \in Peers, q # p PROVE FramesBelow(q)'
  BY <1>1, <1>5 DEF IInv, Typed, FramesBelow
<1>6. FramesBelow(p)'
  <2>1. reply'[p] = Nothing /\ live'[p] = stored[p]
    BY <1>1, Zenon DEF IInv, Typed
  <2>2. Len(frames[p]) \in Nat /\ \A i \in 1..Len(frames[p]) : frames[p][i] \in Nat
    BY <1>2, LenProperties, ElementOfSeq, SMTT(30), Zenon
  <2>3. IsInjective(frames[p]) /\ \A i \in 1..Len(frames[p]) : frames[p][i] < live[p].counter
    BY DEF IInv, FramesBelow
  <2>4. CASE reply[p] = Nothing
    <3>1. \A i \in 1..Len(frames[p]) : frames[p][i] < stored[p].counter
      BY <2>2, <2>3, <1>2
    <3> QED
      BY <2>1, <2>3, <2>4, <3>1, <1>1, Zenon DEF FramesBelow
  <2>5. CASE reply[p] # Nothing
    <3> DEFINE f == Append(frames[p], reply[p])
               n == Len(frames[p])
    <3>1. frames'[p] = f
      BY <1>1, <2>5 DEF IInv, Typed
    <3>2. reply[p] \in Nat /\ reply[p] = live[p].counter /\ reply[p] < stored[p].counter
      BY <1>2, <1>3, <2>5, Zenon
    <3>3. /\ Len(f) = n + 1 /\ f[n + 1] = reply[p] /\ \A i \in 1..n : f[i] = frames[p][i]
          /\ f \in Seq(Nat)
      BY <1>2, <3>2, AppendProperties
    <3>4. DOMAIN f = 1..(n + 1) /\ DOMAIN frames[p] = 1..n /\ n \in Nat
      BY <1>2, <3>3, LenProperties
    <3> HIDE DEF f, n
    <3>5. \A i \in 1..(n + 1) : i = n + 1 \/ i \in 1..n
      BY <3>4
    <3>6. \A i \in 1..n : f[i] \in Nat /\ f[i] < reply[p]
      BY <2>2, <2>3, <3>2, <3>3 DEF n
    <3>7. IsInjective(f)
      BY <2>3, <3>2, <3>3, <3>4, <3>5, <3>6, SMTT(30), Zenon DEF IsInjective
    <3>8. \A i \in 1..(n + 1) : f[i] < stored[p].counter
      BY <1>2, <3>2, <3>3, <3>5, <3>6
    <3> QED
      BY <2>1, <3>1, <3>3, <3>7, <3>8 DEF FramesBelow
  <2> QED
    BY <2>4, <2>5
<1> QED
  BY <1>1, <1>4, <1>5, <1>6, AdvanceInv, Zenon

\* A restart goes on from what is stored.
LEMMA OpenInv ==
    ASSUME IInv, NEW p \in Peers, Open(p)
    PROVE  IInv'
<1>1. /\ live' = [live EXCEPT ![p] = stored[p]] /\ stored' = stored /\ net' = net
      /\ up' = [up EXCEPT ![p] = TRUE] /\ reply' = reply /\ frames' = frames /\ ~up[p]
  BY DEF Open
<1>2. Typed'
  BY <1>1 DEF IInv, Typed
<1>3. ASSUME NEW q \in Peers, q # p PROVE FramesBelow(q)'
  BY <1>1, <1>3 DEF IInv, Typed, FramesBelow
<1>4. FramesBelow(p)'
  <2>1. reply[p] = Nothing /\ live'[p] = stored[p] /\ frames[p] \in Seq(Nat)
    BY <1>1, Zenon DEF IInv, Typed, FramesBelow
  <2>2. /\ live[p].counter \in Nat /\ stored[p].counter \in Nat
        /\ live[p].counter <= stored[p].counter
    BY Fields, SMTT(30), Zenon DEF IInv, Typed, Follows
  <2>3. \A i \in 1..Len(frames[p]) : frames[p][i] \in Nat /\ frames[p][i] < live[p].counter
    BY <2>1, ElementOfSeq DEF IInv, FramesBelow
  <2>4. \A i \in 1..Len(frames[p]) : frames[p][i] < stored[p].counter
    BY <2>2, <2>3, SMTT(30), Zenon
  <2>5. IsInjective(frames[p])
    BY DEF IInv, FramesBelow
  <2> QED
    BY <1>1, <2>1, <2>4, <2>5 DEF FramesBelow
<1> QED
  BY <1>1, <1>2, <1>3, <1>4, AdvanceInv, Zenon

\* Fail and Crash: a record on its way to the disk may be gone.
LEMMA RevertInv ==
    ASSUME IInv, NEW p \in Peers, NEW s \in {stored[p], live[p]},
           stored' = [stored EXCEPT ![p] = s], reply' = [reply EXCEPT ![p] = Nothing],
           live' = live, net' = net, frames' = frames,
           up' \in [Peers -> BOOLEAN], \A q \in Peers \ {p} : up'[q] = up[q]
    PROVE  IInv'
<1>1. /\ live \in [Peers -> LogicalState] /\ stored \in [Peers -> LogicalState]
      /\ reply \in [Peers -> Int] /\ net \subseteq Message
  BY DEF IInv, Typed
<1>2. /\ stored'[p] = s /\ reply'[p] = Nothing
      /\ \A q \in Peers \ {p} : stored'[q] = stored[q] /\ reply'[q] = reply[q]
  BY <1>1
<1>3. Typed'
  BY <1>1 DEF IInv, Typed, Nothing
<1>4. ASSUME NEW q \in Peers
      PROVE  /\ Valid(live[q])' /\ Valid(stored[q])' /\ Follows(live[q], stored[q])'
             /\ Sent(live[q])' /\ Sent(stored[q])'
  <2>1. stored'[q] \in {stored[q], live[q]}
    BY <1>2
  <2>2. Follows(live[q], live[q])
    BY <1>1, Fields DEF Follows
  <2> QED
    BY <2>1, <2>2 DEF IInv, Sent
<1>5. ASSUME NEW q \in Peers PROVE FramesBelow(q)'
  <2>1. CASE q = p
    BY <1>2, <2>1 DEF IInv, FramesBelow
  <2>2. CASE q # p
    BY <1>2, <2>2, Zenon DEF IInv, FramesBelow
  <2> QED
    BY <2>1, <2>2
<1>6. ASSUME NEW m \in net
      PROVE  /\ Assigned(m)' /\ Kept(m.row.to, live[m.row.to], m)'
             /\ Kept(m.row.to, stored[m.row.to], m)'
  <2>1. m.row.to \in Peers
    BY <1>1 DEF Message, Row
  <2>2. stored'[m.row.to] \in {stored[m.row.to], live[m.row.to]}
    BY <1>2, <2>1
  <2>3. Assigned(m)'
    BY DEF IInv, Assigned
  <2> QED
    BY <2>2, <2>3 DEF IInv, Kept
<1>7. KeyNamesOne'
  BY DEF IInv, KeyNamesOne
<1> QED
  BY <1>3, <1>4, <1>5, <1>6, <1>7 DEF IInv

\* A transaction that failed leaves the live state.
LEMMA FailInv ==
    ASSUME IInv, NEW p \in Peers, Fail(p)
    PROVE  IInv'
<1>1. up \in [Peers -> BOOLEAN]
  BY DEF IInv, Typed
<1> QED
  BY <1>1, RevertInv, Zenon DEF Fail

\* A crash leaves either state on disk.
LEMMA CrashInv ==
    ASSUME IInv, NEW p \in Peers, Crash(p)
    PROVE  IInv'
<1>1. PICK s \in {stored[p], live[p]} : stored' = [stored EXCEPT ![p] = s]
  BY Zenon DEF Crash
<1>2. up' \in [Peers -> BOOLEAN] /\ \A q \in Peers \ {p} : up'[q] = up[q]
  BY SMTT(30), Zenon DEF IInv, Typed, Crash
<1> QED
  BY <1>1, <1>2, RevertInv, Zenon DEF Crash

\* pending_deliveries hands out rows of the live state: a key that was used
\* before names the row that is there now.
LEMMA SendInv ==
    ASSUME IInv, NEW p \in Peers, NEW id, Send(p, id)
    PROVE  IInv'
<1> DEFINE x == Delivery(p, id, live[p].outbox[id])
<1>1. /\ id \in DOMAIN live[p].outbox /\ x \notin net /\ net' = net \cup {x}
      /\ up' = up /\ live' = live /\ stored' = stored /\ reply' = reply /\ frames' = frames
  BY Zenon DEF Send
<1>2. /\ live[p] \in LogicalState /\ live[p].outbox \in Outboxes /\ live[p].next \in Nat
      /\ DOMAIN live[p].outbox \subseteq 1..(live[p].next - 1) /\ net \subseteq Message
  BY Fields, Zenon DEF IInv, Typed, Valid, Bounded
<1>3. live[p].outbox[id] \in Row /\ id \in Nat /\ id < live[p].next
  BY <1>1, <1>2, OutboxesElim
<1>4. x \in Message /\ x.from = p /\ x.id = id /\ x.row = live[p].outbox[id]
  BY <1>3 DEF Delivery, Message
<1> HIDE DEF x
<1>5. \A n \in net : Key(n) # Key(x)
  <2> SUFFICES ASSUME NEW n \in net, Key(n) = Key(x) PROVE FALSE
    OBVIOUS
  <2>1. n \in Message /\ n.from = p /\ n.id = id
    BY <1>2, <1>4, Zenon DEF Key
  <2>2. n.row = x.row
    BY <2>1, <1>1, <1>4, Zenon DEF IInv, Assigned
  <2>3. n = x
    BY <2>1, <2>2, <1>4, SMTT(30), Zenon DEF Message
  <2> QED
    BY <2>3, <1>1
<1>6. Typed'
  BY <1>1, <1>4 DEF IInv, Typed
<1>7. ASSUME NEW q \in Peers
      PROVE  /\ Valid(live[q])' /\ Valid(stored[q])' /\ Follows(live[q], stored[q])'
             /\ FramesBelow(q)' /\ Sent(live[q])' /\ Sent(stored[q])'
  <2>1. Valid(live[q])' /\ Valid(stored[q])' /\ Follows(live[q], stored[q])'
    BY <1>1 DEF IInv
  <2>2. FramesBelow(q)'
    BY <1>1, Zenon DEF IInv, FramesBelow
  <2>3. Sent(live[q])' /\ Sent(stored[q])'
    BY <1>1 DEF IInv, Sent
  <2> QED
    BY <2>1, <2>2, <2>3, Zenon
<1>8. ASSUME NEW m \in net' PROVE Assigned(m)'
  <2>1. CASE m = x
    BY <2>1, <1>1, <1>3, <1>4, Zenon DEF Assigned
  <2>2. CASE m \in net
    BY <2>2, <1>1, Zenon DEF IInv, Assigned
  <2> QED
    BY <2>1, <2>2, <1>1
<1>9. KeyNamesOne'
  BY <1>1, <1>5 DEF IInv, KeyNamesOne
<1>10. ASSUME NEW m \in net'
       PROVE  Kept(m.row.to, live[m.row.to], m)' /\ Kept(m.row.to, stored[m.row.to], m)'
  <2>1. CASE m = x
    <3>1. m.row.to \in Peers
      BY <2>1, <1>4, Zenon DEF Message, Row
    <3>2. Sent(live[m.row.to]) /\ Sent(stored[m.row.to])
      BY <3>1 DEF IInv
    <3>3. Key(m) \notin Range(live[m.row.to].log) /\ Key(m) \notin Range(stored[m.row.to].log)
      <4>1. live[m.row.to].log \in Seq(Keys) /\ stored[m.row.to].log \in Seq(Keys)
        BY <3>1, Fields DEF IInv, Typed
      <4> QED
        BY <3>2, <2>1, <1>5, <4>1, InRange, SMTT(30), Zenon DEF Sent
    <3> QED
      BY <3>3, <1>1 DEF Kept
  <2>2. CASE m \in net
    BY <2>2, <1>1, Zenon DEF IInv, Kept
  <2> QED
    BY <2>1, <2>2, <1>1, Zenon
<1> QED
  BY <1>6, <1>7, <1>8, <1>9, <1>10 DEF IInv

\* A step that changes nothing keeps the invariant.
LEMMA StutterInv ==
    ASSUME IInv, UNCHANGED vars
    PROVE  IInv'
  BY Zenon DEF IInv, vars, Typed, Follows, FramesBelow, Sent, Assigned, KeyNamesOne, Kept

\* The invariant holds in every state: stored is live or a successor of it that
\* nothing outside has seen yet.
THEOREM Invariance == Spec => []IInv
<1>1. IInv /\ [Next]_vars => IInv'
  <2> SUFFICES ASSUME IInv, [Next]_vars PROVE IInv'
    OBVIOUS
  <2>1. ASSUME NEW p \in Peers, NEW m \in net, HandleInbound(p, m) PROVE IInv'
    BY <2>1, HandleInboundInv
  <2>2. ASSUME NEW p \in Peers, NEW q \in Peers, Ask(p, q) PROVE IInv'
    BY <2>2, AskInv
  <2>3. ASSUME NEW p \in Peers, NEW id \in 1..live[p].next, Acknowledge(p, id) PROVE IInv'
    BY <2>3, AcknowledgeInv
  <2>4. ASSUME NEW p \in Peers, NEW id \in 1..live[p].next, Send(p, id) PROVE IInv'
    BY <2>4, SendInv
  <2>5. ASSUME NEW p \in Peers, Protect(p) PROVE IInv'
    BY <2>5, ProtectInv
  <2>6. ASSUME NEW p \in Peers, Finish(p) PROVE IInv'
    BY <2>6, FinishInv
  <2>7. ASSUME NEW p \in Peers, Fail(p) PROVE IInv'
    BY <2>7, FailInv
  <2>8. ASSUME NEW p \in Peers, Crash(p) PROVE IInv'
    BY <2>8, CrashInv
  <2>9. ASSUME NEW p \in Peers, Open(p) PROVE IInv'
    BY <2>9, OpenInv
  <2>10. CASE UNCHANGED vars
    BY <2>10, StutterInv
  <2> QED
    BY <2>1, <2>2, <2>3, <2>4, <2>5, <2>6, <2>7, <2>8, <2>9, <2>10 DEF Next
<1> QED
  BY InitInv, <1>1, PTL DEF Spec

\* LogicalState::decode accepts every state, live or stored.
THEOREM StateDecodes == Spec => []TypeOK
<1>1. IInv => TypeOK
  <2> SUFFICES ASSUME IInv PROVE TypeOK
    BY Zenon
  <2>1. ASSUME NEW s, Valid(s)
        PROVE  /\ IsState(s) /\ Cardinality(DOMAIN s.outbox) <= MaxOutbox
               /\ Len(s.inbound) <= Window /\ IsInjective(s.inbound)
    <3>1. /\ s \in LogicalState /\ Bounded(s) /\ Newest(s.inbound, s.log) /\ Apart(s.log)
      BY <2>1 DEF Valid
    <3>2. \A i \in DOMAIN s.outbox : s.outbox[i] \in Row
      BY <3>1, Fields, OutboxesElim
    <3>3. IsInjective(s.inbound)
      BY <3>1, Fields, WindowInjective
    <3>4. IsState(s)
      BY <3>1, <3>2, Fields DEF IsState, Bounded, Keys
    <3> QED
      BY <3>1, <3>3, <3>4 DEF Bounded, Newest
  <2>2. \A m \in net : m.from \in Peers /\ m.id \in Nat /\ m.row \in Row
    BY DEF IInv, Typed, Message
  <2> QED
    BY <2>1, <2>2 DEF IInv, TypeOK
<1> QED
  BY Invariance, <1>1, PTL

\* handle_inbound and its window: a message is processed again only after more
\* than a window of others, across crashes and failed writes.
THEOREM ProcessedOnce == Spec => []AppliedOnce
<1>1. IInv => AppliedOnce
  <2> SUFFICES ASSUME IInv, NEW p \in Peers, NEW i \in DOMAIN live[p].log,
                      NEW j \in DOMAIN live[p].log, i < j, live[p].log[i] = live[p].log[j]
               PROVE  j - i > Window
    BY Zenon DEF AppliedOnce
  <2>1. live[p].log \in Seq(Keys) /\ Apart(live[p].log)
    BY Fields, Zenon DEF IInv, Valid
  <2>2. i \in 1..Len(live[p].log) /\ j \in 1..Len(live[p].log)
    BY <2>1, LenProperties
  <2> QED
    BY <2>1, <2>2 DEF Apart
<1> QED
  BY Invariance, <1>1, PTL

\* enqueue, pending_deliveries and commit_candidate: a delivery key never names
\* two messages, even when the id of a lost transaction is assigned again.
THEOREM KeysNeverReused == Spec => []KeyNamesOne
<1>1. IInv => KeyNamesOne
  BY Zenon DEF IInv
<1> QED
  BY Invariance, <1>1, PTL

\* handle_inbound: a processed question has its answer in the outbox or sent.
THEOREM NoAnswerLost == Spec => []AnswerKept
<1>1. IInv => AnswerKept
  BY Zenon DEF IInv, AnswerKept, Kept, Reply
<1> QED
  BY Invariance, <1>1, PTL

\* protect: no two frames leave with one sender counter.
THEOREM CountersNeverReused == Spec => []CountersFresh
<1>1. IInv => CountersFresh
  BY Zenon DEF IInv, FramesBelow, CountersFresh
<1> QED
  BY Invariance, <1>1, PTL
===============================================================================
