--------------------------- MODULE ProtectorProofs ----------------------------
(* Protector and Replay: for every window, epoch length, jump, number of      *)
(* versions kept and of frames, a receiver opens exactly the frames one with  *)
(* a perfect memory would want, no index is used twice, and every state can   *)
(* be stored and read back.                                                   *)
EXTENDS Protector, FiniteSetTheorems, SequenceTheorems, TLAPS

-----------------------------------------------------------------------------
(* Epochs.                                                                    *)

\* The epoch of a frame index is a number that does not fall as indices rise.
LEMMA EpochNat ==
    ASSUME NEW i \in Nat
    PROVE  EpochOf(i) \in Nat
  BY ReplayAssumption DEF EpochOf

\* Ratchet epochs follow the indices.
LEMMA EpochMonotone ==
    ASSUME NEW i \in Nat, NEW j \in Nat, i <= j
    PROVE  EpochOf(i) <= EpochOf(j)
  BY ReplayAssumption DEF EpochOf

\* The first frame is in the first epoch.
LEMMA EpochZero == EpochOf(0) = 0
  BY ReplayAssumption DEF EpochOf

-----------------------------------------------------------------------------
(* One receive entry: the window and the ratchet against a perfect memory.    *)

\* r is what is left of having opened the frames H: the newest of them, which
\* of the last WINDOW places are among them, and the epoch of the newest.
Reflects(r, H) ==
    /\ r \in State /\ H \subseteq Nat
    /\ r.started <=> H # {}
    /\ r.started =>
         /\ r.high \in H /\ \A i \in H : i <= r.high
         /\ \A k \in 0..(WINDOW - 1) : k \in r.seen <=> r.high - k \in H
         /\ r.epoch = EpochOf(r.high)
    /\ ~r.started => r.high = 0 /\ r.seen = {} /\ r.epoch = 0

\* A new receive entry has opened nothing.
LEMMA FreshReflects == Reflects(Fresh, {})
  BY ReplayAssumption DEF Reflects, Fresh, State

\* Replay::accept and RecvRatchet::key decide like a perfect memory.
LEMMA AcceptsWanted ==
    ASSUME NEW r, NEW H, Reflects(r, H), NEW index \in Nat
    PROVE  Accepts(r, index) <=> Wanted(H, index)
<1> DEFINE E(i) == EpochOf(i)
<1>1. /\ r.started \in BOOLEAN /\ r.high \in Nat /\ r.seen \subseteq 0..(WINDOW - 1)
      /\ r.epoch \in Nat /\ H \subseteq Nat
      /\ WINDOW \in Nat /\ WINDOW > 0 /\ MAX_EPOCH_JUMP \in Nat
  BY ReplayAssumption DEF Reflects, State
<1>2. E(index) \in Nat /\ E(0) = 0 /\ \A i \in H : E(i) \in Nat
  BY <1>1, EpochNat, EpochZero
<1>3. CASE ~r.started
  <2>1. H = {} /\ r.epoch = 0
    BY <1>3 DEF Reflects
  <2>2. Accepts(r, index) <=> E(index) <= MAX_EPOCH_JUMP
    BY <1>1, <1>2, <1>3, <2>1 DEF Accepts, Fits, Reachable
  <2>3. Wanted(H, index) <=> E(index) <= MAX_EPOCH_JUMP
    BY <1>1, <1>2, <2>1 DEF Wanted
  <2> QED
    BY <2>2, <2>3
<1>4. CASE r.started
  <2>1. /\ r.high \in H /\ \A i \in H : i <= r.high
        /\ \A k \in 0..(WINDOW - 1) : k \in r.seen <=> r.high - k \in H
        /\ r.epoch = E(r.high)
    BY <1>4 DEF Reflects
  <2>2. E(r.high) \in Nat /\ \A i \in H \cup {0} : E(i) \in Nat /\ E(i) <= E(r.high)
    <3>1. \A i \in H \cup {0} : i \in Nat /\ i <= r.high
      BY <1>1, <2>1
    <3> QED
      BY <3>1, <1>1, EpochNat, EpochMonotone
  <2>3. Fits(r, index) <=> /\ index \notin H
                           /\ \A i \in H : i - index < WINDOW
    <3>1. CASE index > r.high
      <4>1. index \notin H /\ \A i \in H : i - index < WINDOW
        BY <3>1, <1>1, <2>1
      <4> QED
        BY <3>1, <4>1 DEF Fits
    <3>2. CASE ~(index > r.high)
      <4>1. (\A i \in H : i - index < WINDOW) <=> r.high - index < WINDOW
        BY <1>1, <2>1
      <4>2. r.high - index < WINDOW => (r.high - index \in r.seen <=> index \in H)
        <5> SUFFICES ASSUME r.high - index < WINDOW
                     PROVE  r.high - index \in r.seen <=> index \in H
          OBVIOUS
        <5>1. r.high - index \in 0..(WINDOW - 1) /\ r.high - (r.high - index) = index
          BY <3>2, <1>1
        <5> QED
          BY <5>1, <2>1
      <4> QED
        BY <1>4, <3>2, <4>1, <4>2 DEF Fits
    <3> QED
      BY <3>1, <3>2
  <2>4. E(index) >= r.epoch <=> \A i \in H : E(index) >= E(i)
    BY <1>2, <2>1, <2>2
  <2>5. E(index) - r.epoch <= MAX_EPOCH_JUMP <=>
          \E i \in H \cup {0} : E(index) - E(i) <= MAX_EPOCH_JUMP
    BY <1>1, <1>2, <2>1, <2>2
  <2> QED
    BY <2>3, <2>4, <2>5 DEF Accepts, Reachable, Wanted
<1> QED
  BY <1>1, <1>3, <1>4

\* What Replay::accept and RecvRatchet::key leave behind remembers the frame.
LEMMA RecordReflects ==
    ASSUME NEW r, NEW H, Reflects(r, H), NEW index \in Nat, Accepts(r, index)
    PROVE  Reflects(Record(r, index), H \cup {index})
<1> DEFINE E(i) == EpochOf(i)
           G == H \cup {index}
<1>1. /\ r.started \in BOOLEAN /\ r.high \in Nat /\ r.seen \subseteq 0..(WINDOW - 1)
      /\ r.epoch \in Nat /\ H \subseteq Nat /\ r \in State
      /\ WINDOW \in Nat /\ WINDOW > 0 /\ 0 \in 0..(WINDOW - 1)
  BY ReplayAssumption DEF Reflects, State
<1>2. G \subseteq Nat /\ G # {} /\ E(index) \in Nat
  BY <1>1, EpochNat
<1>3. CASE ~r.started
  <2>1. H = {}
    BY <1>3 DEF Reflects
  <2>2. Record(r, index) = [started |-> TRUE, high |-> index, epoch |-> E(index), seen |-> {0}]
    BY <1>3 DEF Record
  <2>3. \A k \in 0..(WINDOW - 1) : k \in {0} <=> index - k \in {index}
    BY <1>1
  <2> QED
    BY <1>1, <1>2, <2>1, <2>2, <2>3 DEF Reflects, State
<1>4. CASE r.started /\ index > r.high
  <2> DEFINE d == index - r.high
             S == {0} \cup Shifted(r.seen, d)
  <2>1. Record(r, index) = [started |-> TRUE, high |-> index, epoch |-> E(index), seen |-> S]
    BY <1>4 DEF Record
  <2>2. /\ r.high \in H /\ \A i \in H : i <= r.high
        /\ \A k \in 0..(WINDOW - 1) : k \in r.seen <=> r.high - k \in H
    BY <1>4 DEF Reflects
  <2>3. S \subseteq 0..(WINDOW - 1)
    BY <1>1 DEF Shifted
  <2>4. ASSUME NEW k \in 0..(WINDOW - 1) PROVE k \in S <=> index - k \in G
    <3>1. CASE k = 0
      BY <3>1
    <3>2. CASE k # 0 /\ k - d \in 0..(WINDOW - 1)
      <4>1. r.high - (k - d) = index - k /\ index - k # index
        BY <1>1, <3>2
      <4>2. k - d \in r.seen <=> index - k \in H
        BY <2>2, <3>2, <4>1
      <4> QED
        BY <3>2, <4>1, <4>2 DEF Shifted
    <3>3. CASE k # 0 /\ k - d \notin 0..(WINDOW - 1)
      <4>1. k - d \notin r.seen
        BY <1>1, <3>3
      <4>2. index - k > r.high /\ index - k # index
        BY <1>1, <1>4, <3>3
      <4>3. index - k \notin H
        BY <1>1, <2>2, <4>2
      <4> QED
        BY <3>3, <4>1, <4>2, <4>3 DEF Shifted
    <3> QED
      BY <3>1, <3>2, <3>3
  <2>5. \A i \in G : i <= index
    BY <1>1, <1>4, <2>2
  <2> HIDE DEF S
  <2> QED
    BY <1>2, <2>1, <2>3, <2>4, <2>5 DEF Reflects, State
<1>5. CASE r.started /\ ~(index > r.high)
  <2> DEFINE S == r.seen \cup {r.high - index}
             t == [r EXCEPT !.seen = S, !.epoch = E(index)]
  <2>1. Record(r, index) = t
    BY <1>5 DEF Record
  <2>2. /\ r.high \in H /\ \A i \in H : i <= r.high /\ r.epoch = E(r.high)
        /\ \A k \in 0..(WINDOW - 1) : k \in r.seen <=> r.high - k \in H
    BY <1>5, Zenon DEF Reflects
  <2>3. r.high - index \in 0..(WINDOW - 1)
    BY <1>1, <1>5 DEF Accepts, Fits
  <2>4. E(index) = E(r.high)
    <3>1. E(index) <= E(r.high) /\ E(r.high) \in Nat
      BY <1>1, <1>5, EpochMonotone, EpochNat
    <3>2. E(index) >= E(r.high)
      BY <2>2 DEF Accepts, Reachable
    <3> QED
      BY <3>1, <3>2, <1>2
  <2>5. S \subseteq 0..(WINDOW - 1)
    BY <1>1, <2>3
  <2>6. ASSUME NEW k \in 0..(WINDOW - 1) PROVE k \in S <=> r.high - k \in G
    <3>1. k = r.high - index <=> r.high - k = index
      BY <1>1
    <3> QED
      BY <3>1, <2>2
  <2>7. \A i \in G : i <= r.high
    BY <1>1, <1>5, <2>2
  <2>8. /\ t \in State /\ t.started /\ t.high = r.high /\ t.seen = S /\ t.epoch = E(index)
    BY <1>1, <1>2, <1>5, <2>5, Zenon DEF State
  <2> HIDE DEF S, t
  <2> QED
    BY <1>2, <2>1, <2>2, <2>4, <2>6, <2>7, <2>8 DEF Reflects
<1> QED
  BY <1>1, <1>3, <1>4, <1>5

-----------------------------------------------------------------------------
(* The order in which versions are kept.                                      *)

Members(s) == {s[i] : i \in 1..Len(s)}

\* push_back of a version that is not kept.
LEMMA MembersAppend ==
    ASSUME NEW S, NEW s \in Seq(S), NEW v \in S, IsInjective(s), v \notin Members(s)
    PROVE  /\ Append(s, v) \in Seq(S) /\ IsInjective(Append(s, v))
           /\ Members(Append(s, v)) = Members(s) \cup {v}
<1> DEFINE n == Len(s)
           t == Append(s, v)
<1>1. /\ t \in Seq(S) /\ Len(t) = n + 1 /\ t[n + 1] = v /\ \A i \in 1..n : t[i] = s[i]
      /\ n \in Nat /\ DOMAIN s = 1..n
  BY AppendProperties, LenProperties
<1>2. DOMAIN t = 1..(n + 1)
  BY <1>1, LenProperties
<1> HIDE DEF n, t
<1>3. \A i \in 1..(n + 1) : i = n + 1 \/ i \in 1..n
  BY <1>1
<1>4. \A i \in 1..n : s[i] # v
  BY DEF Members, n
<1>5. IsInjective(t)
  BY <1>1, <1>2, <1>3, <1>4 DEF IsInjective
<1>6. Members(t) = Members(s) \cup {v}
  <2>1. n + 1 \in 1..(n + 1) /\ \A i \in 1..n : i \in 1..(n + 1)
    BY <1>1
  <2> QED
    BY <1>1, <1>3, <2>1 DEF Members, n
<1> QED
  BY <1>1, <1>5, <1>6 DEF t

\* pop_front of the oldest version keeps the newest.
LEMMA MembersTail ==
    ASSUME NEW S, NEW s \in Seq(S), s # <<>>, IsInjective(s)
    PROVE  /\ Tail(s) \in Seq(S) /\ Len(Tail(s)) = Len(s) - 1 /\ IsInjective(Tail(s))
           /\ Members(Tail(s)) \subseteq Members(s)
           /\ Len(s) > 1 => s[Len(s)] \in Members(Tail(s))
<1> DEFINE n == Len(s)
           t == Tail(s)
<1>1. /\ t \in Seq(S) /\ Len(t) = n - 1 /\ \A i \in 1..(n - 1) : t[i] = s[i + 1]
  BY HeadTailProperties
<1>2. n \in Nat /\ n > 0 /\ DOMAIN s = 1..n /\ DOMAIN t = 1..(n - 1)
  BY <1>1, LenProperties, EmptySeq
<1> HIDE DEF n, t
<1>3. \A i \in 1..(n - 1) : i + 1 \in 1..n
  BY <1>2
<1>4. IsInjective(t)
  <2> SUFFICES ASSUME NEW a \in 1..(n - 1), NEW b \in 1..(n - 1), t[a] = t[b] PROVE a = b
    BY <1>2 DEF IsInjective
  <2>1. a + 1 = b + 1
    BY <1>1, <1>2, <1>3, Zenon DEF IsInjective
  <2> QED
    BY <2>1
<1>5. Members(t) \subseteq Members(s)
  BY <1>1, <1>3 DEF Members, n
<1>6. n > 1 => s[n] \in Members(t)
  <2> SUFFICES ASSUME n > 1 PROVE s[n] \in Members(t)
    OBVIOUS
  <2>1. n - 1 \in 1..(n - 1) /\ (n - 1) + 1 = n
    BY <1>2
  <2> QED
    BY <1>1, <2>1 DEF Members
<1> QED
  BY <1>1, <1>4, <1>5, <1>6 DEF n, t

\* As many members as places.
LEMMA MembersCount ==
    ASSUME NEW S, NEW s \in Seq(S), IsInjective(s)
    PROVE  Cardinality(Members(s)) = Len(s)
<1> DEFINE n == Len(s)
           M == Members(s)
<1>1. n \in Nat /\ s \in [1..n -> S] /\ DOMAIN s = 1..n
  BY LenProperties
<1>2. IsFiniteSet(1..n) /\ Cardinality(1..n) = n
  <2>1. 1 \in Int /\ n \in Int
    BY <1>1
  <2>2. IsFiniteSet(1..n) /\ Cardinality(1..n) = IF 1 > n THEN 0 ELSE n - 1 + 1
    BY <2>1, FS_Interval
  <2> QED
    BY <1>1, <2>2
<1>3. s \in [1..n -> M]
  BY <1>1 DEF Members
<1>4. s \in Surjection(1..n, M) /\ s \in Injection(1..n, M)
  BY <1>1, <1>3 DEF Surjection, Injection, IsInjective, Members
<1> QED
  BY <1>2, <1>4, FS_Surjection

\* Protector::install puts v at the back and retires the oldest when needed.
LEMMA QueueStep ==
    ASSUME NEW q \in Seq(Versions), IsInjective(q), Len(q) <= Retain,
           NEW v \in Versions, v \notin Members(q),
           NEW rest, rest = IF Len(Append(q, v)) > Retain THEN Tail(Append(q, v)) ELSE Append(q, v)
    PROVE  /\ rest \in Seq(Versions) /\ IsInjective(rest) /\ Len(rest) <= Retain
           /\ v \in Members(rest) /\ Members(rest) \subseteq Members(q) \cup {v}
<1> DEFINE t == Append(q, v)
<1>1. /\ t \in Seq(Versions) /\ IsInjective(t) /\ Members(t) = Members(q) \cup {v}
  BY MembersAppend
<1>2. /\ t # <<>> /\ Len(t) = Len(q) + 1 /\ t[Len(q) + 1] = v /\ Len(q) \in Nat
      /\ Retain \in Nat /\ Retain > 0
  BY AppendProperties, LenProperties, ProtectorAssumption
<1>3. CASE Len(t) > Retain
  <2>1. rest = Tail(t)
    BY <1>3
  <2> HIDE DEF t
  <2>2. /\ Tail(t) \in Seq(Versions) /\ Len(Tail(t)) = Len(t) - 1 /\ IsInjective(Tail(t))
        /\ Members(Tail(t)) \subseteq Members(t)
        /\ Len(t) > 1 => t[Len(t)] \in Members(Tail(t))
    BY <1>1, <1>2, MembersTail
  <2>3. Len(t) > 1 /\ Len(Tail(t)) <= Retain
    BY <1>2, <1>3, <2>2
  <2> QED
    BY <1>1, <1>2, <2>1, <2>2, <2>3, Zenon
<1>4. CASE ~(Len(t) > Retain)
  BY <1>1, <1>2, <1>4
<1> QED
  BY <1>3, <1>4

-----------------------------------------------------------------------------
(* The inductive invariant.                                                   *)

Partial(T, S) == UNION {[D -> S] : D \in SUBSET T}

\* A map over some of the keys,
LEMMA PartialIntro ==
    ASSUME NEW T, NEW S, NEW D, D \subseteq T, NEW f \in [D -> S]
    PROVE  f \in Partial(T, S)
  BY DEF Partial

\* and what one is.
LEMMA PartialElim ==
    ASSUME NEW T, NEW S, NEW f \in Partial(T, S)
    PROVE  DOMAIN f \subseteq T /\ f \in [DOMAIN f -> S]
<1>1. PICK D \in SUBSET T : f \in [D -> S]
  BY DEF Partial
<1> QED
  BY <1>1

Typed ==
    /\ order \in [Peers -> Seq(Versions)]
    /\ current \in [Peers -> Versions \cup {None}]
    /\ counter \in [Peers -> Partial(Versions, 0..MaxCounter)]
    /\ epoch \in [Peers -> Partial(Versions, Nat)]
    /\ recv \in [Peers -> Partial(Versions, Partial(Peers, State))]
    /\ installs \in [Peers -> [Versions -> 0..MaxInstalls]]
    /\ frames \subseteq Frame /\ IsFiniteSet(frames)
    /\ opened \in [Peers -> SUBSET [frame : Frame, life : Nat]]

\* The maps of a protector have the versions in its order as their keys.
Queued(p) ==
    /\ DOMAIN epoch[p] = Kept(p) /\ DOMAIN recv[p] = Kept(p)
    /\ Members(order[p]) = Kept(p) /\ IsInjective(order[p]) /\ Len(order[p]) <= Retain
    /\ IF Kept(p) = {} THEN current[p] = None ELSE current[p] \in Kept(p)
    /\ \A v \in Kept(p) : installs[p][v] >= 1

\* The send ratchet stands at the last frame protected.
Ratcheted(p) ==
    \A v \in Kept(p) : epoch[p][v] = EpochOf(IF counter[p][v] = 0 THEN 0 ELSE counter[p][v] - 1)

\* The indices p has opened from q in the present installation of version v.
Indices(p, v, q) ==
    {x.frame.index : x \in {x \in opened[p] : /\ x.frame.from = q /\ x.frame.version = v
                                               /\ x.life = installs[p][v]}}

Remembers(p) ==
    \A v \in Kept(p) :
      /\ DOMAIN recv[p][v] \subseteq Roster[v] \ {p}
      /\ \A q \in Peers : Reflects(Entry(p, v, q), Indices(p, v, q))

\* No frame was opened in an installation still to come.
OpenedBefore(p) == \A x \in opened[p] : x.life <= installs[p][x.frame.version]

\* A frame of the present installation is below its counter.
Counted(f) ==
    /\ f.life <= installs[f.from][f.version]
    /\ f.version \in Kept(f.from) /\ f.life = installs[f.from][f.version] =>
         f.index < counter[f.from][f.version]

IInv ==
    /\ Typed
    /\ \A p \in Peers : Queued(p) /\ Ratcheted(p) /\ Remembers(p) /\ OpenedBefore(p)
    /\ \A f \in frames : Counted(f)
    /\ IndexUnique

\* The maps of one participant.
LEMMA Maps ==
    ASSUME Typed, NEW p \in Peers
    PROVE  /\ Kept(p) \subseteq Versions /\ counter[p] \in [Kept(p) -> 0..MaxCounter]
           /\ epoch[p] \in [DOMAIN epoch[p] -> Nat]
           /\ recv[p] \in [DOMAIN recv[p] -> Partial(Peers, State)]
<1>1. /\ counter[p] \in Partial(Versions, 0..MaxCounter) /\ epoch[p] \in Partial(Versions, Nat)
      /\ recv[p] \in Partial(Versions, Partial(Peers, State))
  BY DEF Typed
<1> QED
  BY <1>1, PartialElim, Zenon DEF Kept

\* A receive entry, stored or not yet, is a Replay state.
LEMMA EntryType ==
    ASSUME Typed, NEW p \in Peers, NEW v \in DOMAIN recv[p], NEW q
    PROVE  Entry(p, v, q) \in State
<1>1. recv[p][v] \in Partial(Peers, State)
  BY Maps
<1>2. recv[p][v] \in [DOMAIN recv[p][v] -> State]
  BY <1>1, PartialElim
<1>3. Fresh \in State
  BY FreshReflects DEF Reflects
<1> QED
  BY <1>2, <1>3 DEF Entry

\* unprotect writes one receive entry.
LEMMA SetEntryFacts ==
    ASSUME Typed, NEW p \in Peers, NEW v \in DOMAIN recv[p], NEW q \in Peers,
           NEW r \in State, SetEntry(p, v, q, r)
    PROVE  /\ recv' \in [Peers -> Partial(Versions, Partial(Peers, State))]
           /\ DOMAIN recv'[p] = DOMAIN recv[p]
           /\ DOMAIN recv'[p][v] = DOMAIN recv[p][v] \cup {q}
           /\ \A w \in Peers \ {p} : recv'[w] = recv[w]
           /\ \A u \in DOMAIN recv[p] \ {v} : recv'[p][u] = recv[p][u]
           /\ \A x \in Peers : Entry(p, v, x)' = IF x = q THEN r ELSE Entry(p, v, x)
           /\ \A u \in DOMAIN recv[p] \ {v} : \A x \in Peers : Entry(p, u, x)' = Entry(p, u, x)
<1> DEFINE D == DOMAIN recv[p][v] \cup {q}
           g == [x \in D |-> IF x = q THEN r ELSE recv[p][v][x]]
           h == [recv[p] EXCEPT ![v] = g]
<1>1. /\ recv \in [Peers -> Partial(Versions, Partial(Peers, State))]
      /\ DOMAIN recv[p] \subseteq Versions
      /\ recv[p] \in [DOMAIN recv[p] -> Partial(Peers, State)]
      /\ DOMAIN recv[p][v] \subseteq Peers /\ recv[p][v] \in [DOMAIN recv[p][v] -> State]
  <2>1. recv[p] \in Partial(Versions, Partial(Peers, State))
    BY DEF Typed
  <2>2. DOMAIN recv[p] \subseteq Versions /\ recv[p] \in [DOMAIN recv[p] -> Partial(Peers, State)]
    BY <2>1, PartialElim
  <2>3. recv[p][v] \in Partial(Peers, State)
    BY <2>2
  <2> QED
    BY <2>2, <2>3, PartialElim DEF Typed
<1>2. recv' = [recv EXCEPT ![p] = h]
  BY DEF SetEntry
<1>3. g \in [D -> State] /\ D \subseteq Peers
  BY <1>1
<1>4. g \in Partial(Peers, State)
  BY <1>3, PartialIntro
<1> HIDE DEF g
<1>5. h \in [DOMAIN recv[p] -> Partial(Peers, State)]
  BY <1>1, <1>4
<1>6. h \in Partial(Versions, Partial(Peers, State))
  BY <1>1, <1>5, PartialIntro
<1>7. h[v] = g /\ \A u \in DOMAIN recv[p] \ {v} : h[u] = recv[p][u]
  BY <1>1
<1> HIDE DEF h
<1>8. recv' \in [Peers -> Partial(Versions, Partial(Peers, State))]
  BY <1>1, <1>2, <1>6
<1>9. recv'[p] = h /\ \A w \in Peers \ {p} : recv'[w] = recv[w]
  BY <1>1, <1>2
<1>10. DOMAIN g = D /\ \A x \in D : g[x] = IF x = q THEN r ELSE recv[p][v][x]
  BY DEF g
<1>11. \A x \in Peers : Entry(p, v, x)' = IF x = q THEN r ELSE Entry(p, v, x)
  BY <1>7, <1>9, <1>10 DEF Entry
<1>12. \A u \in DOMAIN recv[p] \ {v} : \A x \in Peers : Entry(p, u, x)' = Entry(p, u, x)
  BY <1>7, <1>9 DEF Entry
<1> QED
  BY <1>5, <1>7, <1>8, <1>9, <1>10, <1>11, <1>12

-----------------------------------------------------------------------------
(* Steps.                                                                     *)

\* The invariant holds of a protector that has no version.
LEMMA InitInv == Init => IInv
<1> SUFFICES ASSUME Init PROVE IInv
  OBVIOUS
<1>1. \A T, S : [x \in {} |-> 0] \in Partial(T, S) /\ [x \in {} |-> NoEntries] \in Partial(T, S)
  BY Zenon DEF Partial
<1>2. Typed
  <2>1. counter \in [Peers -> Partial(Versions, 0..MaxCounter)]
    BY <1>1 DEF Init
  <2>2. epoch \in [Peers -> Partial(Versions, Nat)]
    BY <1>1 DEF Init
  <2>3. recv \in [Peers -> Partial(Versions, Partial(Peers, State))]
    BY <1>1 DEF Init
  <2>4. installs \in [Peers -> [Versions -> 0..MaxInstalls]]
    BY ProtectorAssumption DEF Init
  <2>5. frames \subseteq Frame /\ IsFiniteSet(frames)
    BY FS_EmptySet DEF Init
  <2>6. /\ order \in [Peers -> Seq(Versions)] /\ current \in [Peers -> Versions \cup {None}]
        /\ opened \in [Peers -> SUBSET [frame : Frame, life : Nat]]
    BY DEF Init
  <2> QED
    BY <2>1, <2>2, <2>3, <2>4, <2>5, <2>6 DEF Typed
<1>3. ASSUME NEW p \in Peers PROVE Queued(p) /\ Ratcheted(p) /\ Remembers(p) /\ OpenedBefore(p)
  <2>1. /\ Kept(p) = {} /\ DOMAIN epoch[p] = {} /\ DOMAIN recv[p] = {}
        /\ order[p] = <<>> /\ current[p] = None /\ opened[p] = {}
    BY DEF Init, Kept
  <2>2. Members(<<>>) = {} /\ IsInjective(<<>>) /\ Len(<<>>) <= Retain
    BY ProtectorAssumption DEF Members, IsInjective
  <2> QED
    BY <2>1, <2>2 DEF Queued, Ratcheted, Remembers, OpenedBefore
<1>4. frames = {}
  BY DEF Init
<1> QED
  BY <1>2, <1>3, <1>4 DEF IInv, IndexUnique

\* What another participant remembers does not depend on p.
LEMMA Others ==
    ASSUME IInv, NEW q \in Peers,
           order'[q] = order[q], current'[q] = current[q], counter'[q] = counter[q],
           epoch'[q] = epoch[q], recv'[q] = recv[q], installs'[q] = installs[q],
           opened'[q] = opened[q]
    PROVE  Queued(q)' /\ Ratcheted(q)' /\ Remembers(q)' /\ OpenedBefore(q)'
<1>1. Kept(q)' = Kept(q)
  BY DEF Kept
<1>2. Queued(q)'
  BY <1>1 DEF IInv, Queued
<1>3. Ratcheted(q)'
  BY <1>1 DEF IInv, Ratcheted
<1>4. Remembers(q)'
  <2>1. \A v, x : Entry(q, v, x)' = Entry(q, v, x) /\ Indices(q, v, x)' = Indices(q, v, x)
    BY DEF Entry, Indices
  <2> QED
    BY <1>1, <2>1 DEF IInv, Remembers
<1>5. OpenedBefore(q)'
  BY DEF IInv, OpenedBefore
<1> QED
  BY <1>2, <1>3, <1>4, <1>5

\* install selects a version that is still kept.
LEMMA SelectInv ==
    ASSUME IInv, NEW p \in Peers, NEW v \in Versions, Install(p, v), v \in Kept(p)
    PROVE  IInv'
<1>1. /\ current' = [current EXCEPT ![p] = v] /\ order' = order /\ counter' = counter
      /\ epoch' = epoch /\ recv' = recv /\ installs' = installs /\ frames' = frames
      /\ opened' = opened
  BY DEF Install
<1>2. Typed'
  BY <1>1 DEF IInv, Typed
<1>3. current'[p] = v /\ \A q \in Peers \ {p} : current'[q] = current[q]
  BY <1>1 DEF IInv, Typed
<1>4. ASSUME NEW q \in Peers PROVE Queued(q)' /\ Ratcheted(q)' /\ Remembers(q)' /\ OpenedBefore(q)'
  <2>1. CASE q = p
    <3>1. Kept(p)' = Kept(p)
      BY <1>1 DEF Kept
    <3>2. Queued(p)'
      BY <1>1, <1>3, <3>1 DEF IInv, Queued
    <3>3. Ratcheted(p)' /\ OpenedBefore(p)'
      BY <1>1, <3>1 DEF IInv, Ratcheted, OpenedBefore
    <3>4. \A u, x : Entry(p, u, x)' = Entry(p, u, x) /\ Indices(p, u, x)' = Indices(p, u, x)
      BY <1>1 DEF Entry, Indices
    <3>5. Remembers(p)'
      BY <1>1, <3>1, <3>4 DEF IInv, Remembers
    <3> QED
      BY <2>1, <3>2, <3>3, <3>5
  <2>2. CASE q # p
    BY <1>1, <1>3, <2>2, Others
  <2> QED
    BY <2>1, <2>2
<1>5. \A f \in frames' : Counted(f)'
  BY <1>1 DEF IInv, Counted, Kept
<1>6. IndexUnique'
  BY <1>1 DEF IInv, IndexUnique
<1> QED
  BY <1>2, <1>4, <1>5, <1>6 DEF IInv

\* install of a version that is not kept: it starts afresh, under a new life,
\* and the oldest version may go.
LEMMA InstallInv ==
    ASSUME IInv, NEW p \in Peers, NEW v \in Versions, Install(p, v), v \notin Kept(p)
    PROVE  IInv'
<1> DEFINE queue == Append(order[p], v)
           rest == IF Len(queue) > Retain THEN Tail(queue) ELSE queue
           kept == Members(rest)
           c == Put(counter[p], v, 0, kept)
           e == Put(epoch[p], v, 0, kept)
           r == Put(recv[p], v, NoEntries, kept)
<1>1. /\ current' = [current EXCEPT ![p] = v] /\ installs[p][v] < MaxInstalls
      /\ order' = [order EXCEPT ![p] = rest] /\ counter' = [counter EXCEPT ![p] = c]
      /\ epoch' = [epoch EXCEPT ![p] = e] /\ recv' = [recv EXCEPT ![p] = r]
      /\ installs' = [installs EXCEPT ![p][v] = @ + 1]
      /\ frames' = frames /\ opened' = opened
  BY Zenon DEF Install, Members
<1>2. Typed /\ Queued(p) /\ Ratcheted(p) /\ Remembers(p) /\ OpenedBefore(p)
  BY DEF IInv
<1>3. /\ Kept(p) \subseteq Versions /\ counter[p] \in [Kept(p) -> 0..MaxCounter]
      /\ epoch[p] \in [Kept(p) -> Nat] /\ recv[p] \in [Kept(p) -> Partial(Peers, State)]
  BY <1>2, Maps DEF Queued
<1>4. /\ rest \in Seq(Versions) /\ IsInjective(rest) /\ Len(rest) <= Retain
      /\ v \in kept /\ kept \subseteq Kept(p) \cup {v}
  <2>1. /\ order[p] \in Seq(Versions) /\ IsInjective(order[p]) /\ Len(order[p]) <= Retain
        /\ Members(order[p]) = Kept(p)
    BY <1>2 DEF Typed, Queued
  <2> QED
    BY <2>1, QueueStep, Zenon
<1> HIDE DEF queue, rest, kept
<1>5. NoEntries \in Partial(Peers, State) /\ DOMAIN NoEntries = {}
  BY DEF Partial, NoEntries
<1>6. /\ kept \subseteq Versions
      /\ c \in [kept -> 0..MaxCounter] /\ e \in [kept -> Nat]
      /\ r \in [kept -> Partial(Peers, State)]
  <2>1. kept \subseteq Versions /\ \A u \in kept : u = v \/ u \in Kept(p)
    BY <1>3, <1>4
  <2>2. c \in [kept -> 0..MaxCounter]
    BY <1>3, <2>1, ProtectorAssumption DEF Put
  <2>3. e \in [kept -> Nat]
    BY <1>3, <2>1 DEF Put
  <2>4. r \in [kept -> Partial(Peers, State)]
    BY <1>3, <1>5, <2>1 DEF Put
  <2> QED
    BY <2>1, <2>2, <2>3, <2>4
<1>7. /\ c[v] = 0 /\ e[v] = 0 /\ r[v] = NoEntries
      /\ \A u \in kept \ {v} : /\ u \in Kept(p) /\ c[u] = counter[p][u]
                               /\ e[u] = epoch[p][u] /\ r[u] = recv[p][u]
  BY <1>4 DEF Put
<1> HIDE DEF c, e, r
<1>8. /\ order'[p] = rest /\ current'[p] = v /\ counter'[p] = c /\ epoch'[p] = e /\ recv'[p] = r
      /\ \A q \in Peers \ {p} : /\ order'[q] = order[q] /\ current'[q] = current[q]
                                /\ counter'[q] = counter[q] /\ epoch'[q] = epoch[q]
                                /\ recv'[q] = recv[q] /\ installs'[q] = installs[q]
  BY <1>1, <1>2 DEF Typed
<1>9. /\ installs[p][v] \in Nat /\ installs'[p][v] = installs[p][v] + 1
      /\ \A u \in Versions \ {v} : installs'[p][u] = installs[p][u]
      /\ \A q \in Peers, u \in Versions : installs[q][u] \in Nat /\ installs[q][u] <= installs'[q][u]
  BY <1>1, <1>2, ProtectorAssumption DEF Typed
<1>10. Kept(p)' = kept
  BY <1>6, <1>8 DEF Kept
<1>11. Typed'
  <2>1. /\ c \in Partial(Versions, 0..MaxCounter) /\ e \in Partial(Versions, Nat)
        /\ r \in Partial(Versions, Partial(Peers, State))
    BY <1>6, PartialIntro, Zenon
  <2>2. installs' \in [Peers -> [Versions -> 0..MaxInstalls]]
    BY <1>1, <1>2, <1>9, ProtectorAssumption DEF Typed
  <2>3. /\ order' \in [Peers -> Seq(Versions)] /\ current' \in [Peers -> Versions \cup {None}]
    BY <1>1, <1>2, <1>4 DEF Typed
  <2>4. /\ counter' \in [Peers -> Partial(Versions, 0..MaxCounter)]
        /\ epoch' \in [Peers -> Partial(Versions, Nat)]
        /\ recv' \in [Peers -> Partial(Versions, Partial(Peers, State))]
    BY <1>1, <1>2, <2>1 DEF Typed
  <2> QED
    BY <1>1, <1>2, <2>2, <2>3, <2>4 DEF Typed
<1>12. Queued(p)'
  <2>1. \A u \in kept : installs'[p][u] >= 1
    <3>1. \A u \in kept \ {v} : installs[p][u] >= 1 /\ u \in Versions
      BY <1>2, <1>3, <1>7, Zenon DEF Queued
    <3> QED
      BY <3>1, <1>9, SMTT(30), Zenon
  <2>2. kept # {}
    BY <1>4, SMTT(30), Zenon
  <2> QED
    BY <1>4, <1>6, <1>8, <1>10, <2>1, <2>2 DEF Queued, kept
<1>13. Ratcheted(p)'
  BY <1>2, <1>7, <1>8, <1>10, EpochZero, SMTT(30), Zenon DEF Ratcheted
<1>14. Remembers(p)'
  <2> SUFFICES ASSUME NEW u \in kept
               PROVE  /\ DOMAIN recv'[p][u] \subseteq Roster[u] \ {p}
                      /\ \A q \in Peers : Reflects(Entry(p, u, q)', Indices(p, u, q)')
    BY <1>10 DEF Remembers
  <2>1. CASE u = v
    <3>1. recv'[p][u] = NoEntries
      BY <2>1, <1>7, <1>8
    <3>2. ASSUME NEW q \in Peers PROVE Indices(p, u, q)' = {}
      <4>1. ASSUME NEW x \in opened[p], x.frame.version = v PROVE x.life # installs'[p][v]
        <5>1. x.life \in Nat /\ x.life <= installs[p][v]
          BY <4>1, <1>2 DEF Typed, OpenedBefore
        <5> QED
          BY <5>1, <1>9
      <4> QED
        BY <4>1, <2>1, <1>1 DEF Indices
    <3>3. \A q \in Peers : Entry(p, u, q)' = Fresh
      BY <3>1, <1>5 DEF Entry
    <3> QED
      BY <3>1, <3>2, <3>3, <1>5, FreshReflects, Zenon
  <2>2. CASE u # v
    <3>1. /\ u \in Kept(p) /\ recv'[p][u] = recv[p][u] /\ installs'[p][u] = installs[p][u]
      BY <2>2, <1>3, <1>7, <1>8, <1>9, Zenon
    <3>2. \A q \in Peers : Entry(p, u, q)' = Entry(p, u, q) /\ Indices(p, u, q)' = Indices(p, u, q)
      BY <3>1, <1>1 DEF Entry, Indices
    <3> QED
      BY <3>1, <3>2, <1>2, Zenon DEF Remembers
  <2> QED
    BY <2>1, <2>2
<1>15. OpenedBefore(p)'
  <2> SUFFICES ASSUME NEW x \in opened[p] PROVE x.life <= installs'[p][x.frame.version]
    BY <1>1 DEF OpenedBefore
  <2>1. x.life \in Nat /\ x.frame.version \in Versions /\ x.life <= installs[p][x.frame.version]
    BY <1>2 DEF Typed, Frame, OpenedBefore
  <2>2. /\ installs[p][x.frame.version] \in Nat /\ installs'[p][x.frame.version] \in Nat
        /\ installs[p][x.frame.version] <= installs'[p][x.frame.version]
    BY <2>1, <1>9, <1>11, ProtectorAssumption DEF Typed
  <2> QED
    BY <2>1, <2>2
<1>16. \A q \in Peers : Queued(q)' /\ Ratcheted(q)' /\ Remembers(q)' /\ OpenedBefore(q)'
  BY <1>1, <1>8, <1>12, <1>13, <1>14, <1>15, Others
<1>17. ASSUME NEW f \in frames PROVE Counted(f)'
  <2>1. f.from \in Peers /\ f.version \in Versions /\ f.life \in Nat
    BY <1>2, ProtectorAssumption DEF Typed, Frame
  <2>2. Counted(f)
    BY DEF IInv
  <2>3. CASE f.from # p
    BY <2>1, <2>2, <2>3, <1>8 DEF Counted, Kept
  <2>4. CASE f.from = p /\ f.version = v
    <3>1. f.life < installs'[p][v]
      BY <2>1, <2>2, <2>4, <1>9 DEF Counted
    <3>2. f.life <= installs'[p][v] /\ f.life # installs'[p][v]
      BY <3>1, <2>1, <1>9
    <3> QED
      BY <2>4, <3>2 DEF Counted
  <2>5. CASE f.from = p /\ f.version # v
    <3>1. installs'[p][f.version] = installs[p][f.version]
      BY <2>1, <2>5, <1>9, SMTT(30), Zenon
    <3>2. f.version \in Kept(p)' => f.version \in Kept(p) /\ counter'[p][f.version] = counter[p][f.version]
      BY <2>5, <1>7, <1>8, <1>10
    <3> QED
      BY <2>2, <2>5, <3>1, <3>2 DEF Counted
  <2> QED
    BY <2>3, <2>4, <2>5
<1>18. IndexUnique'
  BY <1>1 DEF IInv, IndexUnique
<1> QED
  BY <1>1, <1>11, <1>16, <1>17, <1>18 DEF IInv

\* protect keeps the invariant.
LEMMA ProtectInv ==
    ASSUME IInv, NEW p \in Peers, Protect(p)
    PROVE  IInv'
<1> DEFINE v == current[p]
           index == counter[p][v]
<1>19. PICK x : x = [from |-> p, version |-> v, life |-> installs[p][v],
                     index |-> index, body |-> Sent(p) + 1]
  BY Zenon
<1>1. /\ v # None /\ index < MaxCounter
      /\ counter' = [counter EXCEPT ![p][v] = @ + 1]
      /\ epoch' = [epoch EXCEPT ![p][v] = EpochOf(index)]
      /\ frames' = frames \cup {x}
      /\ order' = order /\ current' = current /\ recv' = recv /\ installs' = installs
      /\ opened' = opened
  BY <1>19 DEF Protect
<1>2. Typed /\ Queued(p) /\ Ratcheted(p) /\ Remembers(p) /\ OpenedBefore(p)
  BY DEF IInv
<1>3. /\ v \in Kept(p) /\ Kept(p) \subseteq Versions
      /\ counter[p] \in [Kept(p) -> 0..MaxCounter] /\ epoch[p] \in [Kept(p) -> Nat]
  BY <1>1, <1>2, Maps, SMTT(30), Zenon DEF Queued
<1>4. /\ v \in Versions /\ index \in 0..MaxCounter /\ index \in Nat
      /\ installs[p][v] \in 1..MaxInstalls /\ EpochOf(index) \in Nat
      /\ MaxCounter \in Nat /\ MaxInstalls \in Nat
  BY <1>2, <1>3, EpochNat, ProtectorAssumption DEF Typed, Queued
<1>5. Sent(p) \in Nat
  <2>1. {f \in frames : f.from = p} \in SUBSET frames
    OBVIOUS
  <2>2. IsFiniteSet({f \in frames : f.from = p})
    BY <1>2, <2>1, FS_Subset DEF Typed
  <2> QED
    BY <2>2, FS_CardinalityType DEF Sent
<1>6. /\ x \in Frame /\ x.from = p /\ x.version = v /\ x.life = installs[p][v]
      /\ x.index = index
  BY <1>4, <1>5, <1>19 DEF Frame
<1> HIDE DEF v, index
<1> DEFINE c == [counter[p] EXCEPT ![v] = @ + 1]
           e == [epoch[p] EXCEPT ![v] = EpochOf(index)]
<1>7. counter' = [counter EXCEPT ![p] = c] /\ epoch' = [epoch EXCEPT ![p] = e]
  BY <1>1
<1>8. /\ c \in [Kept(p) -> 0..MaxCounter] /\ e \in [Kept(p) -> Nat]
      /\ c[v] = index + 1 /\ e[v] = EpochOf(index)
      /\ \A u \in Kept(p) \ {v} : c[u] = counter[p][u] /\ e[u] = epoch[p][u]
  <2>1. index + 1 \in 0..MaxCounter
    BY <1>1, <1>4, SMTT(30), Zenon
  <2> QED
    BY <1>3, <1>4, <2>1 DEF index
<1> HIDE DEF c, e
<1>9. Typed'
  <2>1. c \in Partial(Versions, 0..MaxCounter) /\ e \in Partial(Versions, Nat)
    BY <1>3, <1>8, PartialIntro, Zenon
  <2>2. /\ counter' \in [Peers -> Partial(Versions, 0..MaxCounter)]
        /\ epoch' \in [Peers -> Partial(Versions, Nat)]
    BY <1>2, <1>7, <2>1 DEF Typed
  <2>3. frames' \subseteq Frame /\ IsFiniteSet(frames')
    BY <1>1, <1>2, <1>6, FS_AddElement, Zenon DEF Typed
  <2> QED
    BY <1>1, <1>2, <2>2, <2>3 DEF Typed
<1>10. /\ counter'[p] = c /\ epoch'[p] = e
       /\ \A q \in Peers \ {p} : counter'[q] = counter[q] /\ epoch'[q] = epoch[q]
  BY <1>2, <1>7 DEF Typed
<1>11. Kept(p)' = Kept(p)
  BY <1>8, <1>10 DEF Kept
<1>12. Queued(p)' /\ OpenedBefore(p)'
  BY <1>1, <1>2, <1>8, <1>10, <1>11 DEF Queued, OpenedBefore
<1>13. Ratcheted(p)'
  <2> SUFFICES ASSUME NEW u \in Kept(p)
               PROVE  e[u] = EpochOf(IF c[u] = 0 THEN 0 ELSE c[u] - 1)
    BY <1>10, <1>11 DEF Ratcheted
  <2>2. CASE u = v
    <3>1. c[u] = index + 1 /\ e[u] = EpochOf(index)
      BY <1>8, <2>2
    <3>2. (IF c[u] = 0 THEN 0 ELSE c[u] - 1) = index
      BY <1>4, <3>1
    <3> QED
      BY <3>1, <3>2
  <2>3. CASE u # v
    BY <1>2, <1>8, <2>3 DEF Ratcheted
  <2> QED
    BY <2>2, <2>3
<1>14. Remembers(p)'
  <2>1. \A u, q : Entry(p, u, q)' = Entry(p, u, q) /\ Indices(p, u, q)' = Indices(p, u, q)
    BY <1>1 DEF Entry, Indices
  <2> QED
    BY <1>1, <1>2, <1>11, <2>1 DEF Remembers
<1>15. \A q \in Peers : Queued(q)' /\ Ratcheted(q)' /\ Remembers(q)' /\ OpenedBefore(q)'
  BY <1>1, <1>10, <1>12, <1>13, <1>14, Others
<1>16. ASSUME NEW f \in frames PROVE Counted(f)'
  <2>1. /\ f.from \in Peers /\ f.version \in Versions /\ f.index \in Nat
    BY <1>2, ProtectorAssumption DEF Typed, Frame
  <2>2. Counted(f)
    BY DEF IInv
  <2>3. CASE f.from # p
    BY <2>1, <2>2, <2>3, <1>1, <1>10 DEF Counted, Kept
  <2>4. CASE f.from = p /\ f.version # v
    <3>1. f.version \in Kept(p) => counter'[p][f.version] = counter[p][f.version]
      BY <2>4, <1>8, <1>10
    <3> QED
      BY <2>2, <2>4, <3>1, <1>1, <1>11, SMTT(30), Zenon DEF Counted
  <2>5. CASE f.from = p /\ f.version = v
    <3>1. counter'[p][v] = index + 1 /\ counter[p][v] = index
      BY <1>8, <1>10 DEF index
    <3>2. f.index < index => f.index < index + 1
      BY <2>1, <1>4
    <3> QED
      BY <2>2, <2>5, <3>1, <3>2, <1>1, <1>11 DEF Counted
  <2> QED
    BY <2>3, <2>4, <2>5
<1>17. Counted(x)'
  <2>1. counter'[p][v] = index + 1 /\ index < index + 1 /\ installs[p][v] <= installs[p][v]
    BY <1>4, <1>8, <1>10
  <2> QED
    BY <2>1, <1>1, <1>6 DEF Counted
<1>18. IndexUnique'
  <2>1. ASSUME NEW f \in frames, f.from = p, f.version = v, f.life = installs[p][v], f.index = index
        PROVE  FALSE
    <3>1. f.index < counter[p][v]
      BY <2>1, <1>3 DEF IInv, Counted
    <3> QED
      BY <2>1, <3>1, <1>4 DEF index
  <2>2. ASSUME NEW f \in frames', NEW g \in frames',
               f.from = g.from, f.version = g.version, f.life = g.life, f.index = g.index
        PROVE  f = g
    <3>1. CASE f \in frames /\ g \in frames
      BY <2>2, <3>1 DEF IInv, IndexUnique
    <3>2. CASE f = x \/ g = x
      BY <2>1, <2>2, <3>2, <1>1, <1>6
    <3> QED
      BY <3>1, <3>2, <1>1
  <2> QED
    BY <2>2 DEF IndexUnique
<1> QED
  BY <1>1, <1>9, <1>15, <1>16, <1>17, <1>18 DEF IInv

\* unprotect of a frame it accepts keeps the invariant.
LEMMA UnprotectInv ==
    ASSUME IInv, NEW p \in Peers, NEW f \in frames, Unprotect(p, f)
    PROVE  IInv'
<1> DEFINE v == f.version
           q == f.from
           old == Entry(p, v, q)
           new == Record(old, f.index)
           x == [frame |-> f, life |-> installs[p][v]]
<1>1. /\ Addressed(p, v, q) /\ Accepts(old, f.index) /\ SetEntry(p, v, q, new)
      /\ opened' = [opened EXCEPT ![p] = @ \cup {x}]
      /\ order' = order /\ current' = current /\ counter' = counter /\ epoch' = epoch
      /\ installs' = installs /\ frames' = frames
  BY DEF Unprotect, Opens
<1>2. Typed /\ Queued(p) /\ Ratcheted(p) /\ Remembers(p) /\ OpenedBefore(p)
  BY Zenon DEF IInv
<1>3. /\ f \in Frame /\ q \in Peers /\ v \in Versions /\ f.index \in Nat /\ v \in Kept(p)
      /\ q \in Roster[v] /\ q # p /\ installs[p][v] \in Nat /\ v \in DOMAIN recv[p]
  <2>1. v \in Kept(p) /\ q \in Roster[v] /\ q # p
    BY <1>1, Zenon DEF Addressed
  <2>2. f \in Frame /\ v \in DOMAIN recv[p]
    BY <1>2, <2>1, Zenon DEF Typed, Queued
  <2>3. q \in Peers /\ v \in Versions /\ f.index \in 0..MaxCounter
    BY <2>2, Zenon DEF Frame
  <2>4. installs \in [Peers -> [Versions -> 0..MaxInstalls]]
    BY <1>2, Zenon DEF Typed
  <2> HIDE DEF v, q
  <2>5. installs[p][v] \in 0..MaxInstalls
    BY <2>3, <2>4, Zenon
  <2> QED
    BY <2>1, <2>2, <2>3, <2>5, ProtectorAssumption, SMTT(30), Zenon
<1>4. /\ x.frame = f /\ x.life = installs[p][v] /\ x \in [frame : Frame, life : Nat]
  BY <1>3
<1>5. Reflects(old, Indices(p, v, q))
  BY <1>2, <1>3, Zenon DEF Remembers
<1> HIDE DEF v, q, old, new, x
<1>6. Reflects(new, Indices(p, v, q) \cup {f.index})
  BY <1>1, <1>3, <1>5, RecordReflects, Zenon DEF new
<1>7. /\ recv' \in [Peers -> Partial(Versions, Partial(Peers, State))]
      /\ DOMAIN recv'[p] = DOMAIN recv[p]
      /\ DOMAIN recv'[p][v] = DOMAIN recv[p][v] \cup {q}
      /\ \A w \in Peers \ {p} : recv'[w] = recv[w]
      /\ \A u \in DOMAIN recv[p] \ {v} : recv'[p][u] = recv[p][u]
      /\ \A y \in Peers : Entry(p, v, y)' = IF y = q THEN new ELSE Entry(p, v, y)
      /\ \A u \in DOMAIN recv[p] \ {v} : \A y \in Peers : Entry(p, u, y)' = Entry(p, u, y)
  <2>1. new \in State
    BY <1>6 DEF Reflects
  <2> QED
    BY <2>1, <1>1, <1>2, <1>3, SetEntryFacts, Zenon
<1>8. opened'[p] = opened[p] \cup {x} /\ \A w \in Peers \ {p} : opened'[w] = opened[w]
  BY <1>1, <1>2 DEF Typed
<1>9. Typed'
  <2>1. opened' \in [Peers -> SUBSET [frame : Frame, life : Nat]]
    BY <1>1, <1>2, <1>4 DEF Typed
  <2> QED
    BY <1>1, <1>2, <1>7, <2>1 DEF Typed
<1>10. Kept(p)' = Kept(p)
  BY <1>1, Zenon DEF Kept
<1>11. Queued(p)' /\ Ratcheted(p)'
  BY <1>1, <1>2, <1>7, <1>10, ZenonT(30) DEF Queued, Ratcheted
<1>12. OpenedBefore(p)'
  <2>1. installs[p][v] <= installs[p][v]
    BY <1>3, SMTT(30), Zenon
  <2> QED
    BY <2>1, <1>1, <1>2, <1>4, <1>8, ZenonT(30) DEF OpenedBefore, v
<1>13. Indices(p, v, q)' = Indices(p, v, q) \cup {f.index}
  BY <1>1, <1>4, <1>8, ZenonT(30) DEF Indices, v, q
<1>14. \A u, y : u # v \/ y # q => Indices(p, u, y)' = Indices(p, u, y)
  BY <1>1, <1>4, <1>8 DEF Indices, v, q
<1>15. Remembers(p)'
  <2> SUFFICES ASSUME NEW u \in Kept(p)
               PROVE  /\ DOMAIN recv'[p][u] \subseteq Roster[u] \ {p}
                      /\ \A y \in Peers : Reflects(Entry(p, u, y)', Indices(p, u, y)')
    BY <1>10 DEF Remembers
  <2>1. u \in DOMAIN recv[p] /\ DOMAIN recv[p][u] \subseteq Roster[u] \ {p}
        /\ \A y \in Peers : Reflects(Entry(p, u, y), Indices(p, u, y))
    BY <1>2, Zenon DEF Queued, Remembers
  <2>2. CASE u = v
    BY <2>1, <2>2, <1>3, <1>6, <1>7, <1>13, <1>14, ZenonT(30)
  <2>3. CASE u # v
    BY <2>1, <2>3, <1>7, <1>14
  <2> QED
    BY <2>2, <2>3
<1>16. \A w \in Peers : Queued(w)' /\ Ratcheted(w)' /\ Remembers(w)' /\ OpenedBefore(w)'
  BY <1>1, <1>7, <1>8, <1>11, <1>12, <1>15, Others, ZenonT(30)
<1>17. \A g \in frames' : Counted(g)'
  BY <1>1, Zenon DEF IInv, Counted, Kept
<1>18. IndexUnique'
  BY <1>1 DEF IInv, IndexUnique
<1> QED
  BY <1>9, <1>16, <1>17, <1>18, SMTT(30), Zenon DEF IInv

\* unprotect refuses a frame: the entry that is made says nothing new.
LEMMA RefuseInv ==
    ASSUME IInv, NEW p \in Peers, NEW f \in frames, Refuse(p, f)
    PROVE  IInv'
<1> DEFINE v == f.version
           q == f.from
           old == Entry(p, v, q)
<1>1. /\ Addressed(p, v, q) /\ SetEntry(p, v, q, old)
      /\ order' = order /\ current' = current /\ counter' = counter /\ epoch' = epoch
      /\ installs' = installs /\ frames' = frames /\ opened' = opened
  BY Zenon DEF Refuse
<1>2. Typed /\ Queued(p) /\ Ratcheted(p) /\ Remembers(p) /\ OpenedBefore(p)
  BY DEF IInv
<1>3. /\ q \in Peers /\ v \in Kept(p) /\ q \in Roster[v] /\ q # p /\ v \in DOMAIN recv[p]
      /\ old \in State
  BY <1>1, <1>2, EntryType, ZenonT(30) DEF Typed, Frame, Addressed, Queued
<1> HIDE DEF v, q
<1>4. /\ recv' \in [Peers -> Partial(Versions, Partial(Peers, State))]
      /\ DOMAIN recv'[p] = DOMAIN recv[p]
      /\ DOMAIN recv'[p][v] = DOMAIN recv[p][v] \cup {q}
      /\ \A w \in Peers \ {p} : recv'[w] = recv[w]
      /\ \A u \in DOMAIN recv[p] \ {v} : recv'[p][u] = recv[p][u]
      /\ \A y \in Peers : Entry(p, v, y)' = IF y = q THEN old ELSE Entry(p, v, y)
      /\ \A u \in DOMAIN recv[p] \ {v} : \A y \in Peers : Entry(p, u, y)' = Entry(p, u, y)
  BY <1>1, <1>2, <1>3, SetEntryFacts, ZenonT(30)
<1>5. Kept(p)' = Kept(p)
  BY <1>1, Zenon DEF Kept
<1>6. \A u \in DOMAIN recv[p] : \A y \in Peers :
         Entry(p, u, y)' = Entry(p, u, y) /\ Indices(p, u, y)' = Indices(p, u, y)
  <2>1. \A u, y : Indices(p, u, y)' = Indices(p, u, y)
    BY <1>1, ZenonT(30) DEF Indices
  <2> QED
    BY <1>4, <2>1, Zenon
<1>7. Typed'
  BY <1>1, <1>2, <1>4, Zenon DEF Typed
<1>8. Queued(p)' /\ Ratcheted(p)' /\ OpenedBefore(p)'
  BY <1>1, <1>2, <1>4, <1>5, ZenonT(30) DEF Queued, Ratcheted, OpenedBefore
<1>9. Remembers(p)'
  <2>1. \A u \in Kept(p) : u \in DOMAIN recv[p] /\ DOMAIN recv'[p][u] \subseteq Roster[u] \ {p}
    BY <1>2, <1>3, <1>4, ZenonT(30) DEF Queued, Remembers
  <2>2. ASSUME NEW u \in Kept(p), NEW y \in Peers
        PROVE  Reflects(Entry(p, u, y), Indices(p, u, y))'
    <3>1. Entry(p, u, y)' = Entry(p, u, y) /\ Indices(p, u, y)' = Indices(p, u, y)
      BY <1>6, <2>1, Zenon
    <3>2. Reflects(Entry(p, u, y), Indices(p, u, y))
      BY <1>2, Zenon DEF Remembers
    <3> QED
      BY <3>1, <3>2, Zenon DEF Reflects
  <2> QED
    BY <1>5, <2>1, <2>2, ZenonT(30) DEF Remembers
<1>10. \A w \in Peers : Queued(w)' /\ Ratcheted(w)' /\ Remembers(w)' /\ OpenedBefore(w)'
  BY <1>1, <1>4, <1>8, <1>9, Others, ZenonT(30)
<1>11. \A g \in frames' : Counted(g)'
  BY <1>1, Zenon DEF IInv, Counted, Kept
<1>12. IndexUnique'
  BY <1>1 DEF IInv, IndexUnique
<1> QED
  BY <1>7, <1>10, <1>11, <1>12 DEF IInv

\* A step that changes nothing keeps it.
LEMMA StutterInv ==
    ASSUME IInv, UNCHANGED vars
    PROVE  IInv'
<1>1. /\ order' = order /\ current' = current /\ counter' = counter /\ epoch' = epoch
      /\ recv' = recv /\ installs' = installs /\ frames' = frames /\ opened' = opened
  BY DEF vars
<1>2. Typed'
  BY <1>1 DEF IInv, Typed
<1>3. \A w \in Peers : Queued(w)' /\ Ratcheted(w)' /\ Remembers(w)' /\ OpenedBefore(w)'
  BY <1>1, Others, Zenon
<1>4. \A g \in frames' : Counted(g)'
  BY <1>1 DEF IInv, Counted, Kept
<1>5. IndexUnique'
  BY <1>1 DEF IInv, IndexUnique
<1> QED
  BY <1>2, <1>3, <1>4, <1>5 DEF IInv

-----------------------------------------------------------------------------
\* The invariant holds in every state: each receive entry is what is left of
\* the frames opened in the present installation of its version.
THEOREM Invariance == Spec => []IInv
<1>1. IInv /\ [Next]_vars => IInv'
  <2> SUFFICES ASSUME IInv, [Next]_vars PROVE IInv'
    OBVIOUS
  <2>1. ASSUME NEW p \in Peers, Protect(p) PROVE IInv'
    BY <2>1, ProtectInv
  <2>2. ASSUME NEW p \in Peers, NEW v \in Versions, RefreshMedia(p, v) PROVE IInv'
    BY <2>2, SelectInv, InstallInv DEF RefreshMedia
  <2>3. ASSUME NEW p \in Peers, NEW f \in frames, Unprotect(p, f) PROVE IInv'
    BY <2>3, UnprotectInv
  <2>4. ASSUME NEW p \in Peers, NEW f \in frames, Refuse(p, f) PROVE IInv'
    BY <2>4, RefuseInv
  <2>5. CASE UNCHANGED vars
    BY <2>5, StutterInv
  <2> QED
    BY <2>1, <2>2, <2>3, <2>4, <2>5 DEF Next
<1> QED
  BY InitInv, <1>1, PTL DEF Spec

\* The fields of Protector keep their types.
THEOREM TypeCorrect == Spec => []TypeOK
<1>1. IInv => TypeOK
  <2> SUFFICES ASSUME IInv PROVE TypeOK
    OBVIOUS
  <2>1. Typed
    BY DEF IInv
  <2>2. ASSUME NEW p \in Peers
        PROVE  /\ counter[p] \in [Kept(p) -> 0..MaxCounter] /\ epoch[p] \in [Kept(p) -> Nat]
               /\ DOMAIN recv[p] = Kept(p) /\ Kept(p) \subseteq Versions
               /\ \A v \in Kept(p) : recv[p][v] \in [DOMAIN recv[p][v] -> State]
    <3>1. /\ Kept(p) \subseteq Versions /\ counter[p] \in [Kept(p) -> 0..MaxCounter]
          /\ epoch[p] \in [Kept(p) -> Nat] /\ DOMAIN recv[p] = Kept(p)
          /\ recv[p] \in [Kept(p) -> Partial(Peers, State)]
      BY <2>1, Maps, Zenon DEF IInv, Queued
    <3>2. \A v \in Kept(p) : recv[p][v] \in Partial(Peers, State)
      BY <3>1
    <3> QED
      BY <3>1, <3>2, PartialElim, Zenon
  <2> QED
    BY <2>1, <2>2 DEF Typed, TypeOK
<1> QED
  BY Invariance, <1>1, PTL

\* import_persistence_state accepts every state export_persistence_state writes.
THEOREM AlwaysImportable == Spec => []Importable
<1>1. IInv => Importable
  <2> SUFFICES ASSUME IInv, NEW p \in Peers PROVE Imports(p)
    BY DEF Importable
  <2>1. Typed /\ Queued(p) /\ Ratcheted(p) /\ Remembers(p)
    BY DEF IInv
  <2>2. ASSUME NEW v \in Kept(p) PROVE ImportsVersion(p, v)
    <3>1. recv[p][v] \in [DOMAIN recv[p][v] -> State] /\ DOMAIN recv[p][v] \subseteq Peers
      BY <2>1, Maps, PartialElim DEF Queued
    <3>2. DOMAIN recv[p][v] \subseteq Roster[v] \ {p}
      BY <2>1, Zenon DEF Remembers
    <3>3. ASSUME NEW q \in DOMAIN recv[p][v]
          PROVE  LET r == recv[p][v][q] IN
                 IF r.started THEN 0 \in r.seen /\ r.epoch = EpochOf(r.high)
                 ELSE r.high = 0 /\ r.seen = {}
      <4> DEFINE r == recv[p][v][q]
                 H == Indices(p, v, q)
      <4>1. Reflects(r, H)
        BY <2>1, <3>1 DEF Remembers, Entry
      <4> HIDE DEF r, H
      <4>2. r.started \in BOOLEAN /\ r.high \in Nat
        BY <4>1, Zenon DEF Reflects, State
      <4>3. CASE r.started
        <5>1. 0 \in 0..(WINDOW - 1) /\ r.high - 0 = r.high
          BY <4>2, ReplayAssumption, SMTT(30), Zenon
        <5> QED
          BY <4>1, <4>3, <5>1 DEF Reflects, r
      <4>4. CASE ~r.started
        BY <4>1, <4>4, Zenon DEF Reflects, r
      <4> QED
        BY <4>2, <4>3, <4>4, Zenon
    <3>4. ImportsReceivers(p, v)
      BY <3>2, <3>3, ZenonT(30) DEF ImportsReceivers
    <3> QED
      BY <2>1, <3>4 DEF ImportsVersion, Ratcheted
  <2>3. ImportsOrder(p)
    <3>1. order[p] \in Seq(Versions)
      BY <2>1 DEF Typed
    <3> QED
      BY <2>1, <3>1, MembersCount, Zenon DEF Queued, ImportsOrder, Members
  <2> QED
    BY <2>1, <2>2, <2>3 DEF Imports, Queued
<1> QED
  BY Invariance, <1>1, PTL

\* protect: within one installation of a version an index stands for one frame.
THEOREM IndicesUnique == Spec => []IndexUnique
<1>1. IInv => IndexUnique
  BY DEF IInv
<1> QED
  BY Invariance, <1>1, PTL

\* unprotect opens exactly what a receiver with a perfect memory would want.
THEOREM OpensWhatIsWanted == Spec => []OpensExactly
<1>1. IInv => OpensExactly
  <2> SUFFICES ASSUME IInv, NEW p \in Peers, NEW f \in frames,
                      Addressed(p, f.version, f.from)
               PROVE  Opens(p, f) <=> Wanted(Heard(p, f), f.index)
    BY DEF OpensExactly
  <2>1. f.from \in Peers /\ f.index \in Nat /\ f.version \in Kept(p)
    BY ProtectorAssumption, SMTT(30), Zenon DEF IInv, Typed, Frame, Addressed
  <2>2. Reflects(Entry(p, f.version, f.from), Indices(p, f.version, f.from))
    BY <2>1, Zenon DEF IInv, Remembers
  <2>3. Heard(p, f) = Indices(p, f.version, f.from)
    BY DEF Heard, Indices
  <2> QED
    BY <2>1, <2>2, <2>3, AcceptsWanted DEF Opens
<1> QED
  BY Invariance, <1>1, PTL
===============================================================================
