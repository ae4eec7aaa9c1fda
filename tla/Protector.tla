------------------------------ MODULE Protector -------------------------------
(* The media layer, crates/cfr-media/src/frame.rs: each participant keeps a   *)
(* few key versions, numbers the frames it protects within a version, and     *)
(* opens the frames of others through a Replay window and ratchet.            *)
(*                                                                            *)
(* A version stands for its group key and roster; frames are what protect     *)
(* returned, and the network delivers them in any order, repeatedly, damaged  *)
(* or not at all.  A frame carries the number of its installation, which the  *)
(* code does not have, to tell two lives of one version apart.                *)
EXTENDS Replay, Sequences, FiniteSets

CONSTANTS Peers,
          Versions,
          Roster,        \* Versions -> SUBSET Peers, the members of a version
          Retain,        \* key versions kept (MEDIA_OVERLAP)
          MaxCounter,    \* u64::MAX
          MaxFrames,     \* bound on protected frames, per participant
          MaxInstalls,   \* bound on installations of a version per participant
          None

ASSUME ProtectorAssumption ==
    /\ Roster \in [Versions -> SUBSET Peers]
    /\ Retain \in Nat \ {0} /\ MaxCounter \in Nat
    /\ MaxFrames \in [Peers -> Nat] /\ MaxInstalls \in Nat
    /\ None \notin Versions

VARIABLES order,      \* per peer, the versions kept, oldest first
          current,    \* per peer, the version used for sending
          counter,    \* per peer and version kept, the next frame index
          epoch,      \* per peer and version kept, the send ratchet's epoch
          recv,       \* per peer and version kept, Replay states by sender
          installs,   \* per peer and version, how often it was installed afresh
          frames,     \* frames protected
          opened      \* per peer, frames opened, with the installation that did

vars == <<order, current, counter, epoch, recv, installs, frames, opened>>

Frame == [from : Peers, version : Versions, life : 1..MaxInstalls,
          index : 0..MaxCounter, body : Nat]

NoEntries == [q \in {} |-> Fresh]
Kept(p) == DOMAIN counter[p]
Sent(p) == Cardinality({f \in frames : f.from = p})

Init ==
    /\ order = [p \in Peers |-> <<>>] /\ current = [p \in Peers |-> None]
    /\ counter = [p \in Peers |-> [v \in {} |-> 0]]
    /\ epoch = [p \in Peers |-> [v \in {} |-> 0]]
    /\ recv = [p \in Peers |-> [v \in {} |-> NoEntries]]
    /\ installs = [p \in Peers |-> [v \in Versions |-> 0]]
    /\ frames = {} /\ opened = [p \in Peers |-> {}]

\* f with v mapped to x, restricted to the versions of `kept`.
Put(f, v, x, kept) == [u \in kept |-> IF u = v THEN x ELSE f[u]]

\* Fault: a version that is selected again counts from zero.
InstallResets(p, v) ==
    /\ v \notin Kept(p) => Len(order[p]) < Retain /\ installs[p][v] < MaxInstalls
    /\ current' = [current EXCEPT ![p] = v]
    /\ LET kept == Kept(p) \cup {v}
       IN  /\ order' = IF v \in Kept(p) THEN order ELSE [order EXCEPT ![p] = Append(@, v)]
           /\ counter' = [counter EXCEPT ![p] = Put(@, v, 0, kept)]
           /\ epoch' = [epoch EXCEPT ![p] = Put(@, v, 0, kept)]
           /\ recv' = [recv EXCEPT ![p] = Put(@, v, NoEntries, kept)]
           /\ installs' = IF v \in Kept(p) THEN installs ELSE [installs EXCEPT ![p][v] = @ + 1]
    /\ UNCHANGED <<frames, opened>>

\* Protector::install: a version still kept is selected again as it is; a new
\* one starts afresh and may retire the oldest.
Install(p, v) ==
    /\ current' = [current EXCEPT ![p] = v]
    /\ IF v \in Kept(p)
       THEN UNCHANGED <<order, counter, epoch, recv, installs>>
       ELSE LET queue == Append(order[p], v)
                rest == IF Len(queue) > Retain THEN Tail(queue) ELSE queue
                kept == {rest[i] : i \in 1..Len(rest)}
            IN  /\ installs[p][v] < MaxInstalls
                /\ order' = [order EXCEPT ![p] = rest]
                /\ counter' = [counter EXCEPT ![p] = Put(@, v, 0, kept)]
                /\ epoch' = [epoch EXCEPT ![p] = Put(@, v, 0, kept)]
                /\ recv' = [recv EXCEPT ![p] = Put(@, v, NoEntries, kept)]
                /\ installs' = [installs EXCEPT ![p][v] = @ + 1]
    /\ UNCHANGED <<frames, opened>>

\* Conference::refresh_media, when the participant can derive the key of its
\* version: handle, protect, open and the membership operations all end or
\* begin with it.
RefreshMedia(p, v) == current[p] # v /\ Install(p, v)

\* Protector::protect, with SendRatchet::key.  CounterExhausted and NoKey leave
\* everything as it was.
Protect(p) ==
    LET v == current[p]
        index == counter[p][v]
    IN  /\ v # None
        /\ index < MaxCounter
        /\ Sent(p) < MaxFrames[p]
        /\ EpochOf(index) >= epoch[p][v]
        /\ counter' = [counter EXCEPT ![p][v] = @ + 1]
        /\ epoch' = [epoch EXCEPT ![p][v] = EpochOf(index)]
        /\ frames' = frames \cup {[from |-> p, version |-> v, life |-> installs[p][v],
                                   index |-> index, body |-> Sent(p) + 1]}
        /\ UNCHANGED <<order, current, recv, installs, opened>>

\* The checks of Protector::unprotect that come before the receive entry: the
\* version is kept, the sender is in its roster and is someone else.
Addressed(p, v, q) == v \in Kept(p) /\ q \in Roster[v] /\ q # p

Entry(p, v, q) == IF q \in DOMAIN recv[p][v] THEN recv[p][v][q] ELSE Fresh

SetEntry(p, v, q, r) ==
    recv' = [recv EXCEPT ![p][v] = [x \in DOMAIN @ \cup {q} |-> IF x = q THEN r ELSE @[x]]]

\* Protector::unprotect opens f.
Opens(p, f) ==
    Addressed(p, f.version, f.from) /\ Accepts(Entry(p, f.version, f.from), f.index)

Unprotect(p, f) ==
    /\ f \in frames /\ Opens(p, f)
    /\ SetEntry(p, f.version, f.from, Record(Entry(p, f.version, f.from), f.index))
    /\ opened' = [opened EXCEPT ![p] = @ \cup {[frame |-> f, life |-> installs[p][f.version]]}]
    /\ UNCHANGED <<order, current, counter, epoch, installs, frames>>

\* unprotect refuses a frame (Replay, Stale) or what is left of a damaged one
\* (BadTag): only the entry is made.
Refuse(p, f) ==
    /\ f \in frames /\ Addressed(p, f.version, f.from)
    /\ SetEntry(p, f.version, f.from, Entry(p, f.version, f.from))
    /\ UNCHANGED <<order, current, counter, epoch, installs, frames, opened>>

Next ==
    \E p \in Peers : \/ Protect(p)
                     \/ \E v \in Versions : RefreshMedia(p, v)
                     \/ \E f \in frames : Unprotect(p, f) \/ Refuse(p, f)

Spec == Init /\ [][Next]_vars

-----------------------------------------------------------------------------
(* What Protector::import_persistence_state accepts.                          *)

\* read_receivers: the receive entries of version v.
ImportsReceivers(p, v) ==
    /\ DOMAIN recv[p][v] \subseteq Roster[v] \ {p}
    /\ \A q \in DOMAIN recv[p][v] :
         LET r == recv[p][v][q] IN
         IF r.started THEN 0 \in r.seen /\ r.epoch = EpochOf(r.high)
         ELSE r.high = 0 /\ r.seen = {}

\* read_version, with expected_send_epoch.
ImportsVersion(p, v) ==
    /\ epoch[p][v] = EpochOf(IF counter[p][v] = 0 THEN 0 ELSE counter[p][v] - 1)
    /\ ImportsReceivers(p, v)

\* read_order: every version kept has one place in the order.
ImportsOrder(p) ==
    /\ Len(order[p]) <= Retain /\ Len(order[p]) = Cardinality(Kept(p))
    /\ {order[p][i] : i \in 1..Len(order[p])} = Kept(p)

Imports(p) ==
    /\ \A v \in Kept(p) : ImportsVersion(p, v)
    /\ ImportsOrder(p)
    /\ IF Kept(p) = {} THEN current[p] = None ELSE current[p] \in Kept(p)

-----------------------------------------------------------------------------
\* The variables have the types of the fields they stand for.
TypeOK ==
    /\ order \in [Peers -> Seq(Versions)]
    /\ current \in [Peers -> Versions \cup {None}]
    /\ installs \in [Peers -> [Versions -> 0..MaxInstalls]]
    /\ frames \subseteq Frame
    /\ \A p \in Peers :
         /\ counter[p] \in [Kept(p) -> 0..MaxCounter] /\ epoch[p] \in [Kept(p) -> Nat]
         /\ DOMAIN recv[p] = Kept(p) /\ Kept(p) \subseteq Versions
         /\ \A v \in Kept(p) : recv[p][v] \in [DOMAIN recv[p][v] -> State]

\* What Protector::export_persistence_state writes, import_persistence_state
\* accepts: its checks hold of every state the protector reaches, so a stored
\* conference can be reopened.
Importable == \A p \in Peers : Imports(p)

\* Leaving a version and returning to it while it is kept never reuses a frame
\* index: within one installation an index stands for one frame.
IndexUnique ==
    \A f, g \in frames :
        f.from = g.from /\ f.version = g.version /\ f.life = g.life /\ f.index = g.index => f = g

Heard(p, f) ==
    {x.frame.index : x \in {x \in opened[p] : /\ x.frame.from = f.from /\ x.frame.version = f.version
                                              /\ x.life = installs[p][f.version]}}

\* The window and the ratchet together accept exactly the frames a receiver
\* with perfect memory of this installation would want: no frame twice, and no
\* refusal of one that is recent enough, whatever the order of arrival.
OpensExactly ==
    \A p \in Peers, f \in frames :
        Addressed(p, f.version, f.from) => (Opens(p, f) <=> Wanted(Heard(p, f), f.index))
===============================================================================
