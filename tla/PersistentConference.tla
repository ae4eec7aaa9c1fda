------------------------ MODULE PersistentConference ------------------------
(* PersistentConference and its LogicalState: every operation changes a copy  *)
(* of the state, the copy reaches the durable register (DurableRegister, which *)
(* PersistentStore implements) and only then becomes the live state and lets  *)
(* results out.  Control messages leave through the durable outbox, arrive    *)
(* through the inbound idempotency window, and travel on a transport that     *)
(* resends, duplicates and reorders.  The conference inside is abstracted to  *)
(* what it has processed: an "ask" is answered by a "tell" (as a Sync is by a *)
(* Deliver), a protected frame uses up a sender counter.                      *)
EXTENDS Integers, Sequences, FiniteSets, Functions

CONSTANTS Peers,
          MaxOutbox,   \* options.max_outbox_entries
          Window,      \* options.inbound_window
          MaxAsks,     \* bound: local operations that send a message, per peer
          MaxFrames,   \* bound: protected frames in all
          MaxCrashes,  \* bound: crashes in all
          MaxResends   \* bound: messages processed again out of window, in all

ASSUME ConferenceAssumption ==
    MaxOutbox \in Nat \ {0} /\ Window \in Nat \ {0}

VARIABLES up,       \* a process holds peer p's store
          live,     \* self.state of p; the last one, while p is down
          stored,   \* the state a restart of p would load
          reply,    \* what the running operation of p returns when it succeeds
          net,      \* the messages the transport has accepted from outboxes
          acked,    \* ids of p for which the transport has called acknowledge
          frames,   \* the counters of the frames handed to p's application
          crashes

vars == <<up, live, stored, reply, net, acked, frames, crashes>>

Kinds == {"ask", "tell"}
Row == [to : Peers, kind : Kinds, re : Nat]
Nothing == -1

\* A delivery: the key binds the sender, the outbox id and the message.
Delivery(p, id, row) == [from |-> p, id |-> id, row |-> row]
Key(m) == <<m.from, m.id>>

-----------------------------------------------------------------------------
(* LogicalState.                                                              *)

\* `log` and `counter` stand for the conference: the messages it has processed
\* and its media sender counter.  `inbound` is the window, oldest id first.
Empty == [seq |-> 1, log |-> <<>>, counter |-> 0, asks |-> 0,
          inbound |-> <<>>, outbox |-> <<>>, next |-> 1]

\* enqueue: all rows under fresh consecutive ids, or an error when they do not fit.
Fits(s, rows) == Len(rows) <= MaxOutbox - Cardinality(DOMAIN s.outbox)
Enqueue(s, rows) ==
    [s EXCEPT
      !.outbox = [i \in DOMAIN s.outbox \cup s.next .. (s.next + Len(rows) - 1) |->
                    IF i < s.next THEN s.outbox[i] ELSE rows[i - s.next + 1]],
      !.next = s.next + Len(rows)]

\* Faults: nothing leaves the window, or the newest id does.
RecordInboundAll(s, key) == [s EXCEPT !.inbound = Append(@, key)]
RecordInboundOld(s, key) ==
    [s EXCEPT !.inbound = IF Len(@) < Window THEN Append(@, key) ELSE @]

\* record_inbound: the newest id goes to the back, the oldest leave the window.
RecordInbound(s, key) ==
    LET w == Append(s.inbound, key) IN
    [s EXCEPT !.inbound = IF Len(w) > Window THEN Tail(w) ELSE w]

\* What the bounds count: messages processed again, and frames protected.
Resends == SumFunction([p \in Peers |-> Len(stored[p].log) - Cardinality(Range(stored[p].log))])
Protected == SumFunction([p \in Peers |-> stored[p].counter])

-----------------------------------------------------------------------------
\* LogicalState::new under Store::create, with no message queued.
Init ==
    /\ up = [p \in Peers |-> TRUE]
    /\ live = [p \in Peers |-> Empty]
    /\ stored = [p \in Peers |-> Empty]
    /\ reply = [p \in Peers |-> Nothing]
    /\ net = {} /\ acked = [p \in Peers |-> {}]
    /\ frames = [p \in Peers |-> <<>>]
    /\ crashes = 0

\* commit_candidate up to the point where the record is on the disk.
Commit(p, s, result) ==
    /\ stored' = [stored EXCEPT ![p] = [s EXCEPT !.seq = @ + 1]]
    /\ reply' = [reply EXCEPT ![p] = result]
    /\ UNCHANGED <<up, live, net, frames, crashes>>

\* No operation of p is running: &mut self lets one run at a time.
Free(p) == up[p] /\ stored[p] = live[p]

\* Fault: outputs that do not fit are dropped, and the message is taken.
HandleInboundUnfit(p, m) ==
    LET s == live[p]
        answer == [to |-> m.from, kind |-> "tell", re |-> m.id]
        rows == IF m.row.kind = "ask" /\ Fits(s, <<answer>>) THEN <<answer>> ELSE <<>>
    IN /\ Free(p) /\ m.row.to = p
       /\ Key(m) \notin Range(s.inbound)
       /\ Key(m) \in Range(s.log) => Resends < MaxResends
       /\ Commit(p, RecordInbound(Enqueue([s EXCEPT !.log = Append(@, Key(m))], rows),
                                  Key(m)), Nothing)
       /\ UNCHANGED acked

\* handle_inbound.  A duplicate, an id seen with other bytes, an outbox without
\* room for the outputs: each returns with nothing changed.
HandleInbound(p, m) ==
    LET s == live[p]
        rows == IF m.row.kind = "ask"
                THEN <<[to |-> m.from, kind |-> "tell", re |-> m.id]>> ELSE <<>>
    IN /\ Free(p) /\ m.row.to = p
       /\ Key(m) \notin Range(s.inbound)
       /\ Fits(s, rows)
       /\ Key(m) \in Range(s.log) => Resends < MaxResends
       /\ Commit(p, RecordInbound(Enqueue([s EXCEPT !.log = Append(@, Key(m))], rows),
                                  Key(m)), Nothing)
       /\ UNCHANGED acked

\* mutate_conference for an operation that sends messages: invite, evict,
\* leave, rekey, heal and resync alike, abstracted to one question.
Ask(p, q) ==
    LET s == live[p]
        rows == <<[to |-> q, kind |-> "ask", re |-> 0]>>
    IN /\ Free(p) /\ q # p
       /\ s.asks < MaxAsks
       /\ Fits(s, rows)
       /\ Commit(p, Enqueue([s EXCEPT !.asks = @ + 1], rows), Nothing)
       /\ UNCHANGED acked

\* Fault: the frame leaves before its counter is stored.
ProtectEarly(p) ==
    LET s == live[p] IN
    /\ Free(p)
    /\ Protected < MaxFrames
    /\ stored' = [stored EXCEPT ![p] = [s EXCEPT !.seq = @ + 1, !.counter = @ + 1]]
    /\ frames' = [frames EXCEPT ![p] = Append(@, s.counter)]
    /\ UNCHANGED <<up, live, reply, net, acked, crashes>>

\* mutate_conference for protect: the frame carries the counter it used.
Protect(p) ==
    LET s == live[p] IN
    /\ Free(p)
    /\ Protected < MaxFrames
    /\ Commit(p, [s EXCEPT !.counter = @ + 1], s.counter)
    /\ UNCHANGED acked

\* acknowledge: an id no longer in the outbox returns false without a transaction.
Acknowledge(p, id) ==
    LET s == live[p] IN
    /\ Free(p)
    /\ id \in DOMAIN s.outbox
    /\ Delivery(p, id, s.outbox[id]) \in net
    /\ acked' = [acked EXCEPT ![p] = @ \cup {id}]
    /\ Commit(p, [s EXCEPT !.outbox = [i \in DOMAIN @ \ {id} |-> @[i]]], Nothing)

\* The end of commit_candidate: the candidate replaces the state and the
\* operation returns its result.
Finish(p) ==
    /\ up[p] /\ stored[p] # live[p]
    /\ live' = [live EXCEPT ![p] = stored[p]]
    /\ frames' = IF reply[p] = Nothing THEN frames
                 ELSE [frames EXCEPT ![p] = Append(@, reply[p])]
    /\ reply' = [reply EXCEPT ![p] = Nothing]
    /\ UNCHANGED <<up, stored, net, acked, crashes>>

\* append fails and cuts the record off: the operation returns an error.
Fail(p) ==
    /\ up[p] /\ stored[p] # live[p]
    /\ stored' = [stored EXCEPT ![p] = live[p]]
    /\ reply' = [reply EXCEPT ![p] = Nothing]
    /\ UNCHANGED <<up, live, net, acked, frames, crashes>>

\* Fault: rows of a transaction that is not finished are handed out.
SendEarly(p, id) ==
    /\ up[p]
    /\ id \in DOMAIN stored[p].outbox
    /\ net' = net \cup {Delivery(p, id, stored[p].outbox[id])}
    /\ UNCHANGED <<up, live, stored, reply, acked, frames, crashes>>

\* The application hands a row of pending_deliveries to the transport.
Send(p, id) ==
    /\ up[p]
    /\ id \in DOMAIN live[p].outbox
    /\ LET m == Delivery(p, id, live[p].outbox[id]) IN m \notin net /\ net' = net \cup {m}
    /\ UNCHANGED <<up, live, stored, reply, acked, frames, crashes>>

\* The process stops; a record that was not synced may be lost.
Crash(p) ==
    /\ up[p] /\ crashes < MaxCrashes
    /\ up' = [up EXCEPT ![p] = FALSE]
    /\ \E s \in {stored[p], live[p]} : stored' = [stored EXCEPT ![p] = s]
    /\ reply' = [reply EXCEPT ![p] = Nothing]
    /\ crashes' = crashes + 1
    /\ UNCHANGED <<live, net, acked, frames>>

\* Fault: the outbox is not restored.
OpenWithoutOutbox(p) ==
    /\ ~up[p]
    /\ up' = [up EXCEPT ![p] = TRUE]
    /\ live' = [live EXCEPT ![p] = [stored[p] EXCEPT !.outbox = <<>>]]
    /\ stored' = [stored EXCEPT ![p].outbox = <<>>]
    /\ UNCHANGED <<reply, net, acked, frames, crashes>>

\* PersistentConference::open.
Open(p) ==
    /\ ~up[p]
    /\ up' = [up EXCEPT ![p] = TRUE]
    /\ live' = [live EXCEPT ![p] = stored[p]]
    /\ UNCHANGED <<stored, reply, net, acked, frames, crashes>>

Next ==
    \E p \in Peers :
      \/ \E m \in net : HandleInbound(p, m)
      \/ \E q \in Peers : Ask(p, q)
      \/ \E id \in 1..live[p].next : Acknowledge(p, id) \/ Send(p, id)
      \/ Protect(p) \/ Finish(p) \/ Fail(p) \/ Crash(p) \/ Open(p)

Spec == Init /\ [][Next]_vars

\* The application keeps sending what is pending, acknowledging what was taken
\* and handling what arrives, restarts after a crash, and the disk does not
\* fail every write for ever.
Fairness ==
    \A p \in Peers :
      /\ WF_vars(Open(p)) /\ SF_vars(Finish(p))
      /\ SF_vars(\E id \in 1..live[p].next : Send(p, id))
      /\ SF_vars(\E id \in 1..live[p].next : Acknowledge(p, id))
      /\ SF_vars(\E m \in net : HandleInbound(p, m))

FairSpec == Spec /\ Fairness

-----------------------------------------------------------------------------
IsState(s) ==
    /\ s.seq \in Nat /\ s.next \in Nat /\ s.asks \in Nat /\ s.counter \in Nat
    /\ s.log \in Seq(Peers \X Nat) /\ s.inbound \in Seq(Peers \X Nat)
    /\ DOMAIN s.outbox \subseteq 1 .. (s.next - 1)
    /\ \A i \in DOMAIN s.outbox : s.outbox[i] \in Row

\* Every state, live or on the disk, is one LogicalState::decode accepts: the
\* outbox and the window are within their limits, no id is in the window twice,
\* and the next outbox id is above every id in use.
TypeOK ==
    /\ \A p \in Peers : \A s \in {live[p], stored[p]} :
         /\ IsState(s)
         /\ Cardinality(DOMAIN s.outbox) <= MaxOutbox
         /\ Len(s.inbound) <= Window /\ IsInjective(s.inbound)
    /\ \A m \in net : m.from \in Peers /\ m.id \in Nat /\ m.row \in Row

\* handle_inbound with the idempotency window: whatever is resent, and wherever
\* the process stops, a message is processed again only when at least Window
\* other messages were committed after it.
AppliedOnce ==
    \A p \in Peers : \A i, j \in DOMAIN live[p].log :
        i < j /\ live[p].log[i] = live[p].log[j] => j - i > Window

\* A delivery key names one message for ever: an id whose transaction was lost
\* in a crash or failed may be assigned again, and then nothing was sent under
\* it before (enqueue, pending_deliveries and commit_candidate together).
KeyNamesOne ==
    \A m, n \in net : Key(m) = Key(n) => m = n

\* No output is lost: when the state says a message was processed, its answer is
\* in the outbox or was sent, whatever crashed in between (the mutation, the
\* inbound record and the outbox rows are one transaction).
AnswerKept ==
    \A m \in net :
      LET q == m.row.to
          answer == [to |-> m.from, kind |-> "tell", re |-> m.id]
      IN m.row.kind = "ask" /\ Key(m) \in Range(live[q].log) =>
           \/ \E i \in DOMAIN live[q].outbox : live[q].outbox[i] = answer
           \/ \E n \in net : n.from = q /\ n.row = answer

\* protect commits the sender counter before it returns the frame: no two frames
\* that left the process carry one counter, across crashes and failed writes.
CountersFresh ==
    \A p \in Peers : IsInjective(frames[p])

\* The questions of p whose answer p has processed.
Answers(p) ==
    {m.row.re : m \in {m \in net : /\ m.row.to = p /\ m.row.kind = "tell"
                                  /\ Key(m) \in Range(live[p].log)}}

\* Every question is answered in the end: as many different questions as a peer
\* has put into its outbox find an answer that it processes, through crashes,
\* failed writes, resends and outboxes that are full on both sides.
Answered ==
    \A p \in Peers : \A n \in 1..MaxAsks :
        (live[p].asks >= n) ~> (Cardinality(Answers(p)) >= n)
===============================================================================
