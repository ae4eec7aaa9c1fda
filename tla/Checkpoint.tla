------------------------------ MODULE Checkpoint ------------------------------
(* Checkpoint certificates (crates/cfr-core/src/checkpoint.rs, and their use  *)
(* in member.rs): the members of a session approve, all of them, a record     *)
(* that binds its present state to a fresh session, while operations, and     *)
(* accusations, keep changing the state each of them sees.                    *)
(*                                                                            *)
(* The participants of Accusation are the signers.  A signature is the fact   *)
(* that its signer approved the record; approvals and certificates pass       *)
(* between applications, which may deliver them late, repeatedly or never.    *)
EXTENDS Accusation

CONSTANTS Sessions,               \* fresh session identifiers
          MAX_CHECKPOINT_SIGNERS, \* checkpoint.rs
          MaxRecords              \* bound on records and false accusations together

VARIABLES records,   \* records prepared
          approvals, \* signatures made, [signer, record, seen]
          offers,    \* certificates broadcast, [record, signers]
          accepted   \* per participant, records of CheckpointOffered events

cvars == <<records, approvals, offers, accepted>>
allvars == <<vars, cvars>>

\* The context identifier and the roster's root are hashes of the view.
Record(view, next) == [view |-> view, next |-> next]

\* ResumptionRecord::validate, for records made by prepare_checkpoint: the
\* session is fresh, the number positive and the capabilities complete.
Valid(r) == r.view.frontier # {}

CInit ==
    /\ Init
    /\ records = {} /\ approvals = {} /\ offers = {}
    /\ accepted = [p \in Peers |-> {}]

\* The bound, which behaviours spend on records or on false accusations.
Spent == Cardinality(records) + Cardinality({o \in DOMAIN ops : ops[o].kind = "Accuse" /\ ops[o].author = Faulty})

\* prepare_checkpoint.
PrepareCheckpoint(p, next) ==
    LET r == Record(ViewOf(p), next) IN
    /\ Spent < MaxRecords
    /\ Valid(r)
    /\ records' = records \cup {r}
    /\ UNCHANGED <<vars, approvals, offers, accepted>>

\* Fault: the record's roster is not compared.
MatchesFrontier(p, r) == r.view.frontier = ViewOf(p).frontier

\* validate_checkpoint_record.
Matches(p, r) == r.view = ViewOf(p)

\* Fault: a member signs whatever record it is given.
ApproveUnseen(p, r) ==
    /\ approvals' = approvals \cup {[signer |-> p, record |-> r, seen |-> ViewOf(p)]}
    /\ UNCHANGED <<vars, records, offers, accepted>>

\* approve_checkpoint.  `seen` is the view the signer had.
ApproveCheckpoint(p, r) ==
    /\ Matches(p, r)
    /\ approvals' = approvals \cup {[signer |-> p, record |-> r, seen |-> ViewOf(p)]}
    /\ UNCHANGED <<vars, records, offers, accepted>>

\* Fault: the last signer finds the certificate full.
CertificatesBelow(r) ==
    LET signers == {a.signer : a \in {a \in approvals : a.record = r}} IN
    {[record |-> r, signers |-> s] : s \in {s \in SUBSET signers : Cardinality(s) < MAX_CHECKPOINT_SIGNERS}}

\* What CheckpointCertificate::new and add_signature put together from the
\* approvals an application has: a signature over another record does not
\* verify, a signer counts once.
Certificates(r) ==
    LET signers == {a.signer : a \in {a \in approvals : a.record = r}} IN
    {[record |-> r, signers |-> s] : s \in {s \in SUBSET signers : Cardinality(s) <= MAX_CHECKPOINT_SIGNERS}}

\* CheckpointCertificate::verify: exactly the active roster signed.
Verify(c, roster) == Valid(c.record) /\ roster # {} /\ c.signers = roster

\* validate_checkpoint: the roster is computed afresh, the view is the cached one.
Validates(p, c) ==
    /\ Verify(c, MembersAmong(ops, graph[p], Dag(p), guilty[p]))
    /\ Matches(p, c.record)

\* offer_checkpoint.
OfferCheckpoint(p, c) ==
    /\ Validates(p, c)
    /\ offers' = offers \cup {c}
    /\ UNCHANGED <<vars, records, approvals, accepted>>

\* handle(Checkpoint): an offer that does not match the local state is refused.
HandleCheckpoint(p, c) ==
    /\ Validates(p, c)
    /\ accepted' = [accepted EXCEPT ![p] = @ \cup {c.record}]
    /\ UNCHANGED <<vars, records, approvals, offers>>

CNext ==
    \/ Next /\ UNCHANGED cvars /\ Spent' <= MaxRecords
    \/ \E p \in Peers :
         \/ \E next \in Sessions : PrepareCheckpoint(p, next)
         \/ \E r \in records :
              ApproveCheckpoint(p, r) \/ \E c \in Certificates(r) : OfferCheckpoint(p, c)
         \/ \E c \in offers : HandleCheckpoint(p, c)

CSpec == CInit /\ [][CNext]_allvars

\* Members synchronise and what is sent in answer arrives; applications put
\* records to their member, pass approvals on, offer complete certificates and
\* deliver offers.  As long as one of these steps is possible, one is taken.
Progress ==
    \E p \in Peers :
      \/ (\E o \in DOMAIN ops : Ingest(p, o)) /\ UNCHANGED cvars
      \/ \E r \in records :
           ApproveCheckpoint(p, r) \/ \E c \in Certificates(r) : OfferCheckpoint(p, c)
      \/ \E c \in offers : HandleCheckpoint(p, c)

CFairness == WF_allvars(Progress)

CFairSpec == CSpec /\ CFairness

-----------------------------------------------------------------------------
\* What is offered and accepted was prepared, and signatures are its members'.
CTypeOK ==
    /\ TypeOK
    /\ {a.record : a \in approvals} \cup {c.record : c \in offers} \subseteq records
    /\ \A p \in Peers : accepted[p] \subseteq records

\* Whoever accepts a certificate knows that every member of the roster it
\* certifies signed it while seeing that very roster and frontier, however much
\* any of them has learned since.
SignedInState ==
    \A p \in Peers : \A r \in accepted[p] : \A s \in r.view.members :
        [signer |-> s, record |-> r, seen |-> r.view] \in approvals

\* Nobody follows a certificate into a session without some participant unless
\* it has itself verified that participant's equivocation: being counted out by
\* the signers' view alone is not enough.
ExclusionProven ==
    \A p \in Peers : \A r \in accepted[p] : Peers \ r.view.members \subseteq guilty[p]

\* If the state stops changing, a record of it that was prepared is approved,
\* certified, offered and accepted by every participant.
Certified ==
    \A next \in Sessions :
        <>[](\E r \in records : r.next = next /\ \A p \in Peers : Matches(p, r))
        => <>(\E r \in records : r.next = next /\ \A p \in Peers : r \in accepted[p])
===============================================================================
