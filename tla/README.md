# TLA+ specifications of the CFR protocol

This directory models the CFR (Causal Frontier Ratchet) conference library in
TLA+: the durable store, the persistent conference on top of it, replication of
the operation graph and causal membership, equivocation and its punishment,
checkpoint certificates, node-key agreement, the media layer, and the encodings
of control messages and media frames. TLC checks each model on small instances;
TLAPS proves all but one of the safety properties of the store, the persistent
conference, replication, accusations and checkpoints, key agreement and the media
layer for every instance. `PROJECT.json` lists components, runs, mutants, source lines, findings, hazards and theorems in
machine-readable form.

## 1. The system

| Part | Source | Keeps | Interacts with |
|---|---|---|---|
| Store | `cfr/src/persistence/store.rs` | snapshot file, write-ahead log (WAL), open WAL handle | file system; called by the transaction |
| Transaction, logical state | `cfr/src/persistence/mod.rs`, `state.rs` | live state, outbox, inbound window, sequence | store below; application and transport above |
| Conference facade | `cfr/src/conference.rs` | nothing of its own | participant and media protector |
| Participant | `cfr-core/src/member.rs` | graph, pending buffer, channels, prekeys, node keys, version labels | other participants through messages |
| Operation graph | `cfr-core/src/dag.rs` | operations and their parents | participant, membership |
| Membership | `cfr-core/src/membership.rs` | nothing: a function of the graph | participant |
| Node keys, channels, prekeys | `cfr-core/src/keys.rs`, `channel.rs`, `prekey.rs` | retained keys, channel positions, prekey generation | participant |
| Participant state | `cfr-core/src/state.rs` | export and import checks (`Imports` of KeyAgreement and VersionWindow) | transaction |
| Accusations, cached view | `cfr-core/src/member.rs`, `membership.rs` | guilty participants, derived roster and frontier | graph, membership |
| Media | `cfr-media/src/frame.rs`, `replay.rs`, `ratchet.rs`, `state.rs` | key versions, counters, windows, ratchet epochs | conference |
| Checkpoint certificates | `cfr-core/src/checkpoint.rs` | collected signatures | participant |
| Operations, wire, codec | `cfr-core/src/op.rs`, `wire.rs`, `codec.rs` | nothing | everything |
| Codec layouts | `cfr-media/src/codec` | nothing | media |
| Primitives | `cfr-crypto` | nothing | everything |

What is hard to test is what happens between the parts: a process that stops in
the middle of a checkpoint, a message delivered again after its identifier left
the window, operations judged by participants that hold different graphs, keys
that are evicted while a partition lasts, a roster that changes while its members
sign a checkpoint, frames that arrive behind the window, a parser that reads
ciphertext.
The `hazards` of `PROJECT.json` name the lines.

## 2. Modules

```
DurableRegister          what the store promises
   ^ implemented by
PersistentStore  --->  MCPersistentStore,       PersistentStoreProofs
   ^ assumed by (live / stored / reply)
PersistentConference ->  MCPersistentConference,  PersistentConferenceProofs

CausalGraph                                     CausalGraphProofs
CausalGraph <- Membership <- Replica -> MCReplica,  ReplicaProofs
CausalGraph <- Accusation <- Checkpoint -> MCCheckpoint,  CheckpointProofs
CausalGraph <- KeyAgreement -> MCKeyAgreement,  KeyAgreementLemmas <- KeyAgreementProofs
Replay      <- Protector    -> MCProtector,     ProtectorProofs
FrameLayout, Codec <- Transfer       -> MCTransfer
VersionWindow                        -> MCVersionWindow
```

**DurableRegister** is the abstract specification of the persistence layer: a
register of versioned states, the one the application saw last (`exposed`) and
the one a restart would load (`stored`).

**PersistentStore** has one action per file-system step of `Store::create`,
`append_durable`, `checkpoint`, `rollback_append` and `open`, because a process
may stop between any two. The stage is `pc`; `live` and `cand` are `self.state`
and the transaction's candidate; `snap`, `wal` are the files; `old` and `linked`
say what the open handle leads to after a rename. A WAL is its complete records,
their length, and what follows them (nothing, a torn record, or a torn record
with more bytes behind it). `Faults` names the I/O errors that may happen:
`write`, `sync`, `replace` (an atomic replacement fails before its rename),
`dirsync` (after it), `reopen`, `rollback`, and `rot` (the snapshot goes bad).
`CrashImages` is what an unsynced append may leave on the disk.

**PersistentConference** is two or more peers, each with a live state and a
stored one as in DurableRegister. An operation builds a copy of the state
(the first step of each operation), `Finish` makes it durable and live and lets its
result out, `Fail` and `Crash` do not. The state is the outbox, the inbound
window, the sequence, and two things that stand for the conference inside: what
it has processed and its sender counter.

**CausalGraph**, **Membership** are pure: a graph maps an operation to its causal
past. `Dag::add` fixes the parents of an operation once, so the past computed
then is what `Dag::ancestors` finds later. Membership follows
`counted_removes_in`, `members_in`, `members_before` and `authorised`.

**Replica** is the replicating half of `Participant`: `create` (initial state),
`invite`, `accept`, `remove`, `leave`, publication of key material (a `Data`
operation, which only extends the graph), `resync`, and the handlers of
operations, `Sync` and `Deliver`. What was broadcast may arrive at any later
time, any number of times, or never. The pending buffer is bounded and drains as
in `drain_pending`. An error after the local graph was extended (`fails`) leaves
the operation unsent.

**KeyAgreement** is the key half over a fixed roster: `contribute`, `heal`,
`tick`, ingestion of contributions and prekeys with channel establishment,
buffering and retirement, the least-recently-used node-key store, and repair.
Secrets are symbolic: a node key is named by its contribution, a channel by the
contribution that established it. Members are honest. `Since` are the contributions
outside the past of a given one, those that can push its key out of the store.

**Replay**, **Protector** are the media layer: the sliding window with the
ratchet epoch, and `install`, `protect`, `unprotect` over a few kept versions.

**VersionWindow** is `note_version` and the check `read_versions` makes of it.

**Accusation** is equivocation: a faulty member delivers, in some slices of a
contribution, a secret other than the committed one. `OpenSlice` is `open_slice`
on such a slice: it signs an `Accuse`, holds the author guilty and keeps the
operation, which is never sent. `Ingest` is `ingest` with its accusation arm,
`CheckAccusation` what it verifies. `derived` is the cached roster and frontier
of `Participant::derived`, used by every action through `ViewOf`. `Reaches` says
what a participant can receive: what was broadcast, and what somebody who counts
it as a member sends when synchronising. Honest members accuse only on evidence;
the faulty one may also sign and broadcast accusations that prove nothing
(`AccuseFalsely`, which stands for what its process does and for no handler of
this library). `ingest` adds such an accusation to the graph before
`CheckAccusation` fails. It convicts nobody, but it is in the graph, and
`counted_removes_in` counts it once its target is convicted by other evidence;
section 3 says what follows.

**Checkpoint** composes certificates with Accusation: `prepare_checkpoint`,
`approve_checkpoint`, collection (`CheckpointCertificate::new`, `add_signature`),
`offer_checkpoint` and the handler of an offer, while operations and accusations
go on changing what each signer sees.

**Codec** is `codec.rs`, `op.rs`, `wire.rs` and the encoding of certificates, over
streams of symbols: an identifier, signature or integer is one symbol, a length
or a tag another. Every `Writer` and `Reader` method, body, message and limit is
an operator; a reader is a record of the rest of the stream, what was read, and
whether it failed. **FrameLayout** is `cfr-media/src/codec`: which bytes of a
frame stay readable, for every codec, byte by byte, with gathering, scattering
and the trailer flags of `frame.rs`. **Transfer** composes the two: a message is
encoded, signed, possibly altered in one place, and decoded; or a frame is laid
out, sealed in place into any bytes of the same length, laid out again from the
sealed bytes, and opened.

The modules named `MC...` hold only the values of constants and, in MCReplica,
initial states in which two participants already share a history.

## 3. Runs

All are run with `tlc -config <cfg> <module>`. `V` marks a run in which TLC finds
a documented statement violated.

| Run | Checks | Shows |
|---|---|---|
| `store` | TypeOK, NoRollback, Recoverable, NeverRollsBack, RefinesRegister | with crashes anywhere and the errors `write`, `sync`, `replace`, `rot`, a restart succeeds and loads the last exposed state or the running transaction |
| `store_dirsync` V | NoRollback | a failed directory sync or reopen after the WAL was replaced leaves later commits on an unlinked file |
| `replica` | TypeOK, CausallyClosed, SamePast, SameVerdict, Convergence | graphs stay closed and agree and record only what was signed before, verdicts agree, members converge |
| `readmitted` V | Reconcilable | a participant that published after it left and is admitted again cannot be reconciled |
| `protector` | TypeOK, Importable, IndexUnique, OpensExactly | the window opens exactly what a receiver with perfect memory would; a version selected again while kept repeats no index; every state can be stored and loaded |
| `votes` V | QuorumEvicts | after an eviction by quorum and a re-admission, a second quorum of the same authors may not evict |
| `conference` | TypeOK, AppliedOnce, KeyNamesOne, AnswerKept, CountersFresh, Answered | idempotency within the window, delivery keys that name one message, no lost answer, no repeated counter; every question is answered through crashes and full outboxes |
| `key_agreement` | TypeOK, Importable, ChannelsAgree, SomeoneHolds, Recovers | channel ends agree, every state passes the import checks (prekeys, channel buffers, node keys, contribution tracking), the key of a tip is held by someone until a retention window of contributions was made beside it, members that lost the key get it back |
| `version_lost` V | ImportsBack | trimming by label order can drop the newest label |
| `sessions` | CTypeOK, GuiltProven, ViewCurrent, SameVerdict, ExclusionProven, SignedInState, GuiltSpreads, RekeyCompletes, Certified | guilt is what the local graph proves, false accusations or not; verdicts agree whoever knows of it, unless the operation follows a false accusation of its author; the cached view is current; accusations spread without being sent and the next contribution completes the removal; a certificate is accepted only in the state all its signers saw, and is accepted by all if the state settles |
| `encodings` | RoundTrip, Canonical, Authentic, ApprovalsGenuine, Tiled, OpenedIsSent | decoding inverts encoding within the limits, accepts one image per value and no field its author did not sign; layouts cover a frame exactly; a frame opens to what was protected, and always opens where the cipher cannot disturb its structure |
| `layout_sealed` V | SameUnits | a ciphertext byte in front of a start code moves a unit boundary, and the receiver cannot open the frame |

The findings behind the `V` runs, with the lines of documentation they disagree
with, are in `PROJECT.json`.

Four limits of the code are excluded from the runs by a bound or a conjunct;
each can be seen by changing it:

* `rollback_append` itself fails (`store.rs:518`): with `"rollback"` in the
  `Faults` of `MCPersistentStore.cfg`, NoRollback and Recoverable are violated. The
  failed record stays in the WAL, the next transaction repeats its sequence number, and
  `scan_wal` refuses the file.
* Node-key retention (`keys.rs:98`): without the condition on `Since`, and with
  `OVERLAP = 2` in `MCKeyAgreement.cfg`, SomeoneHolds is violated. A side of a
  partition that makes as many contributions as the window holds can evict a tip
  key nobody else has; the code has 64.
* An accusation that proves nothing (`membership.rs:83`): without the disjunct on
  `Unproven`, SameVerdict of Accusation is violated. The faulty member deceives one
  recipient, accuses itself without proof and contributes on top of that. Whoever
  has convicted it for the deception counts the false accusation, which is in the
  contribution's past, and refuses the contribution; the others accept it. The
  comment on `members_before` (`membership.rs:134`) says of judging by the past that
  two participants cannot disagree; the past is shared, the set `guilty` read with
  it is not.
* A key version that returns after it was retired (`frame.rs:217`): `install`
  starts it again at index 0. IndexUnique speaks of one installation for that
  reason; with `MaxInstalls = 2` and without its conjunct on `life` it is violated.

Four smaller ones have no run. `CheckpointCertificate::read` takes approvals in
any order, so Canonical leaves certificates out (`docs/security.md` O8 states it
of everything signed). `beacon` without a group key carries a zero tag, which a
peer that holds the key reports as diverged. `open_accusations` is retried and
never filled. In a length-prefixed frame a first length of 1 or of 256 to 511
reads as a start code.

### Bounds

* `store`: three values whose record fits, fits only after a checkpoint, or never
  fits, with threshold 2 and limit 3, so that both kinds of checkpoint and the
  size refusals happen; five transactions allow a checkpoint, a failed append and
  a restart before the last one. Every value decodes in this run.
* `replica`: two participants, one administrator, six operations (the founder's
  two, an admission, and three more), two pending places (one is used; what
  happens when the buffer is full is covered by the proofs), identifiers whose hash
  order is opposite to their creation order. `readmitted` starts from a shared
  conference with eight operations and one pending place. `votes` has three
  participants, no administrator and quorum 2, and starts from a history in which
  two have evicted the third and let it in again; identifiers hash in creation
  order, so the older votes come first.
* `protector`: a window, an epoch and a jump small enough (2, 2, 1) that five
  frames fall behind the window, cross two epochs, jump too far and reach the
  last counter value; two of three versions are kept. `a` sends and `b`
  receives; receivers do not share state, so further senders add nothing.
  The bound on frames ends a run where the counter does; the proofs, in which the
  two are independent, show that the guard is what stops it. `MaxInstalls` is 1: a
  version does not return after it was retired. The proofs allow any number of
  installations.
* `conference`: outbox and window of one entry, so that both are at their limit
  all the time; one question per peer, and one frame, one crash and one resend in
  all. Two frames take TLC about nine minutes and hold too; the proof of
  CountersFresh has no bound.
* `key_agreement`: five contributions with a retention of three, so that keys are
  evicted while others are still asked for, two buffered slices, one rotation by
  `heal` and one by `tick`. A retention of two, where even more is evicted, takes
  TLC nine minutes and holds too.
* `version_lost`: window of three labels out of six; the code has 64.

* `sessions`: three members, so that the accuser, the accused and a third who
  learns of it are distinct; the faulty member has contributed at the start,
  deceiving any subset of the others, and one more contribution or re-admission
  may follow. One record and one fresh session: records do not interact. The
  first operation after the start may be a false accusation, of itself or of the
  founder (`MaxFalse`); to keep the run small a behaviour has that or a record, not
  both (`Spent`). The proofs allow any number of either. The limit on signers
  equals the roster.
* `encodings`: one message of each kind and one beyond each limit, and one symbol
  replaced, inserted or lost or two neighbouring runs of three or seven symbols
  (an identifier field, a slice) exchanged. Frames of one and two units behind
  start codes or lengths, all short AV1 frames over a few header bytes; the cipher
  may produce any bytes over 0, 1 and 2, those that make start codes. The limits
  of the code (fields, dependencies, recipients, batches, signers) are constants
  set to 2 or 3.

Symmetry is used in `protector` (versions), which checks invariants only.

Deadlock checking is off in all but `version_lost`. The bounds on operations end
every behaviour; and a store whose creation was interrupted really stops: its
directory can be neither opened nor created again.

### Fairness

Liveness properties assume only what `docs/integration.md` asks of applications.

* `replica`, Convergence: participants call `resync` now and then (weak fairness
  of `SendSync`); of the Sync messages a peer sends over and over, some arrive
  (strong fairness of `AnswerSync` per pair: the set of messages under way
  changes, so none need stay enabled); operations sent in answer arrive and the
  pending buffer is drained by the handler that filled it.
* `conference`, Answered: the application restarts after a crash, sends what is pending,
  acknowledges and handles what arrives, and the disk does not fail every
  transaction for ever. Strong fairness is needed because a crash, a failed
  transaction or a full outbox disables those steps for a while; crashes are
  bounded, so a process that never stays up long enough is excluded.
* `key_agreement`, Recovers (of members none of whose tips has a retention window of
  contributions beside it): operations spread (what Convergence shows), members
  that cannot derive the key call `resync`, and their requests and the responses
  are handled.
* `sessions`, GuiltSpreads and Certified: as long as a member can receive an
  operation another holds, or an application can pass a record, an approval, a
  certificate or an offer on, one such step is taken (weak fairness of the
  disjunction `Progress`). Nobody is made to contribute or to prepare a record.

Nothing is assumed of operations that users start.

### Mutants

Each property of a passing run is paired with a fault in a definition the model
takes from the code, written next to it under a comment `Fault:`. With the fault
put in its place TLC must find the property violated under the same
configuration, so no property holds by the shape of the model.

## 4. Proofs

**PersistentStoreProofs** proves, for all values, sizes, limits and numbers of
transactions and under the assumption `Reliable` (the directory sync, the reopen
and the truncation in `rollback_append` do not fail, and every state written can
be decoded): `TypeCorrect`, `NothingRollsBack` (NoRollback), `AlwaysRecoverable`
(Recoverable), `ExposureAdvances` (NeverRollsBack) and `ImplementsRegister`
(RefinesRegister). `Reliable` is needed: `store_dirsync`, the failing rollback of
section 3 and `version_lost` show what happens without each part of it.

None of these properties is inductive. The invariant `IInv` says what each stage
has on disk in terms of `Sound(s, f, r)`: snapshot `s` and WAL `f` hold state `r`
and nothing newer, the records of `f` have consecutive sequence numbers ending in
`r`, and the WAL starts no later than right after the snapshot. When the process
is idle the files are sound for `live`; while an append runs, `base` is sound for
`live` and the WAL is `base` with the candidate or part of it; after a failure
they are sound for `live` or for the candidate. Lemmas show that a sound pair
recovers to `r`, and that appending, tearing, replacing the snapshot, resetting
the WAL and losing the snapshot keep soundness; then one lemma per group of
actions. The refinement needs one more invariant, `SInv`: a running process has
something to be restarted from (a snapshot or a record), so that what a restart
would load changes only when DurableRegister allows it.

**ReplicaProofs** proves, for every set of participants, policy, hash order and
bound: `TypeCorrect` (TypeOK, which includes that the pending buffer keeps its limit), `AlwaysClosed` (CausallyClosed), `PastIsShared` (SamePast)
and `VerdictIsShared` (SameVerdict). The invariant says that every graph held,
including histories inside Welcome messages, is `Good` (closed, and the past of
an operation is what its signed dependencies give) and that any two of them
agree where both are defined. A handler that signs and adds a few operations
`Grows` a graph; growth keeps goodness and agreement because new identifiers are
new everywhere and pasts are determined by signed dependencies. Two agreeing
closed graphs give an operation's dependencies the same closure, and
authorisation reads nothing else.

**PersistentConferenceProofs** proves, for any peers, limits, messages, crashes
and failed writes: `StateDecodes` (TypeOK), `ProcessedOnce` (AppliedOnce),
`KeysNeverReused` (KeyNamesOne), `NoAnswerLost` (AnswerKept) and
`CountersNeverReused` (CountersFresh). The invariant speaks of both states of a
peer, since either may be the one it goes on from. Each is `Valid`: the outbox is
within its limit, the inbound window holds the newest entries of what was
processed, and equal entries are more than a window apart. `stored` `Follows`
`live`: its counters are no smaller, and it has no outbox row of `live`'s range
that `live` has not. Everything that left was `Assigned` in `live`, so an
identifier that a lost transaction took is free to be taken again, and frames
that left are below `live`'s counter. A processed question has its reply in the
outbox of that state or among what was sent.

**CausalGraphProofs** holds what ReplicaProofs and the next two share: adding an
operation over dependencies that are present keeps a graph closed and leaves it in
agreement with every other graph of the same operations, and so does signing a new
one. Its lemmas, and those of KeyAgreementLemmas, that need an induction have the
least-number principle as a hypothesis (`LeastNumber`), and those about the buffer
bound have facts about finite sets (`FiniteSteps`). The modules with the theorems
prove both from the library (`Smallest`, `Filling`), so no theorem depends on them.

**CheckpointProofs** proves, for every finite set of participants, whoever of them
is faulty, whom it deceives and what it accuses falsely: `TypeCorrect` (CTypeOK), `GuiltIsEvidence`
(GuiltProven), `CacheCurrent` (ViewCurrent), `VerdictsShared` (SameVerdict),
`SignaturesInState` (SignedInState), `OnlyGuiltyExcluded` (ExclusionProven) and
`RekeyCompletesRemoval` (RekeyCompletes). The invariant of the accusation half
makes guilt a function of the graph (`Guilt`: the guilty set is what the
accusations in the own graph prove; an accusation by the faulty member, whom nobody
deceives, fails `CheckAccusation` in every graph, any other passes in every graph
that has its dependencies, lemma `Checked`) and the cache a function of both (`Cached`).
The cache is keyed by the number of operations and the number of guilty
participants; both sets only grow, so equal numbers mean equal sets. Where every
accusation of the author in the past of an operation proves something, whoever
holds that past has convicted the author exactly if there is one; agreeing graphs
share the past, and so the verdict. The certificate half says that an approval carries the view its
record names, and that what is offered was approved by all its signers.

**KeyAgreementLemmas** and **KeyAgreementProofs** prove, for any members, retention,
buffer and number of rotations: `TypeCorrect` (TypeOK), `AlwaysImportable`
(Importable) and `EndsAgree` (ChannelsAgree). The invariant follows the slices
one member seals for another through the history (`Threaded`): in the order they
were signed, the channel they belong to never goes back, and within a channel
every position follows the last one. The sending end is one past the last slice
sealed (`Sends`). The receiving end is one past the last slice ingested of its
channel, and its buffer holds ingested slices of later channels, within the limit
and at distinct positions (`Receives`). A member's operations have its earlier
ones in their past (`Own`), so a receiver ingests them in the order they were signed
(`InOrder`), and when a slice of the present channel opens, nothing of a later one
is buffered. The first module has the invariant and the steps the handlers are
made of: signing, rotating, sealing, absorbing, receiving. The second has one lemma
for each action, the initial state, and the theorems.

**ProtectorProofs** proves, for every window, epoch length, jump, number of kept
versions and order of arrival: `TypeCorrect` (TypeOK), `AlwaysImportable`
(Importable), `IndicesUnique` (IndexUnique) and `OpensWhatIsWanted`
(OpensExactly). The invariant relates a receiver's entry for a sender to the set
of indices it has opened in the present installation of the version (`Reflects`):
`high` is the greatest of them, bit `k` of the window is set exactly when
`high - k` is one of them, and the ratchet epoch is that of `high`. Frames that
left are below the sender's counter (`Counted`), and the send epoch is that of
the last frame sent (`Ratcheted`).

Assumptions on constants are the named ASSUMEs of the modules; TLC evaluates them
in every passing run. `Reliable` of the store is the only hypothesis of a theorem
beside them.

Only model-checked:

* Convergence, Answered, Recovers, GuiltSpreads and Certified: liveness under
  fairness is outside what the prover supports.
* SomeoneHolds: a proof would have to follow the order of use of the keys in
  `NodeKeys` through every handler; the invariant of KeyAgreementProofs does not.
* RoundTrip, Canonical, Authentic, ApprovalsGenuine, Tiled and OpenedIsSent: what
  the recursive readers and parsers of Codec and FrameLayout compute would need an
  induction over the input, which the prover cannot use.

## 5. Not modelled

* The tag of a beacon (`beacon`, `check_beacon` read the version window and change
  nothing), and `Dag::compact` (which the participant does not call).
* Roster changes inside KeyAgreement (invitations carrying key packages, requests
  for missing prekeys); members there are honest and fixed.
* Ciphers, signatures and hashes: secrets are symbolic, a signature is the fact
  that it was made, a sealed frame is any bytes of its length. Control messages
  are streams of symbols, not of bytes; the fixed widths of identifiers and
  integers are one symbol each.
* The byte layout of exported states and of store files. Records of the WAL are
  complete, torn or buried.
* Locks on the store directory: a store has one process.
* The byte-level checks of `scan_wal` (lengths and checksums), except through the
  three kinds of tail.

## 6. Plan

Done: the store with its abstract specification and refinement proof; the
persistent conference, replication and membership, accusations with the cached
view, checkpoint certificates, key agreement and the media layer, each with
proofs; quorum votes and re-admission, the version window, encodings and frame
layouts.

Next:

1. KeyAgreement with a roster that changes: invitations, missing prekeys, three
   members; composition with Replica, so that the spreading of operations is the
   one Replica models.
2. The persistent conference over the files of PersistentStore instead of the
   register it implements.
