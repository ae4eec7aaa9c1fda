--------------------------- MODULE PersistentStore ---------------------------
(* The snapshot/WAL store of crates/cfr/src/persistence and the copy-on-write *)
(* transaction (commit_candidate) that writes it, with process and power      *)
(* failures between any two filesystem steps and I/O errors inside them.      *)
(*                                                                            *)
(* A state is a record [seq, val]: its transaction sequence and the encoded   *)
(* LogicalState.  A WAL file is its run of complete records, the length in    *)
(* bytes of that run, and what follows the run: nothing ("clean"), the prefix *)
(* of a record ("torn"), or a prefix with more bytes written after it         *)
(* ("buried"); a file that does not exist is "missing".                       *)
EXTENDS Integers, Sequences

CONSTANTS Values,     \* encoded logical states
          Importable, \* the states LogicalState::decode accepts
          Size,       \* [Values -> Nat]: encoded record length
          MaxRecord,  \* options.max_record_bytes
          MaxWal,     \* options.max_wal_bytes, less the header
          Threshold,  \* options.checkpoint_threshold, less the header
          MaxSeq,     \* the largest transaction sequence (u64::MAX in the code)
          Faults,     \* the I/O errors that may happen
          NoValue

ASSUME StoreAssumption ==
    /\ Importable \subseteq Values
    /\ Size \in [Values -> Nat]
    /\ MaxRecord \in Nat /\ MaxWal \in Nat /\ Threshold \in Nat /\ MaxSeq \in Nat \ {0}
    /\ Threshold <= MaxWal
    /\ NoValue \notin Values

VARIABLES pc,      \* where the process is inside create, append or checkpoint
          after,   \* what a running checkpoint returns to: "append" or "idle"
          live,    \* self.state: the last state exposed, kept when the process stops
          cand,    \* the candidate of the running transaction, or NoRecord
          snap,    \* contents of the snapshot file; NoRecord when missing or corrupt
          wal,     \* the file the name "wal" leads to
          old,     \* the file behind self.wal once the name leads elsewhere
          linked,  \* self.wal is the file the name "wal" leads to
          base     \* the open WAL before the append in progress (original_length)

vars == <<pc, after, live, cand, snap, wal, old, linked, base>>

\* Sequences are u64 and 0 is refused wherever a record is read.
Record == [seq : 1..MaxSeq, val : Values]
NoRecord == [seq |-> 0, val |-> NoValue]
MaybeRecord == Record \cup {NoRecord}

File == [recs : Seq(Record), len : Nat, tail : {"clean", "torn", "buried", "missing"}]
NoFile == [recs |-> <<>>, len |-> 0, tail |-> "missing"]
WalHeader == [recs |-> <<>>, len |-> 0, tail |-> "clean"]

Fd == IF linked THEN wal ELSE old

\* A complete record, or the first bytes of one, written at the end of f.
Appended(f, r) ==
    IF f.tail = "clean"
    THEN [recs |-> Append(f.recs, r), len |-> f.len + Size[r.val], tail |-> "clean"]
    ELSE [f EXCEPT !.tail = "buried"]

Torn(f) == [f EXCEPT !.tail = IF f.tail = "clean" THEN "torn" ELSE "buried"]

SetFd(f) == IF linked THEN wal' = f /\ UNCHANGED old ELSE old' = f /\ UNCHANGED wal

-----------------------------------------------------------------------------
(* Recovery: Store::open, LogicalState::recover and select_recovered.         *)

Last(rs) == rs[Len(rs)]

\* scan_wal refuses a WAL whose sequence numbers are not consecutive.
Consecutive(rs) == \A i, j \in DOMAIN rs : rs[j].seq - rs[i].seq = j - i

\* select_recovered: the WAL continues the snapshot and agrees with it.
Continues(s, rs) ==
    /\ rs # <<>> => rs[1].seq <= s.seq + 1
    /\ \A i \in DOMAIN rs : rs[i].seq = s.seq => rs[i] = s

\* A snapshot that cannot be decoded is as good as none; a WAL record that
\* cannot be decoded makes recovery fail.
Usable(s) == s.val \in Importable
Selectable(s, rs) ==
    /\ \A i \in DOMAIN rs : Usable(rs[i])
    /\ IF Usable(s) THEN Continues(s, rs) ELSE rs # <<>>

\* Fault: a good snapshot hides the WAL.
SelectedSnapshot(s, rs) == IF Usable(s) THEN s ELSE Last(rs)

\* The last WAL record, unless the snapshot is usable and as recent.
Selected(s, rs) ==
    IF rs # <<>> /\ (Usable(s) => Last(rs).seq > s.seq) THEN Last(rs) ELSE s

\* The file scans, a state can be selected, and validate_runtime_limits agrees.
Scans(f) == f.tail \in {"clean", "torn"} /\ Consecutive(f.recs)
Openable(s, f) == Scans(f) /\ Selectable(s, f.recs) /\ f.len <= MaxWal
Recovered(s, f) == Selected(s, f.recs)
Loaded(s, f) == IF Openable(s, f) THEN Recovered(s, f) ELSE NoRecord

-----------------------------------------------------------------------------
Init ==
    /\ pc = "absent" /\ after = "idle"
    /\ live = NoRecord /\ cand = NoRecord /\ snap = NoRecord
    /\ wal = NoFile /\ old = NoFile /\ base = NoFile
    /\ linked = TRUE

Return == pc' = "idle" /\ cand' = NoRecord

(* Store::create.  An error on the way returns Err and leaves the directory.  *)

CreateDirectory(v) ==
    /\ pc = "absent"
    /\ Size[v] <= MaxRecord
    /\ pc' = "create_snap"
    /\ cand' = [seq |-> 1, val |-> v]
    /\ UNCHANGED <<after, live, snap, wal, old, linked, base>>

CreateSnapshot ==
    /\ pc = "create_snap"
    /\ \/ snap' = cand /\ pc' = "create_wal"
       \/ "replace" \in Faults /\ pc' = "down" /\ UNCHANGED snap
       \/ "dirsync" \in Faults /\ pc' = "down" /\ snap' \in {snap, cand}
    /\ UNCHANGED <<after, live, cand, wal, old, linked, base>>

CreateWal ==
    /\ pc = "create_wal"
    /\ \/ wal' = WalHeader /\ pc' = "create_open"
       \/ "replace" \in Faults /\ pc' = "down" /\ UNCHANGED wal
       \/ "dirsync" \in Faults /\ pc' = "down" /\ wal' \in {wal, WalHeader}
    /\ UNCHANGED <<after, live, cand, snap, old, linked, base>>

CreateOpen ==
    /\ pc = "create_open"
    /\ \/ live' = cand /\ Return
       \/ "reopen" \in Faults /\ pc' = "down" /\ UNCHANGED <<live, cand>>
    /\ UNCHANGED <<after, snap, wal, old, linked, base>>

(* commit_candidate: the current state is decoded into a candidate, which is  *)
(* changed and encoded; Store::append checkpoints first when the WAL would    *)
(* grow past a limit.                                                         *)

\* Fault: the sequence wraps (wrapping_add for checked_add).
BeginCommitWraps(v) ==
    /\ pc = "idle"
    /\ Usable(live)
    /\ Size[v] <= MaxRecord
    /\ cand' = [seq |-> (live.seq + 1) % (MaxSeq + 1), val |-> v]
    /\ after' = "append"
    /\ pc' = IF Fd.len + Size[v] > Threshold \/ Fd.len + Size[v] > MaxWal
             THEN "ckpt_snap" ELSE "write"
    /\ UNCHANGED <<live, snap, wal, old, linked, base>>

BeginCommit(v) ==
    /\ pc = "idle"
    /\ Usable(live)
    /\ live.seq < MaxSeq
    /\ Size[v] <= MaxRecord
    /\ cand' = [seq |-> live.seq + 1, val |-> v]
    /\ after' = "append"
    /\ pc' = IF Fd.len + Size[v] > Threshold \/ Fd.len + Size[v] > MaxWal
             THEN "ckpt_snap" ELSE "write"
    /\ UNCHANGED <<live, snap, wal, old, linked, base>>

\* Fault: the candidate goes live before it is synced.
WriteAnnounced ==
    /\ pc = "write"
    /\ base' = Fd
    /\ \/ SetFd(Appended(Fd, cand)) /\ pc' = "sync" /\ live' = cand
       \/ "write" \in Faults /\ SetFd(Torn(Fd)) /\ pc' = "rollback" /\ UNCHANGED live
    /\ UNCHANGED <<after, cand, snap, linked>>

\* append_durable: write_all.
Write ==
    /\ pc = "write"
    /\ base' = Fd
    /\ \/ SetFd(Appended(Fd, cand)) /\ pc' = "sync"
       \/ "write" \in Faults /\ SetFd(Torn(Fd)) /\ pc' = "rollback"
    /\ UNCHANGED <<after, live, cand, snap, linked>>

\* append_durable: sync_data, after which commit_candidate replaces the live state.
Sync ==
    /\ pc = "sync"
    /\ \/ live' = cand /\ Return
       \/ "sync" \in Faults /\ pc' = "rollback" /\ UNCHANGED <<live, cand>>
    /\ UNCHANGED <<after, snap, wal, old, linked, base>>

\* Fault: the file is left as it is after a failed append.
RollbackSkipped ==
    /\ pc = "rollback"
    /\ Return
    /\ UNCHANGED <<after, live, snap, wal, old, linked, base>>

\* rollback_append: the file is cut back; the transaction reports an error.
Rollback ==
    /\ pc = "rollback"
    /\ \/ SetFd(base)
       \/ "rollback" \in Faults /\ UNCHANGED <<wal, old>>
    /\ Return
    /\ UNCHANGED <<after, live, snap, linked, base>>

(* Store::checkpoint, called by append or by PersistentConference::checkpoint. *)

BeginCheckpoint ==
    /\ pc = "idle"
    /\ pc' = "ckpt_snap" /\ after' = "idle"
    /\ UNCHANGED <<live, cand, snap, wal, old, linked, base>>

\* Fault: the WAL is reset without a new snapshot.
CheckpointSnapshotSkipped ==
    /\ pc = "ckpt_snap"
    /\ pc' = "ckpt_wal"
    /\ UNCHANGED <<after, live, cand, snap, wal, old, linked, base>>

\* write_atomic of the snapshot.  When only the directory sync fails the name
\* may lead to the old file or to the new one at the next open.
CheckpointSnapshot ==
    /\ pc = "ckpt_snap"
    /\ \/ snap' = live /\ pc' = "ckpt_wal" /\ UNCHANGED cand
       \/ "replace" \in Faults /\ Return /\ UNCHANGED snap
       \/ "dirsync" \in Faults /\ Return /\ snap' \in {snap, live}
    /\ UNCHANGED <<after, live, wal, old, linked, base>>

\* The name "wal" leads to a fresh file while self.wal stays on the replaced one.
Unlink == wal' = WalHeader /\ old' = Fd /\ linked' = FALSE

\* write_atomic of the WAL header, then the reopen that replaces self.wal.
CheckpointWal ==
    /\ pc = "ckpt_wal"
    /\ \/ /\ wal' = WalHeader /\ old' = NoFile /\ linked' = TRUE
          /\ IF after = "append" /\ Size[cand.val] <= MaxWal
             THEN pc' = "write" /\ UNCHANGED cand
             ELSE Return
       \/ "replace" \in Faults /\ Return /\ UNCHANGED <<wal, old, linked>>
       \/ "dirsync" \in Faults /\ Return /\ (Unlink \/ UNCHANGED <<wal, old, linked>>)
       \/ "reopen" \in Faults /\ Return /\ Unlink
    /\ UNCHANGED <<after, live, snap, base>>

(* The environment: the process stops, or the snapshot goes bad on the disk.  *)

\* What the name "wal" may lead to after a failure at this point: an append that
\* was not synced may be there, in part, or not at all.
CrashImages ==
    IF linked /\ pc \in {"sync", "rollback"} THEN {wal, base, Torn(base)}
    ELSE IF linked /\ pc = "write" THEN {wal, Torn(wal)}
    ELSE {wal}

Crash ==
    /\ pc \notin {"absent", "down"}
    /\ pc' = "down"
    /\ wal' \in CrashImages
    /\ old' = NoFile /\ linked' = TRUE /\ base' = NoFile
    /\ UNCHANGED <<after, live, cand, snap>>

\* The snapshot is read at the next open only, so it may as well go bad then.
SnapshotRots ==
    /\ "rot" \in Faults
    /\ pc = "down" /\ snap.seq # 0
    /\ snap' = NoRecord
    /\ UNCHANGED <<pc, after, live, cand, wal, old, linked, base>>

\* PersistentConference::open.  A torn tail is cut off before recovery is tried;
\* the bytes of a buried tail may parse as a bad record or as an incomplete one.
Reopen ==
    /\ pc = "down"
    /\ LET f == [wal EXCEPT !.tail = "clean"] IN
       /\ wal.tail # "missing" /\ Scans(f)
       /\ wal' = f
       /\ IF Openable(snap, f)
          THEN pc' = "idle" /\ live' = Recovered(snap, f) /\ cand' = NoRecord
          ELSE UNCHANGED <<pc, live, cand>>
    /\ UNCHANGED <<after, snap, old, linked, base>>

Next ==
    \/ \E v \in Values : CreateDirectory(v) \/ BeginCommit(v)
    \/ CreateSnapshot \/ CreateWal \/ CreateOpen
    \/ Write \/ Sync \/ Rollback
    \/ BeginCheckpoint \/ CheckpointSnapshot \/ CheckpointWal
    \/ Crash \/ SnapshotRots \/ Reopen

Spec == Init /\ [][Next]_vars

-----------------------------------------------------------------------------
Stages == {"absent", "down", "idle", "create_snap", "create_wal", "create_open",
           "write", "sync", "rollback", "ckpt_snap", "ckpt_wal"}

\* Every variable keeps its type in every stage of create, append and checkpoint;
\* a state in memory or on disk has a sequence that fits and is not 0, which
\* parse_snapshot, parse_record and decode would refuse.
TypeOK ==
    /\ pc \in Stages /\ after \in {"append", "idle"}
    /\ live \in MaybeRecord /\ cand \in MaybeRecord /\ snap \in MaybeRecord
    /\ wal \in File /\ old \in File /\ base \in File
    /\ linked \in BOOLEAN

\* A restart after a failure at any point loads the state the application last
\* saw or the one transaction that was running, whatever the failure left of an
\* unsynced append (append_durable, checkpoint and select_recovered together).
NoRollback ==
    \A f \in CrashImages : Openable(snap, f) => Recovered(snap, f) \in {live, cand}

\* Once create has returned, a restart after a failure at any point succeeds,
\* unless the snapshot itself has gone bad: no step of append or checkpoint
\* leaves files that Store::open and recover refuse.
Recoverable ==
    live.seq > 0 /\ snap.seq > 0 => \A f \in CrashImages : Openable(snap, f)

\* The application never sees an older state, nor another state under a sequence
\* number it has already seen, across any number of crashes and reopens.
NeverRollsBack ==
    [][live' = live \/ live'.seq > live.seq]_vars

\* The promise of DurableRegister, with what a restart would load as `stored`.
Register == INSTANCE DurableRegister WITH
    Records <- Record,
    Nothing <- NoRecord,
    Decays <- "rot" \in Faults,
    up <- pc \notin {"absent", "down"},
    exposed <- live,
    stored <- Loaded(snap, wal)

\* The store implements the durable register: what a restart would load is the
\* exposed state or its successor after every step of create, append, checkpoint
\* and open, or is lost as a whole with a snapshot that has gone bad.
RefinesRegister == Register!Spec
===============================================================================
