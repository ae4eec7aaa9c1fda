------------------------ MODULE PersistentStoreProofs ------------------------
(* No committed transaction is lost, whatever the limits, the states and the  *)
(* number of transactions, as long as the I/O errors are among the ones       *)
(* append and write_atomic undo: an error before a rename ("replace"), in     *)
(* write_all ("write"), in sync_data ("sync"), or a bad snapshot ("rot").     *)
EXTENDS PersistentStore, TLAPS

\* The directory sync, the reopen after a WAL reset and the truncation in
\* rollback_append succeed, and every state written can be read back.
Reliable ==
    /\ "dirsync" \notin Faults /\ "reopen" \notin Faults /\ "rollback" \notin Faults
    /\ Importable = Values

\* A state that a transaction produced.
Real(r) == r \in Record

\* Snapshot s and WAL f hold state r and nothing newer: the last record is r,
\* and the WAL starts no later than right after the snapshot.
Sound(s, f, r) ==
    /\ f.tail \in {"clean", "torn"}
    /\ f.len <= MaxWal
    /\ Consecutive(f.recs)
    /\ \A i \in DOMAIN f.recs : Real(f.recs[i])
    /\ f.recs # <<>> => Last(f.recs) = r
    /\ f.recs = <<>> => s \in {r, NoRecord}
    /\ s = NoRecord \/ (Real(s) /\ s.seq <= r.seq /\ Continues(s, f.recs))

\* The candidate of a running append.
Successor == Real(cand) /\ cand.seq = live.seq + 1

\* What each stage of create, append, checkpoint and restart has on disk.
IInv ==
    /\ TypeOK
    /\ linked
    /\ pc \in {"absent", "create_snap", "create_wal", "create_open"} => live = NoRecord
    /\ pc \in {"absent", "create_snap", "create_wal"} => wal = NoFile
    /\ pc = "absent" => cand = NoRecord
    /\ pc \in {"absent", "create_snap"} => snap = NoRecord
    /\ pc \in {"create_snap", "create_wal", "create_open"} => Successor
    /\ pc = "create_wal" => snap \in {cand, NoRecord}
    /\ pc = "create_open" => Sound(snap, wal, cand) /\ wal.tail = "clean"
    /\ pc \in {"idle", "write", "ckpt_snap", "ckpt_wal"} =>
         Real(live) /\ Sound(snap, wal, live) /\ wal.tail = "clean"
    /\ pc = "idle" => cand = NoRecord
    /\ pc = "write" => Successor /\ wal.len + Size[cand.val] <= MaxWal
    /\ pc \in {"ckpt_snap", "ckpt_wal"} =>
         IF after = "append" THEN Successor ELSE cand = NoRecord
    /\ pc = "ckpt_wal" => snap \in {live, NoRecord}
    /\ pc \in {"sync", "rollback"} =>
         /\ Real(live) /\ Successor
         /\ Sound(snap, base, live) /\ base.tail = "clean"
         /\ base.len + Size[cand.val] <= MaxWal
         /\ wal \in {Appended(base, cand), Torn(base)}
    /\ pc = "sync" => wal = Appended(base, cand)
    /\ pc = "down" =>
         \/ live = NoRecord /\ wal = NoFile
         \/ Real(live) /\ Sound(snap, wal, live)
         \/ (live = NoRecord \/ Real(live)) /\ Successor /\ Sound(snap, wal, cand)
-----------------------------------------------------------------------------
\* What select_recovered returns from sound files is the state they hold.
LEMMA SoundRecovers ==
    ASSUME Reliable, NEW s \in MaybeRecord, NEW f \in File, NEW r, Real(r), Sound(s, f, r),
           Openable(s, f)
    PROVE  Recovered(s, f) = r
<1>1. CASE f.recs = <<>>
  <2>1. s \in {r, NoRecord}
    BY <1>1 DEF Sound
  <2>2. Usable(s)
    BY <1>1 DEF Openable, Selectable
  <2>3. s # NoRecord
    BY <2>2, StoreAssumption DEF Usable, NoRecord, Reliable
  <2> QED
    BY <1>1, <2>1, <2>3 DEF Recovered, Selected
<1>2. CASE f.recs # <<>>
  <2>1. Last(f.recs) = r
    BY <1>2 DEF Sound
  <2>2. CASE s = NoRecord
    <3>1. ~Usable(s)
      BY <2>2, StoreAssumption DEF Usable, NoRecord, Reliable
    <3> QED
      BY <1>2, <2>1, <3>1 DEF Recovered, Selected
  <2>3. CASE Real(s) /\ s.seq <= r.seq /\ Continues(s, f.recs)
    <3>1. Usable(s)
      BY <2>3 DEF Usable, Real, Record, Reliable
    <3>2. CASE r.seq > s.seq
      BY <1>2, <2>1, <3>2 DEF Recovered, Selected
    <3>3. CASE r.seq = s.seq
      <4>1. Len(f.recs) \in DOMAIN f.recs
        BY <1>2 DEF File
      <4>2. r = s
        BY <2>1, <2>3, <3>3, <4>1 DEF Continues, Last
      <4> QED
        BY <2>1, <3>1, <3>3, <4>2 DEF Recovered, Selected, Real, Record
    <3> QED
      BY <2>3, <3>2, <3>3 DEF Real, Record
  <2> QED
    BY <2>2, <2>3 DEF Sound
<1> QED
  BY <1>1, <1>2

\* Store::open and recover accept sound files with a usable snapshot.
LEMMA SoundOpens ==
    ASSUME Reliable, NEW s \in MaybeRecord, NEW f \in File, NEW r, Sound(s, f, r), s # NoRecord
    PROVE  Openable(s, f)
  BY DEF Reliable, Sound, Openable, Scans, Selectable, Usable, Real, Record

\* A synced append of the successor of r makes the files hold the successor.
LEMMA SoundAppend ==
    ASSUME NEW s \in MaybeRecord, NEW f \in File, NEW r, NEW c, Real(r), Real(c),
           Sound(s, f, r), f.tail = "clean", c.seq = r.seq + 1, f.len + Size[c.val] <= MaxWal
    PROVE  /\ Appended(f, c) \in File
           /\ Sound(s, Appended(f, c), c)
           /\ Appended(f, c).tail = "clean"
<1> DEFINE g == Appended(f, c)
           n == Len(f.recs)
<1>1. /\ g = [recs |-> Append(f.recs, c), len |-> f.len + Size[c.val], tail |-> "clean"]
      /\ f.recs \in Seq(Record) /\ f.len \in Nat /\ c \in Record /\ Size[c.val] \in Nat
  BY StoreAssumption DEF Appended, Real, Record, File
<1>2. g \in File /\ g.recs = Append(f.recs, c) /\ g.len <= MaxWal /\ g.tail = "clean"
  BY <1>1 DEF File
<1>3. /\ n \in Nat /\ n = Len(f.recs) /\ DOMAIN f.recs = 1..n
      /\ DOMAIN g.recs = 1..(n + 1) /\ Len(g.recs) = n + 1
      /\ g.recs[n + 1] = c
      /\ \A i \in 1..n : g.recs[i] = f.recs[i]
  BY <1>1, <1>2 DEF File
<1>4. (\A i \in 1..n : f.recs[i].seq \in Nat) /\ c.seq \in Nat /\ r.seq \in Nat
  <2>1. \A i \in 1..n : f.recs[i] \in Record
    BY <1>1, <1>3
  <2> QED
    BY <2>1 DEF Real, Record
<1> HIDE DEF g, n
<1>5. \A i \in DOMAIN g.recs : Real(g.recs[i])
  <2>1. \A i \in 1..n : Real(f.recs[i])
    BY <1>3 DEF Sound
  <2>2. \A i \in 1..(n + 1) : i = n + 1 \/ i \in 1..n
    BY <1>3
  <2> QED
    BY <1>3, <2>1, <2>2
<1>6. n > 0 => f.recs[n] = r
  <2>1. n > 0 => f.recs # <<>>
    BY <1>3
  <2> QED
    BY <2>1, <1>3 DEF Sound, Last
<1>7. Consecutive(g.recs)
  <2> SUFFICES ASSUME NEW i \in 1..(n + 1), NEW j \in 1..(n + 1)
               PROVE  g.recs[j].seq - g.recs[i].seq = j - i
    BY <1>3, Zenon DEF Consecutive
  <2>1. \A k, l \in 1..n : f.recs[l].seq - f.recs[k].seq = l - k
    BY <1>3, Zenon DEF Sound, Consecutive
  <2>2. \A k \in 1..n : c.seq - f.recs[k].seq = n + 1 - k
    <3> SUFFICES ASSUME NEW k \in 1..n PROVE c.seq - f.recs[k].seq = n + 1 - k
      OBVIOUS
    <3>1. n > 0 /\ n \in 1..n
      BY <1>3
    <3>2. r.seq - f.recs[k].seq = n - k
      BY <3>1, <2>1, <1>6
    <3>3. c.seq = r.seq + 1
      OBVIOUS
    <3>4. r.seq \in Int /\ f.recs[k].seq \in Int /\ n \in Int /\ k \in Int
      BY <1>3, <1>4
    <3> QED
      BY <3>2, <3>3, <3>4
  <2>3. CASE i = n + 1 /\ j = n + 1
    BY <2>3, <1>3, <1>4
  <2>4. CASE i = n + 1 /\ j \in 1..n
    <3>1. g.recs[i] = c /\ g.recs[j] = f.recs[j] /\ c.seq - f.recs[j].seq = n + 1 - j
      BY <2>4, <2>2, <1>3
    <3>2. c.seq \in Int /\ f.recs[j].seq \in Int /\ n \in Int /\ j \in Int
      BY <2>4, <1>3, <1>4
    <3> QED
      BY <2>4, <3>1, <3>2
  <2>5. CASE i \in 1..n /\ j = n + 1
    <3>1. g.recs[j] = c /\ g.recs[i] = f.recs[i] /\ c.seq - f.recs[i].seq = n + 1 - i
      BY <2>5, <2>2, <1>3
    <3>2. c.seq \in Int /\ f.recs[i].seq \in Int /\ n \in Int /\ i \in Int
      BY <2>5, <1>3, <1>4
    <3> QED
      BY <2>5, <3>1, <3>2
  <2>6. CASE i \in 1..n /\ j \in 1..n
    BY <2>6, <2>1, <1>3, Zenon
  <2>7. \A k \in 1..(n + 1) : k = n + 1 \/ k \in 1..n
    BY <1>3
  <2> QED
    BY <2>3, <2>4, <2>5, <2>6, <2>7
<1>8. g.recs # <<>> /\ Last(g.recs) = c
  BY <1>3 DEF Last
<1>9. s = NoRecord \/ (Real(s) /\ s.seq <= c.seq /\ Continues(s, g.recs))
  <2> SUFFICES ASSUME s # NoRecord PROVE Real(s) /\ s.seq <= c.seq /\ Continues(s, g.recs)
    OBVIOUS
  <2>1. Real(s) /\ s.seq <= r.seq /\ Continues(s, f.recs)
    BY DEF Sound
  <2>2. s.seq < c.seq /\ s.seq \in Nat /\ c.seq \in Nat /\ r.seq \in Nat
    BY <2>1 DEF Real, Record
  <2>3. g.recs[1].seq <= s.seq + 1
    <3>1. CASE n = 0
      <4>1. s = r
        BY <3>1, <1>3 DEF Sound
      <4> QED
        BY <4>1, <3>1, <1>3, <2>2
    <3>2. CASE n > 0
      BY <3>2, <1>3, <2>1 DEF Continues
    <3> QED
      BY <3>1, <3>2, <1>3
  <2>4. ASSUME NEW i \in DOMAIN g.recs, g.recs[i].seq = s.seq PROVE g.recs[i] = s
    <3>1. i # n + 1
      BY <2>4, <2>2, <1>3
    <3>2. i \in 1..n
      BY <3>1, <1>3
    <3> QED
      BY <2>4, <3>2, <2>1, <1>3 DEF Continues
  <2> QED
    BY <2>1, <2>2, <2>3, <2>4 DEF Continues
<1> QED
  BY <1>2, <1>5, <1>7, <1>8, <1>9 DEF Sound, g

\* An incomplete record after sound files, or cutting it off, changes nothing.
LEMMA SoundTail ==
    ASSUME NEW s, NEW f \in File, NEW r, Sound(s, f, r)
    PROVE  /\ f.tail = "clean" => Torn(f) \in File /\ Sound(s, Torn(f), r)
           /\ [f EXCEPT !.tail = "clean"] \in File
           /\ Sound(s, [f EXCEPT !.tail = "clean"], r)
  BY DEF Sound, Torn, File

\* A checkpoint's new snapshot is sound with the WAL it makes redundant.
LEMMA SoundSnapshot ==
    ASSUME NEW s, NEW f \in File, NEW r, Real(r), Sound(s, f, r)
    PROVE  Sound(r, f, r)
<1> DEFINE n == Len(f.recs)
<1>1. n \in Nat /\ DOMAIN f.recs = 1..n /\ \A i \in 1..n : f.recs[i] \in Record
  BY DEF File
<1>2. CASE f.recs = <<>>
  BY <1>2 DEF Sound, Continues, Real, Record
<1>3. CASE f.recs # <<>>
  <2>1. n > 0 /\ f.recs[n] = r
    BY <1>1, <1>3 DEF Sound, Last
  <2>2. \A i \in 1..n : f.recs[i].seq = r.seq - (n - i)
    <3> SUFFICES ASSUME NEW i \in 1..n PROVE f.recs[i].seq = r.seq - (n - i)
      OBVIOUS
    <3>1. f.recs[n].seq - f.recs[i].seq = n - i
      BY <1>1, <2>1 DEF Sound, Consecutive
    <3> QED
      BY <3>1, <2>1, <1>1 DEF Record
  <2>3. Continues(r, f.recs)
    <3>1. f.recs[1].seq <= r.seq + 1
      BY <2>1, <2>2, <1>1 DEF Real, Record
    <3>2. ASSUME NEW i \in 1..n, f.recs[i].seq = r.seq PROVE f.recs[i] = r
      <4>1. i = n
        BY <3>2, <2>2, <1>1 DEF Real, Record
      <4> QED
        BY <4>1, <2>1
    <3> QED
      BY <3>1, <3>2, <1>1 DEF Continues
  <2> QED
    BY <2>3, <1>3 DEF Sound, Real, Record
<1> QED
  BY <1>2, <1>3

\* A fresh WAL is sound with the snapshot a checkpoint has just written.
LEMMA SoundReset ==
    ASSUME NEW r, Real(r), NEW s, s \in {r, NoRecord}
    PROVE  WalHeader \in File /\ Sound(s, WalHeader, r) /\ WalHeader.tail = "clean"
  BY StoreAssumption DEF WalHeader, File, Sound, Consecutive, Continues, Real, Record

\* A snapshot that goes bad never makes sound files hold anything else.
LEMMA SoundRot ==
    ASSUME NEW s, NEW f, NEW r, Sound(s, f, r)
    PROVE  Sound(NoRecord, f, r)
  BY DEF Sound

\* The absent record and file are typed.
LEMMA RecordTypes == NoRecord \in MaybeRecord /\ NoFile \in File /\ ~Real(NoRecord)
  BY DEF NoRecord, NoFile, Record, MaybeRecord, File, Real

\* The invariant holds before the store is created.
LEMMA InitInv == Init => IInv
  BY RecordTypes, Zenon DEF Init, IInv, TypeOK, Stages

-----------------------------------------------------------------------------
(* Every step preserves IInv: one lemma per part of the store.                *)

\* Every step of Store::create keeps it.
LEMMA CreateInv ==
    ASSUME IInv, Reliable,
           (\E v \in Values : CreateDirectory(v)) \/ CreateSnapshot \/ CreateWal \/ CreateOpen
    PROVE  IInv'
<1> USE RecordTypes DEF IInv, TypeOK, Stages
<1>1. ASSUME NEW v \in Values, CreateDirectory(v) PROVE IInv'
  <2>1. cand' \in MaybeRecord /\ Successor'
    BY <1>1, StoreAssumption DEF CreateDirectory, Successor, Real, Record, MaybeRecord, NoRecord
  <2> QED
    BY <1>1, <2>1 DEF CreateDirectory
<1>2. CASE CreateSnapshot
  <2>1. Successor'
    BY <1>2 DEF CreateSnapshot, Successor
  <2> QED
    BY <1>2, <2>1 DEF CreateSnapshot, Reliable
<1>3. CASE CreateWal
  <2>1. Successor'
    BY <1>3 DEF CreateWal, Successor
  <2>2. WalHeader \in File /\ Sound(snap, WalHeader, cand) /\ WalHeader.tail = "clean"
    BY <1>3, SoundReset DEF CreateWal, Successor
  <2> QED
    BY <1>3, <2>1, <2>2 DEF CreateWal, Reliable
<1>4. CASE CreateOpen
  <2>1. Real(live') /\ pc' = "idle" /\ cand' = NoRecord /\ live' = cand
    BY <1>4, Zenon DEF CreateOpen, Reliable, Return, Successor
  <2> QED
    BY <1>4, <2>1 DEF CreateOpen
<1> QED
  BY <1>1, <1>2, <1>3, <1>4, Zenon

\* Every step of append_durable and rollback_append keeps it.
LEMMA AppendInv ==
    ASSUME IInv, Reliable, (\E v \in Values : BeginCommit(v)) \/ Write \/ Sync \/ Rollback
    PROVE  IInv'
<1> USE RecordTypes DEF IInv, TypeOK, Stages
<1>1. ASSUME NEW v \in Values, BeginCommit(v) PROVE IInv'
  <2>1. cand' \in MaybeRecord /\ Successor' /\ cand'.val = v
    BY <1>1, StoreAssumption DEF BeginCommit, Successor, Real, Record, MaybeRecord
  <2>2. pc' = "write" => wal.len + Size[v] <= MaxWal
    <3>1. Size[v] \in Nat /\ wal.len \in Nat /\ MaxWal \in Nat
      BY StoreAssumption DEF File
    <3> QED
      BY <1>1, <3>1 DEF BeginCommit, Fd
  <2> QED
    BY <1>1, <2>1, <2>2 DEF BeginCommit
<1>2. CASE Write
  <2>1. Successor'
    BY <1>2 DEF Write, Successor
  <2>2. Appended(wal, cand) \in File /\ Torn(wal) \in File
    BY <1>2, SoundAppend, SoundTail, Zenon DEF Write, Successor
  <2>3. base' = wal /\ linked' /\ UNCHANGED old
    BY <1>2 DEF Write, Fd, SetFd
  <2>4. \/ pc' = "sync" /\ wal' = Appended(wal, cand)
        \/ pc' = "rollback" /\ wal' = Torn(wal)
    BY <1>2, SMTT(30), Zenon DEF Write, Fd, SetFd
  <2> QED
    BY <1>2, <2>1, <2>2, <2>3, <2>4, Zenon DEF Write
<1>3. CASE Sync
  <2>1. CASE live' = cand /\ Return
    <3>1. Real(live') /\ Sound(snap, wal, cand) /\ wal.tail = "clean"
      BY <1>3, <2>1, SoundAppend DEF Sync, Successor
    <3> QED
      BY <1>3, <2>1, <3>1 DEF Sync, Return
  <2>2. CASE pc' = "rollback" /\ UNCHANGED <<live, cand>>
    <3>1. Successor'
      BY <1>3, <2>2 DEF Sync, Successor
    <3> QED
      BY <1>3, <2>2, <3>1 DEF Sync
  <2> QED
    BY <1>3, <2>1, <2>2 DEF Sync
<1>4. CASE Rollback
  BY <1>4, Zenon DEF Rollback, Return, SetFd, Reliable
<1> QED
  BY <1>1, <1>2, <1>3, <1>4, Zenon

\* Every step of checkpoint keeps it.
LEMMA CheckpointInv ==
    ASSUME IInv, Reliable, BeginCheckpoint \/ CheckpointSnapshot \/ CheckpointWal
    PROVE  IInv'
<1> USE RecordTypes DEF IInv, TypeOK, Stages
<1>1. CASE BeginCheckpoint
  BY <1>1, Zenon DEF BeginCheckpoint
<1>2. CASE CheckpointSnapshot
  <2>1. Sound(live, wal, live)
    BY <1>2, SoundSnapshot, Zenon DEF CheckpointSnapshot
  <2>2. CASE snap' = live /\ pc' = "ckpt_wal" /\ UNCHANGED cand
    <3>1. Successor => Successor'
      BY <1>2, <2>2 DEF CheckpointSnapshot, Successor
    <3> QED
      BY <1>2, <2>1, <2>2, <3>1, Zenon DEF CheckpointSnapshot
  <2>3. CASE Return /\ UNCHANGED snap
    BY <1>2, <2>3, Zenon DEF CheckpointSnapshot, Return
  <2> QED
    BY <1>2, <2>2, <2>3, Zenon DEF CheckpointSnapshot, Reliable
<1>3. CASE CheckpointWal
  <2>1. WalHeader \in File /\ Sound(snap, WalHeader, live) /\ WalHeader.tail = "clean"
        /\ WalHeader.len = 0
    BY <1>3, SoundReset, Zenon DEF CheckpointWal, WalHeader
  <2>2. CASE wal' = WalHeader /\ old' = NoFile /\ linked' = TRUE /\ Return
    BY <1>3, <2>1, <2>2 DEF CheckpointWal, Return
  <2>3. CASE /\ wal' = WalHeader /\ old' = NoFile /\ linked' = TRUE
             /\ after = "append" /\ Size[cand.val] <= MaxWal
             /\ pc' = "write" /\ UNCHANGED cand
    <3>1. Successor'
      BY <1>3, <2>3 DEF CheckpointWal, Successor
    <3>2. wal'.len + Size[cand'.val] <= MaxWal
      <4>1. Size[cand.val] \in Nat
        BY <1>3, <2>3, StoreAssumption DEF CheckpointWal, Successor, Real, Record
      <4> QED
        BY <2>1, <2>3, <4>1
    <3> QED
      BY <1>3, <2>1, <2>3, <3>1, <3>2, Zenon DEF CheckpointWal
  <2>4. CASE Return /\ UNCHANGED <<wal, old, linked>>
    BY <1>3, <2>4, Zenon DEF CheckpointWal, Return
  <2> QED
    BY <1>3, <2>2, <2>3, <2>4, Zenon DEF CheckpointWal, Reliable
<1> QED
  BY <1>1, <1>2, <1>3, Zenon

\* What a failure may leave under the name "wal" holds the exposed state or the
\* candidate.
LEMMA ImageSound ==
    ASSUME IInv, Reliable, NEW f \in CrashImages, pc \notin {"absent", "down"}
    PROVE  /\ f \in File
           /\ \/ live = NoRecord /\ f = NoFile
              \/ Real(live) /\ Sound(snap, f, live)
              \/ (live = NoRecord \/ Real(live)) /\ Successor /\ Sound(snap, f, cand)
<1> USE DEF IInv, TypeOK, Stages
<1>1. CASE pc \in {"create_snap", "create_wal", "create_open"}
  BY <1>1 DEF CrashImages
<1>2. CASE pc \in {"idle", "ckpt_snap", "ckpt_wal"}
  BY <1>2 DEF CrashImages
<1>3. CASE pc = "write"
  <2>1. f \in {wal, Torn(wal)}
    BY <1>3 DEF CrashImages
  <2>2. Torn(wal) \in File /\ Sound(snap, Torn(wal), live)
    BY <1>3, SoundTail, Zenon
  <2> QED
    BY <1>3, <2>1, <2>2
<1>4. CASE pc \in {"sync", "rollback"}
  <2>1. f \in {Appended(base, cand), base, Torn(base)}
    BY <1>4 DEF CrashImages
  <2>2. Appended(base, cand) \in File /\ Sound(snap, Appended(base, cand), cand)
    BY <1>4, SoundAppend DEF Successor
  <2>3. Torn(base) \in File /\ Sound(snap, Torn(base), live)
    BY <1>4, SoundTail, Zenon
  <2> QED
    BY <1>4, <2>1, <2>2, <2>3
<1> QED
  BY <1>1, <1>2, <1>3, <1>4

\* What Openable files hold, in the terms of ImageSound.
LEMMA ImageRecovers ==
    ASSUME IInv, Reliable, NEW f \in File, Openable(snap, f),
           \/ live = NoRecord /\ f = NoFile
           \/ Real(live) /\ Sound(snap, f, live)
           \/ (live = NoRecord \/ Real(live)) /\ Successor /\ Sound(snap, f, cand)
    PROVE  \/ Real(live) /\ Recovered(snap, f) = live
           \/ Successor /\ Recovered(snap, f) = cand
<1>1. f # NoFile
  BY DEF Openable, Scans, NoFile
<1>2. snap \in MaybeRecord
  BY DEF IInv, TypeOK
<1>3. ASSUME Real(live), Sound(snap, f, live) PROVE Recovered(snap, f) = live
  BY <1>2, <1>3, SoundRecovers
<1>4. ASSUME Successor, Sound(snap, f, cand) PROVE Recovered(snap, f) = cand
  BY <1>2, <1>4, SoundRecovers DEF Successor
<1> QED
  BY <1>1, <1>3, <1>4

\* A crash, a bad snapshot and a restart keep it.
LEMMA EnvironmentInv ==
    ASSUME IInv, Reliable, Crash \/ SnapshotRots \/ Reopen
    PROVE  IInv'
<1>1. CASE Crash
  <2>1. /\ pc \notin {"absent", "down"} /\ pc' = "down" /\ wal' \in CrashImages
        /\ old' = NoFile /\ linked' = TRUE /\ base' = NoFile
        /\ UNCHANGED <<after, live, cand, snap>>
    BY <1>1 DEF Crash
  <2>2. wal' \in File
    BY <2>1, ImageSound
  <2>3. \/ live = NoRecord /\ wal' = NoFile
        \/ Real(live) /\ Sound(snap, wal', live)
        \/ (live = NoRecord \/ Real(live)) /\ Successor /\ Sound(snap, wal', cand)
    BY <2>1, ImageSound
  <2>4. Successor => Successor'
    BY <2>1, Zenon DEF Successor
  <2> QED
    BY <2>1, <2>2, <2>3, <2>4, RecordTypes DEF IInv, TypeOK, Stages
<1>2. CASE SnapshotRots
  <2>1. /\ pc = "down" /\ snap' = NoRecord
        /\ UNCHANGED <<pc, after, live, cand, wal, old, linked, base>>
    BY <1>2 DEF SnapshotRots
  <2>2. /\ Sound(snap, wal, live) => Sound(NoRecord, wal, live)
        /\ Sound(snap, wal, cand) => Sound(NoRecord, wal, cand)
    BY SoundRot
  <2>3. Successor => Successor'
    BY <2>1 DEF Successor
  <2> QED
    BY <2>1, <2>2, <2>3, RecordTypes DEF IInv, TypeOK, Stages
<1>3. CASE Reopen
  <2> DEFINE f == [wal EXCEPT !.tail = "clean"]
  <2>1. /\ pc = "down" /\ wal.tail # "missing" /\ wal' = f
        /\ UNCHANGED <<after, snap, old, linked, base>>
    BY <1>3 DEF Reopen
  <2>2. \/ Real(live) /\ Sound(snap, wal, live)
        \/ (live = NoRecord \/ Real(live)) /\ Successor /\ Sound(snap, wal, cand)
    BY <2>1 DEF IInv, NoFile
  <2>3. /\ f \in File /\ f.tail = "clean"
        /\ Sound(snap, wal, live) => Sound(snap, f, live)
        /\ Sound(snap, wal, cand) => Sound(snap, f, cand)
    BY SoundTail, Zenon DEF IInv, TypeOK, File
  <2> HIDE DEF f
  <2>4. CASE Openable(snap, f)
    <3>1. pc' = "idle" /\ live' = Recovered(snap, f) /\ cand' = NoRecord
      BY <1>3, <2>4, Zenon DEF Reopen, f
    <3>2. \/ Real(live) /\ Sound(snap, f, live) /\ Recovered(snap, f) = live
          \/ Successor /\ Sound(snap, f, cand) /\ Recovered(snap, f) = cand
      BY <2>2, <2>3, <2>4, SoundRecovers DEF IInv, TypeOK, Successor
    <3>3. Real(live') /\ live' \in MaybeRecord /\ Sound(snap, f, live')
      BY <3>1, <3>2, Zenon DEF Real, MaybeRecord, Successor
    <3> QED
      BY <2>1, <2>3, <3>1, <3>3, RecordTypes DEF IInv, TypeOK, Stages
  <2>5. CASE ~Openable(snap, f)
    <3>1. UNCHANGED <<pc, live, cand>>
      BY <1>3, <2>5 DEF Reopen, f
    <3>2. Successor => Successor'
      BY <3>1 DEF Successor
    <3> QED
      BY <2>1, <2>2, <2>3, <3>1, <3>2 DEF IInv, TypeOK, Stages
  <2> QED
    BY <2>4, <2>5
<1> QED
  BY <1>1, <1>2, <1>3

\* IInv is inductive: every step of the store and of its environment, and every
\* stuttering step, preserves it.
LEMMA StepInv == ASSUME IInv, Reliable, [Next]_vars PROVE IInv'
<1>1. CASE UNCHANGED vars
  <2>1. UNCHANGED <<pc, after, live, cand, snap, wal, old, linked, base>>
    BY <1>1 DEF vars
  <2>2. Successor' <=> Successor
    BY <2>1 DEF Successor
  <2> QED
    BY <2>1, <2>2 DEF IInv, TypeOK
<1>2. CASE Next
  BY <1>2, CreateInv, AppendInv, CheckpointInv, EnvironmentInv DEF Next
<1> QED
  BY <1>1, <1>2, Zenon

\* The invariant always holds of a reliable store.
LEMMA InvHolds == ASSUME Reliable PROVE Spec => []IInv
<1>1. IInv /\ [Next]_vars => IInv'
  BY StepInv
<1> QED
  BY <1>1, InitInv, PTL DEF Spec

-----------------------------------------------------------------------------
\* Every variable of the store keeps its type.
THEOREM TypeCorrect == ASSUME Reliable PROVE Spec => []TypeOK
<1>1. IInv => TypeOK
  BY DEF IInv
<1> QED
  BY <1>1, InvHolds, PTL

\* A restart after a failure at any point of create, append or checkpoint loads
\* the state the application last saw or the transaction that was running.
THEOREM NothingRollsBack == ASSUME Reliable PROVE Spec => []NoRollback
<1>1. IInv => NoRollback
  <2> SUFFICES ASSUME IInv, NEW f \in CrashImages, Openable(snap, f)
               PROVE  Recovered(snap, f) \in {live, cand}
    BY DEF NoRollback
  <2>1. CASE pc \notin {"absent", "down"}
    BY <2>1, ImageSound, ImageRecovers, Zenon
  <2>2. CASE pc \in {"absent", "down"}
    <3>1. f = wal /\ f \in File
      BY <2>2 DEF CrashImages, IInv, TypeOK
    <3> QED
      BY <2>2, <3>1, ImageRecovers, Zenon DEF IInv
  <2> QED
    BY <2>1, <2>2
<1> QED
  BY <1>1, InvHolds, PTL

\* Once create has returned, Store::open and recover accept what a failure at any
\* point leaves, as long as the snapshot is intact.
THEOREM AlwaysRecoverable == ASSUME Reliable PROVE Spec => []Recoverable
<1>1. IInv => Recoverable
  <2> SUFFICES ASSUME IInv, live.seq > 0, snap.seq > 0, NEW f \in CrashImages
               PROVE  Openable(snap, f)
    BY DEF Recoverable
  <2>1. live # NoRecord /\ snap # NoRecord /\ snap \in MaybeRecord
    BY DEF NoRecord, IInv, TypeOK
  <2>2. f \in File /\ (Sound(snap, f, live) \/ Sound(snap, f, cand))
    <3>1. CASE pc \notin {"absent", "down"}
      BY <3>1, <2>1, ImageSound, Zenon
    <3>2. CASE pc \in {"absent", "down"}
      BY <3>2, <2>1 DEF CrashImages, IInv, TypeOK
    <3> QED
      BY <3>1, <3>2
  <2> QED
    BY <2>1, <2>2, SoundOpens
<1> QED
  BY <1>1, InvHolds, PTL

\* The application never sees an older state, nor another state under a sequence
\* number it has seen: the states commit_candidate and open expose only advance.
THEOREM ExposureAdvances == ASSUME Reliable PROVE Spec => NeverRollsBack
<1> DEFINE A == live' = live \/ live'.seq > live.seq
<1>1. ASSUME IInv, [Next]_vars PROVE [A]_vars
  <2>1. ASSUME Successor, live' = cand PROVE A
    BY <1>1, <2>1, StoreAssumption DEF Successor, IInv, TypeOK, Real, Record, MaybeRecord, NoRecord
  <2>2. CASE CreateOpen \/ Sync
    BY <1>1, <2>1, <2>2, Zenon DEF CreateOpen, Sync, IInv
  <2>3. CASE Reopen
    <3> DEFINE f == [wal EXCEPT !.tail = "clean"]
    <3>1. CASE Openable(snap, f)
      <4>1. pc = "down" /\ live' = Recovered(snap, f)
        BY <2>3, <3>1 DEF Reopen
      <4>2. \/ Real(live) /\ Sound(snap, wal, live)
            \/ (live = NoRecord \/ Real(live)) /\ Successor /\ Sound(snap, wal, cand)
        BY <1>1, <2>3, <4>1 DEF IInv, NoFile, Reopen
      <4>3. /\ f \in File
            /\ Sound(snap, wal, live) => Sound(snap, f, live)
            /\ Sound(snap, wal, cand) => Sound(snap, f, cand)
        BY <1>1, SoundTail, Zenon DEF IInv, TypeOK, File
      <4> HIDE DEF f
      <4>4. Recovered(snap, f) = live \/ (Successor /\ Recovered(snap, f) = cand)
        BY <1>1, <3>1, <4>2, <4>3, ImageRecovers
      <4> QED
        BY <2>1, <4>1, <4>4
    <3>2. CASE ~Openable(snap, f)
      BY <2>3, <3>2 DEF Reopen
    <3> QED
      BY <3>1, <3>2
  <2>4. CASE UNCHANGED live
    BY <2>4
  <2> QED
    BY <1>1, <2>2, <2>3, <2>4, Zenon DEF Next, vars, CreateDirectory, CreateSnapshot, CreateWal,
       BeginCommit, Write, Rollback, BeginCheckpoint, CheckpointSnapshot, CheckpointWal,
       Crash, SnapshotRots
<1>2. IInv /\ [Next]_vars => [A]_vars
  BY <1>1
<1> QED
  BY <1>2, InvHolds, PTL DEF Spec, NeverRollsBack

-----------------------------------------------------------------------------
(* Refinement of the durable register.                                        *)

\* There is something to recover from.
Present(s, f) == s # NoRecord \/ f.recs # <<>>

\* A running process can always be restarted from its files.
SInv ==
    /\ pc \in {"create_wal", "ckpt_wal"} => snap # NoRecord
    /\ pc \in {"create_open", "idle", "write", "ckpt_snap", "ckpt_wal"} => Present(snap, wal)
    /\ pc \in {"sync", "rollback"} => Present(snap, base)

\* Sound files open exactly when there is something to recover from.
LEMMA PresentOpens ==
    ASSUME Reliable, NEW s \in MaybeRecord, NEW f \in File, NEW r, Sound(s, f, r)
    PROVE  Openable(s, f) <=> Present(s, f)
<1>1. ASSUME Present(s, f) PROVE Openable(s, f)
  <2>1. CASE s = NoRecord
    <3>1. ~Usable(s)
      BY <2>1, StoreAssumption DEF Usable, NoRecord, Reliable
    <3> QED
      BY <1>1, <2>1, <3>1 DEF Present, Reliable, Sound, Openable, Scans, Selectable, Usable, Real, Record
  <2>2. CASE s # NoRecord
    BY <2>2, SoundOpens
  <2> QED
    BY <2>1, <2>2
<1>2. ASSUME Openable(s, f) PROVE Present(s, f)
  BY <1>2, StoreAssumption DEF Openable, Selectable, Usable, Present, NoRecord, Reliable
<1> QED
  BY <1>1, <1>2

\* Writing to the end of the WAL takes nothing away.
LEMMA KeepsPresent ==
    ASSUME NEW s, NEW f \in File, NEW r \in Record, Present(s, f)
    PROVE  Present(s, Torn(f)) /\ Present(s, Appended(f, r))
<1>1. Torn(f).recs = f.recs
  BY DEF Torn, File
<1>2. CASE f.tail = "clean"
  <2>1. Appended(f, r).recs = Append(f.recs, r)
    BY <1>2 DEF Appended
  <2>2. Append(f.recs, r) # <<>>
    BY DEF File
  <2> QED
    BY <1>1, <2>1, <2>2 DEF Present
<1>3. CASE f.tail # "clean"
  <2>1. Appended(f, r).recs = f.recs
    BY <1>3 DEF Appended, File
  <2> QED
    BY <1>1, <2>1 DEF Present
<1> QED
  BY <1>2, <1>3

\* There is nothing to restart from before the store is created.
LEMMA SInitInv == Init => SInv
  BY DEF Init, SInv

\* A running process always has something to be restarted from.
LEMMA SStepInv == ASSUME IInv, SInv, Reliable, [Next]_vars PROVE SInv'
<1> USE DEF SInv, Reliable
<1>1. ASSUME NEW v \in Values, CreateDirectory(v) PROVE SInv'
  BY <1>1 DEF CreateDirectory
<1>2. CASE CreateSnapshot
  <2>1. Successor
    BY <1>2 DEF IInv, CreateSnapshot
  <2>2. cand # NoRecord
    BY <2>1, RecordTypes DEF Successor
  <2> QED
    BY <1>2, <2>1, <2>2 DEF CreateSnapshot
<1>3. CASE CreateWal
  BY <1>3 DEF CreateWal, Present
<1>4. CASE CreateOpen
  BY <1>4 DEF CreateOpen, Return, Present
<1>5. ASSUME NEW v \in Values, BeginCommit(v) PROVE SInv'
  BY <1>5 DEF BeginCommit, Present
<1>6. CASE Write
  <2>1. base' = wal /\ snap' = snap /\ pc' \in {"sync", "rollback"} /\ UNCHANGED <<live, cand>>
    BY <1>6 DEF Write, Fd, IInv
  <2>2. pc = "write"
    BY <1>6 DEF Write
  <2> QED
    BY <2>1, <2>2 DEF Present
<1>7. CASE Sync
  <2>1. pc = "sync" /\ UNCHANGED <<snap, wal, base>>
    BY <1>7 DEF Sync
  <2>2. wal.recs = Append(base.recs, cand) /\ base.recs \in Seq(Record) /\ cand \in Record
    BY <2>1 DEF IInv, TypeOK, File, Appended
  <2>3. wal.recs # <<>>
    BY <2>2
  <2>4. CASE live' = cand /\ Return
    BY <2>1, <2>3, <2>4 DEF Return, Present
  <2>5. CASE pc' = "rollback" /\ UNCHANGED <<live, cand>>
    BY <2>1, <2>5 DEF Present
  <2> QED
    BY <1>7, <2>4, <2>5 DEF Sync
<1>8. CASE Rollback
  <2>1. pc = "rollback" /\ wal' = base /\ pc' = "idle" /\ cand' = NoRecord /\ UNCHANGED <<snap, live>>
    BY <1>8 DEF Rollback, SetFd, Return, IInv
  <2> QED
    BY <2>1 DEF Present
<1>9. CASE BeginCheckpoint
  BY <1>9 DEF BeginCheckpoint, Present
<1>10. CASE CheckpointSnapshot
  <2>1. live # NoRecord
    BY <1>10, RecordTypes DEF IInv, CheckpointSnapshot
  <2> QED
    BY <1>10, <2>1 DEF CheckpointSnapshot, Return, Present
<1>11. CASE CheckpointWal
  BY <1>11 DEF CheckpointWal, Return, Present
<1>12. CASE Crash \/ SnapshotRots
  BY <1>12 DEF Crash, SnapshotRots
<1>13. CASE Reopen
  <2> DEFINE f == [wal EXCEPT !.tail = "clean"]
  <2>1. wal # NoFile /\ pc = "down" /\ wal' = f /\ snap' = snap
    BY <1>13 DEF Reopen, NoFile
  <2>2. \/ Real(live) /\ Sound(snap, wal, live)
        \/ (live = NoRecord \/ Real(live)) /\ Successor /\ Sound(snap, wal, cand)
    BY <2>1 DEF IInv
  <2>3. /\ f \in File /\ snap \in MaybeRecord
        /\ Sound(snap, wal, live) => Sound(snap, f, live)
        /\ Sound(snap, wal, cand) => Sound(snap, f, cand)
    <3>1. wal \in File /\ snap \in MaybeRecord
      BY DEF IInv, TypeOK
    <3>2. \A r : Sound(snap, wal, r) => f \in File /\ Sound(snap, f, r)
      BY <3>1, SoundTail
    <3> QED
      BY <2>2, <3>1, <3>2
  <2>4. Openable(snap, f) => pc' = "idle" /\ live' = Recovered(snap, f) /\ cand' = NoRecord
    BY <1>13 DEF Reopen
  <2>5. ~Openable(snap, f) => UNCHANGED <<pc, live, cand>>
    BY <1>13 DEF Reopen
  <2> HIDE DEF f
  <2>6. Openable(snap, f) => Recovered(snap, f) \in {live, cand} /\ Present(snap, f)
    BY <2>2, <2>3, ImageRecovers, PresentOpens, Zenon
  <2>7. CASE Openable(snap, f)
    BY <2>1, <2>4, <2>6, <2>7 DEF Present
  <2>8. CASE ~Openable(snap, f)
    BY <2>1, <2>5, <2>8
  <2> QED
    BY <2>7, <2>8
<1>14. CASE UNCHANGED vars
  BY <1>14 DEF vars, Present
<1> QED
  BY <1>1, <1>2, <1>3, <1>4, <1>5, <1>6, <1>7, <1>8, <1>9, <1>10, <1>11, <1>12, <1>13, <1>14
     DEF Next

\* The state a restart loads from sound files.
LEMMA LoadsSound ==
    ASSUME Reliable, NEW s \in MaybeRecord, NEW f \in File, NEW r, Real(r), Sound(s, f, r)
    PROVE  Loaded(s, f) = IF Present(s, f) THEN r ELSE NoRecord
<1>1. Openable(s, f) <=> Present(s, f)
  BY PresentOpens
<1> QED
  BY <1>1, SoundRecovers DEF Loaded

\* A torn write leaves the old state to be loaded, a whole one the new state.
LEMMA LoadsTorn ==
    ASSUME Reliable, NEW s \in MaybeRecord, NEW f \in File, NEW r, Real(r), Sound(s, f, r),
           f.tail = "clean", Present(s, f)
    PROVE  Loaded(s, Torn(f)) = r
<1>1. Torn(f) \in File /\ Sound(s, Torn(f), r)
  BY SoundTail, Zenon
<1>2. r \in Record
  BY DEF Real
<1>3. Present(s, Torn(f))
  BY <1>2, KeepsPresent
<1> QED
  BY <1>1, <1>3, LoadsSound

\* A restart after an append loads what was appended.
LEMMA LoadsAppended ==
    ASSUME Reliable, NEW s \in MaybeRecord, NEW f \in File, NEW r, NEW c, Real(r), Real(c),
           Sound(s, f, r), f.tail = "clean", c.seq = r.seq + 1, f.len + Size[c.val] <= MaxWal,
           Present(s, f)
    PROVE  Loaded(s, Appended(f, c)) = c
<1>1. Appended(f, c) \in File /\ Sound(s, Appended(f, c), c)
  BY SoundAppend
<1>2. c \in Record
  BY DEF Real
<1>3. Present(s, Appended(f, c))
  BY <1>2, KeepsPresent
<1> QED
  BY <1>1, <1>3, LoadsSound

\* A fresh WAL leaves the state of the snapshot to be loaded.
LEMMA LoadsReset ==
    ASSUME Reliable, NEW r, Real(r)
    PROVE  Loaded(r, WalHeader) = r
<1>1. r \in MaybeRecord /\ r # NoRecord
  BY RecordTypes DEF Real, MaybeRecord
<1>2. WalHeader \in File /\ Sound(r, WalHeader, r)
  BY SoundReset
<1>3. Present(r, WalHeader)
  BY <1>1 DEF Present
<1> QED
  BY <1>1, <1>2, <1>3, LoadsSound

\* Without a WAL a restart loads nothing.
LEMMA LoadsNothing == \A s : Loaded(s, NoFile) = NoRecord
  BY Zenon DEF Loaded, Openable, Scans, NoFile

\* What a restart would load, stage by stage.
LEMMA LoadedByStage ==
    ASSUME IInv, SInv, Reliable
    PROVE  /\ pc \in {"absent", "create_snap", "create_wal"} =>
                live = NoRecord /\ Loaded(snap, wal) = NoRecord
           /\ pc = "create_open" => live = NoRecord /\ Loaded(snap, wal) = cand
           /\ pc \in {"idle", "write", "ckpt_snap", "ckpt_wal"} => Loaded(snap, wal) = live
           /\ pc = "sync" => Loaded(snap, wal) = cand
           /\ pc \in {"sync", "rollback"} =>
                /\ Loaded(snap, base) = live /\ Loaded(snap, Torn(base)) = live
                /\ Loaded(snap, wal) \in {live, cand}
<1> USE DEF IInv, TypeOK
<1>1. pc \in {"absent", "create_snap", "create_wal"} => Loaded(snap, wal) = NoRecord
  BY LoadsNothing, Zenon
<1>2. ASSUME pc = "create_open" PROVE Loaded(snap, wal) = cand
  BY <1>2, LoadsSound, Zenon DEF SInv, Successor
<1>3. ASSUME pc \in {"idle", "write", "ckpt_snap", "ckpt_wal"} PROVE Loaded(snap, wal) = live
  BY <1>3, LoadsSound, Zenon DEF SInv
<1>4. ASSUME pc \in {"sync", "rollback"}
      PROVE  /\ Loaded(snap, base) = live /\ Loaded(snap, Torn(base)) = live
             /\ Loaded(snap, Appended(base, cand)) = cand
  <2>1. Present(snap, base)
    BY <1>4, Zenon DEF SInv
  <2> QED
    BY <1>4, <2>1, LoadsSound, LoadsTorn, LoadsAppended, Zenon DEF Successor
<1> QED
  BY <1>1, <1>2, <1>3, <1>4, Zenon

\* The candidate is a state the register may hold.
LEMMA SuccessorIsRecord ==
    ASSUME SInv, Successor, IInv
    PROVE  cand \in {r \in Record : r.seq = live.seq + 1}
  BY DEF Successor, Real

\* Every step of the store is one of the register, or none.
LEMMA RefinesStep ==
    ASSUME IInv, SInv, Reliable, [Next]_vars
    PROVE  [Register!Next]_(Register!vars)
<1> DEFINE up == pc \notin {"absent", "down"}
           stored == Loaded(snap, wal)
           Same == (up' <=> up) /\ live' = live /\ stored' = stored
<1> SUFFICES Register!Next \/ Same
  BY Zenon DEF Register!vars
<1> USE LoadedByStage
<1>1. ASSUME NEW v \in Values, CreateDirectory(v) PROVE Register!Create
  BY <1>1, Zenon DEF CreateDirectory, Register!Create, IInv, NoFile
<1>2. CASE CreateSnapshot
  <2>1. live = NoRecord /\ stored = NoRecord /\ stored' = NoRecord
    BY <1>2, LoadsNothing, Zenon DEF CreateSnapshot, IInv
  <2>2. CASE pc' = "create_wal"
    BY <1>2, <2>1, <2>2 DEF CreateSnapshot
  <2>3. CASE pc' = "down"
    <3>1. Register!Stop
      BY <1>2, <2>1, <2>3 DEF CreateSnapshot, Register!Stop
    <3> QED
      BY <3>1 DEF Register!Next
  <2> QED
    BY <1>2, <2>2, <2>3, Zenon DEF CreateSnapshot
<1>3. CASE CreateWal
  <2>1. live = NoRecord /\ stored = NoRecord /\ Successor
    BY <1>3, Zenon DEF CreateWal, IInv
  <2>2. CASE wal' = WalHeader /\ pc' = "create_open"
    <3>1. snap = cand /\ Real(cand)
      BY <1>3, <2>1, Zenon DEF CreateWal, IInv, SInv, Successor
    <3>2. Loaded(snap, WalHeader) = cand
      BY <3>1, LoadsReset, Zenon
    <3>3. Register!Store
      BY <1>3, <2>1, <2>2, <3>2, SuccessorIsRecord DEF CreateWal, Register!Store
    <3> QED
      BY <3>3, Zenon DEF Register!Next
  <2>3. CASE pc' = "down" /\ UNCHANGED wal
    <3>1. Register!Stop
      BY <1>3, <2>1, <2>3 DEF CreateWal, Register!Stop
    <3> QED
      BY <3>1 DEF Register!Next
  <2> QED
    BY <1>3, <2>2, <2>3, Zenon DEF CreateWal, Reliable
<1>4. CASE CreateOpen
  <2>1. Register!Announce
    BY <1>4 DEF CreateOpen, Return, Reliable, Register!Announce
  <2> QED
    BY <2>1 DEF Register!Next
<1>5. ASSUME NEW v \in Values, BeginCommit(v) PROVE Same
  BY <1>5, Zenon DEF BeginCommit
<1>6. CASE Write
  <2>1. stored = live /\ Successor /\ Real(live) /\ Present(snap, wal)
    BY <1>6, ZenonT(30) DEF Write, IInv, SInv
  <2>2. CASE wal' = Appended(wal, cand) /\ pc' = "sync"
    <3>1. Loaded(snap, Appended(wal, cand)) = cand
      BY <1>6, <2>1, LoadsAppended, Zenon DEF Write, IInv, TypeOK, Successor
    <3>2. Register!Store
      BY <1>6, <2>1, <2>2, <3>1, SuccessorIsRecord DEF Write, Register!Store
    <3> QED
      BY <3>2 DEF Register!Next
  <2>3. CASE wal' = Torn(wal) /\ pc' = "rollback"
    <3>1. Loaded(snap, Torn(wal)) = live
      BY <1>6, <2>1, LoadsTorn, Zenon DEF Write, IInv, TypeOK
    <3> QED
      BY <1>6, <2>1, <2>3, <3>1, Zenon DEF Write
  <2> QED
    BY <1>6, <2>2, <2>3, ZenonT(30) DEF Write, SetFd, Fd, IInv
<1>7. CASE Sync
  <2>1. CASE live' = cand /\ Return
    <3>1. Register!Announce
      BY <1>7, <2>1 DEF Sync, Return, Register!Announce
    <3> QED
      BY <3>1 DEF Register!Next
  <2>2. CASE pc' = "rollback" /\ UNCHANGED <<live, cand>>
    BY <1>7, <2>2 DEF Sync
  <2> QED
    BY <1>7, <2>1, <2>2 DEF Sync
<1>8. CASE Rollback
  <2>1. Register!Withdraw
    BY <1>8, Zenon DEF Rollback, Return, SetFd, IInv, Reliable, Register!Withdraw
  <2> QED
    BY <2>1, Zenon DEF Register!Next
<1>9. CASE BeginCheckpoint
  BY <1>9 DEF BeginCheckpoint
<1>10. CASE CheckpointSnapshot
  <2>1. live \in MaybeRecord /\ wal \in File /\ snap \in MaybeRecord /\ Real(live) /\ Sound(snap, wal, live) /\ stored = live
    BY <1>10, Zenon DEF CheckpointSnapshot, IInv, TypeOK
  <2>2. Sound(live, wal, live)
    BY <2>1, SoundSnapshot
  <2>3. Present(live, wal)
    BY <2>1, RecordTypes DEF Present
  <2>4. Loaded(live, wal) = live
    BY <2>1, <2>2, <2>3, LoadsSound, Zenon
  <2> QED
    BY <1>10, <2>1, <2>4, Zenon DEF CheckpointSnapshot, Return, Reliable
<1>11. CASE CheckpointWal
  <2>1. snap = live /\ Real(live) /\ stored = live
    BY <1>11, Zenon DEF CheckpointWal, IInv, SInv
  <2>2. Loaded(snap, WalHeader) = live
    BY <2>1, LoadsReset
  <2> QED
    BY <1>11, <2>1, <2>2, Zenon DEF CheckpointWal, Return, Reliable
<1>12. CASE Crash
  <2>1. ASSUME NEW f \in CrashImages PROVE Loaded(snap, f) \in {stored, live}
    <3>1. CASE pc \in {"sync", "rollback"}
      BY <2>1, <3>1, ZenonT(30) DEF CrashImages, IInv
    <3>2. CASE pc = "write"
      <4>1. Loaded(snap, Torn(wal)) = live
        BY <3>2, LoadsTorn, Zenon DEF IInv, SInv, TypeOK
      <4> QED
        BY <2>1, <3>2, <4>1, ZenonT(30) DEF CrashImages, IInv
    <3>3. CASE pc \notin {"sync", "rollback", "write"}
      BY <2>1, <3>3 DEF CrashImages
    <3> QED
      BY <3>1, <3>2, <3>3, Zenon
  <2>2. Register!Stop
    BY <1>12, <2>1 DEF Crash, Register!Stop
  <2> QED
    BY <2>2 DEF Register!Next
<1>13. CASE Reopen
  <2> DEFINE f == [wal EXCEPT !.tail = "clean"]
  <2>1. /\ pc = "down" /\ wal.tail # "missing" /\ wal' = f /\ UNCHANGED snap
        /\ snap \in MaybeRecord /\ wal \in File
    BY <1>13 DEF Reopen, IInv, TypeOK
  <2>2. PICK r : /\ Real(r) /\ Sound(snap, wal, r)
    BY <2>1 DEF IInv, NoFile, Successor
  <2>3. f \in File /\ Sound(snap, f, r)
    BY <2>1, <2>2, SoundTail
  <2>4. Present(snap, f) <=> Present(snap, wal)
    BY <2>1 DEF Present, File
  <2>5. Openable(snap, f) => pc' = "idle" /\ live' = Recovered(snap, f)
    BY <1>13 DEF Reopen
  <2>6. ~Openable(snap, f) => UNCHANGED <<pc, live>>
    BY <1>13 DEF Reopen
  <2> HIDE DEF f
  <2>7. CASE Present(snap, f)
    <3>1. Loaded(snap, wal) = r /\ Loaded(snap, f) = r /\ Openable(snap, f)
      BY <2>1, <2>2, <2>3, <2>4, <2>7, LoadsSound, PresentOpens
    <3>2. pc' = "idle" /\ live' = r
      BY <2>5, <3>1 DEF Loaded
    <3>3. Register!Restart
      BY <2>1, <2>2, <3>1, <3>2, RecordTypes DEF Register!Restart
    <3> QED
      BY <3>3 DEF Register!Next
  <2>8. CASE ~Present(snap, f)
    <3>1. Loaded(snap, wal) = NoRecord /\ Loaded(snap, f) = NoRecord /\ ~Openable(snap, f)
      BY <2>1, <2>2, <2>3, <2>4, <2>8, LoadsSound, PresentOpens
    <3> QED
      BY <2>1, <2>6, <3>1
  <2> QED
    BY <2>7, <2>8
<1>15. CASE SnapshotRots
  <2>1. /\ pc = "down" /\ "rot" \in Faults /\ snap' = NoRecord
        /\ UNCHANGED <<pc, live, wal>> /\ snap \in MaybeRecord /\ wal \in File
    BY <1>15, Zenon DEF SnapshotRots, IInv, TypeOK
  <2>2. stored' \in {stored, NoRecord}
    <3>1. CASE wal = NoFile
      BY <2>1, <3>1, LoadsNothing
    <3>2. CASE wal # NoFile
      <4>1. PICK r : Real(r) /\ Sound(snap, wal, r)
        BY <2>1, <3>2, Zenon DEF IInv, Successor
      <4>2. Sound(NoRecord, wal, r)
        BY <4>1, SoundRot
      <4>3. Present(NoRecord, wal) => Present(snap, wal)
        BY DEF Present
      <4> QED
        BY <2>1, <4>1, <4>2, <4>3, LoadsSound, RecordTypes, Zenon
    <3> QED
      BY <3>1, <3>2
  <2>3. CASE stored' = stored
    BY <2>1, <2>3
  <2>4. CASE stored' = NoRecord
    <3>1. Register!Lose
      BY <2>1, <2>4 DEF Register!Lose
    <3> QED
      BY <3>1 DEF Register!Next
  <2> QED
    BY <2>2, <2>3, <2>4, Zenon
<1>14. CASE UNCHANGED vars
  BY <1>14 DEF vars
<1> QED
  BY <1>1, <1>2, <1>3, <1>4, <1>5, <1>6, <1>7, <1>8, <1>9, <1>10, <1>11, <1>12, <1>13, <1>14,
     <1>15 DEF Next, Register!Next

\* The snapshot/WAL store implements the durable register: every step of create,
\* append, checkpoint, failure and restart is a step of it or changes nothing.
THEOREM ImplementsRegister == ASSUME Reliable PROVE Spec => RefinesRegister
<1>1. Init => Register!Init
  BY LoadsNothing DEF Init, Register!Init
<1>2. IInv /\ SInv /\ [Next]_vars => [Register!Next]_(Register!vars)
  BY RefinesStep
<1>3. IInv /\ SInv /\ [Next]_vars => SInv'
  BY SStepInv
<1>4. Spec => []IInv
  BY InvHolds
<1> QED
  BY <1>1, <1>2, <1>3, <1>4, SInitInv, PTL DEF Spec, RefinesRegister, Register!Spec
===============================================================================
