---------------------------- MODULE StoreProofs ----------------------------
(***************************************************************************)
(* Proofs about the durable store, for every value of the constants: any   *)
(* number of records, kills and failed calls, and segments up to the       *)
(* number from which file names are read differently (MaxNumber).          *)
(***************************************************************************)
EXTENDS Store, Recursion, SequenceTheorems, FiniteSetTheorems, TLAPS

-----------------------------------------------------------------------------
(* The inductive invariant *)

\* The segment CURRENT names.
Segment == logs[pointer.wal].records

\* CURRENT names files that are there, and a process works on the pair CURRENT names.
PairInUse ==
  /\ pointer.wal \in 0..(MaxNumber + 1)
  /\ pointer.wal = 0 => pointer.snapshot = 0 /\ ~open
  /\ pointer.wal # 0 => /\ pointer.snapshot = pointer.wal - 1
                        /\ logs[pointer.wal].present
                        /\ pointer.snapshot # 0 => snapshots[pointer.snapshot].present
  /\ open => wal_segment = pointer.wal /\ snapshot_sequence = pointer.snapshot

\* Record k of a segment is one whose commit was refused or cut short (none when k is one
\* past the end): the record behind it takes its sequence.
InOrder(s, base, k) ==
  \A i \in 1..Len(s) : s[i].sequence = base + (IF i <= k THEN i ELSE i - 1)
\* Only record k is cut off, and the last one when its process was killed.
CutOnlyAt(s, k, running) ==
  \A i \in 1..Len(s) : i # k /\ (running \/ i < Len(s)) => s[i].missing = 0
\* A process has published the snapshot and every record of the segment but k.
Published(s, k) == IF k <= Len(s) THEN Len(s) - 1 ELSE Len(s)
Follows(m, payload, s, k) ==
  /\ Len(m) = Len(payload) + Published(s, k)
  /\ \A i \in 1..Len(payload) : m[i] = payload[i]
  /\ \A i \in 1..Len(s) : /\ i < k => m[Len(payload) + i] = s[i].payload
                          /\ i > k => m[Len(payload) + i - 1] = s[i].payload

\* Without a failed commit, k is at most the last record of a killed process.
RefusedAt(k) ==
  /\ InOrder(Segment, Base.sequence, k) /\ CutOnlyAt(Segment, k, open)
  /\ commit_faults = 0 => k >= Len(Segment) /\ (open => k > Len(Segment))
  /\ open => /\ last_sequence = Base.sequence + Published(Segment, k)
             /\ Follows(memory, Base.payload, Segment, k)

LogInOrder ==
  pointer.wal # 0 /\ commit_faults <= 1 => \E k \in 1..(Len(Segment) + 1) : RefusedAt(k)

StoreInvariant == TypeOK /\ PairInUse /\ LogInOrder

-----------------------------------------------------------------------------
(* Sequences *)

\* The first records of a sequence.
LEMMA Prefix ==
  ASSUME NEW S, NEW s \in Seq(S), NEW n \in 0..Len(s)
  PROVE  /\ SubSeq(s, 1, n) \in Seq(S) /\ Len(SubSeq(s, 1, n)) = n
         /\ \A i \in 1..n : SubSeq(s, 1, n)[i] = s[i]
<1>1. Len(s) \in Nat /\ n \in Nat /\ \A i \in 1..n : s[i] \in S
  BY LenProperties, ElementOfSeq
<1> QED
  BY <1>1, SubSeqProperties

\* Whole() returns the records before the first one that is cut off.
LEMMA WholeIsPrefix ==
  ASSUME NEW s \in Seq(Entries)
  PROVE  \E n \in 0..Len(s) :
           /\ Whole(s) = SubSeq(s, 1, n)
           /\ \A i \in 1..n : s[i].missing = 0
           /\ n < Len(s) => Cut(s, n + 1)
<1>1. DOMAIN s = 1..Len(s) /\ Len(s) \in Nat /\ \A i \in 1..Len(s) : s[i] \in Entries
  BY LenProperties, ElementOfSeq
<1>2. \A i \in 1..Len(s) : s[i].missing \in Nat
  BY <1>1, StoreAssumption DEF Entries
<1>3. CASE \E i \in DOMAIN s : s[i].missing > 0
  <2> DEFINE T == {i \in 1..Len(s) : s[i].missing > 0}
  <2>1. T \in SUBSET Nat /\ T # {}
    BY <1>1, <1>3
  <2>2. PICK m \in T : \A k \in T : m <= k
    BY <2>1, LeastNumber
  <2>3. m \in 1..Len(s) /\ s[m].missing > 0 /\ \A j \in 1..(m - 1) : s[j].missing = 0
    BY <1>1, <1>2, <2>2
  <2>4. Cut(s, m)
    BY <2>3 DEF Cut
  <2>5. ASSUME NEW i \in DOMAIN s, Cut(s, i)
        PROVE  i = m
    BY <1>1, <1>2, <2>3, <2>5 DEF Cut
  <2>6. (CHOOSE i \in DOMAIN s : Cut(s, i)) = m
    BY <1>1, <2>3, <2>4, <2>5
  <2>7. Whole(s) = SubSeq(s, 1, m - 1)
    BY <1>3, <2>6 DEF Whole
  <2> QED
    BY <1>1, <2>3, <2>4, <2>7
<1>4. CASE ~(\E i \in DOMAIN s : s[i].missing > 0)
  <2>1. Whole(s) = s /\ SubSeq(s, 1, Len(s)) = s
    BY <1>4, SubSeqFull DEF Whole
  <2>2. \A i \in 1..Len(s) : s[i].missing = 0
    BY <1>1, <1>2, <1>4
  <2>3. Len(s) \in 0..Len(s) /\ ~(Len(s) < Len(s))
    BY <1>1
  <2> QED
    BY <2>1, <2>2, <2>3
<1> QED
  BY <1>3, <1>4

LEMMA WholeType ==
  ASSUME NEW s \in Seq(Entries)
  PROVE  Whole(s) \in Seq(Entries)
  BY WholeIsPrefix, Prefix

\* Decoding what was decoded changes nothing.
LEMMA WholeIsWhole ==
  ASSUME NEW s \in Seq(Entries), \A i \in 1..Len(s) : s[i].missing = 0
  PROVE  Whole(s) = s
<1>1. DOMAIN s = 1..Len(s)
  BY LenProperties
<1> QED
  BY <1>1 DEF Whole

-----------------------------------------------------------------------------
(* Types *)

LEMMA FileTypes ==
  /\ NoSnapshot \in SnapshotFiles /\ NoLog \in LogFiles /\ EmptyLog \in LogFiles
  /\ 1 \in Numbers /\ Numbers \subseteq Nat
<1>1. <<>> \in Seq(Payloads) /\ <<>> \in Seq(Entries)
  BY EmptySeq
<1> QED
  BY <1>1, StoreAssumption DEF NoSnapshot, NoLog, EmptyLog, SnapshotFiles, LogFiles, Numbers

\* What open() reads is well formed.
LEMMA RecoveryTypes ==
  ASSUME TypeOK, PairInUse
  PROVE  /\ Base \in SnapshotFiles /\ Base.sequence \in Nat /\ Base.payload \in Seq(Payloads)
         /\ Records \in Seq(Entries) /\ Replayed \in Seq(Entries)
         /\ RecoveredSequence \in Nat /\ Contents \in Seq(Payloads)
         /\ pointer.wal # 0 => pointer.wal \in Numbers /\ Segment \in Seq(Entries)
<1>1. pointer.wal # 0 => pointer.wal \in Numbers /\ Segment \in Seq(Entries)
  BY StoreAssumption DEF TypeOK, PairInUse, Numbers, LogFiles, Segment
<1>2. Base \in SnapshotFiles /\ Base.sequence \in Nat /\ Base.payload \in Seq(Payloads)
  <2>1. pointer.snapshot # 0 => pointer.snapshot \in Numbers
    BY StoreAssumption DEF TypeOK, PairInUse, Numbers
  <2>2. Base \in SnapshotFiles
    BY <2>1, FileTypes DEF Base, TypeOK
  <2> QED
    BY <2>2 DEF SnapshotFiles
<1>3. Records \in Seq(Entries)
  BY <1>1, WholeType, EmptySeq DEF Records, Segment
<1>4. Replayed \in Seq(Entries)
  <2>1. DOMAIN Records = 1..Len(Records) /\ Len(Records) \in Nat
    BY <1>3, LenProperties
  <2>2. IsFiniteSet(1..Len(Records))
    BY <2>1, FS_Interval
  <2>3. IsFiniteSet(Skipped)
    BY <2>1, <2>2, FS_Subset DEF Skipped
  <2>4. Cardinality(Skipped) \in Nat
    BY <2>3, FS_CardinalityType
  <2>5. \A i \in (Cardinality(Skipped) + 1)..Len(Records) : Records[i] \in Entries
    BY <1>3, <2>1, <2>4, ElementOfSeq
  <2> QED
    BY <2>1, <2>4, <2>5, SubSeqProperties DEF Replayed
<1>5. DOMAIN Replayed = 1..Len(Replayed) /\ Len(Replayed) \in Nat
      /\ \A i \in 1..Len(Replayed) : Replayed[i] \in Entries
  BY <1>4, LenProperties, ElementOfSeq
<1>6. RecoveredSequence \in Nat
  <2>1. Replayed # <<>> => Len(Replayed) \in 1..Len(Replayed)
    BY <1>4, <1>5, EmptySeq
  <2> QED
    BY <1>2, <1>5, <2>1 DEF RecoveredSequence, Entries
<1>7. Contents \in Seq(Payloads)
  <2>1. [i \in DOMAIN Replayed |-> Replayed[i].payload] \in [1..Len(Replayed) -> Payloads]
    BY <1>5 DEF Entries
  <2>2. [i \in DOMAIN Replayed |-> Replayed[i].payload] \in Seq(Payloads)
    BY <1>5, <2>1, SeqDef
  <2> QED
    BY <1>2, <2>2, ConcatProperties DEF Contents
<1> QED
  BY <1>1, <1>2, <1>3, <1>4, <1>6, <1>7

\* Cleaning up, whether it gets to the end or stops on the way, keeps the pair in use.
LEMMA CleanupKeeps ==
  ASSUME NEW s \in [Numbers -> SnapshotFiles], NEW l \in [Numbers -> LogFiles],
         NEW c \in [snapshot : Nat, wal : Nat], Cleanup(s, l, c) \/ CleanupStops(s, l, c)
  PROVE  /\ snapshots' \in [Numbers -> SnapshotFiles] /\ logs' \in [Numbers -> LogFiles]
         /\ c.snapshot \in Numbers => snapshots'[c.snapshot] = s[c.snapshot]
         /\ c.wal \in Numbers => logs'[c.wal] = l[c.wal]
<1>1. /\ c.snapshot \notin OldSnapshots(s, c.snapshot)
      /\ \A last : c.snapshot \notin UpTo(last, OldSnapshots(s, c.snapshot))
  BY DEF OldSnapshots, UpTo
<1>2. /\ c.wal \notin OldLogs(l, c.wal)
      /\ \A last : c.wal \notin UpTo(last, OldLogs(l, c.wal))
  BY DEF OldLogs, UpTo
<1>3. \E gone : snapshots' = Without(s, gone, NoSnapshot) /\ c.snapshot \notin gone
  <2>1. CASE snapshots' = Without(s, OldSnapshots(s, c.snapshot), NoSnapshot)
    BY <1>1, <2>1
  <2>2. CASE \E last \in OldSnapshots(s, c.snapshot) \cup {0} :
               snapshots' = Without(s, UpTo(last, OldSnapshots(s, c.snapshot)), NoSnapshot)
    BY <1>1, <2>2
  <2> QED
    BY <2>1, <2>2 DEF Cleanup, CleanupStops
<1>4. \E lost : logs' = Without(l, lost, NoLog) /\ c.wal \notin lost
  <2>1. l = Without(l, {}, NoLog) /\ c.wal \notin {}
    BY DEF Without
  <2>2. CASE logs' = l
    BY <2>1, <2>2
  <2>3. CASE logs' = Without(l, OldLogs(l, c.wal), NoLog)
    BY <1>2, <2>3
  <2>4. CASE \E last \in OldLogs(l, c.wal) : logs' = Without(l, UpTo(last, OldLogs(l, c.wal)), NoLog)
    BY <1>2, <2>4
  <2> QED
    BY <2>2, <2>3, <2>4 DEF Cleanup, CleanupStops
<1> QED
  BY <1>3, <1>4, FileTypes DEF Without

-----------------------------------------------------------------------------
(* What the steps do to the files *)

FilesOK == /\ pointer \in [snapshot : Nat, wal : Nat]
           /\ snapshots \in [Numbers -> SnapshotFiles] /\ logs \in [Numbers -> LogFiles]

\* CURRENT and the two files it names, as PairInUse has them.
PairInPlace ==
  /\ pointer.wal \in Numbers /\ pointer.snapshot = pointer.wal - 1
  /\ logs[pointer.wal].present /\ (pointer.snapshot # 0 => snapshots[pointer.snapshot].present)

LEMMA InPlace ==
  ASSUME TypeOK, PairInUse, pointer.wal # 0
  PROVE  /\ FilesOK /\ PairInPlace /\ (pointer.snapshot # 0 => pointer.snapshot \in Numbers)
         /\ Segment \in Seq(Entries)
  BY RecoveryTypes, StoreAssumption DEF TypeOK, FilesOK, PairInUse, PairInPlace, Numbers

\* open() repairs the tail and removes old files, or is killed doing so.
LEMMA OpenFiles ==
  ASSUME TypeOK, PairInUse, Open \/ OpenKilled
  PROVE  FilesOK' /\ PairInPlace' /\ pointer' = pointer /\ Segment' = Records /\ Base' = Base
<1>1. pointer.wal # 0 /\ pointer' = pointer
      /\ (Cleanup(snapshots, Repaired, pointer) \/ CleanupStops(snapshots, Repaired, pointer))
  BY DEF Open, OpenKilled
<1>2. FilesOK /\ PairInPlace /\ (pointer.snapshot # 0 => pointer.snapshot \in Numbers)
      /\ Records \in Seq(Entries)
  BY <1>1, InPlace, RecoveryTypes
<1>3. Repaired \in [Numbers -> LogFiles]
      /\ Repaired[pointer.wal] = [present |-> TRUE, records |-> Records]
  BY <1>2 DEF Repaired, FilesOK, PairInPlace, LogFiles
<1>4. /\ snapshots' \in [Numbers -> SnapshotFiles] /\ logs' \in [Numbers -> LogFiles]
      /\ pointer.snapshot \in Numbers => snapshots'[pointer.snapshot] = snapshots[pointer.snapshot]
      /\ pointer.wal \in Numbers => logs'[pointer.wal] = Repaired[pointer.wal]
  <2>1. snapshots \in [Numbers -> SnapshotFiles] /\ pointer \in [snapshot : Nat, wal : Nat]
    BY <1>2 DEF FilesOK
  <2> QED
    BY <1>1, <1>3, <2>1, CleanupKeeps
<1> QED
  BY <1>1, <1>2, <1>3, <1>4 DEF FilesOK, PairInPlace, Segment, Base

\* An append to the segment in use.
LEMMA AppendFiles ==
  ASSUME TypeOK, PairInUse, open, NEW p \in Payloads, NEW missing \in 0..MaxMissing,
         logs' = Appended(Record(p, missing)), UNCHANGED <<pointer, snapshots>>
  PROVE  /\ FilesOK' /\ PairInPlace' /\ Record(p, missing) \in Entries
         /\ Segment' = Append(Segment, Record(p, missing)) /\ Base' = Base
<1>1. pointer.wal # 0 /\ wal_segment = pointer.wal
  BY DEF PairInUse
<1>2. FilesOK /\ PairInPlace /\ Segment \in Seq(Entries)
  BY <1>1, InPlace
<1>3. Record(p, missing) \in Entries
  BY StoreAssumption DEF Record, Entries, TypeOK
<1>4. Append(Segment, Record(p, missing)) \in Seq(Entries)
  BY <1>2, <1>3, AppendProperties
<1>5. logs' = [logs EXCEPT ![pointer.wal].records = Append(Segment, Record(p, missing))]
  BY <1>1 DEF Appended, Segment
<1>6. logs' \in [Numbers -> LogFiles] /\ logs'[pointer.wal].present = logs[pointer.wal].present
      /\ logs'[pointer.wal].records = Append(Segment, Record(p, missing))
  <2> DEFINE r == Append(Segment, Record(p, missing))
  <2> HIDE DEF r
  <2>1. logs' = [logs EXCEPT ![pointer.wal].records = r] /\ r \in Seq(Entries)
    BY <1>4, <1>5 DEF r
  <2>2. logs \in [Numbers -> LogFiles] /\ pointer.wal \in Numbers
    BY <1>2 DEF FilesOK, PairInPlace
  <2> DEFINE f == [present |-> logs[pointer.wal].present, records |-> r]
  <2>3. f \in LogFiles /\ f = [logs[pointer.wal] EXCEPT !.records = r]
    BY <2>1, <2>2 DEF LogFiles
  <2>4. logs' = [logs EXCEPT ![pointer.wal] = f]
    BY <2>1, <2>3
  <2>5. logs' \in [Numbers -> LogFiles] /\ logs'[pointer.wal] = f
    <3> HIDE DEF f
    <3> QED
      BY <2>2, <2>3, <2>4
  <2> QED
    BY <2>5 DEF r
<1> QED
  BY <1>2, <1>3, <1>6 DEF FilesOK, PairInPlace, Segment, Base

\* The files write_snapshot writes before it replaces CURRENT.
LEMMA NextFiles ==
  ASSUME TypeOK, PairInUse, open, wal_segment < MaxNumber
  PROVE  /\ NextSnapshot \in [Numbers -> SnapshotFiles] /\ NextLogs \in [Numbers -> LogFiles]
         /\ NextPointer \in [snapshot : Nat, wal : Nat]
         /\ NextPointer.wal = pointer.wal + 1 /\ NextPointer.snapshot = pointer.wal
         /\ pointer.wal \in Numbers /\ pointer.wal + 1 \in Numbers
         /\ NextSnapshot = [snapshots EXCEPT ![pointer.wal] =
                              [present |-> TRUE, sequence |-> last_sequence, payload |-> memory]]
         /\ NextLogs = [logs EXCEPT ![pointer.wal + 1] = EmptyLog]
<1>1. /\ pointer.wal # 0 /\ wal_segment = pointer.wal /\ pointer.wal \in Nat
      /\ snapshot_sequence = pointer.wal - 1
  BY StoreAssumption DEF PairInUse
<1>2. pointer.wal \in Numbers /\ pointer.wal + 1 \in Numbers /\ snapshot_sequence + 1 = pointer.wal
  BY <1>1, StoreAssumption DEF Numbers
<1>3. [present |-> TRUE, sequence |-> last_sequence, payload |-> memory] \in SnapshotFiles
  BY DEF TypeOK, SnapshotFiles
<1>4. /\ NextSnapshot = [snapshots EXCEPT ![pointer.wal] =
                           [present |-> TRUE, sequence |-> last_sequence, payload |-> memory]]
      /\ NextLogs = [logs EXCEPT ![pointer.wal + 1] = EmptyLog]
  BY <1>1, <1>2 DEF NextSnapshot, NextLogs
<1>5. NextSnapshot \in [Numbers -> SnapshotFiles] /\ NextLogs \in [Numbers -> LogFiles]
  BY <1>2, <1>3, <1>4, FileTypes DEF TypeOK
<1> QED
  BY <1>1, <1>2, <1>4, <1>5 DEF NextPointer

\* write_snapshot gets to the point where CURRENT names the new pair.
LEMMA SnapshotFilesWritten ==
  ASSUME TypeOK, PairInUse, open, wal_segment < MaxNumber, pointer' = NextPointer,
         \/ Cleanup(NextSnapshot, NextLogs, NextPointer)
         \/ CleanupStops(NextSnapshot, NextLogs, NextPointer)
  PROVE  /\ FilesOK' /\ PairInPlace' /\ Segment' = <<>>
         /\ Base' = [present |-> TRUE, sequence |-> last_sequence, payload |-> memory]
<1>1. /\ snapshots' \in [Numbers -> SnapshotFiles] /\ logs' \in [Numbers -> LogFiles]
      /\ snapshots'[pointer.wal] = NextSnapshot[pointer.wal]
      /\ logs'[pointer.wal + 1] = NextLogs[pointer.wal + 1]
  BY NextFiles, CleanupKeeps
<1>2. /\ NextSnapshot[pointer.wal] =
           [present |-> TRUE, sequence |-> last_sequence, payload |-> memory]
      /\ NextLogs[pointer.wal + 1] = EmptyLog
  BY NextFiles DEF TypeOK
<1>3. pointer'.wal = pointer.wal + 1 /\ pointer'.snapshot = pointer.wal /\ pointer.wal # 0
      /\ pointer.wal \in Nat
  BY NextFiles, FileTypes DEF PairInUse
<1> QED
  BY <1>1, <1>2, <1>3, NextFiles DEF FilesOK, PairInPlace, Segment, Base, EmptyLog

\* It does not: the files of the pair in use are as they were.
LEMMA PreparingFiles ==
  ASSUME TypeOK, PairInUse, open, wal_segment < MaxNumber, Preparing
  PROVE  FilesOK' /\ PairInPlace' /\ pointer' = pointer /\ Segment' = Segment /\ Base' = Base
<1>1. pointer' = pointer /\ snapshots' = NextSnapshot /\ (logs' = logs \/ logs' = NextLogs)
  BY DEF Preparing
<1>2. pointer.wal # 0 /\ FilesOK /\ PairInPlace
  BY InPlace DEF PairInUse
<1>3. logs' \in [Numbers -> LogFiles] /\ logs'[pointer.wal] = logs[pointer.wal]
  BY <1>1, <1>2, NextFiles, FileTypes DEF FilesOK
<1>4. pointer.snapshot # 0 => snapshots'[pointer.snapshot] = snapshots[pointer.snapshot]
  <2>1. pointer.snapshot # pointer.wal
    <3>1. pointer.wal \in Nat /\ pointer.snapshot = pointer.wal - 1
      BY <1>2, FileTypes DEF PairInPlace
    <3> QED
      BY <3>1
  <2>2. pointer.snapshot # 0 => pointer.snapshot \in Numbers
    BY <1>2, InPlace
  <2> QED
    BY <1>1, <1>2, <2>1, <2>2, NextFiles DEF FilesOK
<1> QED
  BY <1>1, <1>2, <1>3, <1>4, NextFiles DEF FilesOK, PairInPlace, Segment, Base

-----------------------------------------------------------------------------
(* The type invariant *)

LEMMA StoreTypeInit == Init => TypeOK /\ PairInUse
<1> SUFFICES ASSUME Init PROVE TypeOK /\ PairInUse
  OBVIOUS
<1>1. <<>> \in Seq(Payloads)
  BY EmptySeq
<1>2. TypeOK
  BY <1>1, FileTypes DEF Init, TypeOK
<1>3. PairInUse
  BY StoreAssumption DEF Init, PairInUse
<1> QED
  BY <1>2, <1>3

\* CURRENT in place again, the process where it should be: the invariant holds again.
LEMMA TypesFromFiles ==
  ASSUME FilesOK', PairInPlace',
         open' \in BOOLEAN, litter' \in BOOLEAN, commit_faults' \in Nat, snapshot_faults' \in Nat,
         last_sequence' \in Nat, snapshot_sequence' \in Nat, wal_segment' \in Nat,
         memory' \in Seq(Payloads),
         open' => wal_segment' = pointer'.wal /\ snapshot_sequence' = pointer'.snapshot
  PROVE  TypeOK' /\ PairInUse'
<1>1. TypeOK'
  BY DEF TypeOK, FilesOK
<1>2. pointer'.wal # 0 /\ pointer'.wal \in 0..(MaxNumber + 1)
  BY StoreAssumption DEF PairInPlace, Numbers
<1> QED
  BY <1>1, <1>2 DEF PairInUse, PairInPlace

LEMMA KilledTypes ==
  ASSUME Killed
  PROVE  /\ open' = FALSE /\ last_sequence' \in Nat /\ snapshot_sequence' \in Nat
         /\ wal_segment' \in Nat /\ memory' \in Seq(Payloads)
  BY EmptySeq DEF Killed

LEMMA StoreTypeNext == TypeOK /\ PairInUse /\ [Next]_vars => TypeOK' /\ PairInUse'
<1> SUFFICES ASSUME TypeOK, PairInUse, [Next]_vars PROVE TypeOK' /\ PairInUse'
  OBVIOUS
<1>0. /\ open \in BOOLEAN /\ litter \in BOOLEAN /\ commit_faults \in Nat /\ snapshot_faults \in Nat
      /\ last_sequence \in Nat /\ snapshot_sequence \in Nat /\ wal_segment \in Nat
      /\ memory \in Seq(Payloads)
      /\ open => /\ pointer.wal # 0 /\ wal_segment = pointer.wal
                 /\ snapshot_sequence = pointer.snapshot
  BY DEF TypeOK, PairInUse
<1>1. CASE OpenFresh
  <2>1. pointer' = [snapshot |-> 0, wal |-> 1] /\ snapshots' = snapshots /\ logs' = FirstLog
    BY <1>1 DEF OpenFresh
  <2>2. FilesOK' /\ PairInPlace'
    BY <2>1, FileTypes DEF TypeOK, FilesOK, PairInPlace, FirstLog, EmptyLog
  <2>3. /\ open' = TRUE /\ wal_segment' = 1 /\ snapshot_sequence' = 0 /\ last_sequence' = 0
        /\ memory' = <<>> /\ litter' = litter /\ UNCHANGED faults
    BY <1>1 DEF OpenFresh
  <2>4. memory' \in Seq(Payloads)
    BY <2>3, EmptySeq
  <2> QED
    BY <1>0, <2>1, <2>2, <2>3, <2>4, TypesFromFiles DEF faults
<1>2. CASE OpenFreshKilled
  <2>1. /\ pointer.wal = 0 /\ UNCHANGED <<pointer, snapshots, process, faults>>
        /\ litter' \in BOOLEAN /\ logs' \in [Numbers -> LogFiles]
    BY <1>2, FileTypes DEF OpenFreshKilled, FirstLog, TypeOK
  <2> QED
    BY <2>1 DEF TypeOK, PairInUse, process, faults
<1>3. CASE Open
  <2>1. FilesOK' /\ PairInPlace' /\ pointer' = pointer
    BY <1>3, OpenFiles
  <2>2. /\ open' = TRUE /\ wal_segment' = pointer.wal /\ snapshot_sequence' = pointer.snapshot
        /\ last_sequence' = RecoveredSequence /\ memory' = Contents
        /\ litter' = litter /\ UNCHANGED faults
    BY <1>3 DEF Open
  <2>3. pointer.wal \in Nat /\ pointer.snapshot \in Nat
    BY DEF TypeOK
  <2>4. last_sequence' \in Nat /\ memory' \in Seq(Payloads)
    BY <2>2, RecoveryTypes
  <2> QED
    BY <1>0, <2>1, <2>2, <2>3, <2>4, TypesFromFiles DEF faults
<1>4. CASE OpenKilled
  <2>1. FilesOK' /\ PairInPlace' /\ pointer' = pointer
    BY <1>4, OpenFiles
  <2>2. ~open /\ litter' = litter /\ UNCHANGED <<process, faults>>
    BY <1>4 DEF OpenKilled
  <2> QED
    BY <1>0, <2>1, <2>2, TypesFromFiles DEF faults, process
<1>5. CASE Kill
  <2>1. Killed /\ UNCHANGED <<files, faults>>
    BY <1>5 DEF Kill
  <2>2. UNCHANGED <<pointer, snapshots, logs, litter, commit_faults, snapshot_faults>>
    BY <2>1 DEF files, faults
  <2> QED
    BY <2>1, <2>2, KilledTypes DEF TypeOK, PairInUse
<1>6. ASSUME NEW p \in Payloads, Commit(p) \/ CommitKilled(p) \/ CommitFails(p)
      PROVE  TypeOK' /\ PairInUse'
  <2>1. PICK missing \in 0..MaxMissing : logs' = Appended(Record(p, missing))
    BY <1>6, StoreAssumption DEF Commit, CommitKilled, CommitFails
  <2>2. open /\ UNCHANGED <<pointer, snapshots, litter>>
    BY <1>6 DEF Commit, CommitKilled, CommitFails
  <2>3. FilesOK' /\ PairInPlace'
    BY <2>1, <2>2, AppendFiles
  <2>4. CASE Commit(p)
    <3>1. /\ last_sequence' = last_sequence + 1 /\ memory' = Append(memory, p)
          /\ UNCHANGED <<open, snapshot_sequence, wal_segment, faults>>
      BY <2>4 DEF Commit
    <3>2. memory' \in Seq(Payloads)
      BY <1>0, <3>1, AppendProperties
    <3> QED
      BY <1>0, <2>2, <2>3, <3>1, <3>2, TypesFromFiles DEF faults
  <2>5. CASE CommitKilled(p)
    <3>1. Killed /\ UNCHANGED faults
      BY <2>5 DEF CommitKilled
    <3> QED
      BY <1>0, <2>2, <2>3, <3>1, KilledTypes, TypesFromFiles DEF faults
  <2>6. CASE CommitFails(p)
    <3>1. commit_faults' = commit_faults + 1 /\ UNCHANGED <<process, snapshot_faults>>
      BY <2>6 DEF CommitFails
    <3> QED
      BY <1>0, <2>2, <2>3, <3>1, TypesFromFiles DEF process
  <2> QED
    BY <1>6, <2>4, <2>5, <2>6
<1>7. CASE WriteSnapshot \/ WriteSnapshotKilled \/ WriteSnapshotFails
  <2>1. open /\ wal_segment < MaxNumber /\ litter' = litter
    BY <1>7 DEF WriteSnapshot, WriteSnapshotKilled, WriteSnapshotFails
  <2>2. \/ Preparing
        \/ /\ pointer' = NextPointer
           /\ \/ Cleanup(NextSnapshot, NextLogs, NextPointer)
              \/ CleanupStops(NextSnapshot, NextLogs, NextPointer)
    BY <1>7 DEF WriteSnapshot, WriteSnapshotKilled, WriteSnapshotFails
  <2>3. FilesOK' /\ PairInPlace' /\ (pointer' = NextPointer \/ Preparing)
        /\ (Preparing => pointer' = pointer)
    BY <2>1, <2>2, PreparingFiles, SnapshotFilesWritten
  <2>4. NextPointer.wal = wal_segment + 1 /\ NextPointer.snapshot = snapshot_sequence + 1
    BY DEF NextPointer
  <2>5. CASE WriteSnapshot
    <3>1. /\ pointer' = NextPointer /\ wal_segment' = wal_segment + 1
          /\ snapshot_sequence' = snapshot_sequence + 1
          /\ UNCHANGED <<open, last_sequence, memory, faults>>
      BY <2>5 DEF WriteSnapshot
    <3> QED
      BY <1>0, <2>1, <2>3, <2>4, <3>1, TypesFromFiles DEF faults
  <2>6. CASE WriteSnapshotKilled
    <3>1. Killed /\ UNCHANGED faults
      BY <2>6 DEF WriteSnapshotKilled
    <3> QED
      BY <1>0, <2>1, <2>3, <3>1, KilledTypes, TypesFromFiles DEF faults
  <2>7. CASE WriteSnapshotFails
    <3>1. /\ snapshot_faults' = snapshot_faults + 1
          /\ UNCHANGED <<open, last_sequence, memory, commit_faults>>
      BY <2>7 DEF WriteSnapshotFails
    <3>2. \/ pointer' = pointer /\ UNCHANGED <<snapshot_sequence, wal_segment>>
          \/ /\ pointer' = NextPointer /\ wal_segment' = wal_segment + 1
             /\ snapshot_sequence' = snapshot_sequence + 1
      BY <2>7 DEF WriteSnapshotFails, Preparing
    <3> QED
      BY <1>0, <2>1, <2>3, <2>4, <3>1, <3>2, TypesFromFiles
  <2> QED
    BY <1>7, <2>5, <2>6, <2>7
<1>8. CASE UNCHANGED vars
  BY <1>8 DEF vars, files, process, faults, TypeOK, PairInUse
<1> QED
  BY <1>1, <1>2, <1>3, <1>4, <1>5, <1>6, <1>7, <1>8 DEF Next

\* Files, process and counters keep their types, and CURRENT always names files that exist and
\* that the process is working on, whatever was killed, failed or cleaned up.
THEOREM StoreTypeCorrect == Spec => [](TypeOK /\ PairInUse)
<1> QED
  BY StoreTypeInit, StoreTypeNext, PTL DEF Spec

-----------------------------------------------------------------------------
(* What a recovery yields *)

\* The records that replay finds are numbered one by one from the snapshot on.
Consecutive == \A i \in 1..Len(Records) : Records[i].sequence = Base.sequence + i

\* Then nothing is skipped or out of order, and the contents are the snapshot's and theirs.
LEMMA RecoveredInOrder ==
  TypeOK /\ PairInUse /\ Consecutive =>
    /\ ~Regresses(Records) /\ Replayed = Records
    /\ RecoveredSequence = Base.sequence + Len(Records)
    /\ Contents \in Seq(Payloads) /\ Len(Contents) = Len(Base.payload) + Len(Records)
    /\ \A i \in 1..Len(Base.payload) : Contents[i] = Base.payload[i]
    /\ \A i \in 1..Len(Records) : Contents[Len(Base.payload) + i] = Records[i].payload
<1> SUFFICES ASSUME TypeOK, PairInUse, Consecutive
             PROVE  /\ ~Regresses(Records) /\ Replayed = Records
                    /\ RecoveredSequence = Base.sequence + Len(Records)
                    /\ Contents \in Seq(Payloads)
                    /\ Len(Contents) = Len(Base.payload) + Len(Records)
                    /\ \A i \in 1..Len(Base.payload) : Contents[i] = Base.payload[i]
                    /\ \A i \in 1..Len(Records) :
                         Contents[Len(Base.payload) + i] = Records[i].payload
  OBVIOUS
<1>1. /\ Base.sequence \in Nat /\ Base.payload \in Seq(Payloads) /\ Records \in Seq(Entries)
      /\ Contents \in Seq(Payloads)
  BY RecoveryTypes
<1>2. /\ DOMAIN Records = 1..Len(Records) /\ Len(Records) \in Nat /\ Len(Base.payload) \in Nat
      /\ \A i \in 1..Len(Records) : Records[i] \in Entries
  BY <1>1, LenProperties, ElementOfSeq
<1>3. ~Regresses(Records)
  <2> SUFFICES ASSUME NEW i \in 1..(Len(Records) - 1), Records[i].sequence >= Records[i + 1].sequence
               PROVE  FALSE
    BY DEF Regresses
  <2>1. i \in 1..Len(Records) /\ i + 1 \in 1..Len(Records) /\ i \in Nat
    BY <1>2
  <2>2. Records[i].sequence = Base.sequence + i /\ Records[i + 1].sequence = Base.sequence + (i + 1)
    BY <2>1 DEF Consecutive
  <2> QED
    BY <1>1, <2>1, <2>2
<1>4. Skipped = {}
  BY <1>1, <1>2 DEF Skipped, Beyond, Consecutive
<1>5. Replayed = Records
  <2>1. Cardinality(Skipped) = 0
    BY <1>4, FS_EmptySet
  <2> QED
    BY <1>1, <2>1, SubSeqFull DEF Replayed
<1>6. RecoveredSequence = Base.sequence + Len(Records)
  <2>1. CASE Records = <<>>
    BY <1>1, <1>5, <2>1 DEF RecoveredSequence
  <2>2. CASE Records # <<>>
    <3>1. Len(Records) \in 1..Len(Records)
      BY <1>1, <1>2, <2>2, EmptySeq
    <3> QED
      BY <1>5, <2>2, <3>1 DEF RecoveredSequence, Consecutive
  <2> QED
    BY <2>1, <2>2
<1>7. /\ Len(Contents) = Len(Base.payload) + Len(Records)
      /\ \A i \in 1..Len(Base.payload) : Contents[i] = Base.payload[i]
      /\ \A i \in 1..Len(Records) : Contents[Len(Base.payload) + i] = Records[i].payload
  <2> DEFINE added == [i \in DOMAIN Records |-> Records[i].payload]
  <2>1. added \in [1..Len(Records) -> Payloads]
    BY <1>2 DEF Entries
  <2>2. added \in Seq(Payloads) /\ Len(added) = Len(Records)
    <3> HIDE DEF added
    <3> QED
      BY <1>2, <2>1, SeqDef, LenProperties
  <2>3. \A i \in 1..Len(Records) : added[i] = Records[i].payload
    BY <1>2
  <2>4. Contents = Base.payload \o added
    BY <1>5 DEF Contents
  <2> HIDE DEF added
  <2>5. /\ Len(Contents) = Len(Base.payload) + Len(added)
        /\ \A i \in 1..(Len(Base.payload) + Len(added)) :
             Contents[i] = IF i <= Len(Base.payload) THEN Base.payload[i]
                           ELSE added[i - Len(Base.payload)]
    BY <1>1, <2>2, <2>4, ConcatProperties
  <2>6. ASSUME NEW i \in 1..Len(Base.payload)
        PROVE  Contents[i] = Base.payload[i]
    BY <1>2, <2>2, <2>5
  <2>7. ASSUME NEW i \in 1..Len(Records)
        PROVE  Contents[Len(Base.payload) + i] = Records[i].payload
    <3>1. /\ Len(Base.payload) + i \in 1..(Len(Base.payload) + Len(added))
          /\ ~(Len(Base.payload) + i <= Len(Base.payload))
          /\ Len(Base.payload) + i - Len(Base.payload) = i
      BY <1>2, <2>2
    <3>2. ASSUME NEW j \in 1..(Len(Base.payload) + Len(added)), ~(j <= Len(Base.payload))
          PROVE  Contents[j] = added[j - Len(Base.payload)]
      BY <2>5, <3>2
    <3>3. Contents[Len(Base.payload) + i] = added[Len(Base.payload) + i - Len(Base.payload)]
      BY <3>1, <3>2
    <3> QED
      BY <2>3, <3>1, <3>3
  <2> QED
    BY <2>2, <2>5, <2>6, <2>7
<1> QED
  BY <1>1, <1>3, <1>5, <1>6, <1>7

\* Of a segment in order with one refused record, an open that succeeds finds a part of the
\* records up to that one: had it got further, two sequences would not have advanced.
LEMMA ReadableIsInOrder ==
  ASSUME TypeOK, PairInUse, pointer.wal # 0, NEW k \in 1..(Len(Segment) + 1), RefusedAt(k),
         ~Regresses(Records)
  PROVE  /\ Consecutive /\ Len(Records) <= k
         /\ Len(Records) \in 0..Len(Segment)
         /\ \A i \in 1..Len(Records) : Records[i] = Segment[i] /\ Records[i].missing = 0
         /\ Len(Records) < Len(Segment) => Segment[Len(Records) + 1].missing > 0
<1>1. Segment \in Seq(Entries) /\ Len(Segment) \in Nat /\ Base.sequence \in Nat
  BY RecoveryTypes, LenProperties
<1>2. PICK n \in 0..Len(Segment) : /\ Records = SubSeq(Segment, 1, n)
                                   /\ \A i \in 1..n : Segment[i].missing = 0
                                   /\ n < Len(Segment) => Cut(Segment, n + 1)
  BY <1>1, WholeIsPrefix DEF Records, Segment
<1>3. /\ Len(Records) = n /\ n \in Nat /\ k \in Nat
      /\ \A i \in 1..n : Records[i] = Segment[i]
  BY <1>1, <1>2, Prefix
<1>4. \A i \in 1..n : Records[i].sequence = Base.sequence + (IF i <= k THEN i ELSE i - 1)
  BY <1>1, <1>3 DEF RefusedAt, InOrder
<1>5. n <= k
  <2> SUFFICES ASSUME n > k PROVE FALSE
    BY <1>3
  <2>1. k \in 1..(n - 1) /\ k \in 1..n /\ k + 1 \in 1..n
    BY <1>3
  <2>2. Records[k].sequence = Base.sequence + k /\ Records[k + 1].sequence = Base.sequence + k
    BY <1>1, <1>3, <1>4, <2>1
  <2>3. Records[k].sequence >= Records[k + 1].sequence
    BY <1>1, <1>3, <2>2
  <2> QED
    BY <1>3, <2>1, <2>3 DEF Regresses
<1>6. Consecutive
  BY <1>1, <1>3, <1>4, <1>5 DEF Consecutive
<1> QED
  BY <1>2, <1>3, <1>5, <1>6 DEF Cut

-----------------------------------------------------------------------------
(* The segment stays in order *)

\* A segment without refused records, and a process that has published all of it.
LEMMA CleanSegment ==
  ASSUME Segment' \in Seq(Entries), Base'.sequence \in Nat, Base'.payload \in Seq(Payloads),
         \A i \in 1..Len(Segment') :
           Segment'[i].missing = 0 /\ Segment'[i].sequence = Base'.sequence + i,
         open' => /\ last_sequence' = Base'.sequence + Len(Segment')
                  /\ Len(memory') = Len(Base'.payload) + Len(Segment')
                  /\ \A i \in 1..Len(Base'.payload) : memory'[i] = Base'.payload[i]
                  /\ \A i \in 1..Len(Segment') :
                       memory'[Len(Base'.payload) + i] = Segment'[i].payload
  PROVE  LogInOrder'
<1>1. PICK n \in Nat : n = Len(Segment')
  BY LenProperties
<1>2. n + 1 \in 1..(n + 1) /\ ~(n + 1 <= n) /\ n + 1 >= n /\ n + 1 > n
  BY <1>1
<1>3. \A i \in 1..n : i <= n + 1 /\ i < n + 1 /\ ~(i > n + 1) /\ i # n + 1
  BY <1>1
<1>4. InOrder(Segment', Base'.sequence, n + 1)
  BY <1>1, <1>3 DEF InOrder
<1>5. CutOnlyAt(Segment', n + 1, open')
  BY <1>1 DEF CutOnlyAt
<1>6. Published(Segment', n + 1) = n
  BY <1>1, <1>2 DEF Published
<1>7. open' => Follows(memory', Base'.payload, Segment', n + 1)
  BY <1>1, <1>3, <1>6 DEF Follows
<1>8. RefusedAt(n + 1)'
  BY <1>1, <1>2, <1>4, <1>5, <1>6, <1>7 DEF RefusedAt
<1> QED
  BY <1>1, <1>2, <1>8 DEF LogInOrder

LEMMA InOrderInit == Init => LogInOrder
  BY DEF Init, LogInOrder

\* open() leaves the records it read.
LEMMA InOrderOpen ==
  ASSUME StoreInvariant, TypeOK', PairInUse', Open \/ OpenKilled
  PROVE  LogInOrder'
<1> SUFFICES ASSUME commit_faults <= 1 PROVE LogInOrder'
  BY DEF Open, OpenKilled, faults, LogInOrder
<1>1. pointer.wal # 0 /\ ~Regresses(Records)
  BY DEF Open, OpenKilled, Readable
<1>2. PICK k \in 1..(Len(Segment) + 1) : RefusedAt(k)
  BY <1>1 DEF StoreInvariant, LogInOrder
<1>3. Consecutive /\ \A i \in 1..Len(Records) : Records[i].missing = 0
  BY <1>1, <1>2, ReadableIsInOrder DEF StoreInvariant
<1>4. Segment' = Records /\ Base' = Base
  BY OpenFiles DEF StoreInvariant
<1>5. Base.sequence \in Nat /\ Base.payload \in Seq(Payloads) /\ Records \in Seq(Entries)
  BY RecoveryTypes DEF StoreInvariant
<1>6. open' => memory' = Contents /\ last_sequence' = RecoveredSequence
  BY DEF Open, OpenKilled, process
<1>7. /\ RecoveredSequence = Base.sequence + Len(Records)
      /\ Len(Contents) = Len(Base.payload) + Len(Records)
      /\ \A i \in 1..Len(Base.payload) : Contents[i] = Base.payload[i]
      /\ \A i \in 1..Len(Records) : Contents[Len(Base.payload) + i] = Records[i].payload
  BY <1>3, RecoveredInOrder DEF StoreInvariant
<1> QED
  BY <1>3, <1>4, <1>5, <1>6, <1>7, CleanSegment DEF Consecutive

\* A step that leaves segment and snapshot alone, killing the process or not.
LEMMA InOrderFrame ==
  ASSUME StoreInvariant, Segment' = Segment, Base' = Base, commit_faults' = commit_faults,
         pointer.wal # 0,
         \/ UNCHANGED <<open, last_sequence, memory>>
         \/ open' = FALSE
  PROVE  LogInOrder'
<1> SUFFICES ASSUME commit_faults <= 1
             PROVE  \E k \in 1..(Len(Segment') + 1) : RefusedAt(k)'
  BY DEF LogInOrder
<1>1. PICK k \in 1..(Len(Segment) + 1) : RefusedAt(k)
  BY DEF StoreInvariant, LogInOrder
<1>2. CASE UNCHANGED <<open, last_sequence, memory>>
  BY <1>1, <1>2 DEF RefusedAt
<1>3. CASE open' = FALSE
  <2>1. CutOnlyAt(Segment, k, FALSE)
    BY <1>1 DEF RefusedAt, CutOnlyAt
  <2> QED
    BY <1>1, <1>3, <2>1 DEF RefusedAt
<1> QED
  BY <1>2, <1>3

\* write_snapshot starts a segment behind a snapshot of what is published.
LEMMA InOrderSnapshot ==
  ASSUME StoreInvariant, WriteSnapshot \/ WriteSnapshotKilled \/ WriteSnapshotFails
  PROVE  LogInOrder'
<1>1. open /\ wal_segment < MaxNumber /\ TypeOK /\ PairInUse
  BY DEF StoreInvariant, WriteSnapshot, WriteSnapshotKilled, WriteSnapshotFails
<1>2. /\ commit_faults' = commit_faults
      /\ UNCHANGED <<open, last_sequence, memory>> \/ open' = FALSE
  BY DEF WriteSnapshot, WriteSnapshotKilled, WriteSnapshotFails, Killed, faults
<1>3. CASE Preparing
  <2>1. Segment' = Segment /\ Base' = Base /\ pointer.wal # 0
    BY <1>1, <1>3, PreparingFiles DEF PairInUse
  <2> QED
    BY <1>2, <2>1, InOrderFrame
<1>4. CASE ~Preparing
  <2>1. /\ Segment' = <<>>
        /\ Base' = [present |-> TRUE, sequence |-> last_sequence, payload |-> memory]
    BY <1>1, <1>4, SnapshotFilesWritten DEF WriteSnapshot, WriteSnapshotKilled, WriteSnapshotFails
  <2>2. /\ Base'.sequence = last_sequence /\ Base'.payload = memory
        /\ last_sequence \in Nat /\ memory \in Seq(Payloads) /\ Len(memory) \in Nat
    BY <1>1, <2>1, LenProperties DEF TypeOK
  <2>3. Segment' \in Seq(Entries) /\ Len(Segment') = 0
    BY <2>1, EmptySeq
  <2> QED
    BY <1>2, <2>2, <2>3, CleanSegment
<1> QED
  BY <1>3, <1>4

\* An append keeps the order: behind a refused record it repeats a sequence, otherwise it
\* continues; a refused one takes the place that is still free.
LEMMA InOrderAppend ==
  ASSUME StoreInvariant, open, NEW p \in Payloads, NEW missing \in 0..MaxMissing,
         logs' = Appended(Record(p, missing)), UNCHANGED <<pointer, snapshots>>,
         \* the commit succeeds, the process is killed, or it is refused
         \/ /\ missing = 0 /\ open' = TRUE /\ commit_faults' = commit_faults
            /\ last_sequence' = last_sequence + 1 /\ memory' = Append(memory, p)
         \/ open' = FALSE /\ commit_faults' = commit_faults
         \/ /\ commit_faults' = commit_faults + 1
            /\ UNCHANGED <<open, last_sequence, memory>>
  PROVE  LogInOrder'
<1> SUFFICES ASSUME commit_faults' <= 1
             PROVE  \E k \in 1..(Len(Segment') + 1) : RefusedAt(k)'
  BY DEF LogInOrder
<1> DEFINE e == Record(p, missing)
<1>1. TypeOK /\ PairInUse /\ pointer.wal # 0
  BY DEF StoreInvariant, PairInUse
<1>2. commit_faults \in Nat /\ commit_faults <= 1 /\ last_sequence \in Nat /\ memory \in Seq(Payloads)
  <2>1. commit_faults \in Nat /\ last_sequence \in Nat /\ memory \in Seq(Payloads)
    BY <1>1 DEF TypeOK
  <2>2. commit_faults' = commit_faults \/ commit_faults' = commit_faults + 1
    OBVIOUS
  <2> QED
    BY <2>1, <2>2
<1>3. Segment \in Seq(Entries) /\ Base.sequence \in Nat /\ Base.payload \in Seq(Payloads)
  BY <1>1, RecoveryTypes
<1>4. e \in Entries /\ Segment' = Append(Segment, e) /\ Base' = Base
  BY <1>1, AppendFiles
<1>5. PICK k \in 1..(Len(Segment) + 1) : RefusedAt(k)
  BY <1>1, <1>2 DEF StoreInvariant, LogInOrder
<1>6. PICK n \in Nat : n = Len(Segment)
  BY <1>3, LenProperties
<1>7. PICK b \in Nat : b = Len(Base.payload)
  BY <1>3, LenProperties
<1>8. /\ Segment' \in Seq(Entries) /\ Len(Segment') = n + 1
      /\ \A i \in 1..n : Segment'[i] = Segment[i]
      /\ Segment'[n + 1] = e
  BY <1>3, <1>4, <1>6, AppendProperties
<1>9. e.sequence = last_sequence + 1 /\ e.payload = p /\ e.missing = missing
  BY DEF Record
<1>10. PICK a \in Nat : a = Base.sequence
  BY <1>3
<1>11. k \in Nat /\ k >= 1 /\ k <= n + 1
  BY <1>5, <1>6
<1>12. PICK c \in Nat : c = IF k <= n THEN n - 1 ELSE n
  BY <1>6, <1>11
<1>13. last_sequence = a + c /\ Len(memory) = b + c
  <2>1. Published(Segment, k) = c
    BY <1>6, <1>12 DEF Published
  <2> QED
    BY <1>5, <1>7, <1>10, <2>1 DEF RefusedAt, Follows
<1>14. /\ \A i \in 1..n : Segment[i].sequence = a + (IF i <= k THEN i ELSE i - 1)
       /\ \A i \in 1..n : i # k => Segment[i].missing = 0
  BY <1>5, <1>6, <1>10 DEF RefusedAt, InOrder, CutOnlyAt
<1>15. /\ \A i \in 1..b : memory[i] = Base.payload[i]
       /\ \A i \in 1..n : /\ i < k => memory[b + i] = Segment[i].payload
                          /\ i > k => memory[b + i - 1] = Segment[i].payload
  BY <1>5, <1>6, <1>7 DEF RefusedAt, Follows
<1>16. ASSUME NEW q \in Nat, q = k \/ (k = n + 1 /\ q = n + 2)
       PROVE  InOrder(Segment', Base'.sequence, q)
  <2>1. Segment'[n + 1].sequence = a + (IF n + 1 <= q THEN n + 1 ELSE n)
    BY <1>6, <1>8, <1>9, <1>11, <1>12, <1>13, <1>16
  <2>2. ASSUME NEW i \in 1..n
        PROVE  Segment'[i].sequence = a + (IF i <= q THEN i ELSE i - 1)
    BY <1>6, <1>8, <1>11, <1>14, <1>16
  <2>3. \A i \in 1..(n + 1) : i \in 1..n \/ i = n + 1
    BY <1>6
  <2>4. n + 1 - 1 = n
    BY <1>6
  <2> QED
    BY <1>4, <1>8, <1>10, <2>1, <2>2, <2>3, <2>4 DEF InOrder
<1> HIDE DEF e
<1>17. ASSUME missing = 0, open' = TRUE, commit_faults' = commit_faults,
              last_sequence' = last_sequence + 1, memory' = Append(memory, p)
       PROVE  \E q \in 1..(Len(Segment') + 1) : RefusedAt(q)'
  <2>1. PICK q \in 1..(n + 2) : q = IF k <= n THEN k ELSE n + 2
    BY <1>6, <1>11
  <2>2. q \in Nat /\ (q = k \/ (k = n + 1 /\ q = n + 2))
    BY <1>6, <1>11, <2>1
  <2>3. InOrder(Segment', Base'.sequence, q)
    BY <1>16, <2>2
  <2>4. \A i \in 1..(n + 1) : i # q => Segment'[i].missing = 0
    BY <1>6, <1>8, <1>9, <1>11, <1>14, <1>17, <2>1
  <2>5. CutOnlyAt(Segment', q, open')
    BY <1>8, <2>4 DEF CutOnlyAt
  <2>6. commit_faults = 0 => q = n + 2
    BY <1>5, <1>6, <1>11, <2>1 DEF RefusedAt
  <2>7. Published(Segment', q) = c + 1
    BY <1>6, <1>8, <1>11, <1>12, <2>1 DEF Published
  <2>8. last_sequence' = Base'.sequence + Published(Segment', q)
    <3>1. a + c + 1 = a + (c + 1)
      OBVIOUS
    <3> QED
      BY <1>4, <1>10, <1>13, <1>17, <2>7, <3>1
  <2>9. /\ Len(memory') = b + c + 1 /\ memory'[b + c + 1] = p
        /\ \A i \in 1..(b + c) : memory'[i] = memory[i]
    BY <1>2, <1>13, <1>17, AppendProperties
  <2>10. Len(memory') = Len(Base'.payload) + Published(Segment', q)
    <3>1. b + c + 1 = b + (c + 1)
      OBVIOUS
    <3> QED
      BY <1>4, <1>7, <2>7, <2>9, <3>1
  <2>11. \A i \in 1..b : memory'[i] = Base.payload[i]
    <3>1. \A i \in 1..b : i \in 1..(b + c)
      OBVIOUS
    <3> QED
      BY <1>15, <2>9, <3>1
  <2>12. ASSUME NEW i \in 1..(n + 1)
         PROVE  /\ i < q => memory'[b + i] = Segment'[i].payload
                /\ i > q => memory'[b + i - 1] = Segment'[i].payload
    <3>1. CASE i = n + 1
      <4>1. /\ i < q => b + i = b + c + 1
            /\ i > q => b + i - 1 = b + c + 1
        BY <1>11, <1>12, <2>1, <3>1
      <4> QED
        BY <1>8, <1>9, <2>9, <3>1, <4>1
    <3>2. CASE i # n + 1
      <4>1. i \in 1..n
        BY <1>6, <3>2
      <4>2. i < q => i < k /\ b + i \in 1..(b + c)
        BY <1>11, <1>12, <2>1, <4>1
      <4>3. i > q => i > k /\ b + i - 1 \in 1..(b + c)
        BY <1>11, <1>12, <2>1, <4>1
      <4> QED
        BY <1>8, <1>15, <2>9, <4>1, <4>2, <4>3
    <3> QED
      BY <3>1, <3>2
  <2>13. Follows(memory', Base'.payload, Segment', q)
    BY <1>4, <1>7, <1>8, <2>10, <2>11, <2>12 DEF Follows
  <2>14. RefusedAt(q)'
    BY <1>6, <1>8, <1>17, <2>3, <2>5, <2>6, <2>8, <2>13 DEF RefusedAt
  <2> QED
    BY <1>6, <1>8, <2>1, <2>14
<1>18. ASSUME open' = FALSE, commit_faults' = commit_faults
       PROVE  \E q \in 1..(Len(Segment') + 1) : RefusedAt(q)'
  <2>1. InOrder(Segment', Base'.sequence, k)
    BY <1>11, <1>16
  <2>2. CutOnlyAt(Segment', k, open')
    BY <1>6, <1>8, <1>14, <1>18 DEF CutOnlyAt
  <2>3. commit_faults = 0 => k >= n + 1
    BY <1>5, <1>6, <1>11 DEF RefusedAt
  <2>4. RefusedAt(k)'
    BY <1>8, <1>18, <2>1, <2>2, <2>3 DEF RefusedAt
  <2> QED
    BY <1>6, <1>8, <1>11, <2>4
<1>19. ASSUME commit_faults' = commit_faults + 1, UNCHANGED <<open, last_sequence, memory>>
       PROVE  \E q \in 1..(Len(Segment') + 1) : RefusedAt(q)'
  <2>1. commit_faults = 0 /\ commit_faults' # 0
    BY <1>2, <1>19
  <2>2. k = n + 1 /\ c = n
    BY <1>5, <1>6, <1>11, <1>12, <2>1 DEF RefusedAt
  <2>3. InOrder(Segment', Base'.sequence, k)
    BY <1>11, <1>16
  <2>4. CutOnlyAt(Segment', k, open')
    BY <1>6, <1>8, <1>14, <2>2 DEF CutOnlyAt
  <2>5. Published(Segment', k) = n
    BY <1>6, <1>8, <2>2 DEF Published
  <2>6. ASSUME NEW i \in 1..(n + 1)
        PROVE  /\ i < k => memory[b + i] = Segment'[i].payload
               /\ ~(i > k)
    BY <1>6, <1>8, <1>15, <2>2
  <2>7. Follows(memory', Base'.payload, Segment', k)
    BY <1>4, <1>7, <1>8, <1>13, <1>15, <1>19, <2>2, <2>5, <2>6 DEF Follows
  <2>8. last_sequence' = Base'.sequence + Published(Segment', k)
    BY <1>4, <1>10, <1>13, <1>19, <2>2, <2>5
  <2>9. RefusedAt(k)'
    BY <2>1, <2>3, <2>4, <2>7, <2>8 DEF RefusedAt
  <2> QED
    BY <1>6, <1>8, <1>11, <2>9
<1> QED
  BY <1>17, <1>18, <1>19

LEMMA InOrderNext == StoreInvariant /\ TypeOK' /\ PairInUse' /\ [Next]_vars => LogInOrder'
<1> SUFFICES ASSUME StoreInvariant, TypeOK', PairInUse', [Next]_vars PROVE LogInOrder'
  OBVIOUS
<1>1. CASE OpenFresh
  <2>1. /\ pointer' = [snapshot |-> 0, wal |-> 1] /\ logs' = FirstLog
        /\ last_sequence' = 0 /\ memory' = <<>>
    BY <1>1 DEF OpenFresh
  <2>2. logs'[1] = EmptyLog
    BY <2>1, FileTypes DEF FirstLog, StoreInvariant, TypeOK
  <2>3. Segment' = <<>> /\ Base' = NoSnapshot
    BY <2>1, <2>2 DEF Segment, Base, EmptyLog
  <2>4. /\ Segment' \in Seq(Entries) /\ Len(Segment') = 0
        /\ Base'.sequence = 0 /\ Base'.payload = <<>>
        /\ Base'.payload \in Seq(Payloads) /\ Len(Base'.payload) = 0 /\ Len(memory') = 0
    BY <2>1, <2>3, EmptySeq DEF NoSnapshot
  <2> QED
    BY <2>1, <2>4, CleanSegment
<1>2. CASE OpenFreshKilled
  BY <1>2 DEF OpenFreshKilled, LogInOrder
<1>3. CASE Open \/ OpenKilled
  BY <1>3, InOrderOpen
<1>4. CASE Kill
  <2>1. UNCHANGED <<pointer, snapshots, logs, commit_faults>> /\ open /\ open' = FALSE
    BY <1>4 DEF Kill, Killed, files, faults
  <2>2. Segment' = Segment /\ Base' = Base /\ pointer.wal # 0
    BY <2>1 DEF Segment, Base, StoreInvariant, PairInUse
  <2> QED
    BY <2>1, <2>2, InOrderFrame
<1>5. ASSUME NEW p \in Payloads, Commit(p) \/ CommitKilled(p) \/ CommitFails(p)
      PROVE  LogInOrder'
  <2>1. open /\ UNCHANGED <<pointer, snapshots>>
    BY <1>5 DEF Commit, CommitKilled, CommitFails
  <2>2. CASE Commit(p)
    <3>1. /\ logs' = Appended(Record(p, 0)) /\ open' = TRUE /\ commit_faults' = commit_faults
          /\ last_sequence' = last_sequence + 1 /\ memory' = Append(memory, p)
      BY <2>1, <2>2 DEF Commit, faults, StoreInvariant, TypeOK
    <3>2. 0 \in 0..MaxMissing
      BY StoreAssumption
    <3> QED
      BY <2>1, <3>1, <3>2, InOrderAppend
  <2>3. CASE CommitKilled(p)
    <3>1. open' = FALSE /\ commit_faults' = commit_faults
      BY <2>3 DEF CommitKilled, Killed, faults
    <3>2. PICK missing \in 0..MaxMissing : logs' = Appended(Record(p, missing))
      BY <2>3 DEF CommitKilled
    <3> QED
      BY <2>1, <3>1, <3>2, InOrderAppend
  <2>4. CASE CommitFails(p)
    <3>1. commit_faults' = commit_faults + 1 /\ UNCHANGED <<open, last_sequence, memory>>
      BY <2>4 DEF CommitFails, process
    <3>2. PICK missing \in 0..MaxMissing : logs' = Appended(Record(p, missing))
      BY <2>4 DEF CommitFails
    <3> QED
      BY <2>1, <3>1, <3>2, InOrderAppend
  <2> QED
    BY <1>5, <2>2, <2>3, <2>4
<1>6. CASE WriteSnapshot \/ WriteSnapshotKilled \/ WriteSnapshotFails
  BY <1>6, InOrderSnapshot
<1>7. CASE UNCHANGED vars
  <2>1. UNCHANGED <<pointer, snapshots, logs, open, last_sequence, memory, commit_faults>>
    BY <1>7 DEF vars, files, process, faults
  <2>2. Segment' = Segment /\ Base' = Base
    BY <2>1 DEF Segment, Base
  <2>3. CASE pointer.wal # 0
    BY <2>1, <2>2, <2>3, InOrderFrame
  <2>4. CASE pointer.wal = 0
    BY <2>1, <2>4 DEF LogInOrder
  <2> QED
    BY <2>3, <2>4
<1> QED
  BY <1>1, <1>2, <1>3, <1>4, <1>5, <1>6, <1>7 DEF Next

LEMMA StoreInvariantInit == Init => StoreInvariant
  BY StoreTypeInit, InOrderInit DEF StoreInvariant

LEMMA StoreInvariantNext == StoreInvariant /\ [Next]_vars => StoreInvariant'
  BY StoreTypeNext, InOrderNext DEF StoreInvariant

\* While at most one commit has failed, the segment in use is numbered on from the snapshot,
\* except that one refused record may share its sequence with the one behind it, and it holds
\* what the process has published besides.
THEOREM StoreInvariantHolds == Spec => []StoreInvariant
<1> QED
  BY StoreInvariantInit, StoreInvariantNext, PTL DEF Spec

\* The type invariant of the store, which the runs check.
THEOREM StoreTypes == Spec => []TypeOK
<1>1. StoreInvariant => TypeOK
  BY DEF StoreInvariant
<1> QED
  BY <1>1, StoreInvariantHolds, PTL

-----------------------------------------------------------------------------
(* What an open finds *)

LEMMA SamePrefix ==
  ASSUME NEW S, NEW s \in Seq(S), NEW t \in Seq(S), NEW n \in Nat, n <= Len(s), n <= Len(t),
         \A i \in 1..n : s[i] = t[i]
  PROVE  SubSeq(s, 1, n) = SubSeq(t, 1, n)
<1>1. n \in 0..Len(s) /\ n \in 0..Len(t)
  BY LenProperties
<1>2. /\ SubSeq(s, 1, n) \in Seq(S) /\ Len(SubSeq(s, 1, n)) = n
      /\ \A i \in 1..n : SubSeq(s, 1, n)[i] = s[i]
  BY <1>1, Prefix
<1>3. /\ SubSeq(t, 1, n) \in Seq(S) /\ Len(SubSeq(t, 1, n)) = n
      /\ \A i \in 1..n : SubSeq(t, 1, n)[i] = t[i]
  BY <1>1, Prefix
<1> QED
  BY <1>2, <1>3, SeqEqual

\* Where the contents of a readable store and a running process's memory agree.
LEMMA ContentsFollowMemory ==
  ASSUME StoreInvariant, open, Readable, commit_faults <= 1
  PROVE  /\ Len(Contents) <= Len(memory) + 1
         /\ \A i \in Nat : 1 <= i /\ i <= Len(memory) /\ i <= Len(Contents) => memory[i] = Contents[i]
<1>1. TypeOK /\ PairInUse /\ pointer.wal # 0 /\ ~Regresses(Records)
  BY DEF StoreInvariant, PairInUse, Readable
<1>2. PICK k \in 1..(Len(Segment) + 1) : RefusedAt(k)
  BY <1>1 DEF StoreInvariant, LogInOrder
<1>3. /\ Base.payload \in Seq(Payloads) /\ Segment \in Seq(Entries) /\ Records \in Seq(Entries)
  BY <1>1, RecoveryTypes
<1>4. PICK m \in Nat : m = Len(Segment)
  BY <1>3, LenProperties
<1>5. PICK b \in Nat : b = Len(Base.payload)
  BY <1>3, LenProperties
<1>6. PICK n \in Nat : n = Len(Records)
  BY <1>3, LenProperties
<1>7. k \in Nat /\ k >= 1 /\ k <= m + 1
  BY <1>2, <1>4
<1>8. /\ Consecutive /\ n <= k /\ n <= m
      /\ \A i \in 1..n : Records[i] = Segment[i]
      /\ n < m => Segment[n + 1].missing > 0
  BY <1>1, <1>2, <1>4, <1>6, ReadableIsInOrder
<1>9. n < m => n + 1 = k
  <2>1. \A i \in 1..m : i # k => Segment[i].missing = 0
    BY <1>2, <1>4 DEF RefusedAt, CutOnlyAt
  <2>2. n < m => n + 1 \in 1..m
    OBVIOUS
  <2>3. ~(0 > 0)
    OBVIOUS
  <2> QED
    BY <1>8, <2>1, <2>2, <2>3
<1>10. n = k - 1 \/ (n = k /\ k = m)
  BY <1>7, <1>8, <1>9
<1>11. PICK c \in Nat : c = IF k <= m THEN m - 1 ELSE m
  BY <1>7
<1>12. Len(memory) = b + c /\ Len(Contents) = b + n
  <2>1. Published(Segment, k) = c
    BY <1>4, <1>11 DEF Published
  <2>2. Len(memory) = b + c
    BY <1>2, <1>5, <2>1 DEF RefusedAt, Follows
  <2> QED
    BY <1>1, <1>5, <1>6, <1>8, <2>2, RecoveredInOrder
<1>13. n <= c + 1 /\ \A i \in 1..n : i <= c => i < k
  BY <1>7, <1>10, <1>11
<1>14. \A i \in 1..b : memory[i] = Contents[i]
  <2>1. \A i \in 1..b : Contents[i] = Base.payload[i]
    BY <1>1, <1>5, <1>8, RecoveredInOrder
  <2>2. \A i \in 1..b : memory[i] = Base.payload[i]
    BY <1>2, <1>5 DEF RefusedAt, Follows
  <2> QED
    BY <2>1, <2>2
<1>15. ASSUME NEW i \in 1..n, i <= c
       PROVE  memory[b + i] = Contents[b + i]
  <2>1. i < k /\ i \in 1..m
    BY <1>8, <1>13, <1>15
  <2>2. memory[b + i] = Segment[i].payload
    BY <1>2, <1>4, <1>5, <2>1 DEF RefusedAt, Follows
  <2>3. Contents[b + i] = Records[i].payload
    BY <1>1, <1>5, <1>6, <1>8, RecoveredInOrder
  <2> QED
    BY <1>8, <2>2, <2>3
<1>16. ASSUME NEW i \in Nat, 1 <= i, i <= b + c, i <= b + n
       PROVE  memory[i] = Contents[i]
  <2>1. CASE i <= b
    BY <1>14, <1>16, <2>1
  <2>2. CASE i > b
    <3>1. PICK j \in 1..n : j <= c /\ i = b + j
      <4>1. i - b \in 1..n /\ i - b <= c /\ i = b + (i - b)
        BY <1>16, <2>2
      <4> QED
        BY <4>1
    <3> QED
      BY <1>15, <3>1
  <2> QED
    BY <2>1, <2>2
<1> QED
  BY <1>12, <1>13, <1>16

\* One failed commit may cost what was acknowledged, but a store that opens holds committed
\* mutations only, in order, and at most the refused one behind them.
THEOREM NothingIsInvented == Spec => []NothingInvented
<1>1. StoreInvariant => NothingInvented
  <2> DEFINE shared == IF Len(memory) < Len(Contents) THEN Len(memory) ELSE Len(Contents)
  <2> SUFFICES ASSUME StoreInvariant, open, Readable, commit_faults <= 1
               PROVE  /\ SubSeq(memory, 1, shared) = SubSeq(Contents, 1, shared)
                      /\ Len(Contents) <= Len(memory) + 1
    BY DEF NothingInvented
  <2>1. memory \in Seq(Payloads) /\ Contents \in Seq(Payloads)
    BY RecoveryTypes DEF StoreInvariant, TypeOK
  <2>2. Len(memory) \in Nat /\ Len(Contents) \in Nat
    BY <2>1, LenProperties
  <2>3. shared \in Nat /\ shared <= Len(memory) /\ shared <= Len(Contents)
    BY <2>2
  <2> HIDE DEF shared
  <2>4. \A i \in 1..shared : memory[i] = Contents[i]
    BY <2>2, <2>3, ContentsFollowMemory
  <2> QED
    BY <2>1, <2>3, <2>4, SamePrefix, ContentsFollowMemory
<1> QED
  BY <1>1, StoreInvariantHolds, PTL

\* Before any commit has failed: only the last record of a killed process can be cut off, so
\* the segment decodes, and a running process has all of it in memory.
LEMMA UnrefusedIsReadable ==
  StoreInvariant /\ commit_faults = 0 /\ pointer.wal # 0 =>
    /\ Readable /\ Consecutive /\ \A i \in 1..Len(Records) : Records[i].missing = 0
    /\ open => Records = Segment /\ Contents = memory
<1> SUFFICES ASSUME StoreInvariant, commit_faults = 0, pointer.wal # 0
             PROVE  /\ Readable /\ Consecutive /\ \A i \in 1..Len(Records) : Records[i].missing = 0
                    /\ open => Records = Segment /\ Contents = memory
  OBVIOUS
<1>1. TypeOK /\ PairInUse /\ commit_faults <= 1
  BY DEF StoreInvariant
<1>2. PICK k \in 1..(Len(Segment) + 1) : RefusedAt(k)
  BY <1>1 DEF StoreInvariant, LogInOrder
<1>3. /\ Base.payload \in Seq(Payloads) /\ Segment \in Seq(Entries) /\ Records \in Seq(Entries)
      /\ Base.sequence \in Nat
  BY <1>1, RecoveryTypes
<1>4. PICK m \in Nat : m = Len(Segment)
  BY <1>3, LenProperties
<1>5. k \in Nat /\ k >= m /\ k <= m + 1 /\ (open => k = m + 1)
  BY <1>2, <1>4 DEF RefusedAt
<1>6. \A i \in 1..m : i < m => Segment[i].missing = 0
  <2>1. \A i \in 1..m : i < m => i # k
    BY <1>5
  <2> QED
    BY <1>2, <1>4, <2>1 DEF RefusedAt, CutOnlyAt
<1>7. open => \A i \in 1..m : Segment[i].missing = 0
  <2>1. open => \A i \in 1..m : i # k
    BY <1>5
  <2> QED
    BY <1>2, <1>4, <2>1 DEF RefusedAt, CutOnlyAt
<1>8. PICK n \in 0..m : /\ Records = SubSeq(Segment, 1, n)
                        /\ \A i \in 1..n : Segment[i].missing = 0
  BY <1>3, <1>4, WholeIsPrefix DEF Records, Segment
<1>9. Len(Records) = n /\ \A i \in 1..n : Records[i] = Segment[i]
  BY <1>3, <1>4, <1>8, Prefix
<1>10. Consecutive
  <2>1. \A i \in 1..n : i \in 1..m /\ i <= k
    BY <1>5
  <2> QED
    BY <1>2, <1>4, <1>9, <2>1 DEF RefusedAt, InOrder, Consecutive
<1>11. ~Corrupt(Segment)
  <2> SUFFICES ASSUME NEW i \in DOMAIN Segment, Cut(Segment, i), Len(Segment) - i >= Segment[i].missing
               PROVE  FALSE
    BY DEF Corrupt
  <2>1. i \in 1..m /\ Segment[i] \in Entries
    BY <1>3, <1>4, LenProperties, ElementOfSeq
  <2>2. Segment[i].missing > 0 /\ Segment[i].missing \in Nat
    BY <2>1, StoreAssumption DEF Cut, Entries
  <2>3. ~(i < m)
    BY <1>6, <2>1, <2>2
  <2>4. m - i = 0 /\ m - i >= Segment[i].missing
    BY <1>4, <2>1, <2>3
  <2> QED
    BY <2>2, <2>4
<1>12. Readable
  <2>1. ~Regresses(Records)
    BY <1>1, <1>10, RecoveredInOrder
  <2>2. pointer.snapshot # 0 => snapshots[pointer.snapshot].present
    BY <1>1 DEF PairInUse
  <2> QED
    BY <1>11, <2>1, <2>2 DEF Readable, Segment
<1>13. ASSUME open
       PROVE  Records = Segment /\ Contents = memory
  <2>1. Records = Segment
    BY <1>3, <1>4, <1>7, <1>13, WholeIsWhole DEF Records, Segment
  <2>2. PICK b \in Nat : b = Len(Base.payload)
    BY <1>3, LenProperties
  <2>3. /\ Contents \in Seq(Payloads) /\ Len(Contents) = b + m
        /\ \A i \in 1..b : Contents[i] = Base.payload[i]
        /\ \A i \in 1..m : Contents[b + i] = Segment[i].payload
    BY <1>1, <1>4, <1>10, <2>1, <2>2, RecoveredInOrder
  <2>4. /\ Len(memory) = b + Published(Segment, k)
        /\ \A i \in 1..b : memory[i] = Base.payload[i]
        /\ \A i \in 1..m : i < k => memory[b + i] = Segment[i].payload
    BY <1>2, <1>4, <1>13, <2>2 DEF RefusedAt, Follows
  <2>5. Len(memory) = b + m
    BY <1>4, <1>5, <1>13, <2>4 DEF Published
  <2>6. \A i \in 1..m : i < k
    BY <1>5, <1>13
  <2>7. ASSUME NEW i \in 1..(b + m)
        PROVE  Contents[i] = memory[i]
    <3>1. CASE i <= b
      BY <2>3, <2>4, <3>1
    <3>2. CASE i > b
      <4>1. PICK j \in 1..m : i = b + j
        <5>1. i - b \in 1..m /\ i = b + (i - b)
          BY <3>2
        <5> QED
          BY <5>1
      <4> QED
        BY <2>3, <2>4, <2>6, <4>1
    <3> QED
      BY <3>1, <3>2
  <2>8. memory \in Seq(Payloads)
    BY <1>1 DEF TypeOK
  <2> QED
    BY <2>1, <2>3, <2>5, <2>7, <2>8, SeqEqual
<1>14. \A i \in 1..Len(Records) : Records[i].missing = 0
  BY <1>8, <1>9
<1> QED
  BY <1>10, <1>12, <1>13, <1>14

\* As long as no commit has failed, no kill and no failed snapshot leaves a store that cannot
\* be opened, and every mutation a running process was told is committed is in it.
THEOREM KillsLoseNothing ==
  Spec => [](commit_faults = 0 => StaysReadable /\ AcknowledgedIsRecoverable)
<1>1. StoreInvariant => (commit_faults = 0 => StaysReadable /\ AcknowledgedIsRecoverable)
  <2> SUFFICES ASSUME StoreInvariant, commit_faults = 0
               PROVE  StaysReadable /\ AcknowledgedIsRecoverable
    OBVIOUS
  <2>1. StaysReadable
    BY UnrefusedIsReadable DEF StaysReadable
  <2>2. ASSUME open
        PROVE  /\ Readable
               /\ Len(memory) <= Len(Contents) /\ memory = SubSeq(Contents, 1, Len(memory))
    <3>1. pointer.wal # 0 /\ memory \in Seq(Payloads)
      BY <2>2 DEF StoreInvariant, PairInUse, TypeOK
    <3>2. Readable /\ Contents = memory
      BY <2>2, <3>1, UnrefusedIsReadable
    <3>3. Len(memory) \in Nat /\ SubSeq(memory, 1, Len(memory)) = memory
      BY <3>1, LenProperties, SubSeqFull
    <3> QED
      BY <3>2, <3>3
  <2> QED
    BY <2>1, <2>2 DEF AcknowledgedIsRecoverable
<1> QED
  BY <1>1, StoreInvariantHolds, PTL

\* Without failing commits the counter stays where it started.
LEMMA NoCommitFails ==
  ASSUME MaxCommitFaults = 0
  PROVE  Spec => [](commit_faults = 0)
<1>1. Init => commit_faults = 0
  BY DEF Init
<1>2. commit_faults = 0 /\ [Next]_vars => (commit_faults = 0)'
  BY DEF Next, vars, files, process, faults, OpenFresh, OpenFreshKilled, Open, OpenKilled, Kill,
         Commit, CommitKilled, CommitFails, WriteSnapshot, WriteSnapshotKilled, WriteSnapshotFails
<1> QED
  BY <1>1, <1>2, PTL DEF Spec

\* The same for a system whose appends and flushes do not fail: once opened, the store can be
\* opened for good, wherever a process is killed.
THEOREM StoreStaysReadable ==
  ASSUME MaxCommitFaults = 0
  PROVE  Spec => []StaysReadable
<1> QED
  BY NoCommitFails, KillsLoseNothing, PTL

-----------------------------------------------------------------------------
(* The store implements the durable log *)

LEMMA FreshIsEmpty == PairInUse /\ pointer.wal = 0 => Contents = <<>>
<1> SUFFICES ASSUME PairInUse, pointer.wal = 0 PROVE Contents = <<>>
  OBVIOUS
<1>1. Base.payload = <<>> /\ Records = <<>>
  BY DEF PairInUse, Base, Records, NoSnapshot
<1>2. <<>> \in Seq(Entries) /\ <<>> \in Seq(Payloads) /\ Len(<<>>) = 0
  BY EmptySeq
<1>3. Skipped = {}
  BY <1>1 DEF Skipped
<1>4. Replayed = <<>>
  <2>1. Cardinality(Skipped) = 0
    BY <1>3, FS_EmptySet
  <2> QED
    BY <1>1, <1>2, <2>1, SubSeqFull DEF Replayed
<1>5. [i \in DOMAIN Replayed |-> Replayed[i].payload] = <<>>
  BY <1>4
<1> QED
  BY <1>1, <1>5, <1>2, ConcatEmptySeq DEF Contents

\* What an open finds depends on the decoded records and the snapshot alone.
LEMMA SameContents ==
  ASSUME Records' = Records, Base' = Base
  PROVE  Contents' = Contents
  BY DEF Contents, Replayed, Skipped, Beyond

\* A killed commit has left its record behind, or only a part that does not count.
LEMMA KilledCommit ==
  ASSUME StoreInvariant, StoreInvariant', commit_faults = 0, commit_faults' = 0,
         open, NEW p \in Payloads, NEW missing \in 0..MaxMissing,
         logs' = Appended(Record(p, missing)), UNCHANGED <<pointer, snapshots>>
  PROVE  Contents' = Contents \/ Contents' = Append(Contents, p)
<1> DEFINE e == Record(p, missing)
<1>1. TypeOK /\ PairInUse /\ pointer.wal # 0 /\ pointer'.wal # 0
  BY DEF StoreInvariant, PairInUse
<1>2. /\ Segment \in Seq(Entries) /\ Base.payload \in Seq(Payloads) /\ Contents \in Seq(Payloads)
  BY <1>1, RecoveryTypes
<1>3. e \in Entries /\ Segment' = Append(Segment, e) /\ Base' = Base
  BY <1>1, AppendFiles
<1>4. Consecutive /\ Records = Segment /\ \A i \in 1..Len(Segment) : Segment[i].missing = 0
  BY <1>1, UnrefusedIsReadable
<1>5. Consecutive'
  <2>1. (StoreInvariant /\ commit_faults = 0 /\ pointer.wal # 0)' => Consecutive'
    BY UnrefusedIsReadable, PTL
  <2> QED
    BY <1>1, <2>1
<1>6. PICK m \in Nat : m = Len(Segment)
  BY <1>2, LenProperties
<1>7. PICK b \in Nat : b = Len(Base.payload)
  BY <1>2, LenProperties
<1>8. /\ Segment' \in Seq(Entries) /\ Len(Segment') = m + 1
      /\ \A i \in 1..m : Segment'[i] = Segment[i]
      /\ Segment'[m + 1] = e
  BY <1>2, <1>3, <1>6, AppendProperties
<1>9. e.payload = p /\ e.missing = missing /\ missing \in Nat
  BY StoreAssumption DEF Record
<1> HIDE DEF e
<1>10. CASE missing = 0
  <2>1. \A i \in 1..(m + 1) : Segment'[i].missing = 0
    BY <1>4, <1>6, <1>8, <1>9, <1>10
  <2>2. Records' = Segment'
    BY <1>1, <1>8, <2>1, WholeIsWhole DEF Records, Segment
  <2>3. (TypeOK /\ PairInUse /\ Consecutive =>
           /\ Contents \in Seq(Payloads) /\ Len(Contents) = Len(Base.payload) + Len(Records)
           /\ \A i \in 1..Len(Base.payload) : Contents[i] = Base.payload[i]
           /\ \A i \in 1..Len(Records) : Contents[Len(Base.payload) + i] = Records[i].payload)'
    BY RecoveredInOrder, PTL
  <2>4. /\ Contents' \in Seq(Payloads) /\ Len(Contents') = b + (m + 1)
        /\ \A i \in 1..b : Contents'[i] = Base.payload[i]
        /\ \A i \in 1..(m + 1) : Contents'[b + i] = Segment'[i].payload
    BY <1>3, <1>5, <1>7, <1>8, <2>2, <2>3 DEF StoreInvariant
  <2>5. /\ Len(Contents) = b + m
        /\ \A i \in 1..b : Contents[i] = Base.payload[i]
        /\ \A i \in 1..m : Contents[b + i] = Segment[i].payload
    BY <1>1, <1>4, <1>6, <1>7, RecoveredInOrder
  <2>6. /\ Append(Contents, p) \in Seq(Payloads) /\ Len(Append(Contents, p)) = b + m + 1
        /\ \A i \in 1..(b + m) : Append(Contents, p)[i] = Contents[i]
        /\ Append(Contents, p)[b + m + 1] = p
    BY <1>2, <2>5, AppendProperties
  <2>7. ASSUME NEW i \in 1..(b + m)
        PROVE  Contents'[i] = Contents[i]
    <3>1. CASE i <= b
      BY <2>4, <2>5, <3>1
    <3>2. CASE i > b
      <4>1. PICK j \in 1..m : i = b + j
        <5>1. i - b \in 1..m /\ i = b + (i - b)
          BY <3>2
        <5> QED
          BY <5>1
      <4>2. j \in 1..(m + 1)
        BY <4>1
      <4> QED
        BY <1>8, <2>4, <2>5, <4>1, <4>2
    <3> QED
      BY <3>1, <3>2
  <2>8. Contents'[b + m + 1] = p
    <3>1. b + m + 1 = b + (m + 1) /\ m + 1 \in 1..(m + 1)
      OBVIOUS
    <3> QED
      BY <1>8, <1>9, <2>4, <3>1
  <2>9. \A i \in 1..(b + m + 1) : i \in 1..(b + m) \/ i = b + m + 1
    OBVIOUS
  <2>10. b + (m + 1) = b + m + 1
    OBVIOUS
  <2>11. \A i \in 1..(b + m + 1) : Contents'[i] = Append(Contents, p)[i]
    BY <2>6, <2>7, <2>8, <2>9
  <2>12. Contents' = Append(Contents, p)
    BY <2>4, <2>6, <2>10, <2>11, SeqEqual
  <2> QED
    BY <2>12
<1>11. CASE missing # 0
  <2>1. PICK n \in 0..(m + 1) : /\ Records' = SubSeq(Segment', 1, n)
                                /\ \A i \in 1..n : Segment'[i].missing = 0
                                /\ n < m + 1 => Cut(Segment', n + 1)
    BY <1>1, <1>8, WholeIsPrefix DEF Records, Segment
  <2>2. n = m
    <3>1. ~(n = m + 1)
      BY <1>8, <1>9, <1>11, <2>1
    <3>2. ASSUME n < m PROVE FALSE
      <4>1. n + 1 \in 1..m /\ n < m + 1 /\ ~(0 > 0)
        BY <3>2
      <4>2. Segment'[n + 1].missing > 0
        BY <2>1, <4>1 DEF Cut
      <4> QED
        BY <1>4, <1>6, <1>8, <4>1, <4>2
    <3> QED
      BY <3>1, <3>2
  <2>3. /\ Records' \in Seq(Entries) /\ Len(Records') = m
        /\ \A i \in 1..m : Records'[i] = Segment'[i]
    <3>1. m \in 0..Len(Segment')
      BY <1>8
    <3> QED
      BY <1>8, <2>1, <2>2, <3>1, Prefix
  <2>4. Records' = Segment
    BY <1>2, <1>6, <1>8, <2>3, SeqEqual
  <2> QED
    BY <1>3, <1>4, <2>4, SameContents
<1> QED
  BY <1>10, <1>11

\* write_snapshot moves the contents into the snapshot.
LEMMA KilledSnapshot ==
  ASSUME StoreInvariant, StoreInvariant', commit_faults = 0, commit_faults' = 0, WriteSnapshotKilled
  PROVE  Contents' = Contents
<1>1. open /\ wal_segment < MaxNumber /\ TypeOK /\ PairInUse /\ pointer.wal # 0
  BY DEF StoreInvariant, WriteSnapshotKilled, PairInUse
<1>2. CASE Preparing
  <2>1. pointer' = pointer /\ Segment' = Segment /\ Base' = Base
    BY <1>1, <1>2, PreparingFiles
  <2>2. Records' = Records
    BY <1>1, <2>1 DEF Records, Segment
  <2> QED
    BY <2>1, <2>2, SameContents
<1>3. CASE ~Preparing
  <2>1. /\ Segment' = <<>>
        /\ Base' = [present |-> TRUE, sequence |-> last_sequence, payload |-> memory]
    BY <1>1, <1>3, SnapshotFilesWritten DEF WriteSnapshotKilled
  <2>2. memory \in Seq(Payloads) /\ Contents = memory /\ Base'.payload = memory
    BY <1>1, <2>1, UnrefusedIsReadable DEF TypeOK
  <2>3. pointer'.wal # 0
    <3>1. pointer' = NextPointer /\ wal_segment \in Nat
      BY <1>1, <1>3 DEF WriteSnapshotKilled, TypeOK
    <3> QED
      BY <3>1 DEF NextPointer
  <2>4. Consecutive'
    <3>1. (StoreInvariant /\ commit_faults = 0 /\ pointer.wal # 0)' => Consecutive'
      BY UnrefusedIsReadable, PTL
    <3> QED
      BY <2>3, <3>1
  <2>5. Records' = <<>> /\ Len(Records') = 0
    <3>1. <<>> \in Seq(Entries) /\ Len(<<>>) = 0 /\ DOMAIN <<>> = {}
      BY EmptySeq
    <3> QED
      BY <2>1, <2>3, <3>1 DEF Records, Segment, Whole
  <2>6. (TypeOK /\ PairInUse /\ Consecutive =>
           /\ Contents \in Seq(Payloads) /\ Len(Contents) = Len(Base.payload) + Len(Records)
           /\ \A i \in 1..Len(Base.payload) : Contents[i] = Base.payload[i])'
    BY RecoveredInOrder, PTL
  <2>7. Len(memory) \in Nat
    BY <2>2, LenProperties
  <2>8. /\ Contents' \in Seq(Payloads) /\ Len(Contents') = Len(memory)
        /\ \A i \in 1..Len(memory) : Contents'[i] = memory[i]
    BY <2>2, <2>4, <2>5, <2>6, <2>7 DEF StoreInvariant
  <2>9. Contents' = memory
    BY <2>2, <2>8, SeqEqual
  <2> QED
    BY <2>2, <2>9
<1> QED
  BY <1>2, <1>3

\* Every step of the store is a step of the durable log, or none.
LEMMA StoreStep ==
  StoreInvariant /\ StoreInvariant' /\ commit_faults = 0 /\ (commit_faults = 0)' /\ [Next]_vars
    => [Log!Next]_(Log!vars)
<1> SUFFICES ASSUME StoreInvariant, StoreInvariant', commit_faults = 0, commit_faults' = 0,
                    [Next]_vars
             PROVE  Log!Next \/ (open' = open /\ memory' = memory /\ Contents' = Contents)
  BY DEF Log!vars
<1>1. PairInUse /\ PairInUse' /\ TypeOK /\ open \in BOOLEAN
  BY DEF StoreInvariant, TypeOK
<1>2. open => pointer.wal # 0 /\ Contents = memory
  BY <1>1, UnrefusedIsReadable DEF PairInUse
<1>3. open' => Contents' = memory'
  <2>1. (StoreInvariant /\ commit_faults = 0 /\ pointer.wal # 0)' => (open => Contents = memory)'
    BY UnrefusedIsReadable, PTL
  <2> QED
    BY <1>1, <2>1 DEF PairInUse
<1>4. CASE OpenFresh
  <2>1. Contents = <<>> /\ ~open /\ open' = TRUE /\ memory' = <<>>
    BY <1>1, <1>4, FreshIsEmpty DEF OpenFresh
  <2>2. Log!Open
    BY <1>3, <2>1 DEF Log!Open
  <2> QED
    BY <2>2 DEF Log!Next
<1>5. CASE OpenFreshKilled
  <2>1. pointer.wal = 0 /\ UNCHANGED <<pointer, open, memory>>
    BY <1>5 DEF OpenFreshKilled, process
  <2>2. (PairInUse /\ pointer.wal = 0)' => (Contents = <<>>)'
    BY FreshIsEmpty, PTL
  <2> QED
    BY <1>1, <2>1, <2>2, FreshIsEmpty
<1>6. CASE Open
  <2>1. ~open /\ open' = TRUE /\ memory' = Contents
    BY <1>6 DEF Open
  <2>2. Log!Open
    BY <1>3, <2>1 DEF Log!Open
  <2> QED
    BY <2>2 DEF Log!Next
<1>7. CASE OpenKilled
  <2>1. pointer.wal # 0 /\ UNCHANGED <<pointer, open, memory>>
    BY <1>7 DEF OpenKilled, process
  <2>2. Segment' = Records /\ Base' = Base
    BY <1>1, <1>7, OpenFiles
  <2>3. Records \in Seq(Entries) /\ \A i \in 1..Len(Records) : Records[i].missing = 0
    BY <1>1, <2>1, RecoveryTypes, UnrefusedIsReadable
  <2>4. Records' = Records
    BY <2>1, <2>2, <2>3, WholeIsWhole DEF Records, Segment
  <2> QED
    BY <2>1, <2>2, <2>4, SameContents
<1>8. CASE Kill
  <2>1. UNCHANGED <<pointer, snapshots, logs>> /\ open /\ open' = FALSE /\ memory' = <<>>
    BY <1>8 DEF Kill, Killed, files
  <2>2. Contents' = Contents
    BY <2>1, SameContents DEF Records, Base
  <2>3. Log!Crash
    BY <2>1, <2>2 DEF Log!Crash
  <2> QED
    BY <2>3 DEF Log!Next
<1>9. ASSUME NEW p \in Payloads, Commit(p)
      PROVE  Log!Next
  <2>1. open /\ open' = open /\ memory' = Append(memory, p)
    BY <1>9 DEF Commit
  <2>2. Contents' = Append(Contents, p) /\ memory' = Contents'
    BY <1>2, <1>3, <2>1
  <2>3. Log!Commit
    BY <2>1, <2>2 DEF Log!Commit
  <2> QED
    BY <2>3 DEF Log!Next
<1>10. ASSUME NEW p \in Payloads, CommitKilled(p)
       PROVE  Log!Next
  <2>1. open /\ open' = FALSE /\ memory' = <<>> /\ UNCHANGED <<pointer, snapshots>>
    BY <1>10 DEF CommitKilled, Killed
  <2>2. PICK missing \in 0..MaxMissing : logs' = Appended(Record(p, missing))
    BY <1>10 DEF CommitKilled
  <2>3. Contents' = Contents \/ Contents' = Append(Contents, p)
    BY <2>1, <2>2, KilledCommit
  <2>4. Log!Crash
    BY <2>1, <2>3 DEF Log!Crash
  <2> QED
    BY <2>4 DEF Log!Next
<1>11. ASSUME NEW p \in Payloads, CommitFails(p)
       PROVE  FALSE
  BY <1>11 DEF CommitFails
<1>12. CASE WriteSnapshot \/ WriteSnapshotFails
  <2>1. open /\ open' = open /\ memory' = memory
    BY <1>12 DEF WriteSnapshot, WriteSnapshotFails
  <2> QED
    BY <1>2, <1>3, <2>1
<1>13. CASE WriteSnapshotKilled
  <2>1. open /\ open' = FALSE /\ memory' = <<>>
    BY <1>13 DEF WriteSnapshotKilled, Killed
  <2>2. Contents' = Contents
    BY <1>13, KilledSnapshot
  <2>3. Log!Crash
    BY <2>1, <2>2 DEF Log!Crash
  <2> QED
    BY <2>3 DEF Log!Next
<1>14. CASE UNCHANGED vars
  <2>1. UNCHANGED <<pointer, snapshots, logs, open, memory>>
    BY <1>14 DEF vars, files, process
  <2>2. Contents' = Contents
    BY <2>1, SameContents DEF Records, Base
  <2> QED
    BY <2>1, <2>2
<1> QED
  BY <1>4, <1>5, <1>6, <1>7, <1>8, <1>9, <1>10, <1>11, <1>12, <1>13, <1>14 DEF Next

\* Appends and flushes that do not fail given, the store implements the durable log: wherever
\* a process is killed, the next one finds every committed mutation, once and in order, and at
\* most the one that was being committed besides.
THEOREM StoreImplementsLog ==
  ASSUME MaxCommitFaults = 0
  PROVE  Spec => ImplementsDurableLog
<1>1. Init => Log!Init
  <2> SUFFICES ASSUME Init PROVE Log!Init
    OBVIOUS
  <2>1. PairInUse /\ pointer.wal = 0
    BY StoreTypeInit DEF Init
  <2>2. Contents = <<>>
    BY <2>1, FreshIsEmpty
  <2> QED
    BY <2>2 DEF Init, Log!Init
<1> QED
  BY <1>1, StoreStep, StoreInvariantHolds, NoCommitFails, PTL
     DEF Spec, ImplementsDurableLog, Log!Spec
=============================================================================
