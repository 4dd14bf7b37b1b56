------------------------------- MODULE Store -------------------------------
(***************************************************************************)
(* The durable store (src/store/store.cpp, record.cpp): a write-ahead log  *)
(* segment, numbered snapshots, and the CURRENT pointer that names the two *)
(* in use.  A process can be killed between any two file operations and in *)
(* the middle of an append; a file operation can fail and the process go   *)
(* on.  The client is the runtime: memory is the sequence of mutations it  *)
(* has published, a snapshot holds exactly that sequence.                  *)
(*                                                                         *)
(* write_file_atomic leaves the old or the new content (temporary sibling, *)
(* flush, rename), so each such call is one file operation.                *)
(***************************************************************************)
EXTENDS Integers, Sequences, FiniteSets

CONSTANTS
  Payloads,              \* what a record can carry
  RetainedSnapshots,     \* options.retained_snapshots
  MaxMissing,            \* how many later records a cut-off one can swallow
  MaxCommits, MaxNumber, \* bounds: records; snapshot and segment numbers;
  MaxCommitFaults, MaxSnapshotFaults  \* failed commits and failed snapshots

VARIABLES
  pointer,               \* CURRENT: [snapshot, wal], wal 0 when the file is missing
  snapshots, logs,       \* the files, by number
  litter,                \* a temporary file of a first segment is left behind
  open,                  \* a process holds the store open
  last_sequence, snapshot_sequence, wal_segment,
  memory,                \* the mutations it has recovered or committed
  commit_faults, snapshot_faults  \* calls that failed so far

files == <<pointer, snapshots, logs, litter>>
process == <<open, last_sequence, snapshot_sequence, wal_segment, memory>>
faults == <<commit_faults, snapshot_faults>>
vars == <<files, process, faults>>

\* hex16 names a file by two significant digits, the first a decimal one, below 160.
ASSUME StoreAssumption ==
  /\ RetainedSnapshots \in Nat \ {0} /\ MaxMissing \in Nat \ {0}
  /\ {MaxCommits, MaxCommitFaults, MaxSnapshotFaults} \subseteq Nat /\ MaxNumber \in 1..158

Numbers == 1..(MaxNumber + 1)

\* A record of the log.  missing = 0: complete.  Otherwise it was cut off and as many
\* records behind it as missing says would still not complete what its header declares.
Entries == [sequence : Nat, payload : Payloads, missing : 0..MaxMissing]
SnapshotFiles == [present : BOOLEAN, sequence : Nat, payload : Seq(Payloads)]
LogFiles == [present : BOOLEAN, records : Seq(Entries)]
NoSnapshot == [present |-> FALSE, sequence |-> 0, payload |-> <<>>]
NoLog == [present |-> FALSE, records |-> <<>>]
EmptyLog == [present |-> TRUE, records |-> <<>>]

Init ==
  /\ pointer = [snapshot |-> 0, wal |-> 0]
  /\ snapshots = [n \in Numbers |-> NoSnapshot] /\ logs = [n \in Numbers |-> NoLog]
  /\ litter = FALSE /\ open = FALSE
  /\ last_sequence = 0 /\ snapshot_sequence = 0 /\ wal_segment = 0 /\ memory = <<>>
  /\ commit_faults = 0 /\ snapshot_faults = 0

-----------------------------------------------------------------------------
(* decode_record and replay_log over one segment *)

Cut(s, i) == s[i].missing > 0 /\ \A j \in 1..(i - 1) : s[j].missing = 0
\* The bytes behind the cut do not fill what the header declares: a torn tail.
Torn(s) == \E i \in DOMAIN s : Cut(s, i) /\ Len(s) - i < s[i].missing
\* They do, and the integrity check fails.
Corrupt(s) == \E i \in DOMAIN s : Cut(s, i) /\ Len(s) - i >= s[i].missing
\* The records before the first one that is cut off.
Whole(s) ==
  IF \E i \in DOMAIN s : s[i].missing > 0
  THEN SubSeq(s, 1, (CHOOSE i \in DOMAIN s : Cut(s, i)) - 1)
  ELSE s
\* Mutant: sequences are not compared.
NeverRegresses(s) == FALSE
Regresses(s) == \E i \in 1..(Len(s) - 1) : s[i].sequence >= s[i + 1].sequence

\* The snapshot CURRENT names, empty before the first one.
Base == IF pointer.snapshot = 0 THEN NoSnapshot ELSE snapshots[pointer.snapshot]
Records == IF pointer.wal = 0 THEN <<>> ELSE Whole(logs[pointer.wal].records)
\* Records the snapshot already represents are skipped.  Sequences advance along a segment
\* that is accepted, so these are the first ones.
Beyond(e) == e.sequence > Base.sequence
Skipped == {i \in DOMAIN Records : ~Beyond(Records[i])}
Replayed == SubSeq(Records, Cardinality(Skipped) + 1, Len(Records))
\* Mutant: off by one without records.
RecoveredBefore ==
  IF Replayed = <<>> THEN Base.sequence - 1 ELSE Replayed[Len(Replayed)].sequence
RecoveredSequence ==
  IF Replayed = <<>> THEN Base.sequence ELSE Replayed[Len(Replayed)].sequence
\* What open() hands to the runtime: the snapshot and the replayed records.
Contents == Base.payload \o [i \in DOMAIN Replayed |-> Replayed[i].payload]

\* open() refuses store files without CURRENT, a missing snapshot, a corrupt segment
\* and sequences that do not advance.
HasStoreFiles ==
  litter \/ \E n \in Numbers : snapshots[n].present \/ logs[n].present
Readable ==
  IF pointer.wal = 0 THEN ~HasStoreFiles
  ELSE /\ pointer.snapshot # 0 => snapshots[pointer.snapshot].present
       /\ ~Corrupt(logs[pointer.wal].records)
       /\ ~Regresses(Records)

-----------------------------------------------------------------------------
(* cleanup_old_files *)

\* File names are written in hexadecimal and read back in decimal; a name with a letter
\* is not recognised (0).
Reading(n) ==
  IF (n % 16) > 9 \/ (n \div 16) > 9 THEN 0 ELSE 10 * (n \div 16) + (n % 16)
Readings(table) == {Reading(n) : n \in {m \in Numbers : table[m].present}} \ {0}

\* The numbers of the files to remove, for the snapshot and the segment in use.
\* Mutant: the snapshot in use is not spared.
OldestSnapshots(table, current) ==
  {v \in Readings(table) : Cardinality({w \in Readings(table) : w > v}) >= RetainedSnapshots}
OldSnapshots(table, current) ==
  {v \in Readings(table) : Cardinality({w \in Readings(table) : w > v}) >= RetainedSnapshots}
    \ {current}
OldLogs(table, current) == {v \in Readings(table) : v < current}
Without(table, gone, none) == [n \in Numbers |-> IF n \in gone THEN none ELSE table[n]]

\* cleanup_old_files with the files s and l, the pair c in use: snapshots go first.
Cleanup(s, l, c) ==
  /\ snapshots' = Without(s, OldSnapshots(s, c.snapshot), NoSnapshot)
  /\ logs' = Without(l, OldLogs(l, c.wal), NoLog)
\* It stops on the way: files are removed in the order of their numbers.
UpTo(last, old) == {v \in old : v <= last}
CleanupStops(s, l, c) ==
  \/ /\ \E last \in OldSnapshots(s, c.snapshot) \cup {0} :
          snapshots' = Without(s, UpTo(last, OldSnapshots(s, c.snapshot)), NoSnapshot)
     /\ logs' = l
  \/ /\ snapshots' = Without(s, OldSnapshots(s, c.snapshot), NoSnapshot)
     /\ \E last \in OldLogs(l, c.wal) : logs' = Without(l, UpTo(last, OldLogs(l, c.wal)), NoLog)

-----------------------------------------------------------------------------
(* Opening and stopping *)

Killed ==
  /\ open' = FALSE /\ memory' = <<>>
  /\ last_sequence' = 0 /\ snapshot_sequence' = 0 /\ wal_segment' = 0

Kill == open /\ Killed /\ UNCHANGED <<files, faults>>

\* initialize_fresh: the first segment, then CURRENT.
FirstLog == [logs EXCEPT ![1] = EmptyLog]
OpenFresh ==
  /\ ~open /\ pointer.wal = 0 /\ Readable
  /\ logs' = FirstLog /\ pointer' = [snapshot |-> 0, wal |-> 1]
  /\ open' = TRUE /\ wal_segment' = 1 /\ snapshot_sequence' = 0 /\ last_sequence' = 0
  /\ memory' = <<>>
  /\ UNCHANGED <<snapshots, litter, faults>>

\* The process is killed before it has published CURRENT.
OpenFreshKilled ==
  /\ ~open /\ pointer.wal = 0 /\ Readable
  /\ \/ litter' = TRUE /\ UNCHANGED logs
     \/ logs' = FirstLog /\ UNCHANGED litter
  /\ UNCHANGED <<pointer, snapshots, process, faults>>

\* open(): replay, repair a torn tail, remove old files.
\* Mutant: the torn tail is left in the file.
Unrepaired == logs
Repaired == [logs EXCEPT ![pointer.wal] = [present |-> TRUE, records |-> Records]]
Open ==
  /\ ~open /\ pointer.wal # 0 /\ Readable
  /\ Cleanup(snapshots, Repaired, pointer)
  /\ open' = TRUE /\ wal_segment' = pointer.wal /\ snapshot_sequence' = pointer.snapshot
  /\ last_sequence' = RecoveredSequence /\ memory' = Contents
  /\ UNCHANGED <<pointer, litter, faults>>

\* The process is killed on the way, or a file cannot be removed and the open is refused.
OpenKilled ==
  /\ ~open /\ pointer.wal # 0 /\ Readable
  /\ CleanupStops(snapshots, Repaired, pointer)
  /\ UNCHANGED <<pointer, litter, process, faults>>

-----------------------------------------------------------------------------
(* commit *)

Record(p, missing) == [sequence |-> last_sequence + 1, payload |-> p, missing |-> missing]
Appended(e) == [logs EXCEPT ![wal_segment].records = Append(@, e)]

Commit(p) ==
  /\ open /\ Len(memory) < MaxCommits
  /\ logs' = Appended(Record(p, 0))
  /\ last_sequence' = last_sequence + 1 /\ memory' = Append(memory, p)
  /\ UNCHANGED <<pointer, snapshots, litter, open, snapshot_sequence, wal_segment, faults>>

\* Killed inside the append: any part of the record may be in the file.
CommitKilled(p) ==
  /\ open /\ Len(memory) < MaxCommits
  /\ \E missing \in 0..MaxMissing : logs' = Appended(Record(p, missing))
  /\ Killed
  /\ UNCHANGED <<pointer, snapshots, litter, faults>>

\* A short append (part of the record stays), or a failed flush (all of it does): the
\* caller is told, the sequence is not advanced, and the process goes on.
CommitFails(p) ==
  /\ open /\ Len(memory) < MaxCommits
  /\ commit_faults < MaxCommitFaults /\ commit_faults' = commit_faults + 1
  /\ \E missing \in 0..MaxMissing : logs' = Appended(Record(p, missing))
  /\ UNCHANGED <<pointer, snapshots, litter, process, snapshot_faults>>

-----------------------------------------------------------------------------
(* write_snapshot: the snapshot, the next segment, CURRENT, then the old files *)

NextSnapshot ==
  [snapshots EXCEPT ![snapshot_sequence + 1] =
     [present |-> TRUE, sequence |-> last_sequence, payload |-> memory]]
NextLogs == [logs EXCEPT ![wal_segment + 1] = EmptyLog]
NextPointer == [snapshot |-> snapshot_sequence + 1, wal |-> wal_segment + 1]

\* Before CURRENT is replaced: the snapshot is written, or the next segment as well.
Preparing ==
  /\ snapshots' = NextSnapshot /\ (UNCHANGED logs \/ logs' = NextLogs) /\ UNCHANGED pointer

WriteSnapshot ==
  /\ open /\ wal_segment < MaxNumber
  /\ pointer' = NextPointer /\ Cleanup(NextSnapshot, NextLogs, NextPointer)
  /\ snapshot_sequence' = snapshot_sequence + 1 /\ wal_segment' = wal_segment + 1
  /\ UNCHANGED <<litter, open, last_sequence, memory, faults>>

WriteSnapshotKilled ==
  /\ open /\ wal_segment < MaxNumber
  /\ \/ Preparing
     \/ pointer' = NextPointer /\ CleanupStops(NextSnapshot, NextLogs, NextPointer)
  /\ Killed
  /\ UNCHANGED <<litter, faults>>

\* One of the three files cannot be written and the process goes on with the old pair; or
\* an old file cannot be removed and it goes on with the new one.
WriteSnapshotFails ==
  /\ open /\ wal_segment < MaxNumber
  /\ snapshot_faults < MaxSnapshotFaults /\ snapshot_faults' = snapshot_faults + 1
  /\ \/ Preparing /\ UNCHANGED <<snapshot_sequence, wal_segment>>
     \/ /\ pointer' = NextPointer /\ CleanupStops(NextSnapshot, NextLogs, NextPointer)
        /\ snapshot_sequence' = snapshot_sequence + 1 /\ wal_segment' = wal_segment + 1
  /\ UNCHANGED <<litter, open, last_sequence, memory, commit_faults>>

-----------------------------------------------------------------------------
Next ==
  \/ OpenFresh \/ OpenFreshKilled \/ Open \/ OpenKilled \/ Kill
  \/ \E p \in Payloads : Commit(p) \/ CommitKilled(p) \/ CommitFails(p)
  \/ WriteSnapshot \/ WriteSnapshotKilled \/ WriteSnapshotFails

Spec == Init /\ [][Next]_vars

-----------------------------------------------------------------------------
(* Properties *)

\* Every variable has its type.
TypeOK ==
  /\ pointer \in [snapshot : Nat, wal : Nat]
  /\ snapshots \in [Numbers -> SnapshotFiles] /\ logs \in [Numbers -> LogFiles]
  /\ litter \in BOOLEAN /\ open \in BOOLEAN
  /\ commit_faults \in Nat /\ snapshot_faults \in Nat
  /\ last_sequence \in Nat /\ snapshot_sequence \in Nat /\ wal_segment \in Nat
  /\ memory \in Seq(Payloads)

Log == INSTANCE DurableLog WITH durable <- Contents

\* The store implements the durable log: killed anywhere, it comes back with every
\* mutation that was committed, once and in order, and at most the one that was being
\* committed besides (README section 6).
ImplementsDurableLog == Log!Spec

\* While a process holds the store open, killing it now would leave a store that opens
\* again and contains everything the process was told is committed.
AcknowledgedIsRecoverable ==
  open => /\ Readable
          /\ Len(memory) <= Len(Contents) /\ memory = SubSeq(Contents, 1, Len(memory))

\* A store that was opened once can be opened for good: no kill leaves CURRENT naming a
\* snapshot that is gone or a segment that does not decode.
StaysReadable == pointer.wal # 0 => Readable

\* After one failed commit (short append or failed flush) the store may lose what it
\* acknowledged, but one that opens has nothing in it except committed mutations, in order,
\* and at the end possibly the one that was refused.  Comparing sequences at replay is what
\* keeps a refused record out of the middle; after a second failure it no longer does.
NothingInvented ==
  open /\ Readable /\ commit_faults <= 1 =>
    LET shared == IF Len(memory) < Len(Contents) THEN Len(memory) ELSE Len(Contents)
    IN /\ SubSeq(memory, 1, shared) = SubSeq(Contents, 1, shared)
       /\ Len(Contents) <= Len(memory) + 1
=============================================================================
