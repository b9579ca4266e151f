---------------------------- MODULE StoreSnapshot ----------------------------
(***************************************************************************)
(* Snapshots of a store (service/store/snapshot and the commands snapshot  *)
(* and restore of service/store/cli).  The command reads the keys that it  *)
(* has listed, one by one, and hands the records to a goroutine that       *)
(* encodes them into a file; restoring decodes them and writes each to     *)
(* another store.  Other clients change the store in the meantime.         *)
(*                                                                         *)
(* A record is its value and its expiry, each of which can be zero; the    *)
(* encoding (gob) leaves a zero field out, and decoding leaves such a      *)
(* field of its destination as it is.  Expiry is a point in time here.     *)
(***************************************************************************)
EXTENDS Naturals, Sequences, SequencesExt, FiniteSets

CONSTANTS
  SnapshotKeys,       \* keys of the store
  RecordValues,       \* values that are not empty
  Expiries,           \* points in time at which records expire
  Zero,               \* the empty value; the expiry of a record that stays
  Absent,             \* no record
  MaxSourceChanges,   \* bound on changes by other clients
  MaxSnapshotFaults   \* bound on errors of the stores and of the file

ASSUME SnapshotAssumption ==
  MaxSourceChanges \in Nat /\ MaxSnapshotFaults \in Nat /\ IsFiniteSet(SnapshotKeys)

Fields == [value : RecordValues \cup {Zero}, expiry : Expiries \cup {Zero}]
SnapshotRecords == [key : SnapshotKeys, fields : Fields]

VARIABLES
  source, sourceChanges,   \* the store, and how often it was changed
  command,                 \* where the command is: snapshot, then restore
  listed,                  \* the keys still to be read
  handed,                  \* the records the command has sent on the channel
  writer,                  \* the goroutine of receiveRecords
  wg,                      \* its WaitGroup
  hand,                    \* the record it has received and not yet encoded
  file,                    \* the records in the file
  decoded,                 \* restore: records read, and the variable r
  target, failedWrites,    \* the other store; keys that could not be written
  snapshotFaults

snapshotVars == <<source, sourceChanges, command, listed, handed, writer, wg, hand, file,
                  decoded, target, failedWrites, snapshotFaults>>

SourceChanges(k, fields) ==
  /\ sourceChanges < MaxSourceChanges /\ sourceChanges' = sourceChanges + 1
  /\ command \in {"start", "list", "read"}
  /\ source' = [source EXCEPT ![k] = fields]
  /\ UNCHANGED <<command, listed, handed, writer, wg, hand, file, decoded, target,
                 failedWrites, snapshotFaults>>

Fault == snapshotFaults < MaxSnapshotFaults /\ snapshotFaults' = snapshotFaults + 1

-----------------------------------------------------------------------------
(***************************************************************************)
(* The snapshot command.  When it returns the process ends, and with it    *)
(* the goroutine.                                                          *)
(***************************************************************************)
StartSnapshot ==
  /\ command = "start"
  /\ command' = "list" /\ writer' = "spawned"
  /\ UNCHANGED <<source, sourceChanges, listed, handed, wg, hand, file, decoded, target,
                 failedWrites, snapshotFaults>>

ListSource ==
  /\ command = "list"
  /\ \E keys \in SetToSeqs({k \in SnapshotKeys : source[k] # Absent}) : listed' = keys
  /\ command' = "read"
  /\ UNCHANGED <<source, sourceChanges, handed, writer, wg, hand, file, decoded, target,
                 failedWrites, snapshotFaults>>

\* The channel has no buffer: sending a record waits for the goroutine.
ReadAndSend ==
  /\ command = "read" /\ listed # <<>> /\ source[Head(listed)] # Absent
  /\ writer = "receiving"
  /\ LET r == [key |-> Head(listed), fields |-> source[Head(listed)]] IN
       handed' = Append(handed, r) /\ hand' = r
  /\ listed' = Tail(listed) /\ writer' = "encoding"
  /\ UNCHANGED <<source, sourceChanges, command, wg, file, decoded, target, failedWrites,
                 snapshotFaults>>

\* The key is gone, or a call fails: the file stays as it is.
SnapshotFails ==
  /\ \/ command = "read" /\ listed # <<>> /\ source[Head(listed)] = Absent
        /\ UNCHANGED snapshotFaults
     \/ command \in {"start", "list", "read"} /\ Fault
  /\ command' = "failed"
  /\ UNCHANGED <<source, sourceChanges, listed, handed, writer, wg, hand, file, decoded,
                 target, failedWrites>>

CloseRecords ==
  /\ command = "read" /\ listed = <<>>
  /\ command' = "wait"
  /\ UNCHANGED <<source, sourceChanges, listed, handed, writer, wg, hand, file, decoded,
                 target, failedWrites, snapshotFaults>>

\* Mutant: the command does not wait.
NoWait ==
  /\ command = "wait"
  /\ command' = "saved"
  /\ UNCHANGED <<source, sourceChanges, listed, handed, writer, wg, hand, file, decoded,
                 target, failedWrites, snapshotFaults>>

Wait ==
  /\ command = "wait" /\ wg = 0
  /\ command' = "saved"
  /\ UNCHANGED <<source, sourceChanges, listed, handed, writer, wg, hand, file, decoded,
                 target, failedWrites, snapshotFaults>>

-----------------------------------------------------------------------------
(***************************************************************************)
(* receiveRecords.                                                         *)
(***************************************************************************)
SnapshotRuns == command \in {"list", "read", "wait"}

WriterAdds ==
  /\ SnapshotRuns /\ writer = "spawned"
  /\ writer' = "receiving" /\ wg' = wg + 1
  /\ UNCHANGED <<source, sourceChanges, command, listed, handed, hand, file, decoded, target,
                 failedWrites, snapshotFaults>>

Encode ==
  /\ SnapshotRuns /\ writer = "encoding"
  /\ file' = Append(file, hand) /\ hand' = Absent /\ writer' = "receiving"
  /\ UNCHANGED <<source, sourceChanges, command, listed, handed, wg, decoded, target,
                 failedWrites, snapshotFaults>>

\* A failed Encode panics: nothing recovers, and the process ends.
EncodePanics ==
  /\ SnapshotRuns /\ writer = "encoding" /\ Fault
  /\ command' = "failed"
  /\ UNCHANGED <<source, sourceChanges, listed, handed, writer, wg, hand, file, decoded,
                 target, failedWrites>>

WriterDone ==
  /\ command = "wait" /\ writer = "receiving"
  /\ writer' = "done" /\ wg' = wg - 1
  /\ UNCHANGED <<source, sourceChanges, command, listed, handed, hand, file, decoded, target,
                 failedWrites, snapshotFaults>>

-----------------------------------------------------------------------------
(***************************************************************************)
(* The restore command and FileRestore.Start: r is decoded into again and  *)
(* again.                                                                  *)
(***************************************************************************)
StartRestore ==
  /\ command = "saved"
  /\ command' = "restore"
  /\ UNCHANGED <<source, sourceChanges, listed, handed, writer, wg, hand, file, decoded,
                 target, failedWrites, snapshotFaults>>

Decode(new, r) == [value  |-> IF new.value = Zero THEN r.value ELSE new.value,
                   expiry |-> IF new.expiry = Zero THEN r.expiry ELSE new.expiry]

\* A write that fails is logged, and the next record restored.
RestoreRecord ==
  /\ command = "restore" /\ decoded.count < Len(file)
  /\ LET new == file[decoded.count + 1]
         r == Decode(new.fields, decoded.r)
     IN /\ decoded' = [count |-> decoded.count + 1, r |-> r]
        /\ \/ target' = [target EXCEPT ![new.key] = r] /\ UNCHANGED <<failedWrites, snapshotFaults>>
           \/ failedWrites' = failedWrites \cup {new.key} /\ Fault /\ UNCHANGED target
  /\ UNCHANGED <<source, sourceChanges, command, listed, handed, writer, wg, hand, file>>

RestoreEnds ==
  /\ command = "restore" /\ decoded.count = Len(file)
  /\ command' = "restored"
  /\ UNCHANGED <<source, sourceChanges, listed, handed, writer, wg, hand, file, decoded,
                 target, failedWrites, snapshotFaults>>

-----------------------------------------------------------------------------
SnapshotInit ==
  /\ source = [k \in SnapshotKeys |-> Absent] /\ sourceChanges = 0
  /\ command = "start" /\ listed = <<>> /\ handed = <<>>
  /\ writer = "none" /\ wg = 0 /\ hand = Absent /\ file = <<>>
  /\ decoded = [count |-> 0, r |-> [value |-> Zero, expiry |-> Zero]]
  /\ target = [k \in SnapshotKeys |-> Absent] /\ failedWrites = {}
  /\ snapshotFaults = 0

SnapshotNext ==
  \/ \E k \in SnapshotKeys, fields \in Fields \cup {Absent} : SourceChanges(k, fields)
  \/ StartSnapshot \/ ListSource \/ ReadAndSend \/ SnapshotFails \/ CloseRecords \/ Wait
  \/ WriterAdds \/ Encode \/ EncodePanics \/ WriterDone
  \/ StartRestore \/ RestoreRecord \/ RestoreEnds

-----------------------------------------------------------------------------
SnapshotTypeOK ==
  /\ source \in [SnapshotKeys -> Fields \cup {Absent}]
  /\ target \in [SnapshotKeys -> Fields \cup {Absent}]
  /\ command \in {"start", "list", "read", "wait", "saved", "restore", "restored", "failed"}
  /\ writer \in {"none", "spawned", "receiving", "encoding", "done"}
  /\ wg \in 0 .. 1
  /\ listed \in Seq(SnapshotKeys) /\ hand \in SnapshotRecords \cup {Absent}
  /\ handed \in Seq(SnapshotRecords) /\ file \in Seq(SnapshotRecords)
  /\ decoded \in [count : Nat, r : Fields] /\ failedWrites \subseteq SnapshotKeys

(***************************************************************************)
(* Snapshot, Wait and receiveRecords: a snapshot command that succeeds has *)
(* in its file every record it sent, although the goroutine joins the      *)
(* WaitGroup only after Start has returned: what Wait may miss is no more  *)
(* than the closing of a file without records.                             *)
(***************************************************************************)
SnapshotComplete ==
  command \in {"saved", "restore", "restored"} =>
    /\ file = handed /\ hand = Absent /\ listed = <<>>
    /\ writer # "done" => handed = <<>>

\* The i-th record of the file has been restored, or could not be written.
Restored(i) ==
  LET got == target[file[i].key]
  IN IF file[i].key \in failedWrites THEN got = Absent
     ELSE \A f \in {"value", "expiry"} :
            \/ got[f] = file[i].fields[f]
            \/ file[i].fields[f] = Zero /\ \E j \in 1 .. i - 1 : got[f] = file[j].fields[f]

(***************************************************************************)
(* FileRestore.Start and Restore: a restored record is the one of the      *)
(* snapshot, except in a field that is zero there and was not zero in an   *)
(* earlier record of the file: such a record gets a value or an expiry     *)
(* that was never its own.  A key that is not restored could not be        *)
(* written, and the command succeeds all the same.                         *)
(***************************************************************************)
RestoredAsSaved ==
  command = "restored" =>
    /\ \A i \in 1 .. Len(file) : Restored(i)
    /\ \A k \in SnapshotKeys :
         target[k] # Absent => \E i \in 1 .. Len(file) : file[i].key = k

-----------------------------------------------------------------------------
(***************************************************************************)
(* What the two rest on: how the goroutine keeps up with the command, that *)
(* no key is read twice, and what a restore has done so far.               *)
(***************************************************************************)
WriterInStep ==
  /\ wg = 1 <=> writer \in {"receiving", "encoding"}
  /\ writer \in {"none", "spawned"} \/ command \in {"start", "list"} => handed = <<>>
  /\ IF writer = "encoding" THEN handed = Append(file, hand) ELSE file = handed /\ hand = Absent
  /\ command \in {"wait", "saved", "restore", "restored"} => listed = <<>>
  /\ command \in {"saved", "restore", "restored"} => wg = 0
  /\ command = "start" => writer = "none"

KeysOnce ==
  /\ \A i, j \in 1 .. Len(listed) : i # j => listed[i] # listed[j]
  /\ \A i, j \in 1 .. Len(handed) : i # j => handed[i].key # handed[j].key
  /\ \A i \in 1 .. Len(handed), j \in 1 .. Len(listed) : handed[i].key # listed[j]

RestoredSoFar ==
  /\ decoded.count <= Len(file)
  /\ command \notin {"restore", "restored"} => decoded.count = 0
  /\ command = "restored" => decoded.count = Len(file)
  /\ \A f \in {"value", "expiry"} :
       decoded.r[f] = Zero \/ \E j \in 1 .. decoded.count : decoded.r[f] = file[j].fields[f]
  /\ \A i \in 1 .. decoded.count : Restored(i)
  /\ \A k \in SnapshotKeys :
       target[k] # Absent \/ k \in failedWrites =>
         \E i \in 1 .. decoded.count : file[i].key = k

SnapshotIInv == SnapshotTypeOK /\ WriterInStep /\ KeysOnce /\ RestoredSoFar
=============================================================================
