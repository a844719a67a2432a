------------------------------- MODULE Publish -------------------------------
(***************************************************************************)
(* How a new data.cdb comes into place: tinydns-data reads data line by    *)
(* line, writes data.tmp, has it put on the disk and gives it the name     *)
(* data.cdb, while data is saved again, servers read, and the program or   *)
(* the machine may stop between any two steps.                             *)
(*                                                                         *)
(* A version of data has Lines lines, and the bad ones a line that cannot  *)
(* be parsed.  A file is saved by renaming, as tinydns-edit does.  What is *)
(* written reaches the disk with fsync, and what a crash leaves of         *)
(* anything else is any part of it; a rename is on the disk some time      *)
(* later.                                                                  *)
(***************************************************************************)
EXTENDS Integers

CONSTANTS
  Lines,       \* lines of each version, 1 or more
  Bad,         \* versions with a line that cannot be parsed
  Server,      \* processes that read data.cdb
  MaxVersion, MaxFailures, MaxCrashes   \* bounds for the model checker

PublishBounds == Lines \in Nat \ {0} /\ MaxVersion \in Nat \ {0}
ASSUME BoundsAssumption == PublishBounds

VARIABLES
  data,        \* the version of data
  tmp,         \* data.tmp: version, lines, whole, and whether on the disk
  cdb, disk,   \* data.cdb, and what it is after a crash
  open,        \* the file each server has open
  pc, version, line,   \* of tinydns-data
  failures, crashes   \* calls that failed and crashes of the machine

vars == <<data, tmp, cdb, disk, open, pc, version, line, failures, crashes>>
reader == <<data, open, failures, crashes>>

Absent == [version |-> 0, lines |-> 0, whole |-> FALSE, synced |-> TRUE]
Whole(f) == f.whole /\ f.lines = Lines /\ f.version \notin Bad

Init ==
  /\ data = 1 /\ tmp = Absent /\ cdb = Absent /\ disk = Absent
  /\ open = [s \in Server |-> Absent]
  /\ pc = "idle" /\ version = 0 /\ line = 0 /\ failures = 0 /\ crashes = 0

-----------------------------------------------------------------------------
(* tinydns-data                                                            *)

\* Mutant of Start: data.tmp has to be a new file.
StartExclusive ==
  /\ pc = "idle" /\ tmp = Absent
  /\ version' = data /\ line' = 0
  /\ tmp' = [version |-> data, lines |-> 0, whole |-> FALSE, synced |-> FALSE]
  /\ pc' = "reading"
  /\ UNCHANGED <<reader, cdb, disk>>

(* data stays open: a version saved meanwhile is another file.  What an    *)
(* earlier run left in data.tmp is cut off.                                *)
Start ==
  /\ pc = "idle"
  /\ version' = data /\ line' = 0
  /\ tmp' = [version |-> data, lines |-> 0, whole |-> FALSE, synced |-> FALSE]
  /\ pc' = "reading"
  /\ UNCHANGED <<reader, cdb, disk>>

AtLine == pc = "reading" /\ line < Lines

ReadLine ==
  /\ AtLine /\ (version \in Bad => line + 1 < Lines)
  /\ line' = line + 1 /\ tmp' = [tmp EXCEPT !.lines = line + 1]
  /\ UNCHANGED <<reader, cdb, disk, pc, version>>

SyntaxError ==
  /\ AtLine /\ version \in Bad /\ line + 1 = Lines
  /\ pc' = "idle"
  /\ UNCHANGED <<reader, tmp, cdb, disk, version, line>>

EndOfData ==
  /\ pc = "reading" /\ line = Lines
  /\ pc' = "finish"
  /\ UNCHANGED <<reader, tmp, cdb, disk, version, line>>

Finish ==
  /\ pc = "finish"
  /\ tmp' = [tmp EXCEPT !.whole = TRUE] /\ pc' = "fsync"
  /\ UNCHANGED <<reader, cdb, disk, version, line>>

\* Mutant of Fsync: the file is left to the system.
FsyncNot ==
  /\ pc = "fsync"
  /\ pc' = "rename"
  /\ UNCHANGED <<reader, tmp, cdb, disk, version, line>>

Fsync ==
  /\ pc = "fsync"
  /\ tmp' = [tmp EXCEPT !.synced = TRUE] /\ pc' = "rename"
  /\ UNCHANGED <<reader, cdb, disk, version, line>>

Rename ==
  /\ pc = "rename"
  /\ cdb' = tmp /\ tmp' = Absent /\ pc' = "idle"
  /\ UNCHANGED <<reader, disk, version, line>>

(* Every call of open, write, fsync, close and rename may fail.            *)
Dies ==
  /\ pc # "idle" /\ failures < MaxFailures
  /\ pc' = "idle" /\ failures' = failures + 1
  /\ UNCHANGED <<data, open, crashes, tmp, cdb, disk, version, line>>

-----------------------------------------------------------------------------
(* Around it.                                                              *)

Save ==
  /\ data < MaxVersion
  /\ data' = data + 1
  /\ UNCHANGED <<tmp, cdb, disk, open, pc, version, line, failures, crashes>>

OpenRead(s) ==
  /\ open' = [open EXCEPT ![s] = cdb]
  /\ UNCHANGED <<data, tmp, cdb, disk, pc, version, line, failures, crashes>>

RenameOnDisk ==
  /\ disk' = cdb
  /\ UNCHANGED <<reader, tmp, cdb, pc, version, line>>

\* What a crash leaves of a file of which n lines, and the end or not, were written out.
Left(f, n, end) ==
  IF f.synced THEN f
  ELSE [f EXCEPT !.lines = IF n < @ THEN n ELSE @, !.whole = @ /\ end, !.synced = TRUE]

Crash ==
  /\ crashes < MaxCrashes /\ crashes' = crashes + 1
  /\ \E n \in 0..Lines, end \in BOOLEAN : disk' = Left(disk, n, end)
  /\ \E n \in 0..Lines, end \in BOOLEAN : tmp' = Left(tmp, n, end)
  /\ cdb' = disk'
  /\ pc' = "idle" /\ open' = [s \in Server |-> Absent]
  /\ UNCHANGED <<data, version, line, failures>>

Compile == Start \/ ReadLine \/ SyntaxError \/ EndOfData \/ Finish \/ Fsync \/ Rename

Next ==
  \/ Compile \/ Dies \/ Save \/ RenameOnDisk \/ Crash
  \/ \E s \in Server : OpenRead(s)

Spec == Init /\ [][Next]_vars

(* It is run again and again, and calls do not fail for ever.              *)
FairSpec == Spec /\ WF_vars(Compile)

-----------------------------------------------------------------------------
Files == [version : 0..MaxVersion, lines : 0..Lines, whole : BOOLEAN, synced : BOOLEAN]

TypeOK ==
  /\ data \in 1..MaxVersion /\ version \in 0..MaxVersion /\ line \in 0..Lines
  /\ pc \in {"idle", "reading", "finish", "fsync", "rename"}
  /\ tmp \in Files /\ cdb \in Files /\ disk \in Files /\ open \in [Server -> Files]

(* tinydns-data.c:487-491: what servers find under the name data.cdb, also *)
(* after a crash, is all of one version, or there is none.                 *)
ServedWhole ==
  /\ TypeOK
  /\ \A f \in {cdb, disk} \cup {open[s] : s \in Server} : f # Absent => Whole(f)

(* tinydns-data.c:210, :490: whatever stopped earlier runs, and with what  *)
(* left in data.tmp, a version that can be parsed and is not replaced is   *)
(* served in the end.                                                      *)
Published == <>[](data \notin Bad => cdb.version = data)
=============================================================================
