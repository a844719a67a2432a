------------------------------- MODULE Loglol -------------------------------
(***************************************************************************)
(* loglol.c: lines from standard input go to the file current, which from  *)
(* time to time is renamed to the second of that moment; old ones are      *)
(* deleted.  The program may die at any step and be started again.         *)
(*                                                                         *)
(* Lines are numbered as they come, Shutdown and TooFast are the program's *)
(* own.  What stdio holds back is in buffer.  Each old file has its lines, *)
(* the time of its last write, and whether it is a regular file of ours.   *)
(***************************************************************************)
EXTENDS Integers, Sequences, FiniteSets, Functions

CONSTANTS
  LOGLINES,     \* lines of a file, 128000
  KEEPTIME,     \* two days
  Left,         \* what was in the directory before: sets of old files
  Begin,        \* the time then
  MaxTime, MaxLines   \* bounds on the clock and on the lines that come

(* What was in the directory: files of ours have the second for a name at  *)
(* which they were renamed, and hold none of the lines that will come.     *)
LoglolBounds ==
  /\ {LOGLINES, KEEPTIME, MaxLines} \subseteq Nat
  /\ {Begin, MaxTime} \subseteq Int /\ Begin <= MaxTime
  /\ \A files \in Left :
       /\ files \in [DOMAIN files -> [lines : Seq(Int), mtime : Int, own : BOOLEAN]]
       /\ DOMAIN files \subseteq Int
       /\ \A name \in DOMAIN files :
            /\ files[name].own => name <= Begin
            /\ \A k \in 1..Len(files[name].lines) : files[name].lines[k] <= 0

VARIABLES
  now,
  current,      \* the file, or Absent
  old,          \* the other files by their names
  pc,           \* what the program does, "down" when it does not run
  oldfilename,  \* the name newlogfile() has made
  buffer,
  lines,        \* the counter of main()
  flush_time, alarm,
  came          \* lines that came

process == <<pc, oldfilename, buffer, lines, flush_time, alarm>>
vars == <<now, current, old, process, came>>

Absent == [lines |-> <<>>, mtime |-> -1, own |-> FALSE]
Shutdown == 0
TooFast == -1

Stat(name) == name \in DOMAIN old
Add(name, file) == [n \in DOMAIN old \cup {name} |-> IF n = name THEN file ELSE old[n]]

Init ==
  /\ now = Begin /\ current = Absent /\ old \in Left
  /\ pc = "down" /\ oldfilename = 0 /\ buffer = <<>> /\ lines = 0
  /\ flush_time = 0 /\ alarm = 0
  /\ came = 0

(* fflush(): the first n lines that are held back are written.             *)
Flushed(file, n) ==
  IF n = 0 THEN file
  ELSE [file EXCEPT !.lines = @ \o SubSeq(buffer, 1, n), !.mtime = now]

-----------------------------------------------------------------------------
(* newlogfile(NULL) at the start.                                          *)

Start ==
  /\ pc = "down" /\ oldfilename' = now
  /\ pc' = IF Stat(now) THEN "down" ELSE IF current = Absent THEN "open" ELSE "rename"
  /\ UNCHANGED <<now, current, old, buffer, lines, flush_time, alarm, came>>

(* newlogfile(logfile) when the file is full.                              *)

Exists == Stat(now)

Rotate ==
  /\ pc = "full" /\ oldfilename' = now
  /\ IF Exists THEN buffer' = Append(buffer, TooFast) /\ pc' = "clean"
               ELSE buffer' = buffer /\ pc' = "close"
  /\ UNCHANGED <<now, current, old, lines, flush_time, alarm, came>>

CloseOld ==
  /\ pc = "close" /\ pc' = "rename"
  /\ current' = Flushed(current, Len(buffer)) /\ buffer' = <<>>
  /\ UNCHANGED <<now, old, oldfilename, lines, flush_time, alarm, came>>

Rename ==
  /\ pc = "rename" /\ pc' = "open"
  /\ old' = Add(oldfilename, current) /\ current' = Absent
  /\ UNCHANGED <<now, oldfilename, buffer, lines, flush_time, alarm, came>>

(* fopen() for writing empties a file that is there.                       *)
Open ==
  /\ pc = "open" /\ pc' = "clean"
  /\ current' = [lines |-> <<>>, mtime |-> now, own |-> TRUE]
  /\ UNCHANGED <<now, old, oldfilename, buffer, lines, flush_time, alarm, came>>

-----------------------------------------------------------------------------
(* oldcleanup()                                                            *)

Dies(name) == old[name].own /\ now - old[name].mtime > KEEPTIME

Unlink ==
  /\ pc = "clean"
  /\ \E name \in DOMAIN old : Dies(name) /\ old' = Restrict(old, DOMAIN old \ {name})
  /\ UNCHANGED <<now, current, process, came>>

(* The rest of the directory is passed over, and so is a file that cannot  *)
(* be looked at or deleted.  The alarm is set once, at the start.          *)
Cleaned ==
  /\ pc = "clean" /\ pc' = "run" /\ lines' = 0
  /\ alarm' = IF lines = 0 THEN 1 ELSE alarm
  /\ UNCHANGED <<now, current, old, oldfilename, buffer, flush_time, came>>

-----------------------------------------------------------------------------
(* The loop of main().                                                     *)

\* Mutant of Full: one line more.
FullLate == lines > LOGLINES + 1

Full == lines > LOGLINES

(* A line comes: a flush if the flag is set, the line is written, and      *)
(* stdio may pass on what it holds back.                                   *)
ReadLine ==
  /\ pc = "run" /\ came < MaxLines /\ came' = came + 1
  /\ LET flushed == IF flush_time = 1 THEN Len(buffer) ELSE 0
         rest == Append(SubSeq(buffer, flushed + 1, Len(buffer)), came + 1)
     IN \E spilt \in 0..Len(rest) :
          /\ current' = [current EXCEPT
               !.lines = @ \o SubSeq(buffer, 1, flushed) \o SubSeq(rest, 1, spilt),
               !.mtime = IF flushed + spilt > 0 THEN now ELSE @]
          /\ buffer' = SubSeq(rest, spilt + 1, Len(rest))
  /\ alarm' = IF flush_time = 1 THEN 1 ELSE alarm
  /\ lines' = lines + 1
  /\ pc' = IF Full THEN "full" ELSE "run"
  /\ UNCHANGED <<now, old, oldfilename, flush_time>>

(* exit() flushes.                                                         *)
EndOfInput ==
  /\ pc = "run" /\ pc' = "down"
  /\ current' = [current EXCEPT !.lines = @ \o buffer \o <<Shutdown>>, !.mtime = now]
  /\ buffer' = <<>> /\ lines' = 0 /\ flush_time' = 0 /\ alarm' = 0 /\ oldfilename' = 0
  /\ UNCHANGED <<now, old, came>>

CatchAlarm ==
  /\ alarm = 1 /\ flush_time' = 1 /\ alarm' = 0
  /\ UNCHANGED <<now, current, old, pc, oldfilename, buffer, lines, came>>

(* A call fails, or the program is killed.  Of what is held back all is    *)
(* written by exit(), nothing after a signal, and part when the disk is    *)
(* full.                                                                   *)
Die ==
  /\ pc # "down" /\ pc' = "down"
  /\ \E n \in 0..Len(buffer) : current' = Flushed(current, n)
  /\ buffer' = <<>> /\ lines' = 0 /\ flush_time' = 0 /\ alarm' = 0 /\ oldfilename' = 0
  /\ UNCHANGED <<now, old, came>>

\* A clock that is set back is left out: names of files would be out of order.
Tick ==
  /\ now < MaxTime /\ now' = now + 1
  /\ UNCHANGED <<current, old, process, came>>

Next ==
  \/ Start \/ Rotate \/ CloseOld \/ Rename \/ Open \/ Unlink \/ Cleaned
  \/ ReadLine \/ EndOfInput \/ CatchAlarm \/ Die \/ Tick

Spec == Init /\ [][Next]_vars

-----------------------------------------------------------------------------
TypeOK ==
  /\ now \in Begin..MaxTime /\ came \in 0..MaxLines
  /\ pc \in {"down", "full", "close", "rename", "open", "clean", "run"}
  /\ lines \in 0..LOGLINES + 2
  /\ flush_time \in {0, 1} /\ alarm \in {0, 1}
  /\ pc = "run" => current # Absent

OnDisk == UNION ({Range(current.lines)} \cup {Range(old[name].lines) : name \in DOMAIN old})

(* loglol.c:161-176, :186-250: a line that came stays until its file is a  *)
(* regular one of ours that nobody has written to for two days, or the     *)
(* program dies before stdio passed it on.  A rotation loses none, nor     *)
(* does a death in the middle of one.                                      *)
Lasts ==
  \A n \in (OnDisk \cup Range(buffer)) \ (OnDisk \cup Range(buffer))' :
    \/ \E name \in DOMAIN old :
         n \in Range(old[name].lines) /\ old[name].own /\ now - old[name].mtime > KEEPTIME
    \/ Die /\ n \in Range(buffer)
Lasting == [][Lasts]_vars

(* The lines that came are numbered from 1.                                *)
Increasing(s) ==
  \A k, m \in 1..Len(s) : (k < m /\ s[k] > 0 /\ s[m] > 0) => s[k] < s[m]
Before(s, t) ==
  \A k \in 1..Len(s), m \in 1..Len(t) : (s[k] > 0 /\ t[m] > 0) => s[k] < t[m]

Own == {name \in DOMAIN old : old[name].own}

(* loglol.c:139-159: read in the order of their names, with current at the *)
(* end, the files have the lines in the order in which they came, each     *)
(* once, as long as the clock is not set back.                             *)
InOrder ==
  /\ \A name \in Own : /\ Increasing(old[name].lines)
                       /\ Before(old[name].lines, current.lines \o buffer)
  /\ \A name, later \in Own : name < later => Before(old[name].lines, old[later].lines)
  /\ Increasing(current.lines \o buffer)

(* loglol.c:66, :152-158: a file holds as many lines as it may and two,    *)
(* except that it is gone on with when two would get the same name.        *)
Sized ==
  \A file \in {current} \cup {old[name] : name \in DOMAIN old} :
    \A i, j \in 1..Len(file.lines) :
      (\A k \in i..j : file.lines[k] > 0) => j - i < LOGLINES + 2

(* loglol.c:66, :139-159: lines stay in their order over all files, which  *)
(* have as many as they may.                                               *)
OrderKept == TypeOK /\ InOrder /\ Sized
=============================================================================
