-------------------------------- MODULE Edit --------------------------------
(***************************************************************************)
(* tinydns-edit.c: a line is added to the file data by writing a new file  *)
(* and renaming it.  Several editors may run, each with a new file of its  *)
(* own; any of them may fail or be killed at any step.                     *)
(*                                                                         *)
(* A line is its first character, its name and address, the letter or      *)
(* other name of a server, and its lifetime, None when it has none.        *)
(***************************************************************************)
EXTENDS Integers, Sequences, FiniteSets, SequencesExt

CONSTANTS
  Editor,
  Letters,      \* letters a server may have, 26 in order
  Old,          \* files to begin with
  Command,      \* what may be asked for: mode, target and address
  MaxEdits,     \* bound on the number of edits for the model checker
  None

TTL_NS == 259200
TTL_POSITIVE == 86400

VARIABLES
  data,         \* lines of fn
  new,          \* lines of each editor's fnnew
  ed,           \* the editors
  edits         \* edits begun

vars == <<data, new, ed, edits>>

Idle == [pc |-> "idle", mode |-> "=", target |-> None, ip |-> None,
         src |-> <<>>, linenum |-> 1, used |-> {}, ttl |-> 0]

Init ==
  /\ data \in Old /\ new = [e \in Editor |-> <<>>]
  /\ ed = [e \in Editor |-> Idle] /\ edits = 0

Lettered(mode) == mode \in {".", "&", "@"}
Default(mode) == IF mode \in {".", "&"} THEN TTL_NS ELSE TTL_POSITIVE

-----------------------------------------------------------------------------
(* Both files are opened; the data read are those under the name now.      *)
Open(e, cmd) ==
  /\ ed[e].pc = "idle" /\ edits < MaxEdits
  /\ edits' = edits + 1
  /\ new' = [new EXCEPT ![e] = <<>>]
  /\ ed' = [ed EXCEPT ![e] = [Idle EXCEPT !.pc = "reading", !.mode = cmd.mode, !.target = cmd.target,
                                          !.ip = cmd.ip, !.src = data, !.ttl = Default(cmd.mode)]]
  /\ UNCHANGED data

Exit(e) == ed' = [ed EXCEPT ![e] = Idle]

AtLine(e) == ed[e].pc = "reading" /\ ed[e].linenum <= Len(ed[e].src)
Line(e) == ed[e].src[ed[e].linenum]

Refused(e) ==
  /\ ed[e].mode = "=" /\ Line(e).c = "="
  /\ Line(e).target = ed[e].target \/ Line(e).ip = ed[e].ip

Matching(e) == Lettered(ed[e].mode) /\ Line(e).c = ed[e].mode /\ Line(e).target = ed[e].target

LineTtl(e) == IF Line(e).ttl = None THEN Default(ed[e].mode) ELSE Line(e).ttl

\* Mutant of ReadLine: a line with a letter does not use it up.
ReadLineUnused(e) ==
  /\ AtLine(e)
  /\ new' = [new EXCEPT ![e] = Append(@, Line(e))]
  /\ IF Refused(e) THEN Exit(e)
     ELSE ed' = [ed EXCEPT ![e].linenum = @ + 1,
                           ![e].ttl = IF Matching(e) THEN LineTtl(e) ELSE @]
  /\ UNCHANGED <<data, edits>>

(* A line is copied, and kept in mind when it is one of the same kind for  *)
(* the same name.                                                          *)
ReadLine(e) ==
  /\ AtLine(e)
  /\ new' = [new EXCEPT ![e] = Append(@, Line(e))]
  /\ IF Refused(e) THEN Exit(e)
     ELSE ed' = [ed EXCEPT ![e].linenum = @ + 1,
                           ![e].ttl = IF Matching(e) THEN LineTtl(e) ELSE @,
                           ![e].used = IF Matching(e) THEN @ \cup ({Line(e).server} \cap ToSet(Letters)) ELSE @]
  /\ UNCHANGED <<data, edits>>

Free(e) == {k \in 1..Len(Letters) : Letters[k] \notin ed[e].used}

Letter(e) ==
  IF Lettered(ed[e].mode) THEN Letters[CHOOSE k \in Free(e) : \A m \in Free(e) : k <= m] ELSE None

Added(e) == [c |-> ed[e].mode, target |-> ed[e].target, ip |-> ed[e].ip,
             server |-> Letter(e), ttl |-> ed[e].ttl]

(* The line is added, unless all letters are used.                         *)
AddLine(e) ==
  /\ ed[e].pc = "reading" /\ ed[e].linenum = Len(ed[e].src) + 1
  /\ IF Lettered(ed[e].mode) /\ Free(e) = {} THEN Exit(e) /\ UNCHANGED new
     ELSE /\ new' = [new EXCEPT ![e] = Append(@, Added(e))]
          /\ ed' = [ed EXCEPT ![e].pc = "added"]
  /\ UNCHANGED <<data, edits>>

(* After flush, fsync and close.                                           *)
Rename(e) ==
  /\ ed[e].pc = "added"
  /\ data' = new[e] /\ new' = [new EXCEPT ![e] = <<>>] /\ Exit(e)
  /\ UNCHANGED edits

(* A call fails or the editor is killed; the new file stays behind with    *)
(* what was written of it.                                                 *)
Die(e) ==
  /\ ed[e].pc # "idle"
  /\ \E n \in 0..Len(new[e]) : new' = [new EXCEPT ![e] = SubSeq(@, 1, n)]
  /\ Exit(e)
  /\ UNCHANGED <<data, edits>>

Step(e) == (\E cmd \in Command : Open(e, cmd)) \/ ReadLine(e) \/ AddLine(e) \/ Rename(e) \/ Die(e)

Next == \E e \in Editor : Step(e)

Spec == Init /\ [][Next]_vars

-----------------------------------------------------------------------------
TypeOK ==
  /\ \A e \in Editor : /\ ed[e].pc \in {"idle", "reading", "added"}
                       /\ ed[e].linenum \in 1..Len(ed[e].src) + 1
                       /\ ed[e].used \subseteq ToSet(Letters)
  /\ edits \in 0..MaxEdits

\* Lines of one kind for a name: "." and "&" are kinds of their own, and an
\* addition of the one does not look at lines of the other.
Like(f, k, m) == f[k].c = f[m].c /\ f[k].target = f[m].target
Pairs(f) == {p \in (1..Len(f)) \X (1..Len(f)) : p[1] < p[2]}

(* tinydns-edit.c:174-239: no two servers of a name that are of one kind   *)
(* get the same letter, whoever edits.  Their lines would become one server*)
(* with two addresses.                                                     *)
LettersDistinct(f) ==
  \A p \in Pairs(f) : Lettered(f[p[1]].c) /\ Like(f, p[1], p[2]) => f[p[1]].server # f[p[2]].server

(* tinydns-edit.c:194-204: an address keeps one name, and a name one       *)
(* address, so that both directions agree.                                 *)
HostsDistinct(f) ==
  \A p \in Pairs(f) :
    (f[p[1]].c = "=" /\ f[p[2]].c = "=") => f[p[1]].target # f[p[2]].target /\ f[p[1]].ip # f[p[2]].ip

Ttl(line) == IF line.ttl = None THEN Default(line.c) ELSE line.ttl

(* tinydns-edit.c:184,216: the lines of one kind for a name have one       *)
(* lifetime, the one they had before.                                      *)
OneTtl(f) == \A p \in Pairs(f) : Lettered(f[p[1]].c) /\ Like(f, p[1], p[2]) => Ttl(f[p[1]]) = Ttl(f[p[2]])

InOrder(f) == LettersDistinct(f) /\ HostsDistinct(f) /\ OneTtl(f)

(* The files that editing begins with are in order.                        *)
EditBounds ==
  /\ MaxEdits \in Nat /\ None \notin Nat
  /\ Letters \in Seq(ToSet(Letters))
  /\ \A f \in Old : f \in Seq(ToSet(f)) /\ InOrder(f)

(* tinydns-edit.c:174-239: whoever edits, the servers of a name that are of*)
(* one kind (".", "&" or "@") have different letters and one lifetime, and *)
(* a host has one address and an address one host.                         *)
Edited == TypeOK /\ InOrder(data)

(* tinydns-edit.c:111-254: what was in the file stays there with one line  *)
(* behind it; an addition is lost only to an editor that began before it.  *)
Stale(e) == ed[e].pc # "idle" /\ ed[e].src # data
Kept ==
  [][data' # data => \/ Len(data') = Len(data) + 1 /\ IsPrefix(data, data')
                     \/ \E e \in Editor : Stale(e) /\ IsPrefix(ed[e].src, data') /\ Len(data') = Len(ed[e].src) + 1]_vars
=============================================================================
