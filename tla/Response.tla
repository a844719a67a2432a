------------------------------ MODULE Response ------------------------------
(***************************************************************************)
(* response.c: an answer is written byte by byte; a name that was written  *)
(* before, or the end of one, is replaced by a pointer of two bytes.       *)
(*                                                                         *)
(* A byte is a cell.  The first cell of a label, a pointer or a record's   *)
(* length says what it is, the other bytes are "fill".  A call that finds  *)
(* no room fails and its callers give the whole answer up.                 *)
(***************************************************************************)
EXTENDS Integers, Sequences, FiniteSets, SequencesExt

CONSTANTS
  Label, Size, Lower,   \* labels, their lengths with the length byte, in small letters
  Name,        \* names that callers write, sequences of labels
  Limit,       \* 65535
  PtrLimit,    \* 16384
  NAMES,       \* 100
  NameLimit,   \* 128
  Byte,        \* 256
  MaxRecords, MaxData   \* bounds for the model checker: records, and bytes of
                        \* data after which a record takes another name

Header == 12

VARIABLES
  response,    \* the cells written
  name, name_ptr,   \* names that may be pointed to, and where they are
  tctarget, dpos,
  count,       \* the two bytes of the number of answers
  pc, todo,    \* what is being written; the labels of a name that are left
  truncated,
  starts,      \* where names were written, and which
  records      \* where records were written, up to MaxRecords

vars == <<response, name, name_ptr, tctarget, dpos, count, pc, todo, truncated, starts, records>>
message == <<response, name, name_ptr, todo, starts>>

response_len == Len(response)

Room(n) == n <= Limit - response_len

Label1(l) == [cell |-> "label", label |-> l]
Pointer(p) == [cell |-> "pointer", to |-> p]
Length(n) == [cell |-> "length", is |-> n]
Root == [cell |-> "root"]
Fill == [cell |-> "fill"]
Cells(first, n) == <<first>> \o [i \in 1..n - 1 |-> Fill]

(* dns_domain_length and dns_domain_equal.                                 *)
NameLen(d) == FoldLeft(LAMBDA n, l : n + Size[l], 1, d)
Same(d, e) == Len(d) = Len(e) /\ \A i \in 1..Len(d) : Lower[d[i]] = Lower[e[i]]

Init ==
  /\ response = <<>> /\ name = <<>> /\ name_ptr = <<>> /\ tctarget = 0 /\ dpos = 0
  /\ count = <<0, 0>> /\ pc = "start" /\ todo = <<>> /\ truncated = FALSE
  /\ starts = {} /\ records = <<>>

-----------------------------------------------------------------------------
(* response_addname                                                        *)

WriteName(d, then) ==
  /\ pc' = then /\ todo' = d
  /\ starts' = starts \cup {[at |-> response_len, name |-> d]}

InName == pc \in {"question", "owner", "data"}
Known == {i \in 1..Len(name) : Same(todo, name[i])}
After == CASE pc = "question" -> "class" [] pc = "owner" -> "header" [] OTHER -> "record"

NameKnown ==
  /\ InName /\ todo # <<>> /\ Known # {} /\ Room(2)
  /\ LET i == CHOOSE i \in Known : \A j \in Known : i <= j
     IN response' = response \o Cells(Pointer(name_ptr[i]), 2)
  /\ todo' = <<>> /\ pc' = After
  /\ UNCHANGED <<name, name_ptr, tctarget, dpos, count, truncated, starts, records>>

Remember ==
  IF NameLen(todo) <= NameLimit /\ response_len < PtrLimit /\ Len(name) < NAMES
  THEN name' = Append(name, todo) /\ name_ptr' = Append(name_ptr, response_len)
  ELSE UNCHANGED <<name, name_ptr>>

NameLabel ==
  /\ InName /\ todo # <<>> /\ Known = {} /\ Room(Size[Head(todo)])
  /\ Remember
  /\ response' = response \o Cells(Label1(Head(todo)), Size[Head(todo)])
  /\ todo' = Tail(todo)
  /\ UNCHANGED <<pc, tctarget, dpos, count, truncated, starts, records>>

NameRoot ==
  /\ InName /\ todo = <<>> /\ Room(1)
  /\ response' = Append(response, Root) /\ pc' = After
  /\ UNCHANGED <<name, name_ptr, todo, tctarget, dpos, count, truncated, starts, records>>

-----------------------------------------------------------------------------
(* response_query, response_rstart, response_addbytes, response_rfinish    *)

\* Mutant of Query: the names of the answer before stay in the table.
QueryKeepsNames(q) ==
  /\ pc \in {"start", "failed", "done", "sent"}
  /\ response' = [i \in 1..Header |-> Fill] /\ UNCHANGED <<name, name_ptr>>
  /\ starts' = {[at |-> Header, name |-> q]} /\ todo' = q /\ pc' = "question"
  /\ count' = <<0, 0>> /\ truncated' = FALSE /\ records' = <<>>
  /\ UNCHANGED <<tctarget, dpos>>

Query(q) ==
  /\ pc \in {"start", "failed", "done", "sent"}
  /\ response' = [i \in 1..Header |-> Fill] /\ name' = <<>> /\ name_ptr' = <<>>
  /\ starts' = {[at |-> Header, name |-> q]} /\ todo' = q /\ pc' = "question"
  /\ count' = <<0, 0>> /\ truncated' = FALSE /\ records' = <<>>
  /\ UNCHANGED <<tctarget, dpos>>

QueryEnd ==
  /\ pc = "class" /\ Room(4)
  /\ response' = response \o Cells(Fill, 4)
  /\ tctarget' = Len(response') /\ pc' = "done"
  /\ UNCHANGED <<name, name_ptr, todo, dpos, count, truncated, starts, records>>

RStart(d) ==
  /\ pc = "done" /\ Len(records) < MaxRecords
  /\ WriteName(d, "owner")
  /\ UNCHANGED <<response, name, name_ptr, tctarget, dpos, count, truncated, records>>

\* Type, class, lifetime and an empty length.
RHeader ==
  /\ pc = "header" /\ Room(10)
  /\ response' = response \o Cells(Fill, 8) \o Cells(Length(0), 2)
  /\ dpos' = Len(response') /\ pc' = "record"
  /\ UNCHANGED <<name, name_ptr, todo, tctarget, count, truncated, starts, records>>

AddName(d) ==
  /\ pc = "record" /\ response_len - dpos <= MaxData
  /\ WriteName(d, "data")
  /\ UNCHANGED <<response, name, name_ptr, tctarget, dpos, count, truncated, records>>

AddBytes(n) ==
  /\ pc = "record" /\ response_len = dpos /\ Room(n)
  /\ response' = response \o Cells(Fill, n)
  /\ UNCHANGED <<name, name_ptr, todo, pc, tctarget, dpos, count, truncated, starts, records>>

Counted(c) ==
  LET low == (c[2] + 1) % Byte
  IN <<IF low = 0 THEN (c[1] + 1) % Byte ELSE c[1], low>>

RFinish ==
  /\ pc = "record"
  /\ response' = [response EXCEPT ![dpos - 1] = Length(response_len - dpos)]
  /\ count' = Counted(count)
  /\ records' = Append(records, dpos) /\ pc' = "done"
  /\ UNCHANGED <<name, name_ptr, todo, tctarget, dpos, truncated, starts>>

Fail ==
  /\ \/ InName /\ todo # <<>> /\ Known # {} /\ ~Room(2)
     \/ InName /\ todo # <<>> /\ Known = {} /\ ~Room(Size[Head(todo)])
     \/ InName /\ todo = <<>> /\ ~Room(1)
     \/ pc = "class" /\ ~Room(4)
     \/ pc = "header" /\ ~Room(10)
     \/ pc = "record" /\ response_len = dpos /\ ~Room(4)
  /\ pc' = "failed"
  /\ UNCHANGED <<message, tctarget, dpos, count, truncated, records>>

\* The last call of an answer that is too long for a datagram.
Tc ==
  /\ pc = "done"
  /\ response' = SubSeq(response, 1, tctarget) /\ truncated' = TRUE /\ pc' = "sent"
  /\ UNCHANGED <<name, name_ptr, todo, starts, tctarget, dpos, count, records>>

Next ==
  \/ \E d \in Name : Query(d) \/ RStart(d) \/ AddName(d)
  \/ AddBytes(4)
  \/ NameKnown \/ NameLabel \/ NameRoot
  \/ QueryEnd \/ RHeader \/ RFinish \/ Fail \/ Tc

Spec == Init /\ [][Next]_vars

-----------------------------------------------------------------------------
(* What a reader of the message makes of it.                               *)

(* The name at position p; a pointer that does not go back is not followed.*)
Decoded(p) ==
  LET from[at \in 0..response_len] ==
        LET cell == response[at + 1] IN
        CASE at = response_len -> <<"cut">>
          [] at < response_len /\ cell.cell = "label" ->
               <<cell.label>> \o from[IF at + Size[cell.label] < response_len
                                      THEN at + Size[cell.label] ELSE response_len]
          [] at < response_len /\ cell.cell = "pointer" ->
               IF cell.to < at THEN from[cell.to] ELSE <<"cut">>
          [] at < response_len /\ cell.cell = "root" -> <<>>
          [] OTHER -> <<"cut">>
  IN from[p]

(* Where the name at p ends.                                               *)
Skipped(p) ==
  LET from[at \in 0..response_len] ==
        LET cell == response[at + 1] IN
        CASE at = response_len -> at
          [] at < response_len /\ cell.cell = "label" ->
               from[IF at + Size[cell.label] < response_len
                    THEN at + Size[cell.label] ELSE response_len]
          [] at < response_len /\ cell.cell = "pointer" -> at + 2
          [] OTHER -> at + 1
  IN from[p]

Complete == pc \in {"done", "sent"}

TypeOK ==
  /\ response_len <= Limit /\ count \in (0..Byte - 1) \X (0..Byte - 1)
  /\ Len(name) = Len(name_ptr) /\ Len(name) <= NAMES /\ tctarget <= Limit /\ dpos <= Limit

(* response.c:23-50: every name written, the question's too, is read back  *)
(* as it was given, but for capitals; the table of an earlier answer, a    *)
(* full table or an early pointer never changes one.                       *)
NamesRead ==
  Complete => \A s \in starts : s.at < response_len => Same(Decoded(s.at), s.name)

(* response.c:36-41, "each < 16384": a pointer has fourteen bits and leads *)
(* to a name that was there before.                                        *)
PointersFit ==
  \A i \in 1..response_len :
    response[i].cell = "pointer" => response[i].to < PtrLimit /\ response[i].to < i - 1

(* response.c:87-91: a reader who steps over each record by its name and   *)
(* length meets as many as the two bytes count, and then the end.          *)
RecordsMeet ==
  pc = "done" =>
    LET after[n \in 0..Len(records)] ==
          IF n = 0 THEN tctarget
          ELSE LET header == Skipped(after[n - 1])
               IN header + 10 + response[header + 9].is
    IN /\ after[Len(records)] = response_len
       /\ Byte * count[1] + count[2] = Len(records) % (Byte * Byte)

(* response.c:117-121: the message cut short still holds the question.     *)
TruncatedWhole ==
  truncated => /\ \E s \in starts : s.at = Header /\ Same(Decoded(Header), s.name)
               /\ response_len = Skipped(Header) + 4
=============================================================================
