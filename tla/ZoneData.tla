------------------------------ MODULE ZoneData ------------------------------
(***************************************************************************)
(* How the data of zones are written: the constant database                *)
(* (Cdb), the lines of data compiled (TinydnsData) into a file that takes  *)
(* the place of the one before (Publish), and edited (Edit).  The programs *)
(* share no memory, so one of them runs in each behaviour and the others   *)
(* stay as they began.                                                     *)
(***************************************************************************)
EXTENDS Cdb

CONSTANTS
  None, DataLine, MaxData, Mtimes, Client, Times, MaxString, Short, Long,
  Editor, Letters, Old, Command, MaxEdits,
  FileLines, Bad, Server, MaxVersion, MaxFailures, MaxCrashes

VARIABLES
  prog,
  data, mtime, linenum, result, status,
  edited, new, ed, edits,
  source, tmp, cdb, disk, open, compiler, version, read, failures, crashes

compiling == <<data, mtime, linenum, result, status>>
editing == <<edited, new, ed, edits>>
publishing == <<source, tmp, cdb, disk, open, compiler, version, read, failures, crashes>>
database == <<makerVars, readerVars>>
zonedata == <<prog, database, compiling, editing, publishing>>

TD == INSTANCE TinydnsData WITH MaxLines <- MaxData, Line <- DataLine
E == INSTANCE Edit WITH data <- edited
P == INSTANCE Publish WITH data <- source, pc <- compiler, line <- read, Lines <- FileLines

-----------------------------------------------------------------------------
Programs == {"cdb_make", "compile", "publish", "tinydns-edit"}

ZoneDataBegun == P!Init /\ E!Init /\ TD!Init /\ Init
ZoneDataInit == prog \in Programs /\ ZoneDataBegun

ZoneDataNext ==
  \/ prog = "cdb_make" /\ Next /\ UNCHANGED <<prog, compiling, editing, publishing>>
  \/ prog = "compile" /\ TD!Next /\ UNCHANGED <<prog, database, editing, publishing>>
  \/ prog = "tinydns-edit" /\ E!Next /\ UNCHANGED <<prog, database, compiling, publishing>>
  \/ prog = "publish" /\ P!Next /\ UNCHANGED <<prog, database, compiling, editing>>

ZoneDataSpec == ZoneDataInit /\ [][ZoneDataNext]_zonedata

-----------------------------------------------------------------------------
(* cdb_make.c:114-140, tinydns-data.c:210-490: the tables of a database    *)
(* keep free slots; a file of lines becomes records that servers can read, *)
(* that come and go together but for lifetimes that wrap to 0 and have the *)
(* texts and serials given, or becomes nothing.                            *)
Compiled ==
  /\ TypeOK /\ TablesOK
  /\ TD!TypeOK /\ TD!Together /\ TD!Structured /\ TD!TextWhole /\ TD!SerialRight /\ TD!AllOrNothing

(* tinydns-data.c:487-491: what servers find under data.cdb is all of one  *)
(* version that could be parsed, whenever the program stops or the machine *)
(* goes down.                                                              *)
ServedWhole == P!ServedWhole

(* tinydns-edit.c:174-239: whoever edits, the servers of a name that are of*)
(* one kind have different letters and one lifetime, and a host has one    *)
(* address and an address one host.                                        *)
Edited == E!Edited
=============================================================================
