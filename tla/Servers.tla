------------------------------ MODULE Servers ------------------------------
(***************************************************************************)
(* What answers questions over UDP: the loop that four servers share       *)
(* (Server), and what walldns, rbldns and pickdns answer with the          *)
(* databases of their compilers (Wall, Rbl, Pick).  Each module leaves the *)
(* others open, so one of them runs in each behaviour and the rest stay as *)
(* they began.                                                             *)
(***************************************************************************)
EXTENDS Server

CONSTANTS
  Programs,  \* those that run, one in each behaviour
  Octets, Digits, WallName, WallType,
  Base, Bits, Value, MaxShift, MaxText, RblLine, MaxRbl, RblName, RblType,
  MaxData, MaxAnswer, PickLine, MaxPick, PickName, PickType, PickClient

VARIABLES
  prog,
  wq, wtype, wanswer, wrcode, waa,
  rdata, rlinenum, rcdb, rpc, rq, rtype, ipnum, ri, found, rreply,
  pdata, plinenum, px, pi, pj, pq, pt, pcdb, ppc, pasked, ips, pn, preply

walling == <<wq, wtype, wanswer, wrcode, waa>>
listing == <<rdata, rlinenum, rcdb, rpc, rq, rtype, ipnum, ri, found, rreply>>
picking == <<pdata, plinenum, px, pi, pj, pq, pt, pcdb, ppc, pasked, ips, pn, preply>>
servers == <<prog, vars, walling, listing, picking>>

W == INSTANCE Wall WITH
  q <- wq, qtype <- wtype, answer <- wanswer, rcode <- wrcode, aa <- waa,
  Name <- WallName, QType <- WallType
R == INSTANCE Rbl WITH
  data <- rdata, linenum <- rlinenum, cdb <- rcdb, pc <- rpc, q <- rq, qtype <- rtype, i <- ri, reply <- rreply,
  Line <- RblLine, MaxLines <- MaxRbl, Asked <- RblName, QType <- RblType
P == INSTANCE Pick WITH
  data <- pdata, linenum <- plinenum, x <- px, i <- pi, j <- pj, q <- pq, t <- pt, cdb <- pcdb, pc <- ppc,
  asked <- pasked, n <- pn, reply <- preply,
  Line <- PickLine, MaxLines <- MaxPick, Name <- PickName, QType <- PickType, Client <- PickClient

-----------------------------------------------------------------------------
ServersInit == prog \in Programs /\ R!Init /\ P!Init /\ Init /\ W!Init

ServersNext ==
  \/ prog = "server" /\ Next /\ UNCHANGED <<prog, walling, listing, picking>>
  \/ prog = "walldns" /\ W!Next /\ UNCHANGED <<prog, vars, listing, picking>>
  \/ prog = "rbldns" /\ R!Next /\ UNCHANGED <<prog, vars, walling, picking>>
  \/ prog = "pickdns" /\ P!Next /\ UNCHANGED <<prog, vars, walling, listing>>

ServersSpec == ServersInit /\ [][ServersNext]_servers

-----------------------------------------------------------------------------
(* walldns.c:25-56, rbldns.c:40-77, pickdns-data.c:66-221, pickdns.c:42-76 *)
(* : the address of a name leads back to it, an address is listed just     *)
(* when a network of the file has it, and a client is told addresses of    *)
(* its own place, however the file was sorted and the answer shuffled.     *)
ServedRight ==
  /\ W!ServedRight
  /\ R!TypeOK /\ R!ListedRight /\ R!OctetsFound /\ R!TextRight
  /\ P!TypeOK /\ P!SortRight /\ P!AllServed /\ P!PlaceRight /\ P!AnswerWhole
=============================================================================
