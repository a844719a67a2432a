------------------------------ MODULE Clients ------------------------------
(***************************************************************************)
(* The programs that ask and what they have in common: names are read out  *)
(* of packets (Packet) and looked up by the client library (Resolve) or    *)
(* for each line of a text (DnsFilter), and what happened is logged        *)
(* (Loglol).  The modules share nothing, so one of them runs in each       *)
(* behaviour and the others stay as they began.                            *)
(***************************************************************************)
EXTENDS Packet

CONSTANTS
  Programs,  \* those that run, one in each behaviour
  Configs, Names, Numbers, Answer, Uses, Life, MaxIps, MaxTime, MaxCalls, None, Error, Zero, Local,
  LOGLINES, KEEPTIME, OldFiles, Begin, MaxLog, MaxLines,
  Inputs, Address, NewLine, Blank, xmax, maxactive, Size

VARIABLES
  prog,
  version, left, rnow, calls, rewrite, resolv, rpc, rname, fqdn, plus, ri, tried, out,
  lnow, current, old, lpc, oldfilename, buffer, lines, flush_time, alarm, came,
  input, stdin, inbuf, partial, flag0, x, xnum, numactive, text, stdout, filter

resolving == <<version, left, rnow, calls, rewrite, resolv, rpc, rname, fqdn, plus, ri, tried, out>>
logging == <<lnow, current, old, lpc, oldfilename, buffer, lines, flush_time, alarm, came>>
filtering == <<input, stdin, inbuf, partial, flag0, x, xnum, numactive, text, stdout, filter>>
clients == <<prog, vars, resolving, logging, filtering>>

R == INSTANCE Resolve WITH now <- rnow, pc <- rpc, name <- rname, i <- ri
L == INSTANCE Loglol WITH now <- lnow, pc <- lpc, MaxTime <- MaxLog, Left <- OldFiles
F == INSTANCE DnsFilter WITH given <- input, pc <- filter

-----------------------------------------------------------------------------
ClientsInit == prog \in Programs /\ F!Init /\ L!Init /\ R!Init /\ Init

ClientsNext ==
  \/ prog = "packet" /\ Next /\ UNCHANGED <<prog, resolving, logging, filtering>>
  \/ prog = "resolve" /\ R!Next /\ UNCHANGED <<prog, vars, logging, filtering>>
  \/ prog = "loglol" /\ L!Next /\ UNCHANGED <<prog, vars, resolving, filtering>>
  \/ prog = "dnsfilter" /\ F!Next /\ UNCHANGED <<prog, vars, resolving, logging>>

ClientsSpec == ClientsInit /\ [][ClientsNext]_clients

-----------------------------------------------------------------------------
(* dns_ipq.c:48-62, loglol.c:66, :139-159: names are tried in the order    *)
(* expected up to the first that has addresses, and lines stay in theirs   *)
(* over all files, which have as many as they may.                         *)
OrderKept == R!TypeOK /\ R!TriedRight /\ L!OrderKept

(* dns_rcrw.c:117-126, dns_rcip.c:71-81, loglol.c:161-176: a configuration *)
(* is used whole and for ten minutes; a line that came is not lost but     *)
(* with the program before it was written, or two days later.              *)
FreshAndLasting == R!Fresh /\ L!Lasting

(* dnsfilter.c:67-210: every line leaves as it came and in its turn, with  *)
(* the name of its own address, whatever order the answers have.           *)
LinesWhole == F!TypeOK /\ F!ActiveCounted /\ F!Whole /\ F!NameRight
=============================================================================
