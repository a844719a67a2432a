----------------------------- MODULE MCProgress -----------------------------
(* Two programs that have to come to a result: tinydns-data (Publish) and  *)
(* dnsfilter.  They share nothing, so one of them runs in each behaviour   *)
(* and the other stays as it began.                                        *)
EXTENDS Publish, Sequences

VARIABLES
  prog,
  given, stdin, inbuf, partial, flag0, x, xnum, numactive, text, stdout, filter

filtering == <<given, stdin, inbuf, partial, flag0, x, xnum, numactive, text, stdout, filter>>

(* Addresses alone, before other words and at the beginning of a longer    *)
(* word, empty lines, lines longer than the buffer, a last line without    *)
(* its end; more addresses than exchanges and more lines than slots.       *)
Inputs ==
  {<<"ip1", "nl", "ip2", " ", "w", "nl", "ip3">>,
   <<"w", "nl", "ip1", " ", "ip2", "nl", "nl", "ip2", "nl">>,
   <<"ip1", " ", "w", "w", "nl", "ip2", "nl", "w", "nl", "ip1", "nl">>,
   <<" ", "ip1", "nl", "ip2", "w">>, <<>>}
F == INSTANCE DnsFilter WITH
  pc <- filter, Address <- {"ip1", "ip2", "ip3"}, NewLine <- "nl", Blank <- " ",
  xmax <- 3, maxactive <- 2, Size <- 3

MCInit ==
  /\ prog \in {"tinydns-data", "dnsfilter"}
  /\ Init /\ F!Init
  /\ prog # "dnsfilter" => given = <<>>

MCNext ==
  \/ prog = "tinydns-data" /\ Next /\ UNCHANGED <<prog, filtering>>
  \/ prog = "dnsfilter" /\ F!Next /\ UNCHANGED <<prog, vars>>

Compiles == prog = "tinydns-data" /\ Compile
FilterNext == prog = "dnsfilter" /\ F!Next

(* The fairness that the two modules state.                                *)
MCSpec ==
  /\ MCInit /\ [][MCNext]_<<prog, vars, filtering>>
  /\ WF_vars(Compiles) /\ WF_filtering(FilterNext)

(* tinydns-data.c:210, :487-491: data that can be parsed and is not saved  *)
(* again is served in the end, whatever earlier runs, failed calls and     *)
(* crashes have left behind.                                               *)
DataPublished == prog = "tinydns-data" => Published

(* dnsfilter.c:100-211: dnsfilter writes every line and ends, or waits for *)
(* ever for an exchange or for input that does not come.                   *)
LinesWritten == prog = "dnsfilter" => F!Ends
=============================================================================
