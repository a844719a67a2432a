# loldns, specified

TLA+ models of the parts of loldns (a fork of djbdns) that carry its logic, TLC
configurations that check them, and TLAPS proofs of what matters most about
them. Paths are relative to `src/`.

## 1. The system and its parts

`dnscache` is the recursive server. One process, one thread, one loop around
`poll`:

    clients --UDP/TCP--> dnscache.c --query_start/query_get--> query.c
                             |                            /     |     \
                         okclient, log        cache.c   roots.c   dns_transmit.c --> servers
                                                                (one per query)

`tinydns` publishes zones. Administrators write `data`, a compiler makes
`data.cdb` of it, servers read that, and other servers fetch it:

    tinydns-edit --> data --tinydns-data--> data.cdb --cdb--> tdlookup.c + response.c <-- server.c (UDP)
                      ^                                                               <-- axfrdns (TCP)
                      +----------------- axfr-get <--------- zone transfer -------------------+

| Component | State | Operations | Interaction |
|---|---|---|---|
| `cache.c` record cache | `x` (one block), `writer`, `oldest`, `unused`, hash chains in xor links | `cache_init`, `cache_get`, `cache_set` | called by `query.c`; reads the clock |
| `dns_transmit.c` exchange | `struct dns_transmit`: socket, query, packet, state, round, slot, position, deadline | `dns_transmit_start/_get/_io/_free` | called by `query.c`, `dnsfilter.c`, `dnstrace.c` and the client library |
| `query.c` query engine | per level a name, the zone asked, servers, name servers; aliases; step count; one exchange | `query_start`, `query_get`, `query_io` | reads and fills the cache, asks `roots.c`, writes the response |
| `dnscache.c` main loop | pools `u[MAXUDP]`, `t[MAXTCP]`, counters, tcp states | `u_new`, `u_respond`, `u_drop`, `t_new`, `t_rw`, `t_respond`, `t_drop`, `t_timeout`, `t_close` | clients on one side, queries on the other |
| `cdb_make.c`, `cdb.c` constant database | position and list of entries; loop and two positions of a search | `cdb_make_start/_addbegin/_addend/_finish`, `cdb_findstart/_findnext` | compilers write, servers read |
| `tdlookup.c` lookups | the open database and when it was opened, the client's location, the response | `respond`, `doit`, `find` | `data.cdb`, `response.c` |
| `response.c` writer | the message, a table of names written | `response_*` | every server |
| `server.c` with `tinydns.c`, `walldns.c`, `rbldns.c`, `pickdns.c` | sockets; one packet and its response | the loop, `doit`, `respond` | clients; `data.cdb` |
| `tinydns-data.c`, `rbldns-data.c`, `pickdns-data.c` compilers | line number, records or arrays, a temporary file | one run each | `data` to `data.cdb` by a rename |
| `tinydns-edit.c` | letters used, names found, a new file | one run | `data` to `data` by a rename |
| `axfrdns.c`, `axfr-get.c` | place in the database; serial and file under construction | one transfer | a connection, `data.cdb`, a zone file |
| `dnsfilter.c` | slots with a line and an exchange each, partial line, input buffer | main loop | standard input and output |
| `dnstrace.c` | tables of questions, name servers, addresses, and of pairs already asked | closure over the tables | servers |
| `dns_*.c` client library | `resolv.conf` and rewriting rules with an expiry | `dns_ip4_qualify`, `dns_resolve`, `dns_ip4`, ... | exchange |
| `dns_packet.c`, `dns_dfd.c`, `dns_dtda.c` names | none | `dns_packet_getname`, `_skipname`, `dns_domain_fromdot`, `_todot_cat` | everybody who reads packets or text |
| `loglol.c` | current log file, line count, stdio's buffer, alarm flag | main loop, rotation, deletion | standard input, directory |
| `roots.c` | table of zones and servers, read at start | `roots`, `roots_same` | called by `query.c` |

The hard behaviours, each listed at its line in `PROJECT.json` under `hazards`:

- *order and interleaving*: one loop serves hundreds of clients, and slots are
  taken from the oldest client while its query runs; events are read after
  other slots were served (`dnscache.c:383`). `dnsfilter` gets answers in any
  order. Editors, compilers and transfers share files without locks.
- *long histories*: the ring of the cache and its xor chains are right only if
  every store and eviction before kept them so (`cache.c:144`, `:152`); so are
  the table of names of the response writer and the buffers of `dnsfilter`.
- *failure paths*: about thirty exits of `dns_transmit.c`, each to free exactly
  what it holds; a compilation, a transfer or a rotation that stops between any
  two steps; a record that cannot be read in the middle of a lookup.
- *timeouts, retries, time*: rounds over a list of servers with two protocols;
  records that appear and die at a second; files replaced while they are read.
- *termination*: referrals, aliases and lookups of servers for servers can lead
  in circles; so can pointers in a packet.
- *trust*: which records of a packet may go into the cache or into a copied zone.
- *numbers*: 32-bit positions, 14-bit pointers, heap indices from one, bits of an
  address.

## 2. Plan

In the order of importance, with what became of it.

1. `Cache`, abstract `CacheFifo`, `CacheRefinement`, `CacheProofs`. Done.
2. `DnsTransmit`, `DnsTransmitProofs`. Done.
3. `Query`, `QueryProofs`. Done.
4. `Dnscache`. Done.
5. `Cdb` as an implementation of `Multimap`, proofs of both; `TdLookup` with the
   lost error of `find`; `Response`; `Server`. Done.
6. `TinydnsData`, `Publish` (compiler, readers, crashes around `rename`),
   `Edit`, `Axfr` over the records of `TinydnsData`. Done.
7. `Wall`, `Rbl`, `Pick` with their compilers. Done.
8. `DnsFilter` (order of output), `DnsTrace` (closure), `Loglol`, `Resolve`,
   `Packet` with its proofs, `Domain`. Done.
9. `Query` over `CacheFifo` in place of an open cache. Not done: the cache that
   `Query` sees may say anything, which includes what `CacheFifo` says.
10. `DnscacheProofs`, proofs of `Publish`. Done.
11. `TdLookupProofs`; chains, lookups and refinement in `CacheProofs`. Done.
12. The tables of `Cdb` and its refinement of `Multimap`, in `DataProofs`. Done.
13. `ServerProofs` (`Server`, `Wall`, `Rbl`, `Pick` with its heap sort),
    `ClientProofs` (`Packet`, `Resolve`, `Loglol`, `DnsFilter`), and `Edit` in
    `DataProofs`, on `Servers`, `Clients` and `ZoneData`. Done. `response.c`, the
    lines of `tinydns-data`, transfers, names as text and `dnstrace` stay
    model-checked; section 5 lists them.

## 3. Modules

Programs that share no memory are checked in one run. `Servers` (those that answer
over UDP), `Clients` (the programs that ask), `ZoneData` (those that write zones) and
`MCProgress` instantiate (or extend) each of their programs on variables of its own,
and `prog` says which one lives in a behaviour, while the variables of the others
stay as they began. The states are the sum of the states of the programs and not
the product, and nothing is lost, since these programs meet only through files,
which are part of the models that need them (`Publish`, `Edit`, `Axfr`).
`MCServers`, `MCClients` and `MCZoneData` extend the first three with small constants
and with programs that no theorem is about: `Response`; `Domain` and `DnsTrace`;
`Axfr`. The proof modules extend `Servers`, `Clients` and `ZoneData` too, so that
what is checked and what is proved is one specification.

### Cache (`cache.c`)

Positions are bytes of `x`. `link` is the first word of heads and entries,
`entry` what is written at a position; entries that were dropped stay there
until overwritten, as in the code. `cache_set` is the call (`SetCall`), one
step per turn of its `while` loop (`WrapAround`, `EvictOldest`) and its end
(`TooBig` or `Write`); so is `cache_get`: `GetCall`, one `GetNext` for each entry
of the chain it walks past with the `prevpos`, `pos` and `loop` of the code in
`get`, and a return (`GetFound`, `GetGivesUp`, `GetNothing`) that leaves the answer in
`got`. Keys, contents, their lengths and the hash are constants. The xor is a
constant operator with the laws of xor (`XorAssumption`); the model-checking
module supplies the real one.

- `RingOK`: borders in order, both parts rows of whole entries.
- `NeverImpossible` (proved): `cache_impossible()` is not called.
- `ChainsOK` (`CacheRefinement`, proved): each xor chain lists exactly the live
  entries of its bucket, newest first: the head has the newest of them, and the
  link of each is the xor of its next newer and its next older one.
- `FifoSpec` (proved): `Cache` implements `CacheFifo`, a log that drops its oldest
  entries, and only when space is short, and whose lookups see the newest entry
  of their key. "Short" allows for the gap that a ring of unequal entries leaves
  at its right end; this slack is `LargestEntry`. `Log` is what the ring stands
  for: the entries in it, by `Age`.
- `GetIsNewest` (proved): a lookup gives the newest entry of the key or nothing. A miss
  behind a long chain (100 entries in the code, `MaxChain` here) is the only
  exception.
- `SetAdvances`: each step of `cache_set` lowers a rank, so a store returns.

### DnsTransmit (`dns_transmit.c`)

`pc` is the function that runs (`"udp"` is `thisudp`, `"tcp"` is `thistcp`), or
`"wait"` between two calls of `dns_transmit_get`, or `"done"`. Each exit of a
function is an action. A packet is seen by the verdict of `irrelevant`,
`serverwantstcp` and `serverfailed`. `tried`, `sent` and `leaked` record the
attempts made, the bytes of the query sent and what was forgotten; no action
depends on them. `readable` is what `poll` reported of the socket (`Arrive`): a call
of `dns_transmit_get` (`Get`) reads what there is, and looks at the deadline only
when there is nothing (`dns_transmit.c:251`). `Dropped` is the call that reads a
datagram without use and changes nothing.

- `Resources`: who holds socket, query and packet in each state; nothing leaks.
- `AskedInTurn`: the attempts made so far are exactly the slots before the
  current one, in the order of rounds.
- `Ends`: the exchange ends, or datagrams without use are dropped for ever. The
  second can happen: each comes before the deadline is looked at.
- `PosBytesSent` states a comment of the source and is violated: see section 6.

### Query (`query.c`, `roots.c`)

`pc` is the label of `doit`, `"sent"` between calls, `"idle"` when there is no
query. `name`, `control`, `servers`, `ns`, `alias`, `level`, `loop` are the
fields of `struct query`. A domain name is a member of a tree `Above`; the array
of 16 addresses is a list, and each address and name server carries the zone it
was found for, which the code does not write down. What the cache holds and
what a packet says are open, subject to the tests the code makes. `dns_sortip`
is not modelled here, since the server that answers is arbitrary. A referral
resets `ns` and `servers` before it fills them, as in the code. `stored` is one
of the record sets that the last packet put into the cache, so every set is
looked at in some behaviour. `Die` is the label `DIE` by any of its jumps; the
jump for `loop == 100` is the only way on when the limit is reached.

- `LevelsOK`: names and name servers exist on the levels in use and nowhere
  else.
- `Authority`: on every level, the servers and name servers are those of the
  zone `control` points to, that zone is above the name, and both belong to the
  same zone of `servers/`.
- `InBailiwick`: nothing enters the cache but from a server of a zone above
  the owner. This includes negative answers, which the code does not test.
- `Chain`: the answer leads from the client's question by the aliases seen.
- `Progress`: every step lowers a rank. Together with the bound on `loop`, a
  query makes a bounded number of steps and sends a bounded number of
  questions, although timeouts are not counted in `loop`.

### Dnscache (`dnscache.c`)

A turn of `doit` is `Build` (which descriptors are polled), one step per
datagram client, one per connection, one per listening socket. `urank`/`trank`
hold the order of the `start` times. `Waits` is the descriptor `io` points to.
A query is what `query_start` and `query_get` return. `uopen`/`topen` count the
log lines "query" less "sent" and "drop". Left out: `main`, `setbogons`, and
`packetquery`, whose verdict chooses the action.

- `SlotsOK`: the table at `dnscache.c:171`, and nothing lost when a slot is
  reused.
- `Ledger`: every logged query is logged as sent or dropped exactly once;
  `uactive` and `tactive` count the slots.
- `FreshIo`: a slot is served by events of the descriptor it now waits for,
  polled in this turn.
- `QueriesEnd`: a query ends, or `query_get` is called for it for ever and says each
  time that it waits: nothing in the loop itself keeps a query.

### Cdb and Multimap (`cdb_make.c`, `cdb.c`, `cdb_hash.c`)

`maker` walks through `cdb_make_start`, additions and `cdb_make_finish`. `hp` is the
list the code keeps in blocks of 1000 and splits by table (`Mine`); each table is
cleared in `hash` (`ClearTable`), gets its entries one by one, each in the first free
slot behind the start of its search (`PutEntry`), and goes to the file (`WriteTable`).
`entries`, `slots` and `final` are what the file then has. The reader has the fields of
`struct cdb`: `loop`, `khash`, `kpos`, `hpos`, `hslots`. Positions are taken
modulo `Wide`, as 32-bit words are. `cdb_read` may fail at any call, by `mmap`
or by `read`.

- `Layout`: the position the maker believes in is the length of the file, and
  its list locates every pair, unless it reported failure.
- `TablesOK` (in `Compiled`): each table holds its entries once, and a free slot
  ends every search.
- `ReadsInside`: a search, resumed any number of times, reads slots of its
  key's table only.
- `IsMultimap`: file and search together implement `Multimap`, whose search
  gives the data of a key in the order of addition, each once. `Multimap` lets a
  call that fails skip one datum, because `cdb_findnext` counts a slot before
  it reads the entry.

### TdLookup (`tdlookup.c`)

One action per turn of a loop of `doit` or section of the answer. A database is a
sequence of records with owner, type, target, wildcard flag, location and time;
sections name records by their place in it. `Stop` is where a call of `find` ends:
at a record it takes (`Took`) or cannot read (`Failed`), or nowhere (`Ended`); the
static `type` is that of the last record it read. Room in the response is counted
in records. `db` is the file `respond` has open, `file` the one that is `data.cdb`
now.

- `AnswerRight`, `SectionsRight`: the sections are those that the records alone,
  by definitions that know nothing of the passes of `doit`, say they should be:
  which records, each once, in the order of the file. An authoritative answer may
  leave authority or additional section out as a whole, and only when the length
  with all that is due is over the limit; a referral leaves out nothing.
- `NothingForeign`: whatever cannot be read, the search stays in its zone, and all
  three sections hold only records this client may see now, under their own name or
  a wildcard's. The one exception is what the lost error of `tdlookup.c:255` does:
  a name with a record that cannot be read may be given an address made of the
  bytes of another record (`place` 0).
- `Timely`: answers come from a file at most a second old; versions of a record
  hand over without a gap; the lifetime given ends with the record, in the
  additional section too. The addresses of an answer are the exception: `doit`
  keeps them apart from their lifetimes and gives all of them that of the last one
  it read (`tdlookup.c:164`, `:194`), so an address that is about to expire can be
  given the lifetime of one beside it. The property says exactly this.
- `ChildZone` states a comment and is violated: see section 6.

### Response (`response.c`)

The message byte by byte, with the table of names. A byte says what it is the
first of, or is filling. Calls are steps, so that failures leave what was
written.

- `NamesRead` (with `PointersFit`, `RecordsMeet`, `TruncatedWhole`): every name
  is read back as written, pointers have 14 bits and lead back, records meet
  where their lengths say and are as many as counted, and a response cut short
  keeps its question.

### Server, Wall, Rbl, Pick, Dd (`server.c`, `walldns.c`, `rbldns.c`, `pickdns.c`, their compilers, `dns_sortip.c`, `dd.c`)

`Server` has several servers with several sockets on a network that loses,
repeats and reorders; a packet may name any sender. `respond()` is open.
A response has the flags that `respond()` may leave: `response_nxdomain` sets AA
for any class, a refusal clears it. `Wall`, `Rbl` and `Pick` are the `respond()` of
the three small servers, with `rbldns-data` and `pickdns-data` in front of the
latter two; an address of `Rbl` is a row of bits, octet by octet, as networks
are cut and looked for by bits; `Pick` has the heap sort of `pickdns-data.c:66` turn by
turn, the shuffle of `dns_sortip`, and no answer at all where the database fails.
`Servers` puts the four beside each other.

- `QuietAndRight` (proved): servers keep no packet going between them; what `doit`
  answers without `respond` is the right error; and whatever a step puts on the
  network on behalf of a server is the reply to the packet it read last: from the
  socket the question came to, to where it came from, with its id and question;
  and it fits a datagram. The last is about steps, since a repeated or delayed copy
  is on the network when the question is forgotten.
- `ServedRight` (proved): `walldns` answers forward and backward alike; an address is
  listed by `rbldns` exactly when one of its networks that can be found covers
  it; the sort of `pickdns-data` loses no address, and answers have addresses of
  the client's place only.

### TinydnsData, Publish (`tinydns-data.c`)

`TinydnsData` makes records of the lines, one step per line. Escapes, the text
of numbers and the hexadecimal times are read elsewhere; a line is its fields.
`Publish` has the steps around the files: reading, writing `data.tmp`, `fsync`,
`close`, `rename`, with the disk apart from what programs see. A crash may leave
any part of what was not synced.

- `Compiled`: what one line says comes and goes together, unless the line has a
  lifetime that is tested before it wraps to 0 (`Wraps`); types written by number have
  the structure `tdlookup` reads; strings add up; no serial that comes from the time
  of the file is 0, though a `Z` line may give one; a file is refused as a whole or
  taken as a whole.
- `ServedWhole` (in `ZoneData`, proved): what is called `data.cdb` is one whole version, also
  after a crash.
- `DataPublished`: a version that can be parsed gets published at last.

### Edit (`tinydns-edit.c`), Axfr (`axfrdns.c`, `axfr-get.c`)

Both are about files that several programs read and replace. `Edit` has several
editors, each line by line. `Axfr` has the master with databases made by
`TinydnsData`, the connection, the receiver with its two files, and the copy
compiled again by `TinydnsData`, so that the properties compare zones and not
texts. One record is sent to a message, as `axfrdns` does.

- `Edited` (proved): of the lines of one name, those of one kind (`.`, `&` or `@`) have
  different letters and one lifetime; a host has one address and an address one host.
  Lines of different kinds are not compared by the code either (`tinydns-edit.c:174`): a
  `.` and a `&` line of one name may share a letter.
- `Copied`: the copy is one version of the zone at one moment with its serial in
  front, and says nothing about names outside, whoever sent it.
- `KeptAndSkipped`: an addition is lost only to an editor that had read before
  it (proved); a transfer is left out only when the copy is what the serial is of.
- `ServicesCopied` says what `axfr-get` is for, and is violated: see section 6.

### DnsFilter, DnsTrace (`dnsfilter.c`, `dnstrace.c`)

`DnsFilter` has the loop with its poll, the slots with three buffers each
(`cell` says whose, as slots are moved by copying), and the partial line. `Scans`
is `ip4_scan`: a line is asked about when its first word begins with an address,
whatever comes behind it.
`DnsTrace` has the four tables and what a packet adds to them; the lines it
prints are reduced to the verdict on each answer.

- `LinesWhole` (proved; with `Closed` in `MCClients`): tokens leave in the order they came, none lost or repeated, each name
  behind its own address; `numactive` counts the exchanges.
- `Closed`: every server is asked about every name of its zone once, whatever
  came last, and the addresses of all servers are asked for; "see" leads closer.
- `LinesWritten`: `dnsfilter` writes every line and ends, unless it waits for ever for an
  exchange or for input. Whether `dnstrace` ends is not claimed: every answer may
  bring names that were never seen, and nothing in the code bounds them.

### Loglol, Resolve, Packet, Domain

`Loglol` has the files of the directory and stdio's buffer; the program may die
anywhere and is started again; of what stdio holds any part may be written by then,
and files that cannot be looked at are left where they are. `Resolve` has the two files and the environment
with their lifetime, rewriting, qualification and `dns_ip4_packet`. `Packet` is
`dns_packet_getname` byte by byte, `SkipName` its companion. `Domain` turns
names into text and back.

- `FreshAndLasting` (proved): a configuration is used whole and for its lifetime; a line
  that came stays until its file is old or the program died before it was
  passed on.
- `OrderKept` (proved): names are tried in the order expected; lines stay in theirs over
  all files, in pairs: of two lines on the disk, that which came first stands first.
- `WellFormed`: every name returned ends where its labels say.
- `NamesAgree`: those who read and those who skip a name go on at one place; a
  name written as text is read as itself and stands in one field.

## 4. Runs and bounds

| Run | Properties | Bounds | Why they are enough |
|---|---|---|---|
| `cache` | `RingOK` `ChainsOK` `GetIsNewest` `FifoSpec` `SetAdvances` | 136 bytes, a hash table of one size; 3 keys, of which some share a chain; contents of two sizes, one of which does not always fit; clock 0 and 2, which may be set back; `MaxChain` 1 | wraps with and without an old part, eviction across the wrap, newer and older entries of a key together, expired or not, a walk that gives up |
| `transmit` | `Resources` `AskedInTurn` `Ends` | 2 slots, each perhaps empty; a query of 2 bytes; answers of 0 and 3 bytes; `PosLimit` 5 bounds the bytes of a stream | all rounds, fall-back to TCP, partial reads and writes |
| `query` | `LevelsOK` `Authority` `InBailiwick` `Chain` `Progress` | 6 names, 2 configured zones, 3 levels (5 in the code), 2 name servers and 2 addresses per level, 2 aliases, 6 steps (100) | levels below, at and beyond the bound of `query.c:401`; full arrays; full alias chain; referral after lookup of a server |
| `dnscache` | `SlotsOK` `Ledger` `FreshIo` `QueriesEnd` | 1 datagram client, 2 connections, timeout 1 | all connection states in pairs, eviction in each |
| `tdlookup` | `AnswerRight` `SectionsRight` `NothingForeign` `Timely` | 3 names below the root; databases of up to 4 records out of 16 of every kind, and one of 7 (`MCFull`); 2 clients; 4 types; 2 addresses (8 in the code), answers of 4 records; 2 publications, clock to 4 | every pair of kinds, with and without an SOA; delegation, wildcard and alias above and below each other; a file missing and coming back |
| `servers` | `QuietAndRight` `ServedRight` `NamesRead` | 2 servers with 2 sockets, 1 packet sent, 1 repeated, 2 queued; addresses of 2 numbers (4), of 2 bits each in `Rbl`; 3 or 4 lines of data; 5 names, 2 records to a message, a table of 3 names (100), pointers below 30 (16384) | a question that bounces; a network of every length; every file that a sort of three can meet; names that end in each other on both sides of every limit |
| `zone_data` | `Layout` `ReadsInside` `IsMultimap` `Compiled` `Edited` `ServedWhole` `Copied` `KeptAndSkipped` | 3 pairs, 4 keys that collide, 2 hash tables (256), positions modulo 93 (2^32); files of 2 lines out of some 50; 2 editors, 3 additions, 3 letters (26); 3 versions of a zone; 3 versions of `data` of 2 lines, one of them bad, 2 failures, 2 crashes, 2 readers | overflow at each of the additions; a line of each kind with its variants beside another; transfers cut at every record, serials that go back; compilations that die at each step and meet what they left |
| `clients` | `WellFormed` `NamesAgree` `OrderKept` `FreshAndLasting` `LinesWhole` `Closed` | packets of up to 5 bytes out of 6 values, names of 4 bytes (255), loop limit 9 (1000); names of up to 2 labels of 2 bytes; 6 configurations, 3 calls, 2 uses (10000) of a reading; 4 log lines, 3 to a file at most; 5 inputs, 3 slots and 2 exchanges; 8 packets on 3 names | pointers forwards, back and in circles; every byte that is special in text; two rotations in a second; death at each step; lines cut by reads at every place; every referral, alias and glue |
| `progress` | `DataPublished` `LinesWritten` | as in `zone_data` and `clients` for `Publish` and `DnsFilter` | the same cases, each under its fairness |
| `transmit_pos_comment`, `tdlookup_child`, `axfr_services` | `PosBytesSent`, `ChildZone`, `ServicesCopied` | as the runs of the same modules | counterexamples, see section 6 |

No run uses symmetry. Deadlock is checked in `cache`, `transmit`, `query`,
`dnscache` and `tdlookup`. `servers`, `zone_data`, `clients` and `progress` hold
programs that do their work and stop, and counters that run out, so there, as in
`axfr_services`, `CHECK_DEADLOCK` is off.

### Fairness

- `transmit` (`Ends`): the loops of `thisudp` and `thistcp` run on; time passes;
  the owner of the exchange calls `dns_transmit_get` after a poll, since `iopause`
  waits no longer than the deadline of `dns_transmit_io` (weak fairness of `Get`,
  whatever was reported). Servers and network may do what they like, send without
  an end included; then `Ends` holds by its second part. It is not assumed that a
  call ever finds nothing to read.
- `dnscache` (`QueriesEnd`): the loop runs on (weak fairness of its step). Nothing is
  assumed of what `query_get` returns: for ever "wait" is a behaviour of the model,
  and the second part of `QueriesEnd`. That it is not for ever is what `Ends` of
  `DnsTransmit` says of an exchange and `Progress` of `Query` of a query.
- `progress`: the compiler is run again and again, as administrators do with
  `make`, and its calls fail and the machine crashes only finitely often
  (`MaxFailures`, `MaxCrashes`) (`DataPublished`); `dnsfilter` runs on (weak fairness of its
  next step), and neither ends of exchanges nor input are assumed (`LinesWritten`).

`SetAdvances` and `Progress` need no fairness: they are action properties that
lower a rank.

## 5. Proofs

- `CacheProofs`: `CacheRing`, `CacheTypes`, `CacheNeverImpossible` and
  `CacheSetAdvances` for every cache size, any set of keys and contents of any
  lengths, any hash. `TypeOK /\ RingOK` is
  inductive as it stands, once it says that both parts are rows without gaps. The
  argument: an eviction moves `oldest` to the start of the next entry of its
  row, a write ends at or before `oldest`, and so overwrites no entry of either
  part. From it follows that each turn of the loop of `cache_set` lowers a rank:
  an eviction shortens the old part, a wrap may happen once.
- `CacheChains`, `CacheGetIsNewest`, `CacheImplementsFifo`, in the same module. An
  eviction takes the entry at `oldest` out of the tail of its chain; it is the
  tail because chains are ordered by age and it is the oldest of all entries. A
  write makes a new head, and may write over entries that were dropped, so the
  invariant also says that links, keys and lengths of live entries lie outside
  of what is written (`Apart`), that the links the code follows stay in the
  table (`LinksAt`), and that the oldest part keeps its end (`OldReachesEnd`). For
  lookups, `Walk` says where a `cache_get` stands: `loop` newer entries of other
  keys are behind it, `prev` and `pos` are neighbours in the chain. The
  refinement counts places: `Place` numbers the live entries by age without a
  gap (`PlacesOK`), an eviction takes place 1 and lowers the others, a write adds the
  last, a wrap renames none, so `Log` moves as the abstract log does. Where such
  a count needs a least number, it comes from the well-foundedness of the natural
  numbers (`LeastNatural`) and not from induction.
- `DnsTransmitProofs`: `TransmitResources` and `TransmitAskedInTurn` for any
  number of slots and any lengths. `Resources` needs `AtSlot`: while the
  exchange waits, the current slot is in the list and holds an address.
- `QueryProofs`: `QueryLevels`, `QueryAuthority`, `QueryInBailiwick`, `QueryChain`,
  `QueryProgress` for every tree of names and all limits. Inductive together;
  `Authority` needs `SameZones`: the sets of configured zones above a name and
  above its zone are equal. `roots_same` compares only the nearest of them, and
  a referral between the two keeps the sets equal but would not obviously keep
  the nearest. A level that is looked up carries in `serves` the zone of the
  level below, so addresses found on it are labelled right when they are stored
  there. `QueryChain` splits the steps by what they do to the client's chain of
  aliases (`Links`): nothing, also when they follow an alias of a name server;
  one name more at its end; or a new query; or the end of one.
- `DataProofs`, on `Cdb`: `CdbLayout`, `CdbTables`, `CdbReadsInside` and `CdbIsMultimap` for every
  number of tables, hash function, width of positions and sequence of pairs. The overflow test
  `u < pos` of one addend is enough since lengths are below the width. The
  inductive invariant says how slots, header and list belong together at each
  point of `cdb_make_finish`, and where in its table a search stands. A table has
  twice as many slots as entries and each entry is in one slot (`Once`), so some slot
  is free: a function from the slots into the entries would be one to one. The next
  entry goes behind all slots in use on its way, so earlier entries of its hash are
  before it, and it opens no gap (`Filled`). A search therefore meets the pairs of its
  key in the order of addition (`PairAhead`); the pairs passed are the first ones
  (`PassFirst`), which makes the last of them the cursor of `Multimap`, and a free slot or
  a full round means that none is left (`NoneLeft`).
- `ClientProofs`, on `Packet`: `PacketTypes` and `PacketWellFormed` for every packet and all
  sizes. The name so far is a chain of labels; the strengthening keeps the set of
  their heads, and that the letters missing are as many as the open label
  says.
- `DnscacheProofs`: `DnscacheSlots`, `DnscacheLedger` and `DnscacheFreshIo` for
  every size of the two pools, any number of interfaces and any timeout. The
  invariant says of each slot alone what it holds (`TcpSlot`), ties the counters
  to the number of slots in use, and says that what the loop has still to look
  at belongs to the part that runs.
- `DataProofs`, on `Publish`: `ZoneDataServedWhole` for any number of lines, versions and
  readers and any set of bad versions. The strengthening says how far `data.tmp`
  has come at each point of the program, whatever earlier runs left in it, and
  that all that is called `data.cdb` is on the disk, so that a crash cannot take
  from it.
- `TdLookupProofs`: `TdLookupNothingForeign`, `TdLookupTimely`,
  `TdLookupAnswerRight` and `TdLookupSectionsRight` for every tree of names, every
  contents of `data.cdb` and all limits. Five invariants, each resting on those
  before. `OwnInv` needs nothing of the records: `find` holds only places of the
  name it was started for, and answer and authority only items that `NothingForeign`
  allows. `FreshInv` ties `valid` and `old` to the clock. `GivenInv`, for every
  database again, says of the addresses of an answer which one was read last
  (`LastIs`), and of the additional section that it has only addresses of the names
  mentioned so far, with a lifetime that ends with the record, or one of no record
  for a name with an unreadable one (`AddedIs`). `RightInv` and
  `SectionInv` are about databases that can be read, as are their theorems, and say
  at each point of `doit` that flags and sections are exactly what was `Seen` so
  far: the visible records of the name looked at that are no longer in `rest`.
  `Ordered`, all that was passed is before all that is left, makes the next one
  taken greater than all taken before, from which follow the order of the sections,
  that nothing comes twice, and that the SOA taken is the first. The zone found is
  the nearest because no zone is below the name looked at, and so for wildcards
  (`Sources`). `addrnum` counts the addresses seen; a place of the table that is
  written over loses one only when the table is full. That a section that was cut
  was too long needs its length, which is the number of records due, because a list
  in strict order has no repetitions (`ListedLen`). That "above" is a tree order
  comes from the definition of `Above` as a least set, and that a search has a
  first record from the well-foundedness of the natural numbers (`LeastNatural`).
- `ServerProofs`: `QuietAndRightAlways` for any number of servers, sockets, clients and packets and any length of a queue. `ServerInv` says
  that packets have a size and a question inside of it, wherever they are; that what
  `poll` reported is still there when its turn comes; what the server at work holds;
  and has `Balance`: answers that were sent and places with a question not yet
  answered (`Open`: under way, in a queue, at work) come to no more than questions
  asked or repeated. Each step moves a question from one place to another, so the
  places are counted and not the packets, and an answer takes one away: `NoQuestion`
  sees to it that an answer is never answered. What is sent is read off `Send`: of
  all steps that add to the network only it and `ClientSends` add something new.
- `ServersServedRight`, in the same module, for addresses of any size, files of any
  length and all names and clients. `walldns`: the numbers of an address are the
  labels in front of `in-addr.arpa` backwards, in both directions. `rbldns` (`RblInv`): the
  database has a pair for each network read and no others, and the search has left
  out just the lengths tried; an address begins with a network just when it and the
  network agree after the bits behind are cleared. `pickdns-data` (`SortInv`): the array behind
  `j` is in order and above the rest, from `i` on the rest is a heap with the indices
  of the code, and while an element goes down and up again its hole is in the heap
  (`HeapInv`); what was taken out, put into the hole, makes the bag of the lines
  read (`Counted`), since every move of the hole is then a swap (`HoleMoves`). From the
  order follows that a name and place is one pair with all its addresses (`GroupInv`).
  `pickdns` finds the first pair of each prefix, so the longest that has one is the
  client's place (`NetInv`), and the shuffle keeps the bag (`Mixed`).
- `DataProofs`, on `Edit`: `ZoneDataEdited` and `KeptAlways` for any number of editors,
  letters and commands, and deaths at any step. `EditInv` says of each editor that
  its new file begins with the lines read so far and what they taught it (`Known`):
  letters of the name are in `used`, no line has the host or the address, `ttl` is
  that of the name. So the line it adds fits all of them. Nothing ties an editor
  to `data` as that is by then: each version is right by itself, and whoever renames
  last wins, which is what `Kept` allows.
- `ClientProofs`, on `Resolve` and `Loglol`: `FreshAlways`, `LastingAlways` (together
  `ClientsFreshAndLasting`), `TriedRightAlways` and `OrderKeptAlways` (together `ClientsOrderKept`). `Readings` says that what is in memory
  is one configuration that was in force until `Life` before the deadline, or
  later. `LogInv` says where a rotation stands, that lines on the disk
  and those held back follow one another, that no name of our files is ahead of the clock, and
  that the lines at the end of a file are no more than `lines` counts.
  For the names tried, `TriedInv` relates a call in the middle to the list that
  somebody expects (`Expect`), for every list of domains whose rules it may have
  read: `plus` and `i` stand where one of the domains begins (`Places`), those
  before it were tried and had nothing (`TriedUpto`). What the rules make of a name
  (`QualifiedMany`, `QualifiedSingle`) is found place by place, as for `Flat`: the
  domains behind the name with a plus and a dot each, and a name with a dot without
  its last one.
- `ClientProofs`, on `DnsFilter`: `ClientsLinesWhole` for every text, number of slots and of
  exchanges and size of the buffer. `FilterInv` adds to `LinesWhole` that slots share no
  buffers (`Apart`), that a slot whose exchange is under way holds the address at the
  start of its line (`Asked`), and that every line, also one not yet written, is
  right. `Flat` is a fold, so what it does with one line more in front or behind
  (`FlatFirst`, `FlatLast`) and that it sees only what is written of a line
  (`FlatSame`) come first, from places of the fold and a least one that would differ
  (`FlattensShift`). Each step then moves one piece from one part of `Whole` to the
  next.

Some properties that runs check are conjunctions over programs that share a run,
and a theorem may state the conjunct of its program: `KeptAlways` is `E!Kept` of
`KeptAndSkipped`, and `CdbTables` is the `TablesOK` of `Compiled`.

Assumptions: `SizesAssumption`, `XorAssumption`, `TimesAssumption`,
`LargestAssumption`, `BoundsAssumption` (of `DnsTransmit` and of `Publish`, there as `PublishBounds`), `NamesAssumption` (of
`Query` and of `TdLookup`), `LimitsAssumption`, `PoolsAssumption`,
`FileAssumption`, `PacketAssumption`, `DatabasesAssumption`, `NumbersAssumption`.
Modules that are instantiated name theirs and leave it to the theorem and to the module of
the run to assume: `ServerBounds`, `WallBounds`, `RblBounds`, `PickBounds`, `EditBounds`, `ResolveBounds`, `SearchBounds`, `LoglolBounds`, `FilterBounds`
(`ServersAssumption`, `ZoneDataAssumption`, `ClientsAssumption` in the `MC` modules).
Theorems of `ServersSpec`, `ZoneDataSpec` and `ClientsSpec` rest on those of the programs: each does what it does
alone, or nothing (`WallAlone`, `RblAlone`, `PickAlone`, `EditAlone`, `PublishAlone`, `ResolveAlone`, `LoglolAlone`, `FilterAlone`).
The assumptions give constants their types, say of names that they form a tree, of `xor` what
a chain needs, and of lengths that they are below the width of positions. TLC
evaluates them in the runs. `SearchBounds` says more than types: neither names nor
domains have a plus in them, and domains do not end in a dot; with such a name or
domain the code does something else than is expected, since `+` is a mark to it.

Only model-checked, each on the bounds of its run: the liveness properties `Ends`,
`QueriesEnd`, `DataPublished` and `LinesWritten`, which are beyond this prover; `NamesRead`
(`Response`); `Compiled` but for `TablesOK`; `Copied`, and the part of `KeptAndSkipped` that is
about transfers (`Axfr`); `NamesAgree` (`Packet` beside `Domain`); `Closed` (`DnsTrace`); and the
three counterexamples of section 6.

## 6. Where code and comments differ

Shown by runs:

- `dns_transmit.c:300` says that in state 2 `pos` bytes of the query have been
  sent. When `connect` succeeds at once, `dns_transmit.c:169` enters state 2 and
  leaves `pos` as it was; the path through state 1 sets it to 0 at line 292. The
  query is then written from the middle. (`transmit_pos_comment`)
- `tdlookup.c:133` and `:255` have `(r = find(...)!=0)` for `((r = find(...))!=0)`, as
  lines 158, 215 and 230 have it. A record that cannot be read is taken for one
  of the type read before; a name may be taken to be "in a child zone"
  (`tdlookup.c:146`) that has no name servers. (`tdlookup_child`)
- `axfr-get.c:226` writes the three numbers of an SRV record in the order
  priority, weight, port, and `tinydns-data.c:389-395` reads port, priority,
  weight. (`axfr_services`)

Met while modelling, without a run of their own:

- `dns_transmit.c:260` says that in state 0 each server was asked `udploop`
  times; line 218 starts `udploop` at 1 for recursive queries. Harmless: such a
  query makes three rounds.
- `loglol.c:27` says that the alarm handler clears the flag. Line 30 sets it,
  line 56 tests it, nothing clears it: after the first three quiet minutes every
  line is flushed at once. A line before that is written only when stdio's
  buffer fills, a file ends, or another line comes after the alarm.
- `rbldns` never finds networks with bits set behind their length, or shorter
  than 8 bits; a line without a length is one address, however few octets it has
  (`rbldns-data.c:111` takes 32), so `1.2.3` lists `1.2.3.0` only.
- `pickdns` never finds a network of no octets.
- All addresses of an answer of `tinydns` get the lifetime of the last one read
  (`tdlookup.c:164`, `:194`), also one that expires before.
- While datagrams that are too long or irrelevant keep coming to the socket of an
  exchange, its deadline is not looked at (`dns_transmit.c:251`, `:265-273`).
- `tinydns-data.c:300` tests a lifetime before it is cut to 32 bits at line 146, so one
  that is a multiple of 2^32 makes an SOA that outlives its name servers.
- `tinydns-edit.c:174` looks at lines with the character it was called for, so the
  servers of a name with a `.` and a `&` line may share a letter and have two lifetimes.
- `dnsfilter` asks about `1.2.3.4w` as about `1.2.3.4` (`dnsfilter.c:190`, `ip4_scan.c:17`)
  and prints the name behind the whole word.
- An answer of `server.c` for a class other than IN keeps the bits RD and RA of
  the question.
- `dnstrace.c:430`: `continue` behind a call that does not return has no effect,
  and the message of `DIE` shows an `errno` from before.
- `tinydns-edit` twice within a second leaves the file with one modification
  time, so two versions of a zone get one serial.
- `axfr-get` gives up on a zone that has name servers for a wildcard; records
  that will die are copied with a lifetime of 2 seconds.

## 7. Not modelled

Every component is listed in `PROJECT.json` with its status. In the modules
above are left out:

- two runs of `tinydns-data` at once, or two of `tinydns-edit` with one new
  file: both would write one temporary file without a lock;
- `find` failing for every record for ever (`tdlookup.c:133`): its loop has no
  end then, and the model lets a later call pass the record;
- a packet that `poll` reports and that is dropped before it is read: the
  sockets block (`server.c:129`), and all would wait for one;
- the socket to a server of a dropped query, which stays open until its slot is
  used again (`dnscache.c:92`): nothing but a descriptor is held;
- the end of the loop of `server.c`, of the sort of `pickdns-data` and of
  `dns_packet_getname` as liveness: the first has none, the other two are bounded
  by counters that the models have and whose end the deadlock-free runs reach;
- clocks that are set back, but in `Cache` and `TdLookup`: `loglol` names its files by
  the time (`loglol.c:137`), so after a jump back a later file would come before an
  earlier one, and a configuration of the client library would be kept for longer.
  The clocks of `Loglol` and `Resolve` go forward only, and a reading of the
  configuration in `Resolve` is one step;
- in `TdLookup`, questions of class ANY, which leave AA clear (`server.c:54`), and
  address records of a length other than 4, which are answered one by one like records
  of other types (`tdlookup.c:163`);
- lines of `loglol` cut in two where stdio's buffer is full: a line is written whole or
  not at all;
- the end of `dnstrace`, see section 3;
- escapes, formats of numbers and times, layout of what is printed.

Out of scope, as straight-line code without a state of their own that could go
wrong in several steps: installers (`*-conf.c`, `installapp.c`), the one-shot
query tools (`dnsq.c`, `dnsip.c`, ...), start-up (`droproot.c`, `prot.c`,
`env.c`), access control (one `stat` per prefix), `log.c`, `qlog.c`,
`printpacket.c`, and the base library of strings, buffers and times. Random
numbers are modelled as open choices; their quality is no property of states.
