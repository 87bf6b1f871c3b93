# A verification of RecursionDns in TLA+

RecursionDns is a recursive DNS server in Go: it reads queries on port 53,
walks from the root servers down to the servers of a zone, caches what it
learns about nameservers and answers its clients. This directory holds TLA+
models of it, configurations that check them with TLC, and theorems about them
that TLAPS proves.

## 1. Inventory

| part | source | state | operations |
|---|---|---|---|
| record cache | `models/storage.go` | `Dsmap`: `Asets`, `AAAAAsets`, `NSsets`, `CNsets`, a lock for each | `GetA`, `ExistA`, `SetA`, `GetOriNS`, `SetOriNS`, `GetCNAME`, `SetOriCNAME`, `get_cnames`, `Add...` at start |
| serve goroutines | `models/server.go`, `serve` | four goroutines, each with a socket and the maps `localA`, `localNS`, `localCN` | read a reply, screen its records, store them, wake the requests that wait |
| requests | `models/recursion.go` | `ReqA`, `ReqNS`, `ReqAAAA`, `ReqMX`: requests by question | `AddQuestion`, `HasQuestion`, `Doit`, `Over` |
| intake | `models/models.go` | `RNChan` (100 places), `RNPool` | `recursion`, `Worker`, `ListenAndServe` |
| wire format | `models/dns.go`, `models/rrs.go` | the compression map of one message | `PackBuffer`, `Len`, `Unpack` |
| octet buffer | `models/buffer.go`, `models/binary.go` | `Data`, `ReadPos`, `WritePos` | `Read...`, `Write...`, `Take` |
| bootstrap | `models/io.go`, `root.z`, `models/server.go` (`InitServer`) | the maps of `Dsmap` before anybody else uses them, the sockets | `LoadConfig`, `AddA`, `AddAAAA`, `AddNS`, `SetOriCNAME`, `InitServer` |
| unused | `models/storage.go` (`Ttlmap`, `RootSleep`), `models/server.go` (`ServerMux.Request`), `models/models.go` (database copies), `models/user.go`, `controllers/`, `routers/` | | not reached from `main.go` |

How they interact:

0. `MInit` makes empty maps, `LoadConfig` fills them from `root.z`, and
   `InitServer` opens four sockets and starts a `serve` goroutine for each.
1. `ListenAndServe` starts a goroutine `recursion` for each query. It drops the
   query if `HasQuestion`, and otherwise sends a request node, drawn from
   `RNPool`, on `RNChan`.
2. `Worker` receives it and starts `Doit`. `Doit` looks for an answer in the
   reply that woke the request and in the cache. If there is none it looks for
   the nameservers of the closest zone and for their addresses, puts the request
   into a table with `AddQuestion` and sends the question to each address. If no
   server has an address it makes a new request, for the address of each server.
3. `serve` reads the reply, stores what concerns nameservers, takes all requests
   with that question out of the table and starts `Doit` for each.
4. `Doit` answers the client (`Over`), or, for a request for the address of a
   server, sends the question that needed it to that address.

What is hard in it: four serve goroutines write the same maps in many critical
sections while any number of `Doit` goroutines read them; a request moves from
goroutine to channel to goroutine to table with no owner in between; UDP loses,
repeats and reorders replies; nothing has a timeout; request nodes are recycled;
`HasQuestion` and `AddQuestion` are far apart. `get_cnames` follows the aliases of the
cache, `DataSet_Cname` those of a reply, and `Doit` makes requests for the addresses of
servers, without a bound on any of them.

What makes it correct: the cache never lets in what it should not, nor shows a
server before its address entry (cache); a request is in exactly one place, a
reply that arrives always finds its request, every client gets at most one
answer and the right one, and a query hangs only for reasons that can be named
(resolver); what is packed fits into the buffer made from `Len` and can be read again,
whatever is compressed or cut off (wire format); what is written to a buffer is
read back and takes the octets its size says (octet buffer); the cache is what
`root.z` says before the first goroutine looks at it (bootstrap).

`PROJECT.json` lists the components, the hazards with their lines and the
properties that are about each.

## 2. Modules

| module | extends | what it is |
|---|---|---|
| `DnsData` | | records, messages, the accessors of a `DataSet` |
| `DnsCache` | `DnsData` | the cache and the serve goroutines |
| `Bootstrap` | `DnsCache` | the start of the process, from the first line of `root.z` to the last goroutine |
| `Resolver` | `DnsCache` | queries, goroutines, tables and network, on that cache |
| `Exchange` | | what the resolver promises its clients, an abstract specification |
| `Wire` | | packing, one datagram, unpacking |
| `Buffer` | | the octet buffer |
| `MCDnsCache`, `MCResolver`, `MCWire`, `MCBuffer` | `Bootstrap`, `Resolver`, `Wire`, `Buffer` | values of the constants for TLC |
| `DnsCacheProofs`, `BootstrapProofs`, `ResolverProofs`, `WireProofs`, `BufferProofs` | the modules they are named for, and `TLAPS` | theorems |
| `WakeupProofs`, `PlaceProofs`, `ExchangeProofs` | `ResolverProofs` and each other, in this order | theorems on waiting requests, on the place of a request, and on `Exchange` |

### How state and actions correspond to the code

`DnsCache`. `asets`, `nssets` and `cnsets` are the maps of `Dsmap`; `localA`,
`localNS` and `localCN` are the local maps of each thread, from which an entry
goes when it has been stored. A step is one critical section: `Parse` (a reply
is read and the entries for its nameservers are made, which touches nothing
shared), `ScreenCNAME` and `ScreenA` (one call of `ExistA` and what follows from
it), `StoreA`, `StoreNS`, `StoreCNAME` (`SetA`, `SetOriNS`, `SetOriCNAME`),
`Finish`. The order of the five groups is that of the code; inside a group Go
iterates over a map or the model over a set, and the order is arbitrary. A zone that
is its own server ends the process in two places: `Panic` is the check of `serve` on each
record, and `StoreNS` has the check of `SetOriNS` itself, which would come when the
addresses of the reply are already stored. `Crash` is the end of the process by a
goroutine that is not one of these; it leaves the maps as they are.

`Bootstrap`. `file` is `root.z` and `pos` the line that is read next. The maps are those
of `DnsCache` and are empty at first, and `LoadConfig` fills them: `AddRecord` is one
call of `AddA_str`, `AddAAAA_str` or `AddNS`, `SetAlias` one of `SetOriCNAME`, `PassOver` a
line of another type, and `BadLine` one the process dies of: with fewer than five fields, or
with a zone as its own server. `EndOfFile` also ends a file whose last line has no
newline, and that line is left out. `OpenSocket` is a turn of the loop of
`InitServer`, `Listening` its end, which may come early when a socket cannot be
opened; `Serving` are the steps of the goroutines started so far. `DnsCache` starts
from maps with the hints in them, the constants `HintA`, `HintNS` and `HintCN`. That the
process does what `DnsCache` says is therefore a refinement, `ServedSpec`: the cache as the
goroutines can see it (`Seen`) is the hints until `LoadConfig` is done, and the maps from
then on. The step `EndOfFile` takes from one to the other, and must not change what is
seen: the maps must hold just the hints, and nobody may have looked before.

`Resolver`. `sending` holds the requests of goroutines about to send on `RNChan`,
`chan` is the channel, `doits` the goroutines running `Doit` that still hold their
request, `tails` those that have given it to `AddQuestion`, `table` the four
tables, `pool` what `RNPool` holds, `asks` the questions under way. They are bags,
because two goroutines may hold equal requests. Reads of the cache in `Doit` are
steps of their own, since each takes a lock of its own and stores can come in between
(`Walk`: one `GetOriNS`; `FollowAlias`: one `GetCNAME` of `get_cnames`; `NoAlias`: the
`GetCNAME` that ends it, and the look into the reply, which is the goroutine's own;
`FindAddresses`: `GetA`). `Overflow` is `DataSet_Cname` in a loop of aliases: it fills the
stack of the goroutine, which ends the process. `Finish` of the cache is conjoined with
the wake-up in `Wake`.

A node of `RNPool` is not cleared: `Accept` and `SeekServer` draw any of those that were put
back (`Recycle` TRUE), or a new one, and take over the fields that the code does not set. So a
request is no longer told by its fields whom it was made for, and it carries two
histories: `made`, whether it was drawn for a query or for the address of a server, and
`way`, the aliases followed with it since. `replies` is what each client was told by the request
made for it, in order, and `strays` what any client was told by a request made for the
address of a server. `Lose` takes a question, or the reply to it, off the network.
`forsaken` are the questions nothing promises an answer to: those that were lost or
denied, and those that a lookup of an address was to send but will not, because
it found no server or has answered an old client.

`Wire`. `Pack` writes one item of the message, `Transmit` carries the octets to a
reader whose buffer may be too short, `ReadQuestion`, `ReadRR` and `NextSection`
are the loops of `Unpack`, and `Panic` an index out of range. `LenMsg` is `Len` as
`PackBuffer` calls it, its only caller: with `Compress` FALSE, so that the part of `Len` that
looks for compressible names never runs and is left out.

`Buffer`. A value is the set of its bits, so that values have the 64 bits of the
code. `WriteUint` stands for the methods for integers and floats of 1 to 8 octets in
either order, `WriteUvarint` for `WriteUvarint` and `WriteVarint`; `Put` is what they
do when the value fits. When it does not (`Overflow`), those of 3, 5, 6 and 7 octets,
the variable-length ones and `WriteBytes` leave a part of it in the buffer before
they panic, the others nothing. `ReadNext` reads the items in the order in which
they were written, `ReadForeign` reads a buffer of other origin in any way. The
history `written` keeps each item with the place where it begins. `Data` is as long as
its array: in a shorter one `Take`, `ReadBytes` and `ReadString` could go on to the end of
the array, since they slice. Most of these methods have no caller in the program; they
are modelled as the library they are, and what the DNS code uses of it are the
big-endian integers of 1, 2 and 4 octets and the slices.

### Abstractions

* A decoded message is its question and the set of its records: the three
  sections are merged, since every loop of `serve` and `fromMsg` treats them
  alike. Names are lower case, and a query or reply has one question. MX records
  keep their name and not their preference.
* The replies in `Resolver` are those that can be decoded. What becomes of the
  others is the subject of `Wire`.
* A nameserver echoes the question it was asked; the replies of a world are a
  function of the question and the address (`Upstream`).
* A name has one alias in a reply (`OneAliasEach`); `DataSet_Cname` takes the first.
* The datagrams of one `Request2` are sent in one step, since each is lost or answered on
  its own.
* The alias list of a request is a value. In Go it is a slice: two recycled requests may
  share its array, and write to it. That is not modelled.
* `Conn` is always set and `TPoint` never read; both are left out.
* The program never sets `Compress`; in `Wire` it is a field of the message, since
  the code for it is there and replies of other senders use pointers.
* A missing `root.z` is one without lines.
* A value that reaches a buffer through a signed or floating type is its bits.
* Histories (`named`, `fate`, `replies`, `strays`, `forsaken`, and `made` and `way` of a
  request) decide no step of the system: `fate` only says which query has not been made,
  and `made` only to which history something is added, and how many lookups there
  are for `MaxLookups`.

## 3. Runs

| run | instance | shows |
|---|---|---|
| `cache` | 4 versions of `root.z`, 2 threads, 7 replies, 6 names; 63 487 states | the maps hold what `root.z` says before anybody serves, and the process from empty maps on implements `DnsCache`; what the cache holds is sound in every interleaving; the addresses of a server come from one reply |
| `races` | 1 query, 2 root addresses with and without glue, 2 threads; 32 975 states | no lost wake-up, stores before wake-up, the resolver uses the cache as `DnsCache` says, the query is answered |
| `pair` | queries for a host and an alias of it, a pool that returns what was put, replies that come again and again, `MaxRetrys` 4, 2 threads; 1 772 685 states | one place for every request; every answer is right; the resolver implements `Exchange` |
| `tangled` | 1 query, 2 root addresses; servers that are aliases, aliases in a circle in the cache and in a reply, servers in each other's zone, denials; questions that get lost, a pool that returns what was put; 2 threads; 7 821 states | only a loss, a denial, a circle or the end of the process strands or hangs a request |
| `kinds` | TXT, AAAA and MX questions and one for a server without an address, `MaxRetrys` 2; 89 052 states | types hold; a query may be dropped at the limit or for want of a server, but none hangs |
| `wire` | 289 messages, datagrams cut at 110 octets, map offsets below 60; 3 682 states | compression map, buffer length, decoding |
| `buffer` | 2 items of 12 values and 3 strings in 11 octets, 4 buffers of other origin; 66 335 states | values come back, sizes are told |
| `recycled` | a pool that returns what was put, a lookup of an address | finding: the lookup answers an old client |
| `hinted` | a query for an AAAA line of `root.z` | finding: answered with type A |
| `denied` | one denial | finding: the question is never released |
| `escaped` | a label with a dot | finding: it is split |
| `unknown` | a record of an unknown type before another section | finding: index out of range |

**Bounds.** Two threads are enough for the races between stores: a property of the
cache relates at most two entries, each written by one step, and the theorems of
section 4 cover any number. Two root addresses give two replies to one question,
which is what makes a late reply race with a wake-up; two replies with different
content make the stores conflict. `ChanCap` 1 makes `RNChan` full with two
queries. `MaxRetrys` is 30 where no run reaches it and 2 or 4 where it must be
reached (`kinds`, `pair`): with 4 the query for the alias can just be answered, and
every repeated reply on the way, and every turn the node from the pool has behind
it, uses one up. `MaxLookups` bounds the requests for addresses in the tables; 6 in `tangled` lets a circle of nameservers go round more
than once before the bound stops it, and 30 elsewhere is never reached. In `buffer`,
two items and 11 octets make every kind fit and not fit behind every other, and the
values lie at the edges of octets, seven-bit groups and words. In `wire`, `MaxOffset` 60 instead of 16384 and `Datagram` 110
instead of 512 bring both limits into the middle of the messages; `MaxPtr` is
the code's. The system stops when every query is settled, so deadlock is not
checked. `NoLostWakeup` is a property of waiting requests in every state, not a
matter of deadlock.

**Fairness.** `FairSpec` asks for weak fairness of `System`, all steps but the
arrival of queries, as one action: the Go scheduler runs some goroutine that can
run, and the network delivers something if there is something. That is the
weakest fairness there is, and it suffices because every behaviour of the instances
is finite: a request is retried at most `MaxRetrys` times, and a reply comes once. (A
repeated reply would make `System` possible for ever; `pair` checks safety only.) In
`tangled` there are infinite behaviours, round a loop of aliases, and behaviours
that end at `MaxLookups`; `AnsweredUnlessCircular` says that both take a circle, of
aliases or of nameservers. Its premises are the four things that can make a query
hang: `forsaken`, a denial, a loss, or a lookup that was given up; `Circular`, zones whose
servers have no addresses but in each other; `Looped`, aliases of the cache in a circle;
and the end of the process (`up`), which takes aliases of a reply in a circle. Nothing
retransmits a lost question and nothing is promised then, so `Lossy` is FALSE in `races` and
`kinds`. It is TRUE in `tangled`, where behaviours with a loss are set apart by `forsaken`, and
where `NoLostWakeup` requires that something stirs for all questions that were not lost. In
`denied` fairness holds as well, and still the question stays.

## 4. Proofs

`DnsCacheProofs` proves, for any threads, names, hints and replies, that the cache
keeps its types (`CacheTypeCorrect`), that servers and aliases appear only after their address
entries and that only servers have one (`CacheAdmission`), that delegations are
never mixed (`CacheWholeDelegation`), that what a thread is about to store is safe to
store (`CacheLocalsSafe`), that `ExistA` is never revoked (`CacheAdmissionStable`) and that
the addresses of a server are those `root.z` gives for it or some of those one
single reply gives for it (`CacheAddressesOfOneReply`). The inductive invariant `CacheInv` adds `LocalsSafe` to
them: what a thread is about to store is safe to store, because each server of its
delegations has an entry in the cache or in `localA`, and `localA` is stored first.
Without it the invariant is not inductive: a step `StoreNS` says nothing about
where the delegation came from. It also says that no zone in `localNS` is its own
server, so that the panic of `SetOriNS` is never reached: `serve` has looked at every
record before it stored anything. The addresses need an invariant of their own,
`AddressesHeld`: those in `localA` are among those the thread's own reply gives for
that name. Run `cache` checks every conjunct of `CacheInv`. `CacheTyped`
restates the types with sets of maps, which the provers handle better.

`BootstrapProofs` proves, for any set of files that say the same, that `LoadConfig`
leaves that behind before any goroutine serves (`BootLoads`), whatever the order of
the lines and however often one is repeated. The inductive invariant says that the maps
are what the first `pos - 1` lines say (`Says`), starting from nothing; each line extends
what was said before, by one element or, for an alias, by replacing the last; and that
from the end of the file on the invariant of the cache holds. With it follow that
from the end of `LoadConfig` on the maps keep the admission rules (`BootAdmission`), that no
goroutine sees half a delegation (`BootWholeDelegation`), and that
the whole start implements the specification of the cache (`BootUsesCache`, which is
`ServedSpec`): a line is a stutter, `EndOfFile` is one because the maps then are the hints,
and the rest are steps of the cache.

`ResolverProofs` proves that the types of all goroutines, tables, channel and pool
are kept (`ResolverTypeCorrect`) and that every step of the resolver is a step of
the cache or leaves it alone (`ResolverUsesCache`), so that the theorems of the cache
hold of the resolver (`ResolverAdmission`). Its inductive invariant is `CacheInv`
and `RequestsTypeOK`; the cache's part is needed because `Doit` copies what it finds
in the cache into its request.

The three modules on top of it prove the resolver's own promises, for any number of
clients, threads, names and replies, whatever is lost, repeated or reordered, whatever
`root.z` holds, and whether `RNPool` returns what was put into it or not: they
have no hypothesis but the assumptions on the constants. What a recycled request does
to others is not hidden by this but said apart: `OnePlace`, `AnswersRight` and `Exchange`
speak of the request made for a query, and of the aliases followed with it; that other requests
may answer a client as well is finding `recycled`, and that inherited aliases may stand
in front of its own is why `IsAnswer` looks at `way`.

* `WakeupProofs`: what a reply brought is in the cache or still in the local maps of
  the thread that read it (`RepliesHeld`), and a thread wakes requests only when its
  maps are empty, hence `ResolverWokenAfterStore`. For `ResolverNoLostWakeup` the types
  are enough to strengthen it with (a request is a query's or a lookup's, and a lookup
  knows the question it is for), but the formula itself had to be made inductive. It
  speaks of any set of questions nothing stirs for (`Asleep`) and not of a single one, because a request may wait for a lookup which waits for another.
  The proof follows each step: a set asleep after it was asleep before, unless the
  step has added one of its requests, and then it also made something stir.
* `PlaceProofs`: `Placed` says of each client that exactly one of the bags of
  goroutines, channel and tables has a request of its, once, if it lives, and that
  all are free of it if not; no bag may have two. The lemmas are about adding to,
  removing from and replacing in a bag. `ResolverOnePlace` follows.
* `ExchangeProofs`: `OwnQuestion` says that the aliases followed with the request of a
  query are a chain from its client's question to the name it now looks for, and that they stand
  at the end of those it will tell; `DataGiven` that a task holds records of replies only;
  and `ToldInv` adds that a client that has been told counts as answered.
  From these and `CacheAddressesOfOneReply`, which says for which name an address in
  the cache was given, follow `ResolverAnswersRight` and, step
  by step, `ResolverExchange`: a step of the resolver is a `Query` or a `Reply` of
  `Exchange`, or it changes nothing `Exchange` sees. What counts as an answer to a question
  for an AAAA record includes what `AddAAAA_str` makes of an AAAA line, a record of type A
  (`Answering`): that this is not what was asked for is finding `hinted`.

`BufferProofs` proves, for all values of 64 bits, all strings, any length of the
buffer, any foreign contents and any number of items, that what is read is what was
written (`BufferReadBack`) and that the sizes are right (`BufferSizesTold`). It first shows that the
codecs are inverse: `UintBack` for 1 to 8 octets in both orders, `UvarintBack` for
groups of seven bits, `ZigzagBack` both ways. That `Min` and `Max` of a set of
numbers exist is itself proved (`Least`), as the least element of a well-founded
order. `BufferInv` then says that while the buffer has not panicked the items lie end
to end, each as it was encoded, and that `ReadPos` is where the next one to be read
begins (`LaidOut`); that what has been read is right (`ReadSoFar`) is kept apart from
it, since it still holds after a panic, when `LaidOut` does not.

`WireProofs` proves the three properties of run `wire`, for any messages with any number of
records, any `MaxPtr`, any `MaxOffset` up to 16384 and any `Datagram` that has room for a
header.

* `WireBufferSuffices` needs nothing but the types. The invariant `Fits` says after
  each item that what is packed has at most the length `LenUpTo` has reached; a name
  takes its length and one more octet, or less with a pointer (`PackNameType`), and
  so on up to a record and a question.
* `WireCompressionSound` needs to know where everything is. A *place* (`Loc`) is an
  offset, the name that can be read there, the length of its first label and its end.
  A set of places is `Sound` in a message if each has its label there, and then the
  root, the place of the rest of the name behind it, or a pointer to such a place
  further in front; it `Covers` a map if each entry is the offset of a place of its
  name. `Told` says that while a message is packed there are such places, and
  that the question and the records lie one behind the other (`Laid`). That
  `UnpackDomainName` reads a place's name at its offset (`ReadsBack`) goes by induction
  on the length of the name, since a pointer goes to a shorter one; that the pointers
  it follows are at most `MaxPtr` is `FewerDots`. `RawSetRdlength` changes two octets
  of a message in which pointers may go anywhere: `NameEnd` finds the end of the
  owner (`EndOfName`), and no place of the record reaches over them.
* `WireDecoded` adds `ReadRight`: once a datagram is cut out of what was packed,
  everything up to some item was read as it was sent (`Came`, `InStep`), or the cut has
  been met and nothing more is read (`Stuck`). Reading stays in step because each
  record tells its own length, what lies before the cut reads as before
  (`CutReads`), and what does not is met with an offset behind the end (`RRReads`).

The last two suppose `OrdinaryNames`: names of characters that need no escape, not empty
and not starting with a dot, except for the root, and with at most `MaxPtr + 1` labels. A
name with an escape is not read as it was packed (finding `escaped`), an empty one takes
no octet at all, and names nested deeper can be packed as a chain of more pointers
than `UnpackDomainName` follows. `WireDecoded` supposes `ModestMessages` as well: at most
`MaxPtr` labels, since a name may be one pointer more than its entry in the map, and
messages of at most 65535 octets without compression, since `rawSetRdlength` puts
in no longer length. Both are definitions of `Wire`, and `MCWire` has TLC check
that the messages of run `wire` meet them. Among those are messages with pointers to
pointers, datagrams that are cut and records of unknown types.

What the proofs assume are the named assumptions of the modules: `NamesAssumption`,
`MessagesAssumption`, `HintsAssumption`, `NoMsgAssumption`, `FilesAssumption`,
`ResolverAssumption`, `WireAssumption`, `BufferAssumption`; TLC evaluates them in every
run. Lemmas on records and aliases that several modules use are in `DnsCacheProofs`.

Only model-checked: liveness (`EventuallyAnswered`, `EventuallySettled`,
`AnsweredUnlessCircular`), which needs ENABLED; every safety property of a passing run is a
theorem. What a function computes that is defined by recursion over the octets or the
records of a message (`LenUpTo`, `NameFrom`, `NameEnd`) is proved by giving it a
measure that falls with each turn (`TurnsExist`, `StepsExist`), as the library's
induction theorems cannot be used.

## 5. Findings

Each is shown by the run of that name and recorded in `PROJECT.json` with the lines.

* `recycled`: requests from `RNPool` are not reset, so that the lookup of a server's
  address may have an old client, who is sent that address, and the question that needed
  it is never put to the server.
* `hinted`: AAAA records of `root.z` have the type A.
* `denied`: the sweeper of old questions is a comment, and nothing replaces it.
* `escaped`: the escape that `UnpackDomainName` writes is not understood by
  `packDomainName`.
* `unknown`: the error return for records that cannot be read is a comment.

Without a run of their own:

* A query whose request comes out of the pool inherits its aliases and retries as well
  (`Accept`), so that a client may be told the aliases of another query in front of its
  answer.
* `Len` is said to be `one more than needed` (`dns.go:857`), but it is exact for an ordinary
  name: `PackBuffer` adds the one (`dns.go:814`), and `BufferSuffices` does not need it.
* A message that ends within the header of a record makes `unpackRRHeader` take an index out
  of range (`Panic` in `Wire`). `Decoded` says what was read before.
* A value of 3, 5, 6 or 7 octets that was written negative is read positive (`Kept` in
  `Buffer`).
* Two zones whose nameservers have their only names in each other make `Doit` start requests
  without end (`Circular`), a loop of aliases in the cache keeps `get_cnames` from returning
  (`Looped`), and one in a reply, from the name that was asked for, ends the process
  (`Overflow`).

## 6. Not modelled

* TTL sets and the root sleep list, the database copies, `ServerMux.Request`: no
  call of them is left in the program.
* The user store and its REST controllers, the sample code of the web framework:
  `main.go` does not import the routers, so no request reaches them, and
  `controllers/object.go` does not build from this repository.
* The identity of sockets, and errors of reads and writes on them: which socket a
  question leaves through is a matter of chance in the code.
* Messages with no question or with several, and times to live, which nothing reads.
* Logging and configuration of the web framework.

`PROJECT.json` gives the reason for each component.

## 7. Plan

Order of the work, the most important behaviour first:

1. `DnsData`, `DnsCache` and their theorems. Done.
2. `Resolver` with `Exchange`, its runs, its type correctness and its use of the
   cache. Done.
3. `Wire` and its runs. Done.
4. `Bootstrap` and its theorems. Done.
5. Worlds with aliases of nameservers and nameservers that depend on each other, and
   the look-up of aliases name by name. Done (`tangled`).
6. `Buffer`. Done.
7. Theorems: `WokenAfterStore`, `NoLostWakeup` and `OnePlace` for any number of
   clients, the implementation of `Exchange`, and the octet buffer. Done.
8. `Wire` with recursive functions in place of recursive operators, and all its
   properties as theorems for any messages. Done.
