# A verification project for the Uni-Assignment-Archive

The repository is an archive of twelve independent programs. They do not call
each other, so each is modelled on its own. Nine are modelled: a BitTorrent-like
swarm over MPI, a multi-threaded map-reduce, an IP router, a publish/subscribe
server with its clients, a shell, a memory allocator, an HTTP client, an Enigma
machine and a lambda interpreter. For the other three "What is not modelled" gives
the reason.

## Inventory

| Program (`src/`) | State it keeps | Operations | What is hard | What makes it correct |
|---|---|---|---|---|
| `Torrent MPI/tema2.cpp` | tracker: lists of seeds and peers per file; rank: `own_files`, list of clients, download counter, slot counter | tracker loop (register, swarm request, done), download, upload and ready queue threads | three threads per rank and `N` ranks, rendezvous sends, shared maps, one unlocked publication, shutdown by counting | every wished file is written complete; segments come from who has them; slots are neither lost nor given twice; the threads stop in order |
| `Map-Reduce Inverse Search Multi-thread/main.cpp` | queue of files, word lists, per-letter maps, three atomic counters, three barriers | map (pop, scan), reduce (aggregate, sort, write) | threads share letters through an overflowing `atomic_char`; barriers alone separate the loops | one file per letter, with the right words in the right order, for every schedule |
| `client-server TCP - UDP/` | connected clients, subscription table, poll array | connect, subscribe, unsubscribe, publish, disconnect | the poll array is changed while it is walked; length-prefixed messages on a byte stream | a message goes to the connected clients subscribed to its topic, once, and is cut where it was written |
| `Router Implementation/` | routing table, ARP table, queue of packets waiting for ARP | forward, ARP request and reply, ICMP errors | replies arrive in any order, one queue for all next hops | a packet leaves towards the host it was routed to; none waits for ever |
| `Libc Memory Calls/osmem.c` | the list of blocks | `os_malloc`, `os_calloc`, `os_free` | splitting, merging, growing and reuse in any order of calls | blocks do not overlap; each is as large as was asked; free space is reused |
| `Mini Cshell/` | environment, working directory, processes | simple commands, sequences, conditionals, pipes, parallel runs | processes, pipe ends, exit statuses | the status of a command is the one its operator defines |
| `HTTP Client/` | cookie, access token | register, login, access, add, delete, logout | session state across commands, answers cut into reads | a command uses the credentials of the session it runs in |
| `Enigma Machine Assembly/` | rotors, notches | rotate, encode | stepping of several rotors | decoding is encoding again |
| `Query System for Databases/` | immutable tables | filter, sort, join, update | none | results equal their relational definition |
| `Lambda Interpretor/` | immutable expressions, context | reduce, normalise | capture of variables | substitution avoids capture |
| `Linear Regression/` | matrices of doubles | fit | floating point | out of reach of these tools |
| `DroneGame/` | one drone in a game engine | physics, drawing | floating point, rendering | out of reach of these tools |

`PROJECT.json` lists the same components with the modules of each, and the
hazards of the code at their lines.

## Plan

1. *Torrent*, *map-reduce*, *router*: done, with their safety properties proved.
2. *TCP/UDP server*: done. `PubSub` is the abstract specification, `Broker` the
   server with its poll array, `Wire` the byte stream to one subscriber,
   `TopicMatch` the matching that all three use.
3. *Shell*, *allocator*, *HTTP client*, *Enigma*, *lambda interpreter*: done, one
   module each.
4. *Proofs*: see "What is proved". Of the safety properties that the runs check, all
   are proved but `Sound` of the lambda interpreter.
5. *Query system*: operators against reference definitions, if ever; see "What is
   not modelled".

## Modules

| Module | What it is |
|---|---|
| `Swarm` | what the torrent promises, without tracker, slots and messages |
| `Torrent` | `tema2.cpp`: tracker, download, upload and ready queue threads |
| `MCTorrent` | three ranks and two files, for TLC |
| `TorrentProofs` | theorems about `Torrent`: types and slots; what is held, answers and refinement; tracker, lists and shutdown |
| `WordIndex` | words, files and the order of a letter's entries |
| `InvertedIndex` | what the map-reduce program promises, without threads |
| `MapReduce` | `main.cpp`: mapper and reducer threads |
| `MCMapReduce` | three words over a two-letter alphabet, for TLC |
| `MapReduceProofs` | theorems about `MapReduce`, its refinement of `InvertedIndex` included |
| `Router` | `router.c`: forwarding, ARP table, queue, ICMP errors |
| `MCRouter` | six routes, eight packets, two neighbours, for TLC |
| `RouterProofs` | theorems about `Router` |
| `TopicMatch` | `check_topic` and what patterns mean |
| `PubSub` | what the server promises, without descriptors and poll array |
| `Broker` | `server.cpp` and the side of `subscriber.cpp` that it sees |
| `Wire` | the stream of messages from the server to one subscriber |
| `BrokerProofs` | theorems about `Broker`, its refinement of `PubSub` included, and about `Wire` and `TopicMatch` |
| `MCBroker`, `MCWire` | topics of up to three levels, for TLC |
| `Shell` | `cmd.c` and the loop of `main.c`: processes, pipes, statuses |
| `ShellMeaning` | what a line means, by recursion over its tree |
| `ShellProofs` | theorems about `Shell` and what it comes back with |
| `MCShell` | nineteen lines, for TLC |
| `Allocator`, `MCAllocator` | `osmem.c`; four sizes for TLC |
| `AllocatorProofs` | theorems about `Allocator` |
| `HttpClient`, `MCHttpClient` | `client.cpp` and `helpers.cpp`; their sizes for TLC |
| `HttpProofs` | theorems about `HttpClient` |
| `Enigma`, `MCEnigma` | `enigma.asm`; two wirings for TLC |
| `EnigmaProofs` | theorems about `Enigma` |
| `Lambda`, `MCLambda` | `Lambda.hs`, `Binding.hs`, `main.hs`; terms for TLC |

Definitions whose names start with `Bad` or `Worse` are slips that the
definition after them could have. Nothing refers to them; they are there to show
that each property can fail when the code is wrong.

### Torrent

Rank 0 is the tracker (`phase`, `unreg`, `initSent`, `finished`, `swarm`,
`stop`); ranks `1..N` are clients. A client's download thread is at `pc[c]`, its
upload thread at `upPc[c]`; its ready queue has no state but `cur`, the slots in
use, and `rqOn`, whether it runs. The main thread only starts the three and,
after the join of the first two, stops the third: it is part of `Start` and
`ReadyStop`.

*Messages.* `MPI_Send` of these short messages is buffered: `requests`, `lists`,
`hashes` and `allow` are mailboxes. `MPI_Ssend` returns when the receiver has
taken the message: such a send is one action of both sides, and until it happens
the sender's `pc` does not move. Messages of one request that are sent back to
back to a receiver that waits for nothing else are one message. A hash stands
for its segment, so the hashes of a file are taken to be different.

*The unlocked assignment.* Line 90 copies a whole `File` into `own_files` while
the upload thread of the same rank may scan the map at 219-222. When the two
meet, `UploadScan` may give the right answer, may find nothing, or may end the
job (`aborted`). It is not allowed to answer that a segment is there that is
not. No other access of the two threads meets: `InsertBeforePublish` says so.

*What is assumed of the input* (`InputAssumption`, read from what the code does
with it): a client does not wish for a file it has, nor twice for one file, some
client has each wished file, and files have at least one hash. Names are
shorter than `MAX_FILENAME`. Branch 2 of the tracker (382-392) is left out:
nobody sends that type.

*Properties.*

- `GrantAccounting`: the slot counter of every ready queue equals the number of
  clients that hold a slot of its rank, on every path of the download loop.
- `ReplyProtocol`: the tracker decides by its list of peers whether hashes
  follow, the client by its place in the code; they always agree, and no
  message is left over.
- `HonestAnswer`: a positive answer is true when it is sent and when it is used.
- `PrefixHeld`: what a client holds is the prefix that its counter says, also
  while other threads read it; written files are complete.
- `NextInBounds`: the index into the list of clients is used only with lists
  it indexes, though updates replace them, and those lists name clients of the
  swarm, each once.
- `ShutdownOrder`: when an upload thread or a ready queue has been stopped, no
  download thread of any rank is left that could wait for it.
- `Refinement`: every behaviour is one of `Swarm`.
- `Completion`, under fairness: every client writes what it wishes and every
  thread returns, unless the race of line 90 ended the job.

*Fairness.* Every thread keeps running (weak fairness of its actions). The
tracker and the ready queues, which receive from any source, serve each source
in the end, because MPI matches the sends that wait for one receive in the
order in which they came. Upload threads need only take some request when there
is one: a slot holder cannot be overtaken for ever by the others.

*What `Completion` does not cover.* It is checked for a rank that is seed and
leecher at once beside one that wants both files, with one slot per rank. With three ranks that swap files and one slot per
rank (the code has two) TLC finds a schedule without end: each slot is held by a
client that asks for a segment the holder of the slot does not have yet, at the
very moment the others ask for the slot, and so on round the list. The denied
client goes on to the next one at once (line 161), so nothing in the code breaks
that rhythm. A run of such a configuration is therefore not among the passing
ones; whether the two slots of the code and more ranks have one as well is open.

### Map-reduce

A mapper is at `pop`, `scan` or `done`; a reducer is in loop `phase[r]` (0 before
the first) and there at `enter`, `claim`, `work` or `barrier`. `arrived[k]` is
who has come to barrier `k`: 0 is `map_finished`/`start_reducing`, 1
`agregation_finished`, 2 `map_sorted`, 3 the joins of `main`. `counter[k]` is the
`atomic_char` of loop `k`.

*The counters.* `fetch_add` on a signed `char` wraps. Each reducer that leaves a
loop adds one to a counter that is past `'z'` (122); when five have left, the
counter is 127 + 1 = -128, and a sixth reducer still in the loop goes on with
negative characters. In the first loop they match no word and the letters are
aggregated again, to the same result; in the second and third they index the
vectors of 26 elements with a negative number. The model stops there (`wild`),
because of what follows nothing can be said. `OneOwner` and `WildOnlyDrained`
say that this overflow is the only way to such an access: five reducers or fewer
are safe.

*Inputs.* File sizes order the queue; files of one size come in any order. The
words of a file are those left by `isalpha` and `tolower`, empty ones dropped.
Files that do not exist have been skipped, and keep their number. There is at
least one mapper and one reducer.

*Properties.* `WorkSplit` (no file is lost or read twice), `PhaseData` (a loop
reads only what is complete), `OneOwner`, `WildOnlyDrained`, `Refinement` (each
letter's file is written once, with its words, most files first, then
alphabetically) and, under fairness of every thread, `Completion`.

### Router

`main` receives one frame after the other and handles each to the end, so that
each kind of frame is one action: an IP packet is dropped (`Drop`), answered by
ICMP (`Return`), sent on (`Forward`) or queued while an ARP request is sent
(`Enqueue`); an ARP frame is a reply (`ReceiveReply`, `ReceiveAnnouncement`) or a
request (`ReceiveRequest`). The neighbours and the links are the environment: they
answer (`Answer`), lose (`Lose`), delay and reorder ARP messages, send replies
nobody asked for, and ask for any address. The test at 291 that is to drop frames
for others is never true, because no destination address equals both the
interface's and the broadcast address: every frame is handled.

*Data.* Addresses are numbers of `Bits` bits, masks lengths: read as integers in
network byte order, contiguous masks are ordered as their lengths on a little
endian machine too. A host's name stands for its IP and its MAC address. A header
is its TTL, the sum `rest` of its other words and its checksum, all in the byte
order in which line 225 reads them; `Word` is 65535 in the code.

*rtable[-1].* Before `get_best_route` has a match it compares with
`rtable[-1].mask`. With glibc on 64 bits that is the size field of the chunk that
`malloc` returned at 259, 0x187002; a mask of 16 bits or less is not above it.
`Before` is that length: such a match is never chosen unless a longer one was,
and then it is not longer. A default route is therefore never used. The memory
is not the program's to read, and `Before` is a constant of any value.

*Properties.*

- `OnePlace`: a good packet that was received is queued, forwarded or returned,
  in one place and once.
- `QueueAccounting`: the queue is as long as the number of replies still to come
  or lost, up to the unasked ones: no order of messages strands a packet.
- `LearnedRight`: the ARP table stays right though replies release packets of
  other hops; a wrong entry comes only from a host that asked for that address
  (175-182 store the address that is asked for, not the one that asks).
- `MisdirectedOnlyIf`: the only ways in which a packet goes to another host than
  its next hop. Lost messages alone are not among them.
- `LongestMatch`: longest-prefix match, with the first of equal ones, and what
  `rtable[-1]` does to it.
- `CheckKept`: the incremental checksum is the full one, but for one value:
  from 65534 it becomes 65535 where `checksum` gives 0, and the comparison at 200
  in the next router drops the packet.
- `Drained`, under fairness: as long as no ARP message is lost, the queue is
  emptied again and again.

*What the code says and does not do.* The comment at 192 promises that a packet
is sent to its next hop. The run `router_hop` shows it is not: two packets wait
for two hops, the second hop answers first, and the packet at the head of the
queue is sent there (103). Of a reply to a host the model keeps the MAC address
it tells, which is the one that was in the request (`Unset`), not the router's,
as 148 says: 171-173 exchange two fields of the request. That the target IP of
that reply is cut to 16 bits (185) is left out.

*Fairness.* A neighbour answers a request unless it is lost, and the loop takes
each frame in the end. `recv_from_any_link` prefers the lowest interface, so the
second holds because the packets are finitely many.

### Server and subscribers

`Broker` keeps the server as it is: the poll array with its `revents`
(`poll_fds`), how much of it is in use (`num_clients`), the round (`i`), the
descriptor of each name (`id_client`) and each name's list of subscriptions. A
round is one `Poll` and one action for each entry that has something to be read;
entries without are passed over. What other processes do may come between any
two of these actions: `Connect`, `SendId`, `Ask`, `Read`, `Leave`, `Datagram`,
`Console`.

*Connections.* `end[f]` says how the connection with descriptor `f` stands: open,
closed by the client (`fin`), reset (`rst`), or reset and the error already read
(`eof`). A client that leaves with messages unread resets the connection; so
does the kernel of one that has left when the first bytes of a message come.
`recv` then gives -1, which line 229 does not tell from a request: what the
buffer of the last round still holds is carried out (`Reset`), any request for all that is known. The
second `send` to a reset connection raises SIGPIPE, which nobody ignores:
`Publish` may end the server after any of its recipients (`killed`). Descriptors
are reused, the lowest first.

*Names.* Subscriptions outlive connections. A name that is on line is refused.
The first descriptor is never 0, so that 0 stands for no descriptor. That a new
client is silent for ever is left out by fairness.

*PubSub* promises the same by names: `Handle` (requests in the order made),
`Phantom` and `Die` (what a client that has left can still do), `Publish` (all
subscribers on line, at once). `Broker` implements it by a refinement mapping that reads
the queues by name.

*Matching.* `Matches` is the double loop of `check_topic`; `NextLevel` is its turn for
one level of the topic, with `strncmp` over the length of the subscription's level: "u" also fits "up", but not as the last
level, in which the newline of the typed line has become a 0 that is compared
too. `Aligned` is what the wildcards mean. `MatchRight` names the two ways in
which they differ.

*Framing.* `Wire` follows one subscriber and the bytes to it. `Start(m)` is where
message `m` begins; TCP delivers any number of bytes at a time (`Arrive`).
`ReadLength` is the `recv` of two bytes, which may give one, and `Decode` the sum
of two signed chars; `ReadBody` is one `recv` of `recv_all`. A negative length
becomes a huge `size_t` in `recv_all`. A byte counts to `2 * Half`. The specification is
`WireSpec`, with names of its own beside those of `Broker`.

*Properties.*

- `TableAgrees`: poll array and table of names speak of the same connections,
  whatever ends or begins in the middle of a round.
- `NeverWaits`: `revents` is true until the round comes to it, so `recv` blocks
  for no client but a new one.
- `Refinement`: every behaviour is one of `PubSub`.
- `Served`, under fairness: whatever can be read is read, though `Close` skips an
  entry.
- `MatchRight`; `CutRight`: messages are read where they were written, until a
  low byte of 128 or more or a length read by half; `AllRead`, under fairness:
  until then all of them are.

*Fairness.* The server runs on, and who connects sends its name; TCP delivers
what was written, and the subscriber reads on.

### Shell

`proc[p]` is a process: a shell with its stack of `parse_command` calls, a
program, or a zombie. A frame has the command, the place in the code and the
children. `level[x]` is how much is in pipe `x`; the ends of a pipe are `in`,
`out` and `held`, the ends that are open beside those (as `fd_pipe[IN]` is in the
first child, line 185). Every fork copies them all. A program is external: it
reads some, then writes some, then exits; `All` reads to the end of its input.

*Statuses.* A program's `ret` is what `waitpid` stores, 256 times the status.
`run_on_pipe` and `run_in_parallel` are `bool`; `exit` keeps one byte, so that a
child whose command came back with 256 ends as a success (`Exited`). A line that ends
with -100 leaves the shell; inside a pipe it is a child that leaves.

*Numbers.* A fork takes a process number that is free, a pipe a number of which no
end is open; if all of `Pids` or `Pipes` are taken, the process does not go on. The two
sets bound the processes and pipes of one moment, and for that are of any size.

*Meaning.* `Commands` are the lines and all commands in them, `Depth` ranks each above
its parts, and `Strings` are the values of variables (`CommandsAssumption`: `parse_line`
makes finite trees). `Meaning[c]` is a function from the variables before to what `c`
comes back with, from the meanings of its two parts (`Paired`), or at once (`Simple`).

*Properties.* `Result`: whatever the schedule, a line comes back with what
its tree means, and `Meaning` computes that from the tree alone; the statuses
that are lost in a child are lost in it too, because the code's statuses, not a
manual's, are its reference. `EndsClosed`: no process and no pipe end is left at
the prompt. `Completion`, under fairness of every process: the line ends,
unless a program writes into a full pipe that nobody has as its input, while the
left side of that pipe itself keeps it open for reading (`Stuck`: `yes | head`).

### Allocator

`h` is the heap: headers by address, `start`, `last`, the break and where the
next mapping goes, in units of 8 bytes. `held` gives each block that the program has
the size it asked for, and `gone` are the unmapped blocks. Each call is one action,
with `coalesce` as a walk over the whole list. `MinRest` and `Maps` are the two
differences between `os_malloc` and `os_calloc`. `Blocks` follows `next` from `start`,
at most as often as there are headers, and `Coalesced` joins the blocks it finds one after
the other: the loop at 102 reads `next` of a block after it has been joined, and that
is still what the walk before found. `sbrk` does not fail: the heap ends below `Wrap`,
where the mappings begin.

A call is modelled only while the allocations overlap nothing (`Safe`), because what the
program writes there is unknown. A call that reads an unmapped block ends the model too
(`faulted`): line 179 unmaps a block and leaves it in the list, so the next allocation
reads freed memory. TLC reaches both.

*The two slips.* `slipped` remembers that a call did one of two things that the
code does not look at (`Slips`): `coalesce` joined the block that `last` goes on pointing to
(104-107 do not move it), or the first request left less than a header of the
128 KiB (the difference at 152 is unsigned, and so at least 40). With either of the two taken
out of `Slips`, TLC finds the overlap. After a slip nothing is claimed, also when the next call seems
well: with the sizes of the run, `malloc` of 5, 5 and 104 bytes, freeing the second and the
third and `malloc` of 128 expand a block that is joined to the one before; two more
`malloc` of 5 split that one at the very place, and give it to the program a second time.

*Properties.* `Disjoint`: allocations overlap neither each other nor headers nor
the end of the heap, have at least the size asked for, and are neither marked free nor
unmapped while the program has them. `Linked`: the list ends, `last` is its end, each
block is the `prev` of its `next`, and those in the heap come in the order of their addresses
and, if held or free, end before the next.

### HTTP client

A command is `Request`, reads (`ReadHeader`, `ReadBody`) and `Finish`; the server
is external: it opens a session at a login, gives a token for an open session,
closes it at a logout, or refuses; it may drop the connection at any point. Sessions
are numbers, and an answer has `Header + Body` units that arrive one by one.
`json::parse` of anything but json throws, and nobody catches it: the client ends.

*Properties.* `Whole`: an answer is returned whole, or as far as the connection
brought it, however it is cut. `InStep`: cookie and token are of open sessions,
and there is no token without a cookie, although answers are lost, and although a
second login leaves the old token in place. This rests on the server, which
keeps a session until its logout. `Completion`, under fairness: a command comes
back or ends the client, unless the server answers without Content-Length and keeps the
connection, which the request asks it to.

### Enigma

The ten rows of `config` are functions on letters. `Set` is one call of
`rotate_x_positions` by `check_enigma.c`, first the keys, then the offsets; then `Encrypt` is one turn of the
loop: `Steps` says which rotors step (the chain `rotor3_ready`, `rotor2_ready`,
`rotor1_ready`), `Encrypted` is the path of the letter. Rows 2r and 2r + 1 belong
to rotor r, 6 and 7 to the reflector, 8 and 9 to the plugboard.

*Properties.* `Positions`: at every moment each row is its wiring turned by key
and offset, though the rows are turned in place letter by letter. `Decodes`: a
machine in the same position turns every letter back.

### Lambda interpreter

Terms are tuples. `reduce`, `newVar`, `changeVar` and the two strategies (`Step`)
are operators; typed lines are actions (`Bind`, `Restore`, `Eval`), and so is each
step of a reduction. `changeVar` renames bound occurrences too, and `newVar` looks
at the free variables of one body: a renaming may catch a variable, or come
back to a name it had, and then never end (`hangs`). A macro bound to a term with
macros in it is expanded once, and `isNormalForm` has no case for the rest: the
interpreter ends (`died`). `main.hs` reduces by the normal strategy; the
applicative one is checked in the same way.

*Property.* `Sound`: each step is one step of beta reduction on nameless (de
Bruijn) terms, and no renaming hangs, as long as the name that `newVar` gives for
a body is new to the whole term. Without that premise TLC finds both failures.

## Runs

| Run | Instance | Shows |
|---|---|---|
| `torrent_chain` | seed of both files, a seed of one that wants the other, a rank that wants both; 1 slot, update every 2; fair | `Refinement`, `Completion`, `ReplyProtocol`, `HonestAnswer`, `PrefixHeld`, `InsertBeforePublish`, `ShutdownOrder`, `GrantAccounting`, `NextInBounds`, with the race of line 90 |
| `mapreduce_two` | 2 mappers, 3 files, 3 words, 2 letters, 2 reducers for a counter that stands 2; fair | `Refinement`, `Completion`, `WorkSplit`, `PhaseData` |
| `mapreduce_overflow` | the same with 2 files and 4 reducers | `OneOwner`, `WildOnlyDrained` |
| `router_all` | 2 neighbours, 4 of 8 packets, 6 routes, 1 loss, 1 unasked reply, 1 request for another host; fair | `OnePlace`, `QueueAccounting`, `LearnedRight`, `MisdirectedOnlyIf`, `LongestMatch`, `CheckKept`, `Drained` |
| `router_hop` | 2 neighbours, 4 packets, no loss | `SentToNextHop` is violated |
| `broker_two` | 2 names, 3 connections, 2 requests, 1 datagram, the console; fair | `Refinement`, `Served`, `TableAgrees`, `NeverWaits` |
| `wire_two` | 84 subscriptions, 14 topics, 2 messages of 4 sizes, bytes of 4 values; fair | `MatchRight`, `CutRight`, `AllRead` |
| `shell_lines` | 3 of 19 lines, 8 processes, 2 pipes that hold 1; fair | `Result`, `EndsClosed`, `Completion` |
| `allocator_calls` | 7 calls, 4 sizes, a threshold of 16 units, a page of 12, a header of 4 | `Disjoint`, `Linked` |
| `http_three` | 3 sessions, answers of 2 + 2 units; fair | `Whole`, `InStep`, `Completion` |
| `enigma_letters` | 4 letters, 2 wirings, 64 settings of key, offset and notches, texts of 6 and 1 | `Positions`, `Decodes` |
| `lambda_terms` | all terms of depth 3 over 2 names, 7 more; 4 steps | `Sound` |

Deadlock is checked where the program always ends in a halting step (torrent,
map-reduce) and for none of the others, which may stop: the packets, requests or
calls are used up, the server or client has ended, the text is at its end.
`TypeOK` is proved in each of the six modules that state it, and no run lists it.
`Wire`, `Shell`, `Allocator` and `Lambda` state none: a value of a wrong type there
is an evaluation error, or breaks the properties that are listed.

*Why the bounds are enough.* The state of the torrent is finite without any
constraint: nothing is counted that does not end. Two segments with an update
every two make the swarm update happen before the end, at the end and (after a
failed request at 0) at the beginning of a download; with one slot two clients
that meet make a denial happen. `torrent_chain` has a file with two possible sources, one of which
gets it only later, and a client that becomes a source while it still downloads.
In the map-reduce runs the alphabet has two letters and the range of `char` ends
two above the last: what matters is how many reducers leave before the counter
wraps, which is 2 there and 5 in the code. The words are chosen so that the order
by number of files differs from the alphabetical one.
In the router's runs the packets are two for each of two hops, two with the
checksum at its edge, and one for each other outcome; four in any order fill the
queue with packets of one or both hops, with one loss (`MaxLost`) and one unasked
reply between any two steps. The table has a default and a short route that
`rtable[-1]` hides, equal prefixes of equal and different lengths. `Bits` is 4 and
`Word` 7, so that every sum wraps.
For the server, three connections of two names make a name come back, a
descriptor be reused and a connection end between two others of one round; one
datagram to two recipients can meet none, one or two that have left. In `wire_two`
`Half` is 2: the four sizes have low bytes 1, 3, 0 and 2, of which two are negative,
with and without a high byte; two messages make the second suffer from the first. In
`shell_lines` eight processes are enough for two nested pipes after a line that is
over, a pipe of one unit is full at once, and three lines make statuses,
variables and descriptors pass from one to the next. Seven calls reach
every pair of splitting, joining, growing and mapping; six are the least that
reach the slip of `last`. In `http_three` two units for a part make cuts inside the
header, at its end and inside the body, and the third session a login over a
stale token. Four letters let keys wrap and notches meet in the
double step. The depth of the terms lets a binder lie within and beside a redex.

## What is proved

`TorrentProofs`, for every `N`, every set of files, segments and wishes that
satisfy the two assumptions, any number of slots and any update period:

- `TypeCorrect`: `Spec => []TypeOK`. `TypeOK` is not inductive by itself: that
  `next % size` is defined needs a list that is never empty, so `BaseInv` adds
  that every wished file keeps the seed it has (`SeedKnown`) from the moment all
  registrations are in (`Registration`), and that an upload thread's client is
  the one that waits for it (`UploadLink`).
- `GrantTheorem`: `Spec => []GrantAccounting`, by the cardinality of the set of
  slot holders, one step for each action that changes a holder.

Its second part goes from `SafeInv`, which adds to `BaseInv` what each client holds
(`HeldInv`) and that a client in a transfer has a peer (`PeerSet`):

- `PrefixTheorem`: `PrefixHeld`. Its strengthening says of every wish that is left
  that nothing of it is held, that it was not written and that it is not wished
  again, so that the next download starts from nothing and line 90, which
  overwrites the entry, loses nothing.
- `HonestTheorem`: `HonestAnswer`. Entries only grow (`HaveGrows`), so that an
  answer stays true while it travels; and it never comes from the client itself,
  because a client asks for the first segment that it lacks. The two facts need
  each other: `PrefixHeld` is kept because a segment that arrives is one of the
  file's, which `HonestAnswer` says.
- `RefinementTheorem`: `Refinement`. Storing a segment is `Copy`, writing a file
  `WriteOut`, asking a ready queue `TurnTo`; every other step is a stutter, the
  overwriting of an entry included.

Its third part goes from `ProtoInv` beside `SafeInv`: what each client has asked for and what is on its way
to it (`ReplyOf`), that every list it has or is sent is a copy of the tracker's
(`ListsOf`, `Copy`; copies stay right because the tracker's lists only grow), that
a peer is somebody who has asked for the file and a seed somebody who had it at
the start (`SwarmOf`), and whose last message has been counted (`Order`,
`Settled`):

- `ReplyTheorem`: `ReplyProtocol`. The tracker's peer list and the client's place
  agree since no later wish is for a file of which the client is a peer.
- `NextTheorem`: `NextInBounds`. Nobody is on a list twice because seeds and
  peers are disjoint: a seed has the file among those it had at the start.
- `InsertTheorem`: `InsertBeforePublish`.
- `ShutdownTheorem`: `ShutdownOrder`. The counter of the Transfer loop is the
  number of clients that are `Settled`; at `N`, by cardinality, all of them are.

`MapReduceProofs`, for any numbers of mappers, reducers, files, words and
letters and any range of `char`:

- `TypeCorrect`, from `BaseInv`, which adds where each thread stands at each
  barrier (`Barriers`) and that a mapper leaves only an empty queue.
- `SplitTheorem`: `WorkSplit`, inductive beside `BaseInv`.
- `PhaseTheorem`: `PhaseData`. The induction carries `AggregationCovers` (every
  letter is aggregated, in work or still ahead of the counter) and
  `AggregationSound` (what is aggregated so far is right).
- `OwnerTheorem`: `OneOwner`, from `Counted` (until the overflow a counter past
  `'z'` counts the reducers that left) and `Taken` (letters in work lie below
  the counter).
- `WildTheorem`: `WildOnlyDrained`, and from it `FewReducers`: with at most
  `CharMax - CharZ` reducers the program never goes wild.
- `RefinementTheorem`: `Refinement`, from `FileInv` beside the invariant of
  `PhaseTheorem`: a letter that is sorted, or being written, has entries that are
  sorted and complete. Writing a letter's file is `Write` of `InvertedIndex`, every
  other step a stutter, the aggregation that is done again after an overflow
  included. `SortEntries` chooses a sequence of the entries in the order of `Before`;
  that there is one follows from the finiteness of `Words`: the place of an entry is the
  number of those before it (`ListExists`).
- `EveryFileTheorem`: at the end, if no counter has overflowed, the file of every
  letter is written and right. `WritingCovers` says so of the third loop on its way: a letter is
  written, in work or ahead of the counter.

`RouterProofs`, for any hosts, routing table, finite set of packets, word size and
bounds that satisfy `RouterAssumption`:

- `TypeCorrect`, from `BaseInv`, which adds that a packet with an ARP message
  under way, in the queue or sent is one that passed the tests of `ip_request`
  (`InFlight`).
- `OnePlaceTheorem`: `OnePlace`, from `PlaceInv`, in which injections stand for the
  cardinalities.
- `QueueTheorem`: `QueueAccounting`, by counting the messages under way.
- `LearnedTheorem`: `LearnedRight`.
- `MisdirectedTheorem`: `MisdirectedOnlyIf`, from `SameHop`: until it is disturbed,
  the queue waits for one hop, and every reply to come is from it. That the queue
  is not empty when such a reply comes is `QueueAccounting`.
- `RouteTheorem`: `LongestMatch`, from `ScanBest`, what the loop has found after
  any number of entries.
- `CheckTheorem`: `CheckKept`, from `UpdateCorrect`, by division with remainder.

`Scan` is a recursive function. That it satisfies its recursion (`ScanEquation`)
and what it computes (`ScanBest`) are proved without an induction theorem: a set
of positive integers up to `n` has a least element (`LeastElement`, from the
library's theorems on finite sets), and the least counterexample refutes itself.

`BrokerProofs`, for any finite set of names and any topics, patterns and bounds:

- `TypeCorrect`, `TablesTheorem` and `NeverWaitsTheorem`: `TypeOK`, `TableAgrees` and
  `NeverWaits`, inductive with `Fixed` (the first three entries stay where they are)
  and `Held` (a descriptor in use has an owner, and messages wait on those in
  use only). That `accept` finds a free entry is a pigeonhole argument (`Room`).
- `RefinementTheorem`: `Refinement`, by one lemma for each action: reading a request
  is `Handle`, what is left in a buffer is `Phantom`, a datagram is `Publish` to all
  who are on line at that moment, a SIGPIPE in the middle of it is `Die`.

Its second part is about `Wire` and `TopicMatch`, for any subscriptions and topics over any
levels, any `Half` and any sizes that fit the buffer:

- `CutTheorem`: `CutRight`, from `StreamInv`: what has been read ends where a message
  begins, and what is still to be read is the rest of that message (`InStep`), as long
  as all before were right. That `Start` satisfies its recursion, grows, and is not
  changed by what is sent later is proved by least counterexample
  (`LeastElement`).
- `AgreesTheorem`: `Agrees`, for a subscription and a topic of any length, and
  `MatchTheorem`: `MatchRight`, which follows. `Loop` says what `check_topic` knows
  after each level of the topic: the levels of the subscription used up cover
  those read (`Covers`); if `star` is set they end in wildcards after a `*` (`Trailing`);
  they cover no fewer, unless the level looked for does not fit there
  (`Nearest`); and, if it is not set, every way to lay the whole subscription beside the topic
  passes here (`Forced`), or the second of the two exceptions holds (`Excused`).

`ShellProofs`, for any lines, however nested, any numbers of processes and pipes, and
programs that read and write what they like, from `IInv`: the processes that exist
are a forest below the shell (`Forest`: the children that frames wait for are
alive, each has one parent, and ranks that grow from parent to child say there
is no cycle); every stack is one that `parse_command` builds (`StackOK`); and which ends
each process holds (`EndsOK`).

- `EndsTheorem`: `EndsClosed`. At the prompt the shell waits for nobody, so the forest
  is the shell alone (`ForestRoot`: of the others one has least rank, and its parent has
  less), and the shell holds no end but between the two forks of a pipe. Each fork
  adds a leaf (`ForestFork`), and a child that is waited for is one: it has
  ended, so its frames wait for nobody (`ForestReap`).
- `ReaderTheorem`: `ReaderKept`. Whoever has a pipe for its output holds the end
  to read from too, so that no `write` meets SIGPIPE, which is why `Write` has no such
  outcome; the cost is `Stuck`.
- `MeaningEquation`: there is a function that satisfies the recursion of `Meaning`. Up to
  any depth there is one (`UpToExists`), and two of them agree where both are defined
  (`UpToAgree`: a least deep command at which they differ would have parts at which they
  do).
- `ResultTheorem`: `Result`, from `MInv`. From the stack, the variables and the last
  status of a process follows what its first call will come back with (`Comes`: each
  call comes back with what the one it made decides, `After`, and the innermost with what
  its place in the code does, `Here`); no step of its own changes that (`ComesPut`,
  `ComesPush`, `ComesPop`, `ComesEnd`), and none of another process. A process between its
  last fork and the end of its second `wait` is owed the status that decides by its last
  child (`Owed`, `Status`), and the child, whatever it runs, forks or waits for, goes on
  owing that until it is a zombie with it (`Owes`). That a child is no one else's, so that
  nobody else reaps it, is the forest of `IInv` (`OthersThread`).

`AllocatorProofs`, for any sizes that satisfy `SizesAssumption`, any requests and any
number of calls, from `AllocatorInv`: until a call slips there is a sequence of blocks that
is the list read both ways (`Chained`), whose last is `last`, with the following facts.

- `Placed`: in the heap, and among the mappings, blocks come in the order of their
  addresses, with room for each header before the next block, and a block that is held or
  free (`Used`) ends there too. The rest that the first call preallocates is
  neither: its size is a header more than there is room for, and it can become wrong by no
  call because nobody can free it.
- `Owned`: what the program has is on the list, not free, and has the size asked for.
- An unmapped block is a mapping that nobody holds; a new mapping is above all of them.

That `Blocks` gives this sequence is proved from its recursion (`BlocksOf`), and that
joining any number of blocks keeps all this by least counterexample (`JoinGood`,
`CoalescedGood`): a joined block has the two sizes without the header between them, so that it
ends where the second did or earlier; whether `last` is still on the list is what the first slip
asks. `SplitGood`, `ReusedGood`, `ExpandGood`, `MappedGood`,
`AppendedGood` and `PreallocatedGood` are the branches of `Allocated`, `FreeGood` is `os_free`.

- `DisjointTheorem`: `Disjoint`. Two blocks on one side of `Wrap` are in order, two on
  different sides have `Wrap` between them (`Apart`, `WholeSafe`).
- `LinkedTheorem`: `Linked`.

`HttpProofs`, for any sizes of header and body and any number of logins:
`TypeCorrect`, `WholeTheorem` (`Whole`, from `Waiting`: the second loop waits for all
of the answer, or everything that came was read) and `InStepTheorem` (`InStep`, from
`Expected`: what an answer on its way will do to the credentials).

`EnigmaProofs`, for any number of letters and any wirings that satisfy
`EnigmaAssumption`: `TypeCorrect`, `PositionsTheorem` (`Positions`: a turn of a row
one way or the other is one step of its position, `LeftOnce`, `LeftRight`) and
`DecodesTheorem` (`Decodes`: `traverse` inwards and outwards are inverse, `InOut`, and
the reflector is an involution, so that the whole path is, `Involution`).

*What the proofs assume* beyond what the runs instantiate: of the constants only the
named assumptions of the modules. For the proofs were added that `Words` is finite,
that `Buffer` is a number, that a prefix relation relates levels, that
1 is a process number and 0, which stands for no pipe, not a pipe, and that the trees
of the shell's commands are finite, with operands of the kinds their operators take, and of
the allocator that requests are positive, that a header is of 40 bytes at most (which the
tests at 152 and 202 take for granted) and a page not more than the threshold, and that
the threshold is below `Wrap`. The proofs use of a
`CHOOSE` (a free number, a sorted sequence) only that something with the property exists
and that what is chosen has it, and that equal sets give equal choices.

*Only model-checked.* Liveness (`Completion` of the four programs that have one,
`Drained`, `Served`, `AllRead`), which the prover does not reach, and `Sound` of the
lambda interpreter, whose terms are walked by recursive operators.

## What is not modelled

- *Query System for Databases*: pure functions on immutable maps of strings. No
  state, no order of events; a test with one table reaches what a model would.
- *Linear Regression*, *DroneGame*: floating-point arithmetic and rendering.
- `HTTP Client/json.h`: nlohmann's library, 49532 lines of vendored code, nine tenths of all
  the lines in the repository. The share of the repository that the modules cover
  is therefore small whatever is modelled; what is left without that file, the two
  floating-point programs and the query system are some 3300 lines.
- `Lambda Interpretor/Parser.hs`: text processing. `Mini Cshell` has no
  parser in the repository.
- Of the modelled programs: reading input files and arguments, failures of thread
  creation, of MPI, `fork`, `pipe`, `sbrk` and `mmap`, names longer than the
  buffers, the text of the output files, printed payloads, ICMP and HTTP
  messages, socket buffers that are full, more than 1000 clients, the console of the
  server read by 99 bytes at a time, an empty text for Enigma.

## Running

    tlc -config MCTorrent_chain.cfg MCTorrent
    tlapm MapReduceProofs.tla
