# skstream in TLA+

skstream is a C++ library that wraps sockets in `std::iostream` classes: TCP,
UDP, raw and unix streams, listening servers, a `select()` poller and an address
resolver, with two programs (`tools/cat.cpp`, `ping/ping.cpp`) that use it.  This
directory models the library in TLA+, checks the models with TLC on small
instances and proves the most important properties with TLAPS for every value of
the constants.  File and line references are to the repository.

The library is single threaded and keeps no files.  What makes it hard is that
it shares two tables with everybody else: descriptor numbers, which the kernel
hands out again as soon as they are closed, and heap lists from `getaddrinfo`.
Between any two calls, and during those that wait, the kernel decides connects,
delivers data and connections, and the rest of the program opens and closes
descriptors.

## 1. Inventory

| Component | State | Operations | Interacts with |
|---|---|---|---|
| `basic_socket` (sksocket.cpp/.h) | `LastError` | `is_open`, `setLastError`, `copyLastError` | base of all; virtual `getSocket()` |
| `basic_address`, `tcp_address`, `ip_datagram_address` (skaddress) | `_addrlist` | `resolveConnector`, `resolveListener`, `takeAddressInfo`, destructor | lives inside one call of an `open`, which may take the list over |
| `socketbuf`, `stream_socketbuf` (skstream.cpp 141-367) | `_socket`, put and get area, `Timeout`, two timeouts | `overflow`, `underflow`, `sync`, `setbuf`, the setters | called by iostreams, calls `select`, `send`, `recv` |
| `basic_socket_stream` (530-579) | the iostate, a `socketbuf` | `close`, `shutdown`, `fail` | owns the buffer; `fail` reads its flag |
| `stream_socket_stream`, `tcp_socket_stream` (614-1013) | connecting socket, cursor and list of addresses | three `open`, `open_next`, `isReady`, `close`, `setSocket`, destructors | hands a connected socket to the buffer |
| `dgram_socketbuf`, `dgram_socket_stream`, `udp_socket_stream`, `raw_socket_stream` (233-252, 370-522, 1019-1102, 1277-1305) | the two areas, `out_peer`, `in_peer` | `overflow`, `underflow`, `setTarget`, `setOutpeer`, `open`, `setProtocol`, `setBroadcast` | one datagram per `sendto`, `recvfrom` |
| `unix_socket_stream` (1114-1268) | connecting socket | `open`, `isReady`, `close`, `setSocket`, destructor | as `tcp_socket_stream`, without a list |
| `basic_socket_server`, `ip_`, `tcp_`, `udp_`, `unix_socket_server` (skserver.cpp) | `_socket`, flags | `open`, `accept`, `can_accept`, `close`, `shutdown` | gives descriptors away to its caller |
| `basic_socket_poll` (skpoll.cpp) | three `fd_set`s, `maxfd_` | `poll`, `isReady` | asks every object for its socket, twice, at different times |
| `cat` (tools/cat.cpp) | loop counter | the only walk over the address list in the tree, a relay loop | `tcp_socket_stream` |
| `ping` (ping/ping.cpp) | counters, statistics, a signal flag | send, receive, print | `raw_socket_stream` |

What is hard, and what makes each part correct:

- **connection life cycle**: interleaving with the kernel; two sockets and a
  list that must each be released once on every path.  Correct when every number
  held is the stream's own or one it was given, none is lost, the cursor is on a
  live list, the answer of a call agrees with the state it leaves.
- **buffers**: boundaries of the areas, partial and failing sends, timeouts and
  retries.  Correct when each direction is an order-preserving channel.
- **datagrams**: peers that change while bytes are buffered, datagrams that do not
  fit.  Correct when a program that flushes and asks for errors before it sets
  another peer has its bytes reach the one they were written for, and `in_peer` is
  the sender of what is being read.
- **servers**: a walk over addresses that builds each socket in place.  Correct
  when the object's number is its own socket, none is lost, and what `accept`
  gave away is left alone.
- **poll**: the sets are read by numbers that may have changed hands.  Correct
  when an object that kept its socket gets exactly what was found for it.
- **cat, ping**: both wait in calls that look at one thing only.  Correct when they
  end, adopt no dead socket, leave nothing read and not shown, and count what was
  sent and received.

## 2. Modules

| Module | Models | Checked by | Proofs |
|---|---|---|---|
| `StreamSocketStream` | the base class `stream_socket_stream` and the kernel's descriptor table: what closing, handing over and blocking modes do | through the two below | |
| `TcpSocketStream` | `tcp_socket_stream`, with the address lists | `MCTcpSocketStream` | `TcpSocketStream_proofs` |
| `UnixSocketStream` | `unix_socket_stream`, its destructors one by one | `MCUnixSocketStream` | `UnixSocketStream_proofs` |
| `SkCat` | `main()` of `cat` up to its decision, as a client of `TcpSocketStream` | `MCSkCat` | `SkCat_proofs` |
| `ByteChannel` | what a direction of a stream promises (abstract) | through `StreamSocketbuf` and `SkRelay` | |
| `StreamSocketbuf` | `stream_socketbuf` and the part of iostreams and `basic_socket_stream` that drives it | `MCStreamSocketbuf` | `StreamSocketbuf_proofs` |
| `SkRelay` | the loop of `cat` between terminal and connection, as a client of `StreamSocketbuf` | `MCSkRelay` | `StreamSocketbuf_proofs`, last part |
| `DgramSocketStream` | `dgram_socketbuf` with the udp and raw streams | `MCDgramSocketStream` | `DgramSocketStream_proofs` |
| `SkPing` | `ping`, as a client of `DgramSocketStream`, with a network | `MCSkPing` | `SkPing_proofs` |
| `SocketServer` | `basic_socket_server` and its descendants | `MCSocketServer` | `SocketServer_proofs` |
| `SkPoll` | `basic_socket_poll` and the objects it polls | `MCSkPoll` | `SkPoll_proofs` |

`TcpSocketStream` and `UnixSocketStream` EXTEND `StreamSocketStream`.  `SkCat`,
`SkRelay` and `SkPing` EXTEND the module of the stream they use and take its
actions at the points of their own program counter.  `StreamSocketbuf`
instantiates `ByteChannel` twice, once for each direction.  The MC modules only add
symmetry sets; the constants are in the `.cfg` files.

### StreamSocketStream and TcpSocketStream

`sockbufSocket` is `_sockbuf._socket`, `connectingSocket`, `connectingAddress` and
`connectingAddrlist` the members of the same name; a pointer into a list is a
record of the list and an index.  `desc` is the kernel's table: who owns each
number, what became of its connect, whether it is non-blocking.  `heap` holds the
length of each list and 0 once it is freed.  `result` is the last answer.

A method is one action with all it does: `OpenHost` closes, frees, resolves and
connects in one step.  The intermediate attempts of a walk over addresses appear
only in what they leave behind (`LastError`, the position reached).  The timed
`open` is two actions, because it waits in the middle.  A socket that an attempt
created and that failed to connect is closed within the action, and that
`::close()` is taken to succeed; the failing `::close()` that `CloseMayFail`
stands for is on the sockets the object holds, and on the connected socket whose
`reset_nonblock` fails (`OpenAbandons`, `Abandons`, `OpenNextAbandons`).  In the model
such a descriptor stays open, which is how the code treats it; Linux in fact
releases the number even then.  No run lets `::close()` fail; the theorems say what
holds when it does.

`setSocket()` closes nothing.  A socket it puts into the buffer is `given`, one it
takes out becomes the program's, which may have its number; both may happen
while a connect is pending, and the stream then holds two sockets.
`OwnsItsDescriptors` is about its own and the given ones, `NoDescriptorLeak` about
those it has made itself, and by every method but this one.

`ResultMatchesPhase` says of each answer what a caller can conclude from it.
`open_next()` answers 1 for a connect in progress and also, at skstream.cpp:900, for
a connection it has had to close: the property wants the stream to hold no
socket of its own in that case, so that `is_open()` tells the two apart.  Its -1 is
given to a caller that has nothing pending or no list left.  The timed `open()`
answers -1 whatever happens, so that nothing follows from it but that no connect
is pending.

The kernel completes, refuses and loses connections at any time.  SO_ERROR is a
state of the descriptor: `refused` until it is read, `dead` after.  Windows
branches are not modelled.

### UnixSocketStream

The same members without a list.  `open(address, nonblock)` closes first, unless the
name does not fit into `sun_path`; `isReady` takes the connecting socket out of its
place before it knows whether it can be used.  `~unix_socket_stream`,
`~stream_socket_stream` and the destructor of the buffer are three actions, and
`destroyed` says which has run: the first two close the same connecting socket, and
another thread of the program may open and close descriptors in between.  The
kernel may answer a connect with "in progress", as POSIX allows and the code
expects; a Linux kernel says EAGAIN instead, which is `OpenFails` here.

### SkCat and SkRelay

In `SkCat`, `pc` follows `main()` until it says that the connection is complete or
gives up; `tries` is the loop counter (4 rounds in the source and in the
instances), `asked` the `-n` option.

`SkRelay` is the rest.  `Readable` is what `select()` finds: the kernel's queues, not
the get area and not what stdio has buffered.  stdin is a number of finished lines
(`lines`), those that stdio has read ahead (`ahead`) and perhaps the beginning of
another (`begun`); `fgets()` takes a line, answers that there is no more, or waits,
which is the loop with no step enabled (`InFgets`).  `InSend` is the loop in a `::send()` of
`overflow()` or `sync()`.  A buffer without a socket, which is how `cat` goes on with a
connect that is still pending, is one of the initial states.  `line` counts the characters that `<<` has
still to put, and `copy()` takes `Chunk` bytes of the get area in each round.
Outside the model: output to the terminal, and the NUL bytes that end a piece of it
early (cat.cpp:44-45).

### StreamSocketbuf and ByteChannel

The n-th byte written is the number n, and so is the n-th byte the peer sends;
`put` and `get` are the contents of the areas, `wire` what the kernel has taken,
`taken` what the program has read.  iostreams put and get one byte at a time and
do nothing unless `good()`, and that is how `PutByte`, `GetByte`, `PeekByte` and
`Flush` call `overflow` and `underflow`.  `cause` records why the last of these
returned `eof()`.  With `PartialSends` a `send()` may take any part of what it is
given.  `ByteChannel` accepts bytes and delivers any number of the oldest ones;
`Output` maps it to the put side, `Input` to the get side with the kernel's queue.

### DgramSocketStream

A byte written carries its number and the peer that was set then; a byte received
its place in a numbered datagram.  `sock` tells the socket `setTarget` makes from
the class's own (bound or raw).  `told` is history: what the program's last
calls have told it since it wrote: it is `clean` after a `flush()` once `fail()` and
`timeout()` both say no.  `fail()` alone is not enough, for on a timeout it clears
the state it denies.  `blindly` is set once the program has changed the peer while
`told` was not `clean`.
`::close()` is assumed to succeed here.

### SkPing

`pc` follows `ping()`, `send_request` and `recv_reply`; `moved` counts the bytes of
the request or reply in progress, since `write()` and `read()` move one byte at a
time through the areas.  `echoReq` is the static request with its checksum, over
words of `Word` values.  The network is that of `DgramSocketStream`: datagrams of any
length from anyone at any time; `surplus` is history and says that it has brought
more than one answer for a request.  The statistics per host are one counter.
`signal()` restarts the call that it interrupts, so that `CTLRC` sets the flag and
wakes nobody.

### SocketServer

`desc` holds owner, type, listening state and waiting connections of each number.
`Open(attempts)` is the whole of `open`: close, resolve, the walk, `listen`.  `Lost`
is the set of sockets a walk has left open because `close()` failed.  `accept()`
that has to wait is two actions.  `shutdown()` on a listening socket stops it
listening, as on Linux.  The same action stands for the tcp, udp and unix variants:
they differ in whether they listen and in the number of attempts.

### SkPoll

Objects get the lowest free number, as from the kernel.  `seen` records what each
object's socket was ready for when `poll()` ran and `moved` who has changed sockets
since; both are history.  `FD_SETSIZE` is not modelled: a number beyond it is
undefined behaviour in `FD_SET`.

## 3. Runs

| Run | Instance | Shows |
|---|---|---|
| `tcp` | 3 descriptors, 2 lists of up to 3 addresses, close succeeds | ownership, no leak but by `setSocket`, cursor on a live list, blocking modes, answers that agree with the state, the list freed when dropped, progress of `open_next` |
| `tcp_adopts_failed` | the same | expected violation: see section 6 |
| `cat` | 2 descriptors, 2 lists of up to 5 addresses, the 4 rounds of the source | the client never adopts a dead socket, gives up clean, decides |
| `relay` | areas of 2 bytes, chunks of 1, 2 lines of up to 3 bytes, 3 bytes from the peer, whole sends | nothing read is left behind a wait, the lines reach the connection as through a `ByteChannel`, the loop ends when the peer or the terminal closes, unless it stays in a `::send()` or an `fgets()` |
| `stream` | areas of 2 bytes, 5 bytes out, 3 in, partial sends | no byte lost or sent twice, the input as through a `ByteChannel`, and `fail()` never denies an error of a transfer |
| `stream_reorder` | areas of 2 bytes, 4 bytes out, partial sends | expected violation |
| `dgram` | 2 peers, areas of 2 bytes, 3 bytes out, 2 datagrams of 0 to 3 bytes in | the bytes written leave once and in order; those of a program that asks both `fail()` and `timeout()` before it sets another peer reach the one they were written for; the unread bytes are those of the datagram `in_peer` sent |
| `server` | 3 descriptors, 2 addresses, backlog 2, close succeeds | ownership, no leak, `open`'s answers, accepted connections left alone |
| `poll` | 2 objects, 2 descriptors, 2 events | exact reports to objects that kept their sockets |
| `unix` | 3 descriptors, close succeeds | no leak but by `setSocket`, half-way through the destructors either, no dead socket adopted, and one place only that can close another thread's descriptor |
| `ping` | 2 requests of 2 bytes, replies of 3, 3 datagrams of up to 6 bytes | whole requests in every datagram, a checksum that verifies, no more replies counted than requests |
| `ping_timeout` | 2 requests, 3 datagrams of up to 3 bytes | expected violation |

Bounds.  Two descriptors per object are all an object holds at once; the third is
there to be taken by the rest of the program, so that reuse of a number happens.
Lists of three entries make a walk begin, go on, skip and end; five are one more
than `cat` ever reaches in its rounds.  Areas of
two bytes are the smallest in which a partial send leaves a remainder and a refill
brings more than is read; three bytes written fill the area and overflow it.
A line of `relay` is longer than the put area, and what the get area holds takes two
chunks, so that both loops inside the loop go round.
Datagrams of 0 to 3 bytes are empty, fit and do not fit.  A request of `ping` is
shorter than a reply, as 56 bytes are than 80, so that an echo is not enough for a
reply; 6 bytes are two replies in one datagram; and the put area holds all the
program writes, as the 32768 bytes of the source do for 585 requests.  A word of the checksum has 8
values instead of 2^16: folding twice is enough for any base as long as there are no
more words than that, and the sums of the six words carry in this one, too.  Two polled objects are
enough for one to get the other's number; the third event set would repeat the
others, which the code treats alike.  Descriptors, lists, peers, objects and
events are interchangeable and used as symmetry sets where only safety is
checked; the runs that check liveness use none.

`CHECK_DEADLOCK FALSE` is used only where the system may stop: a destroyed
datagram stream does nothing more.

Fairness.  `CatFairSpec` has weak fairness of the program's own
steps, because `isReady(1000)` returns after at most a second and the other calls
of the loop do not wait.  Nothing is assumed of the kernel; `CatDecides` holds even
if no connect is ever decided.  `RelayFairSpec` has weak fairness of the program
outside `::send()`: the socket blocks and `cat` sets no write timeout
(skstream.cpp:289, cat.cpp:159), so that a send to a peer that has stopped reading
need never return.  Nothing is assumed of the user or the peer, but that the bounds
make what they send finite.  `RelayEnds` says that the loop ends once either side
has closed, unless it stays for ever in that `::send()` or in the `fgets()` of a line that
is never finished; each exception is needed, and the two are the only ones.
`relay` has no timeouts and no `clear()`, as `cat` has none; retries are in `stream`.
`PingFairSpec` grants `ping` all it could hope for: its program goes on
as long as it can, its target answers every datagram, and someone presses
Ctrl+C; that `recvfrom()` fails is not assumed.  The counterexample of
`ping_timeout` is a behaviour under these assumptions.

Every property of a passing run has a mutant: a definition next to the one it
replaces, marked "Mutant", with a plausible slip of that code, under which TLC
finds the property violated.

## 4. Proofs

All theorems are about the specifications as they stand, for any constants that
meet the named assumptions (sizes at least 1, null values outside their sets).
The type invariant of every module with a `_proofs` companion is proved there
(`SkRelay` is given none of its own).  `SkCat` and `SkPing`
are shown to use their stream by its methods only, so that what is proved of every
use of a stream holds of theirs; `SkRelay` does so but for one step, see below.

- `TcpSocketStream_proofs`.  `CursorTheorem`: `PendingCursorLive`.
  `OwnershipTheorem`: `OwnsItsDescriptors`.  `LeakTheorem` and `ModesTheorem`:
  `NoDescriptorLeak` and `BlockingModes`.  `AnswersTheorem`: `ResultMatchesPhase`.
  `OthersTheorem`, `AdvanceTheorem` and `ListFreedTheorem`: the
  action properties `OthersUntouched`, `OpenNextAdvances` and `ListFreedWhenDropped`.
  The inductive
  invariant is `CursorInv /\ OwnInv`.  `CursorInv` (type, cursor, and that a
  destroyed object holds nothing) alone is inductive: a list is freed
  in the same step in which its pointer is nulled or replaced, so that the
  pointers that remain are to live lists.  Ownership needs modes and leaks along:
  that a new descriptor is not one the stream holds follows from what it holds
  being owned, and that it lost nothing from both of its sockets being known.
  `setSocket()` does not reach the connecting one, which is always the stream's own
  (`PendingIsOwn`); `AnswersTheorem` needs it where `open_next()` answers 1 with
  nothing pending, and the live cursor where it answers -1.
  The theorems hold with `CloseMayFail` true as well, where no run checks them:
  numbers whose close failed stay the stream's own.
- `UnixSocketStream_proofs`.  `UnixLeakTheorem` (`NoDescriptorLeak`),
  `UnixOthersTheorem` (`OthersUntouchedButOnce`) and `UnixAdoptsTheorem`
  (`AdoptsOnlyConnected`).  The invariant says that the stream
  owns what it holds, or was given it, until the first destructor has run, and after it
  only the connected socket; and how far the destruction is.  For the last theorem
  it adds that no socket is kept whose error has been read.
- `SkCat_proofs`.  `CatTypeTheorem`, `CatCleanTheorem` (`EndsClean`, while `::close()`
  succeeds) and `CatAdoptsTheorem` (`CatAdoptsOnlyConnected`).  Every step of the client
  is one of the stream (`CatStreamTheorem`), so that the invariant of `TcpSocketStream_proofs` carries over; it
  is joined with two facts that only this client keeps: whenever it goes to poll, the
  error of the pending socket is unread, and no list but the pending one is allocated.
- `StreamSocketbuf_proofs`.  `InputTheorem`, `OutputTheorem`, `FailTheorem`,
  `ConservedTheorem`, and the refinements `OutputChannelTheorem` (without partial sends)
  and `InputChannelTheorem` (with and without).  `TypeOK` is needed for the others (sequences have
  integer lengths and their parts are sequences); then `InputInOrder` and
  `OutputInOrder` are each inductive: every step moves a prefix of one queue to the
  end of the next, which leaves their concatenation as it was.  A refinement step
  then follows from that concatenation before and after it.  A partial send
  permutes the bytes; `ConservedTheorem` follows from their number and from the fact
  that a byte occurs in two parts exactly if it occurs in what they were parts of.
- The loop of `cat`, in the last part of `StreamSocketbuf_proofs`; nothing before it
  depends on `SkRelay` or its assumption.  `NothingReadTheorem`: `WaitsWithNothingRead`,
  with `CountsGet` as strengthening: in `copy()` the count is the length of the get
  area, before it the area is empty, and only `peek()` fills it.  `RelayOutputTheorem`
  (`OutputChannel`, without partial sends) and `RelayConservedTheorem` (with them):
  what is typed leaves as the stream promises.  `RelayInputTheorem` (`InputChannel`):
  what is shown is what the peer sent.  Every step of the loop but `copy()` is one
  of the stream; `copy()` takes a chunk by `sgetn()`, past the stream, which
  moves a prefix of the get area all the same (`CopyTakes`, `CopyInput`).
- `DgramSocketStream_proofs`.  `IntactTheorem`, `TargetTheorem`, `InpeerTheorem`.  What a
  step does to the put side is one of three things (`OutShape`), to the get side one
  of three others (`InShape`), and each theorem is proved of these.  `OutputIntact`
  numbers each datagram by its first byte, so that no concatenation
  of all datagrams is needed; `ReachesItsTarget` needs that what is in the put area
  is for the current peer while `blindly` is not set, and that `told` says so for a
  reason (`ToldIsSo`): a clean answer means an empty put area, since a `flush()` that
  fails leaves `fail()` or `timeout()` saying yes.
- `SkPing_proofs`.  `PingTypeTheorem` (`PingTypeOK`) comes with `Control`: what each place
  in the program says of the stream (its flags, whether a request or a reply is
  under way).  `StreamTheorem`: ping's use of its stream is one that
  `DgramSocketStream_proofs` covers.
  - `LostTheorem` (`LostInRange`) needs two counts.  `OutCount`: no more datagrams have left
    than requests were made, and fewer while bytes are in the put area, since a request
    is handed over before it is counted and one that does not fit sends what is
    in front of it.  `InCount`: while no answer is surplus, as many datagrams at
    most have come as have left, none longer than a reply, and the bytes read and
    left to read are no more than a reply for each datagram taken from the kernel.  Bytes
    lost with a socket or cut off only help.
  - `WholeTheorem` (`RequestsWhole`): but for the request being written, what has been
    accepted and what is in the put area are multiples of a request (`PutWhole`), and
    so are each datagram and what was accepted before it (`SentWhole`), for which the
    numbering of `IntactTheorem` is needed.  It assumes that the
    put area holds all the requests (`Ping_Count * ReqSize <= PutCap`), which is so up to
    585 requests in the source: beyond that, a request that meets a full area is
    split when the sends before it have failed.
  - `ChecksumTheorem` (`ChecksumVerifies`), for a word of at least 6 values, as many as a
    request has words here (2^16 in the source): the carries of the second folding
    need no third.  The sum over the six words is a recursive function, unfolded.
  - `TargetFirstTheorem`: `ping` never sends to an address that was not set, which
    the stream itself would do (skstream.cpp:442).  No run checks this one.
- `SocketServer_proofs`.  `OwnershipTheorem`, `LeakTheorem`, `OthersTheorem`, from one
  invariant that adds to ownership that no socket but the object's is the
  server's, unless `::close()` can fail.  `OpenTheorem` (`OpenMeansOpen`) adds that
  what listens is a socket of the server, and what the last answer of `open` was given for.
- `SkPoll_proofs`.  `ReadyTheorem` and `UnaskedTheorem`.  The invariant adds that
  different open objects have different numbers, and for each object that has not
  moved, that its number is in each set exactly when it should be.  Without the
  former, an object that moves could take the number of one that has not.

Left to TLC: `CatDecides` and `RelayEnds`, the two liveness properties, and the four
counterexamples.  Liveness under fairness and ENABLED are beyond TLAPS.  Every
invariant and every action property of a passing run is a theorem, some of them
under the hypothesis that the run has as a constant: `::close()` succeeds, sends are
whole, a word of the checksum has at least 6 values, the put area holds all requests.

## 5. What is not modelled

- `startup()`, Windows branches, build files, packaging, tests.
- `setbuf` after the constructor, which drops what the buffer holds.
- `shutdown` and `setBroadcast` of datagram streams, which set options of the socket.
- `getRemoteHost` and `getRemoteService`, which change no state of the object (they
  pass an uninitialised length to `getpeername`, skstream.cpp:911-916).
- Several connections through one stream, one after the other or by `setSocket()`,
  as seen by the buffer: `StreamSocketbuf` follows one socket until it is closed.
- Buffers of size 0, which a test builds (basicskstreamtest.h:89): both areas have room
  for at least one byte here.  Without one `overflow()` has no place for the character.
- A failing `::close()` that releases the number, as Linux has it, and a run in which
  `::close()` fails.
- Datagrams that the network brings twice: `LostInRange` is about one answer for
  each request.
- Arguments and output of `cat` and `ping`, and the statistics per host.
- Time: a wait ends at any moment, with or without its event.
- Sizes and contents of addresses; `FD_SETSIZE`.

## 6. Where the code and its documents disagree

Shown by runs that find a counterexample:

- `tcp_adopts_failed`: `isReady()` reads SO_ERROR and so clears it.  When it has
  answered false, a second call reads 0 and hands the dead socket to the stream.
  The comment at skstream.cpp:985 says a failure leads back to the address list.
  `cat` is safe because it polls each address once (`CatAdoptsOnlyConnected`).
- `stream_reorder`: a partial send inside a write puts the new character before
  the bytes left over (skstream.cpp:302, against the comment at 305).
- `ping_timeout`: the timeout of `recv_reply()` (ping.cpp:188) is that of writing, so
  that `ping`, which is to "quit on timeout" (ping.cpp:126), waits for ever for a reply that
  was lost, and for the rest of one that was short.

Seen while modelling, in each case by reading one path:

- After the fourth round `cat` prints "Connection complete" (cat.cpp:121) with a
  connect still pending, for `is_open()` is true of it.
- A `flush()` to a datagram peer that times out sets the bad bit and leaves its bytes in
  the put area; `fail()` then clears the state and answers false (skstream.cpp:570, against
  the comment at 409).  A program that goes by it and sets another peer sends the old bytes
  there.  With `timeout()` asked as well this does not happen (`ReachesItsTarget`).
- The `Timeout` flag survives `clear()`, and an error that comes before it is reset
  (no socket, a failing `select`) is taken for a timeout by `fail()`, which clears it and
  returns false (skstream.cpp:570).  Errors of a transfer are not: `FailHidesNoTransfer`.
- `sync()` is documented to flush (skstream.h:114) and calls `overflow` once, so that
  a partial send leaves bytes behind a flush that succeeds (skstream.cpp:195).
- `udp_socket_server` holds a stream socket: `bindToIpService` ignores its type and
  resolves a `tcp_address` (skserver.cpp:270, against 182).
- `open_next` asserts `sfd == INVALID_SOCKET` (skstream.cpp:891) where `sfd` is the
  connection just made; the default build has NDEBUG.
- When every `socket()` fails `open` returns -1 and `LastError` is that of an earlier
  call (skstream.cpp:724).
- The timed `open` of `tcp_socket_stream` returns -1 in all cases, with a connection
  in the stream, too (skstream.cpp:783).
- `open_next` returns `true`, which is its 1 for "pending", when `reset_nonblock()` fails and
  nothing is pending (skstream.cpp:900).
- `setSocket` over an open stream closes nothing, and a socket it is given while a
  connect is pending is lost when that connect is taken over (skstream.cpp:1009).
- The destructor of a stream with a pending connect to the caller's own `addrinfo`
  calls `freeaddrinfo()` of a null list (skstream.cpp:688-689), which
  glibc takes and POSIX does not promise.
- A peer that stops reading holds `cat` in `::send()` (cat.cpp:159), and it serves neither
  side meanwhile.
- `~unix_socket_stream` (skstream.cpp:1145) and `~stream_socket_stream` (626) close the
  connecting socket twice, where ChangeLog:300 has "Make sure close() is called in
  the right places in destructors."  `OthersUntouchedButOnce` shows that this is the only
  place.
- A unix name that does not fit leaves the old connection in place (skstream.cpp:1152).
- `setOutpeer` leaves the length of the last `setTarget` (skstream.h:170).
- An empty datagram ends a datagram stream (skstream.cpp:510).
- `setTarget` replaces the raw ICMP socket of `ping`, and its broadcast option, by a
  UDP socket to port 7.  An echo of 56 bytes is then shorter than the 80 bytes
  `recv_reply` reads, so that a reply straddles datagrams.
- "Check for timeout" (ping.cpp:170) is never true: the `fail()` before it has cleared
  the flag and denied it.  A request that was not sent is counted, and a flag that
  is left over makes a reply that was read in full go uncounted.
- `can_accept` "See if accept() can be called without blocking on it" (skserver.h:67)
  cannot promise it: the connection may be gone by then.
- skservertest.h:139 constructs a `tcp_socket_server` from a port, which is taken
  for the flags, and 105 asserts that it is open.
- `setbuf` "Only works if not already set" (skstream.h:116) replaces a buffer in use.
- `basic_socket_poll::poll` passes milliseconds as microseconds (skpoll.cpp:66).
- In the loop of `cat`, a line that stdio has read ahead waits until something else
  wakes `select()` (cat.cpp:156), and `done` of the terminal is overwritten by the
  answer of `copy()` (cat.cpp:164), to be found again in the next round.

## 7. Plan

1. Done: every class of the library that keeps state, and both programs, with
   proofs of all safety properties that the runs check.
2. Proofs: the type of `SkRelay`'s own variables, and what of `RequestsWhole` remains
   when there are more requests than the put area holds.
3. Several connections through one buffer, once a document says what becomes of
   the bytes that were left in the areas.
