--------------------------- MODULE TcpSocketStream ---------------------------
(***************************************************************************)
(* The connection life cycle of tcp_socket_stream: the blocking, the       *)
(* non-blocking and the timed open, the walk over the address list with    *)
(* open_next, the completion test isReady, close and the destructor.       *)
(*                                                                         *)
(* The object keeps one connected socket (in its stream buffer) and one    *)
(* connect in progress, with the getaddrinfo list it came from.  The       *)
(* kernel owns the descriptor table and decides, asynchronously, what      *)
(* becomes of a connect; the rest of the program opens and closes          *)
(* descriptors of its own in the same table.  Every method is one atomic   *)
(* step, except the timed open, which waits in the middle: nothing else    *)
(* of the object's state can change during a call, and a kernel event that *)
(* happens while a call is blocked is a step of its own before it.         *)
(***************************************************************************)
EXTENDS StreamSocketStream

CONSTANTS
  AddrList,  \* the heap blocks getaddrinfo can return
  NoList,    \* the null addrinfo pointer
  Caller,    \* owner of an addrinfo that the caller of open() passes in
  MaxAddrs   \* the longest list a name resolves to

ASSUME TcpAssumption ==
  /\ NoFd \notin Fd
  /\ NoList \notin AddrList
  /\ Caller \notin AddrList \cup {NoList}
  /\ MaxAddrs \in Nat \ {0}
  /\ CloseMayFail \in BOOLEAN

VARIABLES
  connectingAddress,   \* _connecting_address
  connectingAddrlist,  \* _connecting_addrlist
  heap                 \* number of entries of every addrinfo list, 0 if freed

vars == <<alive, sockbufSocket, connectingSocket, connectingAddress,
          connectingAddrlist, lastError, result, inOpen, desc, heap>>
-----------------------------------------------------------------------------
Address == [list : AddrList \cup {Caller, NoList}, at : 0 .. MaxAddrs]

NullAddress == [list |-> NoList, at |-> 0]

Result == [op : {"none", "open", "open_ms", "open_next", "isReady", "close"},
           ret : {"void", "0", "1", "-1", "true", "false"}]

(* Mutant: the list is forgotten and not freed. *)
FreeAddrlistMutant(h, l) == h

(* ::freeaddrinfo(l) behind its test for null.                             *)
FreeAddrlist(h, l) == IF l = NoList THEN h ELSE [h EXCEPT ![l] = 0]

Close ==
  /\ Idle
  /\ \E kept \in FailedCloses(Held) :
       /\ CloseHeld(desc, kept)
       /\ lastError' = ErrorAfterClose(kept)
  /\ Return("close", "void")
  /\ UNCHANGED <<alive, connectingAddress, connectingAddrlist, inOpen, heap>>

(* setSocket(), while a connect is pending, too.                           *)
SetSocket ==
  /\ Idle
  /\ ReplacesSocket
  /\ Return("none", "void")
  /\ UNCHANGED <<alive, connectingSocket, connectingAddress, connectingAddrlist,
                 lastError, inOpen, heap>>

(* shutdown(): on a connecting socket it either fails or, as on Linux,     *)
(* aborts the connect; what it does to a connection is on the wire.        *)
Shutdown ==
  /\ Idle /\ IsOpen
  /\ lastError' \in {lastError, "error"}
  /\ \/ UNCHANGED desc
     \/ /\ ConnectPending /\ desc[connectingSocket].conn = "connecting"
        /\ desc' = [desc EXCEPT ![connectingSocket].conn = "refused"]
  /\ Return("none", "void")
  /\ UNCHANGED <<alive, sockbufSocket, connectingSocket, connectingAddress,
                 connectingAddrlist, inOpen, heap>>
-----------------------------------------------------------------------------
(***************************************************************************)
(* The open() methods begin by closing what the stream holds and freeing   *)
(* the list an earlier connect left behind; out of the rest comes no       *)
(* socket, a connected one or, in a non-blocking open, a connecting one.   *)
(* The error of a socket() that fails inside open() is not recorded.       *)
(***************************************************************************)
ErrorAfter(kept, attempts) ==
  IF attempts = 0 THEN {ErrorAfterClose(kept)}
                  ELSE {ErrorAfterClose(kept), "error"}

(* Mutant: the freed list is not nulled. *)
OpenFailsMutant(kept) ==
  /\ CloseHeld(desc, kept)
  /\ heap' = FreeAddrlist(heap, connectingAddrlist)
  /\ UNCHANGED <<connectingAddress, connectingAddrlist>>

OpenFails(kept) ==
  /\ CloseHeld(desc, kept)
  /\ connectingAddrlist' = NoList
  /\ heap' = FreeAddrlist(heap, connectingAddrlist)
  /\ UNCHANGED connectingAddress

(* A non-blocking open() that connects at once and whose reset_nonblock()  *)
(* fails.                                                                  *)
OpenAbandons(kept) ==
  /\ Unused(DescAfterClose(desc, kept)) # {}
  /\ desc' \in AfterAbandon(DescAfterClose(desc, kept))
  /\ sockbufSocket' = SockbufAfterClose(kept)
  /\ connectingSocket' = NoFd
  /\ connectingAddrlist' = NoList
  /\ heap' = FreeAddrlist(heap, connectingAddrlist)
  /\ SetLastError
  /\ UNCHANGED connectingAddress

OpenConnects(kept, nonblock) ==
  \E fd \in Unused(DescAfterClose(desc, kept)) :
    /\ desc' = [DescAfterClose(desc, kept) EXCEPT
                  ![fd] = Blocking(StreamDesc("connected", nonblock))]
    /\ sockbufSocket' = fd
    /\ connectingSocket' = NoFd
    /\ connectingAddrlist' = NoList
    /\ heap' = FreeAddrlist(heap, connectingAddrlist)
    /\ UNCHANGED connectingAddress

(* `length' is that of the list the pending address is on, and `list' what *)
(* the stream keeps of it: nothing when the caller owns it.                *)
OpenPends(kept, address, list, length) ==
  \E fd \in Unused(DescAfterClose(desc, kept)) :
    /\ desc' = [DescAfterClose(desc, kept) EXCEPT
                  ![fd] = StreamDesc("connecting", TRUE)]
    /\ sockbufSocket' = SockbufAfterClose(kept)
    /\ connectingSocket' = fd
    /\ connectingAddress' = address
    /\ connectingAddrlist' = list
    /\ LET h == FreeAddrlist(heap, connectingAddrlist)
       IN  heap' = IF list = NoList THEN h ELSE [h EXCEPT ![list] = length]

(* A name that does not resolve copies an errno that may well be 0.        *)
OpenHostFails(nonblock) ==
  \E kept \in FailedCloses(Held) :
    \/ OpenFails(kept) /\ lastError' \in Errors
    \/ nonblock /\ OpenAbandons(kept)

OpenHostConnects(nonblock) ==
  \E kept \in FailedCloses(Held) :
    /\ OpenConnects(kept, nonblock)
    /\ lastError' \in ErrorAfter(kept, MaxAddrs - 1)

OpenHostPends ==
  \E kept \in FailedCloses(Held), n \in 1 .. MaxAddrs :
    \E at \in 1 .. n,
       l \in {a \in AddrList : FreeAddrlist(heap, connectingAddrlist)[a] = 0} :
      /\ OpenPends(kept, [list |-> l, at |-> at], l, n)
      /\ lastError' \in ErrorAfter(kept, at - 1)

(* open(address, service, nonblock)                                        *)
OpenHost(nonblock) ==
  /\ Idle
  /\ \/ OpenHostFails(nonblock) /\ Return("open", "-1")
     \/ OpenHostConnects(nonblock) /\ Return("open", "0")
     \/ nonblock /\ OpenHostPends /\ Return("open", "0")
  /\ UNCHANGED <<alive, inOpen>>

(* open(addrinfo *, nonblock): the address stays the caller's.             *)
OpenAddrinfo(nonblock) ==
  /\ Idle
  /\ \E kept \in FailedCloses(Held) :
       \/ /\ \/ OpenFails(kept) /\ lastError' \in ErrorAfter(kept, 1)
             \/ nonblock /\ OpenAbandons(kept)
          /\ Return("open", "-1")
       \/ /\ OpenConnects(kept, nonblock)
          /\ lastError' = ErrorAfterClose(kept)
          /\ Return("open", "0")
       \/ /\ nonblock
          /\ OpenPends(kept, [list |-> Caller, at |-> 1], NoList, 1)
          /\ lastError' = ErrorAfterClose(kept)
          /\ Return("open", "0")
  /\ UNCHANGED <<alive, inOpen>>
-----------------------------------------------------------------------------
(***************************************************************************)
(* isReady().  The socket is writable once its connect has been decided,   *)
(* and SO_ERROR then tells how, the first time it is asked.  An error of   *)
(* select() looks like a connect that has not been decided.                *)
(***************************************************************************)
StillConnecting ==
  /\ ConnectPending
  /\ UNCHANGED <<desc, sockbufSocket, connectingSocket, connectingAddress,
                 connectingAddrlist, heap, lastError>>

ReadsError ==
  /\ ConnectPending /\ desc[connectingSocket].conn = "refused"
  /\ desc' = [desc EXCEPT ![connectingSocket] = SoErrorRead(@)]
  /\ UNCHANGED <<sockbufSocket, connectingSocket, connectingAddress,
                 connectingAddrlist, heap, lastError>>

Adopts ==
  /\ ConnectPending /\ desc[connectingSocket].conn \in {"connected", "dead"}
  /\ heap' = FreeAddrlist(heap, connectingAddrlist)
  /\ connectingAddrlist' = NoList
  /\ connectingAddress' = NullAddress
  /\ desc' = [desc EXCEPT ![connectingSocket] = Blocking(@)]
  /\ sockbufSocket' = connectingSocket
  /\ connectingSocket' = NoFd
  /\ UNCHANGED lastError

(* reset_nonblock() fails: the connected socket is closed, and the answer  *)
(* is still that the connect is over.                                      *)
Abandons ==
  /\ ConnectPending /\ desc[connectingSocket].conn \in {"connected", "dead"}
  /\ heap' = FreeAddrlist(heap, connectingAddrlist)
  /\ connectingAddrlist' = NoList
  /\ connectingAddress' = NullAddress
  /\ \E kept \in FailedCloses({connectingSocket}) :
       desc' = Released(desc, {connectingSocket} \ kept)
  /\ connectingSocket' = NoFd
  /\ SetLastError
  /\ UNCHANGED sockbufSocket

NothingPending ==
  /\ ~ConnectPending
  /\ UNCHANGED <<desc, sockbufSocket, connectingSocket, connectingAddress,
                 connectingAddrlist, heap, lastError>>

Ready == NothingPending \/ Adopts \/ Abandons

IsReady ==
  /\ Idle
  /\ \/ Ready /\ Return("isReady", "true")
     \/ (StillConnecting \/ ReadsError) /\ Return("isReady", "false")
  /\ UNCHANGED <<alive, inOpen>>

(* open(address, service, milliseconds): a non-blocking open, a wait       *)
(* inside isReady, and -1 to the caller in every case.                     *)
OpenTimed ==
  /\ Idle
  /\ \/ OpenHostFails(TRUE) /\ Return("open_ms", "-1") /\ UNCHANGED inOpen
     \/ /\ OpenHostConnects(TRUE) \/ OpenHostPends
        /\ inOpen' = TRUE
        /\ Return("none", "void")
  /\ UNCHANGED alive

OpenTimedEnds ==
  /\ alive /\ inOpen
  /\ \/ Ready
     \/ /\ ConnectPending
        /\ \E kept \in FailedCloses(Held),
             d \in {desc, [desc EXCEPT ![connectingSocket] = SoErrorRead(@)]} :
             CloseHeld(d, kept) /\ lastError' = ErrorAfterClose(kept)
        /\ UNCHANGED <<connectingAddress, connectingAddrlist, heap>>
  /\ inOpen' = FALSE
  /\ Return("open_ms", "-1")
  /\ UNCHANGED alive
-----------------------------------------------------------------------------
(***************************************************************************)
(* open_next(): drop the connecting socket and walk the rest of the list.  *)
(***************************************************************************)
OpenNextRefused ==
  /\ \/ ~ConnectPending
     \/ connectingAddrlist = NoList
     \/ connectingAddress = NullAddress
  /\ Return("open_next", "-1")
  /\ UNCHANGED <<desc, sockbufSocket, connectingSocket, connectingAddress,
                 connectingAddrlist, heap, lastError>>

(* Mutant: the walk restarts at the address that just failed, or runs off the end. *)
FollowingMutant == connectingAddress.at .. heap[connectingAddress.list]

FollowingOverrun ==
  connectingAddress.at + 1 .. heap[connectingAddress.list] + 1

(* The indexes of the entries that follow the address being tried.         *)
Following == connectingAddress.at + 1 .. heap[connectingAddress.list]

OpenNextPends(d) ==
  \E at \in Following, fd \in Unused(d) :
    /\ desc' = [d EXCEPT ![fd] = StreamDesc("connecting", TRUE)]
    /\ connectingSocket' = fd
    /\ connectingAddress' = [connectingAddress EXCEPT !.at = at]
    /\ lastError' = IF at = connectingAddress.at + 1 THEN lastError
                                                     ELSE "error"
    /\ Return("open_next", "1")
    /\ UNCHANGED <<sockbufSocket, connectingAddrlist, heap>>

OpenNextEnds ==
  /\ connectingSocket' = NoFd
  /\ heap' = FreeAddrlist(heap, connectingAddrlist)
  /\ connectingAddrlist' = NoList
  /\ connectingAddress' = NullAddress

OpenNextExhausted(d) ==
  /\ OpenNextEnds
  /\ desc' = d
  /\ lastError' = IF Following = {} THEN lastError ELSE "error"
  /\ Return("open_next", "-1")
  /\ UNCHANGED sockbufSocket

OpenNextConnects(d) ==
  \E at \in Following, fd \in Unused(d) :
    /\ OpenNextEnds
    /\ desc' = [d EXCEPT ![fd] = Blocking(StreamDesc("connected", TRUE))]
    /\ sockbufSocket' = fd
    /\ lastError' = IF at = connectingAddress.at + 1 THEN lastError
                                                     ELSE "error"
    /\ Return("open_next", "0")

(* Mutant: the socket is put into the buffer first.                        *)
OpenNextAbandonsMutant(d) ==
  /\ Following # {}
  /\ OpenNextEnds
  /\ sockbufSocket' \in Unused(d)
  /\ desc' = d
  /\ SetLastError
  /\ Return("open_next", "1")

(* reset_nonblock() fails on the connected socket: `return true'.          *)
OpenNextAbandons(d) ==
  /\ Following # {} /\ Unused(d) # {}
  /\ OpenNextEnds
  /\ desc' \in AfterAbandon(d)
  /\ SetLastError
  /\ Return("open_next", "1")
  /\ UNCHANGED sockbufSocket

OpenNext ==
  /\ Idle
  /\ \/ OpenNextRefused
     \/ /\ ConnectPending
        /\ connectingAddrlist # NoList
        /\ connectingAddress # NullAddress
        /\ \E kept \in FailedCloses({connectingSocket}) :
             LET d == Released(desc, {connectingSocket} \ kept)
             IN  \/ OpenNextPends(d)
                 \/ OpenNextExhausted(d)
                 \/ OpenNextConnects(d)
                 \/ OpenNextAbandons(d)
  /\ UNCHANGED <<alive, inOpen>>
-----------------------------------------------------------------------------
(***************************************************************************)
(* The constructors and the chain of destructors.  The list goes back only *)
(* when a connect is pending, and freeaddrinfo() of a null one, which      *)
(* nothing guards here, does nothing (as in glibc); the results of         *)
(* ::close() are dropped.                                                  *)
(***************************************************************************)
Construct ==
  /\ ~alive
  /\ \/ UNCHANGED <<sockbufSocket, desc>>
     \/ \E fd \in Unused(desc) :
          /\ sockbufSocket' = fd
          /\ desc' = [desc EXCEPT ![fd] = StreamDesc("connected", FALSE)]
  /\ alive' = TRUE
  /\ lastError' = "none"
  /\ connectingAddress' = NullAddress
  /\ connectingAddrlist' = NoList
  /\ Return("none", "void")
  /\ UNCHANGED <<connectingSocket, inOpen, heap>>

Destroy ==
  /\ Idle
  /\ heap' = IF ConnectPending THEN FreeAddrlist(heap, connectingAddrlist)
                               ELSE heap
  /\ \E kept \in FailedCloses(Held) : desc' = Released(desc, Held \ kept)
  /\ alive' = FALSE
  /\ sockbufSocket' = NoFd
  /\ connectingSocket' = NoFd
  /\ connectingAddress' = NullAddress
  /\ connectingAddrlist' = NoList
  /\ lastError' = "none"
  /\ Return("none", "void")
  /\ UNCHANGED inOpen
-----------------------------------------------------------------------------
(***************************************************************************)
(* The kernel and the rest of the program.                                 *)
(***************************************************************************)
ConnChanges(f, from, to) ==
  /\ desc[f].conn = from
  /\ desc' = [desc EXCEPT ![f].conn = to]
  /\ UNCHANGED <<alive, sockbufSocket, connectingSocket, connectingAddress,
                 connectingAddrlist, lastError, result, inOpen, heap>>

ConnectCompletes(f) == ConnChanges(f, "connecting", "connected")
ConnectRefused(f) == ConnChanges(f, "connecting", "refused")
ConnectionLost(f) == ConnChanges(f, "connected", "refused")

OtherOpens(f) ==
  /\ f \in Unused(desc)
  /\ desc' = [desc EXCEPT ![f].owner = "other"]
  /\ UNCHANGED <<alive, sockbufSocket, connectingSocket, connectingAddress,
                 connectingAddrlist, lastError, result, inOpen, heap>>

OtherCloses(f) ==
  /\ desc[f].owner = "other"
  /\ desc' = Released(desc, {f})
  /\ UNCHANGED <<alive, sockbufSocket, connectingSocket, connectingAddress,
                 connectingAddrlist, lastError, result, inOpen, heap>>
-----------------------------------------------------------------------------
Init ==
  /\ alive = FALSE
  /\ sockbufSocket = NoFd
  /\ connectingSocket = NoFd
  /\ connectingAddress = NullAddress
  /\ connectingAddrlist = NoList
  /\ lastError = "none"
  /\ result = [op |-> "none", ret |-> "void"]
  /\ inOpen = FALSE
  /\ desc = [f \in Fd |-> ClosedDesc]
  /\ heap = [l \in AddrList |-> 0]

Kernel ==
  \E f \in Fd : ConnectCompletes(f) \/ ConnectRefused(f) \/ ConnectionLost(f)

Others == \E f \in Fd : OtherOpens(f) \/ OtherCloses(f)

Next ==
  \/ Construct \/ Destroy
  \/ \E nonblock \in BOOLEAN : OpenHost(nonblock) \/ OpenAddrinfo(nonblock)
  \/ OpenTimed \/ OpenTimedEnds
  \/ OpenNext \/ IsReady \/ Close \/ SetSocket \/ Shutdown
  \/ Kernel \/ Others

Spec == Init /\ [][Next]_vars
-----------------------------------------------------------------------------
TypeOK ==
  /\ alive \in BOOLEAN
  /\ sockbufSocket \in Fd \cup {NoFd}
  /\ connectingSocket \in Fd \cup {NoFd}
  /\ connectingAddress \in Address
  /\ connectingAddrlist \in AddrList \cup {NoList}
  /\ lastError \in Errors
  /\ result \in Result
  /\ inOpen \in BOOLEAN
  /\ desc \in [Fd -> Descriptor]
  /\ heap \in [AddrList -> 0 .. MaxAddrs]

(* A pending connect has an address (the assertion in isReady), open_next  *)
(* walks a list that is allocated and that this address is on, and no list *)
(* the stream still points to has been freed.                              *)
PendingCursorLive ==
  /\ ConnectPending => connectingAddress # NullAddress
  /\ ConnectPending /\ connectingAddrlist # NoList =>
       /\ connectingAddress.list = connectingAddrlist
       /\ connectingAddress.at \in 1 .. heap[connectingAddrlist]
  /\ connectingAddrlist # NoList => heap[connectingAddrlist] > 0

(* What a call returned agrees with the phase the stream is left in.       *)
(* open_next() has one answer for two outcomes: 1 without a pending        *)
(* connect (skstream.cpp:900) leaves nothing in the stream but a socket it *)
(* was given, so that is_open() unmasks it.  The -1 of the timed open says *)
(* only that nothing is pending, for it is all that this open ever says.   *)
ResultMatchesPhase ==
  /\ result = [op |-> "open", ret |-> "0"] => IsOpen
  /\ result = [op |-> "open", ret |-> "-1"] =>
       ~ConnectPending /\ (CloseMayFail \/ ~IsOpen)
  /\ result.op = "open_ms" => ~ConnectPending
  /\ result = [op |-> "open_next", ret |-> "0"] =>
       sockbufSocket # NoFd /\ ~ConnectPending
  /\ result = [op |-> "open_next", ret |-> "1"] =>
       \/ ConnectPending \/ CloseMayFail
       \/ \A f \in Held : desc[f].owner = "given"
  /\ result = [op |-> "open_next", ret |-> "-1"] =>
       ~ConnectPending \/ connectingAddrlist = NoList
  /\ result = [op |-> "isReady", ret |-> "true"] => ~ConnectPending
  /\ result = [op |-> "isReady", ret |-> "false"] => ConnectPending
  /\ result.op = "close" => ~ConnectPending

(* No step of the stream closes a descriptor of the rest of the program or *)
(* switches its mode, whatever was closed and reopened under the same      *)
(* number before.                                                          *)
OthersUntouched ==
  [][\A f \in Fd : desc[f].owner = "other" => Untouched(f) \/ OtherCloses(f)]_vars

(* The stream drops its pointer to an address list only once the list is   *)
(* freed, in every method but the destructor.                              *)
ListFreedWhenDropped ==
  [][alive' /\ connectingAddrlist # NoList
       /\ connectingAddrlist' # connectingAddrlist =>
         heap'[connectingAddrlist] = 0]_vars

(* Every open_next that leaves a connect pending has moved further down    *)
(* the same list: a retry loop over open_next comes to an end.             *)
OpenNextAdvances ==
  [][OpenNext /\ ConnectPending' /\ ConnectPending =>
       \/ connectingAddrlist = NoList /\ UNCHANGED connectingSocket
       \/ /\ connectingAddress'.at > connectingAddress.at
          /\ connectingAddress'.list = connectingAddress.list
          /\ connectingAddress'.at <= heap[connectingAddress.list]]_vars

(* skstream.cpp:985 "Check for failure, and if it has occured, we need to  *)
(* revisit the address list": a socket whose connect failed is not taken   *)
(* for the stream's connection.                                            *)
AdoptsOnlyConnected ==
  [][IsReady /\ ConnectPending /\ sockbufSocket' = connectingSocket =>
       desc[connectingSocket].conn = "connected"]_vars
=============================================================================
