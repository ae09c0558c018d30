------------------------- MODULE StreamSocketStream -------------------------
(***************************************************************************)
(* stream_socket_stream, the base of the tcp and unix streams: one         *)
(* connected socket, in the stream buffer, and one connect in progress,    *)
(* with the close() and the helpers that the streams share.                *)
(*                                                                         *)
(* The kernel owns the descriptor table and decides, asynchronously, what  *)
(* becomes of a connect; the rest of the program opens and closes          *)
(* descriptors of its own in the same table.                               *)
(***************************************************************************)
EXTENDS Integers

CONSTANTS
  Fd,           \* the descriptors the process can have open
  NoFd,         \* INVALID_SOCKET
  CloseMayFail  \* whether ::close() can return SOCKET_ERROR, leaving the
                \* descriptor open

VARIABLES
  alive,             \* the object has been constructed and not destroyed
  sockbufSocket,     \* _sockbuf._socket
  connectingSocket,  \* _connecting_socket
  lastError,         \* LastError, down to whether it holds an error
  result,            \* the last call that returned and what it returned
  inOpen,            \* open(.., milliseconds) is waiting in its isReady
  desc               \* the kernel's descriptor table
-----------------------------------------------------------------------------
(***************************************************************************)
(* Data.  "refused" is a connect (or a connection) that failed and whose   *)
(* error nobody has read; "dead" is the same once SO_ERROR has been read,  *)
(* which clears it: the socket still selects as writable.  A "given"       *)
(* descriptor is one that the program made and passed to setSocket().      *)
(***************************************************************************)
Conn == {"none", "connecting", "connected", "refused", "dead"}

Descriptor == [owner : {"nobody", "stream", "given", "other"}, conn : Conn,
               nonblock : BOOLEAN]

ClosedDesc == [owner |-> "nobody", conn |-> "none", nonblock |-> FALSE]

StreamDesc(c, nb) == [owner |-> "stream", conn |-> c, nonblock |-> nb]

Errors == {"none", "error"}

Held == {sockbufSocket, connectingSocket} \ {NoFd}

(* is_open(): getSocket() is virtual and prefers the connecting socket.    *)
IsOpen == Held # {}

ConnectPending == connectingSocket # NoFd

(* The sets of descriptors of S on which ::close() fails in one call.      *)
FailedCloses(S) == IF CloseMayFail THEN SUBSET S ELSE {{}}

Released(d, S) == [f \in Fd |-> IF f \in S THEN ClosedDesc ELSE d[f]]

Unused(d) == {f \in Fd : d[f] = ClosedDesc}

(* Mutant: the socket stays non-blocking. *)
BlockingMutant(d) == d

(* reset_nonblock() on a descriptor.                                       *)
Blocking(d) == [d EXCEPT !.nonblock = FALSE]

(* getsockopt(SO_ERROR) returns the pending error and clears it.           *)
SoErrorRead(d) == [d EXCEPT !.conn = IF @ = "refused" THEN "dead" ELSE @]

(* setLastError(), with errno set by the call that failed.                 *)
SetLastError == lastError' = "error"

Return(op, ret) == result' = [op |-> op, ret |-> ret]

Idle == alive /\ ~inOpen

(* What may be left of a socket just connected whose reset_nonblock() has  *)
(* failed: nothing, unless its ::close() fails as well.                    *)
AfterAbandon(d) ==
  {d} \cup {[d EXCEPT ![fd] = StreamDesc("connected", TRUE)] :
            fd \in {f \in Unused(d) : CloseMayFail}}
-----------------------------------------------------------------------------
(* Mutant: close() forgets the connecting socket. *)
DescAfterCloseMutant(d, kept) == Released(d, {sockbufSocket} \ kept)

(***************************************************************************)
(* close(), with `kept' the descriptors on which ::close() fails: such a   *)
(* failure goes unnoticed on the connecting socket, and leaves the         *)
(* connected socket where it is, with LastError set.                       *)
(***************************************************************************)
DescAfterClose(d, kept) == Released(d, Held \ kept)

(* Mutant: close() leaves the closed number in the buffer. *)
SockbufAfterCloseMutant(kept) == sockbufSocket

SockbufAfterClose(kept) ==
  IF sockbufSocket \in kept THEN sockbufSocket ELSE NoFd

ErrorAfterClose(kept) ==
  IF sockbufSocket \in kept THEN "error" ELSE lastError

CloseHeld(d, kept) ==
  /\ desc' = DescAfterClose(d, kept)
  /\ sockbufSocket' = SockbufAfterClose(kept)
  /\ connectingSocket' = NoFd
-----------------------------------------------------------------------------
(***************************************************************************)
(* setSocket() closes nothing and asks for nothing: a connect may be       *)
(* pending.  What was in the buffer is the program's from now on, which    *)
(* may have its number from getSocket() and may not.                       *)
(***************************************************************************)
LetGo(d) ==
  [f \in Fd |-> IF f = sockbufSocket THEN [d[f] EXCEPT !.owner = "other"] ELSE d[f]]

ReplacesSocket ==
  \/ sockbufSocket' = NoFd /\ desc' = LetGo(desc)
  \/ \E fd \in Unused(desc) :
       /\ sockbufSocket' = fd
       /\ desc' = [LetGo(desc) EXCEPT ![fd] = [owner |-> "given",
                       conn |-> "connected", nonblock |-> FALSE]]
-----------------------------------------------------------------------------
(* Every number the stream would use or close still names a descriptor of  *)
(* its own or one it was given, once: close, open over an open stream,     *)
(* open_next and isReady leave no stale number behind for the rest of the  *)
(* program to reuse.                                                       *)
OwnsItsDescriptors ==
  /\ \A f \in Held : desc[f].owner \in {"stream", "given"}
  /\ ConnectPending => connectingSocket # sockbufSocket

(* As long as ::close() succeeds, no path of any method but setSocket()    *)
(* loses a socket the stream created, and the stream is connected and      *)
(* connecting at once only when it was given its socket meanwhile.         *)
NoDescriptorLeak ==
  ~CloseMayFail =>
    /\ \A f \in Fd : desc[f].owner = "stream" => f \in Held
    /\ \/ sockbufSocket = NoFd \/ connectingSocket = NoFd
       \/ desc[sockbufSocket].owner = "given"

(* The socket the stream reads and writes blocks, whichever of the ways of *)
(* connecting it came from, if one it was given does; one that is still    *)
(* connecting does not.                                                    *)
BlockingModes ==
  /\ sockbufSocket # NoFd => ~desc[sockbufSocket].nonblock
  /\ ConnectPending => desc[connectingSocket].nonblock

(* The kernel entry of a descriptor that no step of the stream may change. *)
Untouched(f) ==
  /\ desc'[f].owner = desc[f].owner
  /\ desc'[f].nonblock = desc[f].nonblock
=============================================================================
