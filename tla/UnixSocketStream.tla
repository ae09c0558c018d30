-------------------------- MODULE UnixSocketStream --------------------------
(***************************************************************************)
(* unix_socket_stream: its own open() and isReady() over the base of       *)
(* stream_socket_stream, and a chain of three destructors that close one   *)
(* descriptor after the other.                                             *)
(*                                                                         *)
(* Two of them close the connecting socket.  Each is a step, so that other *)
(* threads of the program may open and close descriptors between them.     *)
(***************************************************************************)
EXTENDS StreamSocketStream

ASSUME UnixAssumption ==
  /\ NoFd \notin Fd
  /\ CloseMayFail \in BOOLEAN

VARIABLE
  destroyed  \* the destructor that has run last: "none", that of
             \* unix_socket_stream or that of stream_socket_stream

vars == <<alive, sockbufSocket, connectingSocket, lastError, result, inOpen,
          desc, destroyed>>

objectVars == <<alive, sockbufSocket, connectingSocket, lastError, result,
                inOpen, destroyed>>

Callable == Idle /\ destroyed = "none"
-----------------------------------------------------------------------------
Close ==
  /\ Callable
  /\ \E kept \in FailedCloses(Held) :
       /\ CloseHeld(desc, kept)
       /\ lastError' = ErrorAfterClose(kept)
  /\ Return("close", "void")
  /\ UNCHANGED <<alive, inOpen, destroyed>>

SetSocket ==
  /\ Callable
  /\ ReplacesSocket
  /\ Return("none", "void")
  /\ UNCHANGED <<alive, connectingSocket, lastError, inOpen, destroyed>>

(* As in TcpSocketStream: a connect may be aborted.                        *)
Shutdown ==
  /\ Callable /\ IsOpen
  /\ lastError' \in {lastError, "error"}
  /\ \/ UNCHANGED desc
     \/ /\ ConnectPending /\ desc[connectingSocket].conn = "connecting"
        /\ desc' = [desc EXCEPT ![connectingSocket].conn = "refused"]
  /\ Return("none", "void")
  /\ UNCHANGED <<alive, sockbufSocket, connectingSocket, inOpen, destroyed>>
-----------------------------------------------------------------------------
(***************************************************************************)
(* open(address, nonblock) returns nothing.  A name that does not fit in   *)
(* sun_path is turned away before anything is closed.                      *)
(***************************************************************************)
NameTooLong ==
  UNCHANGED <<sockbufSocket, connectingSocket, lastError, desc>>

OpenFails ==
  /\ \E kept \in FailedCloses(Held) : CloseHeld(desc, kept)
  /\ SetLastError

(* reset_nonblock() fails on a socket that connected at once.              *)
OpenAbandons ==
  /\ \E kept \in FailedCloses(Held) :
       /\ Unused(DescAfterClose(desc, kept)) # {}
       /\ desc' \in AfterAbandon(DescAfterClose(desc, kept))
       /\ sockbufSocket' = SockbufAfterClose(kept)
  /\ connectingSocket' = NoFd
  /\ SetLastError

OpenPends ==
  \E kept \in FailedCloses(Held) :
    \E fd \in Unused(DescAfterClose(desc, kept)) :
      /\ desc' = [DescAfterClose(desc, kept) EXCEPT
                    ![fd] = StreamDesc("connecting", TRUE)]
      /\ sockbufSocket' = SockbufAfterClose(kept)
      /\ connectingSocket' = fd
      /\ lastError' = ErrorAfterClose(kept)

OpenConnects(nonblock) ==
  \E kept \in FailedCloses(Held) :
    \E fd \in Unused(DescAfterClose(desc, kept)) :
      /\ desc' = [DescAfterClose(desc, kept) EXCEPT
                    ![fd] = Blocking(StreamDesc("connected", nonblock))]
      /\ sockbufSocket' = fd
      /\ connectingSocket' = NoFd
      /\ lastError' = ErrorAfterClose(kept)

Opens(nonblock) ==
  \/ NameTooLong \/ OpenFails \/ OpenConnects(nonblock)
  \/ nonblock /\ (OpenAbandons \/ OpenPends)

Open(nonblock) ==
  /\ Callable
  /\ Opens(nonblock)
  /\ Return("open", "void")
  /\ UNCHANGED <<alive, inOpen, destroyed>>
-----------------------------------------------------------------------------
(***************************************************************************)
(* isReady() takes the socket out of its place as soon as its connect has  *)
(* been decided, whatever comes of it then.                                *)
(***************************************************************************)
NothingPending ==
  ~ConnectPending /\ UNCHANGED <<sockbufSocket, connectingSocket, lastError, desc>>

(* Or select() has failed.                                                 *)
StillConnecting ==
  /\ ConnectPending
  /\ UNCHANGED <<sockbufSocket, connectingSocket, lastError, desc>>

GivesUp ==
  /\ \E kept \in FailedCloses({connectingSocket}) :
       desc' = Released(desc, {connectingSocket} \ kept)
  /\ connectingSocket' = NoFd
  /\ SetLastError
  /\ UNCHANGED sockbufSocket

(* Mutant: the error is read and the socket left where it was.             *)
ReadsErrorMutant ==
  /\ ConnectPending /\ desc[connectingSocket].conn = "refused"
  /\ desc' = [desc EXCEPT ![connectingSocket] = SoErrorRead(@)]
  /\ SetLastError
  /\ UNCHANGED <<sockbufSocket, connectingSocket>>

ReadsError ==
  ConnectPending /\ desc[connectingSocket].conn = "refused" /\ GivesUp

(* reset_nonblock() succeeds, or fails.                                    *)
Adopts ==
  /\ ConnectPending /\ desc[connectingSocket].conn \in {"connected", "dead"}
  /\ desc' = [desc EXCEPT ![connectingSocket] = Blocking(@)]
  /\ sockbufSocket' = connectingSocket
  /\ connectingSocket' = NoFd
  /\ UNCHANGED lastError

Abandons ==
  /\ ConnectPending /\ desc[connectingSocket].conn \in {"connected", "dead"}
  /\ GivesUp

Ready == NothingPending \/ ReadsError \/ Adopts \/ Abandons

IsReady ==
  /\ Callable
  /\ \/ Ready /\ Return("isReady", "true")
     \/ StillConnecting /\ Return("isReady", "false")
  /\ UNCHANGED <<alive, inOpen, destroyed>>

(* open(address, milliseconds): the wait in its isReady() is for the       *)
(* connect just begun, or for an older one if the name was too long.       *)
OpenTimed ==
  /\ Callable
  /\ Opens(TRUE)
  /\ inOpen' = (connectingSocket' # NoFd)
  /\ Return("open_ms", "void")
  /\ UNCHANGED <<alive, destroyed>>

OpenTimedEnds ==
  /\ alive /\ inOpen
  /\ \/ Ready
     \/ /\ ConnectPending
        /\ \E kept \in FailedCloses(Held) :
             CloseHeld(desc, kept) /\ lastError' = ErrorAfterClose(kept)
  /\ inOpen' = FALSE
  /\ Return("open_ms", "void")
  /\ UNCHANGED <<alive, destroyed>>
-----------------------------------------------------------------------------
(* Mutant: _connecting_socket is left uninitialized.                       *)
ConstructMutant ==
  /\ ~alive
  /\ alive' = TRUE
  /\ connectingSocket' = "garbage"
  /\ lastError' = "none"
  /\ Return("none", "void")
  /\ UNCHANGED <<sockbufSocket, desc, inOpen, destroyed>>

Construct ==
  /\ ~alive
  /\ \/ UNCHANGED <<sockbufSocket, desc>>
     \/ \E fd \in Unused(desc) :
          /\ sockbufSocket' = fd
          /\ desc' = [desc EXCEPT ![fd] = StreamDesc("connected", FALSE)]
  /\ alive' = TRUE
  /\ lastError' = "none"
  /\ Return("none", "void")
  /\ UNCHANGED <<connectingSocket, inOpen, destroyed>>

(* The descriptors that the destructors close, in their order; a number    *)
(* that is closed already is an error that nobody looks at.                *)
ClosesUnix == {connectingSocket} \ {NoFd}
ClosesStream == {connectingSocket} \ {NoFd}
ClosesSocketbuf == {sockbufSocket} \ {NoFd}

Destructor(after, closes, before) ==
  /\ Idle /\ destroyed = after
  /\ \E kept \in FailedCloses(closes) : desc' = Released(desc, closes \ kept)
  /\ destroyed' = before
  /\ UNCHANGED inOpen

DestroyUnix ==
  /\ Destructor("none", ClosesUnix, "unix")
  /\ Return("none", "void")
  /\ UNCHANGED <<alive, sockbufSocket, connectingSocket, lastError>>

DestroyStream ==
  /\ Destructor("unix", ClosesStream, "stream")
  /\ connectingSocket' = NoFd
  /\ UNCHANGED <<alive, sockbufSocket, lastError, result>>

DestroySocketbuf ==
  /\ Destructor("stream", ClosesSocketbuf, "none")
  /\ alive' = FALSE
  /\ sockbufSocket' = NoFd
  /\ lastError' = "none"
  /\ UNCHANGED <<connectingSocket, result>>
-----------------------------------------------------------------------------
(***************************************************************************)
(* The kernel and the other threads of the program.                        *)
(***************************************************************************)
Kernel ==
  /\ \E f \in Fd, change \in {<<"connecting", "connected">>,
                              <<"connecting", "refused">>,
                              <<"connected", "refused">>} :
       /\ desc[f].conn = change[1]
       /\ desc' = [desc EXCEPT ![f].conn = change[2]]
  /\ UNCHANGED objectVars

OtherOpens(f) ==
  /\ f \in Unused(desc)
  /\ desc' = [desc EXCEPT ![f].owner = "other"]
  /\ UNCHANGED objectVars

OtherCloses(f) ==
  /\ desc[f].owner = "other"
  /\ desc' = Released(desc, {f})
  /\ UNCHANGED objectVars

Init ==
  /\ alive = FALSE
  /\ sockbufSocket = NoFd
  /\ connectingSocket = NoFd
  /\ lastError = "none"
  /\ result = [op |-> "none", ret |-> "void"]
  /\ inOpen = FALSE
  /\ destroyed = "none"
  /\ desc = [f \in Fd |-> ClosedDesc]

Next ==
  \/ Construct \/ DestroyUnix \/ DestroyStream \/ DestroySocketbuf
  \/ \E nonblock \in BOOLEAN : Open(nonblock)
  \/ OpenTimed \/ OpenTimedEnds \/ IsReady \/ Close \/ SetSocket \/ Shutdown
  \/ Kernel
  \/ \E f \in Fd : OtherOpens(f) \/ OtherCloses(f)

Spec == Init /\ [][Next]_vars
-----------------------------------------------------------------------------
TypeOK ==
  /\ alive \in BOOLEAN /\ inOpen \in BOOLEAN
  /\ destroyed \in {"none", "unix", "stream"}
  /\ sockbufSocket \in Fd \cup {NoFd}
  /\ connectingSocket \in Fd \cup {NoFd}
  /\ lastError \in Errors
  /\ result \in [op : {"none", "open", "open_ms", "isReady", "close"},
                 ret : {"void", "true", "false"}]
  /\ desc \in [Fd -> Descriptor]

(* No step of the stream closes or changes a descriptor of another thread, *)
(* except one: the second close of the connecting socket, in the           *)
(* destructor of the base class, when its number has been taken since.     *)
OthersUntouchedButOnce ==
  [][\A f \in Fd : desc[f].owner = "other" =>
       \/ Untouched(f)
       \/ OtherCloses(f)
       \/ DestroyStream /\ f = connectingSocket]_vars

(* isReady() and the timed open(), interrupted or repeated, never take a   *)
(* socket whose connect failed for the connection: it goes when its error  *)
(* is read.                                                                *)
AdoptsOnlyConnected ==
  [][(IsReady \/ OpenTimedEnds) /\ ConnectPending
       /\ sockbufSocket' = connectingSocket =>
         desc[connectingSocket].conn = "connected"]_vars
=============================================================================
