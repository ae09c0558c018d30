----------------------------- MODULE SocketServer -----------------------------
(***************************************************************************)
(* The listening side: basic_socket_server with its three descendants,     *)
(* tcp_socket_server, udp_socket_server and unix_socket_server.            *)
(*                                                                         *)
(* The object keeps one socket.  The kernel keeps the descriptor table and *)
(* the queue of connections of each listening socket; clients, the other   *)
(* holders of the listening socket and the rest of the program act between *)
(* any two calls.  A method is one step, except accept(), which waits for  *)
(* a connection when there is none.                                        *)
(***************************************************************************)
EXTENDS Integers, Sequences, FiniteSets

CONSTANTS
  Fd,           \* the descriptors the process can have open
  NoFd,         \* INVALID_SOCKET
  MaxAddrs,     \* the longest list a service resolves to
  Backlog,      \* bound: connections waiting on a socket (5 in the source)
  CloseMayFail  \* whether ::close() can return SOCKET_ERROR, leaving the
                \* descriptor open

ASSUME ServerAssumption ==
  /\ NoFd \notin Fd
  /\ MaxAddrs \in Nat \ {0}
  /\ Backlog \in Nat \ {0}
  /\ CloseMayFail \in BOOLEAN

VARIABLES
  kind,       \* the class of the object, "none" outside its lifetime
  socket,     \* _socket
  lastError,  \* LastError, down to whether it holds an error
  result,     \* the last call that returned and what it returned
  accepting,  \* accept() is waiting for a connection
  desc        \* the kernel's descriptor table

vars == <<kind, socket, lastError, result, accepting, desc>>
-----------------------------------------------------------------------------
Kinds == {"tcp", "udp", "unix"}

(* "other" owns what accept() has given away and all that the rest of the  *)
(* program opens.                                                          *)
Descriptor == [owner : {"nobody", "server", "other"},
               type : {"none", "stream", "dgram"},
               state : {"none", "idle", "listening"},
               waiting : 0 .. Backlog]

Desc(owner, type, state) ==
  [owner |-> owner, type |-> type, state |-> state, waiting |-> 0]

ClosedDesc == Desc("nobody", "none", "none")

OtherDesc == Desc("other", "none", "none")

Result ==
  [op : {"none", "open", "accept", "can_accept", "close"},
   ret : {"void", "0", "-1", "true", "false", "socket", "invalid"}]

IsOpen == socket # NoFd

Unused(d) == {f \in Fd : d[f] = ClosedDesc}

Released(d, S) == [f \in Fd |-> IF f \in S THEN ClosedDesc ELSE d[f]]

Return(op, ret) == result' = [op |-> op, ret |-> ret]

Idle == kind # "none" /\ ~accepting

(* select() would call the socket readable: a connection is waiting, or it *)
(* is a stream socket that neither listens nor is connected.               *)
Readable(f) == desc[f].state = "idle" \/ desc[f].waiting > 0

(* Whether ::close() on the server's socket fails in this call.            *)
CloseOutcomes == IF CloseMayFail /\ IsOpen THEN BOOLEAN ELSE {FALSE}

(* Mutant: close() leaves the closed number in the object.                 *)
SocketAfterCloseMutant(fails) == socket

(* close(): the socket stays where it is when ::close() fails.             *)
SocketAfterClose(fails) == IF fails THEN socket ELSE NoFd

DescAfterClose(fails) == IF fails THEN desc ELSE Released(desc, {socket})

ErrorAfterClose(fails) == IF fails THEN "error" ELSE lastError

Close ==
  /\ Idle
  /\ \E fails \in CloseOutcomes :
       /\ socket' = SocketAfterClose(fails)
       /\ desc' = DescAfterClose(fails)
       /\ lastError' = ErrorAfterClose(fails)
  /\ Return("close", "void")
  /\ UNCHANGED <<kind, accepting>>

(* shutdown(): a listening socket stops listening and drops its queue, or  *)
(* the call fails; the socket stays open.                                  *)
Shutdown ==
  /\ Idle /\ IsOpen
  /\ \/ lastError' = "error" /\ UNCHANGED desc
     \/ /\ desc[socket].state = "listening"
        /\ desc' = [desc EXCEPT ![socket] = Desc("server", "stream", "idle")]
        /\ UNCHANGED lastError
  /\ Return("none", "void")
  /\ UNCHANGED <<kind, socket, accepting>>
-----------------------------------------------------------------------------
(***************************************************************************)
(* open().  bindToAddressInfo() creates a socket in _socket and binds it;  *)
(* when the bind fails the socket is closed again, and when that fails too *)
(* the next address of the list takes its place in _socket.  `lost' is the *)
(* set of sockets such closes have left open.  The addresses of a service  *)
(* are those of a tcp_address, so that the sockets are stream sockets,     *)
(* whatever the arguments of bindToIpService() say.                        *)
(***************************************************************************)
Lost(d, attempts) ==
  IF CloseMayFail THEN {L \in SUBSET Unused(d) : Cardinality(L) <= attempts}
                  ELSE {{}}

WithLost(d, L) ==
  [f \in Fd |-> IF f \in L THEN Desc("server", "stream", "idle") ELSE d[f]]

(* Every address fails, or the last one does at listen(): `_socket' holds  *)
(* nothing, or the last of the sockets that would not close.               *)
OpenFails(d, attempts) ==
  \E L \in Lost(d, attempts) :
    /\ desc' = WithLost(d, L)
    /\ socket' \in {NoFd} \cup L
    /\ lastError' = "error"

(* Mutant: the socket that was bound is not kept.                          *)
OpenBindsMutant(d, attempts, state) ==
  \E L \in Lost(d, attempts - 1) : \E fd \in Unused(d) \ L :
    /\ desc' = [WithLost(d, L) EXCEPT ![fd] = Desc("server", "stream", state)]
    /\ socket' = NoFd
    /\ lastError' = "error"

OpenBinds(d, attempts, state) ==
  \E L \in Lost(d, attempts - 1) : \E fd \in Unused(d) \ L :
    /\ desc' = [WithLost(d, L) EXCEPT ![fd] = Desc("server", "stream", state)]
    /\ socket' = fd
    /\ lastError' \in (IF attempts > 1 THEN {lastError, "error"} ELSE {lastError})

(* A service that does not resolve, or a path that is too long: nothing is *)
(* left but what close() could not close, and LastError is not set.        *)
OpenRefused(fails) ==
  /\ socket' = SocketAfterClose(fails)
  /\ desc' = DescAfterClose(fails)
  /\ lastError' = ErrorAfterClose(fails)

(* Mutant: listen() is not called.                                         *)
StateWhenOpenMutant == "idle"

StateWhenOpen == IF kind = "udp" THEN "idle" ELSE "listening"

(* open() of a service, of one addrinfo, or of a path.                     *)
Open(attempts) ==
  /\ Idle
  /\ \E fails \in CloseOutcomes :
       LET d == DescAfterClose(fails)
       IN  \/ OpenRefused(fails) /\ Return("open", "-1")
           \/ OpenFails(d, attempts) /\ Return("open", "-1")
           \/ OpenBinds(d, attempts, StateWhenOpen) /\ Return("open", "0")
  /\ UNCHANGED <<kind, accepting>>
-----------------------------------------------------------------------------
CanAccept ==
  /\ Idle
  /\ \/ ~IsOpen /\ Return("can_accept", "false") /\ UNCHANGED lastError
     \/ /\ IsOpen
        /\ Return("can_accept", IF Readable(socket) THEN "true" ELSE "false")
        /\ UNCHANGED lastError
     \/ /\ IsOpen
        /\ Return("can_accept", "false")
        /\ lastError' = "error"
  /\ UNCHANGED <<kind, socket, accepting, desc>>

(* Mutant: a descriptor is made whether or not a connection is waiting.     *)
AcceptsMutant ==
  /\ \E fd \in Unused(desc) :
       desc' = [desc EXCEPT ![fd] = OtherDesc, ![socket].waiting = @ - 1]
  /\ Return("accept", "socket")
  /\ UNCHANGED lastError

(* ::accept() takes a waiting connection into a new descriptor, which is   *)
(* the caller's from there on.                                             *)
Accepts ==
  /\ desc[socket].waiting > 0
  /\ \E fd \in Unused(desc) :
       desc' = [desc EXCEPT ![fd] = OtherDesc, ![socket].waiting = @ - 1]
  /\ Return("accept", "socket")
  /\ UNCHANGED lastError

(* It fails: not listening, no descriptor left, a signal.                  *)
AcceptFails ==
  /\ Return("accept", "invalid")
  /\ lastError' = "error"
  /\ UNCHANGED desc

Accept ==
  /\ Idle /\ kind # "udp"
  /\ \/ ~IsOpen /\ Return("accept", "invalid") /\ UNCHANGED <<lastError, desc, accepting>>
     \/ IsOpen /\ (Accepts \/ AcceptFails) /\ UNCHANGED accepting
     \/ /\ IsOpen /\ desc[socket].state = "listening" /\ desc[socket].waiting = 0
        /\ accepting' = TRUE
        /\ UNCHANGED <<lastError, desc, result>>
  /\ UNCHANGED <<kind, socket>>

AcceptReturns ==
  /\ accepting
  /\ Accepts \/ AcceptFails
  /\ accepting' = FALSE
  /\ UNCHANGED <<kind, socket>>
-----------------------------------------------------------------------------
(* The constructors: of a tcp_socket_server, which opens nothing, or of    *)
(* the others before their open().                                         *)
Construct ==
  /\ kind = "none"
  /\ kind' \in Kinds
  /\ lastError' = "none"
  /\ Return("none", "void")
  /\ UNCHANGED <<socket, accepting, desc>>

Destroy ==
  /\ Idle
  /\ \E fails \in CloseOutcomes : desc' = DescAfterClose(fails)
  /\ kind' = "none"
  /\ socket' = NoFd
  /\ lastError' = "none"
  /\ Return("none", "void")
  /\ UNCHANGED accepting

(* Clients connect; a waiting connection goes away, reset by its client or *)
(* accepted by another holder of the socket; the rest of the program opens *)
(* and closes.                                                             *)
Environment(f) ==
  /\ \/ /\ desc[f].state = "listening" /\ desc[f].waiting < Backlog
        /\ desc' = [desc EXCEPT ![f].waiting = @ + 1]
     \/ /\ desc[f].waiting > 0
        /\ desc' = [desc EXCEPT ![f].waiting = @ - 1]
     \/ /\ f \in Unused(desc)
        /\ desc' = [desc EXCEPT ![f] = OtherDesc]
  /\ UNCHANGED <<kind, socket, lastError, result, accepting>>

OtherCloses(f) ==
  /\ desc[f].owner = "other"
  /\ desc' = Released(desc, {f})
  /\ UNCHANGED <<kind, socket, lastError, result, accepting>>

Init ==
  /\ kind = "none"
  /\ socket = NoFd
  /\ lastError = "none"
  /\ result = [op |-> "none", ret |-> "void"]
  /\ accepting = FALSE
  /\ desc = [f \in Fd |-> ClosedDesc]

Next ==
  \/ Construct \/ Destroy
  \/ \E attempts \in 1 .. MaxAddrs : Open(attempts)
  \/ Close \/ Shutdown \/ CanAccept \/ Accept \/ AcceptReturns
  \/ \E f \in Fd : Environment(f) \/ OtherCloses(f)

Spec == Init /\ [][Next]_vars
-----------------------------------------------------------------------------
TypeOK ==
  /\ kind \in Kinds \cup {"none"}
  /\ socket \in Fd \cup {NoFd}
  /\ lastError \in {"none", "error"}
  /\ result \in Result
  /\ accepting \in BOOLEAN
  /\ desc \in [Fd -> Descriptor]

(* The number in the object always names a socket of its own, through any  *)
(* sequence of opens, failed opens and closes: none is closed twice, and   *)
(* accept() never runs on a descriptor somebody else has got since.        *)
OwnsItsSocket == IsOpen => desc[socket].owner = "server"

(* As long as ::close() succeeds, the walk over the addresses, a listen()  *)
(* that fails and a reopened server leave no socket behind.                *)
NoSocketLeak ==
  ~CloseMayFail => \A f \in Fd : desc[f].owner = "server" => f = socket

(* What open() returned agrees with what the server is left with; only the *)
(* socket of a server that is open listens.                                *)
OpenMeansOpen ==
  /\ result = [op |-> "open", ret |-> "0"] =>
       IsOpen /\ (kind # "udp" => desc[socket].state = "listening")
  /\ result = [op |-> "open", ret |-> "-1"] => CloseMayFail \/ ~IsOpen
  /\ \A f \in Fd : desc[f].state = "listening" =>
       f = socket \/ CloseMayFail

(* Connections that accept() gave away, and the other descriptors of the   *)
(* program, outlive whatever is done to the server.                        *)
OthersUntouched ==
  [][\A f \in Fd : desc[f].owner = "other" =>
       desc'[f].owner = "other" \/ OtherCloses(f)]_vars
=============================================================================
