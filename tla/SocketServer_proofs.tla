-------------------------- MODULE SocketServer_proofs --------------------------
(***************************************************************************)
(* Theorems about SocketServer, for every descriptor table, every number   *)
(* of addresses and every backlog.  The inductive invariant is the type    *)
(* invariant with the ownership of the socket and, when ::close() does not *)
(* fail, the absence of any other socket of the server's.                  *)
(***************************************************************************)
EXTENDS SocketServer, TLAPS

USE ServerAssumption

ServerInv ==
  TypeOK /\ OwnsItsSocket /\ NoSocketLeak /\ (accepting => IsOpen)

LEMMA DescTypes ==
  /\ ClosedDesc \in Descriptor /\ OtherDesc \in Descriptor
  /\ \A st \in {"idle", "listening"} :
       /\ Desc("server", "stream", st) \in Descriptor
       /\ Desc("server", "stream", st).owner = "server"
  /\ ClosedDesc.owner = "nobody" /\ OtherDesc.owner = "other"
  BY DEF ClosedDesc, OtherDesc, Desc, Descriptor

(* close(), on its own or at the start of open(): what it leaves behind.   *)
LEMMA AfterClose ==
  ASSUME ServerInv, NEW fails \in CloseOutcomes
  PROVE  /\ DescAfterClose(fails) \in [Fd -> Descriptor]
         /\ SocketAfterClose(fails) \in Fd \cup {NoFd}
         /\ ErrorAfterClose(fails) \in {"none", "error"}
         /\ SocketAfterClose(fails) # NoFd =>
              DescAfterClose(fails)[SocketAfterClose(fails)].owner = "server"
         /\ ~CloseMayFail =>
              \A f \in Fd : DescAfterClose(fails)[f].owner # "server"
         /\ \A f \in Fd : desc[f].owner = "other" =>
              DescAfterClose(fails)[f] = desc[f]
<1>1. /\ desc \in [Fd -> Descriptor] /\ socket \in Fd \cup {NoFd}
      /\ lastError \in {"none", "error"}
      /\ socket # NoFd => desc[socket].owner = "server"
      /\ ~CloseMayFail => \A f \in Fd : desc[f].owner = "server" => f = socket
  BY DEF ServerInv, TypeOK, OwnsItsSocket, NoSocketLeak, IsOpen
<1>2. fails \in BOOLEAN /\ (fails => CloseMayFail /\ socket # NoFd)
  BY DEF CloseOutcomes, IsOpen
<1>3. CASE fails
  BY <1>1, <1>2, <1>3 DEF DescAfterClose, SocketAfterClose, ErrorAfterClose
<1>4. CASE ~fails
  <2>1. /\ DescAfterClose(fails) = Released(desc, {socket})
        /\ SocketAfterClose(fails) = NoFd /\ ErrorAfterClose(fails) = lastError
    BY <1>4 DEF DescAfterClose, SocketAfterClose, ErrorAfterClose
  <2>2. Released(desc, {socket}) \in [Fd -> Descriptor]
    BY <1>1, DescTypes DEF Released
  <2>3. \A f \in Fd : Released(desc, {socket})[f]
                        = IF f = socket THEN ClosedDesc ELSE desc[f]
    BY DEF Released
  <2> QED
    BY <1>1, <2>1, <2>2, <2>3, DescTypes
<1> QED
  BY <1>2, <1>3, <1>4

(* The outcomes of the walk over the addresses, from a table d.            *)
LEMMA AfterOpen ==
  ASSUME ServerInv, NEW d \in [Fd -> Descriptor], NEW attempts \in 1 .. MaxAddrs,
         ~CloseMayFail => \A f \in Fd : d[f].owner # "server",
         \A f \in Fd : desc[f].owner = "other" => d[f] = desc[f],
         \/ OpenFails(d, attempts)
         \/ OpenBinds(d, attempts, StateWhenOpen)
  PROVE  /\ desc' \in [Fd -> Descriptor]
         /\ socket' \in Fd \cup {NoFd}
         /\ lastError' \in {"none", "error"}
         /\ socket' # NoFd => desc'[socket'].owner = "server"
         /\ ~CloseMayFail =>
              \A f \in Fd : desc'[f].owner = "server" => f = socket'
         /\ \A f \in Fd : desc[f].owner = "other" => desc'[f] = desc[f]
<1>1. ASSUME NEW L \in SUBSET Unused(d)
      PROVE  /\ WithLost(d, L) \in [Fd -> Descriptor]
             /\ \A f \in Fd : WithLost(d, L)[f]
                   = IF f \in L THEN Desc("server", "stream", "idle") ELSE d[f]
             /\ L \subseteq Fd
             /\ \A f \in L : d[f].owner # "other"
  BY DescTypes DEF WithLost, Unused
<1>2. \A n : /\ Lost(d, n) \subseteq SUBSET Unused(d)
             /\ ~CloseMayFail => Lost(d, n) = {{}}
  BY DEF Lost
<1>3. lastError \in {"none", "error"} /\ StateWhenOpen \in {"idle", "listening"}
  BY DEF ServerInv, TypeOK, StateWhenOpen
<1>4. CASE OpenFails(d, attempts)
  <2>1. PICK L \in SUBSET Unused(d) :
               /\ ~CloseMayFail => L = {}
               /\ desc' = WithLost(d, L) /\ socket' \in {NoFd} \cup L
               /\ lastError' = "error"
    BY <1>2, <1>4 DEF OpenFails
  <2> QED
    BY <1>1, <2>1, DescTypes
<1>5. CASE OpenBinds(d, attempts, StateWhenOpen)
  <2>1. PICK L \in SUBSET Unused(d), fd \in Unused(d) :
               /\ fd \notin L
               /\ ~CloseMayFail => L = {}
               /\ desc' = [WithLost(d, L) EXCEPT
                             ![fd] = Desc("server", "stream", StateWhenOpen)]
               /\ socket' = fd
               /\ lastError' \in {lastError, "error"}
    <3>1. PICK L \in Lost(d, attempts - 1) : \E fd \in Unused(d) \ L :
            /\ desc' = [WithLost(d, L) EXCEPT
                          ![fd] = Desc("server", "stream", StateWhenOpen)]
            /\ socket' = fd
            /\ lastError' \in {lastError, "error"}
      BY <1>5 DEF OpenBinds
    <3>2. L \in SUBSET Unused(d) /\ (~CloseMayFail => L = {})
      BY <1>2, <3>1
    <3> QED
      BY <3>1, <3>2
  <2>2. fd \in Fd /\ d[fd].owner # "other"
    BY DescTypes DEF Unused
  <2>3. /\ desc' \in [Fd -> Descriptor]
        /\ \A f \in Fd : desc'[f] = IF f = fd
                                    THEN Desc("server", "stream", StateWhenOpen)
                                    ELSE WithLost(d, L)[f]
    BY <1>1, <1>3, <2>1, <2>2, DescTypes
  <2> QED
    BY <1>1, <1>3, <2>1, <2>2, <2>3, DescTypes
<1> QED
  BY <1>4, <1>5

(* accept(): the new descriptor is one nobody had.                         *)
LEMMA AfterAccept ==
  ASSUME ServerInv, Accepts \/ AcceptFails, socket # NoFd
  PROVE  /\ desc' \in [Fd -> Descriptor]
         /\ lastError' \in {"none", "error"} /\ result' \in Result
         /\ \A f \in Fd : desc'[f].owner = "server" <=> desc[f].owner = "server"
         /\ \A f \in Fd : desc[f].owner = "other" => desc'[f] = desc[f]
<1>1. /\ desc \in [Fd -> Descriptor] /\ socket \in Fd
      /\ lastError \in {"none", "error"} /\ desc[socket].owner = "server"
  BY DEF ServerInv, TypeOK, OwnsItsSocket, IsOpen
<1>2. CASE AcceptFails
  BY <1>1, <1>2 DEF AcceptFails, Return, Result
<1>3. CASE Accepts
  <2>1. PICK fd \in Unused(desc) :
          desc' = [desc EXCEPT ![fd] = OtherDesc, ![socket].waiting = @ - 1]
    BY <1>3 DEF Accepts
  <2>2. fd \in Fd /\ desc[fd].owner = "nobody" /\ fd # socket
    BY <1>1, DescTypes DEF Unused
  <2>3. /\ desc[socket].waiting - 1 \in 0 .. Backlog
    BY <1>1, <1>3 DEF Accepts, Descriptor
  <2>4. [desc[socket] EXCEPT !.waiting = @ - 1] \in Descriptor
    BY <1>1, <2>3 DEF Descriptor
  <2>5. \A f \in Fd : desc'[f] =
          IF f = socket THEN [desc[socket] EXCEPT !.waiting = @ - 1]
          ELSE IF f = fd THEN OtherDesc ELSE desc[f]
    BY <1>1, <2>1, <2>2
  <2>6. desc' \in [Fd -> Descriptor]
    BY <1>1, <2>1, <2>2, <2>4, DescTypes
  <2>7. [desc[socket] EXCEPT !.waiting = @ - 1].owner = "server"
    BY <1>1 DEF Descriptor
  <2>8. lastError' = lastError /\ result' \in Result
    BY <1>3 DEF Accepts, Return, Result
  <2> QED
    BY <1>1, <2>2, <2>5, <2>6, <2>7, <2>8, DescTypes
<1> QED
  BY <1>2, <1>3

(* One step of the environment leaves the server's descriptors alone.      *)
LEMMA AfterEnvironment ==
  ASSUME ServerInv, NEW g \in Fd, Environment(g) \/ OtherCloses(g)
  PROVE  /\ desc' \in [Fd -> Descriptor]
         /\ \A f \in Fd : desc'[f].owner = "server" <=> desc[f].owner = "server"
         /\ \A f \in Fd : desc[f].owner = "other" =>
              desc'[f].owner = "other" \/ OtherCloses(f)
         /\ UNCHANGED <<kind, socket, lastError, result, accepting>>
<1>1. desc \in [Fd -> Descriptor]
  BY DEF ServerInv, TypeOK
<1>2. PICK new \in Descriptor :
        /\ desc' = [desc EXCEPT ![g] = new]
        /\ new.owner = "server" <=> desc[g].owner = "server"
        /\ desc[g].owner = "other" => new.owner = "other" \/ OtherCloses(g)
  <2>1. CASE OtherCloses(g)
    <3>1. desc' = [desc EXCEPT ![g] = ClosedDesc]
      BY <1>1, <2>1 DEF OtherCloses, Released
    <3> QED
      BY <2>1, <3>1, DescTypes DEF OtherCloses
  <2>2. CASE /\ desc[g].state = "listening" /\ desc[g].waiting < Backlog
             /\ desc' = [desc EXCEPT ![g].waiting = @ + 1]
    <3>1. [desc[g] EXCEPT !.waiting = @ + 1] \in Descriptor
      BY <1>1, <2>2 DEF Descriptor
    <3>2. [desc[g] EXCEPT !.waiting = @ + 1].owner = desc[g].owner
      BY <1>1 DEF Descriptor
    <3> QED
      BY <2>2, <3>1, <3>2
  <2>3. CASE desc[g].waiting > 0 /\ desc' = [desc EXCEPT ![g].waiting = @ - 1]
    <3>1. [desc[g] EXCEPT !.waiting = @ - 1] \in Descriptor
      BY <1>1, <2>3 DEF Descriptor
    <3>2. [desc[g] EXCEPT !.waiting = @ - 1].owner = desc[g].owner
      BY <1>1 DEF Descriptor
    <3> QED
      BY <2>3, <3>1, <3>2
  <2>4. CASE g \in Unused(desc) /\ desc' = [desc EXCEPT ![g] = OtherDesc]
    BY <2>4, DescTypes DEF Unused
  <2> QED
    BY <2>1, <2>2, <2>3, <2>4 DEF Environment
<1>3. \A f \in Fd : desc'[f] = IF f = g THEN new ELSE desc[f]
  BY <1>1, <1>2
<1>4. desc' \in [Fd -> Descriptor]
  BY <1>1, <1>2
<1> QED
  BY <1>2, <1>3, <1>4 DEF Environment, OtherCloses
-----------------------------------------------------------------------------
LEMMA ServerInit ==
  ASSUME Init PROVE ServerInv
  BY DescTypes DEF Init, ServerInv, TypeOK, OwnsItsSocket, NoSocketLeak,
                   IsOpen, Result, Kinds

(* Every action keeps the invariant and leaves the descriptors of others   *)
(* as they are; only OtherCloses and the environment may touch those.      *)
LEMMA ServerStep ==
  ASSUME ServerInv, [Next]_vars
  PROVE  /\ ServerInv'
         /\ \A f \in Fd : desc[f].owner = "other" =>
              desc'[f].owner = "other" \/ OtherCloses(f)
<1> DEFINE Kept == \A f \in Fd : desc[f].owner = "other" =>
                     desc'[f].owner = "other" \/ OtherCloses(f)
<1>0. /\ kind \in Kinds \cup {"none"} /\ socket \in Fd \cup {NoFd}
      /\ lastError \in {"none", "error"} /\ result \in Result
      /\ accepting \in BOOLEAN /\ desc \in [Fd -> Descriptor]
      /\ socket # NoFd => desc[socket].owner = "server"
      /\ ~CloseMayFail => \A f \in Fd : desc[f].owner = "server" => f = socket
      /\ accepting => socket # NoFd
  BY DEF ServerInv, TypeOK, OwnsItsSocket, NoSocketLeak, IsOpen
<1>a. ASSUME /\ kind' \in Kinds \cup {"none"} /\ socket' \in Fd \cup {NoFd}
             /\ lastError' \in {"none", "error"} /\ result' \in Result
             /\ accepting' \in BOOLEAN /\ desc' \in [Fd -> Descriptor]
             /\ socket' # NoFd => desc'[socket'].owner = "server"
             /\ ~CloseMayFail =>
                  \A f \in Fd : desc'[f].owner = "server" => f = socket'
             /\ accepting' => socket' # NoFd
      PROVE  ServerInv'
  BY <1>a DEF ServerInv, TypeOK, OwnsItsSocket, NoSocketLeak, IsOpen, Result,
              Kinds, Descriptor
<1>1. CASE Construct
  <2>1. kind' \in Kinds /\ lastError' = "none" /\ result' \in Result
        /\ UNCHANGED <<socket, accepting, desc>>
    BY <1>1 DEF Construct, Return, Result
  <2> QED
    BY <1>0, <1>a, <2>1
<1>2. CASE Destroy
  <2>1. PICK fails \in CloseOutcomes : desc' = DescAfterClose(fails)
    BY <1>2 DEF Destroy
  <2>2. kind' = "none" /\ socket' = NoFd /\ lastError' = "none"
        /\ result' \in Result /\ UNCHANGED accepting /\ ~accepting
    BY <1>2 DEF Destroy, Idle, Return, Result
  <2> QED
    BY <1>0, <1>a, <2>1, <2>2, AfterClose
<1>3. CASE Close
  <2>1. PICK fails \in CloseOutcomes :
               /\ socket' = SocketAfterClose(fails)
               /\ desc' = DescAfterClose(fails)
               /\ lastError' = ErrorAfterClose(fails)
    BY <1>3 DEF Close
  <2>2. result' \in Result /\ UNCHANGED <<kind, accepting>> /\ ~accepting
    BY <1>3 DEF Close, Idle, Return, Result
  <2> QED
    BY <1>0, <1>a, <2>1, <2>2, AfterClose
<1>4. ASSUME NEW attempts \in 1 .. MaxAddrs, Open(attempts)
      PROVE  ServerInv' /\ Kept
  <2>1. PICK fails \in CloseOutcomes :
          \/ OpenRefused(fails)
          \/ OpenFails(DescAfterClose(fails), attempts)
          \/ OpenBinds(DescAfterClose(fails), attempts, StateWhenOpen)
    BY <1>4 DEF Open
  <2>2. result' \in Result /\ UNCHANGED <<kind, accepting>> /\ ~accepting
    BY <1>4 DEF Open, Idle, Return, Result
  <2>3. CASE OpenRefused(fails)
    BY <1>0, <1>a, <2>2, <2>3, AfterClose DEF OpenRefused
  <2>4. CASE \/ OpenFails(DescAfterClose(fails), attempts)
             \/ OpenBinds(DescAfterClose(fails), attempts, StateWhenOpen)
    <3> DEFINE d == DescAfterClose(fails)
    <3>1. /\ d \in [Fd -> Descriptor]
          /\ ~CloseMayFail => \A f \in Fd : d[f].owner # "server"
          /\ \A f \in Fd : desc[f].owner = "other" => d[f] = desc[f]
      BY AfterClose
    <3>2. OpenFails(d, attempts) \/ OpenBinds(d, attempts, StateWhenOpen)
      BY <2>4
    <3> HIDE DEF d
    <3>3. /\ desc' \in [Fd -> Descriptor]
          /\ socket' \in Fd \cup {NoFd}
          /\ lastError' \in {"none", "error"}
          /\ socket' # NoFd => desc'[socket'].owner = "server"
          /\ ~CloseMayFail =>
               \A f \in Fd : desc'[f].owner = "server" => f = socket'
          /\ \A f \in Fd : desc[f].owner = "other" => desc'[f] = desc[f]
      BY <1>4, <3>1, <3>2, AfterOpen
    <3> QED
      BY <1>0, <1>a, <2>2, <3>3
  <2> QED
    BY <2>1, <2>3, <2>4
<1>5. CASE Shutdown
  <2>1. /\ lastError' \in {"none", "error"} /\ result' \in Result
        /\ UNCHANGED <<kind, socket, accepting>> /\ socket \in Fd
    BY <1>0, <1>5 DEF Shutdown, Return, Result, IsOpen
  <2>2. CASE UNCHANGED desc
    BY <1>0, <1>a, <2>1, <2>2
  <2>3. CASE desc' = [desc EXCEPT ![socket] = Desc("server", "stream", "idle")]
    <3>1. \A f \in Fd : desc'[f] = IF f = socket
                                   THEN Desc("server", "stream", "idle")
                                   ELSE desc[f]
      BY <1>0, <2>3
    <3>2. desc' \in [Fd -> Descriptor]
      BY <1>0, <2>3, DescTypes
    <3>3. desc[socket].owner = "server"
      BY <1>0, <1>5 DEF Shutdown, IsOpen
    <3> QED
      BY <1>0, <1>a, <1>5, <2>1, <3>1, <3>2, <3>3, DescTypes DEF Shutdown, Idle
  <2> QED
    BY <1>5, <2>2, <2>3 DEF Shutdown
<1>6. CASE CanAccept
  <2>1. /\ lastError' \in {"none", "error"} /\ result' \in Result
        /\ UNCHANGED <<kind, socket, accepting, desc>>
    BY <1>0, <1>6 DEF CanAccept, Return, Result
  <2> QED
    BY <1>0, <1>a, <2>1
<1>7. CASE Accept \/ AcceptReturns
  <2>1. /\ UNCHANGED <<kind, socket>> /\ accepting' \in BOOLEAN
        /\ accepting' => socket # NoFd
    <3>1. CASE Accept
      <4>1. UNCHANGED <<kind, socket>>
        BY <3>1 DEF Accept
      <4>2. \/ UNCHANGED accepting
            \/ socket # NoFd /\ accepting' = TRUE
        BY <3>1, Zenon DEF Accept, IsOpen
      <4>3. accepting \in BOOLEAN /\ (accepting => socket # NoFd)
        BY <1>0, Zenon
      <4>4. CASE UNCHANGED accepting
        BY <4>1, <4>3, <4>4, Zenon
      <4>5. CASE socket # NoFd /\ accepting' = TRUE
        BY <4>1, <4>5, Zenon
      <4> QED
        BY <4>2, <4>4, <4>5, Zenon
    <3>2. CASE AcceptReturns
      BY <3>2 DEF AcceptReturns
    <3> QED
      BY <1>7, <3>1, <3>2
  <2>2. CASE socket # NoFd /\ (Accepts \/ AcceptFails)
    <3>1. /\ desc' \in [Fd -> Descriptor]
          /\ lastError' \in {"none", "error"} /\ result' \in Result
          /\ \A f \in Fd : desc'[f].owner = "server" <=> desc[f].owner = "server"
          /\ \A f \in Fd : desc[f].owner = "other" => desc'[f] = desc[f]
      BY <2>2, AfterAccept
    <3> QED
      BY <1>0, <1>a, <2>1, <2>2, <3>1
  <2>3. CASE UNCHANGED <<lastError, desc>> /\ result' \in Result
    BY <1>0, <1>a, <2>1, <2>3
  <2>4. CASE socket = NoFd
    <3>1. Accept
      BY <1>0, <1>7, <2>4 DEF AcceptReturns
    <3>2. /\ UNCHANGED <<lastError, desc>>
          /\ result' = [op |-> "accept", ret |-> "invalid"]
      BY <2>4, <3>1 DEF Accept, IsOpen, Return
    <3>3. result' \in Result
      BY <3>2 DEF Result
    <3> QED
      BY <2>3, <3>2, <3>3
  <2> QED
    BY <1>0, <1>7, <2>2, <2>3, <2>4 DEF Accept, AcceptReturns, IsOpen
<1>8. CASE \E f \in Fd : Environment(f) \/ OtherCloses(f)
  BY <1>0, <1>a, <1>8, AfterEnvironment
<1>9. CASE UNCHANGED vars
  BY <1>0, <1>a, <1>9 DEF vars
<1> QED
  BY <1>1, <1>2, <1>3, <1>4, <1>5, <1>6, <1>7, <1>8, <1>9 DEF Next

(* The object's number names a socket of its own, whatever fails.          *)
THEOREM OwnershipTheorem == Spec => [](TypeOK /\ OwnsItsSocket)
<1>1. Init => ServerInv
  BY ServerInit
<1>2. ServerInv /\ [Next]_vars => ServerInv'
  BY ServerStep
<1>3. ServerInv => TypeOK /\ OwnsItsSocket
  BY DEF ServerInv
<1> QED
  BY <1>1, <1>2, <1>3, PTL DEF Spec

(* Type correctness of the server and of the descriptor table.             *)
THEOREM TypeTheorem == Spec => []TypeOK
<1>1. TypeOK /\ OwnsItsSocket => TypeOK
  OBVIOUS
<1> QED
  BY <1>1, OwnershipTheorem, PTL

(* No path through open(), close() and the destructor loses a socket as    *)
(* long as ::close() succeeds.                                             *)
THEOREM LeakTheorem == Spec => []NoSocketLeak
<1>1. Init => ServerInv
  BY ServerInit
<1>2. ServerInv /\ [Next]_vars => ServerInv'
  BY ServerStep
<1>3. ServerInv => NoSocketLeak
  BY DEF ServerInv
<1> QED
  BY <1>1, <1>2, <1>3, PTL DEF Spec

(* No step of the server closes a descriptor it has given away, or one it  *)
(* never had.                                                              *)
THEOREM OthersTheorem == Spec => OthersUntouched
<1>1. Init => ServerInv
  BY ServerInit
<1>2. ServerInv /\ [Next]_vars => ServerInv'
  BY ServerStep
<1>3. ServerInv /\ [Next]_vars
        => [\A f \in Fd : desc[f].owner = "other" =>
              desc'[f].owner = "other" \/ OtherCloses(f)]_vars
  BY ServerStep
<1> QED
  BY <1>1, <1>2, <1>3, PTL DEF Spec, OthersUntouched
-----------------------------------------------------------------------------
(***************************************************************************)
(* The answers of open().  Only a descriptor of the server ever listens,   *)
(* so that what others do cannot make an answer untrue.                    *)
(***************************************************************************)
ListenersOwned ==
  \A f \in Fd : desc[f].state = "listening" => desc[f].owner = "server"

OpenAnswers ==
  /\ result = [op |-> "open", ret |-> "0"] =>
       IsOpen /\ (kind # "udp" => desc[socket].state = "listening")
  /\ result = [op |-> "open", ret |-> "-1"] => CloseMayFail \/ ~IsOpen

LEMMA States ==
  /\ ClosedDesc.state # "listening" /\ OtherDesc.state # "listening"
  /\ \A st : /\ Desc("server", "stream", st).state = st
             /\ Desc("server", "stream", st).owner = "server"
  BY DEF ClosedDesc, OtherDesc, Desc

LEMMA ClosedListeners ==
  ASSUME ServerInv, ListenersOwned, NEW fails \in BOOLEAN, NEW f \in Fd,
         DescAfterClose(fails)[f].state = "listening"
  PROVE  DescAfterClose(fails)[f].owner = "server"
  BY States DEF DescAfterClose, Released, ListenersOwned

(* The table after a walk from d over the addresses.                       *)
LEMMA OpenedListeners ==
  ASSUME NEW d \in [Fd -> Descriptor], NEW attempts \in 1 .. MaxAddrs,
         \A f \in Fd : d[f].state = "listening" => d[f].owner = "server",
         OpenFails(d, attempts) \/ OpenBinds(d, attempts, StateWhenOpen)
  PROVE  ListenersOwned'
<1>1. ASSUME NEW L, NEW f \in Fd, WithLost(d, L)[f].state = "listening"
      PROVE  WithLost(d, L)[f].owner = "server"
  BY <1>1, States DEF WithLost
<1>2. CASE OpenFails(d, attempts)
  BY <1>1, <1>2 DEF OpenFails, ListenersOwned
<1>3. CASE OpenBinds(d, attempts, StateWhenOpen)
  <2>1. PICK L, fd : desc' = [WithLost(d, L) EXCEPT
                                ![fd] = Desc("server", "stream", StateWhenOpen)]
    BY <1>3 DEF OpenBinds
  <2>2. \A f \in Fd : desc'[f] = IF f = fd
                                 THEN Desc("server", "stream", StateWhenOpen)
                                 ELSE WithLost(d, L)[f]
    BY <2>1 DEF WithLost
  <2> QED
    BY <1>1, <2>2, States DEF ListenersOwned
<1> QED
  BY <1>2, <1>3

(* When open() has opened, its socket listens, unless it is a udp server's;*)
(* when it has not, none is left.                                          *)
LEMMA OpenedAnswers ==
  ASSUME ServerInv, NEW attempts \in 1 .. MaxAddrs, Open(attempts)
  PROVE  OpenAnswers'
<1>1. PICK fails \in CloseOutcomes :
        \/ OpenRefused(fails) /\ Return("open", "-1")
        \/ OpenFails(DescAfterClose(fails), attempts) /\ Return("open", "-1")
        \/ /\ OpenBinds(DescAfterClose(fails), attempts, StateWhenOpen)
           /\ Return("open", "0")
  BY <1>1 DEF Open
<1>a. kind' = kind
  BY DEF Open
<1>b. ~CloseMayFail => fails = FALSE
  BY DEF CloseOutcomes
<1> DEFINE d == DescAfterClose(fails)
<1>2. CASE OpenRefused(fails) /\ Return("open", "-1")
  BY <1>b, <1>2 DEF OpenRefused, SocketAfterClose, Return, OpenAnswers, IsOpen
<1>3. CASE OpenFails(d, attempts) /\ Return("open", "-1")
  <2>1. ~CloseMayFail => socket' = NoFd
    BY <1>3 DEF OpenFails, Lost
  <2> QED
    BY <1>3, <2>1 DEF Return, OpenAnswers, IsOpen
<1>4. CASE OpenBinds(d, attempts, StateWhenOpen) /\ Return("open", "0")
  <2>0. PICK L \in Lost(d, attempts - 1) : \E fd \in Unused(d) \ L :
          /\ desc' = [WithLost(d, L) EXCEPT
                        ![fd] = Desc("server", "stream", StateWhenOpen)]
          /\ socket' = fd
    BY <1>4 DEF OpenBinds
  <2>1. PICK fd \in Unused(d) \ L :
          /\ desc' = [WithLost(d, L) EXCEPT
                        ![fd] = Desc("server", "stream", StateWhenOpen)]
          /\ socket' = fd
    BY <2>0
  <2>2. fd \in Fd /\ fd # NoFd
    BY DEF Unused
  <2>3. desc'[socket'].state = StateWhenOpen
    BY <2>1, <2>2, States DEF WithLost
  <2> QED
    BY <1>a, <1>4, <2>1, <2>2, <2>3 DEF Return, OpenAnswers, IsOpen, StateWhenOpen
<1> QED
  BY <1>1, <1>2, <1>3, <1>4

LEMMA OpenStep ==
  ASSUME ServerInv, ListenersOwned, OpenAnswers, [Next]_vars
  PROVE  ListenersOwned' /\ OpenAnswers'
<1>0. /\ desc \in [Fd -> Descriptor] /\ socket \in Fd \cup {NoFd}
      /\ socket # NoFd => desc[socket].owner = "server"
  BY DEF ServerInv, TypeOK, OwnsItsSocket, IsOpen
<1>a. ASSUME result'.op # "open"
      PROVE  OpenAnswers'
  BY <1>a DEF OpenAnswers
<1>b. ASSUME UNCHANGED desc
      PROVE  ListenersOwned'
  BY <1>b DEF ListenersOwned
<1>c. \A fails \in CloseOutcomes : fails \in BOOLEAN
  BY DEF CloseOutcomes
<1>1. CASE Construct
  BY <1>a, <1>b, <1>1 DEF Construct, Return
<1>2. CASE Destroy \/ Close
  <2>1. PICK fails \in CloseOutcomes : desc' = DescAfterClose(fails)
    BY <1>2 DEF Destroy, Close
  <2>2. ListenersOwned'
    BY <1>c, <2>1, ClosedListeners DEF ListenersOwned
  <2> QED
    BY <1>a, <1>2, <2>2 DEF Destroy, Close, Return
<1>3. ASSUME NEW attempts \in 1 .. MaxAddrs, Open(attempts)
      PROVE  ListenersOwned' /\ OpenAnswers'
  <2>1. PICK fails \in CloseOutcomes :
          \/ OpenRefused(fails)
          \/ OpenFails(DescAfterClose(fails), attempts)
          \/ OpenBinds(DescAfterClose(fails), attempts, StateWhenOpen)
    BY <1>3 DEF Open
  <2> DEFINE d == DescAfterClose(fails)
  <2>2. d \in [Fd -> Descriptor]
    BY AfterClose
  <2>3. \A f \in Fd : d[f].state = "listening" => d[f].owner = "server"
    BY <1>c, ClosedListeners
  <2>4. CASE OpenRefused(fails)
    <3>1. ListenersOwned'
      BY <2>3, <2>4 DEF OpenRefused, ListenersOwned
    <3> QED
      BY <1>3, <3>1, OpenedAnswers
  <2>5. CASE OpenFails(d, attempts) \/ OpenBinds(d, attempts, StateWhenOpen)
    <3> HIDE DEF d
    <3>1. ListenersOwned'
      BY <1>3, <2>2, <2>3, <2>5, OpenedListeners
    <3> QED
      BY <1>3, <3>1, OpenedAnswers
  <2> QED
    BY <2>1, <2>4, <2>5
<1>4. CASE Shutdown
  <2>1. CASE UNCHANGED desc
    BY <1>a, <1>b, <1>4, <2>1 DEF Shutdown, Return
  <2>2. CASE desc' = [desc EXCEPT ![socket] = Desc("server", "stream", "idle")]
    <3>1. ListenersOwned'
      BY <1>0, <2>2, States DEF ListenersOwned
    <3> QED
      BY <1>a, <1>4, <3>1 DEF Shutdown, Return
  <2> QED
    BY <1>4, <2>1, <2>2 DEF Shutdown
<1>5. CASE CanAccept
  BY <1>a, <1>b, <1>5 DEF CanAccept, Return
<1>6. CASE Accept \/ AcceptReturns
  <2>1. CASE Accepts
    <3>1. PICK fd \in Unused(desc) :
            desc' = [desc EXCEPT ![fd] = OtherDesc, ![socket].waiting = @ - 1]
      BY <2>1 DEF Accepts
    <3>a. fd # socket
      BY <1>0, States DEF Unused, ClosedDesc, Desc
    <3>2. \A f \in Fd : \/ desc'[f] = OtherDesc
                        \/ desc'[f] = desc[f]
                        \/ desc'[f] = [desc[f] EXCEPT !.waiting = @ - 1]
      BY <1>0, <3>1, <3>a
    <3>3. \A f \in Fd : /\ [desc[f] EXCEPT !.waiting = @ - 1].state = desc[f].state
                        /\ [desc[f] EXCEPT !.waiting = @ - 1].owner = desc[f].owner
      BY <1>0 DEF Descriptor
    <3>4. ListenersOwned'
      BY <3>2, <3>3, States DEF ListenersOwned
    <3> QED
      BY <1>a, <2>1, <3>4 DEF Accepts, Return
  <2>2. CASE AcceptFails
    BY <1>a, <1>b, <2>2 DEF AcceptFails, Return
  <2>3. CASE UNCHANGED desc /\ Return("accept", "invalid")
    BY <1>a, <1>b, <2>3 DEF Return
  <2>4. CASE UNCHANGED <<desc, result, socket, kind>>
    BY <1>b, <2>4 DEF OpenAnswers, IsOpen
  <2> QED
    BY <1>6, <2>1, <2>2, <2>3, <2>4 DEF Accept, AcceptReturns
<1>7. ASSUME NEW g \in Fd, Environment(g) \/ OtherCloses(g)
      PROVE  ListenersOwned' /\ OpenAnswers'
  <2>1. UNCHANGED <<kind, socket, result>>
    BY <1>7 DEF Environment, OtherCloses
  <2>2. ASSUME NEW n
        PROVE  /\ [desc[g] EXCEPT !.waiting = n].state = desc[g].state
               /\ [desc[g] EXCEPT !.waiting = n].owner = desc[g].owner
    BY <1>0 DEF Descriptor
  <2>3. \A f \in Fd : \/ desc'[f] = desc[f]
                      \/ f = g /\ desc[f].owner # "server"
                         /\ desc'[f] \in {OtherDesc, ClosedDesc}
                      \/ /\ desc'[f].state = desc[f].state
                         /\ desc'[f].owner = desc[f].owner
    <3>1. CASE OtherCloses(g)
      BY <1>0, <3>1 DEF OtherCloses, Released
    <3>2. CASE g \in Unused(desc) /\ desc' = [desc EXCEPT ![g] = OtherDesc]
      BY <1>0, <3>2, DescTypes DEF Unused
    <3>3. CASE desc' = [desc EXCEPT ![g].waiting = @ + 1]
      BY <1>0, <2>2, <3>3
    <3>4. CASE desc' = [desc EXCEPT ![g].waiting = @ - 1]
      BY <1>0, <2>2, <3>4
    <3> QED
      BY <1>7, <3>1, <3>2, <3>3, <3>4 DEF Environment
  <2>4. ListenersOwned'
    BY <2>3, States DEF ListenersOwned
  <2>5. IsOpen => desc'[socket].state = desc[socket].state
    BY <1>0, <2>3 DEF IsOpen
  <2> QED
    BY <2>1, <2>4, <2>5 DEF OpenAnswers, IsOpen
<1>8. CASE UNCHANGED vars
  BY <1>b, <1>8 DEF vars, OpenAnswers, IsOpen
<1> QED
  BY <1>1, <1>2, <1>3, <1>4, <1>5, <1>6, <1>7, <1>8 DEF Next

(* What open() answers is true of the server and stays true until its next *)
(* call, whatever clients and other descriptors do meanwhile.              *)
THEOREM OpenTheorem == Spec => []OpenMeansOpen
<1>1. Init => ServerInv /\ ListenersOwned /\ OpenAnswers
  <2> SUFFICES ASSUME Init PROVE ListenersOwned /\ OpenAnswers
    BY ServerInit
  <2>1. ListenersOwned
    BY States DEF Init, ListenersOwned
  <2>2. OpenAnswers
    BY DEF Init, OpenAnswers
  <2> QED
    BY <2>1, <2>2
<1>2. ServerInv /\ ListenersOwned /\ OpenAnswers /\ [Next]_vars
        => ServerInv' /\ ListenersOwned' /\ OpenAnswers'
  BY ServerStep, OpenStep
<1>3. ServerInv /\ ListenersOwned /\ OpenAnswers => OpenMeansOpen
  BY DEF ServerInv, NoSocketLeak, ListenersOwned, OpenAnswers, OpenMeansOpen
<1> QED
  BY <1>1, <1>2, <1>3, PTL DEF Spec
=============================================================================
