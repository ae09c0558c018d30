----------------------- MODULE TcpSocketStream_proofs -----------------------
(***************************************************************************)
(* Theorems about TcpSocketStream, for every number of descriptors, every  *)
(* number and length of address lists, and ::close() failing or not.       *)
(***************************************************************************)
EXTENDS TcpSocketStream, TLAPS

(* A destroyed object holds nothing, and only a live one is inside open(). *)
ObjectGone ==
  /\ ~alive => /\ sockbufSocket = NoFd
               /\ connectingSocket = NoFd
               /\ connectingAddrlist = NoList
  /\ inOpen => alive

(* What every method must leave behind of the stream's own fields, and all *)
(* of it together: the part of the invariant that says who owns what is    *)
(* separate.                                                               *)
CursorOK ==
  /\ sockbufSocket \in Fd \cup {NoFd}
  /\ connectingSocket \in Fd \cup {NoFd}
  /\ connectingAddress \in Address
  /\ connectingAddrlist \in AddrList \cup {NoList}
  /\ desc \in [Fd -> Descriptor]
  /\ heap \in [AddrList -> 0 .. MaxAddrs]
  /\ PendingCursorLive

CursorInv == TypeOK /\ PendingCursorLive /\ ObjectGone

USE TcpAssumption DEF NullAddress, Return

(* What a close leaves behind has the types of the variables.              *)
LEMMA ReleasedType ==
  ASSUME NEW d \in [Fd -> Descriptor], NEW S
  PROVE  /\ Released(d, S) \in [Fd -> Descriptor]
         /\ \A f \in Fd : Released(d, S)[f] = IF f \in S THEN ClosedDesc ELSE d[f]
  BY DEF Released, Descriptor, ClosedDesc, Conn

LEMMA AfterAbandonType ==
  ASSUME NEW d \in [Fd -> Descriptor]
  PROVE  AfterAbandon(d) \subseteq [Fd -> Descriptor]
<1>1. StreamDesc("connected", TRUE) \in Descriptor
  BY DEF StreamDesc, Descriptor, Conn
<1> QED
  BY <1>1 DEF AfterAbandon, Unused

LEMMA CloseHeldType ==
  ASSUME NEW d \in [Fd -> Descriptor], NEW kept, TypeOK, CloseHeld(d, kept)
  PROVE  /\ desc' \in [Fd -> Descriptor]
         /\ sockbufSocket' \in Fd \cup {NoFd}
         /\ connectingSocket' = NoFd
         /\ ErrorAfterClose(kept) \in Errors
  BY ReleasedType DEF CloseHeld, DescAfterClose, SockbufAfterClose, TypeOK,
     ErrorAfterClose, Errors

LEMMA LetGoType ==
  ASSUME NEW d \in [Fd -> Descriptor]
  PROVE  /\ LetGo(d) \in [Fd -> Descriptor]
         /\ \A f \in Fd : f # sockbufSocket => LetGo(d)[f] = d[f]
         /\ \A f \in Fd : f = sockbufSocket => LetGo(d)[f].owner = "other"
  BY DEF LetGo, Descriptor

LEMMA FreeAddrlistType ==
  ASSUME TypeOK
  PROVE  /\ FreeAddrlist(heap, connectingAddrlist) \in [AddrList -> 0 .. MaxAddrs]
         /\ \A l \in AddrList : l # connectingAddrlist =>
              FreeAddrlist(heap, connectingAddrlist)[l] = heap[l]
  BY DEF TypeOK, FreeAddrlist

LEMMA InitCursor ==
  ASSUME Init PROVE CursorInv
<1>1. ClosedDesc \in Descriptor
  BY DEF ClosedDesc, Descriptor, Conn
<1>2. connectingAddress \in Address
  BY DEF Init, Address
<1>3. result \in Result
  BY DEF Init, Result
<1>4. desc \in [Fd -> Descriptor] /\ heap \in [AddrList -> 0 .. MaxAddrs]
  BY <1>1 DEF Init
<1>5. TypeOK
  BY <1>2, <1>3, <1>4 DEF Init, TypeOK, Errors
<1> QED
  BY <1>5 DEF Init, CursorInv, PendingCursorLive, ObjectGone, ConnectPending

(* The outcomes of the open() methods.                                     *)
LEMMA OpenFailsCursor ==
  ASSUME CursorInv, NEW kept, OpenFails(kept)
  PROVE  /\ desc' \in [Fd -> Descriptor]
         /\ sockbufSocket' \in Fd \cup {NoFd}
         /\ connectingSocket' = NoFd
         /\ connectingAddress' = connectingAddress
         /\ connectingAddrlist' = NoList
         /\ heap' \in [AddrList -> 0 .. MaxAddrs]
         /\ ErrorAfterClose(kept) \in Errors
  BY CloseHeldType, FreeAddrlistType DEF OpenFails, CursorInv, TypeOK

LEMMA OpenConnectsCursor ==
  ASSUME CursorInv, NEW kept, NEW nonblock \in BOOLEAN,
         OpenConnects(kept, nonblock)
  PROVE  /\ desc' \in [Fd -> Descriptor]
         /\ sockbufSocket' \in Fd
         /\ connectingSocket' = NoFd
         /\ connectingAddress' = connectingAddress
         /\ connectingAddrlist' = NoList
         /\ heap' \in [AddrList -> 0 .. MaxAddrs]
         /\ ErrorAfterClose(kept) \in Errors
<1>1. DescAfterClose(desc, kept) \in [Fd -> Descriptor]
  BY ReleasedType DEF DescAfterClose, CursorInv, TypeOK
<1>2. Blocking(StreamDesc("connected", nonblock)) \in Descriptor
  BY DEF Blocking, StreamDesc, Descriptor, Conn
<1>3. ErrorAfterClose(kept) \in Errors
  BY DEF CursorInv, TypeOK, ErrorAfterClose, Errors
<1> QED
  BY <1>1, <1>2, <1>3, FreeAddrlistType DEF OpenConnects, CursorInv, TypeOK, Unused

LEMMA OpenPendsCursor ==
  ASSUME CursorInv, NEW kept, NEW address \in Address,
         NEW list \in AddrList \cup {NoList}, NEW length \in 1 .. MaxAddrs,
         OpenPends(kept, address, list, length)
  PROVE  /\ desc' \in [Fd -> Descriptor]
         /\ sockbufSocket' \in Fd \cup {NoFd}
         /\ connectingSocket' \in Fd
         /\ connectingAddress' = address
         /\ connectingAddrlist' = list
         /\ heap' \in [AddrList -> 0 .. MaxAddrs]
         /\ list # NoList => heap'[list] = length
         /\ ErrorAfterClose(kept) \in Errors
<1>1. DescAfterClose(desc, kept) \in [Fd -> Descriptor]
  BY ReleasedType DEF DescAfterClose, CursorInv, TypeOK
<1>2. StreamDesc("connecting", TRUE) \in Descriptor
  BY DEF StreamDesc, Descriptor, Conn
<1>3. ErrorAfterClose(kept) \in Errors /\ SockbufAfterClose(kept) \in Fd \cup {NoFd}
  BY DEF CursorInv, TypeOK, ErrorAfterClose, Errors, SockbufAfterClose
<1>4. FreeAddrlist(heap, connectingAddrlist) \in [AddrList -> 0 .. MaxAddrs]
  BY FreeAddrlistType DEF CursorInv
<1>5. PICK fd \in Unused(DescAfterClose(desc, kept)) :
        /\ desc' = [DescAfterClose(desc, kept) EXCEPT
                      ![fd] = StreamDesc("connecting", TRUE)]
        /\ sockbufSocket' = SockbufAfterClose(kept)
        /\ connectingSocket' = fd
        /\ connectingAddress' = address
        /\ connectingAddrlist' = list
        /\ heap' = IF list = NoList
                     THEN FreeAddrlist(heap, connectingAddrlist)
                     ELSE [FreeAddrlist(heap, connectingAddrlist) EXCEPT
                             ![list] = length]
  BY DEF OpenPends
<1>6. heap' \in [AddrList -> 0 .. MaxAddrs] /\ (list # NoList => heap'[list] = length)
  BY <1>4, <1>5
<1> QED
  BY <1>1, <1>2, <1>3, <1>5, <1>6 DEF Unused

LEMMA OpenFailsOK ==
  ASSUME CursorInv, NEW kept, OpenFails(kept)
  PROVE  CursorOK' /\ ErrorAfterClose(kept) \in Errors
  BY OpenFailsCursor DEF CursorInv, TypeOK, CursorOK, PendingCursorLive,
     ConnectPending

LEMMA OpenAbandonsOK ==
  ASSUME CursorInv, NEW kept, OpenAbandons(kept)
  PROVE  CursorOK' /\ lastError' \in Errors
<1>1. DescAfterClose(desc, kept) \in [Fd -> Descriptor]
  BY ReleasedType DEF DescAfterClose, CursorInv, TypeOK
<1>2. desc' \in [Fd -> Descriptor]
  BY <1>1, AfterAbandonType DEF OpenAbandons
<1>3. /\ sockbufSocket' \in Fd \cup {NoFd}
      /\ connectingSocket' = NoFd
      /\ connectingAddress' = connectingAddress
      /\ connectingAddrlist' = NoList
      /\ heap' \in [AddrList -> 0 .. MaxAddrs]
      /\ lastError' \in Errors
  BY FreeAddrlistType DEF OpenAbandons, SockbufAfterClose, SetLastError, Errors,
     CursorInv, TypeOK
<1> QED
  BY <1>2, <1>3 DEF CursorInv, TypeOK, CursorOK, PendingCursorLive, ConnectPending

LEMMA OpenConnectsOK ==
  ASSUME CursorInv, NEW kept, NEW nonblock \in BOOLEAN,
         OpenConnects(kept, nonblock)
  PROVE  CursorOK' /\ ErrorAfterClose(kept) \in Errors
  BY OpenConnectsCursor DEF CursorInv, TypeOK, CursorOK, PendingCursorLive,
     ConnectPending

LEMMA OpenHostPendsOK ==
  ASSUME CursorInv, OpenHostPends
  PROVE  CursorOK' /\ lastError' \in Errors
<1>0. PICK kept \in FailedCloses(Held), n \in 1 .. MaxAddrs :
        \E at \in 1 .. n, l \in AddrList :
          /\ OpenPends(kept, [list |-> l, at |-> at], l, n)
          /\ lastError' \in ErrorAfter(kept, at - 1)
  BY DEF OpenHostPends
<1>1. PICK at \in 1 .. n, l \in AddrList :
        /\ OpenPends(kept, [list |-> l, at |-> at], l, n)
        /\ lastError' \in ErrorAfter(kept, at - 1)
  BY <1>0
<1>2. [list |-> l, at |-> at] \in Address
  BY DEF Address
<1>3. /\ desc' \in [Fd -> Descriptor]
      /\ sockbufSocket' \in Fd \cup {NoFd}
      /\ connectingSocket' \in Fd
      /\ connectingAddress' = [list |-> l, at |-> at]
      /\ connectingAddrlist' = l
      /\ heap' \in [AddrList -> 0 .. MaxAddrs]
      /\ heap'[l] = n
      /\ ErrorAfterClose(kept) \in Errors
  BY <1>1, <1>2, OpenPendsCursor
<1>4. lastError' \in Errors
  BY <1>1, <1>3 DEF ErrorAfter, Errors
<1> QED
  BY <1>2, <1>3, <1>4 DEF CursorOK, PendingCursorLive, ConnectPending

LEMMA OpenHostOK ==
  ASSUME CursorInv, NEW nonblock \in BOOLEAN,
         OpenHostFails(nonblock) \/ OpenHostConnects(nonblock) \/ OpenHostPends
  PROVE  CursorOK' /\ lastError' \in Errors
<1>1. CASE OpenHostFails(nonblock)
  BY <1>1, OpenFailsOK, OpenAbandonsOK DEF OpenHostFails
<1>2. CASE OpenHostConnects(nonblock)
  BY <1>2, OpenConnectsOK DEF OpenHostConnects, ErrorAfter, Errors
<1>3. CASE OpenHostPends
  BY <1>3, OpenHostPendsOK
<1> QED
  BY <1>1, <1>2, <1>3

LEMMA OpenAddrinfoOK ==
  ASSUME CursorInv, NEW nonblock \in BOOLEAN, OpenAddrinfo(nonblock)
  PROVE  CursorOK' /\ lastError' \in Errors
<1>1. PICK kept \in FailedCloses(Held) :
        \/ OpenFails(kept) /\ lastError' \in ErrorAfter(kept, 1)
        \/ OpenAbandons(kept)
        \/ OpenConnects(kept, nonblock) /\ lastError' = ErrorAfterClose(kept)
        \/ /\ OpenPends(kept, [list |-> Caller, at |-> 1], NoList, 1)
           /\ lastError' = ErrorAfterClose(kept)
  BY DEF OpenAddrinfo
<1>2. CASE OpenFails(kept) /\ lastError' \in ErrorAfter(kept, 1)
  BY <1>2, OpenFailsOK DEF ErrorAfter, Errors
<1>3. CASE OpenConnects(kept, nonblock) /\ lastError' = ErrorAfterClose(kept)
  BY <1>3, OpenConnectsOK
<1>4. CASE /\ OpenPends(kept, [list |-> Caller, at |-> 1], NoList, 1)
           /\ lastError' = ErrorAfterClose(kept)
  <2>1. [list |-> Caller, at |-> 1] \in Address
    BY DEF Address
  <2>2. /\ desc' \in [Fd -> Descriptor]
        /\ sockbufSocket' \in Fd \cup {NoFd}
        /\ connectingSocket' \in Fd
        /\ connectingAddress' = [list |-> Caller, at |-> 1]
        /\ connectingAddrlist' = NoList
        /\ heap' \in [AddrList -> 0 .. MaxAddrs]
        /\ ErrorAfterClose(kept) \in Errors
    BY <1>4, <2>1, OpenPendsCursor
  <2> QED
    BY <1>4, <2>1, <2>2 DEF CursorOK, PendingCursorLive, ConnectPending
<1> QED
  BY <1>1, <1>2, <1>3, <1>4, OpenAbandonsOK

(* isReady and open_next.                                                  *)
LEMMA ConnectOverOK ==
  ASSUME CursorInv,
         heap' = FreeAddrlist(heap, connectingAddrlist),
         connectingAddrlist' = NoList,
         connectingAddress' = NullAddress,
         connectingSocket' = NoFd,
         sockbufSocket' \in Fd \cup {NoFd},
         desc' \in [Fd -> Descriptor]
  PROVE  CursorOK'
<1>1. connectingAddress' \in Address
  BY DEF Address
<1> QED
  BY <1>1, FreeAddrlistType DEF CursorInv, TypeOK, CursorOK, PendingCursorLive,
     ConnectPending

LEMMA ReadyOK ==
  ASSUME CursorInv, Ready \/ StillConnecting \/ ReadsError
  PROVE  CursorOK' /\ lastError' \in Errors
<1> USE DEF CursorInv, TypeOK
<1>1. CASE NothingPending \/ StillConnecting
  BY <1>1 DEF NothingPending, StillConnecting, CursorOK, PendingCursorLive,
     ConnectPending
<1>2. CASE ReadsError
  <2>1. SoErrorRead(desc[connectingSocket]) \in Descriptor
    BY <1>2 DEF ReadsError, ConnectPending, SoErrorRead, Descriptor, Conn
  <2>2. desc' \in [Fd -> Descriptor]
    BY <1>2, <2>1 DEF ReadsError
  <2> QED
    BY <1>2, <2>2 DEF ReadsError, CursorOK, PendingCursorLive, ConnectPending
<1>3. CASE Adopts
  <2>1. Blocking(desc[connectingSocket]) \in Descriptor
    BY <1>3 DEF Adopts, ConnectPending, Blocking, Descriptor
  <2>2. desc' \in [Fd -> Descriptor] /\ sockbufSocket' \in Fd \cup {NoFd}
    BY <1>3, <2>1 DEF Adopts
  <2>3. CursorOK'
    BY <1>3, <2>2, ConnectOverOK DEF Adopts
  <2> QED
    BY <1>3, <2>3 DEF Adopts
<1>4. CASE Abandons
  <2>1. desc' \in [Fd -> Descriptor]
    BY <1>4, ReleasedType DEF Abandons
  <2>2. CursorOK'
    BY <1>4, <2>1, ConnectOverOK DEF Abandons
  <2> QED
    BY <1>4, <2>2 DEF Abandons, SetLastError, Errors
<1> QED
  BY <1>1, <1>2, <1>3, <1>4 DEF Ready

LEMMA OpenNextOK ==
  ASSUME CursorInv, OpenNext
  PROVE  CursorOK' /\ lastError' \in Errors
<1> USE DEF CursorInv, TypeOK
<1>1. CASE OpenNextRefused
  BY <1>1 DEF OpenNextRefused, CursorOK, PendingCursorLive, ConnectPending
<1>2. ASSUME ConnectPending, connectingAddrlist # NoList,
             NEW d \in [Fd -> Descriptor],
             \/ OpenNextPends(d) \/ OpenNextExhausted(d)
             \/ OpenNextConnects(d) \/ OpenNextAbandons(d)
      PROVE  CursorOK' /\ lastError' \in Errors
  <2>1. /\ connectingAddress.list = connectingAddrlist
        /\ connectingAddress.at \in 1 .. heap[connectingAddrlist]
        /\ heap[connectingAddrlist] \in 0 .. MaxAddrs
    BY <1>2 DEF PendingCursorLive
  <2>2. CASE OpenNextPends(d)
    <3>1. PICK at \in Following, fd \in Unused(d) :
            /\ desc' = [d EXCEPT ![fd] = StreamDesc("connecting", TRUE)]
            /\ connectingSocket' = fd
            /\ connectingAddress' = [connectingAddress EXCEPT !.at = at]
            /\ lastError' \in {lastError, "error"}
            /\ UNCHANGED <<sockbufSocket, connectingAddrlist, heap>>
      BY <2>2 DEF OpenNextPends
    <3>2. at \in 1 .. heap[connectingAddrlist]
      BY <2>1 DEF Following
    <3>3. connectingAddress' \in Address /\ connectingAddress'.at = at
          /\ connectingAddress'.list = connectingAddrlist
      BY <2>1, <3>1, <3>2 DEF Address
    <3>4. StreamDesc("connecting", TRUE) \in Descriptor
      BY DEF StreamDesc, Descriptor, Conn
    <3>5. desc' \in [Fd -> Descriptor] /\ connectingSocket' \in Fd
      BY <3>1, <3>4 DEF Unused
    <3>6. connectingAddress' # NullAddress
      BY <1>2, <3>3
    <3> QED
      BY <2>1, <3>1, <3>2, <3>3, <3>5, <3>6
         DEF CursorOK, PendingCursorLive, ConnectPending, Errors
  <2>3. CASE OpenNextExhausted(d)
    <3>1. CursorOK'
      BY <2>3, ConnectOverOK, <1>2 DEF OpenNextExhausted, OpenNextEnds
    <3> QED
      BY <2>3, <3>1 DEF OpenNextExhausted, Errors
  <2>4. CASE OpenNextConnects(d)
    <3>1. PICK fd \in Unused(d) :
            /\ OpenNextEnds
            /\ desc' = [d EXCEPT ![fd] = Blocking(StreamDesc("connected", TRUE))]
            /\ sockbufSocket' = fd
            /\ lastError' \in {lastError, "error"}
      BY <2>4 DEF OpenNextConnects
    <3>2. Blocking(StreamDesc("connected", TRUE)) \in Descriptor
      BY DEF Blocking, StreamDesc, Descriptor, Conn
    <3>3. desc' \in [Fd -> Descriptor] /\ sockbufSocket' \in Fd
      BY <3>1, <3>2, <1>2 DEF Unused
    <3>4. CursorOK'
      BY <3>1, <3>3, ConnectOverOK DEF OpenNextEnds
    <3> QED
      BY <3>1, <3>4 DEF Errors
  <2>5. CASE OpenNextAbandons(d)
    <3>2. desc' \in [Fd -> Descriptor]
      BY <1>2, <2>5, AfterAbandonType DEF OpenNextAbandons
    <3>3. CursorOK'
      BY <2>5, <3>2, ConnectOverOK DEF OpenNextAbandons, OpenNextEnds
    <3> QED
      BY <2>5, <3>3 DEF OpenNextAbandons, SetLastError, Errors
  <2> QED
    BY <1>2, <2>2, <2>3, <2>4, <2>5
<1>3. CASE ~OpenNextRefused
  <2>1. PICK kept \in FailedCloses({connectingSocket}) :
          /\ ConnectPending /\ connectingAddrlist # NoList
          /\ LET d == Released(desc, {connectingSocket} \ kept)
             IN  \/ OpenNextPends(d) \/ OpenNextExhausted(d)
                 \/ OpenNextConnects(d) \/ OpenNextAbandons(d)
    BY <1>3 DEF OpenNext
  <2>2. Released(desc, {connectingSocket} \ kept) \in [Fd -> Descriptor]
    BY ReleasedType
  <2> QED
    BY <1>2, <2>1, <2>2
<1> QED
  BY <1>1, <1>3

LEMMA CloseOK ==
  ASSUME CursorInv, NEW d \in [Fd -> Descriptor], NEW kept,
         CloseHeld(d, kept), lastError' = ErrorAfterClose(kept),
         UNCHANGED <<connectingAddress, connectingAddrlist, heap>>
  PROVE  CursorOK' /\ lastError' \in Errors
  BY CloseHeldType DEF CursorInv, TypeOK, CursorOK, PendingCursorLive,
     ConnectPending

(* What the steps of the kernel and of the rest of the program change.     *)
LEMMA OutsideOK ==
  ASSUME CursorInv, desc' \in [Fd -> Descriptor],
         UNCHANGED <<alive, sockbufSocket, connectingSocket, connectingAddress,
                     connectingAddrlist, lastError, result, inOpen, heap>>
  PROVE  CursorInv'
  BY DEF CursorInv, TypeOK, PendingCursorLive, ObjectGone, ConnectPending

LEMMA MethodOK ==
  ASSUME CursorOK', lastError' \in Errors, alive' = TRUE, inOpen' \in BOOLEAN,
         result' \in Result
  PROVE  CursorInv'
  BY DEF CursorOK, CursorInv, TypeOK, ObjectGone

LEMMA CursorStep ==
  ASSUME CursorInv, [Next]_vars
  PROVE  CursorInv'
<1> USE DEF CursorInv, TypeOK
<1>0. \A op \in {"none", "open", "open_ms", "open_next", "isReady", "close"},
        ret \in {"void", "0", "1", "-1", "true", "false"} :
          [op |-> op, ret |-> ret] \in Result
  BY DEF Result
<1>1. CASE Construct
  <2>1. StreamDesc("connected", FALSE) \in Descriptor
    BY DEF StreamDesc, Descriptor, Conn
  <2>2. desc' \in [Fd -> Descriptor] /\ sockbufSocket' \in Fd \cup {NoFd}
    BY <1>1, <2>1 DEF Construct, Unused
  <2>3. NullAddress \in Address
    BY DEF Address
  <2>4. CursorOK'
    BY <1>1, <2>2, <2>3 DEF Construct, CursorOK, PendingCursorLive,
       ConnectPending, ObjectGone
  <2> QED
    BY <1>0, <1>1, <2>4, MethodOK DEF Construct, Errors
<1>2. CASE Destroy
  <2>1. desc' \in [Fd -> Descriptor]
    BY <1>2, ReleasedType DEF Destroy
  <2>2. NullAddress \in Address /\ result' \in Result
    BY <1>0, <1>2 DEF Destroy, Address
  <2>3. heap' \in [AddrList -> 0 .. MaxAddrs]
    BY <1>2, FreeAddrlistType DEF Destroy
  <2> QED
    BY <1>2, <2>1, <2>2, <2>3 DEF Destroy, PendingCursorLive, ObjectGone,
       ConnectPending, Errors, Idle
<1>3. ASSUME NEW nonblock \in BOOLEAN, OpenHost(nonblock) PROVE CursorInv'
  <2>1. CursorOK' /\ lastError' \in Errors
    BY <1>3, OpenHostOK DEF OpenHost
  <2> QED
    BY <1>0, <1>3, <2>1, MethodOK DEF OpenHost, Idle
<1>4. ASSUME NEW nonblock \in BOOLEAN, OpenAddrinfo(nonblock) PROVE CursorInv'
  <2>1. CursorOK' /\ lastError' \in Errors
    BY <1>4, OpenAddrinfoOK
  <2> QED
    BY <1>0, <1>4, <2>1, MethodOK DEF OpenAddrinfo, Idle
<1>5. CASE OpenTimed
  <2>1. CursorOK' /\ lastError' \in Errors
    BY <1>5, OpenHostOK DEF OpenTimed
  <2> QED
    BY <1>0, <1>5, <2>1, MethodOK DEF OpenTimed, Idle
<1>6. CASE OpenTimedEnds
  <2>1. CASE Ready
    BY <1>0, <1>6, <2>1, ReadyOK, MethodOK DEF OpenTimedEnds
  <2>2. CASE ~Ready
    <3>1. PICK kept \in FailedCloses(Held),
               d \in {desc, [desc EXCEPT ![connectingSocket] = SoErrorRead(@)]} :
            CloseHeld(d, kept) /\ lastError' = ErrorAfterClose(kept)
      BY <1>6, <2>2, Zenon DEF OpenTimedEnds
    <3>2. /\ connectingSocket \in Fd
          /\ UNCHANGED <<connectingAddress, connectingAddrlist, heap>>
      BY <1>6, <2>2 DEF OpenTimedEnds, ConnectPending
    <3>4. SoErrorRead(desc[connectingSocket]) \in Descriptor
      BY <3>2 DEF SoErrorRead, Descriptor, Conn
    <3>5. d \in [Fd -> Descriptor]
      BY <3>4
    <3>3. CursorOK' /\ lastError' \in Errors
      BY <3>1, <3>2, <3>5, CloseOK
    <3> QED
      BY <1>0, <1>6, <3>3, MethodOK DEF OpenTimedEnds
  <2> QED
    BY <2>1, <2>2
<1>7. CASE OpenNext
  <2>1. result' \in Result
    BY <1>0, <1>7 DEF OpenNext, OpenNextRefused, OpenNextPends,
       OpenNextExhausted, OpenNextConnects, OpenNextAbandons
  <2> QED
    BY <1>7, <2>1, OpenNextOK, MethodOK DEF OpenNext, Idle
<1>8. CASE IsReady
  <2>1. CursorOK' /\ lastError' \in Errors
    BY <1>8, ReadyOK DEF IsReady
  <2> QED
    BY <1>0, <1>8, <2>1, MethodOK DEF IsReady, Idle
<1>9. CASE Close
  <2>1. CursorOK' /\ lastError' \in Errors
    BY <1>9, CloseOK DEF Close
  <2> QED
    BY <1>0, <1>9, <2>1, MethodOK DEF Close, Idle
<1>10. CASE Shutdown
  <2>1. desc' \in [Fd -> Descriptor]
    BY <1>10 DEF Shutdown, ConnectPending, Descriptor, Conn
  <2>2. CursorOK' /\ lastError' \in Errors
    BY <1>10, <2>1 DEF Shutdown, CursorOK, PendingCursorLive, ConnectPending,
       Errors
  <2> QED
    BY <1>0, <1>10, <2>2, MethodOK DEF Shutdown, Idle
<1>14. CASE SetSocket
  <2> DEFINE given == [owner |-> "given", conn |-> "connected", nonblock |-> FALSE]
  <2>3. LetGo(desc) \in [Fd -> Descriptor] /\ given \in Descriptor
    BY LetGoType DEF Descriptor, Conn
  <2> HIDE DEF given
  <2>1. /\ sockbufSocket' \in Fd \cup {NoFd}
        /\ desc' \in [Fd -> Descriptor]
    BY <1>14, <2>3 DEF SetSocket, ReplacesSocket, Unused, given
  <2>2. CursorOK' /\ lastError' \in Errors
    BY <1>14, <2>1 DEF SetSocket, CursorOK, PendingCursorLive, ConnectPending
  <2> QED
    BY <1>0, <1>14, <2>2, MethodOK DEF SetSocket, Idle
<1>11. CASE Kernel
  <2>1. desc' \in [Fd -> Descriptor]
    BY <1>11 DEF Kernel, ConnectCompletes, ConnectRefused, ConnectionLost,
       ConnChanges, Descriptor, Conn
  <2> QED
    BY <1>11, <2>1, OutsideOK DEF Kernel, ConnectCompletes, ConnectRefused,
       ConnectionLost, ConnChanges
<1>12. CASE Others
  <2>1. desc' \in [Fd -> Descriptor]
    BY <1>12, ReleasedType DEF Others, OtherOpens, OtherCloses, Descriptor
  <2> QED
    BY <1>12, <2>1, OutsideOK DEF Others, OtherOpens, OtherCloses
<1>13. CASE UNCHANGED vars
  BY <1>13, OutsideOK DEF vars
<1> QED
  BY <1>1, <1>2, <1>3, <1>4, <1>5, <1>6, <1>7, <1>8, <1>9, <1>10, <1>11,
     <1>12, <1>13, <1>14 DEF Next

(* The fields keep their types, and whenever a connect is pending there is *)
(* an address, on a list that is allocated, for open_next to go on from.   *)
THEOREM CursorTheorem == Spec => [](TypeOK /\ PendingCursorLive)
<1>1. Init => CursorInv
  BY InitCursor
<1>2. CursorInv /\ [Next]_vars => CursorInv'
  BY CursorStep
<1>3. CursorInv => TypeOK /\ PendingCursorLive
  BY DEF CursorInv
<1> QED
  BY <1>1, <1>2, <1>3, PTL DEF Spec

(* Type correctness: a cursor is an entry of a list or null, and a socket  *)
(* number one the kernel hands out or none.                                *)
THEOREM TypeTheorem == Spec => []TypeOK
<1>1. TypeOK /\ PendingCursorLive => TypeOK
  OBVIOUS
<1> QED
  BY <1>1, CursorTheorem, PTL
-----------------------------------------------------------------------------
(***************************************************************************)
(* Ownership.  The three safety properties are inductive together, on top  *)
(* of the types: a fresh descriptor is nobody's, hence none of the held    *)
(* ones, and what is closed is nobody's afterwards.                        *)
(***************************************************************************)
Ours == {"stream", "given"}

(* setSocket() does not reach a connect that is pending.                   *)
PendingIsOwn == ConnectPending => desc[connectingSocket].owner = "stream"

OwnInv == OwnsItsDescriptors /\ BlockingModes /\ NoDescriptorLeak /\ PendingIsOwn

SafetyInv == CursorInv /\ OwnInv

OthersKept == \A f \in Fd : desc[f].owner = "other" => desc'[f] = desc[f]

OthersStep ==
  \A f \in Fd : desc[f].owner = "other" => Untouched(f) \/ OtherCloses(f)

LEMMA KeptStep == OthersKept => OthersStep
  BY DEF OthersKept, OthersStep, Untouched

(* The descriptor table `d' once what a call drops has been closed, and    *)
(* what is then left in the stream buffer, `s'.                            *)
Left(d, s) ==
  /\ d \in [Fd -> Descriptor]
  /\ s \in Fd \cup {NoFd}
  /\ s # NoFd => d[s].owner \in Ours /\ ~d[s].nonblock
  /\ ~CloseMayFail => /\ s = NoFd \/ d[s].owner = "given"
                      /\ \A f \in Fd : d[f].owner # "stream"
  /\ \A f \in Fd : desc[f].owner = "other" => d[f] = desc[f]

LEMMA AfterClose ==
  ASSUME SafetyInv, NEW kept \in FailedCloses(Held)
  PROVE  Left(DescAfterClose(desc, kept), SockbufAfterClose(kept))
<1> DEFINE d == DescAfterClose(desc, kept)
           s == SockbufAfterClose(kept)
<1>1. /\ d \in [Fd -> Descriptor]
      /\ \A f \in Fd : d[f] = IF f \in Held \ kept THEN ClosedDesc ELSE desc[f]
  BY ReleasedType DEF DescAfterClose, SafetyInv, CursorInv, TypeOK
<1>2. s \in Fd \cup {NoFd} /\ (s # NoFd => s = sockbufSocket /\ s \in kept)
  BY DEF SockbufAfterClose, SafetyInv, CursorInv, TypeOK
<1>3. s # NoFd => d[s].owner \in Ours /\ ~d[s].nonblock
  BY <1>1, <1>2 DEF SafetyInv, OwnInv, OwnsItsDescriptors, BlockingModes, Held, Ours
<1>4. ~CloseMayFail => kept = {}
  BY DEF FailedCloses
<1>5. ~CloseMayFail => s = NoFd /\ \A f \in Fd : d[f].owner # "stream"
  BY <1>1, <1>2, <1>4 DEF SafetyInv, OwnInv, NoDescriptorLeak, ClosedDesc
<1>6. \A f \in Fd : desc[f].owner = "other" => d[f] = desc[f]
  BY <1>1 DEF SafetyInv, OwnInv, OwnsItsDescriptors
<1> QED
  BY <1>1, <1>2, <1>3, <1>5, <1>6 DEF Left

LEMMA BlockingSocket ==
  ASSUME NEW nonblock \in BOOLEAN
  PROVE  LET r == Blocking(StreamDesc("connected", nonblock))
         IN  r.owner = "stream" /\ ~r.nonblock
  BY DEF Blocking, StreamDesc

(* A socket opened in such a table, and kept in one of the two fields.     *)
LEMMA FreshConnected ==
  ASSUME NEW d, NEW s, Left(d, s), NEW fd \in Unused(d),
         NEW r, r.owner = "stream", ~r.nonblock,
         desc' = [d EXCEPT ![fd] = r],
         sockbufSocket' = fd, connectingSocket' = NoFd
  PROVE  OwnInv' /\ OthersKept
<1>1. fd \in Fd /\ d[fd].owner = "nobody"
  BY DEF Unused, ClosedDesc
<1>2. /\ desc'[fd].owner = "stream" /\ ~desc'[fd].nonblock
      /\ \A f \in Fd \ {fd} : desc'[f] = d[f]
  BY <1>1 DEF Left
<1>3. OthersKept
  BY <1>1, <1>2 DEF OthersKept, Left
<1> QED
  BY <1>1, <1>2, <1>3 DEF OwnInv, OwnsItsDescriptors, BlockingModes,
     NoDescriptorLeak, PendingIsOwn, Held, ConnectPending, Left

LEMMA FreshPending ==
  ASSUME NEW d, NEW s, Left(d, s), NEW fd \in Unused(d),
         desc' = [d EXCEPT ![fd] = StreamDesc("connecting", TRUE)],
         sockbufSocket' = s, connectingSocket' = fd
  PROVE  OwnInv' /\ OthersKept
<1>1. fd \in Fd /\ d[fd].owner = "nobody" /\ fd # s
  BY DEF Unused, ClosedDesc, Left, Ours
<1>2. /\ desc'[fd].owner = "stream" /\ desc'[fd].nonblock
      /\ \A f \in Fd \ {fd} : desc'[f] = d[f]
  BY <1>1 DEF StreamDesc, Left
<1>3. OthersKept
  BY <1>1, <1>2 DEF OthersKept, Left
<1>4. OwnsItsDescriptors' /\ BlockingModes' /\ PendingIsOwn'
  BY <1>1, <1>2 DEF OwnsItsDescriptors, BlockingModes, PendingIsOwn, Held,
     ConnectPending, Left, Ours
<1>5. NoDescriptorLeak'
  BY <1>1, <1>2 DEF NoDescriptorLeak, Held, Left
<1> QED
  BY <1>3, <1>4, <1>5 DEF OwnInv

(* No socket comes out of the call, and the buffer keeps `s'.              *)
LEMMA NothingFresh ==
  ASSUME NEW d, NEW s, Left(d, s),
         desc' = d, sockbufSocket' = s, connectingSocket' = NoFd
  PROVE  OwnInv' /\ OthersKept
  BY DEF OwnInv, OwnsItsDescriptors, BlockingModes, NoDescriptorLeak,
     PendingIsOwn, Held, ConnectPending, OthersKept, Left, Ours

(* A socket that connected and could not be made to block.                 *)
LEMMA FreshAbandoned ==
  ASSUME NEW d, NEW s, Left(d, s),
         desc' \in AfterAbandon(d), sockbufSocket' = s, connectingSocket' = NoFd
  PROVE  OwnInv' /\ OthersKept
<1>1. CASE desc' = d
  BY <1>1, NothingFresh
<1>2. ASSUME CloseMayFail, NEW fd \in Unused(d),
             desc' = [d EXCEPT ![fd] = StreamDesc("connected", TRUE)]
      PROVE  OwnInv' /\ OthersKept
  <2>1. fd \in Fd /\ d[fd].owner = "nobody"
    BY DEF Unused, ClosedDesc
  <2>2. \A f \in Fd \ {fd} : desc'[f] = d[f]
    BY <1>2 DEF Left
  <2>3. OthersKept
    BY <2>1, <2>2 DEF Left, OthersKept
  <2> QED
    BY <1>2, <2>1, <2>2, <2>3 DEF OwnInv, OwnsItsDescriptors, BlockingModes,
       NoDescriptorLeak, PendingIsOwn, Held, ConnectPending, Left, Ours
<1> QED
  BY <1>1, <1>2 DEF AfterAbandon

LEMMA OpenOwn ==
  ASSUME SafetyInv, NEW kept \in FailedCloses(Held),
         NEW nonblock \in BOOLEAN, NEW address, NEW list, NEW length,
         \/ OpenFails(kept) \/ OpenAbandons(kept)
         \/ OpenConnects(kept, nonblock)
         \/ OpenPends(kept, address, list, length)
  PROVE  OwnInv' /\ OthersKept
<1>1. CASE OpenFails(kept)
  BY <1>1, AfterClose, NothingFresh DEF OpenFails, CloseHeld
<1>2. CASE OpenConnects(kept, nonblock)
  BY <1>2, AfterClose, BlockingSocket, FreshConnected DEF OpenConnects
<1>3. CASE OpenPends(kept, address, list, length)
  BY <1>3, AfterClose, FreshPending DEF OpenPends
<1>4. CASE OpenAbandons(kept)
  BY <1>4, AfterClose, FreshAbandoned DEF OpenAbandons
<1> QED
  BY <1>1, <1>2, <1>3, <1>4

LEMMA OpenHostOwn ==
  ASSUME SafetyInv, NEW nonblock \in BOOLEAN,
         OpenHostFails(nonblock) \/ OpenHostConnects(nonblock) \/ OpenHostPends
  PROVE  OwnInv' /\ OthersKept
<1>1. CASE OpenHostFails(nonblock)
  BY <1>1, OpenOwn DEF OpenHostFails
<1>2. CASE OpenHostConnects(nonblock)
  BY <1>2, OpenOwn DEF OpenHostConnects
<1>3. CASE OpenHostPends
  BY <1>3, OpenOwn DEF OpenHostPends
<1> QED
  BY <1>1, <1>2, <1>3

(* A step that leaves the two fields alone and changes of the descriptors  *)
(* nothing that ownership depends on.                                      *)
LEMMA SameOwners ==
  ASSUME SafetyInv, UNCHANGED <<sockbufSocket, connectingSocket>>,
         \A f \in Fd : desc[f].owner \in Ours \/ desc'[f].owner \in Ours =>
                        /\ desc'[f].owner = desc[f].owner
                        /\ desc'[f].nonblock = desc[f].nonblock
  PROVE  OwnInv'
<1> USE DEF SafetyInv, CursorInv, TypeOK, OwnInv, Held, ConnectPending, Ours
<1>1. OwnsItsDescriptors' /\ BlockingModes' /\ PendingIsOwn'
  BY DEF OwnsItsDescriptors, BlockingModes, PendingIsOwn
<1>2. NoDescriptorLeak'
  BY DEF OwnsItsDescriptors, NoDescriptorLeak
<1> QED
  BY <1>1, <1>2

(* As long as closes succeed, a connecting socket is all the stream has    *)
(* made.                                                                   *)
OnlyConnecting ==
  ~CloseMayFail =>
    /\ sockbufSocket = NoFd \/ desc[sockbufSocket].owner = "given"
    /\ \A f \in Fd : desc[f].owner = "stream" => f = connectingSocket

LEMMA OnlyConnectingOwned ==
  ASSUME SafetyInv, ConnectPending
  PROVE  OnlyConnecting
  BY DEF SafetyInv, OwnInv, NoDescriptorLeak, Held, ConnectPending,
     OnlyConnecting

LEMMA ReadyOwn ==
  ASSUME SafetyInv, Ready \/ StillConnecting \/ ReadsError
  PROVE  OwnInv' /\ OthersKept
<1> USE DEF SafetyInv, CursorInv, TypeOK
<1>1. CASE NothingPending \/ StillConnecting
  BY <1>1, SameOwners DEF NothingPending, StillConnecting, OthersKept
<1>2. CASE ReadsError
  <2>1. connectingSocket \in Fd /\ desc[connectingSocket].owner = "stream"
    BY <1>2 DEF ReadsError, ConnectPending, OwnInv, PendingIsOwn
  <2>2. /\ SoErrorRead(desc[connectingSocket]).owner = "stream"
        /\ SoErrorRead(desc[connectingSocket]).nonblock
             = desc[connectingSocket].nonblock
    BY <2>1 DEF SoErrorRead, Descriptor
  <2>3. \A f \in Fd : desc'[f] = IF f = connectingSocket
                                 THEN SoErrorRead(desc[f]) ELSE desc[f]
    BY <1>2 DEF ReadsError
  <2> QED
    BY <1>2, <2>1, <2>2, <2>3, SameOwners DEF ReadsError, OthersKept
<1>3. CASE Adopts
  <2>1. /\ connectingSocket \in Fd /\ desc[connectingSocket].owner = "stream"
        /\ connectingSocket # sockbufSocket
    BY <1>3 DEF Adopts, ConnectPending, OwnInv, OwnsItsDescriptors, PendingIsOwn
  <2>2. /\ Blocking(desc[connectingSocket]).owner = "stream"
        /\ ~Blocking(desc[connectingSocket]).nonblock
    BY <2>1 DEF Blocking, Descriptor
  <2>3. \A f \in Fd : desc'[f] = IF f = connectingSocket
                                 THEN Blocking(desc[f]) ELSE desc[f]
    BY <1>3 DEF Adopts
  <2>4. OwnInv'
    <3>1. sockbufSocket' = connectingSocket /\ connectingSocket' = NoFd
      BY <1>3 DEF Adopts
    <3>2. OwnsItsDescriptors' /\ BlockingModes' /\ PendingIsOwn'
      BY <2>1, <2>2, <2>3, <3>1 DEF OwnsItsDescriptors, BlockingModes,
         PendingIsOwn, Held, ConnectPending
    <3>3. OnlyConnecting
      BY <2>1, OnlyConnectingOwned DEF ConnectPending
    <3>4. NoDescriptorLeak'
      BY <2>1, <2>3, <3>1, <3>3 DEF OnlyConnecting, NoDescriptorLeak, Held
    <3> QED
      BY <3>2, <3>4 DEF OwnInv
  <2> QED
    BY <2>1, <2>3, <2>4 DEF OthersKept
<1>4. CASE Abandons
  <2>1. /\ connectingSocket \in Fd /\ desc[connectingSocket].owner = "stream"
        /\ connectingSocket # sockbufSocket
    BY <1>4 DEF Abandons, ConnectPending, OwnInv, OwnsItsDescriptors, PendingIsOwn
  <2>2. PICK kept \in FailedCloses({connectingSocket}) :
          desc' = Released(desc, {connectingSocket} \ kept)
    BY <1>4 DEF Abandons
  <2>3. \A f \in Fd : desc'[f] = IF f \in {connectingSocket} \ kept
                                 THEN ClosedDesc ELSE desc[f]
    BY <2>2, ReleasedType
  <2>4. ~CloseMayFail => kept = {}
    BY DEF FailedCloses
  <2>5. OnlyConnecting
    BY <2>1, OnlyConnectingOwned DEF ConnectPending
  <2>6. /\ sockbufSocket' = sockbufSocket /\ connectingSocket' = NoFd
        /\ sockbufSocket # NoFd => desc'[sockbufSocket] = desc[sockbufSocket]
    BY <1>4, <2>1, <2>3 DEF Abandons
  <2>7. OwnsItsDescriptors' /\ BlockingModes' /\ PendingIsOwn'
    BY <2>6 DEF OwnInv, OwnsItsDescriptors, BlockingModes, PendingIsOwn, Held,
       ConnectPending
  <2>8. NoDescriptorLeak'
    BY <2>3, <2>4, <2>5, <2>6 DEF OnlyConnecting, NoDescriptorLeak, ClosedDesc
  <2> QED
    BY <2>1, <2>3, <2>7, <2>8 DEF OthersKept, OwnInv
<1> QED
  BY <1>1, <1>2, <1>3, <1>4 DEF Ready

LEMMA OpenNextOwn ==
  ASSUME SafetyInv, OpenNext
  PROVE  OwnInv' /\ OthersKept
<1> USE DEF SafetyInv, CursorInv, TypeOK
<1>1. CASE OpenNextRefused
  BY <1>1, SameOwners DEF OpenNextRefused, OthersKept
<1>2. CASE ~OpenNextRefused
  <2>1. PICK kept \in FailedCloses({connectingSocket}) :
          /\ ConnectPending
          /\ LET d == Released(desc, {connectingSocket} \ kept)
             IN  \/ OpenNextPends(d) \/ OpenNextExhausted(d)
                 \/ OpenNextConnects(d) \/ OpenNextAbandons(d)
    BY <1>2 DEF OpenNext
  <2> DEFINE d == Released(desc, {connectingSocket} \ kept)
             s == sockbufSocket
  <2>2. /\ connectingSocket \in Fd /\ desc[connectingSocket].owner = "stream"
        /\ connectingSocket # sockbufSocket
    BY <2>1 DEF ConnectPending, OwnInv, OwnsItsDescriptors, PendingIsOwn
  <2>3. /\ d \in [Fd -> Descriptor]
        /\ \A f \in Fd : d[f] = IF f \in {connectingSocket} \ kept
                                THEN ClosedDesc ELSE desc[f]
    BY ReleasedType
  <2>4. ~CloseMayFail => kept = {}
    BY DEF FailedCloses
  <2>5. s # NoFd => d[s] = desc[s] /\ d[s].owner \in Ours /\ ~d[s].nonblock
    BY <2>2, <2>3 DEF OwnInv, OwnsItsDescriptors, BlockingModes, Held, Ours
  <2>6. ~CloseMayFail => /\ s = NoFd \/ d[s].owner = "given"
                         /\ \A f \in Fd : d[f].owner # "stream"
    <3>1. OnlyConnecting
      BY <2>1, OnlyConnectingOwned
    <3>2. ~CloseMayFail => s = NoFd \/ d[s].owner = "given"
      BY <2>5, <3>1 DEF OnlyConnecting
    <3>3. ASSUME ~CloseMayFail, NEW f \in Fd PROVE d[f].owner # "stream"
      <4>1. d[f] = IF f = connectingSocket THEN ClosedDesc ELSE desc[f]
        BY <2>3, <2>4, <3>3
      <4> HIDE DEF d
      <4> QED
        BY <3>1, <3>3, <4>1 DEF OnlyConnecting, ClosedDesc
    <3> QED
      BY <3>2, <3>3
  <2>7. \A f \in Fd : desc[f].owner = "other" => d[f] = desc[f]
    BY <2>2, <2>3
  <2>8. Left(d, s)
    BY <2>3, <2>5, <2>6, <2>7 DEF Left
  <2> HIDE DEF d, s
  <2>9. CASE OpenNextPends(d)
    <3>1. PICK fd \in Unused(d) :
            /\ desc' = [d EXCEPT ![fd] = StreamDesc("connecting", TRUE)]
            /\ connectingSocket' = fd
            /\ sockbufSocket' = s
      BY <2>9 DEF OpenNextPends, s
    <3> QED
      BY <2>8, <3>1, FreshPending
  <2>10. CASE OpenNextExhausted(d)
    <3>1. desc' = d /\ connectingSocket' = NoFd /\ sockbufSocket' = s
      BY <2>10 DEF OpenNextExhausted, OpenNextEnds, s
    <3> QED
      BY <2>8, <3>1, NothingFresh
  <2>11. CASE OpenNextConnects(d)
    <3>1. PICK fd \in Unused(d) :
            /\ desc' = [d EXCEPT ![fd] = Blocking(StreamDesc("connected", TRUE))]
            /\ connectingSocket' = NoFd
            /\ sockbufSocket' = fd
      BY <2>11 DEF OpenNextConnects, OpenNextEnds
    <3> QED
      BY <2>8, <3>1, BlockingSocket, FreshConnected
  <2>12. CASE OpenNextAbandons(d)
    BY <2>8, <2>12, FreshAbandoned DEF OpenNextAbandons, OpenNextEnds, s
  <2> QED
    BY <2>1, <2>9, <2>10, <2>11, <2>12 DEF d
<1> QED
  BY <1>1, <1>2

LEMMA CloseOwn ==
  ASSUME SafetyInv, NEW kept \in FailedCloses(Held), CloseHeld(desc, kept)
  PROVE  OwnInv' /\ OthersKept
  BY AfterClose, NothingFresh DEF CloseHeld

(* The close of a timed open that was not ready: the error read on the way *)
(* changes only how the connect ended.                                     *)
LEMMA TimedCloseOwn ==
  ASSUME SafetyInv, NEW kept \in FailedCloses(Held), ConnectPending,
         CloseHeld([desc EXCEPT ![connectingSocket] = SoErrorRead(@)], kept)
  PROVE  OwnInv' /\ OthersKept
<1> USE DEF SafetyInv, CursorInv, TypeOK
<1> DEFINE e == [desc EXCEPT ![connectingSocket] = SoErrorRead(@)]
<1>1. connectingSocket \in Fd /\ desc[connectingSocket].owner = "stream"
  BY DEF ConnectPending, OwnInv, PendingIsOwn
<1>2. /\ SoErrorRead(desc[connectingSocket]) \in Descriptor
      /\ SoErrorRead(desc[connectingSocket]).owner = "stream"
      /\ SoErrorRead(desc[connectingSocket]).nonblock
           = desc[connectingSocket].nonblock
  BY <1>1 DEF SoErrorRead, Descriptor, Conn
<1>3. /\ e \in [Fd -> Descriptor]
      /\ \A f \in Fd : e[f] = IF f = connectingSocket
                              THEN SoErrorRead(desc[f]) ELSE desc[f]
  BY <1>2
<1> HIDE DEF e
<1>4. /\ Released(e, Held \ kept) \in [Fd -> Descriptor]
      /\ \A f \in Fd : Released(e, Held \ kept)[f]
           = IF f \in Held \ kept THEN ClosedDesc ELSE e[f]
  BY <1>3, ReleasedType
<1>5. /\ desc' = Released(e, Held \ kept)
      /\ sockbufSocket' = SockbufAfterClose(kept)
      /\ connectingSocket' = NoFd
  BY DEF CloseHeld, DescAfterClose, e
<1>6. ~CloseMayFail => kept = {}
  BY DEF FailedCloses
<1>7. sockbufSocket' # NoFd =>
        /\ sockbufSocket' = sockbufSocket /\ sockbufSocket \in Fd
        /\ desc'[sockbufSocket] = desc[sockbufSocket]
        /\ sockbufSocket \in kept
  BY <1>1, <1>3, <1>4, <1>5 DEF SockbufAfterClose, OwnInv, OwnsItsDescriptors,
     ConnectPending
<1>8. OwnsItsDescriptors' /\ BlockingModes' /\ PendingIsOwn'
  BY <1>5, <1>7 DEF OwnInv, OwnsItsDescriptors, BlockingModes, PendingIsOwn,
     Held, ConnectPending
<1>9. ASSUME ~CloseMayFail, NEW f \in Fd
      PROVE  desc'[f].owner # "stream"
  <2>1. CASE f \in Held
    <3>1. f \in Held \ kept
      BY <1>6, <1>9, <2>1
    <3>2. desc'[f] = ClosedDesc
      BY <1>4, <1>5, <3>1
    <3> QED
      BY <3>2 DEF ClosedDesc
  <2>2. CASE f \notin Held
    <3>1. desc'[f] = desc[f]
      BY <1>1, <1>3, <1>4, <1>5, <2>2 DEF Held
    <3> QED
      BY <1>9, <2>2, <3>1 DEF OwnInv, NoDescriptorLeak
  <2> QED
    BY <2>1, <2>2
<1>10. NoDescriptorLeak'
  BY <1>5, <1>9 DEF NoDescriptorLeak
<1>11. ASSUME NEW f \in Fd, desc[f].owner = "other"
       PROVE  desc'[f] = desc[f]
  <2>1. f \notin Held
    BY <1>11 DEF OwnInv, OwnsItsDescriptors
  <2> QED
    BY <1>1, <1>3, <1>4, <1>5, <2>1 DEF Held
<1> QED
  BY <1>8, <1>10, <1>11 DEF OwnInv, OthersKept

(* setSocket() touches what was in the buffer and what takes its place.    *)
LEMMA SetSocketOwn ==
  ASSUME SafetyInv, SetSocket
  PROVE  OwnInv' /\ OthersKept
<1> USE DEF SafetyInv, CursorInv, TypeOK
<1> DEFINE e == LetGo(desc)
<1>1. /\ e \in [Fd -> Descriptor]
      /\ \A f \in Fd : f # sockbufSocket => e[f] = desc[f]
      /\ \A f \in Fd : f = sockbufSocket => e[f].owner = "other"
  BY LetGoType
<1>2. PICK s \in Fd \cup {NoFd} :
        /\ sockbufSocket' = s /\ connectingSocket' = connectingSocket
        /\ \/ s = NoFd /\ desc' = e
           \/ /\ s \in Unused(desc)
              /\ desc' = [e EXCEPT ![s] = [owner |-> "given",
                             conn |-> "connected", nonblock |-> FALSE]]
  BY DEF SetSocket, ReplacesSocket, Unused
<1> HIDE DEF e
<1>3. s # NoFd => desc[s].owner = "nobody" /\ s # connectingSocket /\ s # sockbufSocket
  BY <1>2 DEF Unused, ClosedDesc, OwnInv, OwnsItsDescriptors, Held
<1>4. /\ s # NoFd => desc'[s].owner = "given" /\ ~desc'[s].nonblock
      /\ \A f \in Fd : f # s => desc'[f] = e[f]
  BY <1>1, <1>2
<1>5. ConnectPending => /\ connectingSocket \in Fd
                        /\ desc'[connectingSocket] = desc[connectingSocket]
  BY <1>1, <1>3, <1>4 DEF ConnectPending, OwnInv, OwnsItsDescriptors
<1>6. OwnsItsDescriptors' /\ BlockingModes' /\ PendingIsOwn'
  BY <1>2, <1>3, <1>4, <1>5 DEF OwnInv, OwnsItsDescriptors, BlockingModes,
     PendingIsOwn, Held, ConnectPending
<1>7. ASSUME ~CloseMayFail, NEW f \in Fd, desc'[f].owner = "stream"
      PROVE  f \in Held'
  <2>1. f # s /\ f # sockbufSocket
    BY <1>1, <1>2, <1>4, <1>7
  <2>2. desc[f].owner = "stream"
    BY <1>1, <1>4, <1>7, <2>1
  <2>3. f = connectingSocket
    BY <1>7, <2>1, <2>2 DEF OwnInv, NoDescriptorLeak, Held
  <2> QED
    BY <1>2, <2>3 DEF Held
<1>8. NoDescriptorLeak'
  BY <1>2, <1>4, <1>7 DEF NoDescriptorLeak
<1>9. OthersKept
  <2>1. ASSUME NEW f \in Fd, desc[f].owner = "other" PROVE desc'[f] = desc[f]
    <3>1. f # s /\ f # sockbufSocket
      BY <1>3, <2>1 DEF OwnInv, OwnsItsDescriptors, Held
    <3> QED
      BY <1>1, <1>4, <3>1
  <2> QED
    BY <2>1 DEF OthersKept
<1> QED
  BY <1>6, <1>8, <1>9 DEF OwnInv

(* The kernel knows no owners; the rest of the program takes and returns   *)
(* descriptors of its own.                                                 *)
LEMMA KernelOwn ==
  ASSUME SafetyInv, Kernel
  PROVE  OwnInv' /\ OthersStep
<1> USE DEF SafetyInv, CursorInv, TypeOK
<1>1. PICK g \in Fd, to \in Conn : desc' = [desc EXCEPT ![g].conn = to]
  BY DEF Kernel, ConnectCompletes, ConnectRefused, ConnectionLost, ConnChanges,
     Conn
<1>2. \A f \in Fd : /\ desc'[f].owner = desc[f].owner
                    /\ desc'[f].nonblock = desc[f].nonblock
  BY <1>1 DEF Descriptor
<1>3. UNCHANGED <<sockbufSocket, connectingSocket>>
  BY DEF Kernel, ConnectCompletes, ConnectRefused, ConnectionLost, ConnChanges
<1> QED
  BY <1>2, <1>3, SameOwners DEF OthersStep, Untouched

LEMMA OthersOwn ==
  ASSUME SafetyInv, Others
  PROVE  OwnInv' /\ OthersStep
<1> USE DEF SafetyInv, CursorInv, TypeOK
<1>1. ASSUME NEW g \in Fd, OtherOpens(g) PROVE OwnInv' /\ OthersKept
  <2>1. desc[g].owner = "nobody" /\ desc'[g].owner = "other"
    BY <1>1 DEF OtherOpens, Unused, ClosedDesc, Descriptor
  <2>2. \A f \in Fd \ {g} : desc'[f] = desc[f]
    BY <1>1 DEF OtherOpens
  <2> QED
    BY <1>1, <2>1, <2>2, SameOwners DEF OtherOpens, OthersKept, Ours
<1>2. ASSUME NEW g \in Fd, OtherCloses(g)
      PROVE  OwnInv' /\ \A f \in Fd : f # g => desc'[f] = desc[f]
  <2>1. desc[g].owner = "other" /\ desc'[g].owner = "nobody"
    BY <1>2, ReleasedType DEF OtherCloses, ClosedDesc
  <2>2. \A f \in Fd \ {g} : desc'[f] = desc[f]
    BY <1>2, ReleasedType DEF OtherCloses
  <2> QED
    BY <1>2, <2>1, <2>2, SameOwners DEF OtherCloses, Ours
<1> QED
  BY <1>1, <1>2, KeptStep DEF Others, OthersStep, Untouched

LEMMA InitSafety ==
  ASSUME Init PROVE SafetyInv
<1>1. Held = {} /\ ~ConnectPending /\ sockbufSocket = NoFd
  BY DEF Init, Held, ConnectPending
<1>2. \A f \in Fd : desc[f].owner = "nobody"
  BY DEF Init, ClosedDesc
<1>3. OwnsItsDescriptors /\ BlockingModes /\ PendingIsOwn
  BY <1>1 DEF OwnsItsDescriptors, BlockingModes, PendingIsOwn
<1>4. NoDescriptorLeak
  BY <1>1, <1>2 DEF NoDescriptorLeak
<1> QED
  BY InitCursor, <1>3, <1>4 DEF SafetyInv, OwnInv

LEMMA SafetyStep ==
  ASSUME SafetyInv, [Next]_vars
  PROVE  SafetyInv' /\ OthersStep
<1> SUFFICES OwnInv' /\ OthersStep
  BY CursorStep DEF SafetyInv
<1>1. CASE Construct
  <2>1. sockbufSocket = NoFd /\ connectingSocket = NoFd
    BY <1>1 DEF Construct, SafetyInv, CursorInv, ObjectGone
  <2>2. CASE UNCHANGED <<sockbufSocket, desc>>
    BY <1>1, <2>2, SameOwners DEF Construct, OthersStep, Untouched
  <2>3. CASE ~UNCHANGED <<sockbufSocket, desc>>
    <3>1. PICK fd \in Unused(desc) :
            /\ sockbufSocket' = fd
            /\ desc' = [desc EXCEPT ![fd] = StreamDesc("connected", FALSE)]
      BY <1>1, <2>3 DEF Construct
    <3>2. desc \in [Fd -> Descriptor] /\ connectingSocket' = NoFd
      BY <1>1, <2>1 DEF Construct, SafetyInv, CursorInv, TypeOK
    <3>3. Left(desc, NoFd)
      BY <2>1, <3>2 DEF SafetyInv, OwnInv, NoDescriptorLeak, Held, Left
    <3>4. /\ StreamDesc("connected", FALSE).owner = "stream"
          /\ ~StreamDesc("connected", FALSE).nonblock
      BY DEF StreamDesc
    <3> QED
      BY <3>1, <3>2, <3>3, <3>4, FreshConnected, KeptStep
  <2> QED
    BY <2>2, <2>3
<1>2. CASE Destroy
  <2>1. PICK kept \in FailedCloses(Held) :
          desc' = Released(desc, Held \ kept)
    BY <1>2 DEF Destroy
  <2>2. /\ desc' = DescAfterClose(desc, kept)
        /\ sockbufSocket' = NoFd /\ connectingSocket' = NoFd
    BY <1>2, <2>1 DEF Destroy, DescAfterClose
  <2>3. Left(DescAfterClose(desc, kept), NoFd)
    BY AfterClose DEF Left
  <2> QED
    BY <2>2, <2>3, NothingFresh, KeptStep
<1>3. ASSUME NEW nonblock \in BOOLEAN, OpenHost(nonblock)
      PROVE  OwnInv' /\ OthersStep
  BY KeptStep, <1>3, OpenHostOwn DEF OpenHost
<1>4. ASSUME NEW nonblock \in BOOLEAN, OpenAddrinfo(nonblock)
      PROVE  OwnInv' /\ OthersStep
  BY KeptStep, <1>4, OpenOwn DEF OpenAddrinfo
<1>5. CASE OpenTimed
  BY KeptStep, <1>5, OpenHostOwn DEF OpenTimed
<1>6. CASE OpenTimedEnds
  <2>1. CASE Ready
    BY KeptStep, <2>1, ReadyOwn
  <2>2. CASE ~Ready
    <3>1. PICK kept \in FailedCloses(Held),
               d \in {desc, [desc EXCEPT ![connectingSocket] = SoErrorRead(@)]} :
            CloseHeld(d, kept)
      BY <1>6, <2>2, Zenon DEF OpenTimedEnds
    <3>2. ConnectPending
      BY <1>6, <2>2 DEF OpenTimedEnds
    <3>3. CASE d = desc
      BY KeptStep, <3>1, <3>3, CloseOwn
    <3>4. CASE d = [desc EXCEPT ![connectingSocket] = SoErrorRead(@)]
      BY KeptStep, <3>1, <3>2, <3>4, TimedCloseOwn
    <3> QED
      BY <3>1, <3>3, <3>4
  <2> QED
    BY <2>1, <2>2
<1>7. CASE OpenNext
  BY KeptStep, <1>7, OpenNextOwn
<1>8. CASE IsReady
  BY KeptStep, <1>8, ReadyOwn DEF IsReady
<1>9. CASE Close
  BY KeptStep, <1>9, CloseOwn DEF Close
<1>10. CASE Shutdown
  <2>1. \A f \in Fd : /\ desc'[f].owner = desc[f].owner
                      /\ desc'[f].nonblock = desc[f].nonblock
    BY <1>10 DEF Shutdown, SafetyInv, CursorInv, TypeOK, Descriptor,
       ConnectPending
  <2>2. OthersKept
    BY <1>10 DEF Shutdown, SafetyInv, CursorInv, TypeOK, OwnInv,
       OwnsItsDescriptors, Held, ConnectPending, OthersKept
  <2> QED
    BY <1>10, <2>1, <2>2, SameOwners, KeptStep DEF Shutdown
<1>14. CASE SetSocket
  BY KeptStep, <1>14, SetSocketOwn
<1>11. CASE Kernel
  BY <1>11, KernelOwn
<1>12. CASE Others
  BY <1>12, OthersOwn
<1>13. CASE UNCHANGED vars
  BY <1>13, SameOwners DEF vars, OthersStep, Untouched
<1> QED
  BY <1>1, <1>2, <1>3, <1>4, <1>5, <1>6, <1>7, <1>8, <1>9, <1>10, <1>11,
     <1>12, <1>13, <1>14 DEF Next

(* No method leaves a stale descriptor number in the object.               *)
THEOREM OwnershipTheorem == Spec => []OwnsItsDescriptors
<1>1. Init => SafetyInv
  BY InitSafety
<1>2. SafetyInv /\ [Next]_vars => SafetyInv'
  BY SafetyStep
<1>3. SafetyInv => OwnsItsDescriptors
  BY DEF SafetyInv, OwnInv
<1> QED
  BY <1>1, <1>2, <1>3, PTL DEF Spec

(* No method but setSocket() loses a socket the stream has created, as     *)
(* long as ::close() succeeds; and the connection is blocking for the      *)
(* stream buffer that waits on it.                                         *)
THEOREM LeakTheorem == Spec => [](NoDescriptorLeak /\ BlockingModes)
<1>1. Init => SafetyInv
  BY InitSafety
<1>2. SafetyInv /\ [Next]_vars => SafetyInv'
  BY SafetyStep
<1>3. SafetyInv => NoDescriptorLeak /\ BlockingModes
  BY DEF SafetyInv, OwnInv
<1> QED
  BY <1>1, <1>2, <1>3, PTL DEF Spec

(* The connection is blocking for the buffer that waits on it, and what is *)
(* still connecting is not (skstream.cpp:757, 861, 896, 1000).             *)
THEOREM ModesTheorem == Spec => []BlockingModes
<1>1. NoDescriptorLeak /\ BlockingModes => BlockingModes
  OBVIOUS
<1> QED
  BY <1>1, LeakTheorem, PTL

(* No method closes or changes a descriptor of the rest of the program,    *)
(* even where a ::close() has failed before.                               *)
THEOREM OthersTheorem == Spec => OthersUntouched
<1>1. Init => SafetyInv
  BY InitSafety
<1>2. SafetyInv /\ [Next]_vars => SafetyInv'
  BY SafetyStep
<1>3. SafetyInv /\ [Next]_vars =>
        [\A f \in Fd : desc[f].owner = "other" =>
           Untouched(f) \/ OtherCloses(f)]_vars
  BY SafetyStep DEF OthersStep
<1> QED
  BY <1>1, <1>2, <1>3, PTL DEF Spec, OthersUntouched

(* A pending connect only ever moves on, down a list that is allocated: a  *)
(* caller that retries with open_next runs out of addresses.               *)
THEOREM AdvanceTheorem == Spec => OpenNextAdvances
<1>1. Init => CursorInv
  BY InitCursor
<1>2. CursorInv /\ [Next]_vars => CursorInv'
  BY CursorStep
<1>3. ASSUME CursorInv, OpenNext, ConnectPending, ConnectPending'
      PROVE  \/ connectingAddrlist = NoList /\ UNCHANGED connectingSocket
             \/ /\ connectingAddress'.at > connectingAddress.at
                /\ connectingAddress'.list = connectingAddress.list
                /\ connectingAddress'.at <= heap[connectingAddress.list]
  <2> USE <1>3 DEF CursorInv, TypeOK
  <2>1. CASE OpenNextRefused
    BY <2>1 DEF OpenNextRefused, PendingCursorLive
  <2>2. CASE ~OpenNextRefused
    <3>1. PICK d : \/ OpenNextPends(d) \/ OpenNextExhausted(d)
                   \/ OpenNextConnects(d) \/ OpenNextAbandons(d)
      BY <2>2 DEF OpenNext
    <3>2. connectingAddrlist # NoList
      BY <2>2 DEF OpenNext
    <3>3. /\ connectingAddress.list = connectingAddrlist
          /\ connectingAddress.at \in 1 .. heap[connectingAddrlist]
          /\ heap[connectingAddrlist] \in 0 .. MaxAddrs
      BY <3>2 DEF PendingCursorLive
    <3>4. OpenNextPends(d)
      BY <3>1 DEF OpenNextExhausted, OpenNextConnects, OpenNextAbandons,
         OpenNextEnds, ConnectPending
    <3>5. PICK at \in Following :
            connectingAddress' = [connectingAddress EXCEPT !.at = at]
      BY <3>4 DEF OpenNextPends
    <3>6. /\ connectingAddress'.at = at
          /\ connectingAddress'.list = connectingAddress.list
      BY <3>5 DEF Address
    <3> QED
      BY <3>3, <3>6 DEF Following
  <2> QED
    BY <2>1, <2>2
<1>4. CursorInv /\ [Next]_vars =>
        [OpenNext /\ ConnectPending' /\ ConnectPending =>
           \/ connectingAddrlist = NoList /\ UNCHANGED connectingSocket
           \/ /\ connectingAddress'.at > connectingAddress.at
              /\ connectingAddress'.list = connectingAddress.list
              /\ connectingAddress'.at <= heap[connectingAddress.list]]_vars
  BY <1>3
<1> QED
  BY <1>1, <1>2, <1>4, PTL DEF Spec, OpenNextAdvances
-----------------------------------------------------------------------------
(***************************************************************************)
(* What happens to the list that a step drops.                             *)
(***************************************************************************)
LEMMA FreedIsFreed ==
  ASSUME TypeOK, connectingAddrlist # NoList,
         heap' = FreeAddrlist(heap, connectingAddrlist)
  PROVE  heap'[connectingAddrlist] = 0
  BY DEF TypeOK, FreeAddrlist

LEMMA OpenFrees ==
  ASSUME TypeOK, connectingAddrlist # NoList, NEW nonblock \in BOOLEAN,
         connectingAddrlist' # connectingAddrlist,
         \/ OpenHostFails(nonblock) \/ OpenHostConnects(nonblock)
         \/ OpenHostPends \/ OpenAddrinfo(nonblock)
  PROVE  heap'[connectingAddrlist] = 0
<1>1. ASSUME NEW kept,
             OpenFails(kept) \/ OpenAbandons(kept) \/ OpenConnects(kept, nonblock)
      PROVE  heap' = FreeAddrlist(heap, connectingAddrlist)
  BY <1>1 DEF OpenFails, OpenAbandons, OpenConnects
<1>2. ASSUME NEW kept, NEW address, NEW list \in AddrList \cup {NoList}, NEW n,
             OpenPends(kept, address, list, n)
      PROVE  heap'[connectingAddrlist] = 0
  <2>1. /\ connectingAddrlist' = list
        /\ heap' = IF list = NoList
                     THEN FreeAddrlist(heap, connectingAddrlist)
                     ELSE [FreeAddrlist(heap, connectingAddrlist) EXCEPT
                             ![list] = n]
    BY <1>2 DEF OpenPends
  <2> QED
    BY <2>1 DEF FreeAddrlist, TypeOK
<1>3. CASE OpenHostFails(nonblock) \/ OpenHostConnects(nonblock)
  BY <1>1, <1>3, FreedIsFreed DEF OpenHostFails, OpenHostConnects
<1>4. CASE OpenHostPends
  <2>1. PICK kept \in FailedCloses(Held), n \in 1 .. MaxAddrs :
          \E at \in 1 .. n, l \in AddrList :
            OpenPends(kept, [list |-> l, at |-> at], l, n)
    BY <1>4 DEF OpenHostPends
  <2> QED
    BY <1>2, <2>1
<1>5. CASE OpenAddrinfo(nonblock)
  BY <1>1, <1>2, <1>5, FreedIsFreed DEF OpenAddrinfo
<1> QED
  BY <1>3, <1>4, <1>5

LEMMA ListStep ==
  ASSUME CursorInv, [Next]_vars, alive', connectingAddrlist # NoList,
         connectingAddrlist' # connectingAddrlist
  PROVE  heap'[connectingAddrlist] = 0
<1>0. TypeOK
  BY DEF CursorInv
<1>1. CASE Construct
  BY <1>1 DEF Construct, CursorInv, ObjectGone
<1>2. ASSUME NEW nonblock \in BOOLEAN, OpenHost(nonblock) \/ OpenAddrinfo(nonblock)
      PROVE  heap'[connectingAddrlist] = 0
  BY <1>0, <1>2, OpenFrees DEF OpenHost
<1>3. CASE OpenTimed
  BY <1>0, <1>3, OpenFrees DEF OpenTimed
<1>4. ASSUME Ready
      PROVE  heap'[connectingAddrlist] = 0
  BY <1>0, <1>4, FreedIsFreed DEF Ready, NothingPending, Adopts, Abandons
<1>5. CASE OpenTimedEnds \/ IsReady
  BY <1>4, <1>5 DEF OpenTimedEnds, IsReady, StillConnecting, ReadsError
<1>6. CASE OpenNext
  <2>1. OpenNextEnds
    BY <1>6 DEF OpenNext, OpenNextRefused, OpenNextPends, OpenNextExhausted,
       OpenNextConnects, OpenNextAbandons
  <2> QED
    BY <1>0, <2>1, FreedIsFreed DEF OpenNextEnds
<1>7. UNCHANGED connectingAddrlist =>  heap'[connectingAddrlist] = 0
  OBVIOUS
<1>8. CASE Destroy
  BY <1>8 DEF Destroy
<1>9. CASE Close \/ SetSocket \/ Shutdown \/ Kernel \/ Others \/ UNCHANGED vars
  BY <1>7, <1>9 DEF Close, SetSocket, Shutdown, Kernel, ConnectCompletes, ConnectRefused,
     ConnectionLost, ConnChanges, Others, OtherOpens, OtherCloses, vars
<1> QED
  BY <1>1, <1>2, <1>3, <1>5, <1>6, <1>8, <1>9 DEF Next

(* The pointer to an address list only goes once the list is freed, in     *)
(* every method but the destructor (skstream.cpp:688-690).                 *)
THEOREM ListFreedTheorem == Spec => ListFreedWhenDropped
<1>1. Init => CursorInv
  BY InitCursor
<1>2. CursorInv /\ [Next]_vars => CursorInv'
  BY CursorStep
<1>3. CursorInv /\ [Next]_vars =>
        [alive' /\ connectingAddrlist # NoList
           /\ connectingAddrlist' # connectingAddrlist =>
             heap'[connectingAddrlist] = 0]_vars
  BY ListStep
<1> QED
  BY <1>1, <1>2, <1>3, PTL DEF Spec, ListFreedWhenDropped
-----------------------------------------------------------------------------
(***************************************************************************)
(* The answers.  Nobody but the stream changes its fields, so that what a  *)
(* call has answered stays true until the next one.                        *)
(***************************************************************************)
FailedAnswer == ~ConnectPending /\ (CloseMayFail \/ ~IsOpen)

LEMMA OpenAnswer ==
  ASSUME CursorInv, NEW nonblock \in BOOLEAN
  PROVE  /\ OpenHostFails(nonblock) => FailedAnswer'
         /\ OpenHostConnects(nonblock) \/ OpenHostPends => IsOpen'
         /\ \A kept \in FailedCloses(Held) :
              /\ OpenFails(kept) \/ OpenAbandons(kept) => FailedAnswer'
              /\ OpenConnects(kept, nonblock) => IsOpen'
              /\ OpenPends(kept, [list |-> Caller, at |-> 1], NoList, 1) => IsOpen'
<1>1. \A d : \A f \in Unused(d) : f \in Fd /\ f # NoFd
  BY DEF Unused
<1>2. ASSUME NEW kept \in FailedCloses(Held)
      PROVE  /\ OpenFails(kept) \/ OpenAbandons(kept) => FailedAnswer'
             /\ OpenConnects(kept, nonblock) => IsOpen'
             /\ \A address, list, n : OpenPends(kept, address, list, n) => IsOpen'
  <2>1. OpenFails(kept) \/ OpenAbandons(kept) => FailedAnswer'
    BY <1>2 DEF FailedCloses, OpenFails, OpenAbandons, CloseHeld,
       SockbufAfterClose, FailedAnswer, ConnectPending, IsOpen, Held
  <2>2. OpenConnects(kept, nonblock) => IsOpen'
    BY <1>1 DEF OpenConnects, IsOpen, Held
  <2>3. \A address, list, n : OpenPends(kept, address, list, n) => IsOpen'
    BY <1>1 DEF OpenPends, IsOpen, Held
  <2> QED
    BY <2>1, <2>2, <2>3
<1>3. OpenHostFails(nonblock) => FailedAnswer'
  BY <1>2 DEF OpenHostFails
<1>4. OpenHostConnects(nonblock) => IsOpen'
  BY <1>2 DEF OpenHostConnects
<1>5. OpenHostPends => IsOpen'
  BY <1>2 DEF OpenHostPends
<1> QED
  BY <1>2, <1>3, <1>4, <1>5

(* open_next(): its 0, the two outcomes of its 1 and of its -1.            *)
LEMMA OpenNextAnswer ==
  ASSUME SafetyInv, OpenNext
  PROVE  ResultMatchesPhase'
<1>1. CASE OpenNextRefused
  <2>1. ~ConnectPending' \/ connectingAddrlist' = NoList
    BY <1>1 DEF OpenNextRefused, ConnectPending, SafetyInv, CursorInv,
       PendingCursorLive
  <2> QED
    BY <1>1, <2>1 DEF OpenNextRefused, ResultMatchesPhase
<1>2. CASE ~OpenNextRefused
  <2>1. PICK kept \in FailedCloses({connectingSocket}) :
          /\ ConnectPending
          /\ LET d == Released(desc, {connectingSocket} \ kept)
             IN  \/ OpenNextPends(d) \/ OpenNextExhausted(d)
                 \/ OpenNextConnects(d) \/ OpenNextAbandons(d)
    BY <1>2 DEF OpenNext
  <2> DEFINE d == Released(desc, {connectingSocket} \ kept)
  <2>2. CASE OpenNextPends(d)
    <3>1. ConnectPending' /\ Return("open_next", "1")
      BY <2>2 DEF OpenNextPends, Unused, ConnectPending
    <3> QED
      BY <3>1 DEF ResultMatchesPhase
  <2>3. CASE OpenNextExhausted(d)
    BY <2>3 DEF OpenNextExhausted, OpenNextEnds, ConnectPending,
       ResultMatchesPhase
  <2>4. CASE OpenNextConnects(d)
    <3>1. sockbufSocket' # NoFd /\ ~ConnectPending' /\ Return("open_next", "0")
      BY <2>4 DEF OpenNextConnects, OpenNextEnds, Unused, ConnectPending
    <3> QED
      BY <3>1 DEF ResultMatchesPhase
  <2>5. CASE OpenNextAbandons(d)
    <3>1. ASSUME ~CloseMayFail, NEW f \in Held' PROVE desc'[f].owner = "given"
      <4>1. f = sockbufSocket /\ f \in Fd
        BY <2>5, <3>1 DEF OpenNextAbandons, OpenNextEnds, Held, SafetyInv,
           CursorInv, TypeOK
      <4>2. desc' = d
        BY <2>5, <3>1 DEF OpenNextAbandons, AfterAbandon
      <4>3. f # connectingSocket
        BY <2>1, <4>1 DEF SafetyInv, OwnInv, OwnsItsDescriptors
      <4>4. desc'[f] = desc[f]
        BY <4>1, <4>2, <4>3 DEF Released
      <4>5. desc[f].owner = "given"
        BY <2>1, <3>1, <4>1, OnlyConnectingOwned DEF OnlyConnecting
      <4> QED
        BY <4>4, <4>5
    <3>2. CloseMayFail \/ \A f \in Held' : desc'[f].owner = "given"
      BY <3>1
    <3>3. Return("open_next", "1")
      BY <2>5 DEF OpenNextAbandons
    <3> QED
      BY <3>2, <3>3 DEF ResultMatchesPhase
  <2> QED
    BY <2>1, <2>2, <2>3, <2>4, <2>5
<1> QED
  BY <1>1, <1>2

(* The kernel and the rest of the program give nothing to the stream and   *)
(* take nothing from it.                                                   *)
LEMMA AnswerKept ==
  ASSUME SafetyInv, ResultMatchesPhase, Kernel \/ Others \/ UNCHANGED vars
  PROVE  ResultMatchesPhase'
<1> USE DEF SafetyInv, CursorInv, TypeOK
<1>1. UNCHANGED <<result, sockbufSocket, connectingSocket, connectingAddrlist>>
  BY DEF Kernel, ConnectCompletes, ConnectRefused, ConnectionLost, ConnChanges,
     Others, OtherOpens, OtherCloses, vars
<1>2. ASSUME NEW f \in Fd, desc[f].owner = "given"
      PROVE  desc'[f].owner = "given"
  <2>1. CASE Kernel
    BY <1>2, <2>1 DEF Kernel, ConnectCompletes, ConnectRefused, ConnectionLost,
       ConnChanges, Descriptor
  <2>2. ASSUME NEW g \in Fd, OtherOpens(g) \/ OtherCloses(g)
        PROVE  desc'[f].owner = "given"
    <3>1. f # g
      BY <1>2, <2>2 DEF OtherOpens, OtherCloses, Unused, ClosedDesc
    <3> QED
      BY <1>2, <2>2, <3>1, ReleasedType DEF OtherOpens, OtherCloses
  <2>3. CASE UNCHANGED vars
    BY <1>2, <2>3 DEF vars
  <2> QED
    BY <2>1, <2>2, <2>3 DEF Others
<1>3. Held' = Held /\ Held \subseteq Fd
  BY <1>1 DEF Held
<1>4. ConnectPending' = ConnectPending /\ IsOpen' = IsOpen
  BY <1>1, <1>3 DEF ConnectPending, IsOpen
<1>5. (\A f \in Held : desc[f].owner = "given")
        => \A f \in Held' : desc'[f].owner = "given"
  BY <1>2, <1>3
<1> QED
  BY <1>1, <1>4, <1>5 DEF ResultMatchesPhase

LEMMA AnswerStep ==
  ASSUME SafetyInv, ResultMatchesPhase, [Next]_vars
  PROVE  ResultMatchesPhase'
<1>0. CursorInv
  BY DEF SafetyInv
<1>a. ASSUME result'.op = "none"
      PROVE  ResultMatchesPhase'
  BY <1>a DEF ResultMatchesPhase
<1>b. ASSUME FailedAnswer', Return("open", "-1") \/ Return("open_ms", "-1")
      PROVE  ResultMatchesPhase'
  BY <1>b DEF FailedAnswer, ResultMatchesPhase
<1>c. ASSUME Ready PROVE ~ConnectPending'
  BY <1>c DEF Ready, NothingPending, Adopts, Abandons, ConnectPending
<1>1. CASE Construct \/ Destroy \/ SetSocket \/ Shutdown
  <2>1. result' = [op |-> "none", ret |-> "void"]
    BY <1>1 DEF Construct, Destroy, SetSocket, Shutdown
  <2> QED
    BY <1>a, <2>1
<1>2. ASSUME NEW nonblock \in BOOLEAN, OpenHost(nonblock)
      PROVE  ResultMatchesPhase'
  <2>1. CASE OpenHostFails(nonblock) /\ Return("open", "-1")
    BY <1>0, <1>b, <2>1, OpenAnswer
  <2>2. CASE (OpenHostConnects(nonblock) \/ OpenHostPends) /\ Return("open", "0")
    <3>1. IsOpen' /\ Return("open", "0")
      BY <1>0, <2>2, OpenAnswer
    <3> QED
      BY <3>1 DEF ResultMatchesPhase
  <2> QED
    BY <1>2, <2>1, <2>2 DEF OpenHost
<1>3. ASSUME NEW nonblock \in BOOLEAN, OpenAddrinfo(nonblock)
      PROVE  ResultMatchesPhase'
  <2>1. PICK kept \in FailedCloses(Held) :
          \/ (OpenFails(kept) \/ OpenAbandons(kept)) /\ Return("open", "-1")
          \/ OpenConnects(kept, nonblock) /\ Return("open", "0")
          \/ /\ OpenPends(kept, [list |-> Caller, at |-> 1], NoList, 1)
             /\ Return("open", "0")
    BY <1>3 DEF OpenAddrinfo
  <2>2. CASE (OpenFails(kept) \/ OpenAbandons(kept)) /\ Return("open", "-1")
    BY <1>0, <1>b, <2>2, OpenAnswer
  <2>3. CASE ~((OpenFails(kept) \/ OpenAbandons(kept)) /\ Return("open", "-1"))
    <3>1. IsOpen' /\ Return("open", "0")
      BY <1>0, <2>1, <2>3, OpenAnswer
    <3> QED
      BY <3>1 DEF ResultMatchesPhase
  <2> QED
    BY <2>2, <2>3
<1>4. CASE OpenTimed
  <2>1. CASE OpenHostFails(TRUE) /\ Return("open_ms", "-1")
    BY <1>0, <1>b, <2>1, OpenAnswer
  <2>2. CASE Return("none", "void")
    <3>1. result'.op = "none"
      BY <2>2
    <3> QED
      BY <1>a, <3>1
  <2> QED
    BY <1>4, <2>1, <2>2 DEF OpenTimed
<1>5. CASE OpenTimedEnds
  <2>1. ~ConnectPending'
    BY <1>c, <1>5 DEF OpenTimedEnds, CloseHeld, ConnectPending
  <2> QED
    BY <1>5, <2>1 DEF OpenTimedEnds, ResultMatchesPhase
<1>6. CASE OpenNext
  BY <1>6, OpenNextAnswer
<1>7. CASE IsReady
  <2>1. CASE Ready /\ Return("isReady", "true")
    BY <1>c, <2>1 DEF ResultMatchesPhase
  <2>2. CASE (StillConnecting \/ ReadsError) /\ Return("isReady", "false")
    <3>1. ConnectPending'
      BY <2>2 DEF StillConnecting, ReadsError, ConnectPending
    <3> QED
      BY <2>2, <3>1 DEF ResultMatchesPhase
  <2> QED
    BY <1>7, <2>1, <2>2 DEF IsReady
<1>8. CASE Close
  BY <1>8 DEF Close, CloseHeld, ConnectPending, ResultMatchesPhase
<1>9. CASE Kernel \/ Others \/ UNCHANGED vars
  BY <1>9, AnswerKept
<1> QED
  BY <1>1, <1>2, <1>3, <1>4, <1>5, <1>6, <1>7, <1>8, <1>9 DEF Next

(* What a call answered agrees with the phase it left the stream in, and   *)
(* goes on doing so while the kernel decides connects: a 1 of open_next()  *)
(* over a stream that holds a socket it made means that a connect is       *)
(* pending, whatever has failed before (skstream.cpp:836-911).             *)
THEOREM AnswersTheorem == Spec => []ResultMatchesPhase
<1>1. Init => SafetyInv /\ ResultMatchesPhase
  <2>1. Init => result = [op |-> "none", ret |-> "void"]
    BY DEF Init
  <2> QED
    BY <2>1, InitSafety DEF ResultMatchesPhase
<1>2. SafetyInv /\ ResultMatchesPhase /\ [Next]_vars
        => SafetyInv' /\ ResultMatchesPhase'
  BY SafetyStep, AnswerStep
<1> QED
  BY <1>1, <1>2, PTL DEF Spec
=============================================================================
