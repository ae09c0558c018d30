---------------------------- MODULE SkCat_proofs ----------------------------
(***************************************************************************)
(* Theorems about cat up to its decision, for every number of rounds, of   *)
(* descriptors and of addresses.                                           *)
(***************************************************************************)
EXTENDS SkCat, TcpSocketStream_proofs

USE TcpAssumption, CatAssumption DEF NullAddress, Return

Before == {"construct", "open", "opened", "poll"}

(* The error of the socket that is going to be polled has not been read.   *)
PendingFresh == ConnectPending => desc[connectingSocket].conn # "dead"

(* Nothing is allocated but the list of the connect in progress.           *)
OnlyPendingList ==
  \A l \in AddrList : heap[l] # 0 => ConnectPending /\ l = connectingAddrlist

Rounds ==
  /\ pc = "construct" => ~alive
  /\ pc \in Before => PendingFresh
  /\ pc \in Before \cup {"next"} => tries < MaxTries
  /\ Failed => ~IsOpen

CatInv == CatTypeOK /\ SafetyInv /\ OnlyPendingList /\ Rounds

LEMMA AllFreed ==
  ASSUME TypeOK, OnlyPendingList, heap' = FreeAddrlist(heap, connectingAddrlist)
  PROVE  \A l \in AddrList : heap'[l] = 0
  BY DEF TypeOK, OnlyPendingList, FreeAddrlist, ConnectPending

LEMMA FreedOnlyPending ==
  ASSUME TypeOK, OnlyPendingList, heap' = FreeAddrlist(heap, connectingAddrlist)
  PROVE  OnlyPendingList'
  BY AllFreed DEF OnlyPendingList

LEMMA OpenHostCat ==
  ASSUME SafetyInv, OnlyPendingList, NEW nonblock \in BOOLEAN, OpenHost(nonblock)
  PROVE  OnlyPendingList' /\ PendingFresh'
<1>0. TypeOK
  BY DEF SafetyInv, CursorInv
<1>1. ASSUME NEW kept,
             OpenFails(kept) \/ OpenAbandons(kept) \/ OpenConnects(kept, nonblock)
      PROVE  OnlyPendingList' /\ PendingFresh'
  <2>1. /\ heap' = FreeAddrlist(heap, connectingAddrlist)
        /\ connectingSocket' = NoFd
    BY <1>1 DEF OpenFails, OpenAbandons, OpenConnects, CloseHeld
  <2> QED
    BY <1>0, <2>1, FreedOnlyPending DEF PendingFresh, ConnectPending
<1>2. CASE OpenHostPends
  <2>1. PICK kept \in FailedCloses(Held), n \in 1 .. MaxAddrs :
          \E at \in 1 .. n, l \in AddrList :
            OpenPends(kept, [list |-> l, at |-> at], l, n)
    BY <1>2 DEF OpenHostPends
  <2>2. PICK at \in 1 .. n, l \in AddrList :
          OpenPends(kept, [list |-> l, at |-> at], l, n)
    BY <2>1
  <2> DEFINE d == DescAfterClose(desc, kept)
             h == FreeAddrlist(heap, connectingAddrlist)
  <2>3. PICK fd \in Unused(d) :
          /\ desc' = [d EXCEPT ![fd] = StreamDesc("connecting", TRUE)]
          /\ connectingSocket' = fd
          /\ connectingAddrlist' = l
          /\ heap' = [h EXCEPT ![l] = n]
    BY <2>2 DEF OpenPends
  <2>4. d \in [Fd -> Descriptor] /\ fd \in Fd /\ fd # NoFd
    BY <1>0, ReleasedType DEF DescAfterClose, Unused, TypeOK
  <2>5. desc'[fd].conn = "connecting"
    BY <2>3, <2>4 DEF StreamDesc
  <2>6. \A k \in AddrList : h[k] = 0
    BY <1>0 DEF TypeOK, OnlyPendingList, FreeAddrlist, ConnectPending
  <2>7. h \in [AddrList -> 0 .. MaxAddrs]
    BY <1>0, FreeAddrlistType
  <2>8. OnlyPendingList'
    BY <2>3, <2>4, <2>6, <2>7 DEF OnlyPendingList, ConnectPending
  <2> QED
    BY <2>3, <2>5, <2>8 DEF PendingFresh
<1> QED
  BY <1>1, <1>2 DEF OpenHost, OpenHostFails, OpenHostConnects

LEMMA OpenNextCat ==
  ASSUME SafetyInv, OnlyPendingList, OpenNext
  PROVE  OnlyPendingList' /\ (result'.ret # "-1" => PendingFresh')
<1>0. TypeOK
  BY DEF SafetyInv, CursorInv
<1>1. CASE OpenNextRefused
  <2>1. result'.ret = "-1" /\ UNCHANGED <<connectingSocket, connectingAddrlist, heap>>
    BY <1>1 DEF OpenNextRefused
  <2> QED
    BY <2>1 DEF OnlyPendingList, ConnectPending
<1>2. CASE ~OpenNextRefused
  <2>1. PICK kept \in FailedCloses({connectingSocket}) :
          LET d == Released(desc, {connectingSocket} \ kept)
          IN  \/ OpenNextPends(d) \/ OpenNextExhausted(d)
              \/ OpenNextConnects(d) \/ OpenNextAbandons(d)
    BY <1>2 DEF OpenNext
  <2>2. ConnectPending
    BY <1>2 DEF OpenNext
  <2> DEFINE d == Released(desc, {connectingSocket} \ kept)
  <2>3. CASE OpenNextPends(d)
    <3>1. PICK fd \in Unused(d) :
            /\ desc' = [d EXCEPT ![fd] = StreamDesc("connecting", TRUE)]
            /\ connectingSocket' = fd
      BY <2>3 DEF OpenNextPends
    <3>2. UNCHANGED <<connectingAddrlist, heap>>
      BY <2>3 DEF OpenNextPends
    <3>3. d \in [Fd -> Descriptor] /\ fd \in Fd /\ fd # NoFd
      BY <1>0, ReleasedType DEF Unused, TypeOK
    <3>4. desc'[fd].conn = "connecting"
      BY <3>1, <3>3 DEF StreamDesc
    <3> QED
      BY <2>2, <3>1, <3>2, <3>3, <3>4 DEF OnlyPendingList, PendingFresh,
         ConnectPending
  <2>4. CASE OpenNextExhausted(d) \/ OpenNextConnects(d) \/ OpenNextAbandons(d)
    <3>1. OpenNextEnds
      BY <2>4 DEF OpenNextExhausted, OpenNextConnects, OpenNextAbandons
    <3> QED
      BY <1>0, <3>1, FreedOnlyPending DEF OpenNextEnds, PendingFresh, ConnectPending
  <2> QED
    BY <2>1, <2>3, <2>4
<1> QED
  BY <1>1, <1>2

LEMMA IsReadyCat ==
  ASSUME SafetyInv, OnlyPendingList, IsReady
  PROVE  OnlyPendingList'
<1>0. TypeOK
  BY DEF SafetyInv, CursorInv
<1>1. CASE Adopts \/ Abandons
  BY <1>0, <1>1, FreedOnlyPending DEF Adopts, Abandons
<1>2. CASE NothingPending \/ StillConnecting \/ ReadsError
  BY <1>2 DEF NothingPending, StillConnecting, ReadsError, OnlyPendingList,
     ConnectPending
<1> QED
  BY <1>1, <1>2 DEF IsReady, Ready

(* The client's steps are steps of the stream.                             *)
LEMMA CatMethod ==
  ASSUME CatTypeOK, [CatNextState]_catVars
  PROVE  [Next]_vars
  BY DEF CatNextState, Program, Environment, CatEnds, CatConstruct, CatOpen,
     CatOpened, CatPoll, CatNext, CatCheck, catVars, streamVars, Next, CatTypeOK

LEMMA KernelCat ==
  ASSUME SafetyInv, OnlyPendingList, Kernel
  PROVE  /\ OnlyPendingList' /\ (PendingFresh => PendingFresh')
         /\ UNCHANGED <<alive, sockbufSocket, connectingSocket>>
<1>1. PICK f \in Fd : ConnectCompletes(f) \/ ConnectRefused(f) \/ ConnectionLost(f)
  BY DEF Kernel
<1>2. PICK from \in {"connecting", "connected"}, to \in {"connected", "refused"} :
        ConnChanges(f, from, to)
  BY <1>1 DEF ConnectCompletes, ConnectRefused, ConnectionLost
<1>3. desc \in [Fd -> Descriptor]
  BY DEF SafetyInv, CursorInv, TypeOK
<1>4. \A g \in Fd : desc'[g].conn = "dead" => desc[g].conn = "dead"
  BY <1>2, <1>3 DEF ConnChanges, Descriptor
<1>5. connectingSocket \in Fd \cup {NoFd}
  BY DEF SafetyInv, CursorInv, TypeOK
<1> QED
  BY <1>2, <1>4, <1>5 DEF ConnChanges, OnlyPendingList, PendingFresh, ConnectPending

LEMMA CatStep ==
  ASSUME CatInv, [CatNextState]_catVars
  PROVE  CatInv'
<1>1. SafetyInv'
  BY CatMethod, SafetyStep DEF CatInv
<1>2. TypeOK'
  BY <1>1 DEF SafetyInv, CursorInv
<1>3. SUFFICES OnlyPendingList' /\ Rounds' /\ CatTypeOK'
  BY <1>1 DEF CatInv
<1> USE DEF CatInv, CatTypeOK, Rounds, Before, Failed, Goto
<1>4. CASE CatConstruct
  <2>1. connectingSocket = NoFd /\ UNCHANGED <<connectingSocket, heap>>
    BY <1>4 DEF CatConstruct, Construct, SafetyInv, CursorInv, ObjectGone
  <2>2. OnlyPendingList' /\ PendingFresh'
    BY <2>1 DEF OnlyPendingList, PendingFresh, ConnectPending
  <2>3. pc' = "open" /\ tries' = tries /\ asked' = asked /\ pc = "construct"
    BY <1>4 DEF CatConstruct
  <2> QED
    BY <1>2, <2>2, <2>3
<1>5. CASE CatOpen
  BY <1>2, <1>5, OpenHostCat DEF CatOpen
<1>6. CASE CatOpened
  <2>1. /\ pc = "opened" /\ UNCHANGED <<vars, tries, asked>>
        /\ \/ pc' \in {"poll", "check"}
           \/ pc' = "failed" /\ ~IsOpen
    BY <1>6 DEF CatOpened, streamVars
  <2>2. OnlyPendingList' /\ PendingFresh' /\ IsOpen' = IsOpen
    BY <2>1 DEF vars, OnlyPendingList, PendingFresh, ConnectPending, IsOpen, Held
  <2> QED
    BY <1>2, <2>1, <2>2
<1>7. CASE CatPoll
  BY <1>2, <1>7, IsReadyCat DEF CatPoll
<1>8. CASE CatNext
  BY <1>2, <1>8, OpenNextCat DEF CatNext
<1>9. CASE CatCheck
  BY <1>2, <1>9 DEF CatCheck, streamVars, vars, OnlyPendingList, ConnectPending,
     IsOpen, Held
<1>10. CASE Environment
  BY <1>2, <1>10, KernelCat DEF Environment, IsOpen, Held
<1>11. CASE UNCHANGED catVars
  BY <1>2, <1>11 DEF catVars, vars, OnlyPendingList, ConnectPending, PendingFresh,
     IsOpen, Held
<1> QED
  BY <1>4, <1>5, <1>6, <1>7, <1>8, <1>9, <1>10, <1>11
  DEF CatNextState, Program, CatEnds

LEMMA CatInitInv ==
  ASSUME CatInit PROVE CatInv
<1>1. SafetyInv /\ TypeOK
  BY InitSafety DEF CatInit, SafetyInv, CursorInv
<1>2. ~ConnectPending /\ ~alive /\ OnlyPendingList
  BY DEF CatInit, Init, ConnectPending, OnlyPendingList
<1> QED
  BY <1>1, <1>2 DEF CatInit, CatInv, CatTypeOK, Rounds, Before, PendingFresh, Failed

(* Type correctness of the client, the number of its rounds included.      *)
THEOREM CatTypeTheorem == CatSpec => []CatTypeOK
<1>1. CatInit => CatInv
  BY CatInitInv
<1>2. CatInv /\ [CatNextState]_catVars => CatInv'
  BY CatStep
<1>3. CatInv => CatTypeOK
  BY DEF CatInv
<1> QED
  BY <1>1, <1>2, <1>3, PTL DEF CatSpec

(* The client uses the stream only as the stream can be used: what is      *)
(* proved of every use of a tcp stream holds of the one in cat.            *)
THEOREM CatStreamTheorem == CatSpec => Spec
<1>1. CatInit => CatInv /\ Init
  BY CatInitInv DEF CatInit
<1>2. CatInv /\ [CatNextState]_catVars => CatInv' /\ [Next]_vars
  BY CatStep, CatMethod DEF CatInv
<1> QED
  BY <1>1, <1>2, PTL DEF CatSpec, Spec

(* When the client gives up, nothing that it allocated is left, and a      *)
(* connected stream has freed its list, while ::close() succeeds           *)
(* (cat.cpp:81-127).                                                       *)
THEOREM CatCleanTheorem == ASSUME ~CloseMayFail PROVE CatSpec => []EndsClean
<1>1. CatInit => CatInv
  BY CatInitInv
<1>2. CatInv /\ [CatNextState]_catVars => CatInv'
  BY CatStep
<1>3. CatInv => EndsClean
  BY DEF CatInv, Rounds, SafetyInv, OwnInv, NoDescriptorLeak, OnlyPendingList,
     EndsClean, IsOpen, Held, ConnectPending
<1> QED
  BY <1>1, <1>2, <1>3, PTL DEF CatSpec

(* Each socket is polled before its error has been read, so that no dead   *)
(* socket becomes the connection, ::close() failing or not.                *)
THEOREM CatAdoptsTheorem == CatSpec => CatAdoptsOnlyConnected
<1>1. CatInit => CatInv
  BY CatInitInv
<1>2. CatInv /\ [CatNextState]_catVars => CatInv'
  BY CatStep
<1>3. CatInv =>
        [CatPoll /\ ConnectPending /\ sockbufSocket' = connectingSocket =>
           desc[connectingSocket].conn = "connected"]_catVars
  <2> SUFFICES ASSUME CatInv, CatPoll, ConnectPending,
                      sockbufSocket' = connectingSocket
               PROVE  desc[connectingSocket].conn = "connected"
    OBVIOUS
  <2>1. connectingSocket # sockbufSocket
    BY DEF CatInv, SafetyInv, OwnInv, OwnsItsDescriptors
  <2>2. desc[connectingSocket].conn # "dead"
    BY DEF CatInv, Rounds, Before, CatPoll, PendingFresh
  <2> QED
    BY <2>1, <2>2 DEF CatPoll, IsReady, Ready, NothingPending, Adopts, Abandons,
       StillConnecting, ReadsError
<1> QED
  BY <1>1, <1>2, <1>3, PTL DEF CatSpec, CatAdoptsOnlyConnected
=============================================================================
