----------------------- MODULE UnixSocketStream_proofs -----------------------
(***************************************************************************)
(* Theorems about UnixSocketStream, for every number of descriptors, and   *)
(* ::close() failing or not.                                               *)
(***************************************************************************)
EXTENDS UnixSocketStream, TLAPS

(* What is left of the object agrees with how far its destruction is.      *)
PhaseOK ==
  /\ ~alive => /\ sockbufSocket = NoFd /\ connectingSocket = NoFd
               /\ destroyed = "none"
  /\ inOpen => alive /\ destroyed = "none"
  /\ destroyed = "stream" => connectingSocket = NoFd

Ours == {"stream", "given"}

(* The connected socket is the stream's own, or one it was given, at all   *)
(* times; the connecting one, which setSocket() does not reach, is the     *)
(* stream's until the first destructor has closed it.                      *)
OwnsUntilDestroyed ==
  /\ sockbufSocket # NoFd => desc[sockbufSocket].owner \in Ours
  /\ ConnectPending => connectingSocket # sockbufSocket
  /\ ConnectPending /\ destroyed = "none" =>
       desc[connectingSocket].owner = "stream"

OwnInv == OwnsUntilDestroyed /\ NoDescriptorLeak

UnixInv == TypeOK /\ PhaseOK /\ OwnInv

OthersKept ==
  \A f \in Fd : desc[f].owner = "other" =>
    /\ desc'[f].owner = desc[f].owner
    /\ desc'[f].nonblock = desc[f].nonblock

OthersStep ==
  \A f \in Fd : desc[f].owner = "other" =>
    \/ Untouched(f)
    \/ OtherCloses(f)
    \/ DestroyStream /\ f = connectingSocket

USE UnixAssumption DEF Return, Ours

LEMMA KeptStep == OthersKept => OthersStep
  BY DEF OthersKept, OthersStep, Untouched

(* What a close leaves behind has the types of the variables.              *)
LEMMA ReleasedType ==
  ASSUME NEW d \in [Fd -> Descriptor], NEW S
  PROVE  /\ Released(d, S) \in [Fd -> Descriptor]
         /\ \A f \in Fd : Released(d, S)[f] = IF f \in S THEN ClosedDesc ELSE d[f]
  BY DEF Released, Descriptor, ClosedDesc, Conn

(* setSocket() leaves the rest of the table alone.                         *)
LEMMA LetGoType ==
  ASSUME NEW d \in [Fd -> Descriptor]
  PROVE  /\ LetGo(d) \in [Fd -> Descriptor]
         /\ \A f \in Fd : f # sockbufSocket => LetGo(d)[f] = d[f]
         /\ \A f \in Fd : f = sockbufSocket => LetGo(d)[f].owner = "other"
  BY DEF LetGo, Descriptor

LEMMA InitInv ==
  ASSUME Init PROVE UnixInv
<1>1. ClosedDesc \in Descriptor /\ ClosedDesc.owner = "nobody"
  BY DEF ClosedDesc, Descriptor, Conn
<1>2. TypeOK
  BY <1>1 DEF Init, TypeOK, Errors
<1>3. PhaseOK /\ OwnsUntilDestroyed
  BY DEF Init, PhaseOK, OwnsUntilDestroyed, ConnectPending
<1>4. NoDescriptorLeak
  BY <1>1 DEF Init, NoDescriptorLeak
<1> QED
  BY <1>2, <1>3, <1>4 DEF UnixInv, OwnInv

(* The descriptor table `d' after a close that failed on `kept', and what  *)
(* is left in the stream buffer.                                           *)
LEMMA AfterClose ==
  ASSUME UnixInv, destroyed = "none", NEW kept \in FailedCloses(Held)
  PROVE  LET d == DescAfterClose(desc, kept)
             s == SockbufAfterClose(kept)
         IN  /\ d \in [Fd -> Descriptor]
             /\ s \in Fd \cup {NoFd}
             /\ s # NoFd => d[s].owner \in Ours
             /\ ~CloseMayFail => s = NoFd /\ \A f \in Fd : d[f].owner # "stream"
             /\ \A f \in Fd : desc[f].owner = "other" => d[f] = desc[f]
             /\ ErrorAfterClose(kept) \in Errors
<1> DEFINE d == DescAfterClose(desc, kept)
           s == SockbufAfterClose(kept)
<1>1. /\ d \in [Fd -> Descriptor]
      /\ \A f \in Fd : d[f] = IF f \in Held \ kept THEN ClosedDesc ELSE desc[f]
  BY ReleasedType DEF DescAfterClose, UnixInv, TypeOK
<1>2. s \in Fd \cup {NoFd} /\ (s # NoFd => s = sockbufSocket /\ s \in kept)
  BY DEF SockbufAfterClose, UnixInv, TypeOK
<1>3. s # NoFd => d[s].owner \in Ours
  BY <1>1, <1>2 DEF UnixInv, OwnInv, OwnsUntilDestroyed
<1>4. ~CloseMayFail => kept = {}
  BY DEF FailedCloses
<1>5. ~CloseMayFail => s = NoFd /\ \A f \in Fd : d[f].owner # "stream"
  BY <1>1, <1>2, <1>4 DEF UnixInv, OwnInv, NoDescriptorLeak, ClosedDesc
<1>6. \A f \in Fd : desc[f].owner = "other" => d[f] = desc[f]
  BY <1>1 DEF UnixInv, OwnInv, OwnsUntilDestroyed, Held, ConnectPending
<1>7. ErrorAfterClose(kept) \in Errors
  BY DEF ErrorAfterClose, UnixInv, TypeOK, Errors
<1> QED
  BY <1>1, <1>2, <1>3, <1>5, <1>6, <1>7

LEMMA StreamDescType ==
  ASSUME NEW nb \in BOOLEAN
  PROVE  LET r == StreamDesc("connected", nb)
         IN  /\ r \in Descriptor /\ r.owner = "stream"
             /\ Blocking(r) \in Descriptor /\ Blocking(r).owner = "stream"
  BY DEF Blocking, StreamDesc, Descriptor, Conn

(* The three ways in which a call that closes what the stream holds ends:  *)
(* with a connected socket, with a connecting one, or with neither.        *)
LEMMA FreshConnected ==
  ASSUME NEW d \in [Fd -> Descriptor], NEW fd \in Unused(d),
         NEW r \in Descriptor, r.owner = "stream",
         ~CloseMayFail => \A f \in Fd : d[f].owner # "stream",
         \A f \in Fd : desc[f].owner = "other" => d[f] = desc[f],
         desc' = [d EXCEPT ![fd] = r],
         sockbufSocket' = fd, connectingSocket' = NoFd
  PROVE  /\ desc' \in [Fd -> Descriptor]
         /\ OwnInv' /\ OthersKept
<1>2. fd \in Fd /\ d[fd].owner = "nobody"
  BY DEF Unused, ClosedDesc
<1>3. /\ desc' \in [Fd -> Descriptor]
      /\ desc'[fd].owner = "stream"
      /\ \A f \in Fd \ {fd} : desc'[f] = d[f]
  BY <1>2
<1>4. OthersKept
  BY <1>2, <1>3 DEF OthersKept
<1> QED
  BY <1>2, <1>3, <1>4 DEF OwnInv, OwnsUntilDestroyed, NoDescriptorLeak, Held,
     ConnectPending

LEMMA FreshPending ==
  ASSUME NEW d \in [Fd -> Descriptor], NEW fd \in Unused(d),
         NEW s \in Fd \cup {NoFd},
         s # NoFd => d[s].owner \in Ours,
         ~CloseMayFail => s = NoFd /\ \A f \in Fd : d[f].owner # "stream",
         \A f \in Fd : desc[f].owner = "other" => d[f] = desc[f],
         desc' = [d EXCEPT ![fd] = StreamDesc("connecting", TRUE)],
         sockbufSocket' = s, connectingSocket' = fd
  PROVE  /\ desc' \in [Fd -> Descriptor]
         /\ OwnInv' /\ OthersKept
<1>1. /\ StreamDesc("connecting", TRUE) \in Descriptor
      /\ StreamDesc("connecting", TRUE).owner = "stream"
  BY DEF StreamDesc, Descriptor, Conn
<1>2. fd \in Fd /\ d[fd].owner = "nobody" /\ fd # s
  BY DEF Unused, ClosedDesc
<1>3. /\ desc' \in [Fd -> Descriptor]
      /\ desc'[fd].owner = "stream"
      /\ \A f \in Fd \ {fd} : desc'[f] = d[f]
  BY <1>1, <1>2
<1>4. OthersKept
  BY <1>2, <1>3 DEF OthersKept
<1> QED
  BY <1>2, <1>3, <1>4 DEF OwnInv, OwnsUntilDestroyed, NoDescriptorLeak, Held,
     ConnectPending

LEMMA NothingFresh ==
  ASSUME NEW d \in [Fd -> Descriptor], NEW s \in Fd \cup {NoFd},
         s # NoFd => d[s].owner \in Ours,
         ~CloseMayFail => s = NoFd /\ \A f \in Fd : d[f].owner # "stream",
         \A f \in Fd : desc[f].owner = "other" => d[f] = desc[f],
         desc' = d, sockbufSocket' = s, connectingSocket' = NoFd
  PROVE  /\ desc' \in [Fd -> Descriptor]
         /\ OwnInv' /\ OthersKept
  BY DEF OwnInv, OwnsUntilDestroyed, NoDescriptorLeak, Held, ConnectPending,
     OthersKept

(* Or the connected one could not be made to block.                        *)
LEMMA FreshAbandoned ==
  ASSUME NEW d \in [Fd -> Descriptor], NEW s \in Fd \cup {NoFd},
         s # NoFd => d[s].owner \in Ours,
         ~CloseMayFail => s = NoFd /\ \A f \in Fd : d[f].owner # "stream",
         \A f \in Fd : desc[f].owner = "other" => d[f] = desc[f],
         desc' \in AfterAbandon(d), sockbufSocket' = s, connectingSocket' = NoFd
  PROVE  /\ desc' \in [Fd -> Descriptor]
         /\ OwnInv' /\ OthersKept
<1>1. CASE desc' = d
  BY <1>1, NothingFresh
<1>2. ASSUME CloseMayFail, NEW fd \in Unused(d),
             desc' = [d EXCEPT ![fd] = StreamDesc("connected", TRUE)]
      PROVE  /\ desc' \in [Fd -> Descriptor]
             /\ OwnInv' /\ OthersKept
  <2>1. fd \in Fd /\ d[fd].owner = "nobody"
    BY DEF Unused, ClosedDesc
  <2>2. StreamDesc("connected", TRUE) \in Descriptor
    BY DEF StreamDesc, Descriptor, Conn
  <2>3. desc' \in [Fd -> Descriptor] /\ \A f \in Fd \ {fd} : desc'[f] = d[f]
    BY <1>2, <2>2
  <2>4. OthersKept
    BY <2>1, <2>3 DEF OthersKept
  <2> QED
    BY <1>2, <2>1, <2>3, <2>4 DEF OwnInv, OwnsUntilDestroyed, NoDescriptorLeak,
       ConnectPending
<1> QED
  BY <1>1, <1>2 DEF AfterAbandon

(* The connecting socket has been taken out of its place and closed, or    *)
(* has stayed open because that failed.                                    *)
LEMMA GivesUpOwn ==
  ASSUME UnixInv, destroyed = "none", ConnectPending, GivesUp
  PROVE  /\ desc' \in [Fd -> Descriptor] /\ sockbufSocket' = sockbufSocket
         /\ connectingSocket' = NoFd /\ lastError' \in Errors
         /\ OwnInv' /\ OthersKept
<1>1. PICK kept \in FailedCloses({connectingSocket}) :
        desc' = Released(desc, {connectingSocket} \ kept)
  BY DEF GivesUp
<1>2. /\ desc' \in [Fd -> Descriptor]
      /\ \A f \in Fd : desc'[f] = IF f \in {connectingSocket} \ kept
                                    THEN ClosedDesc ELSE desc[f]
  BY <1>1, ReleasedType DEF UnixInv, TypeOK
<1>3. ~CloseMayFail => kept = {}
  BY DEF FailedCloses
<1>4. UNCHANGED sockbufSocket /\ connectingSocket' = NoFd /\ lastError' \in Errors
  BY DEF GivesUp, SetLastError, Errors
<1>5. OthersKept
  BY <1>2 DEF OthersKept, UnixInv, OwnInv, OwnsUntilDestroyed
<1>6. OwnsUntilDestroyed'
  BY <1>2, <1>4 DEF UnixInv, TypeOK, OwnInv, OwnsUntilDestroyed, ConnectPending
<1>7. NoDescriptorLeak'
  BY <1>2, <1>3, <1>4 DEF UnixInv, OwnInv, NoDescriptorLeak, Held, ClosedDesc,
     ConnectPending
<1> QED
  BY <1>2, <1>4, <1>5, <1>6, <1>7 DEF OwnInv

(* What the methods do to the fields and the table, with the results, the  *)
(* phase and the arguments left out.                                       *)
MethodOK ==
  /\ sockbufSocket' \in Fd \cup {NoFd}
  /\ connectingSocket' \in Fd \cup {NoFd}
  /\ lastError' \in Errors
  /\ desc' \in [Fd -> Descriptor]
  /\ OwnInv' /\ OthersKept

LEMMA SameOwn ==
  ASSUME UnixInv, destroyed' = destroyed,
         UNCHANGED <<sockbufSocket, connectingSocket>>,
         desc' \in [Fd -> Descriptor], lastError' \in Errors,
         \A f \in Fd : /\ desc'[f].owner = desc[f].owner
                       /\ desc'[f].nonblock = desc[f].nonblock
  PROVE  MethodOK
<1>1. OwnsUntilDestroyed'
  BY DEF UnixInv, OwnInv, OwnsUntilDestroyed, ConnectPending, TypeOK
<1>2. NoDescriptorLeak'
  BY DEF UnixInv, OwnInv, NoDescriptorLeak, Held, TypeOK
<1> QED
  BY <1>1, <1>2 DEF MethodOK, OwnInv, OthersKept, UnixInv, TypeOK

LEMMA CloseOwn ==
  ASSUME UnixInv, destroyed = "none", NEW kept \in FailedCloses(Held),
         CloseHeld(desc, kept), lastError' \in Errors
  PROVE  MethodOK
  BY AfterClose, NothingFresh DEF CloseHeld, MethodOK

LEMMA OpensOwn ==
  ASSUME UnixInv, destroyed = "none", destroyed' = destroyed,
         NEW nonblock \in BOOLEAN, Opens(nonblock)
  PROVE  MethodOK
<1>1. CASE NameTooLong
  BY <1>1, SameOwn DEF NameTooLong, UnixInv, TypeOK
<1>2. CASE OpenFails
  BY <1>2, CloseOwn DEF OpenFails, SetLastError, Errors
<1>3. CASE OpenConnects(nonblock)
  <2>1. PICK kept \in FailedCloses(Held) :
          \E fd \in Unused(DescAfterClose(desc, kept)) :
            /\ desc' = [DescAfterClose(desc, kept) EXCEPT
                          ![fd] = Blocking(StreamDesc("connected", nonblock))]
            /\ sockbufSocket' = fd
            /\ connectingSocket' = NoFd
            /\ lastError' = ErrorAfterClose(kept)
    BY <1>3 DEF OpenConnects
  <2> DEFINE d == DescAfterClose(desc, kept)
  <2>2. /\ d \in [Fd -> Descriptor]
        /\ ~CloseMayFail => \A f \in Fd : d[f].owner # "stream"
        /\ \A f \in Fd : desc[f].owner = "other" => d[f] = desc[f]
        /\ lastError' \in Errors
    BY <2>1, AfterClose
  <2>3. sockbufSocket' \in Fd
    BY <2>1 DEF Unused
  <2> HIDE DEF d
  <2>4. desc' \in [Fd -> Descriptor] /\ OwnInv' /\ OthersKept
    BY <2>1, <2>2, StreamDescType, FreshConnected DEF d
  <2> QED
    BY <2>1, <2>2, <2>3, <2>4 DEF MethodOK
<1>4. CASE OpenPends
  <2>1. PICK kept \in FailedCloses(Held) :
          \E fd \in Unused(DescAfterClose(desc, kept)) :
            /\ desc' = [DescAfterClose(desc, kept) EXCEPT
                          ![fd] = StreamDesc("connecting", TRUE)]
            /\ sockbufSocket' = SockbufAfterClose(kept)
            /\ connectingSocket' = fd
            /\ lastError' = ErrorAfterClose(kept)
    BY <1>4 DEF OpenPends
  <2> DEFINE d == DescAfterClose(desc, kept)
             s == SockbufAfterClose(kept)
  <2>2. /\ d \in [Fd -> Descriptor] /\ s \in Fd \cup {NoFd}
        /\ s # NoFd => d[s].owner \in Ours
        /\ ~CloseMayFail => s = NoFd /\ \A f \in Fd : d[f].owner # "stream"
        /\ \A f \in Fd : desc[f].owner = "other" => d[f] = desc[f]
        /\ lastError' \in Errors
    BY <2>1, AfterClose
  <2>3. connectingSocket' \in Fd /\ sockbufSocket' = s
    BY <2>1 DEF Unused
  <2> HIDE DEF d, s
  <2>4. desc' \in [Fd -> Descriptor] /\ OwnInv' /\ OthersKept
    BY <2>1, <2>2, FreshPending DEF d, s
  <2> QED
    BY <2>2, <2>3, <2>4 DEF MethodOK
<1>5. CASE OpenAbandons
  <2>1. PICK kept \in FailedCloses(Held) :
          /\ desc' \in AfterAbandon(DescAfterClose(desc, kept))
          /\ sockbufSocket' = SockbufAfterClose(kept)
    BY <1>5 DEF OpenAbandons
  <2>2. connectingSocket' = NoFd /\ lastError' \in Errors
    BY <1>5 DEF OpenAbandons, SetLastError, Errors
  <2>3. sockbufSocket' \in Fd \cup {NoFd}
    BY <2>1, AfterClose
  <2>4. desc' \in [Fd -> Descriptor] /\ OwnInv' /\ OthersKept
    BY <2>1, <2>2, AfterClose, FreshAbandoned
  <2> QED
    BY <2>2, <2>3, <2>4 DEF MethodOK
<1> QED
  BY <1>1, <1>2, <1>3, <1>4, <1>5 DEF Opens

(* setSocket() touches what was in the buffer and what takes its place.    *)
LEMMA SetSocketOwn ==
  ASSUME UnixInv, SetSocket
  PROVE  MethodOK
<1> USE DEF UnixInv, TypeOK
<1> DEFINE e == LetGo(desc)
           given == [owner |-> "given", conn |-> "connected", nonblock |-> FALSE]
<1>1. /\ e \in [Fd -> Descriptor]
      /\ \A f \in Fd : f # sockbufSocket => e[f] = desc[f]
      /\ \A f \in Fd : f = sockbufSocket => e[f].owner = "other"
  BY LetGoType
<1>2. given \in Descriptor /\ given.owner = "given"
  BY DEF Descriptor, Conn
<1>3. PICK s \in Fd \cup {NoFd} :
        /\ sockbufSocket' = s /\ connectingSocket' = connectingSocket
        /\ destroyed = "none" /\ destroyed' = "none" /\ lastError' = lastError
        /\ \/ s = NoFd /\ desc' = e
           \/ s \in Unused(desc) /\ desc' = [e EXCEPT ![s] = given]
  BY DEF SetSocket, ReplacesSocket, Unused, Callable
<1> HIDE DEF e, given
<1>4. s # NoFd => desc[s].owner = "nobody" /\ s # connectingSocket /\ s # sockbufSocket
  BY <1>3 DEF Unused, ClosedDesc, OwnInv, OwnsUntilDestroyed, ConnectPending
<1>5. /\ desc' \in [Fd -> Descriptor]
      /\ s # NoFd => desc'[s].owner = "given"
      /\ \A f \in Fd : f # s => desc'[f] = e[f]
  BY <1>1, <1>2, <1>3
<1>6. ConnectPending => /\ connectingSocket \in Fd
                        /\ desc'[connectingSocket] = desc[connectingSocket]
  BY <1>1, <1>4, <1>5 DEF ConnectPending, OwnInv, OwnsUntilDestroyed
<1>7. OwnsUntilDestroyed'
  BY <1>3, <1>4, <1>5, <1>6 DEF OwnInv, OwnsUntilDestroyed, ConnectPending
<1>8. ASSUME ~CloseMayFail, NEW f \in Fd, desc'[f].owner = "stream"
      PROVE  f \in Held'
  <2>1. f # s /\ f # sockbufSocket
    BY <1>1, <1>3, <1>5, <1>8
  <2>2. desc[f].owner = "stream"
    BY <1>1, <1>5, <1>8, <2>1
  <2>3. f = connectingSocket
    BY <1>8, <2>1, <2>2 DEF OwnInv, NoDescriptorLeak, Held
  <2> QED
    BY <1>3, <2>3 DEF Held
<1>9. NoDescriptorLeak'
  BY <1>3, <1>5, <1>8 DEF NoDescriptorLeak
<1>10. ASSUME NEW f \in Fd, desc[f].owner = "other"
       PROVE  desc'[f] = desc[f]
  <2>1. f # s /\ f # sockbufSocket
    BY <1>4, <1>10 DEF OwnInv, OwnsUntilDestroyed
  <2> QED
    BY <1>1, <1>5, <2>1
<1> QED
  BY <1>3, <1>5, <1>7, <1>9, <1>10 DEF MethodOK, OwnInv, OthersKept

LEMMA ReadyOwn ==
  ASSUME UnixInv, destroyed = "none", destroyed' = destroyed,
         Ready \/ StillConnecting
  PROVE  MethodOK
<1>1. CASE NothingPending \/ StillConnecting
  BY <1>1, SameOwn DEF NothingPending, StillConnecting, UnixInv, TypeOK
<1>2. CASE ReadsError \/ Abandons
  BY <1>2, GivesUpOwn DEF ReadsError, Abandons, MethodOK, UnixInv, TypeOK
<1>3. CASE Adopts
  <2>1. connectingSocket \in Fd /\ desc[connectingSocket].owner = "stream"
    BY <1>3 DEF Adopts, UnixInv, TypeOK, OwnInv, OwnsUntilDestroyed, ConnectPending
  <2>2. Blocking(desc[connectingSocket]) \in Descriptor
    BY <2>1 DEF Blocking, Descriptor, UnixInv, TypeOK
  <2>3. Blocking(desc[connectingSocket]).owner = "stream"
    BY <2>1 DEF Blocking, Descriptor, UnixInv, TypeOK
  <2>4. /\ desc' \in [Fd -> Descriptor]
        /\ desc'[connectingSocket].owner = "stream"
        /\ \A f \in Fd \ {connectingSocket} : desc'[f] = desc[f]
    BY <1>3, <2>1, <2>2, <2>3 DEF Adopts, UnixInv, TypeOK
  <2>5. /\ sockbufSocket' = connectingSocket /\ connectingSocket' = NoFd
        /\ lastError' \in Errors
    BY <1>3 DEF Adopts, UnixInv, TypeOK
  <2>6. OthersKept
    BY <2>1, <2>4 DEF OthersKept
  <2>7. OwnsUntilDestroyed'
    BY <2>1, <2>4, <2>5 DEF OwnsUntilDestroyed, ConnectPending
  <2>8. NoDescriptorLeak'
    BY <1>3, <2>1, <2>4, <2>5 DEF NoDescriptorLeak, Held, UnixInv, OwnInv,
       Adopts, ConnectPending
  <2> QED
    BY <2>1, <2>4, <2>5, <2>6, <2>7, <2>8 DEF MethodOK, OwnInv
<1> QED
  BY <1>1, <1>2, <1>3 DEF Ready

(* A destructor's close leaves the table in order, and no socket of the    *)
(* stream that it closed.                                                  *)
LEMMA DestructorType ==
  ASSUME UnixInv, NEW closes, NEW after, NEW before,
         Destructor(after, closes, before)
  PROVE  /\ desc' \in [Fd -> Descriptor]
         /\ \A f \in Fd : \/ desc'[f] = desc[f]
                          \/ f \in closes /\ desc'[f] = ClosedDesc
         /\ ~CloseMayFail => \A f \in Fd \cap closes : desc'[f] = ClosedDesc
<1>1. PICK kept \in FailedCloses(closes) : desc' = Released(desc, closes \ kept)
  BY DEF Destructor
<1>2. ~CloseMayFail => kept = {}
  BY DEF FailedCloses
<1> QED
  BY <1>1, <1>2, ReleasedType DEF UnixInv, TypeOK

LEMMA DestroyOwn ==
  ASSUME UnixInv, DestroyUnix \/ DestroyStream \/ DestroySocketbuf
  PROVE  UnixInv' /\ OthersStep
<1>1. CASE DestroyUnix
  <2>1. /\ desc' \in [Fd -> Descriptor]
        /\ \A f \in Fd : \/ desc'[f] = desc[f]
                         \/ f = connectingSocket /\ desc'[f] = ClosedDesc
        /\ destroyed = "none" /\ destroyed' = "unix" /\ alive /\ ~inOpen
        /\ UNCHANGED <<alive, inOpen, sockbufSocket, connectingSocket, lastError>>
    <3>1. Destructor("none", ClosesUnix, "unix")
      BY <1>1 DEF DestroyUnix
    <3>2. /\ desc' \in [Fd -> Descriptor]
          /\ \A f \in Fd : \/ desc'[f] = desc[f]
                           \/ f \in ClosesUnix /\ desc'[f] = ClosedDesc
      BY <3>1, DestructorType
    <3> QED
      BY <1>1, <3>1, <3>2 DEF DestroyUnix, ClosesUnix, Destructor, Idle
  <2>2. OwnInv'
    BY <2>1 DEF UnixInv, OwnInv, OwnsUntilDestroyed, NoDescriptorLeak, Held,
       ConnectPending, ClosedDesc, TypeOK
  <2>3. OthersKept
    BY <2>1 DEF OthersKept, UnixInv, TypeOK, OwnInv, OwnsUntilDestroyed,
       ConnectPending
  <2>4. TypeOK' /\ PhaseOK'
    BY <1>1, <2>1 DEF DestroyUnix, UnixInv, TypeOK, PhaseOK
  <2> QED
    BY <2>2, <2>3, <2>4, KeptStep DEF UnixInv
<1>2. CASE DestroyStream
  <2>1. /\ desc' \in [Fd -> Descriptor]
        /\ \A f \in Fd : \/ desc'[f] = desc[f]
                         \/ f = connectingSocket /\ desc'[f] = ClosedDesc
        /\ ~CloseMayFail => \A f \in Fd \cap ClosesStream : desc'[f] = ClosedDesc
        /\ destroyed = "unix" /\ destroyed' = "stream" /\ alive /\ ~inOpen
        /\ UNCHANGED <<alive, inOpen, sockbufSocket, lastError, result>>
        /\ connectingSocket' = NoFd
    <3>1. Destructor("unix", ClosesStream, "stream")
      BY <1>2 DEF DestroyStream
    <3>2. /\ desc' \in [Fd -> Descriptor]
          /\ \A f \in Fd : \/ desc'[f] = desc[f]
                           \/ f \in ClosesStream /\ desc'[f] = ClosedDesc
          /\ ~CloseMayFail => \A f \in Fd \cap ClosesStream : desc'[f] = ClosedDesc
      BY <3>1, DestructorType
    <3>3. \A f \in ClosesStream : f = connectingSocket
      BY DEF ClosesStream
    <3> QED
      BY <1>2, <3>1, <3>2, <3>3 DEF DestroyStream, Destructor, Idle
  <2>2. OwnsUntilDestroyed'
    BY <2>1 DEF UnixInv, OwnInv, OwnsUntilDestroyed, ConnectPending, TypeOK
  <2>3. NoDescriptorLeak'
    BY <2>1 DEF UnixInv, OwnInv, NoDescriptorLeak, Held, ClosedDesc, ClosesStream
  <2>4. TypeOK' /\ PhaseOK'
    BY <2>1 DEF UnixInv, TypeOK, PhaseOK
  <2>5. OthersStep
    BY <1>2, <2>1 DEF OthersStep, Untouched
  <2> QED
    BY <2>2, <2>3, <2>4, <2>5 DEF UnixInv, OwnInv
<1>3. CASE DestroySocketbuf
  <2>1. /\ desc' \in [Fd -> Descriptor]
        /\ \A f \in Fd : \/ desc'[f] = desc[f]
                         \/ f = sockbufSocket /\ desc'[f] = ClosedDesc
        /\ ~CloseMayFail => \A f \in Fd \cap ClosesSocketbuf : desc'[f] = ClosedDesc
        /\ destroyed = "stream" /\ destroyed' = "none"
        /\ connectingSocket = NoFd /\ connectingSocket' = NoFd
        /\ sockbufSocket' = NoFd /\ ~alive' /\ ~inOpen' /\ lastError' = "none"
        /\ result' = result
    <3>1. Destructor("stream", ClosesSocketbuf, "none")
      BY <1>3 DEF DestroySocketbuf
    <3>2. /\ desc' \in [Fd -> Descriptor]
          /\ \A f \in Fd : \/ desc'[f] = desc[f]
                           \/ f \in ClosesSocketbuf /\ desc'[f] = ClosedDesc
          /\ ~CloseMayFail =>
               \A f \in Fd \cap ClosesSocketbuf : desc'[f] = ClosedDesc
      BY <3>1, DestructorType
    <3>3. \A f \in Fd : \/ desc'[f] = desc[f]
                        \/ f = sockbufSocket /\ desc'[f] = ClosedDesc
      BY <3>2 DEF ClosesSocketbuf
    <3>4. destroyed = "stream" /\ destroyed' = "none" /\ ~inOpen'
      BY <3>1 DEF Destructor, Idle
    <3>5. /\ sockbufSocket' = NoFd /\ ~alive' /\ lastError' = "none"
          /\ UNCHANGED <<connectingSocket, result>>
      BY <1>3 DEF DestroySocketbuf
    <3>6. connectingSocket = NoFd
      BY <3>4 DEF UnixInv, PhaseOK
    <3> QED
      BY <3>2, <3>3, <3>4, <3>5, <3>6
  <2>2. OthersKept
    BY <2>1 DEF OthersKept, UnixInv, TypeOK, OwnInv, OwnsUntilDestroyed
  <2>3. OwnInv'
    BY <2>1 DEF UnixInv, OwnInv, OwnsUntilDestroyed, NoDescriptorLeak, Held,
       ConnectPending, ClosedDesc, ClosesSocketbuf
  <2>4. alive' \in BOOLEAN /\ inOpen' \in BOOLEAN
    BY <1>3 DEF DestroySocketbuf, Destructor, UnixInv, TypeOK
  <2>5. TypeOK' /\ PhaseOK'
    BY <2>1, <2>4 DEF UnixInv, TypeOK, PhaseOK, Errors
  <2> QED
    BY <2>2, <2>3, <2>5, KeptStep DEF UnixInv
<1> QED
  BY <1>1, <1>2, <1>3

LEMMA UnixStep ==
  ASSUME UnixInv, [Next]_vars
  PROVE  UnixInv' /\ OthersStep
<1> USE DEF UnixInv
<1>1. CASE Construct
  <2>1. /\ destroyed = "none" /\ destroyed' = "none" /\ alive' = TRUE
        /\ sockbufSocket = NoFd /\ connectingSocket = NoFd
        /\ UNCHANGED <<connectingSocket, inOpen>> /\ lastError' = "none"
    BY <1>1 DEF Construct, PhaseOK
  <2>2. ~CloseMayFail => \A f \in Fd : desc[f].owner # "stream"
    BY <2>1 DEF OwnInv, NoDescriptorLeak, Held
  <2>3. ASSUME UNCHANGED <<sockbufSocket, desc>>
        PROVE  MethodOK
    BY <2>1, <2>3, SameOwn DEF TypeOK, Errors
  <2>4. ASSUME NEW fd \in Unused(desc), sockbufSocket' = fd,
               desc' = [desc EXCEPT ![fd] = StreamDesc("connected", FALSE)]
        PROVE  MethodOK
    <3>1. desc' \in [Fd -> Descriptor] /\ OwnInv' /\ OthersKept
      BY <2>1, <2>2, <2>4, StreamDescType, FreshConnected DEF TypeOK
    <3>2. sockbufSocket' \in Fd
      BY <2>4 DEF Unused
    <3> QED
      BY <2>1, <3>1, <3>2 DEF MethodOK, TypeOK, Errors
  <2>5. MethodOK
    BY <1>1, <2>3, <2>4 DEF Construct
  <2>6. TypeOK' /\ PhaseOK'
    BY <1>1, <2>1, <2>5 DEF Construct, MethodOK, TypeOK, PhaseOK
  <2> QED
    BY <2>5, <2>6, KeptStep DEF MethodOK
<1>2. CASE DestroyUnix \/ DestroyStream \/ DestroySocketbuf
  BY <1>2, DestroyOwn
<1>3. ASSUME NEW nonblock \in BOOLEAN, Open(nonblock)
      PROVE  UnixInv' /\ OthersStep
  <2>1. MethodOK
    BY <1>3, OpensOwn DEF Open, Callable
  <2>2. TypeOK' /\ PhaseOK'
    BY <1>3, <2>1 DEF Open, Callable, Idle, MethodOK, TypeOK, PhaseOK
  <2> QED
    BY <2>1, <2>2, KeptStep DEF MethodOK
<1>4. CASE OpenTimed
  <2>1. MethodOK
    BY <1>4, OpensOwn DEF OpenTimed, Callable
  <2>2. TypeOK' /\ PhaseOK'
    BY <1>4, <2>1 DEF OpenTimed, Callable, Idle, MethodOK, TypeOK, PhaseOK
  <2> QED
    BY <2>1, <2>2, KeptStep DEF MethodOK
<1>5. CASE OpenTimedEnds
  <2>1. destroyed = "none" /\ destroyed' = destroyed
    BY <1>5 DEF OpenTimedEnds, PhaseOK
  <2>2. MethodOK
    BY <1>5, <2>1, ReadyOwn, CloseOwn, AfterClose DEF OpenTimedEnds
  <2>3. TypeOK' /\ PhaseOK'
    BY <1>5, <2>1, <2>2 DEF OpenTimedEnds, MethodOK, TypeOK, PhaseOK
  <2> QED
    BY <2>2, <2>3, KeptStep DEF MethodOK
<1>6. CASE IsReady
  <2>1. MethodOK
    BY <1>6, ReadyOwn DEF IsReady, Callable
  <2>2. TypeOK' /\ PhaseOK'
    BY <1>6, <2>1 DEF IsReady, Callable, Idle, MethodOK, TypeOK, PhaseOK
  <2> QED
    BY <2>1, <2>2, KeptStep DEF MethodOK
<1>7. CASE Close
  <2>1. MethodOK
    BY <1>7, CloseOwn, AfterClose DEF Close, Callable
  <2>2. TypeOK' /\ PhaseOK'
    BY <1>7, <2>1 DEF Close, Callable, Idle, MethodOK, TypeOK, PhaseOK
  <2> QED
    BY <2>1, <2>2, KeptStep DEF MethodOK
<1>8. CASE Shutdown
  <2>1. /\ desc' \in [Fd -> Descriptor] /\ lastError' \in Errors
        /\ \A f \in Fd : /\ desc'[f].owner = desc[f].owner
                         /\ desc'[f].nonblock = desc[f].nonblock
    BY <1>8 DEF Shutdown, TypeOK, Descriptor, Conn, Errors
  <2>2. MethodOK
    BY <1>8, <2>1, SameOwn DEF Shutdown
  <2>3. TypeOK' /\ PhaseOK'
    BY <1>8, <2>2 DEF Shutdown, Callable, Idle, MethodOK, TypeOK, PhaseOK
  <2> QED
    BY <2>2, <2>3, KeptStep DEF MethodOK
<1>9. CASE Kernel
  <2>1. /\ desc' \in [Fd -> Descriptor]
        /\ \A f \in Fd : /\ desc'[f].owner = desc[f].owner
                         /\ desc'[f].nonblock = desc[f].nonblock
    BY <1>9 DEF Kernel, TypeOK, Descriptor, Conn
  <2>2. MethodOK
    BY <1>9, <2>1, SameOwn DEF Kernel, objectVars, TypeOK
  <2>3. TypeOK' /\ PhaseOK'
    BY <1>9, <2>2 DEF Kernel, objectVars, MethodOK, TypeOK, PhaseOK
  <2> QED
    BY <2>2, <2>3, KeptStep DEF MethodOK
<1>10. ASSUME NEW g \in Fd, OtherOpens(g)
       PROVE  UnixInv' /\ OthersStep
  <2>1. /\ desc' \in [Fd -> Descriptor] /\ desc[g].owner = "nobody"
        /\ desc'[g].owner = "other"
        /\ \A f \in Fd \ {g} : desc'[f] = desc[f]
    BY <1>10 DEF OtherOpens, Unused, ClosedDesc, TypeOK, Descriptor
  <2>2. OthersKept
    BY <2>1 DEF OthersKept
  <2>3. OwnInv'
    BY <1>10, <2>1 DEF OtherOpens, objectVars, OwnInv, OwnsUntilDestroyed,
       NoDescriptorLeak, Held, ConnectPending, TypeOK
  <2>4. TypeOK' /\ PhaseOK'
    BY <1>10, <2>1 DEF OtherOpens, objectVars, TypeOK, PhaseOK
  <2> QED
    BY <2>2, <2>3, <2>4, KeptStep
<1>11. ASSUME NEW g \in Fd, OtherCloses(g)
       PROVE  UnixInv' /\ OthersStep
  <2>1. /\ desc' \in [Fd -> Descriptor]
        /\ desc[g].owner = "other" /\ desc'[g] = ClosedDesc
        /\ \A f \in Fd \ {g} : desc'[f] = desc[f]
    BY <1>11, ReleasedType DEF OtherCloses, TypeOK
  <2>2. OthersStep
    BY <1>11, <2>1 DEF OthersStep, Untouched
  <2>3. OwnInv'
    BY <1>11, <2>1 DEF OtherCloses, objectVars, OwnInv, OwnsUntilDestroyed,
       NoDescriptorLeak, Held, ConnectPending, TypeOK, ClosedDesc
  <2>4. TypeOK' /\ PhaseOK'
    BY <1>11, <2>1 DEF OtherCloses, objectVars, TypeOK, PhaseOK
  <2> QED
    BY <2>2, <2>3, <2>4
<1>13. CASE SetSocket
  <2>1. MethodOK
    BY <1>13, SetSocketOwn
  <2>2. TypeOK' /\ PhaseOK'
    BY <1>13, <2>1 DEF SetSocket, Callable, Idle, MethodOK, TypeOK, PhaseOK
  <2> QED
    BY <2>1, <2>2, KeptStep DEF MethodOK
<1>12. CASE UNCHANGED vars
  <2>1. MethodOK
    BY <1>12, SameOwn DEF vars, TypeOK
  <2>2. TypeOK' /\ PhaseOK'
    BY <1>12 DEF vars, TypeOK, PhaseOK
  <2> QED
    BY <2>1, <2>2, KeptStep DEF MethodOK
<1> QED
  BY <1>1, <1>2, <1>3, <1>4, <1>5, <1>6, <1>7, <1>8, <1>9, <1>10, <1>11, <1>12,
     <1>13 DEF Next

(* No socket is lost by any method or destructor while ::close() succeeds. *)
THEOREM UnixLeakTheorem == Spec => [](TypeOK /\ NoDescriptorLeak)
<1>1. Init => UnixInv
  BY InitInv
<1>2. UnixInv /\ [Next]_vars => UnixInv'
  BY UnixStep
<1>3. UnixInv => TypeOK /\ NoDescriptorLeak
  BY DEF UnixInv, OwnInv
<1> QED
  BY <1>1, <1>2, <1>3, PTL DEF Spec

(* Type correctness, from the constructors to the end of the destructors.  *)
THEOREM TypeTheorem == Spec => []TypeOK
<1>1. TypeOK /\ NoDescriptorLeak => TypeOK
  OBVIOUS
<1> QED
  BY <1>1, UnixLeakTheorem, PTL

(* However the threads interleave with the destructors, a descriptor of    *)
(* another thread is at risk only in the second close of the connecting    *)
(* socket.                                                                 *)
THEOREM UnixOthersTheorem == Spec => OthersUntouchedButOnce
<1>1. Init => UnixInv
  BY InitInv
<1>2. UnixInv /\ [Next]_vars => UnixInv'
  BY UnixStep
<1>3. UnixInv /\ [Next]_vars => [OthersStep]_vars
  BY UnixStep
<1>4. [OthersStep]_vars =>
        [\A f \in Fd : desc[f].owner = "other" =>
           \/ Untouched(f)
           \/ OtherCloses(f)
           \/ DestroyStream /\ f = connectingSocket]_vars
  BY DEF OthersStep
<1> QED
  BY <1>1, <1>2, <1>3, <1>4, PTL DEF Spec, OthersUntouchedButOnce
-----------------------------------------------------------------------------
(***************************************************************************)
(* No socket is kept whose error has been read.                            *)
(***************************************************************************)
NoneDead == \A f \in Fd : desc[f].conn # "dead"

(* The table after sockets have been closed, and one of its entries been   *)
(* replaced, has no dead one that was not there before.                    *)
LEMMA ReleasedAlive ==
  ASSUME TypeOK, NoneDead, NEW S
  PROVE  /\ Released(desc, S) \in [Fd -> Descriptor]
         /\ \A f \in Fd : Released(desc, S)[f].conn # "dead"
  BY ReleasedType DEF TypeOK, NoneDead, ClosedDesc

LEMMA ReplacedAlive ==
  ASSUME NEW d \in [Fd -> Descriptor], \A f \in Fd : d[f].conn # "dead",
         NEW g, NEW r, r.conn # "dead", desc' = [d EXCEPT ![g] = r]
  PROVE  NoneDead'
  BY DEF NoneDead

LEMMA OpensAlive ==
  ASSUME TypeOK, NoneDead, NEW nonblock, Opens(nonblock)
  PROVE  NoneDead'
<1>1. \A kept : /\ DescAfterClose(desc, kept) \in [Fd -> Descriptor]
                /\ \A f \in Fd : DescAfterClose(desc, kept)[f].conn # "dead"
  BY ReleasedAlive DEF DescAfterClose
<1>2. CASE NameTooLong
  BY <1>2 DEF NameTooLong, NoneDead
<1>3. CASE OpenFails
  BY <1>1, <1>3 DEF OpenFails, CloseHeld, NoneDead
<1>4. CASE OpenConnects(nonblock)
  <2>1. Blocking(StreamDesc("connected", nonblock)).conn # "dead"
    BY DEF Blocking, StreamDesc
  <2> QED
    BY <1>1, <1>4, <2>1, ReplacedAlive DEF OpenConnects
<1>5. CASE OpenPends
  <2>1. StreamDesc("connecting", TRUE).conn # "dead"
    BY DEF StreamDesc
  <2> QED
    BY <1>1, <1>5, <2>1, ReplacedAlive DEF OpenPends
<1>6. CASE OpenAbandons
  <2>1. StreamDesc("connected", TRUE).conn # "dead"
    BY DEF StreamDesc
  <2>2. PICK kept : desc' \in AfterAbandon(DescAfterClose(desc, kept))
    BY <1>6 DEF OpenAbandons
  <2> DEFINE d == DescAfterClose(desc, kept)
  <2>3. CASE desc' = d
    BY <1>1, <2>3 DEF NoneDead
  <2>4. ASSUME NEW fd, desc' = [d EXCEPT ![fd] = StreamDesc("connected", TRUE)]
        PROVE  NoneDead'
    BY <1>1, <2>1, <2>4, ReplacedAlive
  <2> QED
    BY <2>2, <2>3, <2>4 DEF AfterAbandon
<1> QED
  BY <1>2, <1>3, <1>4, <1>5, <1>6 DEF Opens

LEMMA ReadyAlive ==
  ASSUME TypeOK, NoneDead, Ready
  PROVE  NoneDead'
<1>1. CASE NothingPending
  BY <1>1 DEF NothingPending, NoneDead
<1>2. CASE ReadsError \/ Abandons
  BY <1>2, ReleasedAlive DEF ReadsError, Abandons, GivesUp, NoneDead
<1>3. CASE Adopts
  <2>1. /\ connectingSocket \in Fd
        /\ desc[connectingSocket] \in Descriptor
        /\ desc[connectingSocket].conn # "dead"
    BY <1>3 DEF Adopts, ConnectPending, TypeOK, NoneDead
  <2>2. Blocking(desc[connectingSocket]).conn # "dead"
    BY <2>1 DEF Blocking, Descriptor
  <2>3. /\ desc \in [Fd -> Descriptor]
        /\ \A f \in Fd : desc[f].conn # "dead"
        /\ desc' = [desc EXCEPT ![connectingSocket] = Blocking(desc[connectingSocket])]
    BY <1>3 DEF Adopts, TypeOK, NoneDead
  <2> QED
    BY <2>2, <2>3, ReplacedAlive
<1> QED
  BY <1>1, <1>2, <1>3 DEF Ready

LEMMA DeadStep ==
  ASSUME TypeOK, NoneDead, [Next]_vars
  PROVE  NoneDead'
<1>1. ASSUME NEW nonblock \in BOOLEAN, Open(nonblock)
      PROVE  NoneDead'
  BY <1>1, OpensAlive DEF Open
<1>2. CASE OpenTimed
  BY <1>2, OpensAlive DEF OpenTimed
<1>3. CASE IsReady
  BY <1>3, ReadyAlive DEF IsReady, StillConnecting, NoneDead
<1>4. CASE OpenTimedEnds
  BY <1>4, ReadyAlive, ReleasedAlive DEF OpenTimedEnds, CloseHeld, DescAfterClose,
     NoneDead
<1>5. CASE Close
  BY <1>5, ReleasedAlive DEF Close, CloseHeld, DescAfterClose, NoneDead
<1>6. CASE Shutdown \/ Kernel
  BY <1>6 DEF Shutdown, Kernel, TypeOK, NoneDead, Descriptor
<1>7. CASE DestroyUnix \/ DestroyStream \/ DestroySocketbuf
  BY <1>7, ReleasedAlive DEF DestroyUnix, DestroyStream, DestroySocketbuf,
     Destructor, NoneDead
<1>8. CASE Construct
  BY <1>8 DEF Construct, StreamDesc, TypeOK, NoneDead
<1>9. ASSUME NEW f \in Fd, OtherOpens(f) \/ OtherCloses(f)
      PROVE  NoneDead'
  BY <1>9, ReleasedAlive DEF OtherOpens, OtherCloses, TypeOK, NoneDead, Descriptor
<1>10. CASE UNCHANGED vars
  BY <1>10 DEF vars, NoneDead
<1>11. CASE SetSocket
  <2>1. LetGo(desc) \in [Fd -> Descriptor] /\ \A f \in Fd : LetGo(desc)[f].conn # "dead"
    BY DEF TypeOK, LetGo, Descriptor, NoneDead
  <2>2. CASE desc' = LetGo(desc)
    BY <2>1, <2>2 DEF NoneDead
  <2> QED
    BY <1>11, <2>1, <2>2, ReplacedAlive DEF SetSocket, ReplacesSocket
<1> QED
  BY <1>1, <1>2, <1>3, <1>4, <1>5, <1>6, <1>7, <1>8, <1>9, <1>10, <1>11 DEF Next

AdoptsStep ==
  (IsReady \/ OpenTimedEnds) /\ ConnectPending
    /\ sockbufSocket' = connectingSocket =>
      desc[connectingSocket].conn = "connected"

(* Whatever calls isReady() and the timed open() meet, with ::close()      *)
(* failing or not, they take only a socket that is connected for the       *)
(* connection (skstream.cpp:1221-1266).                                    *)
THEOREM UnixAdoptsTheorem == Spec => AdoptsOnlyConnected
<1>1. Init => UnixInv /\ NoneDead
  <2>1. ClosedDesc.conn # "dead"
    BY DEF ClosedDesc
  <2>2. Init => NoneDead
    BY <2>1 DEF Init, NoneDead
  <2> QED
    BY <2>2, InitInv
<1>2. UnixInv /\ NoneDead /\ [Next]_vars => UnixInv' /\ NoneDead'
  BY UnixStep, DeadStep DEF UnixInv
<1>3. UnixInv /\ NoneDead => AdoptsStep
  <2> SUFFICES ASSUME UnixInv, NoneDead, IsReady \/ OpenTimedEnds, ConnectPending,
                      sockbufSocket' = connectingSocket
               PROVE  desc[connectingSocket].conn = "connected"
    BY DEF AdoptsStep
  <2>1. connectingSocket # sockbufSocket /\ connectingSocket \in Fd
    BY DEF UnixInv, OwnInv, OwnsUntilDestroyed, TypeOK, ConnectPending
  <2>2. CASE Adopts
    BY <2>1, <2>2 DEF Adopts, NoneDead
  <2>3. CASE UNCHANGED sockbufSocket
    BY <2>1, <2>3
  <2>4. CASE \E kept \in FailedCloses(Held) : CloseHeld(desc, kept)
    BY <2>1, <2>4 DEF CloseHeld, SockbufAfterClose, ConnectPending
  <2> QED
    BY <2>2, <2>3, <2>4 DEF IsReady, OpenTimedEnds, Ready, NothingPending,
       StillConnecting, ReadsError, Abandons, GivesUp
<1>4. UnixInv /\ NoneDead =>
        [(IsReady \/ OpenTimedEnds) /\ ConnectPending
           /\ sockbufSocket' = connectingSocket =>
             desc[connectingSocket].conn = "connected"]_vars
  BY <1>3 DEF AdoptsStep
<1> QED
  BY <1>1, <1>2, <1>4, PTL DEF Spec, AdoptsOnlyConnected
=============================================================================
