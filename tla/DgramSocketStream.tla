-------------------------- MODULE DgramSocketStream --------------------------
(***************************************************************************)
(* Datagram streams: dgram_socketbuf with the udp_socket_stream and the    *)
(* raw_socket_stream that drive it.  Output is gathered in the put area    *)
(* and leaves as one datagram to the peer that is set at that time; each   *)
(* underflow() takes one datagram, of which the get area keeps what fits.  *)
(*                                                                         *)
(* A byte written is its number with the peer that was set when it was     *)
(* written; a byte received is its index in a numbered datagram.           *)
(***************************************************************************)
EXTENDS Integers, Sequences

CONSTANTS
  Peer,      \* addresses
  Garbage,   \* the value of a peer that has never been set
  PutCap,    \* bytes in the put area
  GetCap,    \* bytes in the get area
  MaxOut,    \* bound: bytes the program writes
  MaxIn,     \* bound: datagrams that arrive
  MaxLength  \* bound: bytes in a datagram that arrives

ASSUME DgramAssumption ==
  /\ Garbage \notin Peer
  /\ PutCap \in Nat \ {0}
  /\ GetCap \in Nat \ {0}
  /\ MaxOut \in Nat
  /\ MaxIn \in Nat
  /\ MaxLength \in Nat

VARIABLES
  alive,     \* the stream has not been destroyed
  sock,      \* what _socket is: none, one that setTarget() has made, or one
             \* of the class's own: bound to a service (udp) or raw
  outPeer,   \* out_peer
  inPeer,    \* in_peer
  put,       \* pbase() .. pptr()
  get,       \* gptr() .. egptr()
  Timeout,   \* the flag
  waits,     \* _overflow_timeout is not zero
  ios,       \* the stream's iostate
  accepted,  \* how many bytes the buffer has taken from the program
  sent,      \* the datagrams that have left, in order
  arrived,   \* how many datagrams have arrived
  rcvq,      \* the datagrams that wait in the kernel
  last,      \* the datagram recvfrom() brought last
  told,      \* history: what the program knows of its output, see Told
  blindly    \* history: it has changed the peer without knowing

history == <<told, blindly>>
outVars == <<put, accepted, sent, history>>
inVars == <<get, inPeer, rcvq, arrived, last>>
stateVars == <<Timeout, waits, ios>>
vars == <<alive, sock, outPeer, inPeer, put, get, Timeout, waits, ios,
          accepted, sent, arrived, rcvq, last, told, blindly>>
-----------------------------------------------------------------------------
Sockets == {"none", "plain", "own"}

Datagram == [from : Peer, id : 1 .. MaxIn, length : 0 .. MaxLength]

NoDatagram == [from |-> Garbage, id |-> 0, length |-> 0]

OutByte == [n : 1 .. MaxOut, to : Peer \cup {Garbage}]

(* What the calls of the program have told it since it last wrote: nothing *)
(* it can rely on; nothing yet, after a flush(); or, after the flush(),    *)
(* that fail() and timeout() both say no.                                  *)
Told == {"nothing", "flushed", "clean"}

Good == ios = {}

Shorter(a, b) == IF a <= b THEN a ELSE b

(* The bytes of datagram d that recvfrom() has room for: the rest is lost. *)
Received(d) == [i \in 1 .. Shorter(d.length, GetCap) |-> [id |-> d.id, at |-> i]]

(* Mutant: the new character is dropped.                                   *)
AfterSendLoses(nCh) == <<>>

(* Mutant: what has left stays in the put area.                            *)
AfterSendKeeps(nCh) == put \o nCh

(* A datagram leaves whole, so that only the new character remains.        *)
AfterSend(nCh) == nCh

(* overflow() when it sends.  A peer that was never set may be an address, *)
(* too; what is there is never one of Peer.                                *)
OverflowSends(nCh) ==
  /\ sock # "none" /\ put # <<>>
  /\ sent' = Append(sent, [to |-> outPeer, bytes |-> put])
  /\ put' = AfterSend(nCh)
  /\ Timeout' = FALSE

(* The calls of overflow() that return eof(): no socket, a wait that ran   *)
(* out or was interrupted, an error from sendto().                         *)
OverflowFails ==
  /\ \/ sock = "none" /\ UNCHANGED Timeout
     \/ sock # "none" /\ put # <<>> /\ waits /\ Timeout' \in {TRUE, Timeout}
     \/ sock # "none" /\ put # <<>> /\ Timeout' = FALSE
  /\ UNCHANGED <<put, sent>>

OverflowNothing ==
  /\ sock # "none" /\ put = <<>>
  /\ UNCHANGED <<put, sent, Timeout>>

PutByte ==
  /\ alive /\ Good /\ accepted < MaxOut
  /\ LET c == <<[n |-> accepted + 1, to |-> outPeer]>>
     IN  \/ /\ Len(put) < PutCap
            /\ put' = put \o c
            /\ accepted' = accepted + 1
            /\ UNCHANGED <<sent, Timeout, ios>>
         \/ /\ Len(put) = PutCap
            /\ OverflowSends(c)
            /\ accepted' = accepted + 1
            /\ UNCHANGED ios
         \/ /\ Len(put) = PutCap
            /\ OverflowFails
            /\ ios' = ios \cup {"bad"}
            /\ UNCHANGED accepted
  /\ told' = "nothing"
  /\ UNCHANGED <<alive, sock, outPeer, waits, blindly, inVars>>

(* Mutant: sync() drops the answer of overflow().                          *)
FlushMutant ==
  /\ alive /\ Good
  /\ OverflowNothing \/ OverflowSends(<<>>) \/ OverflowFails
  /\ told' = "flushed"
  /\ UNCHANGED <<alive, sock, outPeer, waits, ios, accepted, blindly, inVars>>

Flush ==
  /\ alive /\ Good
  /\ \/ (OverflowNothing \/ OverflowSends(<<>>)) /\ UNCHANGED ios
     \/ OverflowFails /\ ios' = ios \cup {"bad"}
  /\ told' = "flushed"
  /\ UNCHANGED <<alive, sock, outPeer, waits, accepted, blindly, inVars>>
-----------------------------------------------------------------------------
(* underflow() takes the next datagram; an empty one looks like the end of *)
(* the file.  Its timeout cannot be set through the stream.                *)
Receive ==
  /\ sock # "none" /\ rcvq # <<>>
  /\ last' = Head(rcvq) /\ rcvq' = Tail(rcvq)
  /\ inPeer' = last'.from
  /\ Timeout' = FALSE

UnderflowFails ==
  /\ \/ sock = "none" /\ UNCHANGED Timeout
     \/ sock # "none" /\ Timeout' = FALSE
  /\ UNCHANGED <<rcvq, last, inPeer>>

(* Mutant: what is left of the previous datagram is not waited for.        *)
GetByteMutant ==
  /\ alive /\ Good
  /\ \/ /\ get # <<>>
        /\ get' = Tail(get)
        /\ UNCHANGED <<inPeer, rcvq, last, Timeout, ios>>
     \/ /\ Receive /\ last'.length > 0
        /\ get' = get \o Tail(Received(last'))
        /\ UNCHANGED ios
  /\ UNCHANGED <<alive, sock, outPeer, waits, arrived, outVars>>

GetByte ==
  /\ alive /\ Good
  /\ \/ /\ get # <<>>
        /\ get' = Tail(get)
        /\ UNCHANGED <<inPeer, rcvq, last, Timeout, ios>>
     \/ /\ get = <<>> /\ Receive /\ last'.length > 0
        /\ get' = Tail(Received(last'))
        /\ UNCHANGED ios
     \/ /\ get = <<>>
        /\ \/ Receive /\ last'.length = 0
           \/ UnderflowFails
        /\ ios' = ios \cup {"eof", "fail"}
        /\ UNCHANGED get
  /\ UNCHANGED <<alive, sock, outPeer, waits, arrived, outVars>>

(* fail() on a set Timeout flag clears the state and says no: only         *)
(* timeout(), which reads the flag, says that something is wrong.          *)
Fail ==
  /\ alive
  /\ ios' = IF Timeout THEN {} ELSE ios
  /\ told' = IF told # "flushed" THEN told
             ELSE IF Good /\ ~Timeout THEN "clean" ELSE "nothing"
  /\ UNCHANGED <<alive, sock, outPeer, Timeout, waits, put, accepted, sent,
                 blindly, inVars>>

Clear ==
  /\ alive
  /\ ios' = {}
  /\ told' = IF told = "flushed" THEN "nothing" ELSE told
  /\ UNCHANGED <<alive, sock, outPeer, Timeout, waits, put, accepted, sent,
                 blindly, inVars>>

SetTimeout ==
  /\ alive
  /\ waits' = ~waits
  /\ UNCHANGED <<alive, sock, outPeer, Timeout, ios, outVars, inVars>>
-----------------------------------------------------------------------------
(* The socket is closed, if there is one, with all that waits on it, and   *)
(* one of kind s takes its place.                                          *)
Replaces(s) ==
  /\ sock' = s
  /\ rcvq' = <<>>

Close ==
  /\ alive
  /\ Replaces("none")
  /\ UNCHANGED <<alive, outPeer, get, inPeer, last, arrived, stateVars, outVars>>

(* The peer becomes one of Peer.                                           *)
Retargets ==
  /\ outPeer' \in Peer
  /\ blindly' = IF outPeer' # outPeer /\ told # "clean" THEN TRUE ELSE blindly

(* setTarget(): a new socket, of the addresses' own kind, and the peer; or *)
(* no socket at all, and the peer that was.  The areas keep what they hold.*)
SetTarget ==
  /\ alive
  /\ \/ Replaces("plain") /\ Retargets
     \/ Replaces("none") /\ UNCHANGED <<outPeer, blindly>>
  /\ UNCHANGED <<alive, get, inPeer, last, arrived, stateVars, put, accepted,
                 sent, told>>

SetOutpeer ==
  /\ alive
  /\ Retargets
  /\ UNCHANGED <<alive, sock, stateVars, inVars, put, accepted, sent, told>>

(* open(service) of a udp_socket_stream, which walks the addresses of the  *)
(* service until it has bound a socket to one, and setProtocol() of a raw  *)
(* one.  setSocket() does as much to this state, and closes nothing.       *)
Opens ==
  /\ alive
  /\ Replaces("own") \/ Replaces("none")
  /\ UNCHANGED <<alive, outPeer, get, inPeer, last, arrived, stateVars, outVars>>

(* The destructor sends what is left, with overflow(eof()), and closes.    *)
Destroy ==
  /\ alive
  /\ OverflowNothing \/ OverflowSends(<<>>) \/ OverflowFails
  /\ alive' = FALSE
  /\ Replaces("none")
  /\ UNCHANGED <<outPeer, waits, ios, accepted, history, get, inPeer, last, arrived>>

(* The network delivers what it likes to a socket that is bound or raw, or *)
(* that the kernel has bound because the stream has sent.                  *)
Arrives ==
  /\ alive /\ sock # "none" /\ arrived < MaxIn
  /\ sock = "plain" => sent # <<>>
  /\ \E p \in Peer, n \in 0 .. MaxLength :
       rcvq' = Append(rcvq, [from |-> p, id |-> arrived + 1, length |-> n])
  /\ arrived' = arrived + 1
  /\ UNCHANGED <<alive, sock, outPeer, get, inPeer, last, stateVars, outVars>>

Init ==
  /\ alive = TRUE
  /\ sock \in {"none", "own"}
  /\ outPeer = Garbage /\ inPeer = Garbage
  /\ put = <<>> /\ get = <<>>
  /\ Timeout = FALSE /\ waits = FALSE
  /\ ios = {}
  /\ accepted = 0 /\ sent = <<>>
  /\ arrived = 0 /\ rcvq = <<>> /\ last = NoDatagram
  /\ told = "clean" /\ blindly = FALSE

Next ==
  \/ PutByte \/ Flush \/ GetByte \/ Fail \/ Clear \/ SetTimeout
  \/ Close \/ SetTarget \/ SetOutpeer \/ Opens \/ Destroy
  \/ Arrives

Spec == Init /\ [][Next]_vars
-----------------------------------------------------------------------------
TypeOK ==
  /\ alive \in BOOLEAN /\ Timeout \in BOOLEAN /\ waits \in BOOLEAN
  /\ told \in Told /\ blindly \in BOOLEAN
  /\ sock \in Sockets
  /\ outPeer \in Peer \cup {Garbage} /\ inPeer \in Peer \cup {Garbage}
  /\ put \in Seq(OutByte) /\ Len(put) <= PutCap
  /\ get \in Seq([id : 1 .. MaxIn, at : 1 .. MaxLength]) /\ Len(get) <= GetCap
  /\ ios \in SUBSET {"eof", "fail", "bad"}
  /\ accepted \in 0 .. MaxOut /\ arrived \in 0 .. MaxIn
  /\ sent \in Seq([to : Peer \cup {Garbage}, bytes : Seq(OutByte)])
  /\ rcvq \in Seq(Datagram)
  /\ last \in Datagram \cup {NoDatagram}

(* The n-th byte written has number n: what the first byte after the i-1   *)
(* oldest datagrams must have, and bytes that count on from it.            *)
FirstOf(i) ==
  IF i = 1 THEN 1
           ELSE LET bytes == sent[i - 1].bytes IN bytes[Len(bytes)].n + 1

CountOn(bytes, n) == \A k \in 1 .. Len(bytes) : bytes[k].n = n + k - 1

(* The datagrams that have left hold the bytes of the program in the order *)
(* in which it wrote them, each once, and none is empty, which the         *)
(* receiver would take for the end; the put area holds the rest.           *)
OutputIntact ==
  /\ \A i \in 1 .. Len(sent) :
       sent[i].bytes # <<>> /\ CountOn(sent[i].bytes, FirstOf(i))
  /\ CountOn(put, FirstOf(Len(sent) + 1))
  /\ accepted = FirstOf(Len(sent) + 1) + Len(put) - 1

(* skstream.h:190 "Target address of datagrams sent via this stream": a    *)
(* byte goes to the peer that was set when it was written if the program,  *)
(* before it sets another, has flushed what it wrote and found that both   *)
(* fail() and timeout() say no.                                            *)
ReachesItsTarget ==
  ~blindly =>
    \A i \in 1 .. Len(sent) :
      \A k \in 1 .. Len(sent[i].bytes) : sent[i].bytes[k].to = sent[i].to

(* skstream.h:192 "Source address of last datagram received by this        *)
(* stream": what is left to read comes from that datagram, up to where the *)
(* get area cut it off, and getInpeer() names its sender, across errors    *)
(* and changes of the socket.                                              *)
UnreadComesFromInpeer ==
  /\ inPeer = last.from
  /\ \A i \in 1 .. Len(get) :
       get[i] = [id |-> last.id,
                 at |-> Shorter(last.length, GetCap) - Len(get) + i]
=============================================================================
