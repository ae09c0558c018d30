--------------------------- MODULE StreamSocketbuf ---------------------------
(***************************************************************************)
(* stream_socketbuf and the part of basic_socket_stream that drives it:    *)
(* the put area and overflow(), the get area and underflow(), the select() *)
(* timeouts and the Timeout flag, sync(), fail() and clear().              *)
(*                                                                         *)
(* The n-th byte the program writes is the number n, and so is the n-th    *)
(* byte the peer sends.  One byte is put or got at a time; iostreams do    *)
(* nothing else with the buffer, and nothing at all unless good().         *)
(***************************************************************************)
EXTENDS Integers, Sequences

CONSTANTS
  PutCap,        \* bytes in the put area: half of the buffer, rounded down
  GetCap,        \* bytes in the get area: the rest of it
  MaxOut,        \* bound: bytes the program writes
  MaxIn,         \* bound: bytes the peer sends
  PartialSends   \* whether ::send() can take less than it is given, as it
                 \* does when a signal interrupts it, or without blocking

ASSUME StreambufAssumption ==
  /\ PutCap \in Nat \ {0}
  /\ GetCap \in Nat \ {0}
  /\ MaxOut \in Nat
  /\ MaxIn \in Nat
  /\ PartialSends \in BOOLEAN

VARIABLES
  valid,         \* _socket # INVALID_SOCKET
  put,           \* pbase() .. pptr()
  get,           \* gptr() .. egptr()
  Timeout,       \* the flag
  waitWrite,     \* _overflow_timeout is not zero
  waitRead,      \* _underflow_timeout is not zero
  ios,           \* the stream's iostate
  cause,         \* why the last overflow() or underflow() returned eof()
  accepted,      \* how many bytes the buffer has taken from the program
  wire,          \* what the kernel has taken from the buffer
  peerSent,      \* how many bytes the peer has sent
  rcvq,          \* those of them still in the kernel
  peerClosed,    \* the peer has shut its side down
  taken          \* the bytes the program has read

outVars == <<put, accepted, wire>>
inVars == <<get, peerSent, rcvq, peerClosed, taken>>
config == <<waitWrite, waitRead>>
vars == <<valid, put, get, Timeout, waitWrite, waitRead, ios, cause, accepted,
          wire, peerSent, rcvq, peerClosed, taken>>
-----------------------------------------------------------------------------
IoState == SUBSET {"eof", "fail", "bad"}

Good == ios = {}

Failed == ios \cap {"fail", "bad"} # {}

Suffix(q, n) == SubSeq(q, n + 1, Len(q))

(* The new character, if any, that overflow() is called with.              *)
Eof == <<>>

(* How much of n bytes ::send() can take at once.                          *)
SendSizes(n) == IF PartialSends THEN 1 .. n ELSE {n}

(* Mutant: the new character is not stored.                                *)
AfterSendLoses(nCh, size) == Suffix(put, size)

(* Mutant: it is stored without the `size--', over the first byte that was *)
(* not sent.                                                               *)
AfterSendOverwrites(nCh, size) == nCh \o Suffix(put, IF nCh = Eof THEN size ELSE size + 1)

(* Mutant: nothing is moved.                                               *)
AfterSendUnmoved(nCh, size) == nCh \o put

(* The put area after `size' bytes of it were sent: the new character is   *)
(* stored over the last byte sent, and what lies from there on is moved to *)
(* the front.                                                              *)
AfterSend(nCh, size) == nCh \o Suffix(put, size)

Sends(nCh, size) ==
  /\ wire' = wire \o SubSeq(put, 1, size)
  /\ put' = AfterSend(nCh, size)

(* Mutant: the flag is not reset before the transfer.                      *)
TransferFailsMutant(c) == cause' = c /\ UNCHANGED Timeout

(* send() or recv() comes to nothing, past the wait.                       *)
TransferFails(c) == cause' = c /\ Timeout' = FALSE

(* The calls of overflow() that return eof(): no socket, a wait that ran   *)
(* out, an error from select() or from send().                             *)
OverflowFails ==
  /\ \/ ~valid /\ cause' = "error" /\ UNCHANGED Timeout
     \/ /\ valid /\ put # <<>> /\ waitWrite
        /\ \/ cause' = "timeout" /\ Timeout' = TRUE
           \/ cause' = "error" /\ UNCHANGED Timeout
     \/ valid /\ put # <<>> /\ TransferFails("transfer")
  /\ UNCHANGED <<put, wire>>

OverflowSends(nCh) ==
  /\ valid /\ put # <<>>
  /\ \E size \in SendSizes(Len(put)) : Sends(nCh, size)
  /\ Timeout' = FALSE
  /\ cause' = "none"

OverflowNothing ==
  /\ valid /\ put = <<>>
  /\ cause' = "none"
  /\ UNCHANGED <<put, wire, Timeout>>

(* ostream::put(): into the put area, or through overflow() when it is     *)
(* full; eof() sets badbit, and the byte has not been taken.               *)
PutByte ==
  /\ Good /\ accepted < MaxOut
  /\ LET c == <<accepted + 1>>
     IN  \/ /\ Len(put) < PutCap
            /\ put' = put \o c
            /\ accepted' = accepted + 1
            /\ UNCHANGED <<wire, Timeout, cause, ios>>
         \/ /\ Len(put) = PutCap
            /\ OverflowSends(c)
            /\ accepted' = accepted + 1
            /\ UNCHANGED ios
         \/ /\ Len(put) = PutCap
            /\ OverflowFails
            /\ ios' = ios \cup {"bad"}
            /\ UNCHANGED accepted
  /\ UNCHANGED <<valid, config, inVars>>

(* ostream::flush(): sync(), that is overflow(eof()).                      *)
Flush ==
  /\ Good
  /\ \/ (OverflowNothing \/ OverflowSends(Eof)) /\ UNCHANGED ios
     \/ OverflowFails /\ ios' = ios \cup {"bad"}
  /\ UNCHANGED <<valid, accepted, config, inVars>>
-----------------------------------------------------------------------------
(* underflow() fails: no socket, a wait that ran out or was interrupted,   *)
(* the peer's end of file, or an error from recv().                        *)
UnderflowFails ==
  \/ ~valid /\ cause' = "error" /\ UNCHANGED Timeout
  \/ /\ valid /\ waitRead
     /\ \/ /\ rcvq = <<>> /\ ~peerClosed
           /\ cause' = "timeout" /\ Timeout' = TRUE
        \/ cause' = "error" /\ UNCHANGED Timeout
  \/ valid /\ rcvq = <<>> /\ peerClosed /\ TransferFails("eof")
  \/ valid /\ TransferFails("transfer")

(* Mutant: underflow() does not look whether there is something left to    *)
(* read.                                                                   *)
ReceivesMutant(area) ==
  /\ valid
  /\ Len(area) \in 1 .. GetCap
  /\ rcvq' = Suffix(rcvq, Len(area))
  /\ Timeout' = FALSE
  /\ cause' = "none"

(* It receives as much as there is, or a part of it, into the get area;    *)
(* without data and without a timeout the call blocks.                     *)
Receives(area) ==
  /\ valid /\ get = <<>>
  /\ Len(area) \in 1 .. GetCap
  /\ rcvq' = Suffix(rcvq, Len(area))
  /\ Timeout' = FALSE
  /\ cause' = "none"

(* What ::recv() can return: some of what has arrived.                     *)
Arrived == {SubSeq(rcvq, 1, n) : n \in 1 .. Len(rcvq)}

(* istream::get() and peek(): the byte at gptr(), which underflow() brings *)
(* there if it has to.                                                     *)
GetByte ==
  /\ Good
  /\ \/ /\ get # <<>>
        /\ taken' = Append(taken, Head(get)) /\ get' = Tail(get)
        /\ UNCHANGED <<rcvq, Timeout, cause, ios>>
     \/ \E area \in Arrived :
          /\ Receives(area)
          /\ taken' = Append(taken, Head(area)) /\ get' = Tail(area)
          /\ UNCHANGED ios
     \/ /\ get = <<>> /\ UnderflowFails
        /\ ios' = ios \cup {"eof", "fail"}
        /\ UNCHANGED <<get, taken, rcvq>>
  /\ UNCHANGED <<valid, config, outVars, peerSent, peerClosed>>

PeekByte ==
  /\ Good /\ get = <<>>
  /\ \/ \E area \in Arrived : Receives(area) /\ get' = area /\ UNCHANGED ios
     \/ /\ UnderflowFails
        /\ ios' = ios \cup {"eof"}
        /\ UNCHANGED <<get, rcvq>>
  /\ UNCHANGED <<valid, config, outVars, peerSent, peerClosed, taken>>
-----------------------------------------------------------------------------
(***************************************************************************)
(* fail() clears the state and answers false if the Timeout flag is set;   *)
(* otherwise it answers as ios does and leaves the state alone.  The flag  *)
(* itself is only reset by an overflow() or underflow() that gets past its *)
(* wait.                                                                   *)
(***************************************************************************)
Fail ==
  /\ Timeout
  /\ ios' = {}
  /\ UNCHANGED <<valid, put, get, Timeout, config, cause, accepted, wire,
                 peerSent, rcvq, peerClosed, taken>>

(* The program clears the state without asking.                            *)
Clear ==
  /\ ~Good
  /\ ios' = {}
  /\ UNCHANGED <<valid, put, get, Timeout, config, cause, accepted, wire,
                 peerSent, rcvq, peerClosed, taken>>

(* close(): the socket is gone, and what is in the two areas stays there.  *)
Close ==
  /\ valid
  /\ valid' = FALSE
  /\ UNCHANGED <<Timeout, config, ios, cause, outVars, inVars>>

(* setWriteTimeout(), which is also what setTimeout() calls, and           *)
(* setReadTimeout().                                                       *)
SetWriteTimeout ==
  /\ waitWrite' = ~waitWrite
  /\ UNCHANGED <<valid, Timeout, waitRead, ios, cause, outVars, inVars>>

SetReadTimeout ==
  /\ waitRead' = ~waitRead
  /\ UNCHANGED <<valid, Timeout, waitWrite, ios, cause, outVars, inVars>>

PeerSends ==
  /\ ~peerClosed /\ peerSent < MaxIn
  /\ peerSent' = peerSent + 1
  /\ rcvq' = Append(rcvq, peerSent + 1)
  /\ UNCHANGED <<valid, Timeout, config, ios, cause, outVars, get, peerClosed,
                 taken>>

PeerCloses ==
  /\ ~peerClosed
  /\ peerClosed' = TRUE
  /\ UNCHANGED <<valid, Timeout, config, ios, cause, outVars, get, peerSent,
                 rcvq, taken>>

Init ==
  /\ valid \in BOOLEAN
  /\ put = <<>> /\ get = <<>>
  /\ Timeout = FALSE
  /\ waitWrite = FALSE /\ waitRead = FALSE
  /\ ios = {} /\ cause = "none"
  /\ accepted = 0 /\ wire = <<>>
  /\ peerSent = 0 /\ rcvq = <<>> /\ peerClosed = FALSE /\ taken = <<>>

Next ==
  \/ PutByte \/ Flush \/ GetByte \/ PeekByte
  \/ Fail \/ Clear \/ Close \/ SetWriteTimeout \/ SetReadTimeout
  \/ PeerSends \/ PeerCloses

Spec == Init /\ [][Next]_vars
-----------------------------------------------------------------------------
TypeOK ==
  /\ valid \in BOOLEAN /\ Timeout \in BOOLEAN /\ peerClosed \in BOOLEAN
  /\ waitWrite \in BOOLEAN /\ waitRead \in BOOLEAN
  /\ put \in Seq(1 .. MaxOut) /\ Len(put) <= PutCap
  /\ get \in Seq(1 .. MaxIn) /\ Len(get) <= GetCap
  /\ ios \in IoState
  /\ cause \in {"none", "timeout", "error", "transfer", "eof"}
  /\ accepted \in 0 .. MaxOut
  /\ wire \in Seq(1 .. MaxOut)
  /\ peerSent \in 0 .. MaxIn
  /\ rcvq \in Seq(1 .. MaxIn)
  /\ taken \in Seq(1 .. MaxIn)

Numbers(n) == [i \in 1 .. n |-> i]

(* Whatever fails and times out in between, what the kernel has and what   *)
(* is still in the put area are the bytes the program wrote, in the order  *)
(* in which it wrote them, as long as each ::send() takes all it is given. *)
OutputInOrder ==
  ~PartialSends => wire \o put = Numbers(accepted)

(* Partial sends lose no byte and send none twice.                         *)
OutputConserved ==
  LET all == wire \o put
  IN  /\ Len(all) = accepted
      /\ \A n \in 1 .. accepted : \E i \in 1 .. Len(all) : all[i] = n

(* The program reads what the peer sent, in order, across any number of    *)
(* refills, timeouts and errors: nothing is skipped and nothing read twice.*)
InputInOrder == taken \o get \o rcvq = Numbers(peerSent)

(* fail() clears the state and answers false while the Timeout flag is up: *)
(* it never does so to an end of file or to an error of send() or recv(),  *)
(* whatever timed out before and however the program went on from there.   *)
FailHidesNoTransfer == Timeout => cause \notin {"eof", "transfer"}

(* The put side and the get side each are a channel that keeps its order.  *)
Output == INSTANCE ByteChannel
  WITH inside <- put, delivered <- wire, MaxInside <- PutCap

Input == INSTANCE ByteChannel
  WITH accepted <- peerSent, inside <- get \o rcvq, delivered <- taken,
       MaxInside <- MaxIn

OutputChannel == Output!Spec
InputChannel == Input!Spec

(* skstream.cpp:305 "move remaining pbase()+size .. pptr()-1 => pbase() .. *)
(* pptr()-size-1": what a partial send leaves over is sent next.           *)
RemainderFirst ==
  [][PutByte /\ wire' # wire =>
       LET size == Len(wire') - Len(wire)
       IN  SubSeq(put', 1, Len(put) - size) = Suffix(put, size)]_vars

=============================================================================
