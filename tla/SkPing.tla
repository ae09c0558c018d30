------------------------------- MODULE SkPing -------------------------------
(***************************************************************************)
(* ping: the program in the tree that drives a datagram stream.  It sends  *)
(* Ping_Count requests, waits for a reply after each of them, and then     *)
(* reads on until it is interrupted or a wait runs out.                    *)
(*                                                                         *)
(* Every step that touches the stream is a method of DgramSocketStream,    *)
(* taken where the program counter stands.  What the network delivers is   *)
(* up to the network: the socket is not connected.                         *)
(***************************************************************************)
EXTENDS DgramSocketStream

CONSTANTS
  Ping_Count,   \* requests to send
  ReqSize,      \* sizeof(ECHO_REQUEST), 56 in the source
  ReplySize,    \* sizeof(ECHO_REPLY), 80 in the source
  Word,         \* how many values a word of the checksum has: 2^16
  Header, Data  \* the words of a request that are the same in all of them

ASSUME PingAssumption ==
  /\ Ping_Count \in Nat \ {0}
  /\ ReqSize \in Nat \ {0} /\ ReplySize \in Nat \ {0}
  /\ MaxOut >= Ping_Count * ReqSize /\ PutCap >= ReqSize
  /\ Word \in Nat \ {0} /\ Header \in 1 .. Word - 1 /\ Data \in 0 .. Word - 1

VARIABLES
  pc,           \* where ping() is
  moved,        \* bytes of the request written, or of the reply read
  transmitted,  \* transmitted_packets, and i
  received,     \* the packets of the statistics
  Terminate,    \* the flag that the handler of SIGINT sets
  echoReq,      \* the static request
  surplus       \* history: the network has brought more than one answer of
                \* the size of a reply for each request that has left

counters == <<transmitted, received>>
pingVars == <<vars, pc, moved, counters, Terminate, echoReq, surplus>>
outside == <<Terminate, surplus>>
-----------------------------------------------------------------------------
Request == [checksum : 0 .. Word - 1, id : 0 .. Word - 1, seq : 0 .. Word - 1,
            dwTime : 0 .. Word - 1]

Words(r) == <<Header, r.checksum, r.id, r.seq, r.dwTime, Data>>

(* The sum of the words with its carries folded back, twice, inverted and  *)
(* cut to a word.                                                          *)
in_cksum(words) ==
  LET sum[n \in 0 .. Len(words)] == IF n = 0 THEN 0 ELSE sum[n - 1] + words[n]
      all == sum[Len(words)]
      folded == (all \div Word) + (all % Word)
  IN  Word - 1 - ((folded + (folded \div Word)) % Word)

(* Mutant: the checksum of the previous request is summed, too.            *)
FilledMutant(n, time) ==
  LET r == [echoReq EXCEPT !.id = n % Word, !.seq = n % Word, !.dwTime = time]
  IN  [r EXCEPT !.checksum = in_cksum(Words(r))]

(* The n-th request, over what the previous one has left in echoReq.       *)
Filled(n, time) ==
  LET r == [echoReq EXCEPT !.checksum = 0, !.id = n % Word, !.seq = n % Word,
                           !.dwTime = time]
  IN  [r EXCEPT !.checksum = in_cksum(Words(r))]

(* Mutant: it is the size of a request that is read.                       *)
CompleteMutant(n) == n = ReqSize

(* read() has got all it was asked for.                                    *)
Complete(n) == n = ReplySize

(* Mutant: one request too many.                                           *)
AfterReplyMutant == IF transmitted <= Ping_Count THEN "request" ELSE "loop"

AfterReply == IF transmitted < Ping_Count THEN "request" ELSE "loop"

(* The raw socket must be there, and take the option: `!ping_socket' does  *)
(* not tell, but setsockopt() does.                                        *)
PingConstruct ==
  /\ pc = "construct"
  /\ \/ sock = "own" /\ pc' = "target"
     \/ pc' = "over"
  /\ UNCHANGED <<vars, moved, counters, echoReq, outside>>

(* setTarget() puts another socket in the place of the raw one, or none;   *)
(* ping() does not look.                                                   *)
PingSetTarget ==
  /\ pc = "target"
  /\ SetTarget
  /\ pc' = "request"
  /\ UNCHANGED <<moved, counters, echoReq, outside>>

PingFill ==
  /\ pc = "request"
  /\ \E time \in 0 .. Word - 1 : echoReq' = Filled(transmitted + 1, time)
  /\ waits' = TRUE
  /\ moved' = 0
  /\ pc' = "write"
  /\ UNCHANGED <<alive, sock, outPeer, Timeout, ios, outVars, inVars, counters, outside>>

(* Mutant: write() is given the size of something smaller.                 *)
PingWriteMutant ==
  /\ pc = "write"
  /\ PutByte
  /\ moved' = moved + 1
  /\ pc' = IF ios' # {} THEN "sent"
           ELSE IF moved + 2 >= ReqSize THEN "flush" ELSE "write"
  /\ UNCHANGED <<counters, echoReq, outside>>

(* A stream that has failed in write() is not flushed.                     *)
PingWrite ==
  /\ pc = "write"
  /\ PutByte
  /\ moved' = moved + 1
  /\ pc' = IF ios' # {} THEN "sent"
           ELSE IF moved + 1 = ReqSize THEN "flush" ELSE "write"
  /\ UNCHANGED <<counters, echoReq, outside>>

PingFlush ==
  /\ pc = "flush"
  /\ Flush
  /\ pc' = "sent"
  /\ UNCHANGED <<moved, counters, echoReq, outside>>

(* fail() clears what a timeout has set, and answers false: the request is *)
(* counted, and stays in the put area.  Any other failure ends ping.       *)
PingSent ==
  /\ pc = "sent"
  /\ Fail
  /\ IF ios' = {}
       THEN moved' = 0 /\ transmitted' = transmitted + 1 /\ pc' = "reply"
       ELSE pc' = "over" /\ UNCHANGED <<moved, transmitted>>
  /\ UNCHANGED <<received, echoReq, outside>>

(* recv_reply(), a byte at a time, and what is done with its answer.  The  *)
(* timeout it sets is that of writing, which send_request() has set.       *)
PingRead ==
  /\ pc \in {"reply", "drain"}
  /\ GetByte
  /\ \/ /\ ios' = {} /\ ~Complete(moved + 1)
        /\ moved' = moved + 1
        /\ UNCHANGED <<pc, received>>
     \/ /\ ios' = {} /\ Complete(moved + 1) /\ ~Timeout'
        /\ moved' = 0 /\ received' = received + 1
        /\ pc' = IF pc = "reply" THEN AfterReply ELSE "loop"
     \/ /\ ios' # {} \/ Complete(moved + 1)
        /\ Timeout'
        /\ moved' = 0
        /\ pc' = IF pc = "reply" THEN AfterReply ELSE "finish"
        /\ UNCHANGED received
     \/ /\ ios' # {} /\ ~Timeout'
        /\ pc' = "over"
        /\ UNCHANGED <<moved, received>>
  /\ UNCHANGED <<transmitted, echoReq, outside>>

PingLoop ==
  /\ pc = "loop"
  /\ pc' = IF Terminate THEN "finish" ELSE "drain"
  /\ UNCHANGED <<vars, moved, counters, echoReq, outside>>

(* ping() prints and returns; exit() would not have run the destructor.    *)
PingFinish ==
  /\ pc = "finish"
  /\ Destroy
  /\ pc' = "over"
  /\ UNCHANGED <<moved, counters, echoReq, outside>>

(* SIGINT: signal() makes the call that it interrupts start again.         *)
CTLRC ==
  /\ pc # "over" /\ ~Terminate
  /\ Terminate' = TRUE
  /\ UNCHANGED <<vars, pc, moved, counters, echoReq, surplus>>

(* What reaches the raw socket goes with it.                               *)
PingArrives ==
  /\ pc \notin {"construct", "target", "over"}
  /\ Arrives
  /\ surplus' = (surplus \/ arrived' > Len(sent)
                         \/ rcvq'[Len(rcvq')].length > ReplySize)
  /\ UNCHANGED <<pc, moved, counters, Terminate, echoReq>>

PingOver == pc = "over" /\ UNCHANGED pingVars

PingInit ==
  /\ Init
  /\ pc = "construct" /\ moved = 0 /\ transmitted = 0 /\ received = 0
  /\ Terminate = FALSE /\ surplus = FALSE
  /\ echoReq = [checksum |-> 0, id |-> 0, seq |-> 0, dwTime |-> 0]

PingProgram ==
  \/ PingConstruct \/ PingSetTarget \/ PingFill \/ PingWrite \/ PingFlush
  \/ PingSent \/ PingRead \/ PingLoop \/ PingFinish

PingNext == PingProgram \/ CTLRC \/ PingArrives \/ PingOver

PingSpec == PingInit /\ [][PingNext]_pingVars

(* ping goes on as long as it can, its target answers every datagram, and  *)
(* someone presses Ctrl+C.  recvfrom() need not fail: it may wait for ever.*)
Proceeds == PingProgram /\ (pc \in {"reply", "drain"} => ios' = {})

Answers == PingArrives /\ arrived < Len(sent)

PingFairSpec ==
  PingSpec /\ WF_pingVars(Proceeds) /\ WF_pingVars(Answers) /\ WF_pingVars(CTLRC)
-----------------------------------------------------------------------------
PingTypeOK ==
  /\ TypeOK
  /\ pc \in {"construct", "target", "request", "write", "flush", "sent",
             "reply", "loop", "drain", "finish", "over"}
  /\ moved \in 0 .. ReqSize \/ moved \in 0 .. ReplySize
  /\ transmitted \in 0 .. Ping_Count /\ received \in Nat
  /\ Terminate \in BOOLEAN /\ surplus \in BOOLEAN
  /\ echoReq \in Request

(* A send that timed out leaves its request in the put area, behind which  *)
(* the next one is written: whatever times out and fails in between, a     *)
(* datagram holds whole requests, and while none is being written so does  *)
(* the put area.                                                           *)
RequestsWhole ==
  /\ \A i \in 1 .. Len(sent) :
       LET b == sent[i].bytes
       IN  Len(b) % ReqSize = 0 /\ b[1].n % ReqSize = 1 % ReqSize
  /\ pc \in {"request", "reply", "loop", "drain"} => Len(put) % ReqSize = 0

(* ping.cpp:247 subtracts the packets received from those transmitted, as  *)
(* unsigned numbers.  The difference is none as long as the network brings *)
(* at most one answer for a request, however the answers are cut and read. *)
LostInRange == ~surplus => received <= transmitted

(* The sum of a request that is being sent, its checksum included, is all  *)
(* ones, as its receiver expects: echoReq is static, and the checksum of   *)
(* the previous request must not be part of it.                            *)
ChecksumVerifies ==
  pc \in {"write", "flush", "sent"} => in_cksum(Words(echoReq)) = 0

(* ping.cpp:126 "quit on timeout": with its requests answered or not, ping *)
(* comes to an end.                                                        *)
PingQuits == <>(pc = "over")
=============================================================================
