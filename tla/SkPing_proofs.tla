--------------------------- MODULE SkPing_proofs ---------------------------
(***************************************************************************)
(* Theorems about ping, for every size of a request and of a reply, every  *)
(* number of requests and every network.  ping is shown to use the stream  *)
(* by its methods only (StreamTheorem), so that what is proved of datagram *)
(* streams holds of its stream; the rest follows ping through its program  *)
(* counter.                                                                *)
(***************************************************************************)
EXTENDS SkPing, DgramSocketStream_proofs

USE DgramAssumption, PingAssumption

Before == {"construct", "target", "request"}

Sends == {"write", "flush", "sent"}

(* Where ping() is tells what the stream is like.                          *)
Control ==
  /\ pc # "over" => alive /\ (sock = "none" => ~Timeout)
  /\ pc \in {"construct", "target"} => ~Timeout
  /\ pc \notin {"sent", "over"} => ios = {}
  /\ pc = "write" => moved < ReqSize
  /\ pc \in {"reply", "drain"} => moved < ReplySize
  /\ pc = "loop" => moved = 0
  /\ pc \in Before \cup Sends => transmitted < Ping_Count
-----------------------------------------------------------------------------
(* Numbers: what is compared and divided here are multiples of sizes.      *)
LEMMA MulGrows ==
  ASSUME NEW a \in Int, NEW b \in Int, NEW n \in Nat \ {0}, a < b
  PROVE  a * n + n <= b * n
<1>1. b * n = a * n + (b - a) * n
  OBVIOUS
<1>2. (b - a) * n = n + (b - a - 1) * n
  OBVIOUS
<1>3. (b - a - 1) * n >= 0
  OBVIOUS
<1> QED
  BY <1>1, <1>2, <1>3

LEMMA Monotone ==
  ASSUME NEW a \in Int, NEW b \in Int, NEW n \in Nat \ {0}, a <= b
  PROVE  a * n <= b * n
<1>1. b * n = a * n + (b - a) * n
  OBVIOUS
<1>2. (b - a) * n >= 0
  OBVIOUS
<1> QED
  BY <1>1, <1>2

LEMMA Cancel ==
  ASSUME NEW a \in Int, NEW b \in Int, NEW n \in Nat \ {0}, a * n <= b * n
  PROVE  a <= b
<1>1. b < a => b * n + n <= a * n
  BY MulGrows
<1> QED
  BY <1>1

LEMMA DivMod ==
  ASSUME NEW q \in Int, NEW n \in Nat \ {0}, NEW r \in 0 .. n - 1
  PROVE  (q * n + r) \div n = q /\ (q * n + r) % n = r
<1> DEFINE s == q * n + r
           d == s \div n
           m == s % n
<1>1. s \in Int /\ d \in Int /\ m \in 0 .. n - 1 /\ s = d * n + m
  OBVIOUS
<1> HIDE DEF d, m
<1>2. ~(d < q) /\ ~(q < d)
  BY <1>1, MulGrows
<1>3. d = q
  BY <1>1, <1>2
<1>4. m = r
  BY <1>1, <1>3
<1> QED
  BY <1>3, <1>4 DEF d, m
-----------------------------------------------------------------------------
(***************************************************************************)
(* Every step of ping is a step of the stream, or none of its concern.     *)
(***************************************************************************)
LEMMA PingMethod ==
  ASSUME PingTypeOK, Control, [PingNext]_pingVars
  PROVE  [Next]_vars
<1>1. CASE PingFill
  <2>1. pc = "request" /\ alive /\ waits \in BOOLEAN
    BY <1>1 DEF PingFill, Control, PingTypeOK, TypeOK
  <2>2. SetTimeout \/ UNCHANGED vars
    BY <1>1, <2>1 DEF PingFill, SetTimeout, vars, outVars, inVars, history
  <2> QED
    BY <2>2 DEF Next
<1>2. CASE PingSent
  BY <1>2 DEF PingSent, Next
<1>3. CASE PingConstruct \/ PingLoop \/ CTLRC \/ PingOver \/ UNCHANGED pingVars
  BY <1>3 DEF PingConstruct, PingLoop, CTLRC, PingOver, pingVars
<1>4. CASE PingSetTarget \/ PingWrite \/ PingFlush \/ PingRead \/ PingFinish
           \/ PingArrives
  BY <1>4 DEF PingSetTarget, PingWrite, PingFlush, PingRead, PingFinish,
     PingArrives, Next
<1> QED
  BY <1>1, <1>2, <1>3, <1>4 DEF PingNext, PingProgram
-----------------------------------------------------------------------------
(***************************************************************************)
(* The checksum.                                                           *)
(***************************************************************************)
(* The sum of a request's words, folded and inverted.                      *)
Inverted(sum) ==
  LET folded == (sum \div Word) + (sum % Word)
  IN  Word - 1 - ((folded + (folded \div Word)) % Word)

(* The words but the checksum.                                             *)
Rest(r) == Header + r.id + r.seq + r.dwTime + Data

LEMMA ChecksumOf ==
  ASSUME NEW r \in Request
  PROVE  /\ Rest(r) \in 0 .. 5 * (Word - 1)
         /\ in_cksum(Words(r)) = Inverted(Rest(r) + r.checksum)
         /\ in_cksum(Words(r)) \in 0 .. Word - 1
<1> DEFINE w == Words(r)
           s[n \in 0 .. Len(w)] == IF n = 0 THEN 0 ELSE s[n - 1] + w[n]
           sums == <<w[1], w[1] + w[2], w[1] + w[2] + w[3],
                     w[1] + w[2] + w[3] + w[4],
                     w[1] + w[2] + w[3] + w[4] + w[5],
                     w[1] + w[2] + w[3] + w[4] + w[5] + w[6]>>
           g == [n \in 0 .. 6 |-> IF n = 0 THEN 0 ELSE sums[n]]
<1>1. /\ Header \in 0 .. Word - 1 /\ Data \in 0 .. Word - 1
      /\ r.checksum \in 0 .. Word - 1 /\ r.id \in 0 .. Word - 1
      /\ r.seq \in 0 .. Word - 1 /\ r.dwTime \in 0 .. Word - 1
  BY DEF Request
<1>2. /\ Len(w) = 6 /\ w[1] = Header /\ w[2] = r.checksum /\ w[3] = r.id
      /\ w[4] = r.seq /\ w[5] = r.dwTime /\ w[6] = Data
  BY DEF Words
<1> HIDE DEF w
<1>3. \A n \in 0 .. 6 : g[n] = IF n = 0 THEN 0 ELSE g[n - 1] + w[n]
  BY <1>1, <1>2
<1>4. g = [n \in 0 .. 6 |-> IF n = 0 THEN 0 ELSE g[n - 1] + w[n]]
  BY <1>3
<1> HIDE DEF g
<1>5. s = [n \in 0 .. 6 |-> IF n = 0 THEN 0 ELSE s[n - 1] + w[n]]
  BY <1>2, <1>4 DEF s
<1>6. in_cksum(w) = Inverted(s[6])
  BY <1>2 DEF in_cksum, Inverted, s
<1> HIDE DEF s
<1>7. /\ s[0] = 0 /\ s[1] = s[0] + w[1] /\ s[2] = s[1] + w[2]
      /\ s[3] = s[2] + w[3] /\ s[4] = s[3] + w[4] /\ s[5] = s[4] + w[5]
      /\ s[6] = s[5] + w[6]
  BY <1>5
<1>8. s[6] = Rest(r) + r.checksum
  BY <1>1, <1>2, <1>7 DEF Rest
<1>9. \A n \in Nat : Inverted(n) \in 0 .. Word - 1
  BY DEF Inverted
<1>10. Rest(r) \in 0 .. 5 * (Word - 1)
  BY <1>1 DEF Rest
<1>11. Rest(r) + r.checksum \in Nat
  BY <1>1, <1>10
<1> QED
  BY <1>6, <1>8, <1>9, <1>10, <1>11 DEF w

(* What is left of a sum that has been folded, by the number of its        *)
(* carries and the word that is left.                                      *)
LEMMA InvertedSum ==
  ASSUME NEW s \in Nat, NEW q \in 0 .. Word - 1, NEW r \in 0 .. Word - 1,
         s = q * Word + r
  PROVE  /\ q + r < Word => Inverted(s) = Word - 1 - (q + r)
         /\ q + r >= Word => Inverted(s) = Word - 2 - (q + r - Word)
<1> DEFINE f == q + r
<1>1. s \div Word = q /\ s % Word = r
  BY DivMod
<1>2. Inverted(s) = Word - 1 - ((f + (f \div Word)) % Word)
  BY <1>1 DEF Inverted
<1>3. CASE f < Word
  <2>1. f = 0 * Word + f /\ f \in 0 .. Word - 1
    BY <1>3
  <2>2. f \div Word = 0 /\ f % Word = f
    BY <2>1, DivMod
  <2> QED
    BY <1>2, <1>3, <2>2
<1>4. CASE f >= Word
  <2>1. f = 1 * Word + (f - Word) /\ f - Word \in 0 .. Word - 1
    BY <1>4
  <2>2. f \div Word = 1
    BY <2>1, DivMod
  <2>3. f + 1 = 1 * Word + (f - Word + 1) /\ f - Word + 1 \in 0 .. Word - 1
    BY <1>4
  <2>4. (f + 1) % Word = f - Word + 1
    BY <2>3, DivMod
  <2> QED
    BY <1>2, <1>4, <2>2, <2>4
<1> QED
  BY <1>3, <1>4

LEMMA AllOnes ==
  ASSUME Word >= 6, NEW s \in 0 .. 5 * (Word - 1)
  PROVE  Inverted(s + Inverted(s)) = 0
<1> DEFINE q == s \div Word
           r == s % Word
<1>1. q \in Int /\ r \in 0 .. Word - 1 /\ s = q * Word + r
  OBVIOUS
<1> HIDE DEF q, r
<1>2. q \in 0 .. 4 /\ q \in 0 .. Word - 1
  <2>1. 0 * Word <= s /\ s < 5 * Word
    OBVIOUS
  <2>2. ~(q < 0) /\ ~(4 < q)
    BY <1>1, <2>1, MulGrows
  <2> QED
    BY <1>1, <2>2
<1> s \in Nat
  OBVIOUS
<1>3. CASE q + r < Word
  <2> DEFINE c == Word - 1 - q
  <2>1. Inverted(s) = Word - 1 - (q + r)
    BY <1>1, <1>2, <1>3, InvertedSum, Zenon
  <2>2. s + Inverted(s) = q * Word + c /\ c \in 0 .. Word - 1 /\ q + c = Word - 1
    BY <1>1, <1>2, <2>1
  <2>3. s + Inverted(s) \in Nat
    BY <1>1, <1>2, <1>3, <2>1
  <2> HIDE DEF c
  <2>4. q + c < Word
    BY <2>2
  <2>5. Inverted(s + Inverted(s)) = Word - 1 - (q + c)
    BY <1>2, <2>2, <2>3, <2>4, InvertedSum, Zenon
  <2> QED
    BY <2>2, <2>5
<1>4. CASE q + r >= Word
  <2> DEFINE c == Word - 2 - q
             p == q + 1
  <2>1. Inverted(s) = Word - 2 - (q + r - Word)
    BY <1>1, <1>2, <1>4, InvertedSum, Zenon
  <2>2. s + Inverted(s) = p * Word + c /\ c \in 0 .. Word - 1 /\ p + c = Word - 1
    BY <1>1, <1>2, <2>1
  <2>3. s + Inverted(s) \in Nat /\ p \in 0 .. Word - 1
    BY <1>1, <1>2, <1>4, <2>1
  <2> HIDE DEF c, p
  <2>4. p + c < Word
    BY <2>2
  <2>5. Inverted(s + Inverted(s)) = Word - 1 - (p + c)
    <3>1. s + Inverted(s) \in Nat /\ p \in 0 .. Word - 1 /\ c \in 0 .. Word - 1
      BY <2>2, <2>3
    <3>2. s + Inverted(s) = p * Word + c
      BY <2>2
    <3> QED
      BY ONLY <2>4, <3>1, <3>2, InvertedSum, Zenon
  <2> QED
    BY <2>2, <2>5
<1> QED
  BY <1>1, <1>2, <1>3, <1>4

LEMMA RequestExcept ==
  ASSUME NEW e \in Request, NEW m \in 0 .. Word - 1, NEW time \in 0 .. Word - 1
  PROVE  LET r == [e EXCEPT !.checksum = 0, !.id = m, !.seq = m, !.dwTime = time]
         IN  r \in Request /\ r.checksum = 0
<1>1. 0 \in 0 .. Word - 1
  OBVIOUS
<1> HIDE DEF PingAssumption
<1> QED
  BY <1>1 DEF Request

LEMMA FilledVerifies ==
  ASSUME NEW n \in Nat, NEW time \in 0 .. Word - 1, echoReq \in Request
  PROVE  /\ Filled(n, time) \in Request
         /\ Word >= 6 => in_cksum(Words(Filled(n, time))) = 0
<1> DEFINE r == [echoReq EXCEPT !.checksum = 0, !.id = n % Word,
                                !.seq = n % Word, !.dwTime = time]
           c == in_cksum(Words(r))
           q == [r EXCEPT !.checksum = c]
<1>1. n % Word \in 0 .. Word - 1 /\ 0 \in 0 .. Word - 1
  OBVIOUS
<1>2. r \in Request /\ r.checksum = 0
  BY <1>1, RequestExcept
<1> HIDE DEF r
<1>3. Rest(r) \in 0 .. 5 * (Word - 1) /\ c = Inverted(Rest(r)) /\ c \in 0 .. Word - 1
  <2>1. Rest(r) \in 0 .. 5 * (Word - 1) /\ c = Inverted(Rest(r) + r.checksum)
        /\ c \in 0 .. Word - 1
    BY <1>2, ChecksumOf
  <2>2. Rest(r) + r.checksum = Rest(r)
    BY <1>2, <2>1
  <2> QED
    BY <2>1, <2>2
<1>4. Filled(n, time) = q
  BY DEF Filled, r
<1> HIDE DEF c
<1>5. q \in Request /\ q.checksum = c /\ q.id = r.id /\ q.seq = r.seq
      /\ q.dwTime = r.dwTime
  BY <1>2, <1>3 DEF Request
<1>6. Rest(q) = Rest(r)
  BY <1>5 DEF Rest
<1>7. in_cksum(Words(q)) = Inverted(Rest(r) + c)
  BY <1>5, <1>6, ChecksumOf
<1> QED
  BY <1>3, <1>4, <1>5, <1>7, AllOnes
-----------------------------------------------------------------------------
(***************************************************************************)
(* Types, and where ping() is.                                             *)
(***************************************************************************)
PingInv == PingTypeOK /\ Control

(* A step of ping, by what it does outside the stream.                     *)
LEMMA PingTypeStep ==
  ASSUME PingInv, [PingNext]_pingVars
  PROVE  PingTypeOK'
<1>1. TypeOK'
  BY PingMethod, TypeStep DEF PingInv, PingTypeOK
<1>2. echoReq' \in Request
  <2>1. CASE PingFill
    <3>1. PICK time \in 0 .. Word - 1 : echoReq' = Filled(transmitted + 1, time)
      BY <2>1 DEF PingFill
    <3>2. transmitted + 1 \in Nat /\ echoReq \in Request
      BY DEF PingInv, PingTypeOK
    <3> QED
      BY <3>1, <3>2, FilledVerifies
  <2>2. CASE ~PingFill
    <3>1. echoReq' = echoReq
      BY <2>2 DEF PingNext, PingProgram, pingVars, PingConstruct, PingSetTarget,
         PingWrite, PingFlush, PingSent, PingRead, PingLoop, PingFinish, CTLRC,
         PingArrives, PingOver
    <3> QED
      BY <3>1 DEF PingInv, PingTypeOK
  <2> QED
    BY <2>1, <2>2
<1>3. Terminate' \in BOOLEAN /\ surplus' \in BOOLEAN
  BY DEF PingInv, PingTypeOK, PingNext, PingProgram, pingVars, PingConstruct,
     PingSetTarget, PingFill, PingWrite, PingFlush, PingSent, PingRead, PingLoop,
     PingFinish, CTLRC, PingArrives, PingOver, outside
<1>4. /\ pc' \in Before \cup Sends \cup {"reply", "loop", "drain", "finish", "over"}
      /\ moved' \in 0 .. ReqSize \/ moved' \in 0 .. ReplySize
      /\ transmitted' \in 0 .. Ping_Count /\ received' \in Nat
  <2> USE DEF PingInv, PingTypeOK, Control, Before, Sends
  <2>1. CASE PingRead
    BY <2>1 DEF PingRead, Complete, AfterReply
  <2>2. CASE PingWrite
    BY <2>2 DEF PingWrite, counters
  <2>3. CASE PingSent
    BY <2>3 DEF PingSent
  <2>4. CASE PingConstruct \/ PingSetTarget \/ PingFill \/ PingFlush \/ PingLoop
             \/ PingFinish \/ CTLRC \/ PingArrives \/ PingOver \/ UNCHANGED pingVars
    BY <2>4 DEF PingConstruct, PingSetTarget, PingFill, PingFlush, PingLoop,
       PingFinish, CTLRC, PingArrives, PingOver, pingVars, counters
  <2> QED
    BY <2>1, <2>2, <2>3, <2>4 DEF PingNext, PingProgram
<1> QED
  BY <1>1, <1>2, <1>3, <1>4 DEF PingTypeOK, Before, Sends

LEMMA ControlStep ==
  ASSUME PingInv, [PingNext]_pingVars
  PROVE  Control'
<1> USE DEF PingInv, PingTypeOK, Control, Before, Sends
<1>1. CASE PingRead
  <2>1. /\ alive' = alive /\ sock' = sock
        /\ ios' # {} => ~Timeout'
        /\ sock = "none" => ~Timeout'
    BY <1>1 DEF PingRead, GetByte, Receive, UnderflowFails, Good
  <2> QED
    BY <1>1, <2>1 DEF PingRead, Complete, AfterReply
<1>2. CASE PingWrite
  <2>1. alive' = alive /\ sock' = sock
    BY <1>2 DEF PingWrite, PutByte
  <2>2. sock # "none" \/ Timeout' = Timeout
    BY <1>2 DEF PingWrite, PutByte, OverflowSends, OverflowFails
  <2> QED
    BY <1>2, <2>1, <2>2 DEF PingWrite, counters
<1>3. CASE PingFlush
  <2>1. alive' = alive /\ sock' = sock
    BY <1>3 DEF PingFlush, Flush
  <2>2. sock # "none" \/ Timeout' = Timeout
    BY <1>3 DEF PingFlush, Flush, OverflowSends, OverflowFails, OverflowNothing
  <2> QED
    BY <1>3, <2>1, <2>2 DEF PingFlush, counters
<1>4. CASE PingSetTarget
  BY <1>4 DEF PingSetTarget, SetTarget, Replaces, stateVars, counters
<1>5. CASE PingArrives
  BY <1>5 DEF PingArrives, Arrives, stateVars, counters
<1>6. CASE PingConstruct \/ PingFill \/ PingSent \/ PingLoop
           \/ PingFinish \/ CTLRC \/ PingOver \/ UNCHANGED pingVars
  BY <1>6 DEF PingConstruct, PingFill, PingSent, Fail, PingLoop, PingFinish,
     CTLRC, PingOver, pingVars, counters, vars
<1> QED
  BY <1>1, <1>2, <1>3, <1>4, <1>5, <1>6 DEF PingNext, PingProgram

LEMMA PingInvInit == PingInit => PingInv
<1> SUFFICES ASSUME PingInit PROVE PingInv
  OBVIOUS
<1>1. TypeOK
  BY TypeInit DEF PingInit
<1>2. echoReq \in Request
  BY DEF PingInit, Request
<1>3. /\ pc = "construct" /\ moved = 0 /\ transmitted = 0 /\ received = 0
      /\ Terminate = FALSE /\ surplus = FALSE
  BY DEF PingInit
<1>4. alive /\ ~Timeout /\ ios = {}
  BY DEF PingInit, Init
<1>5. Control
  BY <1>3, <1>4 DEF Control, Before, Sends
<1>6. moved \in 0 .. ReqSize /\ transmitted \in 0 .. Ping_Count /\ received \in Nat
  BY <1>3
<1> QED
  BY <1>1, <1>2, <1>3, <1>5, <1>6 DEF PingInv, PingTypeOK

(* Type correctness, and what the program counter tells.                   *)
THEOREM PingTypeTheorem == PingSpec => []PingTypeOK
<1>1. PingInv /\ [PingNext]_pingVars => PingInv'
  BY PingTypeStep, ControlStep DEF PingInv
<1>2. PingInv => PingTypeOK
  BY DEF PingInv
<1> QED
  BY <1>1, <1>2, PingInvInit, PTL DEF PingSpec

LEMMA PingInvTheorem == PingSpec => []PingInv
<1>1. PingInv /\ [PingNext]_pingVars => PingInv'
  BY PingTypeStep, ControlStep DEF PingInv
<1> QED
  BY <1>1, PingInvInit, PTL DEF PingSpec

(* ping uses its stream by its methods only, so that what is proved of     *)
(* datagram streams holds of the stream of ping (ping.cpp:107-216).        *)
THEOREM StreamTheorem == PingSpec => Spec
<1>1. PingInit => Init
  BY DEF PingInit
<1>2. PingInv /\ [PingNext]_pingVars => [Next]_vars
  BY PingMethod DEF PingInv
<1> QED
  BY <1>1, <1>2, PingInvTheorem, PTL DEF PingSpec, Spec

(* A request that is being sent has a checksum that verifies, whatever the *)
(* one before it has left in the static buffer, as long as a word has as   *)
(* many values as the request has words (2^16 in the source): ping.cpp:    *)
(* 132-151, 279-311.                                                       *)
THEOREM ChecksumTheorem ==
  ASSUME Word >= 6
  PROVE  PingSpec => []ChecksumVerifies
<1>1. PingInit => ChecksumVerifies
  BY DEF PingInit, ChecksumVerifies
<1>2. PingInv /\ ChecksumVerifies /\ [PingNext]_pingVars => ChecksumVerifies'
  <2> SUFFICES ASSUME PingInv, ChecksumVerifies, [PingNext]_pingVars
               PROVE  ChecksumVerifies'
    OBVIOUS
  <2>1. CASE PingFill
    <3>1. PICK time \in 0 .. Word - 1 : echoReq' = Filled(transmitted + 1, time)
      BY <2>1 DEF PingFill
    <3>2. transmitted + 1 \in Nat /\ echoReq \in Request
      BY DEF PingInv, PingTypeOK
    <3> QED
      BY <3>1, <3>2, FilledVerifies DEF ChecksumVerifies
  <2>2. CASE ~PingFill
    <3>1. echoReq' = echoReq /\ (pc' \in Sends => pc \in Sends)
      BY <2>2 DEF PingNext, PingProgram, pingVars, PingConstruct, PingSetTarget,
         PingWrite, PingFlush, PingSent, PingRead, PingLoop, PingFinish, CTLRC,
         PingArrives, PingOver, AfterReply, Sends
    <3> QED
      BY <3>1 DEF ChecksumVerifies, Sends
  <2> QED
    BY <2>1, <2>2
<1> QED
  BY <1>1, <1>2, PingInvTheorem, PTL DEF PingSpec
-----------------------------------------------------------------------------
(***************************************************************************)
(* What a write and what a flush do to the put area, counted.              *)
(***************************************************************************)
LEMMA Lengths ==
  ASSUME TypeOK
  PROVE  /\ Len(put) \in Nat /\ Len(get) \in Nat /\ Len(sent) \in Nat
         /\ Len(rcvq) \in Nat
         /\ put \in Seq(OutByte) /\ get \in Seq(InByte)
         /\ sent \in Seq(SentDatagram) /\ rcvq \in Seq(Datagram)
         /\ put = <<>> <=> Len(put) = 0
<1>1. /\ put \in Seq(OutByte) /\ get \in Seq(InByte)
      /\ sent \in Seq(SentDatagram) /\ rcvq \in Seq(Datagram)
  BY DEF TypeOK, InByte, SentDatagram
<1> QED
  BY <1>1, LenProperties, EmptySeq

LEMMA SendCounts ==
  ASSUME TypeOK, NEW d \in SentDatagram
  PROVE  /\ Len(Append(sent, d)) = Len(sent) + 1
         /\ \A i \in 1 .. Len(sent) : Append(sent, d)[i] = sent[i]
         /\ Append(sent, d)[Len(sent) + 1] = d
  BY Lengths, AppendProperties

LEMMA WriteCounts ==
  ASSUME TypeOK, PutByte
  PROVE  \/ UNCHANGED <<put, sent, accepted>> /\ ios' # {} /\ Len(put) = PutCap
         \/ /\ Len(put) < PutCap /\ Len(put') = Len(put) + 1
            /\ accepted' = accepted + 1 /\ UNCHANGED <<sent, ios>>
         \/ /\ Len(put) = PutCap /\ Len(put') = 1 /\ Len(sent') = Len(sent) + 1
            /\ UNCHANGED ios
<1> DEFINE c == <<NextByte>>
<1>1. NextByte \in OutByte
  BY DEF PutByte, NextByte, OutByte, TypeOK
<1>2. c \in Seq(OutByte) /\ Len(c) = 1
  BY <1>1
<1>3. CASE Len(put) < PutCap /\ put' = put \o c /\ accepted' = accepted + 1
           /\ UNCHANGED <<sent, ios>>
  <2>1. Len(put \o c) = Len(put) + 1
    BY <1>2, Lengths, ConcatProperties
  <2> QED
    BY <1>3, <2>1
<1>4. CASE Len(put) = PutCap /\ OverflowSends(c) /\ UNCHANGED ios
  <2>1. put' = c /\ sent' = Append(sent, [to |-> outPeer, bytes |-> put])
    BY <1>4, SendShape
  <2>2. [to |-> outPeer, bytes |-> put] \in SentDatagram
    BY DEF TypeOK, SentDatagram
  <2> QED
    BY <1>2, <1>4, <2>1, <2>2, SendCounts
<1>5. CASE /\ Len(put) = PutCap /\ OverflowFails /\ UNCHANGED accepted
           /\ ios' = ios \cup {"bad"}
  BY <1>5 DEF OverflowFails
<1> QED
  BY <1>3, <1>4, <1>5 DEF PutByte, NextByte

LEMMA FlushCounts ==
  ASSUME TypeOK, Flush \/ Destroy
  PROVE  /\ UNCHANGED accepted
         /\ \/ /\ put # <<>> /\ put' = <<>>
               /\ sent' = Append(sent, [to |-> outPeer, bytes |-> put])
               /\ Len(sent') = Len(sent) + 1
            \/ UNCHANGED <<put, sent>>
<1>1. UNCHANGED accepted
  BY DEF Flush, Destroy
<1>2. OverflowNothing \/ OverflowSends(<<>>) \/ OverflowFails
  BY DEF Flush, Destroy
<1>3. CASE OverflowSends(<<>>)
  <2>1. /\ put # <<>> /\ put' = <<>>
        /\ sent' = Append(sent, [to |-> outPeer, bytes |-> put])
    BY <1>3, SendShape
  <2>2. [to |-> outPeer, bytes |-> put] \in SentDatagram
    BY DEF TypeOK, SentDatagram
  <2> QED
    BY <1>1, <2>1, <2>2, SendCounts
<1>4. CASE OverflowNothing \/ OverflowFails
  BY <1>1, <1>4 DEF OverflowNothing, OverflowFails
<1> QED
  BY <1>2, <1>3, <1>4
-----------------------------------------------------------------------------
(***************************************************************************)
(* The packets that are lost.                                              *)
(***************************************************************************)
(* No more datagrams leave than requests are made: a request that is still *)
(* in the put area has not left, and one that is being written fits behind *)
(* a datagram that the put area sends to make room.                        *)
OutCount ==
  /\ pc \in Before \cup {"reply", "loop", "drain", "finish"} =>
       Len(sent) <= transmitted /\ (put # <<>> => Len(sent) < transmitted)
  /\ pc = "write" =>
       Len(sent) <= transmitted /\ (Len(sent) = transmitted => Len(put) <= moved)
  /\ pc \in {"flush", "sent"} =>
       Len(sent) <= transmitted + 1 /\ (put # <<>> => Len(sent) < transmitted + 1)

ReadSoFar == IF pc \in {"reply", "drain"} THEN moved ELSE 0

(* How many datagrams have been taken from the kernel, or lost with the    *)
(* socket they had reached.                                                *)
Taken == arrived - Len(rcvq)

AllReplies == \A i \in 1 .. Len(rcvq) : rcvq[i].length <= ReplySize

(* What has been read and what is left to read of the datagrams that have  *)
(* been taken from the kernel is no more than a reply for each of them.    *)
InCount ==
  pc # "over" /\ ~surplus =>
    /\ arrived <= Len(sent) /\ AllReplies
    /\ received * ReplySize + ReadSoFar + Len(get) <= Taken * ReplySize

LEMMA OutCountStep ==
  ASSUME PingInv, PingTypeOK', OutCount, [PingNext]_pingVars
  PROVE  /\ OutCount'
         /\ pc # "over" /\ pc' # "over" => Len(sent) <= Len(sent')
<1>0. /\ Len(put) \in Nat /\ Len(sent) \in Nat
      /\ put = <<>> <=> Len(put) = 0
      /\ Len(put') \in Nat /\ Len(sent') \in Nat
      /\ put' = <<>> <=> Len(put') = 0
      /\ transmitted \in Nat
  <2>1. TypeOK /\ TypeOK' /\ transmitted \in Nat
    BY DEF PingInv, PingTypeOK
  <2> QED
    BY <2>1, Lengths
<1> USE DEF OutCount, Before
<1>1. CASE PingWrite
  <2>1. PutByte /\ pc = "write" /\ transmitted' = transmitted /\ moved' = moved + 1
    BY <1>1 DEF PingWrite, counters
  <2>2. pc' = IF ios' # {} THEN "sent"
              ELSE IF moved + 1 = ReqSize THEN "flush" ELSE "write"
    BY <1>1 DEF PingWrite
  <2>3. moved < ReqSize /\ ios = {} /\ moved \in Nat
    BY <2>1 DEF PingInv, Control, PingTypeOK
  <2>4. \/ UNCHANGED <<put, sent, accepted>> /\ ios' # {} /\ Len(put) = PutCap
        \/ /\ Len(put) < PutCap /\ Len(put') = Len(put) + 1
           /\ accepted' = accepted + 1 /\ UNCHANGED <<sent, ios>>
        \/ /\ Len(put) = PutCap /\ Len(put') = 1 /\ Len(sent') = Len(sent) + 1
           /\ UNCHANGED ios
    BY <2>1, WriteCounts DEF PingInv, PingTypeOK
  <2>5. /\ Len(sent') <= transmitted /\ Len(sent) <= Len(sent')
        /\ ios' = {} => (Len(sent') = transmitted => Len(put') <= moved + 1)
    <3>1. /\ Len(sent) <= transmitted
          /\ Len(sent) = transmitted => Len(put) <= moved
      BY <2>1
    <3>2. PutCap > moved
      BY <2>3
    <3>3. CASE UNCHANGED <<put, sent>> /\ ios' # {}
      BY <1>0, <3>1, <3>3
    <3>4. CASE Len(put') = Len(put) + 1 /\ sent' = sent
      BY <1>0, <2>3, <3>1, <3>4
    <3>5. CASE Len(put) = PutCap /\ Len(put') = 1 /\ Len(sent') = Len(sent) + 1
      BY <1>0, <2>3, <3>1, <3>2, <3>5
    <3> QED
      BY <2>4, <3>3, <3>4, <3>5
  <2>6. /\ ios' = {} => pc' \in {"flush", "write"}
        /\ pc' \in {"write", "flush", "sent"}
        /\ pc' = "write" => ios' = {}
    BY <2>2
  <2> QED
    BY <1>0, <2>1, <2>5, <2>6
<1>2. CASE PingFlush \/ PingFinish
  <2>1. /\ transmitted' = transmitted
        /\ \/ pc = "flush" /\ pc' = "sent"
           \/ pc = "finish" /\ pc' = "over"
    BY <1>2 DEF PingFlush, PingFinish, counters
  <2>2. \/ put # <<>> /\ put' = <<>> /\ Len(sent') = Len(sent) + 1
        \/ UNCHANGED <<put, sent>>
    BY <1>2, FlushCounts DEF PingFlush, PingFinish, PingInv, PingTypeOK
  <2> QED
    BY <1>0, <2>1, <2>2
<1>3. CASE PingFill
  <2>1. /\ pc = "request" /\ pc' = "write" /\ moved' = 0
        /\ UNCHANGED <<put, sent, transmitted>>
    BY <1>3 DEF PingFill, outVars, counters
  <2> QED
    BY <1>0, <2>1
<1>4. CASE PingSent
  <2>1. /\ pc = "sent" /\ UNCHANGED <<put, sent>>
        /\ \/ pc' = "reply" /\ transmitted' = transmitted + 1
           \/ pc' = "over"
    BY <1>4 DEF PingSent, Fail
  <2> QED
    BY <1>0, <2>1
<1>5. CASE PingRead
  <2>1. /\ pc \in {"reply", "drain"} /\ UNCHANGED <<put, sent, transmitted>>
        /\ pc' \in Before \cup {"reply", "loop", "drain", "finish", "over"}
    BY <1>5 DEF PingRead, GetByte, outVars, AfterReply
  <2> QED
    BY <1>0, <2>1
<1>6. CASE PingConstruct \/ PingSetTarget \/ PingLoop
  <2>1. /\ pc \in Before \cup {"loop"} /\ UNCHANGED <<put, sent, transmitted>>
        /\ pc' \in Before \cup {"drain", "finish", "over"}
    BY <1>6 DEF PingConstruct, PingSetTarget, PingLoop, SetTarget, vars, counters
  <2> QED
    BY <1>0, <2>1
<1>7. CASE CTLRC \/ PingArrives \/ PingOver \/ UNCHANGED pingVars
  <2>1. UNCHANGED <<put, sent, transmitted, pc, moved>>
    BY <1>7 DEF CTLRC, PingArrives, Arrives, PingOver, pingVars, vars, outVars, counters
  <2> QED
    BY <1>0, <2>1
<1> QED
  BY <1>1, <1>2, <1>3, <1>4, <1>5, <1>6, <1>7 DEF PingNext, PingProgram

LEMMA ReadCounts ==
  ASSUME TypeOK, TypeOK', GetByte, AllReplies
  PROVE  /\ AllReplies' /\ UNCHANGED <<arrived, sent>>
         /\ \/ Taken' = Taken /\ Len(get') = Len(get) - 1
            \/ Taken' = Taken + 1 /\ Len(get') + 1 <= Len(get) + ReplySize
            \/ ios' # {} /\ Taken' \in {Taken, Taken + 1} /\ get' = get
<1>0. /\ Len(put) \in Nat /\ Len(get) \in Nat /\ Len(sent) \in Nat
      /\ Len(rcvq) \in Nat /\ arrived \in Nat
      /\ get \in Seq(InByte) /\ rcvq \in Seq(Datagram)
  BY Lengths DEF TypeOK
<1>1. UNCHANGED <<arrived, sent>>
  BY DEF GetByte, outVars
<1>2. ASSUME rcvq # <<>>
      PROVE  /\ Len(Tail(rcvq)) = Len(rcvq) - 1
             /\ \A i \in 1 .. Len(Tail(rcvq)) : Tail(rcvq)[i].length <= ReplySize
             /\ Head(rcvq) \in Datagram /\ Head(rcvq).length <= ReplySize
  <2>1. Head(rcvq) = rcvq[1] /\ Head(rcvq) \in Datagram /\ Len(rcvq) # 0
    BY <1>0, <1>2, HeadTailProperties, EmptySeq
  <2>2. /\ Len(Tail(rcvq)) = Len(rcvq) - 1
        /\ \A i \in 1 .. Len(Tail(rcvq)) : Tail(rcvq)[i] = rcvq[i + 1]
    BY <1>0, <1>2, TailIndices
  <2>3. \A i \in 1 .. Len(Tail(rcvq)) : i + 1 \in 1 .. Len(rcvq)
    BY <1>0, <2>2
  <2>4. 1 \in 1 .. Len(rcvq)
    BY <1>0, <2>1
  <2> QED
    BY <2>1, <2>2, <2>3, <2>4 DEF AllReplies
<1>3. CASE get # <<>> /\ get' = Tail(get) /\ rcvq' = rcvq
  <2>1. Len(get') = Len(get) - 1
    BY <1>0, <1>3, TailIndices
  <2> QED
    BY <1>1, <1>3, <2>1 DEF AllReplies, Taken
<1>4. CASE /\ Receive
           /\ \/ last'.length > 0 /\ get' = Tail(Received(last'))
              \/ ios' = ios \cup {"eof", "fail"} /\ get' = get
  <2>1. /\ rcvq # <<>> /\ rcvq' = Tail(rcvq) /\ last' = Head(rcvq)
    BY <1>4 DEF Receive
  <2>2. AllReplies' /\ Taken' = Taken + 1
    BY <1>0, <1>1, <1>2, <2>1 DEF AllReplies, Taken
  <2>3. CASE last'.length > 0 /\ get' = Tail(Received(last'))
    <3> DEFINE r == Received(last')
    <3>1. /\ r \in Seq(InByte) /\ Len(r) = Shorter(last'.length, GetCap)
          /\ Len(r) \in 1 .. GetCap /\ last'.length \in 0 .. MaxLength
      BY <1>2, <2>1, <2>3, ReceivedTypes DEF Datagram
    <3>2. Len(r) <= ReplySize
      BY <1>2, <2>1, <3>1 DEF Shorter
    <3> HIDE DEF r
    <3>3. r # <<>>
      BY <3>1, EmptySeq
    <3>4. Len(get') = Len(r) - 1
      BY <2>3, <3>1, <3>3, TailIndices DEF r
    <3> QED
      BY <1>0, <1>1, <2>2, <3>1, <3>2, <3>4
  <2>4. CASE ios' = ios \cup {"eof", "fail"} /\ get' = get
    BY <1>1, <2>2, <2>4
  <2> QED
    BY <1>4, <2>3, <2>4
<1>5. CASE UnderflowFails /\ ios' = ios \cup {"eof", "fail"} /\ get' = get
  BY <1>1, <1>5 DEF UnderflowFails, AllReplies, Taken
<1> QED
  BY <1>3, <1>4, <1>5 DEF GetByte

LEMMA InCountRead ==
  ASSUME PingInv, TypeOK', OutCount, InCount, PingRead, ~surplus
  PROVE  InCount' /\ (received' = received \/ received' <= transmitted')
<1>0. /\ Len(get) \in Nat /\ Len(get') \in Nat /\ Len(rcvq) \in Nat
      /\ Len(rcvq') \in Nat /\ arrived \in Nat /\ Len(sent) \in Nat
      /\ moved \in Nat /\ received \in Nat /\ transmitted \in Nat
  <2>1. TypeOK /\ TypeOK' /\ arrived \in Nat
    BY DEF PingInv, PingTypeOK, TypeOK
  <2> QED
    BY <2>1, Lengths DEF PingInv, PingTypeOK
<1>1. /\ pc \in {"reply", "drain"} /\ GetByte
      /\ transmitted' = transmitted /\ surplus' = surplus
  BY DEF PingRead, outside
<1>2. /\ arrived <= Len(sent) /\ AllReplies
      /\ received * ReplySize + moved + Len(get) <= Taken * ReplySize
  BY <1>1 DEF InCount, ReadSoFar
<1>3. /\ AllReplies' /\ UNCHANGED <<arrived, sent>>
      /\ \/ Taken' = Taken /\ Len(get') = Len(get) - 1
         \/ Taken' = Taken + 1 /\ Len(get') + 1 <= Len(get) + ReplySize
         \/ ios' # {} /\ Taken' \in {Taken, Taken + 1} /\ get' = get
  BY <1>1, <1>2, ReadCounts DEF PingInv, PingTypeOK
<1>4. /\ Taken \in Int /\ Taken' \in Int /\ Taken' <= arrived
      /\ (Taken + 1) * ReplySize = Taken * ReplySize + ReplySize
      /\ (received + 1) * ReplySize = received * ReplySize + ReplySize
      /\ Taken * ReplySize \in Int /\ received * ReplySize \in Nat
  BY <1>0, <1>3 DEF Taken
<1>5. /\ received * ReplySize + Len(get') <= Taken' * ReplySize
      /\ ios' = {} =>
           received * ReplySize + moved + 1 + Len(get') <= Taken' * ReplySize
  <2> DEFINE x == received * ReplySize
             y == Taken * ReplySize
  <2>1. /\ x \in Nat /\ y \in Int /\ (Taken + 1) * ReplySize = y + ReplySize
        /\ x + moved + Len(get) <= y
    BY <1>2, <1>4
  <2> HIDE DEF x, y
  <2>2. CASE Taken' = Taken /\ Len(get') = Len(get) - 1
    <3>1. Taken' * ReplySize = y
      BY <2>2 DEF y
    <3>2. x + moved + 1 + Len(get') <= y /\ x + Len(get') <= y
      BY <1>0, <2>1, <2>2
    <3> QED
      BY <3>1, <3>2 DEF x
  <2>3. CASE Taken' = Taken + 1 /\ Len(get') + 1 <= Len(get) + ReplySize
    <3>1. Taken' * ReplySize = y + ReplySize
      BY <2>1, <2>3
    <3>2. /\ x + moved + 1 + Len(get') <= y + ReplySize
          /\ x + Len(get') <= y + ReplySize
      BY <1>0, <2>1, <2>3
    <3> QED
      BY <3>1, <3>2 DEF x
  <2>4. CASE ios' # {} /\ Taken' \in {Taken, Taken + 1} /\ get' = get
    <3>1. Taken' * ReplySize \in {y, y + ReplySize}
      BY <2>1, <2>4 DEF y
    <3>2. x + Len(get') <= y /\ x + Len(get') <= y + ReplySize
      BY <1>0, <2>1, <2>4
    <3> QED
      BY <2>4, <3>1, <3>2 DEF x
  <2> QED
    BY <1>3, <2>2, <2>3, <2>4
<1>6. arrived' <= Len(sent') /\ AllReplies'
  BY <1>2, <1>3
<1>7. CASE ios' = {} /\ ~Complete(moved + 1) /\ moved' = moved + 1
           /\ UNCHANGED <<pc, received>>
  <2>1. received' * ReplySize + ReadSoFar' + Len(get')
          = received * ReplySize + moved + 1 + Len(get')
    BY <1>0, <1>1, <1>4, <1>7 DEF ReadSoFar
  <2> QED
    BY <1>5, <1>6, <1>7, <2>1 DEF InCount
<1>8. CASE /\ ios' = {} /\ Complete(moved + 1) /\ ~Timeout'
           /\ moved' = 0 /\ received' = received + 1
           /\ pc' = IF pc = "reply" THEN AfterReply ELSE "loop"
  <2>1. moved + 1 = ReplySize
    BY <1>8 DEF Complete
  <2>2. (received + 1) * ReplySize + Len(get') <= Taken' * ReplySize
    BY <1>0, <1>4, <1>5, <1>8, <2>1
  <2>3. received + 1 <= Taken'
    <3> DEFINE x == (received + 1) * ReplySize
               y == Taken' * ReplySize
    <3>1. x \in Int /\ y \in Int /\ x + Len(get') <= y
      BY <1>0, <1>4, <2>2
    <3> HIDE DEF x, y
    <3>2. x <= y
      BY <1>0, <3>1
    <3>3. received + 1 \in Int /\ Taken' \in Int
      BY <1>0, <1>4
    <3> QED
      BY <3>2, <3>3, Cancel, Zenon DEF x, y
  <2>4. received' <= transmitted'
    <3>1. Len(sent) <= transmitted
      BY <1>1 DEF OutCount
    <3> QED
      BY <1>0, <1>1, <1>2, <1>4, <1>8, <2>3, <3>1
  <2>5. ReadSoFar' = 0
    BY <1>8 DEF ReadSoFar, AfterReply
  <2>6. received' * ReplySize + ReadSoFar' + Len(get')
          = (received + 1) * ReplySize + Len(get')
    BY <1>0, <1>4, <1>8, <2>5
  <2> QED
    BY <1>6, <2>2, <2>4, <2>6 DEF InCount
<1>9. CASE /\ moved' = 0 /\ UNCHANGED received
           /\ pc' = IF pc = "reply" THEN AfterReply ELSE "finish"
  <2>1. ReadSoFar' = 0
    BY <1>9 DEF ReadSoFar, AfterReply
  <2>2. received' * ReplySize + ReadSoFar' + Len(get')
          = received * ReplySize + Len(get')
    BY <1>0, <1>4, <1>9, <2>1
  <2> QED
    BY <1>5, <1>6, <1>9, <2>2 DEF InCount
<1>10. CASE pc' = "over" /\ UNCHANGED received
  BY <1>10 DEF InCount
<1> QED
  BY <1>7, <1>8, <1>9, <1>10 DEF PingRead

LEMMA InCountArrives ==
  ASSUME PingInv, TypeOK', InCount, PingArrives, ~surplus'
  PROVE  InCount'
<1>1. /\ Arrives /\ pc # "over" /\ UNCHANGED <<pc, moved, received>>
      /\ surplus' = (surplus \/ arrived' > Len(sent)
                             \/ rcvq'[Len(rcvq')].length > ReplySize)
  BY DEF PingArrives, counters
<1>2. ~surplus /\ ~(arrived' > Len(sent)) /\ ~(rcvq'[Len(rcvq')].length > ReplySize)
  BY <1>1, Zenon
<1>3. /\ rcvq \in Seq(Datagram) /\ Len(rcvq) \in Nat /\ arrived \in Nat
      /\ Len(sent) \in Nat /\ arrived \in 0 .. MaxIn /\ TypeOK
  BY Lengths DEF PingInv, PingTypeOK, TypeOK
<1>4. PICK p \in Peer, n \in 0 .. MaxLength :
        rcvq' = Append(rcvq, [from |-> p, id |-> arrived + 1, length |-> n])
  BY <1>1 DEF Arrives
<1>5. arrived' = arrived + 1 /\ arrived < MaxIn /\ UNCHANGED <<get, sent>>
  BY <1>1 DEF Arrives, outVars
<1>6. [from |-> p, id |-> arrived + 1, length |-> n] \in Datagram
  BY <1>3, <1>5 DEF Datagram
<1>7. /\ Len(rcvq') = Len(rcvq) + 1
      /\ \A i \in 1 .. Len(rcvq) : rcvq'[i] = rcvq[i]
      /\ rcvq'[Len(rcvq')].length = n
  BY <1>3, <1>4, <1>6, AppendProperties
<1>8. AllReplies'
  <2>1. AllReplies /\ n <= ReplySize
    BY <1>1, <1>2, <1>7 DEF InCount
  <2>2. ASSUME NEW i \in 1 .. Len(rcvq')
        PROVE  rcvq'[i].length <= ReplySize
    <3>1. CASE i \in 1 .. Len(rcvq)
      BY <1>7, <2>1, <3>1 DEF AllReplies
    <3>2. CASE i = Len(rcvq')
      BY <1>7, <2>1, <3>2
    <3> QED
      BY <1>3, <1>7, <3>1, <3>2
  <2> QED
    BY <2>2 DEF AllReplies
<1>9. Taken' = Taken /\ ReadSoFar' = ReadSoFar /\ arrived' <= Len(sent')
  BY <1>1, <1>2, <1>3, <1>5, <1>7 DEF Taken, ReadSoFar
<1> QED
  BY <1>1, <1>2, <1>5, <1>8, <1>9 DEF InCount

LEMMA LostStep ==
  ASSUME PingInv, PingTypeOK', OutCount, InCount, LostInRange, [PingNext]_pingVars
  PROVE  OutCount' /\ InCount' /\ LostInRange'
<1>0. /\ Len(get) \in Nat /\ Len(rcvq) \in Nat /\ Len(sent) \in Nat
      /\ Len(sent') \in Nat /\ arrived \in Nat /\ moved \in Nat
      /\ received \in Nat /\ transmitted \in Nat /\ transmitted' \in Nat
      /\ TypeOK /\ TypeOK'
  <2>1. TypeOK /\ TypeOK' /\ arrived \in Nat
    BY DEF PingInv, PingTypeOK, TypeOK
  <2> QED
    BY <2>1, Lengths DEF PingInv, PingTypeOK
<1>1. OutCount' /\ (pc # "over" /\ pc' # "over" => Len(sent) <= Len(sent'))
  BY OutCountStep
<1>2. SUFFICES ASSUME ~surplus'
               PROVE  InCount' /\ received' <= transmitted'
  BY <1>1 DEF InCount, LostInRange
<1>3. ~surplus /\ received <= transmitted
  <2>1. ~surplus
    BY <1>2 DEF PingInv, PingTypeOK, PingNext, PingProgram, pingVars,
       PingConstruct, PingSetTarget, PingFill, PingWrite, PingFlush, PingSent,
       PingRead, PingLoop, PingFinish, CTLRC, PingArrives, PingOver, outside
  <2> QED
    BY <2>1 DEF LostInRange
<1>4. CASE PingRead
  <2>1. InCount' /\ (received' = received \/ received' <= transmitted')
    BY <1>0, <1>3, <1>4, InCountRead
  <2>2. transmitted' = transmitted
    BY <1>4 DEF PingRead
  <2> QED
    BY <1>3, <2>1, <2>2
<1>5. CASE PingArrives
  <2>1. InCount'
    BY <1>0, <1>2, <1>5, InCountArrives
  <2>2. received' = received /\ transmitted' = transmitted
    BY <1>5 DEF PingArrives, counters
  <2> QED
    BY <1>3, <2>1, <2>2
<1>6. CASE PingSetTarget
  <2>1. /\ pc = "target" /\ pc' = "request" /\ rcvq' = <<>>
        /\ UNCHANGED <<get, arrived, sent, received, transmitted>>
    BY <1>6 DEF PingSetTarget, SetTarget, Replaces, counters
  <2>2. /\ AllReplies' /\ Taken' = arrived
        /\ Taken \in Int /\ Taken' \in Int /\ Taken <= Taken'
    BY <1>0, <2>1 DEF AllReplies, Taken
  <2>3. Taken * ReplySize <= Taken' * ReplySize
    BY <2>2, Monotone, Zenon
  <2>4. /\ Taken * ReplySize \in Int /\ Taken' * ReplySize \in Int
        /\ received * ReplySize \in Int
    BY <1>0, <2>2
  <2>5. /\ arrived <= Len(sent)
        /\ received * ReplySize + 0 + Len(get) <= Taken * ReplySize
    BY <1>3, <2>1 DEF InCount, ReadSoFar
  <2>6. received * ReplySize + 0 + Len(get) <= Taken' * ReplySize
    BY <1>0, <2>3, <2>4, <2>5
  <2> QED
    BY <1>3, <2>1, <2>2, <2>5, <2>6 DEF InCount, ReadSoFar
<1>7. CASE \/ PingConstruct \/ PingFill \/ PingWrite \/ PingFlush \/ PingSent
           \/ PingLoop \/ PingFinish \/ CTLRC \/ PingOver \/ UNCHANGED pingVars
  <2>1. UNCHANGED <<get, rcvq, arrived, received>>  \/ PingFinish
    BY <1>7 DEF PingConstruct, PingFill, PingWrite, PingFlush, PingSent, PingLoop,
       PingFinish, CTLRC, PingOver, pingVars, vars, inVars, counters, PutByte,
       Flush, Fail
  <2>2. received' = received /\ transmitted <= transmitted'
    BY <1>0, <1>7 DEF PingConstruct, PingFill, PingWrite, PingFlush, PingSent,
       PingLoop, PingFinish, CTLRC, PingOver, pingVars, counters
  <2>3. received' <= transmitted'
    BY <1>0, <1>3, <2>2
  <2>4. CASE PingFinish
    BY <2>3, <2>4 DEF PingFinish, InCount
  <2>5. CASE UNCHANGED <<get, rcvq, arrived, received>> /\ pc' # "over"
    <3>1. ReadSoFar' = ReadSoFar /\ pc # "over"
      BY <1>7, <2>5 DEF PingConstruct, PingFill, PingWrite, PingFlush, PingSent,
         PingLoop, PingFinish, CTLRC, PingOver, pingVars, ReadSoFar, PingInv, Control
    <3>2. Taken' = Taken /\ (AllReplies => AllReplies')
      BY <2>5 DEF Taken, AllReplies
    <3>3. arrived <= Len(sent) => arrived <= Len(sent')
      BY <1>0, <1>1, <2>5, <3>1
    <3> QED
      BY <1>3, <2>3, <2>5, <3>1, <3>2, <3>3 DEF InCount
  <2>6. CASE pc' = "over"
    BY <2>3, <2>6 DEF InCount
  <2> QED
    BY <2>1, <2>4, <2>5, <2>6
<1> QED
  BY <1>4, <1>5, <1>6, <1>7 DEF PingNext, PingProgram

(* The packets that ping reports as lost are never fewer than none: while  *)
(* the network brings at most one answer for a request, however answers    *)
(* are cut, delayed and read, no more are received than were transmitted   *)
(* (ping.cpp:186-216, 247).                                                *)
THEOREM LostTheorem == PingSpec => []LostInRange
<1>1. PingInit => OutCount /\ InCount /\ LostInRange
  <2> SUFFICES ASSUME PingInit
               PROVE  OutCount /\ InCount /\ LostInRange
    OBVIOUS
  <2>1. /\ put = <<>> /\ get = <<>> /\ sent = <<>> /\ rcvq = <<>>
        /\ arrived = 0 /\ received = 0 /\ transmitted = 0 /\ pc = "construct"
    BY DEF PingInit, Init
  <2>2. Len(get) = 0 /\ Len(sent) = 0 /\ Len(rcvq) = 0
    BY <2>1
  <2>3. OutCount /\ LostInRange
    BY <2>1, <2>2 DEF OutCount, LostInRange, Before
  <2>4. AllReplies
    BY <2>2 DEF AllReplies
  <2>5. Taken = 0 /\ ReadSoFar = 0
    <3>1. arrived = 0 /\ Len(rcvq) = 0
      BY <2>1, <2>2
    <3>2. ReadSoFar = 0
      BY <2>1 DEF ReadSoFar
    <3> QED
      BY <3>1, <3>2 DEF Taken
  <2> QED
    BY <2>1, <2>2, <2>3, <2>4, <2>5 DEF InCount
<1>2. PingInv /\ PingInv' /\ OutCount /\ InCount /\ LostInRange
        /\ [PingNext]_pingVars => OutCount' /\ InCount' /\ LostInRange'
  BY LostStep DEF PingInv
<1> QED
  BY <1>1, <1>2, PingInvTheorem, PTL DEF PingSpec
-----------------------------------------------------------------------------
(***************************************************************************)
(* Requests leave whole.                                                   *)
(***************************************************************************)
Multiple(n) == \E k \in Int : n = k * ReqSize

LEMMA Multiples ==
  /\ Multiple(0)
  /\ \A m \in Int : Multiple(m) => Multiple(m + ReqSize)
  /\ \A m, n \in Int : Multiple(m) /\ Multiple(n) => Multiple(m - n)
<1>1. Multiple(0)
  <2>1. 0 = 0 * ReqSize
    OBVIOUS
  <2> QED
    BY <2>1 DEF Multiple
<1>2. ASSUME NEW m \in Int, Multiple(m)
      PROVE  Multiple(m + ReqSize)
  <2>1. PICK k \in Int : m = k * ReqSize
    BY <1>2 DEF Multiple
  <2>2. m + ReqSize = (k + 1) * ReqSize /\ k + 1 \in Int
    BY <2>1
  <2> QED
    BY <2>2 DEF Multiple
<1>3. ASSUME NEW m \in Int, NEW n \in Int, Multiple(m), Multiple(n)
      PROVE  Multiple(m - n)
  <2>1. PICK k \in Int : m = k * ReqSize
    BY <1>3 DEF Multiple
  <2>2. PICK l \in Int : n = l * ReqSize
    BY <1>3 DEF Multiple
  <2>3. m - n = (k - l) * ReqSize /\ k - l \in Int
    BY <2>1, <2>2
  <2> QED
    BY <2>3 DEF Multiple
<1> QED
  BY <1>1, <1>2, <1>3

LEMMA MultipleMod ==
  ASSUME NEW n \in Int
  PROVE  /\ Multiple(n) => n % ReqSize = 0
         /\ Multiple(n - 1) => n % ReqSize = 1 % ReqSize
<1>1. ASSUME NEW k \in Int, NEW r \in 0 .. ReqSize - 1
      PROVE  (k * ReqSize + r) % ReqSize = r
  BY DivMod
<1>2. ASSUME Multiple(n)
      PROVE  n % ReqSize = 0
  <2>1. PICK k \in Int : n = k * ReqSize
    BY <1>2 DEF Multiple
  <2>2. n = k * ReqSize + 0 /\ 0 \in 0 .. ReqSize - 1
    BY <2>1
  <2> QED
    BY <1>1, <2>2
<1>3. ASSUME Multiple(n - 1)
      PROVE  n % ReqSize = 1 % ReqSize
  <2>1. PICK k \in Int : n - 1 = k * ReqSize
    BY <1>3 DEF Multiple
  <2>2. CASE ReqSize = 1
    BY <2>2
  <2>3. CASE ReqSize # 1
    <3>1. n = k * ReqSize + 1 /\ 1 = 0 * ReqSize + 1 /\ 1 \in 0 .. ReqSize - 1
      BY <2>1, <2>3
    <3>2. n % ReqSize = 1
      BY <1>1, <3>1
    <3>3. 1 % ReqSize = 1
      BY <1>1, <3>1
    <3> QED
      BY <3>2, <3>3
  <2> QED
    BY <2>2, <2>3
<1> QED
  BY <1>2, <1>3

(* Bytes of the request that is being written, which are not a whole one.  *)
WrittenSoFar == IF pc = "write" THEN moved ELSE 0

(* What is behind and in the put area are whole requests, but for that one,*)
(* and it has taken no more bytes than the requests have had so far.       *)
PutWhole ==
  pc # "over" =>
    /\ Multiple(Len(put) - WrittenSoFar) /\ Multiple(accepted - WrittenSoFar)
    /\ Len(put) <= accepted
    /\ accepted <= (IF pc \in {"flush", "sent"} THEN transmitted + 1 ELSE transmitted)
                     * ReqSize + WrittenSoFar

SentWhole ==
  \A i \in 1 .. Len(sent) :
    Multiple(Len(sent[i].bytes)) /\ Multiple(sent[i].bytes[1].n - 1)

(* A flush sends whole requests, when the put area holds such.             *)
LEMMA WholeFlush ==
  ASSUME TypeOK, OutputIntact, Flush \/ Destroy, SentWhole,
         Multiple(Len(put)), Multiple(accepted), Len(put) <= accepted
  PROVE  /\ SentWhole' /\ Multiple(Len(put')) /\ Len(put') <= accepted
         /\ UNCHANGED accepted
<1>0. /\ Len(put) \in Nat /\ Len(sent) \in Nat /\ accepted \in Nat
      /\ put = <<>> <=> Len(put) = 0
      /\ sent \in Seq(SentDatagram) /\ put \in Seq(OutByte)
  BY Lengths DEF TypeOK
<1>1. UNCHANGED accepted
  BY FlushCounts
<1>2. CASE UNCHANGED <<put, sent>>
  BY <1>1, <1>2 DEF SentWhole
<1>3. CASE /\ put # <<>> /\ put' = <<>>
           /\ sent' = Append(sent, [to |-> outPeer, bytes |-> put])
  <2> DEFINE d == [to |-> outPeer, bytes |-> put]
  <2>1. d \in SentDatagram /\ d.bytes = put
    BY DEF TypeOK, SentDatagram
  <2>2. /\ Len(sent') = Len(sent) + 1
        /\ \A i \in 1 .. Len(sent) : sent'[i] = sent[i]
        /\ sent'[Len(sent) + 1].bytes = put
    BY <1>3, <2>1, SendCounts
  <2>3. put[1].n - 1 = accepted - Len(put)
    <3>1. FirstOf(Len(sent) + 1) \in Nat
      BY FirstIsNat
    <3>2. 1 \in 1 .. Len(put)
      BY <1>0, <1>3
    <3>3. put[1].n = FirstOf(Len(sent) + 1) + 1 - 1
      BY <3>2 DEF OutputIntact, CountOn
    <3>4. accepted = FirstOf(Len(sent) + 1) + Len(put) - 1
      BY DEF OutputIntact
    <3> QED
      BY <1>0, <3>1, <3>3, <3>4
  <2>4. Multiple(accepted - Len(put))
    BY <1>0, Multiples
  <2>5. ASSUME NEW i \in 1 .. Len(sent')
        PROVE  Multiple(Len(sent'[i].bytes)) /\ Multiple(sent'[i].bytes[1].n - 1)
    <3>1. CASE i \in 1 .. Len(sent)
      BY <2>2, <3>1 DEF SentWhole
    <3>2. CASE i = Len(sent) + 1
      BY <2>2, <2>3, <2>4, <3>2
    <3> QED
      BY <1>0, <2>2, <3>1, <3>2
  <2>6. Len(put') = 0
    BY <1>3
  <2> QED
    BY <1>0, <1>1, <2>5, <2>6, Multiples DEF SentWhole
<1> QED
  BY <1>1, <1>2, <1>3, FlushCounts

LEMMA WholeWrite ==
  ASSUME Ping_Count * ReqSize <= PutCap, PingInv, PutWhole, SentWhole, PingWrite
  PROVE  PutWhole' /\ SentWhole'
<1> DEFINE x == transmitted * ReqSize
<1>0. /\ Len(put) \in Nat /\ accepted \in Nat /\ moved \in Nat
      /\ transmitted \in Nat /\ TypeOK /\ x \in Nat
  <2>1. TypeOK /\ accepted \in Nat /\ moved \in Nat /\ transmitted \in Nat
    BY DEF PingInv, PingTypeOK, TypeOK
  <2> QED
    BY <2>1, Lengths
<1>1. PutByte /\ pc = "write" /\ transmitted' = transmitted /\ moved' = moved + 1
  BY DEF PingWrite, counters
<1>2. /\ pc' = IF ios' # {} THEN "sent"
               ELSE IF moved + 1 = ReqSize THEN "flush" ELSE "write"
      /\ moved < ReqSize /\ transmitted < Ping_Count /\ ios = {}
  BY <1>1 DEF PingWrite, PingInv, Control, Sends
<1>3. /\ Multiple(Len(put) - moved) /\ Multiple(accepted - moved)
      /\ Len(put) <= accepted /\ accepted <= x + moved
  BY <1>1 DEF PutWhole, WrittenSoFar
<1>4. x + ReqSize <= PutCap
  <2>1. x + ReqSize <= Ping_Count * ReqSize
    BY <1>0, <1>2, MulGrows
  <2>2. Ping_Count * ReqSize \in Nat
    OBVIOUS
  <2> QED
    BY <1>0, <2>1, <2>2
<1>5. Len(put) < PutCap
  BY <1>0, <1>2, <1>3, <1>4
<1> HIDE DEF x
<1>6. /\ Len(put') = Len(put) + 1 /\ accepted' = accepted + 1
      /\ UNCHANGED <<sent, ios>>
  BY <1>0, <1>1, <1>5, WriteCounts
<1>7. SentWhole'
  BY <1>6 DEF SentWhole
<1>8. CASE moved + 1 = ReqSize
  <2>1. pc' = "flush"
    BY <1>2, <1>6, <1>8
  <2>2. /\ Len(put') - 0 = (Len(put) - moved) + ReqSize
        /\ accepted' - 0 = (accepted - moved) + ReqSize
        /\ Len(put') <= accepted'
    BY <1>0, <1>3, <1>6, <1>8
  <2>3. Multiple(Len(put') - 0) /\ Multiple(accepted' - 0)
    <3>1. Len(put) - moved \in Int /\ accepted - moved \in Int
      BY <1>0
    <3>2. /\ Multiple((Len(put) - moved) + ReqSize)
          /\ Multiple((accepted - moved) + ReqSize)
      BY <1>3, <3>1, Multiples, Zenon
    <3> QED
      BY <2>2, <3>2, Zenon
  <2>4. (transmitted + 1) * ReqSize = x + ReqSize
    BY <1>0 DEF x
  <2>5. accepted' <= (transmitted' + 1) * ReqSize + 0
    BY <1>0, <1>1, <1>3, <1>6, <1>8, <2>4
  <2>6. WrittenSoFar' = 0
    BY <2>1 DEF WrittenSoFar
  <2> QED
    BY <1>7, <2>1, <2>2, <2>3, <2>5, <2>6 DEF PutWhole
<1>9. CASE moved + 1 # ReqSize
  <2>1. pc' = "write" /\ WrittenSoFar' = moved + 1
    BY <1>1, <1>2, <1>6, <1>9 DEF WrittenSoFar
  <2>2. /\ Len(put') - (moved + 1) = Len(put) - moved
        /\ accepted' - (moved + 1) = accepted - moved
        /\ Len(put') <= accepted' /\ accepted' <= x + (moved + 1)
    BY <1>0, <1>3, <1>6
  <2>3. transmitted' * ReqSize = x
    BY <1>1 DEF x
  <2> QED
    BY <1>3, <1>7, <2>1, <2>2, <2>3 DEF PutWhole
<1> QED
  BY <1>8, <1>9

LEMMA WholeStep ==
  ASSUME Ping_Count * ReqSize <= PutCap, PingInv, PingTypeOK', OutputIntact,
         PutWhole, SentWhole, [PingNext]_pingVars
  PROVE  PutWhole' /\ SentWhole'
<1>0. /\ Len(put) \in Nat /\ accepted \in Nat /\ transmitted \in Nat
      /\ TypeOK /\ transmitted * ReqSize \in Nat
      /\ (transmitted + 1) * ReqSize = transmitted * ReqSize + ReqSize
  <2>1. TypeOK /\ accepted \in Nat /\ transmitted \in Nat
    BY DEF PingInv, PingTypeOK, TypeOK
  <2> QED
    BY <2>1, Lengths
<1>1. CASE PingWrite
  BY <1>1, WholeWrite
<1>2. CASE PingFlush \/ PingFinish
  <2>1. /\ transmitted' = transmitted /\ (Flush \/ Destroy)
        /\ \/ pc = "flush" /\ pc' = "sent"
           \/ pc = "finish" /\ pc' = "over"
    BY <1>2 DEF PingFlush, PingFinish, counters
  <2>2. /\ Multiple(Len(put) - 0) /\ Multiple(accepted - 0)
        /\ Len(put) <= accepted
        /\ pc = "flush" => accepted <= (transmitted + 1) * ReqSize + 0
    BY <2>1 DEF PutWhole, WrittenSoFar
  <2>3. Len(put) - 0 = Len(put) /\ accepted - 0 = accepted
    BY <1>0
  <2>4. /\ SentWhole' /\ Multiple(Len(put')) /\ Len(put') <= accepted
        /\ accepted' = accepted
    BY <1>0, <2>1, <2>2, <2>3, WholeFlush
  <2>5. Len(put') \in Nat
    BY Lengths DEF PingTypeOK
  <2>6. Len(put') - 0 = Len(put')
    BY <2>5
  <2> QED
    BY <2>1, <2>2, <2>4, <2>6 DEF PutWhole, WrittenSoFar
<1>3. CASE PingFill
  <2>1. /\ pc = "request" /\ pc' = "write" /\ moved' = 0
        /\ UNCHANGED <<put, sent, accepted, transmitted>>
    BY <1>3 DEF PingFill, outVars, counters
  <2> QED
    BY <2>1 DEF PutWhole, SentWhole, WrittenSoFar
<1>4. CASE PingSent
  <2>1. /\ pc = "sent" /\ UNCHANGED <<put, sent, accepted>>
        /\ \/ pc' = "reply" /\ transmitted' = transmitted + 1
           \/ pc' = "over"
    BY <1>4 DEF PingSent, Fail
  <2> QED
    BY <2>1 DEF PutWhole, SentWhole, WrittenSoFar
<1>5. CASE PingRead
  <2>1. /\ pc \in {"reply", "drain"}
        /\ UNCHANGED <<put, sent, accepted, transmitted>>
        /\ pc' \notin Sends
    BY <1>5 DEF PingRead, GetByte, outVars, AfterReply, Sends
  <2> QED
    BY <2>1 DEF PutWhole, SentWhole, WrittenSoFar, Sends
<1>6. CASE PingConstruct \/ PingSetTarget \/ PingLoop
  <2>1. /\ pc \in Before \cup {"loop"} /\ pc' \notin Sends
        /\ UNCHANGED <<put, sent, accepted, transmitted>>
    BY <1>6 DEF PingConstruct, PingSetTarget, PingLoop, SetTarget, vars, counters,
       Before, Sends
  <2> QED
    BY <2>1 DEF PutWhole, SentWhole, WrittenSoFar, Before, Sends
<1>7. CASE CTLRC \/ PingArrives \/ PingOver \/ UNCHANGED pingVars
  <2>1. UNCHANGED <<put, sent, accepted, transmitted, pc, moved>>
    BY <1>7 DEF CTLRC, PingArrives, Arrives, PingOver, pingVars, vars, outVars, counters
  <2> QED
    BY <2>1 DEF PutWhole, SentWhole, WrittenSoFar
<1> QED
  BY <1>1, <1>2, <1>3, <1>4, <1>5, <1>6, <1>7 DEF PingNext, PingProgram

LEMMA WholeShows ==
  ASSUME PingInv, OutputIntact, PutWhole, SentWhole
  PROVE  RequestsWhole
<1>0. /\ Len(put) \in Nat /\ Len(sent) \in Nat
      /\ sent \in Seq(SentDatagram)
  BY Lengths DEF PingInv, PingTypeOK
<1>1. ASSUME NEW i \in 1 .. Len(sent)
      PROVE  /\ Len(sent[i].bytes) % ReqSize = 0
             /\ sent[i].bytes[1].n % ReqSize = 1 % ReqSize
  <2> DEFINE b == sent[i].bytes
  <2>1. sent[i] \in SentDatagram /\ b # <<>>
    BY <1>0, ElementOfSeq DEF OutputIntact
  <2>2. b \in Seq(OutByte) /\ Len(b) \in Nat \ {0}
    BY <2>1, EmptySeq, LenProperties DEF SentDatagram
  <2>3. b[1] \in OutByte
    BY <2>2, ElementOfSeq
  <2>4. b[1].n \in Int /\ Len(b) \in Int
    BY <2>2, <2>3 DEF OutByte
  <2>5. Multiple(Len(b)) /\ Multiple(b[1].n - 1)
    BY DEF SentWhole
  <2> QED
    BY <2>4, <2>5, MultipleMod
<1>2. ASSUME pc \in {"request", "reply", "loop", "drain"}
      PROVE  Len(put) % ReqSize = 0
  <2>1. Multiple(Len(put) - 0)
    BY <1>2 DEF PutWhole, WrittenSoFar
  <2>2. Len(put) - 0 = Len(put)
    BY <1>0
  <2> QED
    BY <1>0, <2>1, <2>2, MultipleMod
<1> QED
  BY <1>1, <1>2 DEF RequestsWhole

(* A datagram holds whole requests, and so does the put area between two   *)
(* of them, whatever times out and fails, as long as the put area has room *)
(* for all the requests there are: for 585 in the source (ping.cpp:107-183,*)
(* skstream.cpp:407-469).                                                  *)
THEOREM WholeTheorem ==
  ASSUME Ping_Count * ReqSize <= PutCap
  PROVE  PingSpec => []RequestsWhole
<1>1. PingInit => PutWhole /\ SentWhole
  <2> SUFFICES ASSUME PingInit
               PROVE  PutWhole /\ SentWhole
    OBVIOUS
  <2>1. /\ put = <<>> /\ sent = <<>> /\ accepted = 0 /\ transmitted = 0
        /\ pc = "construct"
    BY DEF PingInit, Init
  <2>2. Len(put) = 0 /\ Len(sent) = 0
    BY <2>1
  <2>3. SentWhole
    BY <2>2 DEF SentWhole
  <2>4. /\ Len(put) - 0 = 0 /\ accepted - 0 = 0 /\ Len(put) <= accepted
        /\ accepted <= transmitted * ReqSize + 0
    BY <2>1, <2>2
  <2> QED
    BY <2>1, <2>3, <2>4, Multiples DEF PutWhole, WrittenSoFar
<1>2. PingInv /\ PingInv' /\ OutputIntact /\ PutWhole /\ SentWhole
        /\ [PingNext]_pingVars => PutWhole' /\ SentWhole'
  BY WholeStep DEF PingInv
<1>3. PingInv /\ OutputIntact /\ PutWhole /\ SentWhole => RequestsWhole
  BY WholeShows
<1> QED
  BY <1>1, <1>2, <1>3, PingInvTheorem, StreamTheorem, IntactTheorem, PTL DEF PingSpec
-----------------------------------------------------------------------------
(***************************************************************************)
(* Where requests go.                                                      *)
(***************************************************************************)
(* All that has left was written for, and has gone to, one and the same    *)
(* address, and that is one.                                               *)
SentToTarget ==
  \A i \in 1 .. Len(sent) :
    /\ outPeer \in Peer /\ sent[i].to = outPeer
    /\ \A k \in 1 .. Len(sent[i].bytes) : sent[i].bytes[k].to = outPeer

(* A setTarget() that fails leaves a peer that was never set, but no       *)
(* socket, and it is called before anything has been written.              *)
TargetFirst ==
  /\ ~blindly
  /\ pc \in {"construct", "target"} => told = "clean" /\ put = <<>> /\ sent = <<>>
  /\ pc \notin {"construct", "target", "over"} => sock = "none" \/ outPeer \in Peer
  /\ \A i \in 1 .. Len(sent) : outPeer \in Peer /\ sent[i].to = outPeer

(* A datagram that leaves goes to the peer that is set.                    *)
LEMMA SendsToPeer ==
  ASSUME TypeOK, PutByte \/ Flush \/ Destroy
  PROVE  /\ UNCHANGED <<outPeer, blindly>>
         /\ \/ UNCHANGED sent
            \/ /\ sock # "none"
               /\ sent' = Append(sent, [to |-> outPeer, bytes |-> put])
<1>1. UNCHANGED <<outPeer, blindly>>
  BY DEF PutByte, Flush, Destroy, history
<1>2. \/ \E c : OverflowSends(c)
      \/ UNCHANGED sent
  <2>1. CASE PutByte
    <3>1. OverflowSends(<<NextByte>>) \/ UNCHANGED sent
      BY <2>1 DEF PutByte, NextByte, OverflowFails
    <3> QED
      BY <3>1, Zenon
  <2>2. CASE Flush \/ Destroy
    <3>1. OverflowSends(<<>>) \/ UNCHANGED sent
      BY <2>2 DEF Flush, Destroy, OverflowNothing, OverflowFails
    <3> QED
      BY <3>1, Zenon
  <2> QED
    BY <2>1, <2>2
<1> QED
  BY <1>1, <1>2 DEF OverflowSends

LEMMA TargetFirstStep ==
  ASSUME PingInv, TargetFirst, [PingNext]_pingVars
  PROVE  TargetFirst'
<1>0. TypeOK /\ Len(sent) \in Nat
  BY Lengths DEF PingInv, PingTypeOK
<1>1. CASE PingWrite \/ PingFlush \/ PingFinish
  <2>1. /\ PutByte \/ Flush \/ Destroy
        /\ pc \notin {"construct", "target", "over"}
        /\ pc' \notin {"construct", "target"}
        /\ sock' = sock \/ sock' = "none"
    BY <1>1 DEF PingWrite, PingFlush, PingFinish, PutByte, Flush, Destroy, Replaces
  <2>2. /\ UNCHANGED <<outPeer, blindly>>
        /\ \/ UNCHANGED sent
           \/ /\ sock # "none"
              /\ sent' = Append(sent, [to |-> outPeer, bytes |-> put])
    BY <1>0, <2>1, SendsToPeer
  <2>3. CASE UNCHANGED sent
    BY <2>1, <2>2, <2>3 DEF TargetFirst
  <2>4. CASE /\ sock # "none"
             /\ sent' = Append(sent, [to |-> outPeer, bytes |-> put])
    <3>1. [to |-> outPeer, bytes |-> put] \in SentDatagram
      BY <1>0 DEF TypeOK, SentDatagram
    <3>2. /\ Len(sent') = Len(sent) + 1
          /\ \A i \in 1 .. Len(sent) : sent'[i] = sent[i]
          /\ sent'[Len(sent) + 1].to = outPeer
      BY <1>0, <2>4, <3>1, SendCounts
    <3>3. outPeer \in Peer
      BY <2>1, <2>4 DEF TargetFirst
    <3>4. \A i \in 1 .. Len(sent') : sent'[i].to = outPeer
      <4>1. TAKE i \in 1 .. Len(sent')
      <4>2. i \in 1 .. Len(sent) \/ i = Len(sent) + 1
        BY <1>0, <3>2
      <4> QED
        BY <3>2, <4>2 DEF TargetFirst
    <3> QED
      BY <2>1, <2>2, <3>3, <3>4 DEF TargetFirst
  <2> QED
    BY <2>2, <2>3, <2>4
<1>2. CASE PingSetTarget
  <2>1. /\ pc = "target" /\ pc' = "request" /\ UNCHANGED <<put, sent>>
        /\ \/ outPeer' \in Peer
           \/ sock' = "none"
        /\ UNCHANGED blindly \/ told # "clean"
    BY <1>2 DEF PingSetTarget, SetTarget, Retargets, Replaces
  <2>2. put = <<>> /\ sent = <<>> /\ ~blindly /\ told = "clean"
    BY <2>1 DEF TargetFirst
  <2>3. ~blindly'
    BY <2>1, <2>2
  <2>4. Len(sent') = 0
    BY <2>1, <2>2
  <2> QED
    BY <2>1, <2>3, <2>4 DEF TargetFirst
<1>3. CASE \/ PingConstruct \/ PingFill \/ PingSent \/ PingRead \/ PingLoop
           \/ CTLRC \/ PingArrives \/ PingOver \/ UNCHANGED pingVars
  <2>1. UNCHANGED <<put, sent, outPeer, blindly, sock>>
    BY <1>3 DEF PingConstruct, PingFill, PingSent, PingRead, PingLoop, CTLRC,
       PingArrives, PingOver, pingVars, vars, outVars, history, GetByte, Arrives,
       Fail
  <2>3. pc' \in {"construct", "target"} => told' = told
    BY <1>3 DEF PingConstruct, PingFill, PingSent, PingRead, PingLoop, CTLRC,
       PingArrives, PingOver, pingVars, vars, AfterReply
  <2>2. /\ pc' \in {"construct", "target"} => pc \in {"construct", "target"}
        /\ pc' \notin {"construct", "target", "over"}
             => pc \notin {"construct", "target", "over"}
    BY <1>3 DEF PingConstruct, PingFill, PingSent, PingRead, PingLoop, CTLRC,
       PingArrives, PingOver, pingVars, AfterReply
  <2> QED
    BY <2>1, <2>2, <2>3 DEF TargetFirst
<1> QED
  BY <1>1, <1>2, <1>3 DEF PingNext, PingProgram

(* ping never sends to an address that was never set, which the stream     *)
(* itself would do (skstream.cpp:442), and all its requests go to one      *)
(* target (ping.cpp:107-128).                                              *)
THEOREM TargetFirstTheorem == PingSpec => []SentToTarget
<1>1. PingInit => TargetFirst
  <2>1. Init => /\ Len(sent) = 0 /\ put = <<>> /\ sent = <<>>
                /\ told = "clean" /\ ~blindly
    BY DEF Init
  <2> QED
    BY <2>1 DEF PingInit, TargetFirst
<1>2. PingInv /\ TargetFirst /\ [PingNext]_pingVars => TargetFirst'
  BY TargetFirstStep
<1>3. TargetFirst /\ ReachesItsTarget => SentToTarget
  BY DEF TargetFirst, ReachesItsTarget, SentToTarget
<1> QED
  BY <1>1, <1>2, <1>3, PingInvTheorem, StreamTheorem, TargetTheorem, PTL DEF PingSpec
=============================================================================
