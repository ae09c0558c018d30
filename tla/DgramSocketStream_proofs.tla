---------------------- MODULE DgramSocketStream_proofs ----------------------
(***************************************************************************)
(* Theorems about DgramSocketStream, for every set of peers, every size of *)
(* the areas and of the datagrams.  A step does one of a few things to     *)
(* each direction (OutShape, InShape); the invariants are preserved by     *)
(* each of these, whatever operation does it.                              *)
(***************************************************************************)
EXTENDS DgramSocketStream, SequenceTheorems, TLAPS

USE DgramAssumption

InByte == [id : 1 .. MaxIn, at : 1 .. MaxLength]

SentDatagram == [to : Peer \cup {Garbage}, bytes : Seq(OutByte)]

(* The next byte that the program writes.                                  *)
NextByte == [n |-> accepted + 1, to |-> outPeer]

Writes == accepted < MaxOut /\ accepted' = accepted + 1

(* What becomes of the peer and of what the program knew when it changed.  *)
RetargetShape ==
  ~blindly' => ~blindly /\ (outPeer' = outPeer \/ told = "clean")

OutShape ==
  \/ /\ UNCHANGED <<put, sent, accepted>>
     /\ RetargetShape
  \/ /\ Len(put) < PutCap
     /\ Writes /\ put' = put \o <<NextByte>>
     /\ UNCHANGED <<sent, outPeer, blindly>>
  \/ /\ put # <<>>
     /\ sent' = Append(sent, [to |-> outPeer, bytes |-> put])
     /\ \/ UNCHANGED accepted /\ put' = <<>>
        \/ Writes /\ put' = <<NextByte>>
     /\ UNCHANGED <<outPeer, blindly>>

InShape ==
  \/ UNCHANGED <<get, inPeer, last>>
  \/ /\ get # <<>> /\ get' = Tail(get)
     /\ UNCHANGED <<inPeer, last>>
  \/ /\ get = <<>> /\ rcvq # <<>>
     /\ last' = Head(rcvq) /\ inPeer' = last'.from
     /\ \/ last'.length > 0 /\ get' = Tail(Received(last'))
        \/ get' = get
-----------------------------------------------------------------------------
LEMMA SendShape ==
  ASSUME TypeOK, NEW nCh, OverflowSends(nCh)
  PROVE  /\ put # <<>> /\ put' = nCh
         /\ sent' = Append(sent, [to |-> outPeer, bytes |-> put])
  BY DEF OverflowSends, AfterSend

LEMMA RetargetsShape ==
  ASSUME Retargets \/ UNCHANGED <<outPeer, blindly>>
  PROVE  RetargetShape
  BY DEF Retargets, RetargetShape

LEMMA Shapes ==
  ASSUME TypeOK, [Next]_vars
  PROVE  OutShape /\ InShape
<1>1. CASE PutByte
  <2>1. InShape
    BY <1>1 DEF PutByte, inVars, InShape
  <2>2. CASE OverflowSends(<<NextByte>>) /\ accepted' = accepted + 1
    <3>1. Writes /\ UNCHANGED <<outPeer, blindly>>
      BY <1>1, <2>2 DEF PutByte, Writes
    <3> QED
      BY <2>1, <2>2, <3>1, SendShape DEF OutShape
  <2>3. CASE OverflowFails /\ UNCHANGED accepted
    BY <1>1, <2>1, <2>3 DEF PutByte, OverflowFails, OutShape, RetargetShape
  <2>4. CASE Len(put) < PutCap /\ put' = put \o <<NextByte>>
             /\ accepted' = accepted + 1 /\ UNCHANGED sent
    BY <1>1, <2>1, <2>4 DEF PutByte, OutShape, Writes
  <2> QED
    BY <1>1, <2>2, <2>3, <2>4 DEF PutByte, NextByte
<1>2. CASE Flush
  <2>1. InShape /\ UNCHANGED <<outPeer, blindly, accepted>>
    BY <1>2 DEF Flush, inVars, InShape
  <2>2. CASE OverflowSends(<<>>)
    BY <2>1, <2>2, SendShape DEF OutShape
  <2>3. CASE OverflowNothing \/ OverflowFails
    BY <2>1, <2>3 DEF OverflowNothing, OverflowFails, OutShape, RetargetShape
  <2> QED
    BY <1>2, <2>2, <2>3 DEF Flush
<1>3. CASE Destroy
  <2>1. InShape /\ UNCHANGED <<outPeer, blindly, accepted>>
    BY <1>3 DEF Destroy, history, InShape
  <2>2. CASE OverflowSends(<<>>)
    BY <2>1, <2>2, SendShape DEF OutShape
  <2>3. CASE OverflowNothing \/ OverflowFails
    BY <2>1, <2>3 DEF OverflowNothing, OverflowFails, OutShape, RetargetShape
  <2> QED
    BY <1>3, <2>2, <2>3 DEF Destroy
<1>4. CASE GetByte
  <2>1. OutShape
    BY <1>4 DEF GetByte, outVars, history, OutShape, RetargetShape
  <2>2. CASE get # <<>> /\ get' = Tail(get) /\ UNCHANGED <<inPeer, last>>
    BY <2>1, <2>2 DEF InShape
  <2>3. CASE /\ get = <<>> /\ Receive
             /\ \/ last'.length > 0 /\ get' = Tail(Received(last'))
                \/ UNCHANGED get
    BY <2>1, <2>3 DEF Receive, InShape
  <2>4. CASE UnderflowFails /\ UNCHANGED get
    BY <2>1, <2>4 DEF UnderflowFails, InShape
  <2> QED
    BY <1>4, <2>2, <2>3, <2>4 DEF GetByte
<1>5. CASE SetTarget
  <2>1. UNCHANGED <<put, sent, accepted, get, inPeer, last>>
    BY <1>5 DEF SetTarget
  <2>2. RetargetShape
    BY <1>5, RetargetsShape DEF SetTarget
  <2> QED
    BY <2>1, <2>2 DEF OutShape, InShape
<1>6. CASE SetOutpeer
  <2>1. UNCHANGED <<put, sent, accepted, get, inPeer, last>>
    BY <1>6 DEF SetOutpeer, inVars
  <2>2. RetargetShape
    BY <1>6, RetargetsShape DEF SetOutpeer
  <2> QED
    BY <2>1, <2>2 DEF OutShape, InShape
<1>7. CASE Fail \/ Clear \/ SetTimeout \/ Close \/ Opens \/ Arrives
           \/ UNCHANGED vars
  BY <1>7 DEF Fail, Clear, SetTimeout, Close, Opens, Arrives, vars, outVars,
              inVars, history, OutShape, RetargetShape, InShape
<1> QED
  BY <1>1, <1>2, <1>3, <1>4, <1>5, <1>6, <1>7 DEF Next
-----------------------------------------------------------------------------
(***************************************************************************)
(* Types.                                                                  *)
(***************************************************************************)
LEMMA OutTypes ==
  ASSUME TypeOK, OutShape
  PROVE  /\ put' \in Seq(OutByte) /\ Len(put') <= PutCap
         /\ accepted' \in 0 .. MaxOut
         /\ sent' \in Seq(SentDatagram)
<1>0. put \in Seq(OutByte) /\ sent \in Seq(SentDatagram) /\ accepted \in 0 .. MaxOut
  BY DEF TypeOK, SentDatagram
<1>1. Writes => /\ <<NextByte>> \in Seq(OutByte) /\ Len(<<NextByte>>) = 1
                /\ accepted' \in 0 .. MaxOut
  BY <1>0 DEF Writes, NextByte, OutByte, TypeOK
<1>2. [to |-> outPeer, bytes |-> put] \in SentDatagram
  BY DEF TypeOK, SentDatagram
<1>3. Append(sent, [to |-> outPeer, bytes |-> put]) \in Seq(SentDatagram)
  BY <1>0, <1>2, AppendProperties
<1>4. Writes => /\ put \o <<NextByte>> \in Seq(OutByte)
                /\ Len(put \o <<NextByte>>) = Len(put) + 1
  BY <1>0, <1>1, ConcatProperties
<1>5. <<>> \in Seq(OutByte) /\ Len(<<>>) = 0 /\ Len(put) \in Nat /\ Len(put) <= PutCap
  BY <1>0, EmptySeq, LenProperties DEF TypeOK
<1>6. CASE UNCHANGED <<put, sent, accepted>>
  BY <1>0, <1>5, <1>6
<1>7. CASE Len(put) < PutCap /\ Writes /\ put' = put \o <<NextByte>> /\ UNCHANGED sent
  BY <1>0, <1>1, <1>4, <1>5, <1>7
<1>8. CASE /\ sent' = Append(sent, [to |-> outPeer, bytes |-> put])
           /\ UNCHANGED accepted /\ put' = <<>>
  BY <1>0, <1>3, <1>5, <1>8
<1>9. CASE /\ sent' = Append(sent, [to |-> outPeer, bytes |-> put])
           /\ Writes /\ put' = <<NextByte>>
  BY <1>1, <1>3, <1>9
<1> QED
  BY <1>6, <1>7, <1>8, <1>9 DEF OutShape

LEMMA ReceivedTypes ==
  ASSUME NEW d \in Datagram
  PROVE  /\ Shorter(d.length, GetCap) \in 0 .. GetCap
         /\ d.length > 0 => Shorter(d.length, GetCap) \in 1 .. GetCap
         /\ Received(d) \in Seq(InByte)
         /\ Len(Received(d)) = Shorter(d.length, GetCap)
         /\ \A i \in 1 .. Len(Received(d)) : Received(d)[i] = [id |-> d.id, at |-> i]
<1>1. d.length \in 0 .. MaxLength /\ d.id \in 1 .. MaxIn
  BY DEF Datagram
<1> DEFINE n == Shorter(d.length, GetCap)
<1>2. n \in 0 .. GetCap /\ n \in Nat /\ n <= MaxLength /\ (d.length > 0 => n > 0)
  BY <1>1 DEF Shorter
<1>3. \A i \in 1 .. n : [id |-> d.id, at |-> i] \in InByte
  BY <1>1, <1>2 DEF InByte
<1>4. Received(d) = [i \in 1 .. n |-> [id |-> d.id, at |-> i]]
  BY DEF Received
<1> HIDE DEF n
<1>5. /\ Received(d) \in Seq(InByte) /\ Len(Received(d)) = n
      /\ \A i \in 1 .. n : Received(d)[i] = [id |-> d.id, at |-> i]
  BY <1>2, <1>3, <1>4
<1> QED
  BY <1>2, <1>5 DEF n

LEMMA InTypes ==
  ASSUME TypeOK, InShape
  PROVE  /\ get' \in Seq(InByte) /\ Len(get') <= GetCap
         /\ inPeer' \in Peer \cup {Garbage}
         /\ last' \in Datagram \cup {NoDatagram}
<1>0. get \in Seq(InByte) /\ rcvq \in Seq(Datagram) /\ Len(get) <= GetCap
  BY DEF TypeOK, InByte
<1>1. CASE UNCHANGED <<get, inPeer, last>>
  BY <1>0, <1>1 DEF TypeOK
<1>2. CASE get # <<>> /\ get' = Tail(get) /\ UNCHANGED <<inPeer, last>>
  <2>1. Tail(get) \in Seq(InByte) /\ Len(Tail(get)) = Len(get) - 1
    BY <1>0, <1>2, HeadTailProperties
  <2> QED
    BY <1>0, <1>2, <2>1, LenProperties DEF TypeOK
<1>3. CASE /\ get = <<>> /\ rcvq # <<>>
           /\ last' = Head(rcvq) /\ inPeer' = last'.from
           /\ \/ last'.length > 0 /\ get' = Tail(Received(last'))
              \/ get' = get
  <2>1. last' \in Datagram
    BY <1>0, <1>3, HeadTailProperties
  <2>2. inPeer' \in Peer
    BY <1>3, <2>1 DEF Datagram
  <2>3. CASE last'.length > 0 /\ get' = Tail(Received(last'))
    <3>1. Received(last') \in Seq(InByte) /\ Len(Received(last')) \in 1 .. GetCap
      BY <2>1, <2>3, ReceivedTypes
    <3>2. /\ Tail(Received(last')) \in Seq(InByte)
          /\ Len(Tail(Received(last'))) = Len(Received(last')) - 1
      BY <3>1, EmptySeq, HeadTailProperties
    <3> QED
      BY <2>1, <2>2, <2>3, <3>1, <3>2
  <2> QED
    BY <1>0, <1>3, <2>1, <2>2, <2>3
<1> QED
  BY <1>1, <1>2, <1>3 DEF InShape

LEMMA TypeStep ==
  ASSUME TypeOK, [Next]_vars
  PROVE  TypeOK'
<1>1. OutShape /\ InShape
  BY Shapes
<1>2. /\ put' \in Seq(OutByte) /\ Len(put') <= PutCap
      /\ accepted' \in 0 .. MaxOut
      /\ sent' \in Seq(SentDatagram)
  BY <1>1, OutTypes
<1>3. /\ get' \in Seq(InByte) /\ Len(get') <= GetCap
      /\ inPeer' \in Peer \cup {Garbage}
      /\ last' \in Datagram \cup {NoDatagram}
  BY <1>1, InTypes
<1>4. /\ arrived' \in 0 .. MaxIn
      /\ rcvq' \in Seq(Datagram)
  <2>1. arrived \in 0 .. MaxIn /\ rcvq \in Seq(Datagram)
    BY DEF TypeOK
  <2>2. CASE Arrives
    <3>1. PICK p \in Peer, n \in 0 .. MaxLength :
            rcvq' = Append(rcvq, [from |-> p, id |-> arrived + 1, length |-> n])
      BY <2>2 DEF Arrives
    <3>2. arrived' = arrived + 1 /\ arrived < MaxIn
      BY <2>2 DEF Arrives
    <3>3. [from |-> p, id |-> arrived + 1, length |-> n] \in Datagram
      BY <2>1, <3>2 DEF Datagram
    <3> QED
      BY <2>1, <3>1, <3>2, <3>3, AppendProperties
  <2>3. CASE GetByte
    <3>1. rcvq' = rcvq \/ (rcvq # <<>> /\ rcvq' = Tail(rcvq))
      BY <2>3 DEF GetByte, Receive, UnderflowFails
    <3>2. rcvq # <<>> => Tail(rcvq) \in Seq(Datagram)
      BY <2>1, HeadTailProperties
    <3> QED
      BY <2>1, <2>3, <3>1, <3>2 DEF GetByte
  <2>4. CASE rcvq' \in {rcvq, <<>>} /\ UNCHANGED arrived
    BY <2>1, <2>4, EmptySeq
  <2> QED
    BY <2>2, <2>3, <2>4 DEF Next, vars, inVars, PutByte, Flush, Fail, Clear,
       SetTimeout, Close, SetTarget, SetOutpeer, Opens, Destroy, Replaces
<1>5. /\ alive' \in BOOLEAN /\ waits' \in BOOLEAN
      /\ sock' \in Sockets /\ outPeer' \in Peer \cup {Garbage}
  BY DEF TypeOK, Sockets, Next, vars, stateVars, PutByte, Flush, GetByte,
     Fail, Clear, SetTimeout, Close, SetTarget, SetOutpeer, Retargets, Opens,
     Destroy, Arrives, Replaces
<1>8. ios' \in SUBSET {"eof", "fail", "bad"}
  <2>1. ios \in SUBSET {"eof", "fail", "bad"}
    BY DEF TypeOK
  <2>2. ios' \in {ios, {}, ios \cup {"bad"}, ios \cup {"eof", "fail"}}
    BY DEF Next, vars, stateVars, PutByte, Flush, GetByte, Fail, Clear,
       SetTimeout, Close, SetTarget, SetOutpeer, Opens, Destroy, Arrives
  <2> QED
    BY <2>1, <2>2
<1>6. Timeout' \in BOOLEAN
  BY DEF TypeOK, Next, vars, stateVars, PutByte, Flush, GetByte, Fail, Clear,
     SetTimeout, Close, SetTarget, SetOutpeer, Opens, Destroy, Arrives,
     OverflowNothing, OverflowSends, OverflowFails, Receive, UnderflowFails
<1>7. told' \in Told /\ blindly' \in BOOLEAN
  <2>1. told \in Told /\ blindly \in BOOLEAN
    BY DEF TypeOK
  <2>3. CASE PutByte \/ Flush \/ Fail \/ Clear
    BY <2>1, <2>3 DEF PutByte, Flush, Fail, Clear, Told
  <2>4. CASE SetTarget \/ SetOutpeer
    BY <2>1, <2>4 DEF SetTarget, SetOutpeer, Retargets
  <2>5. CASE UNCHANGED history
    BY <2>1, <2>5 DEF history
  <2> QED
    BY <2>3, <2>4, <2>5 DEF Next, vars, outVars, history, GetByte, SetTimeout,
       Close, Opens, Destroy, Arrives
<1> QED
  BY <1>2, <1>3, <1>4, <1>5, <1>6, <1>7, <1>8 DEF TypeOK, InByte, SentDatagram

LEMMA TypeInit == Init => TypeOK
<1>1. \A S : <<>> \in Seq(S) /\ Len(<<>>) = 0
  BY EmptySeq
<1> SUFFICES ASSUME Init PROVE TypeOK
  OBVIOUS
<1>2. /\ put \in Seq(OutByte) /\ Len(put) <= PutCap
      /\ get \in Seq([id : 1 .. MaxIn, at : 1 .. MaxLength]) /\ Len(get) <= GetCap
  BY <1>1 DEF Init
<1>3. /\ sent \in Seq([to : Peer \cup {Garbage}, bytes : Seq(OutByte)])
      /\ rcvq \in Seq(Datagram)
  BY <1>1 DEF Init
<1>4. accepted \in 0 .. MaxOut /\ arrived \in 0 .. MaxIn
  BY DEF Init
<1>5. /\ sock \in Sockets /\ ios \in SUBSET {"eof", "fail", "bad"}
      /\ outPeer \in Peer \cup {Garbage} /\ inPeer \in Peer \cup {Garbage}
      /\ last \in Datagram \cup {NoDatagram}
  BY DEF Init, Sockets
<1>6. /\ alive \in BOOLEAN /\ Timeout \in BOOLEAN /\ waits \in BOOLEAN
      /\ told \in Told /\ blindly \in BOOLEAN
  BY DEF Init, Told
<1> QED
  BY <1>2, <1>3, <1>4, <1>5, <1>6 DEF TypeOK

(* Type correctness, the sizes of the two areas included, over every       *)
(* operation of the datagram streams (skstream.cpp:370-522).               *)
THEOREM TypeTheorem == Spec => []TypeOK
<1> QED
  BY TypeInit, TypeStep, PTL DEF Spec
-----------------------------------------------------------------------------
(***************************************************************************)
(* Output: what has left and what has not.                                 *)
(***************************************************************************)
LEMMA LastByte ==
  ASSUME TypeOK, put # <<>>
  PROVE  Len(put) \in Nat \ {0} /\ put[Len(put)] \in OutByte
         /\ put[Len(put)].n \in Nat
<1>1. put \in Seq(OutByte) /\ Len(put) \in Nat
  BY LenProperties DEF TypeOK
<1>2. Len(put) # 0
  BY <1>1, EmptySeq
<1>3. put[Len(put)] \in OutByte
  BY <1>1, <1>2, ElementOfSeq
<1> QED
  BY <1>1, <1>2, <1>3 DEF OutByte

(* A datagram that has left in full: its last byte is the last accepted.   *)
LEMMA AppendedFirst ==
  ASSUME TypeOK, put # <<>>, OutputIntact, TypeOK',
         sent' = Append(sent, [to |-> outPeer, bytes |-> put])
  PROVE  /\ Len(sent') = Len(sent) + 1
         /\ sent'[Len(sent')].bytes = put
         /\ \A i \in 1 .. Len(sent) : sent'[i] = sent[i]
         /\ \A i \in 1 .. Len(sent') : FirstOf(i)' = FirstOf(i)
         /\ FirstOf(Len(sent) + 1)' = accepted + 1
<1> DEFINE d == [to |-> outPeer, bytes |-> put]
<1>1. sent \in Seq(SentDatagram) /\ Len(sent) \in Nat
  BY LenProperties DEF TypeOK, SentDatagram
<1>2. d \in SentDatagram /\ d.bytes = put
  BY DEF TypeOK, SentDatagram
<1>3. /\ Len(sent') = Len(sent) + 1
      /\ \A i \in 1 .. Len(sent) : sent'[i] = sent[i]
      /\ sent'[Len(sent) + 1] = d
  BY <1>1, <1>2, AppendProperties
<1>4. ASSUME NEW i \in 1 .. Len(sent')
      PROVE  FirstOf(i)' = FirstOf(i)
  <2>1. i # 1 => i - 1 \in 1 .. Len(sent)
    BY <1>1, <1>3
  <2>2. i # 1 => sent'[i - 1] = sent[i - 1]
    BY <1>3, <2>1
  <2> QED
    BY <2>2 DEF FirstOf
<1>5. FirstOf(Len(sent) + 1)' = put[Len(put)].n + 1
  <2>1. Len(sent') + 1 # 1 /\ Len(sent') + 1 - 1 = Len(sent) + 1
    BY <1>1, <1>3
  <2>2. sent'[Len(sent') + 1 - 1].bytes = put
    BY <1>2, <1>3, <2>1
  <2> QED
    BY <2>1, <2>2 DEF FirstOf
<1>6. put[Len(put)].n = accepted
  <2>1. Len(put) \in 1 .. Len(put) /\ put[Len(put)].n \in Nat
    BY LastByte
  <2>2. put[Len(put)].n = FirstOf(Len(sent) + 1) + Len(put) - 1
    BY <2>1 DEF OutputIntact, CountOn
  <2> QED
    BY <2>2 DEF OutputIntact
<1> QED
  BY <1>2, <1>3, <1>4, <1>5, <1>6

LEMMA FirstIsNat ==
  ASSUME TypeOK, OutputIntact
  PROVE  FirstOf(Len(sent) + 1) \in Nat
<1>1. sent \in Seq(SentDatagram) /\ Len(sent) \in Nat
  BY LenProperties DEF TypeOK, SentDatagram
<1>2. CASE Len(sent) = 0
  BY <1>2 DEF FirstOf
<1>3. CASE Len(sent) # 0
  <2> DEFINE b == sent[Len(sent)].bytes
  <2>1. sent[Len(sent)] \in SentDatagram /\ b # <<>>
    BY <1>1, <1>3, ElementOfSeq DEF OutputIntact
  <2>2. b \in Seq(OutByte) /\ Len(b) \in Nat \ {0}
    BY <2>1, EmptySeq, LenProperties DEF SentDatagram
  <2>3. b[Len(b)] \in OutByte
    BY <2>2, ElementOfSeq
  <2>4. b[Len(b)].n \in Nat
    BY <2>3 DEF OutByte
  <2>5. FirstOf(Len(sent) + 1) = b[Len(b)].n + 1
    BY <1>1, <1>3 DEF FirstOf
  <2> QED
    BY <2>4, <2>5
<1> QED
  BY <1>2, <1>3

LEMMA IntactStep ==
  ASSUME TypeOK, TypeOK', OutputIntact, OutShape
  PROVE  OutputIntact'
<1>0. /\ Len(put) \in Nat /\ Len(sent) \in Nat /\ accepted \in Nat
      /\ put \in Seq(OutByte)
  BY LenProperties DEF TypeOK
<1>1. CASE UNCHANGED <<put, sent, accepted>>
  BY <1>1 DEF OutputIntact, FirstOf, CountOn
<1>2. CASE Writes /\ put' = put \o <<NextByte>> /\ UNCHANGED sent
  <2>1. \A i : FirstOf(i)' = FirstOf(i)
    BY <1>2 DEF FirstOf
  <2>2. NextByte \in OutByte /\ NextByte.n = accepted + 1
    BY <1>0, <1>2 DEF NextByte, OutByte, TypeOK, Writes
  <2>3. <<NextByte>> \in Seq(OutByte) /\ Len(<<NextByte>>) = 1
        /\ <<NextByte>>[1] = NextByte
    BY <2>2
  <2>4. /\ Len(put') = Len(put) + 1
        /\ \A k \in 1 .. Len(put) : put'[k] = put[k]
        /\ put'[Len(put) + 1] = NextByte
    BY <1>0, <1>2, <2>3, ConcatProperties
  <2>5. CountOn(put, FirstOf(Len(sent) + 1))
        /\ accepted + 1 = FirstOf(Len(sent) + 1) + (Len(put) + 1) - 1
    BY <1>0, FirstIsNat DEF OutputIntact
  <2>6. ASSUME NEW k \in 1 .. Len(put')
        PROVE  put'[k].n = FirstOf(Len(sent) + 1) + k - 1
    <3>1. CASE k \in 1 .. Len(put)
      BY <2>4, <2>5, <3>1 DEF CountOn
    <3>2. CASE k = Len(put) + 1
      BY <2>2, <2>4, <2>5, <3>2
    <3> QED
      BY <1>0, <2>4, <3>1, <3>2
  <2>7. CountOn(put, FirstOf(Len(sent) + 1))'
    BY <1>2, <2>1, <2>6 DEF CountOn
  <2>8. accepted' = (FirstOf(Len(sent) + 1) + Len(put) - 1)'
    BY <1>2, <2>1, <2>4, <2>5 DEF Writes
  <2>9. \A i \in 1 .. Len(sent') :
          sent'[i].bytes # <<>> /\ CountOn(sent[i].bytes, FirstOf(i))'
    BY <1>2, <2>1 DEF OutputIntact, CountOn
  <2> QED
    BY <2>7, <2>8, <2>9 DEF OutputIntact
<1>3. CASE /\ put # <<>>
           /\ sent' = Append(sent, [to |-> outPeer, bytes |-> put])
           /\ \/ UNCHANGED accepted /\ put' = <<>>
              \/ Writes /\ put' = <<NextByte>>
  <2>1. /\ Len(sent') = Len(sent) + 1
        /\ sent'[Len(sent')].bytes = put
        /\ \A i \in 1 .. Len(sent) : sent'[i] = sent[i]
        /\ \A i \in 1 .. Len(sent') : FirstOf(i)' = FirstOf(i)
        /\ FirstOf(Len(sent) + 1)' = accepted + 1
    BY <1>3, AppendedFirst
  <2>2. ASSUME NEW i \in 1 .. Len(sent')
        PROVE  sent'[i].bytes # <<>> /\ CountOn(sent[i].bytes, FirstOf(i))'
    <3>1. CASE i \in 1 .. Len(sent)
      BY <2>1, <3>1 DEF OutputIntact, CountOn
    <3>2. CASE i = Len(sent')
      BY <1>3, <2>1, <3>2 DEF OutputIntact, CountOn
    <3> QED
      BY <1>0, <2>1, <3>1, <3>2
  <2>3. CASE UNCHANGED accepted /\ put' = <<>>
    <3>1. Len(put') = 0
      BY <2>3
    <3>2. CountOn(put, FirstOf(Len(sent) + 1))'
      BY <3>1 DEF CountOn
    <3>3. accepted' = (FirstOf(Len(sent) + 1) + Len(put) - 1)'
      BY <1>0, <2>1, <2>3, <3>1
    <3> QED
      BY <2>2, <3>2, <3>3 DEF OutputIntact
  <2>4. CASE Writes /\ put' = <<NextByte>>
    <3>1. Len(put') = 1 /\ put'[1].n = accepted + 1
      BY <2>4 DEF NextByte
    <3>2. CountOn(put, FirstOf(Len(sent) + 1))'
      <4>1. \A k \in 1 .. Len(put') : put'[k].n = accepted + 1 + k - 1
        BY <1>0, <3>1
      <4> QED
        BY <2>1, <4>1 DEF CountOn
    <3>3. accepted' = (FirstOf(Len(sent) + 1) + Len(put) - 1)'
      BY <1>0, <2>1, <2>4, <3>1 DEF Writes
    <3> QED
      BY <2>2, <3>2, <3>3 DEF OutputIntact
  <2> QED
    BY <1>3, <2>3, <2>4
<1> QED
  BY <1>1, <1>2, <1>3 DEF OutShape

(* The datagrams that leave hold every byte the program has written, once  *)
(* and in order, and none of them is empty (skstream.cpp:407-469).         *)
THEOREM IntactTheorem == Spec => []OutputIntact
<1>1. Init => OutputIntact
  BY DEF Init, OutputIntact, FirstOf, CountOn
<1>2. TypeOK /\ TypeOK' /\ OutputIntact /\ [Next]_vars => OutputIntact'
  BY Shapes, IntactStep
<1> QED
  BY <1>1, <1>2, TypeTheorem, PTL DEF Spec
-----------------------------------------------------------------------------
(* What the program has been told is so: after a flush the put area is     *)
(* empty unless the stream is bad, and once fail() and timeout() have both *)
(* said no it is empty.                                                    *)
ToldIsSo ==
  /\ told = "clean" => put = <<>>
  /\ told = "flushed" => put = <<>> \/ "bad" \in ios

LEMMA ToldStep ==
  ASSUME TypeOK, ToldIsSo, [Next]_vars
  PROVE  ToldIsSo'
<1>1. CASE PutByte
  BY <1>1 DEF PutByte, ToldIsSo
<1>2. CASE Flush
  <2>1. told' = "flushed"
    BY <1>2 DEF Flush
  <2>2. put' = <<>> \/ "bad" \in ios'
    BY <1>2 DEF Flush, OverflowNothing, OverflowSends, AfterSend
  <2> QED
    BY <2>1, <2>2 DEF ToldIsSo
<1>3. CASE Fail
  <2>1. told = "flushed" /\ Good => put = <<>>
    BY DEF ToldIsSo, Good
  <2>2. told' = "clean" => told = "clean" \/ (told = "flushed" /\ Good)
    BY <1>3 DEF Fail
  <2>3. told' # "flushed" /\ UNCHANGED put
    BY <1>3 DEF Fail
  <2> QED
    BY <2>1, <2>2, <2>3 DEF ToldIsSo
<1>4. CASE Clear
  BY <1>4 DEF Clear, ToldIsSo
<1>5. CASE GetByte
  <2>1. UNCHANGED <<put, told>> /\ Good
    BY <1>5 DEF GetByte, outVars, history
  <2> QED
    BY <2>1 DEF ToldIsSo, Good
<1>6. CASE Destroy
  <2>1. put' = put \/ put' = <<>>
    BY <1>6 DEF Destroy, OverflowNothing, OverflowSends, OverflowFails, AfterSend
  <2>2. UNCHANGED <<told, ios>>
    BY <1>6 DEF Destroy, history
  <2> QED
    BY <2>1, <2>2 DEF ToldIsSo
<1>7. CASE UNCHANGED <<put, told, ios>>
  BY <1>7 DEF ToldIsSo
<1> QED
  BY <1>1, <1>2, <1>3, <1>4, <1>5, <1>6, <1>7 DEF Next, vars, outVars, history,
     stateVars, SetTimeout, Close, SetTarget, SetOutpeer, Opens, Arrives

(* While the program has always made sure before it changed the peer, what *)
(* the put area holds is for the peer that is set.                         *)
PutForPeer ==
  ~blindly => \A k \in 1 .. Len(put) : put[k].to = outPeer

LEMMA TargetStep ==
  ASSUME TypeOK, ToldIsSo, PutForPeer, ReachesItsTarget, OutShape
  PROVE  PutForPeer' /\ ReachesItsTarget'
<1>0. /\ Len(put) \in Nat /\ Len(sent) \in Nat
      /\ put \in Seq(OutByte) /\ sent \in Seq(SentDatagram)
  BY LenProperties DEF TypeOK, SentDatagram
<1>1. CASE UNCHANGED <<put, sent, accepted>> /\ RetargetShape
  <2>1. ReachesItsTarget'
    BY <1>1 DEF ReachesItsTarget, RetargetShape
  <2>2. CASE put = <<>>
    <3>1. Len(put') = 0
      BY <1>1, <2>2
    <3> QED
      BY <2>1, <3>1 DEF PutForPeer
  <2>3. CASE put # <<>>
    BY <1>1, <2>1, <2>3 DEF PutForPeer, RetargetShape, ToldIsSo
  <2> QED
    BY <2>2, <2>3
<1>2. CASE /\ Writes /\ put' = put \o <<NextByte>>
           /\ UNCHANGED <<sent, outPeer, blindly>>
  <2>1. /\ <<NextByte>> \in Seq(OutByte) /\ Len(<<NextByte>>) = 1
        /\ <<NextByte>>[1].to = outPeer
    BY <1>2 DEF NextByte, OutByte, TypeOK, Writes
  <2>2. /\ Len(put') = Len(put) + 1
        /\ \A k \in 1 .. Len(put) : put'[k] = put[k]
        /\ put'[Len(put) + 1] = <<NextByte>>[1]
    BY <1>0, <1>2, <2>1, ConcatProperties
  <2>3. ASSUME ~blindly, NEW k \in 1 .. Len(put')
        PROVE  put'[k].to = outPeer
    <3>1. CASE k \in 1 .. Len(put)
      BY <2>2, <2>3, <3>1 DEF PutForPeer
    <3>2. CASE k = Len(put) + 1
      BY <2>1, <2>2, <3>2
    <3> QED
      BY <1>0, <2>2, <3>1, <3>2
  <2> QED
    BY <1>2, <2>3 DEF PutForPeer, ReachesItsTarget
<1>3. CASE /\ put # <<>>
           /\ sent' = Append(sent, [to |-> outPeer, bytes |-> put])
           /\ put' = <<>> \/ (Writes /\ put' = <<NextByte>>)
           /\ UNCHANGED <<outPeer, blindly>>
  <2> DEFINE d == [to |-> outPeer, bytes |-> put]
  <2>1. d \in SentDatagram
    BY DEF TypeOK, SentDatagram
  <2>2. /\ Len(sent') = Len(sent) + 1
        /\ \A i \in 1 .. Len(sent) : sent'[i] = sent[i]
        /\ sent'[Len(sent) + 1] = d
    BY <1>0, <1>3, <2>1, AppendProperties
  <2>3. ASSUME ~blindly, NEW i \in 1 .. Len(sent')
        PROVE  \A k \in 1 .. Len(sent'[i].bytes) : sent'[i].bytes[k].to = sent'[i].to
    <3>1. CASE i \in 1 .. Len(sent)
      BY <2>2, <2>3, <3>1 DEF ReachesItsTarget
    <3>2. CASE i = Len(sent) + 1
      BY <2>2, <2>3, <3>2 DEF PutForPeer
    <3> QED
      BY <1>0, <2>2, <3>1, <3>2
  <2>4. PutForPeer'
    BY <1>3 DEF PutForPeer, NextByte
  <2> QED
    BY <1>3, <2>3, <2>4 DEF ReachesItsTarget
<1> QED
  BY <1>1, <1>2, <1>3 DEF OutShape

(* A byte goes to the peer that was set when it was written if, before     *)
(* each change of the peer, the program has flushed and found that fail()  *)
(* and timeout() both say no (skstream.h:190, skstream.cpp:370-469,        *)
(* 569-579).                                                               *)
THEOREM TargetTheorem == Spec => []ReachesItsTarget
<1>1. Init => ToldIsSo /\ PutForPeer /\ ReachesItsTarget
  <2> SUFFICES ASSUME Init PROVE ToldIsSo /\ PutForPeer /\ ReachesItsTarget
    OBVIOUS
  <2>1. put = <<>> /\ sent = <<>> /\ Len(put) = 0 /\ Len(sent) = 0
    BY EmptySeq DEF Init
  <2> QED
    BY <2>1 DEF ToldIsSo, PutForPeer, ReachesItsTarget
<1>2. TypeOK /\ ToldIsSo /\ PutForPeer /\ ReachesItsTarget /\ [Next]_vars
        => ToldIsSo' /\ PutForPeer' /\ ReachesItsTarget'
  BY Shapes, ToldStep, TargetStep
<1> QED
  BY <1>1, <1>2, TypeTheorem, PTL DEF Spec
-----------------------------------------------------------------------------
(***************************************************************************)
(* Input.                                                                  *)
(***************************************************************************)
LEMMA TailIndices ==
  ASSUME NEW S, NEW q \in Seq(S), q # <<>>
  PROVE  /\ Len(q) \in Nat \ {0} /\ Len(Tail(q)) = Len(q) - 1
         /\ \A i \in 1 .. Len(Tail(q)) : Tail(q)[i] = q[i + 1]
<1>1. Len(q) \in Nat \ {0}
  BY EmptySeq, LenProperties
<1> QED
  BY <1>1, HeadTailProperties

LEMMA UnreadStep ==
  ASSUME TypeOK, UnreadComesFromInpeer, InShape
  PROVE  UnreadComesFromInpeer'
<1>0. get \in Seq(InByte) /\ Len(get) \in Nat /\ rcvq \in Seq(Datagram)
  BY LenProperties DEF TypeOK, InByte
<1>1. CASE UNCHANGED <<get, inPeer, last>>
  BY <1>1 DEF UnreadComesFromInpeer
<1>2. CASE get # <<>> /\ get' = Tail(get) /\ UNCHANGED <<inPeer, last>>
  <2> DEFINE n == Shorter(last.length, GetCap)
  <2>1. n \in Int
    BY DEF TypeOK, Datagram, NoDatagram, Shorter
  <2>2. /\ Len(get) \in Nat \ {0} /\ Len(get') = Len(get) - 1
        /\ \A i \in 1 .. Len(get') : get'[i] = get[i + 1]
    BY <1>0, <1>2, TailIndices
  <2> HIDE DEF n
  <2>3. ASSUME NEW i \in 1 .. Len(get')
        PROVE  get'[i] = [id |-> last.id, at |-> n - Len(get') + i]
    <3>1. i + 1 \in 1 .. Len(get) /\ n - Len(get) + (i + 1) = n - Len(get') + i
      BY <2>1, <2>2
    <3>2. get[i + 1] = [id |-> last.id, at |-> n - Len(get) + (i + 1)]
      BY <3>1 DEF UnreadComesFromInpeer, n
    <3> QED
      BY <2>2, <3>1, <3>2
  <2> QED
    BY <1>2, <2>3 DEF UnreadComesFromInpeer, n
<1>3. CASE /\ get = <<>> /\ rcvq # <<>>
           /\ last' = Head(rcvq) /\ inPeer' = last'.from
           /\ \/ last'.length > 0 /\ get' = Tail(Received(last'))
              \/ get' = get
  <2>1. last' \in Datagram
    BY <1>0, <1>3, HeadTailProperties
  <2>2. CASE get' = get
    <3>1. Len(get') = 0
      BY <1>3, <2>2
    <3> QED
      BY <1>3, <3>1 DEF UnreadComesFromInpeer
  <2>3. CASE last'.length > 0 /\ get' = Tail(Received(last'))
    <3> DEFINE n == Shorter(last'.length, GetCap)
               r == Received(last')
    <3>1. /\ n \in 1 .. GetCap /\ r \in Seq(InByte) /\ Len(r) = n
          /\ \A i \in 1 .. Len(r) : r[i] = [id |-> last'.id, at |-> i]
      BY <2>1, <2>3, ReceivedTypes
    <3> HIDE DEF n, r
    <3>2. r # <<>>
      BY <3>1, EmptySeq
    <3>3. /\ Len(get') = n - 1
          /\ \A i \in 1 .. Len(get') : get'[i] = r[i + 1]
      BY <2>3, <3>1, <3>2, TailIndices DEF r
    <3>4. ASSUME NEW i \in 1 .. Len(get')
          PROVE  get'[i] = [id |-> last'.id, at |-> n - Len(get') + i]
      <4>1. i + 1 \in 1 .. Len(r) /\ n - Len(get') + i = i + 1
        BY <3>1, <3>3
      <4> QED
        BY <3>1, <3>3, <4>1
    <3> QED
      BY <1>3, <3>4 DEF UnreadComesFromInpeer, n
  <2> QED
    BY <1>3, <2>2, <2>3
<1> QED
  BY <1>1, <1>2, <1>3 DEF InShape

(* What is left to read comes from the datagram that was received last, in *)
(* order, and getInpeer() names its sender (skstream.h:192,                *)
(* skstream.cpp:472-522).                                                  *)
THEOREM InpeerTheorem == Spec => []UnreadComesFromInpeer
<1>1. Init => UnreadComesFromInpeer
  BY DEF Init, UnreadComesFromInpeer, NoDatagram
<1>2. TypeOK /\ UnreadComesFromInpeer /\ [Next]_vars => UnreadComesFromInpeer'
  BY Shapes, UnreadStep
<1> QED
  BY <1>1, <1>2, TypeTheorem, PTL DEF Spec
=============================================================================
