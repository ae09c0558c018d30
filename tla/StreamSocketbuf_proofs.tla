----------------------- MODULE StreamSocketbuf_proofs -----------------------
(***************************************************************************)
(* Theorems about StreamSocketbuf, for every size of the two areas and     *)
(* every number of bytes.  Each channel is one sequence that a step moves  *)
(* a boundary in, or appends to: the algebra of \o and SubSeq is stated    *)
(* first, and the steps only cite it.  The last part is about SkRelay, the *)
(* program that uses the stream; no theorem before it is.                  *)
(***************************************************************************)
EXTENDS SkRelay, SequenceTheorems, TLAPS

LEMMA InBytesAssociative ==
  \A a, b, c \in Seq(1 .. MaxIn) : (a \o b) \o c = a \o (b \o c)
<1>1. ASSUME NEW S, NEW a \in Seq(S), NEW b \in Seq(S), NEW c \in Seq(S)
      PROVE  (a \o b) \o c = a \o (b \o c)
  BY ConcatAssociative
<1> QED
  BY <1>1

LEMMA Split ==
  ASSUME NEW S, NEW q \in Seq(S), NEW n \in 0 .. Len(q)
  PROVE  /\ SubSeq(q, 1, n) \in Seq(S) /\ Len(SubSeq(q, 1, n)) = n
         /\ Suffix(q, n) \in Seq(S) /\ Len(Suffix(q, n)) = Len(q) - n
         /\ SubSeq(q, 1, n) \o Suffix(q, n) = q
<1>1. \A i \in 1 .. Len(q) : q[i] \in S
  BY ElementOfSeq
<1>2. SubSeq(q, 1, n) \in Seq(S) /\ Len(SubSeq(q, 1, n)) = n
  BY <1>1, SubSeqProperties, LenProperties
<1>3. Suffix(q, n) \in Seq(S) /\ Len(Suffix(q, n)) = Len(q) - n
  BY <1>1, SubSeqProperties, LenProperties DEF Suffix
<1>4. SubSeq(q, 1, n) \o Suffix(q, n) = SubSeq(q, 1, Len(q))
  <2>1. /\ 1 \in 1 .. Len(q) + 1
        /\ n \in 1 - 1 .. Len(q)
        /\ Len(q) \in n .. Len(q)
    BY LenProperties
  <2> QED
    BY <2>1, ConcatAdjacentSubSeq, Zenon DEF Suffix
<1> QED
  BY <1>2, <1>3, <1>4, SubSeqFull

(* Moving the first n of q from the front of q to the back of p.           *)
LEMMA Shift ==
  ASSUME NEW S, NEW p \in Seq(S), NEW q \in Seq(S), NEW n \in 0 .. Len(q)
  PROVE  (p \o SubSeq(q, 1, n)) \o Suffix(q, n) = p \o q
<1>1. \A a, b \in Seq(S) : (p \o a) \o b = p \o (a \o b)
  BY ConcatAssociative
<1>2. /\ SubSeq(q, 1, n) \in Seq(S) /\ Suffix(q, n) \in Seq(S)
      /\ SubSeq(q, 1, n) \o Suffix(q, n) = q
  BY Split
<1>3. (p \o SubSeq(q, 1, n)) \o Suffix(q, n) = p \o (SubSeq(q, 1, n) \o Suffix(q, n))
  BY <1>1, <1>2
<1> QED
  BY <1>2, <1>3

(* A byte taken from the front of q and put at the back of p.              *)
LEMMA TakeHead ==
  ASSUME NEW S, NEW p \in Seq(S), NEW q \in Seq(S), q # <<>>
  PROVE  Append(p, Head(q)) \o Tail(q) = p \o q
<1>1. Head(q) \in S /\ Tail(q) \in Seq(S)
  BY HeadTailProperties
<1>2. <<Head(q)>> \in Seq(S)
  BY <1>1
<1>3. q = <<Head(q)>> \o Tail(q)
  <2>1. Len(q) \in Nat \ {0}
    BY EmptySeq
  <2>2. 1 \in 1 .. Len(q) /\ Len(q) \in 1 .. Len(q)
    BY <2>1
  <2>3. SubSeq(q, 1, Len(q)) = <<q[1]>> \o SubSeq(q, 1 + 1, Len(q))
    BY <2>2, SubSeqRecursiveFirst, Zenon
  <2>4. SubSeq(q, 1 + 1, Len(q)) = Tail(q)
    BY TailIsSubSeq
  <2>5. SubSeq(q, 1, Len(q)) = q
    BY SubSeqFull
  <2>6. q[1] = Head(q)
    OBVIOUS
  <2> QED
    BY <2>3, <2>4, <2>5, <2>6
<1>4. Append(p, Head(q)) = p \o <<Head(q)>>
  BY <1>1, AppendIsConcat
<1>5. (p \o <<Head(q)>>) \o Tail(q) = p \o (<<Head(q)>> \o Tail(q))
  BY <1>1, <1>2, ConcatAssociative
<1> QED
  BY <1>3, <1>4, <1>5

LEMMA NumbersAppend ==
  ASSUME NEW n \in Nat
  PROVE  /\ Numbers(n) \in Seq(Nat) /\ Len(Numbers(n)) = n
         /\ Numbers(n) \o <<n + 1>> = Numbers(n + 1)
<1>1. \A k \in Nat : Numbers(k) \in Seq(Nat) /\ Len(Numbers(k)) = k
  BY DEF Numbers
<1>2. Len(Numbers(n) \o <<n + 1>>) = n + 1
  BY <1>1, ConcatProperties
<1>3. \A i \in 1 .. n + 1 : (Numbers(n) \o <<n + 1>>)[i] = i
  BY <1>1, ConcatProperties DEF Numbers
<1>4. Numbers(n) \o <<n + 1>> \in Seq(Nat)
  BY <1>1, ConcatProperties
<1>5. /\ Numbers(n + 1) \in Seq(Nat) /\ Len(Numbers(n + 1)) = n + 1
      /\ \A i \in 1 .. n + 1 : Numbers(n + 1)[i] = i
  BY <1>1 DEF Numbers
<1>6. Numbers(n) \o <<n + 1>> = Numbers(n + 1)
  <2> DEFINE a == Numbers(n) \o <<n + 1>>
             b == Numbers(n + 1)
  <2>1. a \in Seq(Nat) /\ b \in Seq(Nat) /\ Len(a) = Len(b)
    BY <1>2, <1>4, <1>5
  <2>2. \A i \in 1 .. Len(a) : a[i] = b[i]
    BY <1>2, <1>3, <1>5
  <2> HIDE DEF a, b
  <2>3. a = b
    BY <2>1, <2>2, SeqEqual, Zenon
  <2> QED
    BY <2>3 DEF a, b
<1> QED
  BY <1>1, <1>6
-----------------------------------------------------------------------------
(***************************************************************************)
(* Types.                                                                  *)
(***************************************************************************)
USE StreambufAssumption

LEMMA SendTypes ==
  ASSUME TypeOK, NEW nCh \in Seq(1 .. MaxOut), Len(nCh) <= 1,
         OverflowSends(nCh)
  PROVE  /\ wire' \in Seq(1 .. MaxOut)
         /\ put' \in Seq(1 .. MaxOut) /\ Len(put') <= PutCap
         /\ Timeout' \in BOOLEAN /\ cause' = "none"
<1>1. put # <<>> /\ put \in Seq(1 .. MaxOut) /\ wire \in Seq(1 .. MaxOut)
  BY DEF TypeOK, OverflowSends
<1>2. PICK size \in 1 .. Len(put) : Sends(nCh, size)
  BY <1>1, LenProperties, EmptySeq DEF OverflowSends, SendSizes
<1>3. /\ SubSeq(put, 1, size) \in Seq(1 .. MaxOut)
      /\ Suffix(put, size) \in Seq(1 .. MaxOut)
      /\ Len(Suffix(put, size)) = Len(put) - size
  BY <1>1, Split
<1>4. wire' \in Seq(1 .. MaxOut)
  BY <1>1, <1>2, <1>3, ConcatProperties DEF Sends
<1>5. /\ put' = nCh \o Suffix(put, size)
      /\ put' \in Seq(1 .. MaxOut)
      /\ Len(put') = Len(nCh) + Len(put) - size
  BY <1>2, <1>3, ConcatProperties DEF Sends, AfterSend
<1>6. Len(put') <= PutCap
  BY <1>1, <1>5, LenProperties DEF TypeOK
<1> QED
  BY <1>4, <1>5, <1>6 DEF OverflowSends

LEMMA ReceiveTypes ==
  ASSUME TypeOK, NEW area \in Arrived, Receives(area)
  PROVE  /\ area \in Seq(1 .. MaxIn) /\ Len(area) \in 1 .. GetCap
         /\ Head(area) \in 1 .. MaxIn /\ Tail(area) \in Seq(1 .. MaxIn)
         /\ Len(Tail(area)) <= GetCap
         /\ rcvq' \in Seq(1 .. MaxIn)
         /\ Timeout' \in BOOLEAN /\ cause' = "none"
         /\ area \o rcvq' = rcvq
<1>1. PICK n \in 1 .. Len(rcvq) : area = SubSeq(rcvq, 1, n)
  BY DEF Arrived
<1>a. rcvq \in Seq(1 .. MaxIn) /\ get = <<>>
  BY DEF TypeOK, Receives
<1>b. n \in 0 .. Len(rcvq) /\ n \in Nat
  BY <1>a, LenProperties
<1>2. /\ area \in Seq(1 .. MaxIn) /\ Len(area) = n
      /\ Suffix(rcvq, n) \in Seq(1 .. MaxIn)
      /\ area \o Suffix(rcvq, n) = rcvq
  BY <1>a, <1>b, <1>1, Split, Zenon
<1>3. rcvq' = Suffix(rcvq, n)
  BY <1>2 DEF Receives
<1>4. Len(area) \in 1 .. GetCap /\ area # <<>>
  BY <1>2 DEF Receives
<1>5. /\ Head(area) \in 1 .. MaxIn /\ Tail(area) \in Seq(1 .. MaxIn)
      /\ Len(Tail(area)) = Len(area) - 1
  BY <1>2, <1>4, HeadTailProperties
<1>6. Timeout' \in BOOLEAN /\ cause' = "none"
  BY DEF Receives
<1>7. Len(Tail(area)) <= GetCap
  BY <1>b, <1>2, <1>4, <1>5
<1> QED
  BY <1>2, <1>3, <1>4, <1>5, <1>6, <1>7

LEMMA TypeStep ==
  ASSUME TypeOK, [Next]_vars
  PROVE  TypeOK'
<1>1. CASE PutByte
  <2>1. /\ <<accepted + 1>> \in Seq(1 .. MaxOut)
        /\ Len(<<accepted + 1>>) = 1 /\ Len(<<accepted + 1>>) <= 1
    BY <1>1 DEF PutByte, TypeOK
  <2>2. accepted + 1 \in 0 .. MaxOut
    BY <1>1 DEF PutByte, TypeOK
  <2>0. UNCHANGED <<valid, config, inVars>>
    BY <1>1 DEF PutByte, TypeOK
  <2>3. CASE /\ Len(put) < PutCap
             /\ put' = put \o <<accepted + 1>>
             /\ accepted' = accepted + 1
             /\ UNCHANGED <<wire, Timeout, cause, ios>>
    <3>1. /\ put' \in Seq(1 .. MaxOut)
          /\ Len(put') = Len(put) + 1
      BY <2>1, <2>3, ConcatProperties DEF TypeOK
    <3>2. Len(put') <= PutCap
      BY <2>3, <3>1, LenProperties DEF TypeOK
    <3> QED
      BY <2>0, <2>2, <2>3, <3>1, <3>2 DEF config, inVars, TypeOK
  <2>4. CASE /\ OverflowSends(<<accepted + 1>>)
             /\ accepted' = accepted + 1
             /\ UNCHANGED ios
    <3>1. /\ wire' \in Seq(1 .. MaxOut)
          /\ put' \in Seq(1 .. MaxOut) /\ Len(put') <= PutCap
          /\ Timeout' \in BOOLEAN /\ cause' = "none"
      BY <2>1, <2>4, SendTypes, Zenon
    <3> QED
      BY <2>0, <2>2, <2>4, <3>1 DEF config, inVars, TypeOK
  <2>5. CASE OverflowFails /\ ios' = ios \cup {"bad"} /\ UNCHANGED accepted
    BY <2>0, <2>5 DEF OverflowFails, TransferFails, config, inVars, IoState, TypeOK
  <2> QED
    BY <1>1, <2>3, <2>4, <2>5 DEF PutByte, TypeOK
<1>2. CASE Flush
  <2>1. CASE OverflowNothing /\ UNCHANGED ios
    BY <1>2, <2>1 DEF Flush, OverflowNothing, config, inVars, TypeOK
  <2>2. CASE OverflowSends(Eof) /\ UNCHANGED ios
    <3>1. Eof \in Seq(1 .. MaxOut) /\ Len(Eof) <= 1
      BY DEF Eof
    <3>2. /\ wire' \in Seq(1 .. MaxOut)
          /\ put' \in Seq(1 .. MaxOut) /\ Len(put') <= PutCap
          /\ Timeout' \in BOOLEAN /\ cause' = "none"
      BY <2>2, <3>1, SendTypes
    <3> QED
      BY <1>2, <2>2, <3>2 DEF Flush, config, inVars, TypeOK
  <2>3. CASE OverflowFails /\ ios' = ios \cup {"bad"}
    BY <1>2, <2>3 DEF OverflowFails, TransferFails, Flush, config, inVars, IoState, TypeOK
  <2> QED
    BY <1>2, <2>1, <2>2, <2>3 DEF Flush, TypeOK
<1>3. CASE GetByte
  <2>1. CASE get # <<>> /\ taken' = Append(taken, Head(get)) /\ get' = Tail(get)
             /\ UNCHANGED <<rcvq, Timeout, cause, ios>>
    <3>1. /\ Head(get) \in 1 .. MaxIn /\ Tail(get) \in Seq(1 .. MaxIn)
          /\ Len(Tail(get)) = Len(get) - 1
      BY <2>1, HeadTailProperties DEF TypeOK
    <3>2. Len(Tail(get)) <= GetCap
      BY <3>1, LenProperties DEF TypeOK
    <3>3. taken' \in Seq(1 .. MaxIn)
      BY <2>1, <3>1, AppendProperties DEF TypeOK
    <3>4. UNCHANGED <<valid, config, outVars, peerSent, peerClosed>>
      BY <1>3 DEF GetByte, TypeOK
    <3> QED
      BY <2>1, <3>1, <3>2, <3>3, <3>4 DEF config, outVars, TypeOK
  <2>2. ASSUME NEW area \in Arrived, Receives(area),
               taken' = Append(taken, Head(area)), get' = Tail(area),
               UNCHANGED ios
        PROVE  TypeOK'
    <3>1. /\ Head(area) \in 1 .. MaxIn /\ Tail(area) \in Seq(1 .. MaxIn)
          /\ Len(Tail(area)) <= GetCap
          /\ rcvq' \in Seq(1 .. MaxIn)
          /\ Timeout' \in BOOLEAN /\ cause' = "none"
      BY <2>2, ReceiveTypes
    <3>2. taken \in Seq(1 .. MaxIn)
      BY DEF TypeOK
    <3>3. taken' \in Seq(1 .. MaxIn)
      BY <2>2, <3>1, <3>2, AppendProperties
    <3>4. UNCHANGED <<valid, config, outVars, peerSent, peerClosed>>
      BY <1>3 DEF GetByte
    <3> QED
      BY <2>2, <3>1, <3>3, <3>4 DEF config, outVars, TypeOK
  <2>3. CASE UnderflowFails /\ ios' = ios \cup {"eof", "fail"}
             /\ UNCHANGED <<get, taken, rcvq>>
    BY <1>3, <2>3 DEF UnderflowFails, TransferFails, GetByte, config, outVars, IoState, TypeOK
  <2> QED
    BY <1>3, <2>1, <2>2, <2>3 DEF GetByte, TypeOK
<1>4. CASE PeekByte
  <2>1. ASSUME NEW area \in Arrived, Receives(area), get' = area, UNCHANGED ios
        PROVE  TypeOK'
    <3>1. /\ area \in Seq(1 .. MaxIn) /\ Len(area) <= GetCap
          /\ rcvq' \in Seq(1 .. MaxIn)
          /\ Timeout' \in BOOLEAN /\ cause' = "none"
      BY <2>1, ReceiveTypes
    <3> QED
      BY <1>4, <2>1, <3>1 DEF PeekByte, config, outVars, TypeOK
  <2>2. CASE UnderflowFails /\ ios' = ios \cup {"eof"} /\ UNCHANGED <<get, rcvq>>
    BY <1>4, <2>2 DEF UnderflowFails, TransferFails, PeekByte, config, outVars, IoState, TypeOK
  <2> QED
    BY <1>4, <2>1, <2>2 DEF PeekByte, TypeOK
<1>5. CASE Fail \/ Clear \/ Close
  BY <1>5 DEF Fail, Clear, Close, config, outVars, inVars, IoState, TypeOK
<1>6. CASE SetWriteTimeout \/ SetReadTimeout
  BY <1>6 DEF SetWriteTimeout, SetReadTimeout, outVars, inVars, TypeOK
<1>7. CASE PeerSends
  <2>1. peerSent + 1 \in 1 .. MaxIn
    BY <1>7 DEF PeerSends, TypeOK
  <2>2. Append(rcvq, peerSent + 1) \in Seq(1 .. MaxIn)
    BY <2>1, AppendProperties DEF TypeOK
  <2> QED
    BY <1>7, <2>1, <2>2 DEF PeerSends, config, outVars, TypeOK
<1>8. CASE PeerCloses
  BY <1>8 DEF PeerCloses, config, outVars, TypeOK
<1>9. CASE UNCHANGED vars
  BY <1>9 DEF vars, TypeOK
<1> QED
  BY <1>1, <1>2, <1>3, <1>4, <1>5, <1>6, <1>7, <1>8, <1>9 DEF Next

LEMMA TypeInit ==
  ASSUME Init PROVE TypeOK
<1>1. \A S : <<>> \in Seq(S) /\ Len(<<>>) = 0
  BY EmptySeq
<1>2. /\ put \in Seq(1 .. MaxOut) /\ wire \in Seq(1 .. MaxOut)
      /\ get \in Seq(1 .. MaxIn) /\ rcvq \in Seq(1 .. MaxIn)
      /\ taken \in Seq(1 .. MaxIn)
      /\ Len(put) = 0 /\ Len(get) = 0
  BY <1>1 DEF Init
<1>3. Len(put) <= PutCap /\ Len(get) <= GetCap
  BY <1>2
<1>4. /\ valid \in BOOLEAN /\ Timeout \in BOOLEAN /\ peerClosed \in BOOLEAN
      /\ waitWrite \in BOOLEAN /\ waitRead \in BOOLEAN
      /\ ios \in IoState
      /\ cause \in {"none", "timeout", "error", "transfer", "eof"}
  BY Zenon DEF Init, IoState
<1>5. accepted \in 0 .. MaxOut /\ peerSent \in 0 .. MaxIn
  BY DEF Init
<1> QED
  BY <1>2, <1>3, <1>4, <1>5 DEF TypeOK

(* The areas never hold more than they have room for, and nothing but      *)
(* bytes that were written or sent.                                        *)
THEOREM TypeTheorem == Spec => []TypeOK
<1>1. Init => TypeOK
  BY TypeInit
<1>2. TypeOK /\ [Next]_vars => TypeOK'
  BY TypeStep
<1> QED
  BY <1>1, <1>2, PTL DEF Spec
-----------------------------------------------------------------------------
(***************************************************************************)
(* Input.                                                                  *)
(***************************************************************************)

(* The three places where an unread byte of the peer's can be.             *)
LEMMA InputStep ==
  ASSUME TypeOK, InputInOrder, [Next]_vars
  PROVE  InputInOrder'
<1> DEFINE S == 1 .. MaxIn
<1>0. taken \in Seq(S) /\ get \in Seq(S) /\ rcvq \in Seq(S)
  BY DEF TypeOK
<1>a. SUFFICES \/ /\ (taken \o get) \o rcvq = (taken' \o get') \o rcvq'
                  /\ UNCHANGED peerSent
               \/ /\ (taken' \o get') \o rcvq'
                       = ((taken \o get) \o rcvq) \o <<peerSent + 1>>
                  /\ peerSent' = peerSent + 1
  <2>1. peerSent \in Nat
    BY DEF TypeOK
  <2>2. Numbers(peerSent) \o <<peerSent + 1>> = Numbers(peerSent + 1)
    BY <2>1, NumbersAppend
  <2>3. CASE /\ (taken \o get) \o rcvq = (taken' \o get') \o rcvq'
             /\ UNCHANGED peerSent
    BY <2>3 DEF InputInOrder, Numbers
  <2>4. CASE /\ (taken' \o get') \o rcvq'
                  = ((taken \o get) \o rcvq) \o <<peerSent + 1>>
             /\ peerSent' = peerSent + 1
    <3>1. (taken' \o get') \o rcvq' = Numbers(peerSent) \o <<peerSent + 1>>
      BY <2>4, Zenon DEF InputInOrder
    <3>2. (taken' \o get') \o rcvq' = Numbers(peerSent')
      BY <2>2, <2>4, <3>1, Zenon
    <3> QED
      BY <3>2, Zenon DEF InputInOrder, Numbers
  <2> QED
    BY <1>a, <2>3, <2>4
<1>1. ASSUME NEW area \in Arrived, Receives(area)
      PROVE  /\ area \in Seq(S) /\ area # <<>>
             /\ (taken \o area) \o rcvq' = (taken \o get) \o rcvq
  <2>1. /\ area \in Seq(S) /\ rcvq' \in Seq(S)
        /\ area \o rcvq' = rcvq /\ Len(area) \in 1 .. GetCap
    BY <1>1, ReceiveTypes
  <2>2. (taken \o area) \o rcvq' = taken \o (area \o rcvq')
    <3>1. \A r \in Seq(S) : (taken \o area) \o r = taken \o (area \o r)
      BY <1>0, <2>1, InBytesAssociative
    <3> QED
      BY <2>1, <3>1
  <2>3. get = <<>> /\ taken \o <<>> = taken
    BY <1>0, <1>1, ConcatEmptySeq DEF Receives
  <2>4. area # <<>>
    BY <2>1, EmptySeq
  <2> QED
    BY <2>1, <2>2, <2>3, <2>4, Zenon
<1>2. CASE GetByte
  <2>0. UNCHANGED peerSent
    BY <1>2 DEF GetByte
  <2>1. CASE get # <<>> /\ taken' = Append(taken, Head(get)) /\ get' = Tail(get)
             /\ UNCHANGED <<rcvq, Timeout, cause, ios>>
    <3>1. Append(taken, Head(get)) \o Tail(get) = taken \o get
      BY <1>0, <2>1, TakeHead, Zenon
    <3> QED
      BY <2>0, <2>1, <3>1, Zenon
  <2>2. ASSUME NEW area \in Arrived, Receives(area),
               taken' = Append(taken, Head(area)), get' = Tail(area),
               UNCHANGED ios
        PROVE  (taken \o get) \o rcvq = (taken' \o get') \o rcvq'
    <3>1. /\ area \in Seq(S) /\ area # <<>>
          /\ (taken \o area) \o rcvq' = (taken \o get) \o rcvq
      BY <1>1, <2>2, Zenon
    <3>2. Append(taken, Head(area)) \o Tail(area) = taken \o area
      BY <1>0, <3>1, TakeHead, Zenon
    <3> QED
      BY <2>2, <3>1, <3>2, Zenon
  <2>3. CASE UnderflowFails /\ ios' = ios \cup {"eof", "fail"}
             /\ UNCHANGED <<get, taken, rcvq>>
    BY <2>0, <2>3, Zenon
  <2> QED
    BY <1>2, <2>0, <2>1, <2>2, <2>3 DEF GetByte
<1>3. CASE PeekByte
  <2>1. ASSUME NEW area \in Arrived, Receives(area), get' = area, UNCHANGED ios
        PROVE  (taken \o get) \o rcvq = (taken' \o get') \o rcvq'
    <3>1. taken' = taken
      BY <1>3 DEF PeekByte
    <3> QED
      BY <1>1, <2>1, <3>1, Zenon
  <2>2. CASE UnderflowFails /\ ios' = ios \cup {"eof"} /\ UNCHANGED <<get, rcvq>>
    BY <1>3, <2>2 DEF PeekByte
  <2> QED
    BY <1>3, <2>1, <2>2 DEF PeekByte
<1>4. CASE PeerSends
  <2>1. /\ peerSent + 1 \in S /\ peerSent' = peerSent + 1
        /\ rcvq' = Append(rcvq, peerSent + 1) /\ UNCHANGED <<taken, get>>
    BY <1>4 DEF PeerSends, TypeOK
  <2>2. Append(rcvq, peerSent + 1) = rcvq \o <<peerSent + 1>>
    BY <1>0, <2>1, AppendIsConcat
  <2>3. taken \o get \in Seq(S) /\ <<peerSent + 1>> \in Seq(S)
    BY <1>0, <2>1, ConcatProperties
  <2>4. ((taken \o get) \o rcvq) \o <<peerSent + 1>>
          = (taken \o get) \o (rcvq \o <<peerSent + 1>>)
    BY <1>0, <2>3, InBytesAssociative
  <2> QED
    BY <2>1, <2>2, <2>4, Zenon
<1>5. CASE PutByte \/ Flush \/ Fail \/ Clear \/ Close \/ SetWriteTimeout
           \/ SetReadTimeout \/ PeerCloses \/ UNCHANGED vars
  BY <1>5 DEF PutByte, Flush, Fail, Clear, Close, SetWriteTimeout,
              SetReadTimeout, PeerCloses, inVars, vars
<1> QED
  BY <1>2, <1>3, <1>4, <1>5 DEF Next

LEMMA NoNumbers == Numbers(0) = <<>>
<1>1. Numbers(0) \in Seq(Nat) /\ Len(Numbers(0)) = 0
  BY NumbersAppend
<1> QED
  BY <1>1, EmptySeq

LEMMA EmptyConcat == <<>> \o <<>> = <<>>
<1>1. <<>> \in Seq(Nat)
  BY EmptySeq
<1> QED
  BY <1>1, ConcatEmptySeq

(* The program reads what the peer sent, in order, whatever fails.         *)
THEOREM InputTheorem == Spec => []InputInOrder
<1>1. Init => InputInOrder
  BY NoNumbers, EmptyConcat DEF Init, InputInOrder
<1>2. TypeOK /\ InputInOrder /\ [Next]_vars => InputInOrder'
  BY InputStep
<1> QED
  BY <1>1, <1>2, TypeTheorem, PTL DEF Spec
-----------------------------------------------------------------------------
(***************************************************************************)
(* Output, when every ::send() takes all it is given.                      *)
(***************************************************************************)
LEMMA FullSend ==
  ASSUME TypeOK, ~PartialSends, NEW nCh \in Seq(1 .. MaxOut),
         OverflowSends(nCh)
  PROVE  wire' \o put' = (wire \o put) \o nCh /\ put' = nCh
<1> DEFINE S == 1 .. MaxOut
<1>1. put # <<>> /\ put \in Seq(S) /\ wire \in Seq(S)
  BY DEF TypeOK, OverflowSends
<1>2. Sends(nCh, Len(put))
  BY DEF OverflowSends, SendSizes
<1>3. SubSeq(put, 1, Len(put)) = put
  BY <1>1, SubSeqFull
<1>4. Suffix(put, Len(put)) = <<>>
  BY <1>1, SubSeqEmpty, LenProperties DEF Suffix
<1>5. wire' = wire \o put
  BY <1>2, <1>3 DEF Sends
<1>6. put' = nCh
  BY <1>2, <1>4, ConcatEmptySeq DEF Sends, AfterSend
<1> QED
  BY <1>5, <1>6, Zenon

LEMMA OutputStep ==
  ASSUME TypeOK, OutputInOrder, [Next]_vars
  PROVE  OutputInOrder'
<1> DEFINE S == 1 .. MaxOut
<1>0. wire \in Seq(S) /\ put \in Seq(S) /\ accepted \in Nat
  BY DEF TypeOK
<1>a. SUFFICES ASSUME ~PartialSends
               PROVE  \/ /\ wire' \o put' = wire \o put
                         /\ UNCHANGED accepted
                      \/ /\ wire' \o put' = (wire \o put) \o <<accepted + 1>>
                         /\ accepted' = accepted + 1
  <2>1. Numbers(accepted) \o <<accepted + 1>> = Numbers(accepted + 1)
    BY <1>0, NumbersAppend
  <2> QED
    BY <1>a, <2>1, Zenon DEF OutputInOrder, Numbers
<1>1. CASE PutByte
  <2>1. <<accepted + 1>> \in Seq(S)
    BY <1>0, <1>1 DEF PutByte
  <2>2. CASE put' = put \o <<accepted + 1>> /\ accepted' = accepted + 1
             /\ UNCHANGED wire
    <3>1. (wire \o put) \o <<accepted + 1>> = wire \o (put \o <<accepted + 1>>)
      BY <1>0, <2>1, ConcatAssociative
    <3> QED
      BY <2>2, <3>1, Zenon
  <2>3. CASE OverflowSends(<<accepted + 1>>) /\ accepted' = accepted + 1
    BY <1>a, <2>1, <2>3, FullSend, Zenon
  <2>4. CASE OverflowFails /\ UNCHANGED accepted
    BY <2>4 DEF OverflowFails
  <2> QED
    BY <1>1, <2>2, <2>3, <2>4 DEF PutByte
<1>2. CASE Flush
  <2>0. UNCHANGED accepted
    BY <1>2 DEF Flush
  <2>1. CASE OverflowNothing \/ OverflowFails
    BY <2>0, <2>1 DEF OverflowNothing, OverflowFails
  <2>2. CASE OverflowSends(Eof)
    <3>1. Eof \in Seq(S) /\ Eof = <<>>
      BY EmptySeq DEF Eof
    <3>2. wire' \o put' = (wire \o put) \o Eof
      BY <1>a, <2>2, <3>1, FullSend, Zenon
    <3>3. wire \o put \in Seq(S)
      BY <1>0, ConcatProperties
    <3>4. (wire \o put) \o <<>> = wire \o put
      BY <3>3, ConcatEmptySeq, Zenon
    <3> QED
      BY <2>0, <3>1, <3>2, <3>4, Zenon
  <2> QED
    BY <1>2, <2>1, <2>2 DEF Flush
<1>3. CASE GetByte \/ PeekByte \/ Fail \/ Clear \/ Close \/ SetWriteTimeout
           \/ SetReadTimeout \/ PeerSends \/ PeerCloses \/ UNCHANGED vars
  BY <1>3 DEF GetByte, PeekByte, Fail, Clear, Close, SetWriteTimeout,
              SetReadTimeout, PeerSends, PeerCloses, outVars, vars
<1> QED
  BY <1>1, <1>2, <1>3 DEF Next

(* What the kernel has and what the put area still holds are the bytes the *)
(* program wrote, in its order, when sends are never partial.              *)
THEOREM OutputTheorem == Spec => []OutputInOrder
<1>1. Init => OutputInOrder
  BY NoNumbers, EmptyConcat DEF Init, OutputInOrder
<1>2. TypeOK /\ OutputInOrder /\ [Next]_vars => OutputInOrder'
  BY OutputStep
<1> QED
  BY <1>1, <1>2, TypeTheorem, PTL DEF Spec

(* fail() never hides an end of file or an error of send() or recv().      *)
THEOREM FailTheorem == Spec => []FailHidesNoTransfer
<1>1. Init => FailHidesNoTransfer
  BY DEF Init, FailHidesNoTransfer
<1>2. FailHidesNoTransfer /\ [Next]_vars => FailHidesNoTransfer'
  <2> SUFFICES ASSUME FailHidesNoTransfer, [Next]_vars
               PROVE  FailHidesNoTransfer'
    OBVIOUS
  <2>1. CASE UNCHANGED <<Timeout, cause>>
    BY <2>1, Zenon DEF FailHidesNoTransfer
  <2>2. CASE Timeout' = FALSE \/ cause' \in {"none", "timeout", "error"}
    BY <2>2 DEF FailHidesNoTransfer
  <2>3. CASE PutByte \/ Flush
    BY <2>1, <2>2, <2>3, Zenon DEF PutByte, Flush, OverflowSends, OverflowFails,
       OverflowNothing, TransferFails
  <2>4. CASE GetByte \/ PeekByte
    BY <2>1, <2>2, <2>4, Zenon DEF GetByte, PeekByte, Receives, UnderflowFails,
       TransferFails
  <2>5. CASE Fail \/ Clear \/ Close \/ SetWriteTimeout
             \/ SetReadTimeout \/ PeerSends \/ PeerCloses \/ UNCHANGED vars
    BY <2>1, <2>5 DEF Fail, Clear, Close, SetWriteTimeout,
       SetReadTimeout, PeerSends, PeerCloses, vars
  <2> QED
    BY <2>3, <2>4, <2>5 DEF Next
<1> QED
  BY <1>1, <1>2, PTL DEF Spec
-----------------------------------------------------------------------------
(***************************************************************************)
(* Each direction implements ByteChannel.  A step moves a front part `a'   *)
(* of the queue to what has come out and leaves `b'.                       *)
(***************************************************************************)
LEMMA FrontOfConcat ==
  ASSUME NEW S, NEW a \in Seq(S), NEW b \in Seq(S)
  PROVE  /\ Len(a) \in 0 .. Len(a \o b)
         /\ SubSeq(a \o b, 1, Len(a)) = a
         /\ SubSeq(a \o b, Len(a) + 1, Len(a \o b)) = b
<1> DEFINE q == a \o b
<1>1. /\ q \in Seq(S) /\ Len(q) = Len(a) + Len(b)
      /\ \A i \in 1 .. Len(a) + Len(b) :
           q[i] = IF i <= Len(a) THEN a[i] ELSE b[i - Len(a)]
  BY ConcatProperties
<1>2. Len(a) \in Nat /\ Len(b) \in Nat
  BY LenProperties
<1>3. Len(a) \in 0 .. Len(q)
  BY <1>1, <1>2
<1>4. \A i \in 1 .. Len(q) : q[i] \in S
  BY <1>1, ElementOfSeq
<1> HIDE DEF q
<1>5. SubSeq(q, 1, Len(a)) = a
  <2> DEFINE f == SubSeq(q, 1, Len(a))
  <2>1. f \in Seq(S) /\ Len(f) = Len(a) /\ \A i \in 1 .. Len(a) : f[i] = q[i]
    BY <1>1, <1>2, <1>3, <1>4, SubSeqProperties
  <2> HIDE DEF f
  <2>2. ASSUME NEW i \in 1 .. Len(f)
        PROVE  f[i] = a[i]
    <3>1. i \in 1 .. Len(a) + Len(b) /\ i <= Len(a)
      BY <1>2, <2>1
    <3>2. q[i] = a[i]
      BY <1>1, <3>1
    <3> QED
      BY <2>1, <3>2
  <2>3. f = a
    BY <2>1, <2>2, SeqEqual
  <2> QED
    BY <2>3 DEF f
<1>6. SubSeq(q, Len(a) + 1, Len(q)) = b
  <2> DEFINE f == SubSeq(q, Len(a) + 1, Len(q))
  <2>1. /\ f \in Seq(S) /\ Len(f) = Len(b)
        /\ \A i \in 1 .. Len(b) : f[i] = q[Len(a) + 1 + i - 1]
    BY <1>1, <1>2, <1>3, <1>4, SubSeqProperties
  <2>2. \A i \in 1 .. Len(b) : /\ Len(a) + 1 + i - 1 = Len(a) + i
                               /\ Len(a) + i \in 1 .. Len(a) + Len(b)
                               /\ ~(Len(a) + i <= Len(a))
                               /\ Len(a) + i - Len(a) = i
    BY <1>2
  <2> HIDE DEF f
  <2>3. ASSUME NEW i \in 1 .. Len(b)
        PROVE  f[i] = b[i]
    <3>1. f[i] = q[Len(a) + i]
      BY <2>1, <2>2
    <3>2. q[Len(a) + i] = b[Len(a) + i - Len(a)]
      BY <1>1, <2>2
    <3> QED
      BY <2>2, <3>1, <3>2
  <2>4. f = b
    BY <2>1, <2>3, SeqEqual
  <2> QED
    BY <2>4 DEF f
<1> QED
  BY <1>3, <1>5, <1>6 DEF q

LEMMA OutputMoves ==
  ASSUME NEW a \in Seq(1 .. MaxOut), NEW b \in Seq(1 .. MaxOut), Len(b) <= PutCap,
         wire' = wire \o a, put' = b
  PROVE  Output!Move(a \o b)
<1>1. /\ Len(a) \in 0 .. Len(a \o b)
      /\ SubSeq(a \o b, 1, Len(a)) = a
      /\ SubSeq(a \o b, Len(a) + 1, Len(a \o b)) = b
  BY FrontOfConcat
<1> QED
  BY <1>1 DEF Output!Move

LEMMA OutputChannelStep ==
  ASSUME TypeOK, ~PartialSends, [Next]_vars
  PROVE  [Output!Next]_(Output!chan)
<1> DEFINE S == 1 .. MaxOut
           c == <<accepted + 1>>
<1>0. wire \in Seq(S) /\ put \in Seq(S) /\ <<>> \in Seq(S) /\ PutCap \in Nat
  BY EmptySeq DEF TypeOK
<1>1. CASE PutByte
  <2>1. c \in Seq(S) /\ Len(c) = 1
    BY <1>1 DEF PutByte, TypeOK
  <2> HIDE DEF c
  <2>2. ASSUME Len(put) < PutCap, put' = put \o c, accepted' = accepted + 1,
               UNCHANGED wire
        PROVE  Output!Next
    <3>0. put \o c \in Seq(S) /\ Len(put \o c) = Len(put) + Len(c)
      BY <1>0, <2>1, ConcatProperties
    <3>1. put \o c \in Seq(S) /\ Len(put \o c) <= PutCap
      BY <1>0, <2>1, <2>2, <3>0, LenProperties
    <3>2. wire' = wire \o <<>> /\ <<>> \o (put \o c) = put \o c
      BY <1>0, <2>2, <3>1, ConcatEmptySeq
    <3>3. Output!Move(<<>> \o (put \o c))
      BY <1>0, <2>2, <3>1, <3>2, OutputMoves
    <3> QED
      BY <2>2, <3>2, <3>3 DEF Output!Next, Output!Accept, c
  <2>3. ASSUME OverflowSends(c), accepted' = accepted + 1
        PROVE  Output!Next
    <3>1. wire' = wire \o put /\ put' = c
      <4>1. Sends(c, Len(put))
        BY <2>3 DEF OverflowSends, SendSizes
      <4>2. SubSeq(put, 1, Len(put)) = put
        BY <1>0, SubSeqFull
      <4> QED
        BY <2>1, <2>3, <4>1, <4>2, FullSend DEF Sends
    <3>2. Len(c) <= PutCap
      BY <2>1
    <3>3. Output!Move(put \o c)
      BY <1>0, <2>1, <3>1, <3>2, OutputMoves
    <3> QED
      BY <2>3, <3>3 DEF Output!Next, Output!Accept, c
  <2>4. ASSUME OverflowFails, UNCHANGED accepted
        PROVE  UNCHANGED Output!chan
    BY <2>4 DEF OverflowFails, Output!chan
  <2> QED
    BY <1>1, <2>2, <2>3, <2>4 DEF PutByte, c
<1>2. CASE Flush
  <2>0. UNCHANGED accepted
    BY <1>2 DEF Flush
  <2>1. CASE OverflowNothing \/ OverflowFails
    BY <2>0, <2>1 DEF OverflowNothing, OverflowFails, Output!chan
  <2>2. CASE OverflowSends(Eof)
    <3>1. wire' = wire \o put /\ put' = <<>>
      <4>1. Sends(Eof, Len(put))
        BY <2>2 DEF OverflowSends, SendSizes
      <4>2. SubSeq(put, 1, Len(put)) = put
        BY <1>0, SubSeqFull
      <4> QED
        BY <1>0, <2>2, <4>1, <4>2, FullSend DEF Sends, Eof
    <3>2. put \o <<>> = put
      BY <1>0, ConcatEmptySeq
    <3>3. Len(<<>>) <= PutCap
      BY <1>0
    <3>4. Output!Move(put \o <<>>)
      BY <1>0, <3>1, <3>3, OutputMoves
    <3> QED
      BY <2>0, <3>2, <3>4 DEF Output!Next
  <2> QED
    BY <1>2, <2>1, <2>2 DEF Flush
<1>3. CASE GetByte \/ PeekByte \/ Fail \/ Clear \/ Close \/ SetWriteTimeout
           \/ SetReadTimeout \/ PeerSends \/ PeerCloses \/ UNCHANGED vars
  BY <1>3 DEF GetByte, PeekByte, Fail, Clear, Close, SetWriteTimeout,
              SetReadTimeout, PeerSends, PeerCloses, outVars, vars, Output!chan
<1> QED
  BY <1>1, <1>2, <1>3 DEF Next

(* The put side, with whole sends, does what ByteChannel promises.         *)
THEOREM OutputChannelTheorem ==
  ASSUME ~PartialSends
  PROVE  Spec => OutputChannel
<1>1. Init => Output!Init
  BY DEF Init, Output!Init
<1>2. TypeOK /\ [Next]_vars => [Output!Next]_(Output!chan)
  BY OutputChannelStep
<1> QED
  BY <1>1, <1>2, TypeTheorem, PTL DEF Spec, OutputChannel, Output!Spec

LEMMA InFront ==
  \A a, b \in Seq(1 .. MaxIn) :
    /\ Len(a) \in 0 .. Len(a \o b)
    /\ SubSeq(a \o b, 1, Len(a)) = a
    /\ SubSeq(a \o b, Len(a) + 1, Len(a \o b)) = b
  BY FrontOfConcat

LEMMA InputMoves ==
  ASSUME NEW a \in Seq(1 .. MaxIn), NEW b \in Seq(1 .. MaxIn), Len(b) <= MaxIn,
         taken' = taken \o a, get' \o rcvq' = b
  PROVE  Input!Move(a \o b)
<1>1. /\ Len(a) \in 0 .. Len(a \o b)
      /\ SubSeq(a \o b, 1, Len(a)) = a
      /\ SubSeq(a \o b, Len(a) + 1, Len(a \o b)) = b
  BY InFront
<1> QED
  BY <1>1 DEF Input!Move

(* What is under way is never more than what the peer has sent.            *)
LEMMA InsideBound ==
  ASSUME NEW t \in Seq(1 .. MaxIn), NEW g \in Seq(1 .. MaxIn),
         NEW r \in Seq(1 .. MaxIn), NEW n \in 0 .. MaxIn,
         (t \o g) \o r = Numbers(n)
  PROVE  g \o r \in Seq(1 .. MaxIn) /\ Len(g \o r) <= MaxIn
<1> DEFINE S == 1 .. MaxIn
<1>1. /\ g \o r \in Seq(S) /\ Len(g \o r) = Len(g) + Len(r)
      /\ t \o g \in Seq(S) /\ Len(t \o g) = Len(t) + Len(g)
  BY ConcatProperties
<1>2. Len((t \o g) \o r) = Len(t \o g) + Len(r)
  BY <1>1, ConcatProperties
<1>3. n \in Nat
  OBVIOUS
<1>4. Len((t \o g) \o r) = n
  BY <1>3, NumbersAppend, Zenon
<1>5. Len(t) \in Nat /\ Len(g) \in Nat /\ Len(r) \in Nat
  BY LenProperties
<1> QED
  BY <1>1, <1>2, <1>3, <1>4, <1>5

(* The program takes the first byte of q, and r is behind it.              *)
LEMMA TakeFirst ==
  ASSUME NEW S, NEW q \in Seq(S), NEW r \in Seq(S), NEW p \in Seq(S), q # <<>>
  PROVE  /\ <<Head(q)>> \in Seq(S) /\ Tail(q) \o r \in Seq(S)
         /\ q \o r = <<Head(q)>> \o (Tail(q) \o r)
         /\ Append(p, Head(q)) = p \o <<Head(q)>>
<1>1. Head(q) \in S /\ Tail(q) \in Seq(S) /\ <<>> \in Seq(S)
  BY HeadTailProperties, EmptySeq
<1>2. <<Head(q)>> \in Seq(S)
  BY <1>1
<1>3. Append(<<>>, Head(q)) \o Tail(q) = <<>> \o q
  BY <1>1, TakeHead
<1>4. <<>> \o q = q /\ Append(<<>>, Head(q)) = <<>> \o <<Head(q)>>
      /\ <<>> \o <<Head(q)>> = <<Head(q)>>
  BY <1>1, <1>2, ConcatEmptySeq, AppendIsConcat
<1>5. q = <<Head(q)>> \o Tail(q)
  BY <1>3, <1>4
<1>6. (<<Head(q)>> \o Tail(q)) \o r = <<Head(q)>> \o (Tail(q) \o r)
  BY <1>1, <1>2, ConcatAssociative
<1>7. Tail(q) \o r \in Seq(S)
  BY <1>1, ConcatProperties
<1>8. Append(p, Head(q)) = p \o <<Head(q)>>
  BY <1>1, AppendIsConcat
<1> QED
  BY <1>2, <1>5, <1>6, <1>7, <1>8

LEMMA TakeFirstByte ==
  \A q, r, p \in Seq(1 .. MaxIn) : q # <<>> =>
    /\ <<Head(q)>> \in Seq(1 .. MaxIn) /\ Tail(q) \o r \in Seq(1 .. MaxIn)
    /\ q \o r = <<Head(q)>> \o (Tail(q) \o r)
    /\ Append(p, Head(q)) = p \o <<Head(q)>>
  BY TakeFirst

LEMMA InputChannelStep ==
  ASSUME TypeOK, InputInOrder, TypeOK', InputInOrder', [Next]_vars
  PROVE  [Input!Next]_(Input!chan)
<1> DEFINE S == 1 .. MaxIn
<1>0. /\ taken \in Seq(S) /\ get \in Seq(S) /\ rcvq \in Seq(S) /\ rcvq' \in Seq(S)
      /\ <<>> \in Seq(S)
  BY EmptySeq DEF TypeOK
<1>a. Len(get' \o rcvq') <= MaxIn
  <2>1. /\ taken' \in Seq(S) /\ get' \in Seq(S) /\ peerSent' \in 0 .. MaxIn
        /\ (taken' \o get') \o rcvq' = Numbers(peerSent')
    BY Zenon DEF TypeOK, InputInOrder, Numbers
  <2> QED
    BY <1>0, <2>1, InsideBound
<1>1. CASE GetByte
  <2>0. UNCHANGED peerSent
    BY <1>1 DEF GetByte
  <2>1. ASSUME get # <<>>, taken' = Append(taken, Head(get)), get' = Tail(get),
               UNCHANGED rcvq
        PROVE  Input!Next
    <3>1. /\ <<Head(get)>> \in Seq(S) /\ Tail(get) \o rcvq \in Seq(S)
          /\ get \o rcvq = <<Head(get)>> \o (Tail(get) \o rcvq)
          /\ Append(taken, Head(get)) = taken \o <<Head(get)>>
      BY <1>0, <2>1, TakeFirstByte
    <3>2. get' \o rcvq' = Tail(get) \o rcvq
      BY <2>1
    <3>3. Input!Move(<<Head(get)>> \o (Tail(get) \o rcvq))
      BY <1>a, <2>1, <3>1, <3>2, InputMoves
    <3> QED
      BY <2>0, <3>1, <3>3 DEF Input!Next
  <2>2. ASSUME NEW area \in Arrived, Receives(area),
               taken' = Append(taken, Head(area)), get' = Tail(area)
        PROVE  Input!Next
    <3>1. /\ area \in Seq(S) /\ area \o rcvq' = rcvq /\ area # <<>>
      BY <2>2, ReceiveTypes, EmptySeq
    <3>2. /\ <<Head(area)>> \in Seq(S) /\ Tail(area) \o rcvq' \in Seq(S)
          /\ area \o rcvq' = <<Head(area)>> \o (Tail(area) \o rcvq')
          /\ Append(taken, Head(area)) = taken \o <<Head(area)>>
      BY <1>0, <3>1, TakeFirstByte
    <3>3. get \o rcvq = rcvq
      BY <1>0, <2>2, ConcatEmptySeq DEF Receives
    <3>4. get' \o rcvq' = Tail(area) \o rcvq'
      BY <2>2
    <3>5. Input!Move(<<Head(area)>> \o (Tail(area) \o rcvq'))
      BY <1>a, <2>2, <3>2, <3>4, InputMoves
    <3>6. get \o rcvq = <<Head(area)>> \o (Tail(area) \o rcvq')
      BY <3>1, <3>2, <3>3, Zenon
    <3> QED
      BY <2>0, <3>5, <3>6 DEF Input!Next
  <2>3. ASSUME UNCHANGED <<get, taken, rcvq>>
        PROVE  UNCHANGED Input!chan
    BY <2>0, <2>3 DEF Input!chan
  <2> QED
    BY <1>1, <2>1, <2>2, <2>3 DEF GetByte
<1>2. CASE PeekByte
  <2>0. UNCHANGED <<peerSent, taken>>
    BY <1>2 DEF PeekByte
  <2>1. ASSUME NEW area \in Arrived, Receives(area), get' = area
        PROVE  UNCHANGED Input!chan
    <3>1. area \o rcvq' = rcvq
      BY <2>1, ReceiveTypes
    <3>2. get \o rcvq = rcvq
      BY <1>0, <2>1, ConcatEmptySeq DEF Receives
    <3> QED
      BY <2>0, <2>1, <3>1, <3>2 DEF Input!chan
  <2>2. ASSUME UNCHANGED <<get, rcvq>>
        PROVE  UNCHANGED Input!chan
    BY <2>0, <2>2 DEF Input!chan
  <2> QED
    BY <1>2, <2>1, <2>2 DEF PeekByte
<1>3. CASE PeerSends
  <2> DEFINE c == <<peerSent + 1>>
  <2>1. /\ peerSent + 1 \in S /\ peerSent' = peerSent + 1
        /\ rcvq' = Append(rcvq, peerSent + 1) /\ UNCHANGED <<taken, get>>
    BY <1>3 DEF PeerSends, TypeOK
  <2>2. c \in Seq(S) /\ Append(rcvq, peerSent + 1) = rcvq \o c
    BY <1>0, <2>1, AppendIsConcat
  <2> HIDE DEF c
  <2>3. (get \o rcvq) \o c = get \o (rcvq \o c)
    BY <1>0, <2>2, InBytesAssociative
  <2>4. get' \o rcvq' = (get \o rcvq) \o c
    BY <2>1, <2>2, <2>3, Zenon
  <2>5. (get \o rcvq) \o c \in Seq(S)
    BY <1>0, <2>2, ConcatProperties
  <2>6. /\ taken' = taken \o <<>>
        /\ <<>> \o ((get \o rcvq) \o c) = (get \o rcvq) \o c
    BY <1>0, <2>1, <2>5, ConcatEmptySeq
  <2>7. Input!Move(<<>> \o ((get \o rcvq) \o c))
    BY <1>0, <1>a, <2>4, <2>5, <2>6, InputMoves
  <2> QED
    BY <2>1, <2>6, <2>7 DEF Input!Next, Input!Accept, c
<1>4. CASE PutByte \/ Flush \/ Fail \/ Clear \/ Close \/ SetWriteTimeout
           \/ SetReadTimeout \/ PeerCloses \/ UNCHANGED vars
  BY <1>4 DEF PutByte, Flush, Fail, Clear, Close, SetWriteTimeout,
              SetReadTimeout, PeerCloses, inVars, vars, Input!chan
<1> QED
  BY <1>1, <1>2, <1>3, <1>4 DEF Next

(* The get side does what ByteChannel promises, however sends go.          *)
THEOREM InputChannelTheorem == Spec => InputChannel
<1>1. Init => Input!Init
  BY EmptyConcat DEF Init, Input!Init
<1>2. /\ TypeOK /\ InputInOrder /\ TypeOK' /\ InputInOrder' /\ [Next]_vars
        => [Input!Next]_(Input!chan)
  BY InputChannelStep
<1> QED
  BY <1>1, <1>2, TypeTheorem, InputTheorem, PTL DEF Spec, InputChannel, Input!Spec
-----------------------------------------------------------------------------
(***************************************************************************)
(* Partial sends change the order but not the bytes: `all' of              *)
(* OutputConserved is as long as what was written, and every byte occurs.  *)
(***************************************************************************)
Occurs(n, q) == \E i \in 1 .. Len(q) : q[i] = n

LEMMA OccursConcat ==
  ASSUME NEW S, NEW a \in Seq(S), NEW b \in Seq(S), NEW n
  PROVE  /\ a \o b \in Seq(S) /\ Len(a \o b) = Len(a) + Len(b)
         /\ Occurs(n, a \o b) <=> Occurs(n, a) \/ Occurs(n, b)
<1> DEFINE q == a \o b
<1>1. /\ q \in Seq(S) /\ Len(q) = Len(a) + Len(b)
      /\ \A i \in 1 .. Len(a) + Len(b) :
           q[i] = IF i <= Len(a) THEN a[i] ELSE b[i - Len(a)]
  BY ConcatProperties
<1>2. Len(a) \in Nat /\ Len(b) \in Nat
  BY LenProperties
<1> HIDE DEF q
<1>3. ASSUME Occurs(n, a) PROVE Occurs(n, q)
  <2>1. PICK i \in 1 .. Len(a) : a[i] = n
    BY <1>3 DEF Occurs
  <2>2. i \in 1 .. Len(a) + Len(b) /\ i <= Len(a)
    BY <1>2
  <2>3. i \in 1 .. Len(q) /\ q[i] = n
    BY <1>1, <2>1, <2>2
  <2> QED
    BY <2>3 DEF Occurs
<1>4. ASSUME Occurs(n, b) PROVE Occurs(n, q)
  <2>1. PICK i \in 1 .. Len(b) : b[i] = n
    BY <1>4 DEF Occurs
  <2>2. /\ Len(a) + i \in 1 .. Len(a) + Len(b)
        /\ ~(Len(a) + i <= Len(a)) /\ Len(a) + i - Len(a) = i
    BY <1>2
  <2>3. Len(a) + i \in 1 .. Len(q) /\ q[Len(a) + i] = n
    BY <1>1, <2>1, <2>2
  <2> QED
    BY <2>3 DEF Occurs
<1>5. ASSUME Occurs(n, q) PROVE Occurs(n, a) \/ Occurs(n, b)
  <2>1. PICK i \in 1 .. Len(q) : q[i] = n
    BY <1>5 DEF Occurs
  <2>2. i \in 1 .. Len(a) + Len(b)
    BY <1>1
  <2>3. CASE i <= Len(a)
    <3>1. i \in 1 .. Len(a) /\ a[i] = n
      BY <1>1, <1>2, <2>1, <2>2, <2>3
    <3> QED
      BY <3>1 DEF Occurs
  <2>4. CASE ~(i <= Len(a))
    <3>1. i - Len(a) \in 1 .. Len(b) /\ b[i - Len(a)] = n
      BY <1>1, <1>2, <2>1, <2>2, <2>4
    <3> QED
      BY <3>1 DEF Occurs
  <2> QED
    BY <2>3, <2>4
<1> QED
  BY <1>1, <1>3, <1>4, <1>5 DEF q

(* A send of any size, with the new character stored behind what it took.  *)
LEMMA SendOccurs ==
  ASSUME TypeOK, NEW nCh \in Seq(1 .. MaxOut), OverflowSends(nCh), NEW n
  PROVE  /\ Len(wire' \o put') = Len(wire \o put) + Len(nCh)
         /\ Occurs(n, wire' \o put') <=> Occurs(n, wire \o put) \/ Occurs(n, nCh)
<1> DEFINE S == 1 .. MaxOut
<1>1. put # <<>> /\ put \in Seq(S) /\ wire \in Seq(S)
  BY DEF TypeOK, OverflowSends
<1>2. PICK size \in 1 .. Len(put) : Sends(nCh, size)
  BY <1>1, LenProperties, EmptySeq DEF OverflowSends, SendSizes
<1> DEFINE a == SubSeq(put, 1, size)
           b == Suffix(put, size)
<1>b. size \in 0 .. Len(put)
  BY <1>1, <1>2, LenProperties
<1>3. a \in Seq(S) /\ b \in Seq(S) /\ a \o b = put
  BY <1>1, <1>b, Split
<1>4. wire' = wire \o a /\ put' = nCh \o b
  BY <1>2 DEF Sends, AfterSend
<1> HIDE DEF a, b, S
<1>a. nCh \in Seq(S)
  BY DEF S
<1>5. /\ Len(put) = Len(a) + Len(b)
      /\ Occurs(n, put) <=> Occurs(n, a) \/ Occurs(n, b)
  BY <1>3, OccursConcat
<1>6. /\ Len(wire \o put) = Len(wire) + Len(put)
      /\ Occurs(n, wire \o put) <=> Occurs(n, wire) \/ Occurs(n, put)
  BY <1>1, OccursConcat
<1>7. /\ wire' \in Seq(S) /\ Len(wire') = Len(wire) + Len(a)
      /\ Occurs(n, wire') <=> Occurs(n, wire) \/ Occurs(n, a)
  BY <1>1, <1>3, <1>4, OccursConcat
<1>8. /\ put' \in Seq(S) /\ Len(put') = Len(nCh) + Len(b)
      /\ Occurs(n, put') <=> Occurs(n, nCh) \/ Occurs(n, b)
  BY <1>a, <1>3, <1>4, OccursConcat
<1>9. /\ Len(wire' \o put') = Len(wire') + Len(put')
      /\ Occurs(n, wire' \o put') <=> Occurs(n, wire') \/ Occurs(n, put')
  BY <1>7, <1>8, OccursConcat
<1>10. /\ Len(wire) \in Nat /\ Len(a) \in Nat /\ Len(b) \in Nat /\ Len(nCh) \in Nat
  BY <1>a, <1>1, <1>3, LenProperties
<1> QED
  BY <1>5, <1>6, <1>7, <1>8, <1>9, <1>10

(* OutputConserved, with `occurs' spelt out.                               *)
Conserved ==
  /\ Len(wire \o put) = accepted
  /\ \A n \in 1 .. accepted : Occurs(n, wire \o put)

LEMMA ConservedStep ==
  ASSUME TypeOK, Conserved, [Next]_vars
  PROVE  Conserved'
<1> DEFINE S == 1 .. MaxOut
           c == <<accepted + 1>>
<1>0. wire \in Seq(S) /\ put \in Seq(S) /\ accepted \in Nat
  BY DEF TypeOK
<1>1. CASE UNCHANGED <<wire, put, accepted>>
  BY <1>1 DEF Conserved
<1>2. CASE PutByte
  <2>1. c \in Seq(S) /\ Len(c) = 1 /\ Occurs(accepted + 1, c)
    BY <1>0, <1>2 DEF PutByte, Occurs
  <2>2. ASSUME accepted' = accepted + 1,
               \A n : /\ Len(wire' \o put') = Len(wire \o put) + Len(c)
                      /\ Occurs(n, wire' \o put')
                           <=> Occurs(n, wire \o put) \/ Occurs(n, c)
        PROVE  Conserved'
    <3>1. Len(wire' \o put') = accepted'
      BY <2>1, <2>2 DEF Conserved
    <3>2. ASSUME NEW n \in 1 .. accepted'
          PROVE  Occurs(n, wire' \o put')
      <4>1. n \in 1 .. accepted \/ n = accepted + 1
        BY <1>0, <2>2
      <4> QED
        BY <2>1, <2>2, <4>1 DEF Conserved
    <3> QED
      BY <3>1, <3>2 DEF Conserved
  <2>3. CASE put' = put \o c /\ accepted' = accepted + 1 /\ UNCHANGED wire
    <3>1. wire' \o put' = (wire \o put) \o c
      BY <1>0, <2>1, <2>3, ConcatAssociative
    <3>2. wire \o put \in Seq(S)
      BY <1>0, ConcatProperties
    <3> DEFINE sent == wire \o put
    <3>3. \A n : /\ Len(sent \o c) = Len(sent) + Len(c)
                 /\ Occurs(n, sent \o c) <=> Occurs(n, sent) \/ Occurs(n, c)
      <4>1. sent \in Seq(S) /\ c \in Seq(S)
        BY <2>1, <3>2
      <4> HIDE DEF sent, c, S
      <4> TAKE n
      <4> QED
        BY <4>1, OccursConcat
    <3> QED
      BY <2>2, <2>3, <3>1, <3>3
  <2>4. CASE OverflowSends(c) /\ accepted' = accepted + 1
    BY <2>1, <2>2, <2>4, SendOccurs
  <2>5. CASE OverflowFails /\ UNCHANGED accepted
    BY <1>1, <2>5 DEF OverflowFails
  <2> QED
    BY <1>2, <2>3, <2>4, <2>5 DEF PutByte
<1>3. CASE Flush
  <2>1. UNCHANGED accepted
    BY <1>3 DEF Flush
  <2>2. CASE OverflowNothing \/ OverflowFails
    BY <1>1, <2>1, <2>2 DEF OverflowNothing, OverflowFails
  <2>3. CASE OverflowSends(Eof)
    <3>1. Eof \in Seq(S) /\ Len(Eof) = 0 /\ \A n : ~Occurs(n, Eof)
      BY EmptySeq DEF Eof, Occurs
    <3>2. \A n : /\ Len(wire' \o put') = Len(wire \o put) + Len(Eof)
                 /\ Occurs(n, wire' \o put')
                      <=> Occurs(n, wire \o put) \/ Occurs(n, Eof)
      BY <2>3, <3>1, SendOccurs
    <3>3. Len(wire' \o put') = accepted'
      BY <1>0, <2>1, <3>1, <3>2 DEF Conserved
    <3>4. \A n \in 1 .. accepted' : Occurs(n, wire' \o put')
      BY <2>1, <3>2 DEF Conserved
    <3> QED
      BY <3>3, <3>4 DEF Conserved
  <2> QED
    BY <1>3, <2>2, <2>3 DEF Flush
<1>4. CASE GetByte \/ PeekByte \/ Fail \/ Clear \/ Close \/ SetWriteTimeout
           \/ SetReadTimeout \/ PeerSends \/ PeerCloses \/ UNCHANGED vars
  BY <1>1, <1>4 DEF GetByte, PeekByte, Fail, Clear, Close, SetWriteTimeout,
              SetReadTimeout, PeerSends, PeerCloses, outVars, vars
<1> QED
  BY <1>2, <1>3, <1>4 DEF Next

(* However little each send() takes, no byte is lost and none is sent      *)
(* twice: what has left and what is buffered is a rearrangement of what    *)
(* the program wrote (skstream.cpp:257-316).                               *)
THEOREM ConservedTheorem == Spec => []OutputConserved
<1>1. Init => Conserved
  <2> SUFFICES ASSUME Init PROVE Conserved
    OBVIOUS
  <2>1. wire \o put = <<>> /\ accepted = 0
    BY EmptyConcat DEF Init
  <2> QED
    BY <2>1, EmptySeq DEF Conserved
<1>2. TypeOK /\ Conserved /\ [Next]_vars => Conserved'
  BY ConservedStep
<1>3. Conserved => OutputConserved
  BY DEF Conserved, OutputConserved, Occurs
<1> QED
  BY <1>1, <1>2, <1>3, TypeTheorem, PTL DEF Spec
-----------------------------------------------------------------------------
(***************************************************************************)
(* The relay loop of cat: the stream in the hands of a program.            *)
(***************************************************************************)
(* Outside copy(), which counts down what the get area holds, that area is *)
(* empty.                                                                  *)
CountsGet ==
  /\ pc \in {"select", "stdin", "write", "socket", "copy", "over"}
  /\ pc \in {"select", "stdin", "write", "socket"} => get = <<>>
  /\ pc = "copy" => count = Len(get)

RelayInv == TypeOK /\ CountsGet

(* The steps of the loop that are steps of the stream.                     *)
LEMMA StreamStep ==
  ASSUME TypeOK, PutByte \/ Flush \/ PeekByte \/ PeerSends \/ PeerCloses
                 \/ UNCHANGED vars
  PROVE  TypeOK'
<1>1. [Next]_vars
  BY DEF Next
<1> QED
  BY <1>1, TypeStep

LEMMA CopyStep ==
  ASSUME RelayInv, RelayCopy
  PROVE  RelayInv'
<1> DEFINE len == IF count < Chunk THEN count ELSE Chunk
<1>1. get \in Seq(1 .. MaxIn) /\ taken \in Seq(1 .. MaxIn) /\ Len(get) <= GetCap
  BY DEF RelayInv, TypeOK
<1>2. /\ count = Len(get) /\ Len(get) \in Nat
      /\ taken' = taken \o SubSeq(get, 1, len)
      /\ get' = Suffix(get, len)
      /\ count' = count - len
      /\ pc' = IF count' > 0 THEN "copy" ELSE "select"
  BY <1>1, LenProperties DEF RelayInv, CountsGet, RelayCopy
<1>3. len \in 0 .. Len(get)
  BY <1>2, RelayAssumption
<1> HIDE DEF len
<1>4. /\ SubSeq(get, 1, len) \in Seq(1 .. MaxIn)
      /\ Suffix(get, len) \in Seq(1 .. MaxIn)
      /\ Len(Suffix(get, len)) = Len(get) - len
  BY <1>1, <1>3, Split
<1>5. taken' \in Seq(1 .. MaxIn)
  BY <1>1, <1>2, <1>4, ConcatProperties
<1>6. get' \in Seq(1 .. MaxIn) /\ Len(get') = Len(get) - len /\ Len(get') <= GetCap
  BY <1>1, <1>2, <1>3, <1>4
<1>7. UNCHANGED <<valid, put, Timeout, waitWrite, waitRead, ios, cause, accepted,
                  wire, peerSent, rcvq, peerClosed>>
  BY DEF RelayCopy, config, outVars
<1>8. TypeOK'
  BY <1>5, <1>6, <1>7 DEF RelayInv, TypeOK
<1>9. count' = Len(get') /\ count' \in Nat
  BY <1>2, <1>3, <1>6
<1>10. count' = 0 => get' = <<>>
  BY <1>6, <1>9, EmptySeq
<1> QED
  BY <1>2, <1>8, <1>9, <1>10 DEF RelayInv, CountsGet

LEMMA RelayStep ==
  ASSUME RelayInv, [RelayNext]_relayVars
  PROVE  RelayInv'
<1>0. TypeOK /\ CountsGet
  BY DEF RelayInv
<1>a. ASSUME UNCHANGED vars
      PROVE  TypeOK' /\ get' = get
  BY <1>0, <1>a, StreamStep DEF vars
<1>1. CASE RelaySelect \/ RelaySelectFails \/ RelayLine \/ RelayNoLine \/ RelayTurns
  <2>1. UNCHANGED vars
    BY <1>1 DEF RelaySelect, RelaySelectFails, RelayLine, RelayNoLine, RelayTurns
  <2>2. CountsGet'
    BY <1>0, <1>1, <1>a, <2>1 DEF RelaySelect, RelaySelectFails, RelayLine,
       RelayNoLine, RelayTurns, CountsGet
  <2> QED
    BY <1>a, <2>1, <2>2 DEF RelayInv
<1>2. CASE RelayWrite
  <2>1. TypeOK'
    BY <1>0, <1>2, StreamStep DEF RelayWrite
  <2>2. UNCHANGED get
    BY <1>2 DEF RelayWrite, PutByte, Flush, inVars, vars
  <2>3. pc = "write" /\ pc' \in {"write", "socket"}
    BY <1>2 DEF RelayWrite
  <2> QED
    BY <1>0, <2>1, <2>2, <2>3 DEF RelayInv, CountsGet
<1>3. CASE RelayPeek
  <2>1. TypeOK'
    BY <1>0, <1>3, StreamStep DEF RelayPeek
  <2>2. pc' \in {"over", "copy"} /\ count' = Len(get')
    BY <1>3 DEF RelayPeek
  <2> QED
    BY <2>1, <2>2 DEF RelayInv, CountsGet
<1>4. CASE RelayCopy
  BY <1>4, CopyStep
<1>5. CASE RelayPeer
  <2>1. TypeOK'
    BY <1>0, <1>5, StreamStep DEF RelayPeer
  <2>2. UNCHANGED <<get, pc, count>>
    BY <1>5 DEF RelayPeer, PeerSends, PeerCloses, loop
  <2> QED
    BY <1>0, <2>1, <2>2 DEF RelayInv, CountsGet
<1>6. CASE Types \/ ClosesStdin \/ RelayOver \/ UNCHANGED relayVars
  <2>1. UNCHANGED vars /\ UNCHANGED <<pc, count>>
    BY <1>6 DEF Types, ClosesStdin, RelayOver, relayVars, loop
  <2> QED
    BY <1>0, <1>a, <2>1 DEF RelayInv, CountsGet
<1> QED
  BY <1>1, <1>2, <1>3, <1>4, <1>5, <1>6 DEF RelayNext, RelayProgram

(* The loop never waits in select() with a byte of the peer in the get     *)
(* area, where select() would not see it (cat.cpp:29-48, 131-167).         *)
THEOREM NothingReadTheorem == RelaySpec => []WaitsWithNothingRead
<1>1. RelayInit => RelayInv
  BY TypeInit DEF RelayInit, RelayInv, CountsGet, Init
<1>2. RelayInv /\ [RelayNext]_relayVars => RelayInv'
  BY RelayStep
<1>3. RelayInv => WaitsWithNothingRead
  BY DEF RelayInv, CountsGet, WaitsWithNothingRead
<1> QED
  BY <1>1, <1>2, <1>3, PTL DEF RelaySpec
-----------------------------------------------------------------------------
(* The loop reaches into the get area with sgetn(), which is no method of  *)
(* the stream by itself; every other step of it is.                        *)
LEMMA RelayMethod ==
  ASSUME [RelayNext]_relayVars
  PROVE  [Next]_vars \/ RelayCopy
<1>1. CASE \/ RelaySelect \/ RelaySelectFails \/ RelayLine \/ RelayNoLine
           \/ RelayTurns \/ Types \/ ClosesStdin \/ RelayOver \/ UNCHANGED relayVars
  BY <1>1 DEF RelaySelect, RelaySelectFails, RelayLine, RelayNoLine, RelayTurns,
     Types, ClosesStdin, RelayOver, relayVars
<1>2. CASE RelayWrite
  BY <1>2 DEF RelayWrite, Next
<1>3. CASE RelayPeek
  BY <1>3 DEF RelayPeek, Next
<1>4. CASE RelayPeer
  BY <1>4 DEF RelayPeer, Next
<1> QED
  BY <1>1, <1>2, <1>3, <1>4 DEF RelayNext, RelayProgram

(* What sgetn() does to the input: a part of the get area is taken.        *)
LEMMA CopyTakes ==
  ASSUME RelayInv, RelayCopy
  PROVE  /\ UNCHANGED <<outVars, peerSent, rcvq>>
         /\ \E n \in 0 .. Len(get) :
              taken' = taken \o SubSeq(get, 1, n) /\ get' = Suffix(get, n)
<1> DEFINE len == IF count < Chunk THEN count ELSE Chunk
<1>1. /\ count = Len(get) /\ Len(get) \in Nat
      /\ taken' = taken \o SubSeq(get, 1, len) /\ get' = Suffix(get, len)
  BY LenProperties DEF RelayInv, TypeOK, CountsGet, RelayCopy
<1>2. len \in 0 .. Len(get)
  BY <1>1, RelayAssumption
<1>3. UNCHANGED <<outVars, peerSent, rcvq>>
  BY DEF RelayCopy
<1> QED
  BY <1>1, <1>2, <1>3

LEMMA CopyInput ==
  ASSUME RelayInv, RelayCopy, InputInOrder
  PROVE  InputInOrder' /\ Input!Next
<1> DEFINE S == 1 .. MaxIn
<1>1. PICK n \in 0 .. Len(get) :
        taken' = taken \o SubSeq(get, 1, n) /\ get' = Suffix(get, n)
  BY CopyTakes
<1> DEFINE a == SubSeq(get, 1, n)
           b == Suffix(get, n)
<1>2. /\ taken \in Seq(S) /\ get \in Seq(S) /\ rcvq \in Seq(S)
      /\ peerSent \in 0 .. MaxIn
  BY DEF RelayInv, TypeOK
<1>3. UNCHANGED <<peerSent, rcvq>>
  BY CopyTakes
<1>4. a \in Seq(S) /\ b \in Seq(S) /\ a \o b = get
  BY <1>2, Split
<1>5. (taken \o a) \o b = taken \o get
  BY <1>2, Shift
<1> HIDE DEF a, b
<1>6. taken' = taken \o a /\ get' = b
  BY <1>1 DEF a, b
<1>7. InputInOrder'
  <2>1. (taken \o get) \o rcvq = Numbers(peerSent)
    BY DEF InputInOrder
  <2>2. (taken' \o get') \o rcvq' = Numbers(peerSent')
    BY <1>3, <1>5, <1>6, <2>1, Zenon
  <2> QED
    BY <2>2, <1>3 DEF InputInOrder, Numbers
<1>8. a \o (b \o rcvq) = get \o rcvq
  <2>1. \A r \in Seq(S) : (a \o b) \o r = a \o (b \o r)
    BY <1>4, InBytesAssociative
  <2> QED
    BY <1>2, <1>4, <2>1
<1>9. taken' \in Seq(S)
  BY <1>2, <1>4, <1>6, ConcatProperties
<1>10. b \o rcvq \in Seq(S) /\ Len(b \o rcvq) <= MaxIn
  <2>1. ((taken \o a) \o b) \o rcvq = Numbers(peerSent)
    BY <1>5 DEF InputInOrder
  <2>2. taken \o a \in Seq(S)
    BY <1>6, <1>9
  <2> QED
    BY <1>2, <1>4, <2>1, <2>2, InsideBound
<1>11. Input!Move(a \o (b \o rcvq))
  BY <1>3, <1>4, <1>6, <1>10, InputMoves
<1>12. Input!Move(get \o rcvq)
  BY <1>8, <1>11, Zenon
<1> QED
  BY <1>3, <1>7, <1>12 DEF Input!Next

LEMMA RelayInvTheorem == RelaySpec => []RelayInv
<1>1. RelayInit => RelayInv
  BY TypeInit DEF RelayInit, RelayInv, CountsGet, Init
<1>2. RelayInv /\ [RelayNext]_relayVars => RelayInv'
  BY RelayStep
<1> QED
  BY <1>1, <1>2, PTL DEF RelaySpec

(* What the loop has taken from the terminal reaches the connection as the *)
(* stream promises, whatever select() finds and whenever the input ends    *)
(* (cat.cpp:131-167).                                                      *)
THEOREM RelayOutputTheorem ==
  ASSUME ~PartialSends
  PROVE  RelaySpec => OutputChannel
<1>1. RelayInit => Output!Init
  BY DEF RelayInit, Init, Output!Init
<1>2. RelayInv /\ [RelayNext]_relayVars => [Output!Next]_(Output!chan)
  <2> SUFFICES ASSUME RelayInv, [RelayNext]_relayVars
               PROVE  [Output!Next]_(Output!chan)
    OBVIOUS
  <2>1. CASE [Next]_vars
    BY <2>1, OutputChannelStep DEF RelayInv
  <2>2. CASE RelayCopy
    BY <2>2, CopyTakes DEF outVars, Output!chan
  <2> QED
    BY <2>1, <2>2, RelayMethod
<1> QED
  BY <1>1, <1>2, RelayInvTheorem, PTL DEF RelaySpec, OutputChannel, Output!Spec

(* However little each send() takes, what is typed is neither lost nor     *)
(* sent twice on its way through the loop.                                 *)
THEOREM RelayConservedTheorem == RelaySpec => []OutputConserved
<1>1. RelayInit => Conserved
  <2>1. RelayInit => wire \o put = <<>> /\ accepted = 0
    BY EmptyConcat DEF RelayInit, Init
  <2> QED
    BY <2>1, EmptySeq DEF Conserved
<1>2. RelayInv /\ Conserved /\ [RelayNext]_relayVars => Conserved'
  <2> SUFFICES ASSUME RelayInv, Conserved, [RelayNext]_relayVars
               PROVE  Conserved'
    OBVIOUS
  <2>1. CASE [Next]_vars
    BY <2>1, ConservedStep DEF RelayInv
  <2>2. CASE RelayCopy
    <3>1. UNCHANGED <<put, wire, accepted>>
      BY <2>2, CopyTakes DEF outVars
    <3> QED
      BY <3>1 DEF Conserved, Occurs
  <2> QED
    BY <2>1, <2>2, RelayMethod
<1>3. Conserved => OutputConserved
  BY DEF Conserved, OutputConserved, Occurs
<1> QED
  BY <1>1, <1>2, <1>3, RelayInvTheorem, PTL DEF RelaySpec

(* What the peer sends is shown in the order in which it was sent, each    *)
(* byte once, though copy() takes it from the get area in chunks of its    *)
(* own (cat.cpp:29-48).                                                    *)
THEOREM RelayInputTheorem == RelaySpec => InputChannel
<1>1. RelayInit => Input!Init /\ InputInOrder
  <2>1. Init => Input!Init
    BY EmptyConcat DEF Init, Input!Init
  <2>2. Init => InputInOrder
    BY NoNumbers, EmptyConcat DEF Init, InputInOrder
  <2> QED
    BY <2>1, <2>2 DEF RelayInit
<1>2. RelayInv /\ InputInOrder /\ [RelayNext]_relayVars => InputInOrder'
  BY RelayMethod, CopyInput, InputStep DEF RelayInv
<1>3. RelayInv /\ RelayInv' /\ InputInOrder /\ InputInOrder' /\ [RelayNext]_relayVars
        => [Input!Next]_(Input!chan)
  BY RelayMethod, CopyInput, InputChannelStep DEF RelayInv
<1> QED
  BY <1>1, <1>2, <1>3, RelayInvTheorem, PTL DEF RelaySpec, InputChannel, Input!Spec
=============================================================================
