----------------------------- MODULE SkPoll_proofs -----------------------------
(***************************************************************************)
(* Theorems about SkPoll, for any objects, descriptors and events.  What   *)
(* makes a lookup by number sound for an object that has not moved is that *)
(* no two objects have one number: Distinct is part of the invariant.      *)
(***************************************************************************)
EXTENDS SkPoll, TLAPS

USE PollAssumption

Distinct == \A o, p \in Obj : Open(o) /\ sock[o] = sock[p] => o = p

(* Each bit of an object that has kept its socket since the last poll().   *)
Bits(o) ==
  /\ \A e \in Event : sock[o] \in fds[e] => sock[o] < maxfd /\ e \in map[o]
  /\ ret = "ok" => \A e \in Event :
       sock[o] \in fds[e] <=> e \in map[o] /\ e \in seen[o]

PollInv ==
  /\ TypeOK /\ Distinct
  /\ \A o \in Obj \ moved : Open(o) => Bits(o)
  /\ ret = "ok" => \A o \in Obj \ moved : ~Open(o) => seen[o] = {}

LEMMA PollInit ==
  ASSUME Init PROVE PollInv
<1>1. TypeOK
  BY DEF Init, TypeOK, Fd, NoFd
<1>2. \A o \in Obj : ~Open(o)
  BY DEF Init, Open
<1> QED
  BY <1>1, <1>2 DEF Init, PollInv, Distinct

LEMMA PollStep ==
  ASSUME PollInv, NEW m \in [Obj -> SUBSET Event], Poll(m)
  PROVE  PollInv'
<1>0. /\ sock \in [Obj -> Fd \cup {NoFd}] /\ kready \in [Fd -> SUBSET Event]
      /\ Distinct
  BY DEF PollInv, TypeOK
<1>1. PICK n \in 0 .. NumFd :
        /\ IsMaxfd(n, Polled(m)) /\ maxfd' = n
        /\ \/ ret' = "ok" /\ fds' = [e \in Event |-> Select(Requested(m, e), n, e)]
           \/ ret' = "error" /\ fds' = [e \in Event |-> Requested(m, e)]
  BY DEF Poll
<1>2. /\ map' = m /\ moved' = {} /\ UNCHANGED <<sock, kready>>
      /\ seen' = [o \in Obj |-> IF Open(o) THEN kready[sock[o]] ELSE {}]
  BY DEF Poll
<1>3. ASSUME NEW e \in Event
      PROVE  /\ Requested(m, e) \subseteq Fd
             /\ \A f \in Requested(m, e) : f < n
             /\ \A o \in Obj : Open(o) =>
                  (sock[o] \in Requested(m, e) <=> e \in m[o])
  <2>1. Requested(m, e) \subseteq Fd
    BY <1>0 DEF Requested, Open
  <2>2. \A f \in Requested(m, e) : f < n
    BY <1>1 DEF IsMaxfd, Polled
  <2>3. \A o \in Obj : Open(o) => (sock[o] \in Requested(m, e) <=> e \in m[o])
    BY <1>0 DEF Requested, Distinct
  <2> QED
    BY <2>1, <2>2, <2>3
<1>4. \A e \in Event : fds'[e] \subseteq Requested(m, e)
  BY <1>1 DEF Select
<1>5. fds' \in [Event -> SUBSET Fd]
  <2>1. CASE fds' = [e \in Event |-> Select(Requested(m, e), n, e)]
    BY <2>1 DEF Select
  <2>2. CASE fds' = [e \in Event |-> Requested(m, e)]
    BY <1>3, <2>2
  <2> QED
    BY <1>1, <2>1, <2>2
<1>6. \A o \in Obj : seen'[o] = IF Open(o) THEN kready[sock[o]] ELSE {}
  BY <1>2
<1>7. seen' \in [Obj -> SUBSET Event]
  BY <1>0, <1>2 DEF Open
<1>8. TypeOK'
  BY <1>0, <1>1, <1>2, <1>5, <1>7 DEF TypeOK
<1>9. \A o \in Obj : Open(o)' <=> Open(o)
  BY <1>2 DEF Open
<1>10. ASSUME NEW o \in Obj, Open(o)
       PROVE  Bits(o)'
  <2>1. sock[o] \in Fd /\ sock'[o] = sock[o]
    BY <1>0, <1>2, <1>10 DEF Open
  <2>2. \A e \in Event : sock[o] \in fds'[e] => sock[o] < maxfd' /\ e \in m[o]
    BY <1>1, <1>3, <1>4, <1>10
  <2>3. ASSUME ret' = "ok", NEW e \in Event
        PROVE  sock[o] \in fds'[e] <=> e \in m[o] /\ e \in seen'[o]
    <3>1. fds'[e] = Select(Requested(m, e), n, e)
      BY <1>1, <2>3
    <3>2. sock[o] \in fds'[e] <=>
            sock[o] \in Requested(m, e) /\ sock[o] < n /\ e \in kready[sock[o]]
      BY <2>1, <3>1 DEF Select
    <3>3. seen'[o] = kready[sock[o]]
      BY <1>6, <1>10
    <3> QED
      BY <1>3, <1>10, <3>2, <3>3
  <2> QED
    BY <1>2, <2>1, <2>2, <2>3 DEF Bits
<1>11. Distinct'
  BY <1>0, <1>2 DEF Distinct, Open
<1> QED
  BY <1>2, <1>6, <1>8, <1>9, <1>10, <1>11 DEF PollInv

LEMMA MovesStep ==
  ASSUME PollInv, NEW o \in Obj, Moves(o)
  PROVE  PollInv'
<1>0. /\ sock \in [Obj -> Fd \cup {NoFd}] /\ kready \in [Fd -> SUBSET Event]
      /\ Distinct /\ TypeOK
  BY DEF PollInv, TypeOK
<1>1. moved' = moved \cup {o} /\ UNCHANGED <<fds, maxfd, ret, map, seen>>
  BY DEF Moves, pollVars
<1>2. PICK f \in Fd \cup {NoFd} :
        /\ sock' = [sock EXCEPT ![o] = f]
        /\ kready' \in [Fd -> SUBSET Event]
        /\ f # NoFd => \A p \in Obj \ {o} : sock[p] # f
  <2>1. CASE Open(o) /\ sock' = Without(o) /\ UNCHANGED kready
    BY <1>0, <2>1 DEF Without
  <2>2. ASSUME NEW f \in Lowest(Unused(Without(o))),
               sock' = [sock EXCEPT ![o] = f],
               kready' = [kready EXCEPT ![f] = {}]
        PROVE  /\ f \in Fd /\ kready' \in [Fd -> SUBSET Event]
               /\ \A p \in Obj \ {o} : sock[p] # f
    <3>1. f \in Fd /\ \A p \in Obj : Without(o)[p] # f
      BY DEF Lowest, Unused
    <3>2. \A p \in Obj \ {o} : Without(o)[p] = sock[p]
      BY <1>0 DEF Without
    <3> QED
      BY <1>0, <2>2, <3>1, <3>2
  <2> QED
    BY <2>1, <2>2 DEF Moves
<1>3. \A p \in Obj : sock'[p] = IF p = o THEN f ELSE sock[p]
  BY <1>0, <1>2
<1>4. sock' \in [Obj -> Fd \cup {NoFd}]
  BY <1>0, <1>2
<1>5. TypeOK'
  BY <1>0, <1>1, <1>2, <1>4 DEF TypeOK
<1>6. Distinct'
  BY <1>0, <1>2, <1>3 DEF Distinct, Open
<1>7. \A p \in Obj \ moved' : /\ p \in Obj \ moved
                              /\ Open(p)' <=> Open(p)
                              /\ Bits(p)' <=> Bits(p)
  BY <1>1, <1>3 DEF Open, Bits
<1> QED
  BY <1>1, <1>5, <1>6, <1>7 DEF PollInv

LEMMA InvStep ==
  ASSUME PollInv, [Next]_vars
  PROVE  PollInv'
<1>1. ASSUME NEW g \in Fd, Kernel(g)
      PROVE  PollInv'
  <2>1. kready' \in [Fd -> SUBSET Event]
    BY <1>1 DEF Kernel, PollInv, TypeOK
  <2>2. UNCHANGED <<sock, moved, fds, maxfd, ret, map, seen>>
    BY <1>1 DEF Kernel, pollVars
  <2> QED
    BY <2>1, <2>2 DEF PollInv, TypeOK, Distinct, Open, Bits
<1>2. CASE UNCHANGED vars
  BY <1>2 DEF vars, PollInv, TypeOK, Distinct, Open, Bits
<1> QED
  BY <1>1, <1>2, PollStep, MovesStep DEF Next

(* What isReady() says of an object that has kept its socket is what the   *)
(* last successful poll() found, no more and no less.                      *)
THEOREM ReadyTheorem == Spec => [](TypeOK /\ ReportsWhatWasReady)
<1>1. Init => PollInv
  BY PollInit
<1>2. PollInv /\ [Next]_vars => PollInv'
  BY InvStep
<1>3. PollInv => TypeOK /\ ReportsWhatWasReady
  <2> SUFFICES ASSUME PollInv, ret = "ok", NEW o \in Obj \ moved
               PROVE  IsReady(o, Event) = map[o] \cap seen[o]
    BY DEF PollInv, ReportsWhatWasReady
  <2>0. map[o] \subseteq Event
    BY DEF PollInv, TypeOK
  <2>1. CASE Open(o)
    BY <2>0, <2>1 DEF PollInv, Bits, IsReady
  <2>2. CASE ~Open(o)
    BY <2>2 DEF PollInv, IsReady
  <2> QED
    BY <2>1, <2>2
<1> QED
  BY <1>1, <1>2, <1>3, PTL DEF Spec

(* Type correctness of the sets and of the descriptor table.               *)
THEOREM TypeTheorem == Spec => []TypeOK
<1>1. TypeOK /\ ReportsWhatWasReady => TypeOK
  OBVIOUS
<1> QED
  BY <1>1, ReadyTheorem, PTL

(* Nor does it invent an event when select() fails.                        *)
THEOREM UnaskedTheorem == Spec => []NothingUnasked
<1>1. Init => PollInv
  BY PollInit
<1>2. PollInv /\ [Next]_vars => PollInv'
  BY InvStep
<1>3. PollInv => NothingUnasked
  BY DEF PollInv, NothingUnasked, Bits, IsReady
<1> QED
  BY <1>1, <1>2, <1>3, PTL DEF Spec
=============================================================================
