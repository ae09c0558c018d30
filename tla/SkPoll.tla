-------------------------------- MODULE SkPoll --------------------------------
(***************************************************************************)
(* basic_socket_poll: poll() waits with select() on the sockets of a map,  *)
(* and isReady() looks up what it left in the three descriptor sets, by    *)
(* the number the object has at that time.  Between the two calls the      *)
(* objects are opened, closed and reconnected, and the kernel hands out    *)
(* the lowest free number every time.                                      *)
(***************************************************************************)
EXTENDS Integers

CONSTANTS
  Obj,   \* the basic_sockets of the program
  NumFd, \* descriptors are 0 .. NumFd - 1
  Event  \* READ, WRITE and EXCEPT: each has its set, and none has another role

ASSUME PollAssumption == NumFd \in Nat \ {0}

Fd == 0 .. NumFd - 1

NoFd == -1  \* INVALID_SOCKET

VARIABLES
  sock,    \* what getSocket() of each object returns
  kready,  \* the kernel's: the events each descriptor is ready for
  fds,     \* read_, write_ and except_
  maxfd,   \* maxfd_
  ret,     \* what the last select() came back with
  map,     \* the map given to the last poll(), with {} for an absent object
  seen,    \* what each object's socket was ready for in that poll()
  moved    \* the objects whose socket has changed since

pollVars == <<fds, maxfd, ret, map, seen>>
vars == <<sock, kready, fds, maxfd, ret, map, seen, moved>>
-----------------------------------------------------------------------------
Open(o) == sock[o] # NoFd

(* Mutant: closed objects are not left out.                                *)
RequestedClosed(m, e) == {sock[o] : o \in {p \in Obj : e \in m[p]}}

(* Mutant: the sets are not cleared before they are filled again.          *)
RequestedMutant(m, e) ==
  fds[e] \cup {sock[o] : o \in {p \in Obj : Open(p) /\ e \in m[p]}}

(* The set built for select() from the map.                                *)
Requested(m, e) == {sock[o] : o \in {p \in Obj : Open(p) /\ e \in m[p]}}

Polled(m) == UNION {Requested(m, e) : e \in Event}

(* Mutant: it is the largest descriptor itself.                            *)
IsMaxfdMutant(n, S) == IF S = {} THEN n = 0 ELSE n \in S /\ \A f \in S : f <= n

(* One more than the largest descriptor, 0 if there is none.               *)
IsMaxfd(n, S) == (\A f \in S : f < n) /\ (n > 0 => n - 1 \in S)

(* select() writes back the members of S that are ready, below its nfds.   *)
Select(S, n, e) == {f \in Fd : f \in S /\ f < n /\ e \in kready[f]}

Poll(m) ==
  /\ \E n \in 0 .. NumFd :
       /\ IsMaxfd(n, Polled(m))
       /\ maxfd' = n
       /\ \/ /\ ret' = "ok"
             /\ fds' = [e \in Event |-> Select(Requested(m, e), n, e)]
          \/ /\ ret' = "error"
             /\ fds' = [e \in Event |-> Requested(m, e)]
  /\ map' = m
  /\ seen' = [o \in Obj |-> IF Open(o) THEN kready[sock[o]] ELSE {}]
  /\ moved' = {}
  /\ UNCHANGED <<sock, kready>>

(* Mutant: the limit is not looked at, and one set answers for all.        *)
IsReadyMutant(o, mask) == {e \in mask : \E x \in Event : sock[o] \in fds[x]}

(* isReady(soc, mask).                                                     *)
IsReady(o, mask) ==
  {e \in mask : Open(o) /\ sock[o] < maxfd /\ sock[o] \in fds[e]}
-----------------------------------------------------------------------------
Unused(s) == {f \in Fd : \A o \in Obj : s[o] # f}

Lowest(S) == {f \in S : \A g \in S : f <= g}

Without(o) == [sock EXCEPT ![o] = NoFd]

(* An object gives up its socket, if it has one, and gets another one, if  *)
(* it is to have one: open(), close(), open_next() and the like.           *)
Moves(o) ==
  /\ \/ Open(o) /\ sock' = Without(o) /\ UNCHANGED kready
     \/ \E f \in Lowest(Unused(Without(o))) :
          /\ sock' = [sock EXCEPT ![o] = f]
          /\ kready' = [kready EXCEPT ![f] = {}]
  /\ moved' = moved \cup {o}
  /\ UNCHANGED pollVars

(* Data, room or a connection arrives, or is used up.                      *)
Kernel(f) ==
  /\ \E events \in SUBSET Event : kready' = [kready EXCEPT ![f] = events]
  /\ UNCHANGED <<sock, moved, pollVars>>

Init ==
  /\ sock = [o \in Obj |-> NoFd]
  /\ kready = [f \in Fd |-> {}]
  /\ fds = [e \in Event |-> {}]
  /\ maxfd = 0
  /\ ret = "none"
  /\ map = [o \in Obj |-> {}]
  /\ seen = [o \in Obj |-> {}]
  /\ moved = {}

Next ==
  \/ \E m \in [Obj -> SUBSET Event] : Poll(m)
  \/ \E o \in Obj : Moves(o)
  \/ \E f \in Fd : Kernel(f)

Spec == Init /\ [][Next]_vars
-----------------------------------------------------------------------------
TypeOK ==
  /\ sock \in [Obj -> Fd \cup {NoFd}]
  /\ kready \in [Fd -> SUBSET Event]
  /\ fds \in [Event -> SUBSET Fd]
  /\ maxfd \in 0 .. NumFd
  /\ ret \in {"none", "ok", "error"}
  /\ map \in [Obj -> SUBSET Event]
  /\ seen \in [Obj -> SUBSET Event]
  /\ moved \in SUBSET Obj

(* For an object that has kept its socket since a poll() that succeeded,   *)
(* isReady() reports the events it was polled for and was ready for, all   *)
(* of them and no others, whatever the other objects have done with their  *)
(* sockets and whatever earlier polls were about.                          *)
ReportsWhatWasReady ==
  ret = "ok" =>
    \A o \in Obj \ moved : IsReady(o, Event) = map[o] \cap seen[o]

(* When select() failed, isReady() still reports no event that was not     *)
(* asked for, to an object that has kept its socket.                       *)
NothingUnasked ==
  \A o \in Obj \ moved : IsReady(o, Event) \subseteq map[o]
=============================================================================
