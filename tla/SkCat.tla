-------------------------------- MODULE SkCat --------------------------------
(***************************************************************************)
(* tools/cat: the one client in the tree that walks the address list.  It  *)
(* opens a tcp_socket_stream, non-blocking on request, and then polls it   *)
(* with isReady(1000) and open_next() a fixed number of times.             *)
(*                                                                         *)
(* Every step of the client is a method of TcpSocketStream, taken at the   *)
(* point the program counter stands at; the kernel's steps interleave.     *)
(***************************************************************************)
EXTENDS TcpSocketStream

CONSTANT MaxTries  \* the rounds of the polling loop: 4 in the source

ASSUME CatAssumption == MaxTries \in Nat \ {0}

VARIABLES
  pc,     \* where main() is
  tries,  \* the loop counter i
  asked   \* option_nonblock

catVars == <<vars, pc, tries, asked>>

streamVars == vars

Goto(to) == pc' = to /\ UNCHANGED <<tries, asked>>

CatConstruct ==
  /\ pc = "construct"
  /\ Construct /\ sockbufSocket' = NoFd
  /\ Goto("open")

CatOpen ==
  /\ pc = "open"
  /\ OpenHost(asked)
  /\ Goto("opened")

(* The branches on the outcome of open().                                  *)
CatOpened ==
  /\ pc = "opened"
  /\ \/ ConnectPending /\ Goto("poll")
     \/ ~ConnectPending /\ IsOpen /\ Goto("check")
     \/ ~IsOpen /\ Goto("failed")
  /\ UNCHANGED streamVars

CatPoll ==
  /\ pc = "poll"
  /\ IsReady
  /\ Goto(IF result'.ret = "true" THEN "check" ELSE "next")

(* Mutant: the loop polls the same address again instead of the next one.  *)
CatNextMutant ==
  /\ pc = "next"
  /\ Goto("poll")
  /\ UNCHANGED streamVars

(* isReady() has just returned false, so that a connect is pending: were   *)
(* the program to skip open_next() here, the model would deadlock.         *)
CatNext ==
  /\ pc = "next"
  /\ ConnectPending
  /\ OpenNext
  /\ tries' = tries + 1
  /\ pc' = IF tries + 1 = MaxTries \/ result'.ret = "-1" THEN "check"
                                                         ELSE "poll"
  /\ UNCHANGED asked

(* `if (s->is_open())': "Connection complete", or "Connection failed".     *)
CatCheck ==
  /\ pc = "check"
  /\ Goto(IF IsOpen THEN "complete" ELSE "failed")
  /\ UNCHANGED streamVars

Completed == pc = "complete"

Failed == pc = "failed"

(* main() is over, or in the loop that follows: see SkRelay.               *)
CatEnds == (Completed \/ Failed) /\ UNCHANGED catVars

CatInit == Init /\ pc = "construct" /\ tries = 0 /\ asked \in BOOLEAN

Program == CatConstruct \/ CatOpen \/ CatOpened \/ CatPoll \/ CatNext \/ CatCheck

Environment == Kernel /\ UNCHANGED <<pc, tries, asked>>

CatNextState == Program \/ Environment \/ CatEnds

CatSpec == CatInit /\ [][CatNextState]_catVars

(* main() keeps running: isReady(1000) and the rest of its calls return.   *)
(* Nothing is assumed of the kernel: a connect may stay undecided for ever.*)
CatFairSpec == CatSpec /\ WF_catVars(Program)
-----------------------------------------------------------------------------
CatTypeOK ==
  /\ TypeOK
  /\ pc \in {"construct", "open", "opened", "poll", "next", "check",
             "complete", "failed"}
  /\ tries \in 0 .. MaxTries
  /\ asked \in BOOLEAN

(* The client polls each socket once, so the error that the first isReady  *)
(* swallows never makes the second one adopt a socket that failed: what    *)
(* ends up in the stream did connect.                                      *)
CatAdoptsOnlyConnected ==
  [][CatPoll /\ ConnectPending /\ sockbufSocket' = connectingSocket =>
       desc[connectingSocket].conn = "connected"]_catVars

(* However the walk over the addresses goes, giving up leaves neither a    *)
(* descriptor nor an address list behind, and a connected stream has given *)
(* its list back.                                                          *)
EndsClean ==
  /\ Failed => /\ \A f \in Fd : desc[f].owner # "stream"
               /\ \A l \in AddrList : heap[l] = 0
  /\ Completed /\ ~ConnectPending => \A l \in AddrList : heap[l] = 0

(* The client comes to a decision even when no connect is ever decided.    *)
CatDecides == <>(Completed \/ Failed)
=============================================================================
