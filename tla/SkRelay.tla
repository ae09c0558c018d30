------------------------------ MODULE SkRelay ------------------------------
(***************************************************************************)
(* tools/cat, after it has said that the connection is complete: the loop  *)
(* that waits in one select() for the terminal and for the socket, and     *)
(* carries lines one way and bytes the other.                              *)
(*                                                                         *)
(* The stream is that of StreamSocketbuf.  While a connect is pending the  *)
(* buffer has no socket, and select() watches the connecting one.  stdin   *)
(* is what of it the loop can see: lines, the beginning of a line, its     *)
(* end; and the lines that stdio has read ahead.                           *)
(***************************************************************************)
EXTENDS StreamSocketbuf

CONSTANTS
  Chunk,     \* BUF_SIZE - 1
  MaxLine,   \* bound: bytes in a line
  MaxLines   \* bound: lines typed

ASSUME RelayAssumption ==
  /\ Chunk \in Nat \ {0} /\ MaxLine \in Nat \ {0} /\ MaxLines \in Nat
  /\ MaxOut >= MaxLines * MaxLine

VARIABLES
  pc,          \* where main() is
  done,        \* the flag that ends the loop
  rfds,        \* what select() has found ready
  line,        \* bytes of the line in `buffer' still to be written
  count,       \* what copy() still has to read
  typed,       \* how many lines have been typed
  lines,       \* those of them that wait in the kernel
  ahead,       \* those that wait in stdio's buffer
  begun,       \* where the beginning of an unfinished line is, if there is one
  stdinClosed  \* the end of the terminal's input

terminal == <<typed, lines, ahead, begun, stdinClosed>>
loop == <<done, rfds, line, count>>
relayVars == <<vars, pc, loop, terminal>>
-----------------------------------------------------------------------------
(* Mutant: nfds is STDIN_FILENO + 1.                                       *)
ReadableMutant ==
  {f \in {"stdin"} : lines > 0 \/ begun = "kernel" \/ stdinClosed}

(* What select() finds; the buffers of stdio and of the stream it does not *)
(* see.                                                                    *)
Readable ==
  {f \in {"stdin", "socket"} :
     IF f = "stdin" THEN lines > 0 \/ begun = "kernel" \/ stdinClosed
                    ELSE rcvq # <<>> \/ peerClosed}

RelaySelect ==
  /\ pc = "select"
  /\ Readable # {}
  /\ rfds' = Readable
  /\ pc' = "stdin"
  /\ UNCHANGED <<vars, done, line, count, terminal>>

(* An error of select(), such as EINTR when the program was stopped.       *)
RelaySelectFails ==
  /\ pc = "select"
  /\ pc' = "over" /\ done' = TRUE
  /\ UNCHANGED <<vars, rfds, line, count, terminal>>

(* fgets() has a line, which it may find in what it has read ahead.        *)
RelayLine ==
  /\ pc = "stdin" /\ "stdin" \in rfds
  /\ ahead + lines > 0
  /\ IF ahead > 0 THEN ahead' = ahead - 1 /\ UNCHANGED <<lines, begun>>
     ELSE /\ ahead' = lines - 1 /\ lines' = 0
          /\ begun' = IF begun = "kernel" THEN "stdio" ELSE begun
  /\ line' \in 1 .. MaxLine
  /\ pc' = "write"
  /\ UNCHANGED <<vars, done, rfds, count, typed, stdinClosed>>

(* With the beginning of a line only, it waits for the rest.  At the end   *)
(* of the input it answers 0.                                              *)
RelayNoLine ==
  /\ pc = "stdin"
  /\ \/ "stdin" \notin rfds /\ UNCHANGED done
     \/ "stdin" \in rfds /\ ahead + lines = 0 /\ stdinClosed /\ done' = TRUE
  /\ pc' = "socket"
  /\ UNCHANGED <<vars, rfds, line, count, terminal>>

(* The line goes to the stream, which takes nothing unless it is good.     *)
RelayWrite ==
  /\ pc = "write"
  /\ \/ line > 0 /\ PutByte /\ line' = line - 1 /\ UNCHANGED pc
     \/ line = 0 /\ Flush /\ pc' = "socket" /\ UNCHANGED line
     \/ ~Good /\ pc' = "socket" /\ line' = 0 /\ UNCHANGED vars
  /\ UNCHANGED <<done, rfds, count, terminal>>

(* `while (!done)'.                                                        *)
RelayTurns ==
  /\ pc = "socket" /\ "socket" \notin rfds
  /\ pc' = IF done THEN "over" ELSE "select"
  /\ UNCHANGED <<vars, loop, terminal>>

(* copy() ends the loop on a stream that has failed, or whose peek() finds *)
(* no more; else it goes on to what the get area holds.  Its answer takes  *)
(* the place of what `done' was.                                           *)
RelayPeek ==
  /\ pc = "socket" /\ "socket" \in rfds
  /\ \/ Failed /\ UNCHANGED vars
     \/ ~Failed /\ PeekByte
  /\ done' = (ios' # {})
  /\ pc' = IF done' THEN "over" ELSE "copy"
  /\ count' = Len(get')
  /\ UNCHANGED <<rfds, line, terminal>>

(* Mutant: one chunk is copied, whatever there is.                         *)
RelayCopyMutant ==
  /\ pc = "copy"
  /\ LET len == IF count < Chunk THEN count ELSE Chunk
     IN  /\ taken' = taken \o SubSeq(get, 1, len)
         /\ get' = Suffix(get, len)
         /\ count' = count - len
  /\ pc' = "select"
  /\ UNCHANGED <<valid, Timeout, config, ios, cause, outVars, peerSent, rcvq,
                 peerClosed, done, rfds, line, terminal>>

(* sgetn() of a chunk of what in_avail() has counted.                      *)
RelayCopy ==
  /\ pc = "copy"
  /\ LET len == IF count < Chunk THEN count ELSE Chunk
     IN  /\ taken' = taken \o SubSeq(get, 1, len)
         /\ get' = Suffix(get, len)
         /\ count' = count - len
  /\ pc' = IF count' > 0 THEN "copy" ELSE "select"
  /\ UNCHANGED <<valid, Timeout, config, ios, cause, outVars, peerSent, rcvq,
                 peerClosed, done, rfds, line, terminal>>

RelayOver == pc = "over" /\ UNCHANGED relayVars

(* The user: a line at once, its beginning or its rest, or the end of the  *)
(* input, which ends the line as well.                                     *)
Types ==
  /\ ~stdinClosed
  /\ \/ /\ begun = "none" /\ typed < MaxLines
        /\ typed' = typed + 1
        /\ \/ lines' = lines + 1 /\ UNCHANGED begun
           \/ begun' = "kernel" /\ UNCHANGED lines
     \/ begun # "none" /\ begun' = "none" /\ lines' = lines + 1 /\ UNCHANGED typed
  /\ UNCHANGED <<vars, pc, loop, ahead, stdinClosed>>

ClosesStdin ==
  /\ ~stdinClosed
  /\ stdinClosed' = TRUE
  /\ lines' = IF begun # "none" THEN lines + 1 ELSE lines
  /\ begun' = "none"
  /\ UNCHANGED <<vars, pc, loop, typed, ahead>>

RelayPeer == (PeerSends \/ PeerCloses) /\ UNCHANGED <<pc, loop, terminal>>

RelayInit ==
  /\ Init
  /\ pc = "select" /\ done = FALSE /\ rfds = {} /\ line = 0 /\ count = 0
  /\ typed = 0 /\ lines = 0 /\ ahead = 0 /\ begun = "none" /\ stdinClosed = FALSE

RelayProgram ==
  \/ RelaySelect \/ RelayLine \/ RelayNoLine \/ RelayWrite
  \/ RelayTurns \/ RelayPeek \/ RelayCopy

RelayNext ==
  \/ RelayProgram \/ RelaySelectFails \/ RelayOver
  \/ Types \/ ClosesStdin \/ RelayPeer

RelaySpec == RelayInit /\ [][RelayNext]_relayVars

(* A ::send() of overflow() or sync() on the blocking socket.  There is no *)
(* write timeout: it returns when the peer reads, which it need never do.  *)
InSend ==
  pc = "write" /\ Good /\ valid /\ put # <<>> /\ (line = 0 \/ Len(put) = PutCap)

(* fgets() waits for the rest of a line that has been begun.               *)
InFgets ==
  pc = "stdin" /\ "stdin" \in rfds /\ ahead + lines = 0 /\ ~stdinClosed

(* The loop keeps running, except in a ::send(); of the user, the peer and *)
(* the network nothing is assumed.                                         *)
RelayFairSpec == RelaySpec /\ WF_relayVars(RelayProgram /\ ~InSend)
-----------------------------------------------------------------------------
(* select() cannot see what lies in the get area: the loop never waits     *)
(* with a byte of the peer read and not shown, however many times the get  *)
(* area is larger than the buffer of copy().                               *)
WaitsWithNothingRead == pc = "select" => get = <<>>

(* Once the peer has closed, or the terminal's input has, the loop comes   *)
(* to its end, whatever is typed or arrives meanwhile and although copy()  *)
(* overwrites a `done' that was set, unless it stays in one of the two     *)
(* calls that may never return: the ::send() to a peer that has stopped    *)
(* reading, and the fgets() of a line that is never finished.              *)
RelayEnds ==
  ((peerClosed \/ stdinClosed) ~> pc = "over") \/ <>[]InSend \/ <>[]InFgets
=============================================================================
