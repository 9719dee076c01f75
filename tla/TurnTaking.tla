----------------------------- MODULE TurnTaking -----------------------------
(***************************************************************************)
(* One connection of mproxy v0.1 (archive): two handler threads that take  *)
(* turns by two semaphores, each reading what it calls a message from one  *)
(* socket and sending it to the other.                                     *)
(*                                                                         *)
(* "in" is the side of the client and the thread run_inflow_handler, "out" *)
(* that of the server and run_outflow_handler.  Bytes are counted: TCP     *)
(* keeps their order, and the handlers never look at them.                 *)
(*                                                                         *)
(* The handlers call send with flags 0 and v0.1 handles no signal: a send  *)
(* to a connection whose reset was reported, or that was reset after its   *)
(* end of stream, kills the whole process by SIGPIPE.                      *)
(*                                                                         *)
(* A definition marked "mutant" is a slip that one of the properties must  *)
(* notice; it stands before the definition it would replace and is not     *)
(* used by the specification.                                              *)
(***************************************************************************)
EXTENDS Naturals, FiniteSetsExt

CONSTANTS
  DEF_SOCKET_BUF_SIZE, \* bytes asked for by one recv
  Sizes,               \* numbers of bytes a remote end may send at once
  MaxBytes             \* bound of the model: bytes a remote end sends in all

ASSUME TurnTakingAssumption ==
  /\ DEF_SOCKET_BUF_SIZE \in Nat \ {0}
  /\ Sizes \subseteq Nat \ {0}
  /\ MaxBytes \in Nat

Sides == {"in", "out"}
Other(s) == IF s = "in" THEN "out" ELSE "in"

VARIABLES
  sent,       \* bytes from the remote end of a side that arrive
  end,        \* its connection: "open"; "fin" (end of stream); "rst" (reset,
              \* which the next call reports); "dead" (a send is a SIGPIPE)
  got,        \* bytes received from it
  fwd,        \* bytes of it that were sent on to the other side
  failed,     \* bytes of it that send refused: the other side was reset
  sem,        \* in_sem and out_sem, by the handler that waits for it
  pc,         \* where the handler of a side is
  msg,        \* the length of its message
  killed      \* whether the process was killed by SIGPIPE

vars == <<sent, end, got, fwd, failed, sem, pc, msg, killed>>

SemInitBoth == [s \in Sides |-> 1]                        \* mutant
SemInit == [s \in Sides |-> IF s = "in" THEN 1 ELSE 0]

Init ==
  /\ sent = [s \in Sides |-> 0] /\ end = [s \in Sides |-> "open"]
  /\ got = [s \in Sides |-> 0] /\ fwd = [s \in Sides |-> 0]
  /\ failed = [s \in Sides |-> 0]
  /\ sem = SemInit
  /\ pc = [s \in Sides |-> "wait"]
  /\ msg = [s \in Sides |-> 0]
  /\ killed = FALSE

(* What a recv gives: all there is, up to the size of the buffer.          *)
Available(s) == sent[s] - got[s]
Chunk(s) == Min({Available(s), DEF_SOCKET_BUF_SIZE})

-----------------------------------------------------------------------------
(* The remote ends.                                                        *)
Remote == ~killed /\ UNCHANGED <<got, fwd, failed, sem, pc, msg, killed>>

RemoteSends(s, n) ==
  /\ Remote
  /\ end[s] = "open"
  /\ sent[s] + n <= MaxBytes
  /\ sent' = [sent EXCEPT ![s] = @ + n]
  /\ UNCHANGED end

RemoteCloses(s) ==
  /\ Remote
  /\ end[s] = "open"
  /\ end' = [end EXCEPT ![s] = "fin"]
  /\ UNCHANGED sent

(* A reset, such as the answer of a side that has closed to what it is     *)
(* sent; bytes that were not received yet may be lost.                     *)
RemoteResets(s) ==
  /\ Remote
  /\ end[s] \in {"open", "fin"}
  /\ end' = [end EXCEPT ![s] = IF @ = "open" THEN "rst" ELSE "dead"]
  /\ \E k \in got[s] .. sent[s] : sent' = [sent EXCEPT ![s] = k]

(***************************************************************************)
(* The handler of side s.                                                  *)
(***************************************************************************)
Goto(s, from, to) ==
  /\ ~killed
  /\ pc[s] = from
  /\ pc' = [pc EXCEPT ![s] = to]
  /\ UNCHANGED <<sent, killed>>

(* A call that reports the reset of side s clears it.                      *)
Report(s) == end' = [end EXCEPT ![s] = IF @ = "rst" THEN "dead" ELSE @]

SemWait(s) ==
  /\ Goto(s, "wait", "recv")
  /\ sem[s] > 0
  /\ sem' = [sem EXCEPT ![s] = @ - 1]
  /\ UNCHANGED <<end, got, fwd, failed, msg>>

AppendNothing(s, n) == got' = [got EXCEPT ![s] = @ + n] /\ UNCHANGED msg  \* mutant

(* msg->append of n bytes received.                                        *)
AppendBytes(s, n) ==
  /\ got' = [got EXCEPT ![s] = @ + n]
  /\ msg' = [msg EXCEPT ![s] = @ + n]

(* read_message: a recv that waits for bytes, the end of the stream or an  *)
(* error.  A chunk that does not fill the buffer ends the message.         *)
Recv(s) ==
  /\ Available(s) > 0 \/ end[s] # "open"
  /\ Goto(s, "recv", IF Chunk(s) < DEF_SOCKET_BUF_SIZE THEN "send" ELSE "more")
  /\ AppendBytes(s, Chunk(s))
  /\ IF Chunk(s) = 0 THEN Report(s) ELSE UNCHANGED end
  /\ UNCHANGED <<fwd, failed, sem>>

(* The recv behind a full buffer does not wait.  If it gives anything the  *)
(* one that waits is next, whether or not more is to come.                 *)
RecvMore(s) ==
  /\ Goto(s, "more", IF Chunk(s) = 0 THEN "send" ELSE "recv")
  /\ AppendBytes(s, Chunk(s))
  /\ IF Chunk(s) = 0 THEN Report(s) ELSE UNCHANGED end
  /\ UNCHANGED <<fwd, failed, sem>>

(* send of the whole message, which succeeds also after the end of the     *)
(* stream in the other direction; the message is deleted.                  *)
Send(s) ==
  /\ Goto(s, "send", "post")
  /\ end[Other(s)] \in {"open", "fin"}
  /\ fwd' = [fwd EXCEPT ![s] = @ + msg[s]]
  /\ msg' = [msg EXCEPT ![s] = 0]
  /\ UNCHANGED <<end, got, failed, sem>>

(* send reports the reset of an open connection: a note is written, and    *)
(* the message is deleted all the same.                                    *)
SendFails(s) ==
  /\ Goto(s, "send", "post")
  /\ end[Other(s)] = "rst"
  /\ Report(Other(s))
  /\ failed' = [failed EXCEPT ![s] = @ + msg[s]]
  /\ msg' = [msg EXCEPT ![s] = 0]
  /\ UNCHANGED <<got, fwd, sem>>

(* send to a connection that is known to be gone: SIGPIPE.                 *)
SendKills(s) ==
  /\ ~killed
  /\ pc[s] = "send"
  /\ end[Other(s)] = "dead"
  /\ killed' = TRUE
  /\ UNCHANGED <<sent, end, got, fwd, failed, sem, pc, msg>>

SemPostSame(s) ==                                         \* mutant
  /\ Goto(s, "post", "wait")
  /\ sem' = [sem EXCEPT ![s] = @ + 1]
  /\ UNCHANGED <<end, got, fwd, failed, msg>>

SemPost(s) ==
  /\ Goto(s, "post", "wait")
  /\ sem' = [sem EXCEPT ![Other(s)] = @ + 1]
  /\ UNCHANGED <<end, got, fwd, failed, msg>>

-----------------------------------------------------------------------------
Handler(s) ==
  \/ SemWait(s) \/ Recv(s) \/ RecvMore(s)
  \/ Send(s) \/ SendFails(s) \/ SendKills(s) \/ SemPost(s)

Next ==
  \E s \in Sides :
    \/ Handler(s) \/ RemoteCloses(s) \/ RemoteResets(s)
    \/ \E n \in Sizes : RemoteSends(s, n)

Spec == Init /\ [][Next]_vars

(* The handler threads keep running; the remote ends do as they like.      *)
FairSpec == Spec /\ \A s \in Sides : WF_vars(Handler(s))

-----------------------------------------------------------------------------
(* Every variable has its type; the semaphores are never negative.         *)
TypeOK ==
  /\ sent \in [Sides -> 0 .. MaxBytes]
  /\ end \in [Sides -> {"open", "fin", "rst", "dead"}]
  /\ got \in [Sides -> Nat] /\ fwd \in [Sides -> Nat] /\ failed \in [Sides -> Nat]
  /\ sem \in [Sides -> {0, 1}]
  /\ pc \in [Sides -> {"wait", "recv", "more", "send", "post"}]
  /\ msg \in [Sides -> Nat]
  /\ killed \in BOOLEAN

(* It is one handler's turn at any time: the semaphores pass a single      *)
(* permission to and fro, so that a client never gets two answers, nor the *)
(* server two requests, without one of the other kind between them.        *)
OneTurn ==
  sem["in"] + sem["out"] + Cardinality({s \in Sides : pc[s] # "wait"}) = 1

(* However the bytes arrive in chunks, those that were received are passed *)
(* on, in the message under way, or refused by a side that was reset.      *)
NothingDropped ==
  \A s \in Sides :
    /\ fwd[s] + failed[s] + msg[s] = got[s]
    /\ got[s] <= sent[s]
    /\ failed[s] > 0 => end[Other(s)] = "dead"

(* When both ends have closed or were reset, everything that arrives from  *)
(* them is still received: the empty messages at the end of a stream keep  *)
(* the turns going.  A SIGPIPE may end this early: then what is left of    *)
(* either stream is lost with the process.                                 *)
DrainedAtClose ==
  (\A s \in Sides : end[s] # "open")
    ~> killed \/ \A s \in Sides : got[s] = sent[s] /\ msg[s] = 0
=============================================================================
