------------------------------ MODULE FlowRead ------------------------------
(***************************************************************************)
(* One direction of one connection pair: the read callback on_flow_read    *)
(* of proxy.cpp, run by the thread of the client it reads from.            *)
(*                                                                         *)
(* The remote end sends messages; the byte stream reaches the callback in  *)
(* chunks that need not respect message boundaries.  The callback collects *)
(* the bytes in the client's buffer, cuts complete messages off it, and    *)
(* gives those that action_inject returns to the paired client.            *)
(*                                                                         *)
(* Meanwhile the paired client may be destroyed by its own thread          *)
(* (PairCloses), which tries to break this event loop (PairBreaks); the    *)
(* break may also come too early to be noticed, or not at all.             *)
(*                                                                         *)
(* A definition marked "mutant" is a slip that one of the properties must  *)
(* notice; it stands before the definition it would replace and is not     *)
(* used by the specification.                                              *)
(***************************************************************************)
EXTENDS Stream, ActionInject, Sequences, FiniteSets

CONSTANTS
  OFP_HEADER_BYTES,    \* bytes a header takes
  DEFAULT_STREAM_LEN,  \* initial capacity of a client's buffer
  Wire,                \* the messages a remote end may send
  MaxChunk,            \* most bytes libevent reads from the socket at a time
  Faults,              \* the calls that may fail: "realloc", "write"
  ExitIsDeferred,      \* whether a loop that is told to exit from within a
                       \* callback may run one more (libevent 2.0: yes)
  MaxMsgs              \* bound of the model: messages the remote end sends

ASSUME FlowAssumption ==
  /\ OFP_HEADER_BYTES \in Nat \ {0}
  /\ DEFAULT_STREAM_LEN \in Nat
  /\ \A w \in Wire : w.len \in Nat /\ w.ver \in Nat /\ w.type \in Nat
                     /\ w.valid \in BOOLEAN
  /\ MaxChunk \in Nat \ {0}
  /\ Faults \subseteq {"realloc", "write"}
  /\ ExitIsDeferred \in BOOLEAN
  /\ MaxMsgs \in Nat

VARIABLES
  sent,    \* the frames sent so far: a message and the offset it starts at
  wire,    \* number of bytes sent so far
  peer,    \* the remote end: "open", "fin" (closed), "rst" (reset)
  taken,   \* number of bytes libevent has read from the socket
  buf,     \* the client's buffer, a stream_t
  pc,      \* the client's thread: "idle" (waiting in the event loop), "run"
           \* (in the loop of on_flow_read), "ended", "crashed"
  lp,      \* the local len_processed
  stop,    \* whether the event loop was told to end: "no", "last" (at
           \* most one more callback runs), "now"
  pair,    \* the paired client: "open", "closed"
  staged,  \* what is left in the paired client's ev_buf
  disp     \* history: for each message handled its number and copies written

peerVars == <<sent, wire, peer>>
vars == <<sent, wire, peer, taken, buf, pc, lp, stop, pair, staged, disp>>

(* A header whose length field is 0 still takes the bytes of a header.     *)
Bytes(w) == IF w.len = 0 THEN OFP_HEADER_BYTES ELSE w.len

(* The bytes on_flow_read needs to have before it handles a message.       *)
Room(w) == IF w.len < OFP_HEADER_BYTES THEN OFP_HEADER_BYTES ELSE w.len

FrameT == [id : Nat, start : Nat, msg : Wire]

DispT == [id : Nat, copies : Nat]

(* Where the i-th frame starts, the next one to be sent included.          *)
StartOf(i) == IF i \in DOMAIN sent THEN sent[i].start ELSE wire

-----------------------------------------------------------------------------
Init ==
  /\ sent = <<>>
  /\ wire = 0
  /\ peer = "open"
  /\ taken = 0
  /\ buf = stream_new(DEFAULT_STREAM_LEN)
  /\ pc = "idle"
  /\ lp = 0
  /\ stop = "no"
  /\ pair = "open"
  /\ staged = <<>>
  /\ disp = <<>>

(***************************************************************************)
(* The remote end.                                                         *)
(***************************************************************************)
RemoteSend(w) ==
  /\ peer = "open"
  /\ Len(sent) < MaxMsgs
  /\ sent' = Append(sent, [id |-> Len(sent) + 1, start |-> wire, msg |-> w])
  /\ wire' = wire + Bytes(w)
  /\ UNCHANGED <<peer, taken, buf, pc, lp, stop, pair, staged, disp>>

RemoteCloses(how) ==
  /\ peer = "open"
  /\ peer' = how
  /\ UNCHANGED <<sent, wire, taken, buf, pc, lp, stop, pair, staged, disp>>

(***************************************************************************)
(* The event loop.                                                         *)
(***************************************************************************)
loopexit == IF stop = "no" /\ ExitIsDeferred THEN "last" ELSE "now"

(* The destructor of the paired client, in the paired client's thread: its *)
(* descriptor is closed and its entry in client_map erased.                *)
PairCloses ==
  /\ pair = "open"
  /\ pc \in {"idle", "run"}
  /\ pair' = "closed"
  /\ UNCHANGED <<peerVars, taken, buf, pc, lp, stop, staged, disp>>

(* ... and then it breaks this loop, if it still finds this client.  A     *)
(* break that comes before event_base_dispatch is forgotten, and no pair   *)
(* is found when the entry is not there yet or not any more: this action   *)
(* may never happen (Lifecycle has both cases).  loopbreak wakes a loop    *)
(* that is waiting; a read event that is already active then still gets    *)
(* its callback.                                                           *)
PairBreaks ==
  /\ pair = "closed"
  /\ pc \in {"idle", "run"}
  /\ stop' = IF pc = "idle" /\ stop = "no" THEN "last" ELSE
             IF pc = "run" THEN "now" ELSE stop
  /\ UNCHANGED <<peerVars, taken, buf, pc, lp, pair, staged, disp>>

(* event_base_dispatch returns: told to end, or no event left to wait for  *)
(* once reading is disabled by the end of the stream or an error.          *)
LoopEnds ==
  /\ pc = "idle"
  /\ \/ stop # "no"
     \/ peer = "fin" /\ taken = wire
     \/ peer = "rst"
  /\ pc' = "ended"
  /\ UNCHANGED <<peerVars, taken, buf, lp, stop, pair, staged, disp>>

(***************************************************************************)
(* on_flow_read, up to its loop.  n new bytes are in the input; bytes that *)
(* an earlier call could not move are still there too.                     *)
(***************************************************************************)
NeedsExpandIgnoringLen(bytes) == buf.cap < bytes          \* mutant
NeedsExpandEachTime(bytes)    == bytes > 0                \* mutant
NeedsExpand(bytes) == buf.cap - buf.len < bytes

ReadStarts(n) ==
  /\ pc = "idle"
  /\ stop # "now"
  /\ taken + n <= wire
  /\ taken' = taken + n

ReadFailsToExpand(n) ==
  /\ ReadStarts(n)
  /\ "realloc" \in Faults
  /\ NeedsExpand(taken + n - (buf.base + buf.len))
  /\ stop' = IF stop = "last" THEN "now" ELSE stop
  /\ UNCHANGED <<peerVars, buf, pc, lp, pair, staged, disp>>

NoPairUnchecked(b) == FALSE                               \* mutant
NoPair(b) == ~(b.len < OFP_HEADER_BYTES) /\ pair = "closed"

Read(n) ==
  LET bytes == taken + n - (buf.base + buf.len)
      room  == IF NeedsExpand(bytes) THEN stream_expand(buf, bytes) ELSE buf
      b     == Fill(room, bytes)
  IN  /\ ReadStarts(n)
      /\ buf' = b
      /\ lp' = 0
      /\ pc' = IF b.len < OFP_HEADER_BYTES \/ NoPair(b) THEN "idle" ELSE "run"
      /\ stop' = CASE stop = "last" -> "now"
                   [] NoPair(b) -> loopexit
                   [] OTHER -> stop
      /\ UNCHANGED <<peerVars, pair, staged, disp>>

(***************************************************************************)
(* The loop of on_flow_read, one action for each way through its body.     *)
(***************************************************************************)

Intact == buf.bytes = "intact"

(* The frames the bytes at the front of the unprocessed part may be read   *)
(* as: the one that was sent or, once the bytes are garbled, any.          *)
Frames ==
  LET at == buf.base + lp
  IN  IF Intact THEN {sent[i] : i \in {j \in DOMAIN sent : sent[j].start = at}}
      ELSE [id : {0}, start : {at}, msg : Wire]

(* The condition of the loop: the rest of the buffer holds a header.       *)
HeaderInStrictly == lp + OFP_HEADER_BYTES < buf.len       \* mutant
HeaderIn == lp + OFP_HEADER_BYTES <= buf.len

InLoop(f) ==
  /\ pc = "run"
  /\ HeaderIn
  /\ f \in Frames

CompleteUnchecked(f) == f.msg.len # 0                     \* mutant
Complete(f) == f.msg.len # 0 /\ f.msg.len <= buf.len - lp

Return == pc' = "idle" /\ lp' = 0

NotShifted == {buf}                                       \* mutant
Shifted == IF lp > 0 THEN stream_left_shift(buf, lp) ELSE {buf}

SkipMalformed(f) ==                                       \* mutant
  /\ InLoop(f)
  /\ f.msg.len = 0
  /\ lp' = lp + OFP_HEADER_BYTES
  /\ UNCHANGED <<peerVars, taken, buf, pc, stop, pair, staged, disp>>

(* A length of 0: leave at once, what was processed stays in the buffer.   *)
MalformedLength(f) ==
  /\ InLoop(f)
  /\ f.msg.len = 0
  /\ stop' = loopexit
  /\ Return
  /\ UNCHANGED <<peerVars, taken, buf, pair, staged, disp>>

PartialUnshifted(f) ==                                    \* mutant
  /\ InLoop(f)
  /\ f.msg.len > buf.len - lp
  /\ Return
  /\ UNCHANGED <<peerVars, taken, buf, stop, pair, staged, disp>>

PartialMessage(f) ==
  /\ InLoop(f)
  /\ f.msg.len > buf.len - lp
  /\ buf' \in Shifted
  /\ Return
  /\ UNCHANGED <<peerVars, taken, stop, pair, staged, disp>>

DropMessage(f) ==
  /\ InLoop(f)
  /\ Complete(f)
  /\ 0 \in Copies(f.msg)
  /\ disp' = Append(disp, [id |-> f.id, copies |-> 0])
  /\ lp' = lp + f.msg.len
  /\ UNCHANGED <<peerVars, taken, buf, pc, stop, pair, staged>>

(* The pair's descriptor is no longer valid: as for a malformed length.    *)
PairIsGone(f) ==
  /\ InLoop(f)
  /\ Complete(f)
  /\ Copies(f.msg) \ {0} # {}
  /\ pair = "closed"
  /\ stop' = loopexit
  /\ Return
  /\ UNCHANGED <<peerVars, taken, buf, pair, staged, disp>>

RelayMessage(f, k) ==
  /\ InLoop(f)
  /\ Complete(f)
  /\ k \in Copies(f.msg) \ {0}
  /\ pair = "open"
  /\ disp' = disp \o staged \o <<[id |-> f.id, copies |-> k]>>
  /\ staged' = <<>>
  /\ lp' = lp + f.msg.len
  /\ UNCHANGED <<peerVars, taken, buf, pc, stop, pair>>

(* bufferevent_write_buffer fails: what was added stays in ev_buf.         *)
WriteFails(f, k) ==
  /\ InLoop(f)
  /\ Complete(f)
  /\ k \in Copies(f.msg) \ {0}
  /\ pair = "open"
  /\ "write" \in Faults
  /\ staged' = Append(staged, [id |-> f.id, copies |-> k])
  /\ stop' = loopexit
  /\ Return
  /\ UNCHANGED <<peerVars, taken, buf, pair, disp>>

Crash(f) ==
  /\ InLoop(f)
  /\ Complete(f)
  /\ MayCrash(f.msg)
  /\ pc' = "crashed"
  /\ UNCHANGED <<peerVars, taken, buf, lp, stop, pair, staged, disp>>

(* Too few bytes left for a header.                                        *)
LoopDone ==
  /\ pc = "run"
  /\ ~HeaderIn
  /\ buf' \in Shifted
  /\ Return
  /\ UNCHANGED <<peerVars, taken, stop, pair, staged, disp>>

-----------------------------------------------------------------------------
Remote == (\E w \in Wire : RemoteSend(w)) \/ (\E how \in {"fin", "rst"} : RemoteCloses(how))

Callback == \E n \in 1 .. MaxChunk : Read(n) \/ ReadFailsToExpand(n)

Body ==
  \/ LoopDone
  \/ \E f \in Frames :
       \/ MalformedLength(f) \/ PartialMessage(f) \/ DropMessage(f)
       \/ PairIsGone(f) \/ Crash(f)
       \/ \E k \in Copies(f.msg) : RelayMessage(f, k) \/ WriteFails(f, k)

Next == Remote \/ PairCloses \/ PairBreaks \/ LoopEnds \/ Callback \/ Body

Spec == Init /\ [][Next]_vars

(* The thread runs its callback to the end, the kernel delivers what was   *)
(* sent, and a loop that was told to end does.                             *)
Fairness == WF_vars(LoopEnds) /\ WF_vars(Callback) /\ WF_vars(Body)

FairSpec == Spec /\ Fairness

-----------------------------------------------------------------------------
(***************************************************************************)
(* Properties.                                                             *)
(***************************************************************************)

(* Every variable has its type; in particular the lengths of the buffer    *)
(* and of the processed part, which are unsigned in the code, never go     *)
(* below zero.                                                             *)
TypeOK ==
  /\ sent \in Seq(FrameT)
  /\ wire \in Nat
  /\ peer \in {"open", "fin", "rst"}
  /\ taken \in 0 .. wire
  /\ buf \in stream_t
  /\ pc \in {"idle", "run", "ended", "crashed"}
  /\ lp \in Nat
  /\ stop \in {"no", "last", "now"}
  /\ pair \in {"open", "closed"}
  /\ staged \in Seq(DispT)
  /\ disp \in Seq(DispT)

(* The bytes copied into the buffer fit the memory allocated for it, the   *)
(* loop never reads past them, and none is copied that was not received:   *)
(* whatever the chunks, and when a realloc fails in between.               *)
BufferBounded ==
  /\ buf.len <= buf.cap
  /\ lp <= buf.len
  /\ buf.base + buf.len <= taken

(* As long as the loop was not told to end, on_flow_read is in step with   *)
(* the sender: exactly the messages before the position it has reached     *)
(* were handled, each once and in order, and the next one starts there.    *)
InStep ==
  stop = "no" /\ Intact =>
    /\ staged = <<>>
    /\ Len(disp) <= Len(sent)
    /\ buf.base + lp = StartOf(Len(disp) + 1)
    /\ \A i \in DOMAIN disp : disp[i].id = i

(* When on_flow_read waits for more bytes it has handled every message     *)
(* whose bytes, and a whole header, are in the buffer: no message is held  *)
(* back until the next one arrives.                                        *)
NoCompleteLeft ==
  pc = "idle" /\ stop = "no" /\ Intact =>
    \A i \in DOMAIN sent :
      sent[i].start = buf.base =>
        buf.len < OFP_HEADER_BYTES \/ buf.len < sent[i].msg.len

(* Nothing behind a header of length 0 is ever passed on, also when the    *)
(* callback runs once more after it asked for the loop to end.             *)
NothingPastMalformed ==
  Intact =>
    \A i \in DOMAIN sent : sent[i].msg.len = 0 =>
      \A j \in DOMAIN disp : disp[j].id < i

(* If the sender closed the connection in good order and nobody told the   *)
(* loop to end, every well-formed message was handled before the thread    *)
(* left its loop.                                                          *)
NothingLostAtEof ==
  pc = "ended" /\ peer = "fin" /\ stop = "no" => Len(disp) = Len(sent)

(* The buffer does not grow with the length of the connection: beyond what *)
(* it started with it holds less than one message and two chunks, and one  *)
(* chunk more when the loop is ending (provided that realloc succeeds).    *)
CapBounded ==
  \/ buf.cap <= DEFAULT_STREAM_LEN
  \/ \E w \in Wire :
       buf.cap < Room(w) + (IF stop = "no" THEN 2 ELSE 3) * MaxChunk

(* What the receiver gets is what MessageRelay allows: each message once,  *)
(* in order, with the number of copies the rules give.                     *)
Relay == INSTANCE MessageRelay WITH
           Messages <- Wire, Fates <- Copies,
           sent <- [i \in DOMAIN sent |-> sent[i].msg]

RelaySpec == Relay!Spec

(* A message is delivered once and then as many more times as the table    *)
(* atk_dup_action_table says (attack.c, the comment on the table).         *)
DeliveredAsTold ==
  \A i \in DOMAIN disp :
    LET id   == disp[i].id
        w    == sent[id].msg
        runs == {j \in DOMAIN disp : disp[j].id = id /\ disp[j].copies > 0}
    IN  id # 0 /\ w.ver \in Versions /\ w.type \in Types =>
          \A j \in runs :
            /\ disp[j].copies = 1 + atk_dup_action_table[w.ver][w.type]
            /\ runs = {j}

(* Every message sent is handled in the end, unless the connection is      *)
(* reset, the loop is told to end, or a malformed header precedes it.      *)
EventuallyRelayed ==
  \A i \in 1 .. MaxMsgs :
    i <= Len(sent) ~> \/ i <= Len(disp)
                      \/ stop # "no" \/ peer = "rst" \/ pc = "crashed"

(* The thread leaves its loop, so that start_client_thread frees the       *)
(* client, once the remote end has closed; and when only the pair is gone, *)
(* the next bytes that complete a header end it, also if the break that    *)
(* the pair's destructor tries was forgotten or never made.                *)
EventuallyEnds ==
  \/ peer # "open"
  \/ /\ pair = "closed" /\ pc = "idle"
     /\ taken < wire /\ wire - buf.base >= OFP_HEADER_BYTES
  ~> pc \in {"ended", "crashed"}
=============================================================================
