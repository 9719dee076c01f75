-------------------------- MODULE FlowRelayProofs ---------------------------
(***************************************************************************)
(* Proofs about FlowRead that need more of the environment: that a realloc *)
(* or a write does not fail, that memcpy keeps the bytes it moves, or that *)
(* the messages are well-formed.  Each theorem names what it needs.        *)
(***************************************************************************)
EXTENDS FlowReadProofs

(* The calls of on_flow_read succeed.                                      *)
ReallocSucceeds == "realloc" \notin Faults
WriteSucceeds   == "write" \notin Faults

(* memcpy copies overlapping regions as memmove would.                     *)
OverlapKept == OverlapCopies = {"intact"}

(* No message has a length of 0; a message is no shorter than a header.    *)
NoneMalformed  == \A w \in Wire : w.len # 0
AllWellFormed  == \A w \in Wire : w.len >= OFP_HEADER_BYTES

-----------------------------------------------------------------------------
(* The room that the largest of the messages needs, plus k chunks, bounds  *)
(* n.                                                                      *)
Within(n, k) == \E w \in Wire : n < Room(w) + k * MaxChunk

LEMMA RoomType ==
  ASSUME NEW w \in Wire
  PROVE  Room(w) \in Nat /\ Room(w) >= OFP_HEADER_BYTES /\ Room(w) >= w.len
  BY FlowAssumption DEF Room

(* Nothing stays in the input of the bufferevent; what the buffer holds    *)
(* when a callback starts is less than a message, or less than a message   *)
(* and a chunk after a return that did not shift it.                       *)
GrowthInv ==
  /\ buf.base + buf.len = taken
  /\ wire > 0 \/ pc = "run" => Wire # {}
  /\ pc = "idle" /\ stop = "no" => buf.len = 0 \/ Within(buf.len, 0)
  /\ pc = "idle" /\ stop = "last" => buf.len = 0 \/ Within(buf.len, 1)
  /\ pc = "run" => stop # "last"
  /\ pc = "run" /\ stop = "no" => Within(buf.len, 1)
  /\ CapBounded

LEMMA GrowthInit == Init => GrowthInv
  BY FlowAssumption DEF Init, GrowthInv, CapBounded, stream_new

LEMMA GrowthStep ==
  ASSUME ReallocSucceeds
  PROVE  BufferInv /\ GrowthInv /\ [Next]_vars => GrowthInv'
<1> SUFFICES ASSUME BufferInv, GrowthInv, [Next]_vars PROVE GrowthInv'
  OBVIOUS
<1>a. /\ buf \in stream_t /\ buf.base \in Nat /\ buf.len \in Nat /\ buf.cap \in Nat
      /\ lp \in Nat /\ lp <= buf.len /\ taken \in Nat /\ taken <= wire /\ wire \in Nat
      /\ stop \in {"no", "last", "now"} /\ buf.len <= buf.cap
      /\ OFP_HEADER_BYTES \in Nat \ {0} /\ MaxChunk \in Nat \ {0}
  BY FlowAssumption DEF BufferInv, TypeOK, BufferBounded, stream_t
<1>b. \A w \in Wire : Room(w) \in Nat /\ Room(w) >= OFP_HEADER_BYTES /\ Room(w) >= w.len
  BY RoomType
<1>c. \A n \in Nat : Within(n, 0) => Within(n, 1)
  BY <1>a, <1>b DEF Within
<1>d. \A w \in Wire : w.len \in Nat
  BY FlowAssumption
(* The bound on the capacity is no tighter once the loop is told to end.   *)
<1>e. ASSUME buf'.cap = buf.cap, stop' = "no" => stop = "no" PROVE CapBounded'
  <2>1. CASE buf.cap <= DEFAULT_STREAM_LEN
    BY <1>e, <2>1 DEF CapBounded
  <2>2. CASE ~(buf.cap <= DEFAULT_STREAM_LEN)
    <3>1. PICK w \in Wire : buf.cap < Room(w) + (IF stop = "no" THEN 2 ELSE 3) * MaxChunk
      BY <2>2 DEF GrowthInv, CapBounded
    <3>2. buf'.cap < Room(w) + (IF stop' = "no" THEN 2 ELSE 3) * MaxChunk
      BY <1>a, <1>b, <1>e, <3>1
    <3> QED BY <3>2 DEF CapBounded
  <2> QED BY <2>1, <2>2
<1>1. ASSUME NEW w \in Wire, RemoteSend(w) PROVE GrowthInv'
  <2>1. UNCHANGED <<taken, buf, pc, stop>>
    BY <1>1 DEF RemoteSend
  <2> QED BY <2>1, <1>e DEF GrowthInv, Within
<1>2. ASSUME UNCHANGED <<taken, wire, buf, stop>>, pc' = pc \/ pc' \in {"ended", "crashed"}
      PROVE  GrowthInv'
  BY <1>2, <1>e DEF GrowthInv, Within
<1>17. CASE PairCloses
  BY <1>2, <1>17 DEF PairCloses, peerVars
<1>3. CASE PairBreaks
  <2>1. /\ UNCHANGED <<taken, wire, buf, pc>>
        /\ pc = "idle" /\ stop = "no" => stop' = "last"
        /\ pc = "idle" /\ stop # "no" => stop' = stop
        /\ pc = "run" => stop' = "now"
        /\ pc \in {"idle", "run"}
    BY <1>3, <1>a DEF PairBreaks, peerVars
  <2>2. CapBounded'
    BY <1>a, <1>e, <2>1
  <2>3. (pc = "idle" /\ stop = "last" => buf.len = 0 \/ Within(buf.len, 1))'
    BY <1>a, <1>c, <2>1 DEF GrowthInv, Within
  <2> QED BY <1>a, <2>1, <2>2, <2>3 DEF GrowthInv
<1>4. ASSUME NEW n \in 1 .. MaxChunk, Read(n) PROVE GrowthInv'
  <2> DEFINE bytes == taken + n - (buf.base + buf.len)
  <2>1. n \in Nat /\ n <= MaxChunk /\ bytes = n /\ n >= 1
    BY <1>a DEF GrowthInv
  <2>2. /\ pc = "idle" /\ stop # "now" /\ taken' = taken + n /\ taken + n <= wire
        /\ wire' = wire /\ lp' = 0
        /\ buf' = Fill(IF NeedsExpand(bytes) THEN stream_expand(buf, bytes) ELSE buf, bytes)
        /\ pc' = IF buf'.len < OFP_HEADER_BYTES \/ pair = "closed" THEN "idle" ELSE "run"
        /\ stop' = CASE stop = "last" -> "now"
                     [] ~(buf'.len < OFP_HEADER_BYTES) /\ pair = "closed" -> loopexit
                     [] OTHER -> stop
    BY <1>4 DEF Read, NoPair, ReadStarts, peerVars
  <2>3. /\ buf'.base = buf.base /\ buf'.len = buf.len + n
        /\ buf'.cap = IF buf.cap - buf.len < n THEN buf.cap + n ELSE buf.cap
    <3>1. CASE NeedsExpand(bytes)
      <4>1. buf' = [[buf EXCEPT !.cap = @ + n] EXCEPT !.len = @ + n]
        BY <2>1, <2>2, <3>1 DEF stream_expand, Fill
      <4> QED BY <1>a, <2>1, <3>1, <4>1 DEF stream_t, NeedsExpand
    <3>2. CASE ~NeedsExpand(bytes)
      <4>1. buf' = [buf EXCEPT !.len = @ + n]
        BY <2>1, <2>2, <3>2 DEF Fill
      <4> QED BY <1>a, <2>1, <3>2, <4>1 DEF stream_t, NeedsExpand
    <3> QED BY <3>1, <3>2
  <2>4. PICK w0 \in Wire : TRUE
    BY <1>a, <2>1, <2>2 DEF GrowthInv
  <2>5. stop = "no" => Within(buf.len, 0)
    BY <1>a, <1>b, <2>2, <2>4 DEF GrowthInv, Within
  <2>6. stop = "last" => Within(buf.len, 1)
    BY <1>a, <1>b, <2>2, <2>4 DEF GrowthInv, Within
  <2>7. stop = "no" => Within(buf'.len, 1)
    <3> SUFFICES ASSUME stop = "no" PROVE Within(buf'.len, 1)
      OBVIOUS
    <3>1. PICK w \in Wire : buf.len < Room(w) + 0 * MaxChunk
      BY <2>5 DEF Within
    <3>2. buf'.len < Room(w) + 1 * MaxChunk
      BY <1>a, <1>b, <2>1, <2>3, <3>1
    <3> QED BY <3>2 DEF Within
  <2>8. buf'.len < OFP_HEADER_BYTES => Within(buf'.len, 0)
    BY <1>a, <1>b, <2>1, <2>3, <2>4 DEF Within
  <2>9. CASE stop = "no"
    <3>1. stop' \in {"no", "last", "now"} /\ (stop' = "no" => pc' = "run" \/ buf'.len < OFP_HEADER_BYTES)
      BY <2>2, <2>9 DEF loopexit
    <3>2. pc' = "run" => stop' = "no"
      BY <2>2, <2>9
    <3>3. CapBounded'
      <4>1. CASE buf.cap - buf.len < n
        <5>1. PICK w \in Wire : buf.len < Room(w) + 0 * MaxChunk
          BY <2>5, <2>9 DEF Within
        <5>2. buf'.cap < Room(w) + 2 * MaxChunk /\ buf'.cap < Room(w) + 3 * MaxChunk
          BY <1>a, <1>b, <2>1, <2>3, <4>1, <5>1
        <5> QED BY <5>2 DEF CapBounded
      <4>2. CASE ~(buf.cap - buf.len < n)
        BY <1>e, <2>3, <2>9, <4>2
      <4> QED BY <4>1, <4>2
    <3>4. buf'.base + buf'.len = taken'
      BY <1>a, <2>1, <2>2, <2>3 DEF GrowthInv
    <3>5. (pc = "idle" /\ stop = "no" => buf.len = 0 \/ Within(buf.len, 0))'
      BY <2>2, <2>8, <3>1 DEF Within
    <3>6. (pc = "idle" /\ stop = "last" => buf.len = 0 \/ Within(buf.len, 1))'
      BY <2>7, <2>9 DEF Within
    <3>7. (pc = "run" => stop # "last")' /\ (pc = "run" /\ stop = "no" => Within(buf.len, 1))'
      BY <2>7, <2>9, <3>2 DEF Within
    <3> QED BY <2>2, <3>3, <3>4, <3>5, <3>6, <3>7 DEF GrowthInv
  <2>10. CASE stop = "last"
    <3>1. stop' = "now"
      BY <2>2, <2>10 DEF loopexit
    <3>2. CapBounded'
      <4>1. CASE buf.cap - buf.len < n
        <5>1. PICK w \in Wire : buf.len < Room(w) + 1 * MaxChunk
          BY <2>6, <2>10 DEF Within
        <5>2. buf'.cap < Room(w) + 3 * MaxChunk
          BY <1>a, <1>b, <2>1, <2>3, <4>1, <5>1
        <5> QED BY <3>1, <5>2 DEF CapBounded
      <4>2. CASE ~(buf.cap - buf.len < n)
        BY <1>e, <2>3, <3>1, <4>2
      <4> QED BY <4>1, <4>2
    <3>3. buf'.base + buf'.len = taken'
      BY <1>a, <2>1, <2>2, <2>3 DEF GrowthInv
    <3> QED BY <2>2, <3>1, <3>2, <3>3 DEF GrowthInv
  <2> QED BY <1>a, <2>2, <2>9, <2>10
<1>5. ASSUME buf' \in Shifted, Return, UNCHANGED <<wire, taken, stop>>, pc = "run",
             Within(buf.len - lp, 0)
      PROVE  GrowthInv'
  <2>1. buf'.base = buf.base + lp /\ buf'.len = buf.len - lp /\ buf'.cap = buf.cap
    BY <1>5, <1>a, ShiftedType
  <2>2. buf'.base + buf'.len = taken'
    BY <1>5, <1>a, <2>1 DEF GrowthInv
  <2>3. Within(buf.len, 0)'
    BY <1>5, <2>1 DEF Within
  <2>4. CapBounded'
    BY <1>5, <1>e, <2>1
  <2> QED BY <1>5, <2>2, <2>3, <2>4 DEF GrowthInv, Return
<1>6. CASE LoopDone
  <2>1. ~(lp + OFP_HEADER_BYTES <= buf.len) /\ pc = "run"
    BY <1>6 DEF LoopDone, HeaderIn
  <2>2. PICK w \in Wire : TRUE
    BY <2>1 DEF GrowthInv
  <2>3. Within(buf.len - lp, 0)
    BY <1>a, <1>b, <2>1, <2>2 DEF Within
  <2> QED BY <1>5, <1>6, <2>1, <2>3 DEF LoopDone, peerVars
<1>7. ASSUME NEW f \in Frames, PartialMessage(f) PROVE GrowthInv'
  <2>1. f.msg.len > buf.len - lp /\ pc = "run"
    BY <1>7 DEF PartialMessage, InLoop
  <2>2. f.msg \in Wire
    BY FramesType DEF BufferInv, FrameT
  <2>3. Within(buf.len - lp, 0)
    BY <1>a, <1>b, <1>d, <2>1, <2>2 DEF Within
  <2> QED BY <1>5, <1>7, <2>1, <2>3 DEF PartialMessage, peerVars
(* An early return leaves the buffer as it is.                             *)
<1>8. ASSUME stop' = loopexit, Return, UNCHANGED <<wire, taken, buf>>, pc = "run"
      PROVE  GrowthInv'
  <2>1. stop' \in {"last", "now"} /\ (stop' = "last" => stop = "no")
    BY <1>8 DEF loopexit
  <2>2. CapBounded'
    BY <1>8, <1>e, <2>1
  <2>3. (pc = "idle" /\ stop = "last" => buf.len = 0 \/ Within(buf.len, 1))'
    BY <1>8, <2>1 DEF GrowthInv, Within
  <2> QED BY <1>8, <2>1, <2>2, <2>3 DEF GrowthInv, Return
<1>9. ASSUME NEW f \in Frames, MalformedLength(f) \/ PairIsGone(f) PROVE GrowthInv'
  BY <1>8, <1>9 DEF MalformedLength, PairIsGone, InLoop, peerVars
<1>10. ASSUME NEW f \in Frames, NEW k \in Copies(f.msg), WriteFails(f, k) PROVE GrowthInv'
  BY <1>8, <1>10 DEF WriteFails, InLoop, peerVars
<1>11. ASSUME NEW f \in Frames, DropMessage(f) \/ Crash(f) PROVE GrowthInv'
  BY <1>2, <1>11 DEF DropMessage, Crash, peerVars
<1>12. ASSUME NEW f \in Frames, NEW k \in Copies(f.msg), RelayMessage(f, k) PROVE GrowthInv'
  BY <1>2, <1>12 DEF RelayMessage, peerVars
<1>13. ASSUME NEW how \in {"fin", "rst"}, RemoteCloses(how) PROVE GrowthInv'
  BY <1>2, <1>13 DEF RemoteCloses
<1>14. CASE LoopEnds
  BY <1>2, <1>14 DEF LoopEnds, peerVars
<1>15. ASSUME NEW n \in 1 .. MaxChunk, ReadFailsToExpand(n) PROVE GrowthInv'
  BY <1>15 DEF ReadFailsToExpand, ReallocSucceeds
<1>16. CASE UNCHANGED vars
  BY <1>2, <1>16 DEF vars
<1> QED
  BY <1>1, <1>3, <1>4, <1>6, <1>7, <1>9, <1>10, <1>11, <1>12, <1>13, <1>14, <1>15, <1>16, <1>17
  DEF Next, Remote, Callback, Body

(* As long as realloc succeeds, the buffer of a client does not grow with  *)
(* the length of the connection, though it is only ever expanded: it stays *)
(* below one message and three chunks, whatever the messages are.          *)
THEOREM BufferStaysSmall ==
  ASSUME ReallocSucceeds
  PROVE  Spec => []CapBounded
<1>1. BufferInv /\ GrowthInv /\ [Next]_vars => (BufferInv /\ GrowthInv)'
  BY BufferStep, GrowthStep
<1>2. GrowthInv => CapBounded
  BY DEF GrowthInv
<1> QED BY BufferInit, GrowthInit, <1>1, <1>2, PTL DEF Spec

-----------------------------------------------------------------------------
LEMMA StaysIntact ==
  ASSUME OverlapKept
  PROVE  BufferInv /\ Intact /\ [Next]_vars => Intact'
<1> SUFFICES ASSUME BufferInv, Intact, [Next]_vars PROVE Intact'
  OBVIOUS
<1>a. buf \in stream_t
  BY DEF BufferInv, TypeOK
<1>1. ASSUME buf' \in Shifted PROVE Intact'
  BY <1>1 DEF Shifted, stream_left_shift, Intact, OverlapKept
<1>2. ASSUME NEW n \in 1 .. MaxChunk, Read(n) PROVE Intact'
  BY <1>2, <1>a DEF Read, Fill, stream_expand, stream_t, Intact
<1>3. ASSUME buf' = buf PROVE Intact'
  BY <1>3 DEF Intact
<1> QED
  BY <1>1, <1>2, <1>3
  DEF Next, Remote, RemoteSend, RemoteCloses, PairCloses, PairBreaks, LoopEnds,
      Callback, ReadFailsToExpand, Body, LoopDone, MalformedLength, PartialMessage,
      DropMessage, PairIsGone, Crash, RelayMessage, WriteFails, vars

(* A thread that left its loop without being told to had read everything,  *)
(* unless the connection was reset.                                        *)
EofInv == pc = "ended" /\ stop = "no" => peer = "rst" \/ (peer = "fin" /\ taken = wire)

LEMMA EofStep == BufferInv /\ EofInv /\ [Next]_vars => EofInv'
<1> SUFFICES ASSUME BufferInv, EofInv, [Next]_vars, pc' = "ended", stop' = "no"
             PROVE  peer' = "rst" \/ (peer' = "fin" /\ taken' = wire')
  BY DEF EofInv
<1>1. CASE LoopEnds
  <2>1. UNCHANGED <<wire, peer, taken, stop>>
    BY <1>1 DEF LoopEnds, peerVars
  <2>2. stop # "no" \/ (peer = "fin" /\ taken = wire) \/ peer = "rst"
    BY <1>1 DEF LoopEnds
  <2> QED BY <2>1, <2>2
<1>2. CASE UNCHANGED vars
  BY <1>2 DEF vars, EofInv
<1>3. CASE Remote
  <2>1. peer = "open" /\ UNCHANGED <<pc, stop>>
    BY <1>3 DEF Remote, RemoteSend, RemoteCloses
  <2> QED BY <2>1 DEF EofInv
<1>4. CASE PairCloses \/ PairBreaks
  BY <1>4 DEF PairCloses, PairBreaks
<1>5. CASE Callback
  BY <1>5 DEF Callback, Read, ReadFailsToExpand, ReadStarts
<1>6. CASE Body
  BY <1>6 DEF Body, LoopDone, MalformedLength, PartialMessage, DropMessage,
              PairIsGone, Crash, RelayMessage, WriteFails, Return, InLoop
<1> QED BY <1>1, <1>2, <1>3, <1>4, <1>5, <1>6 DEF Next

(* When everything was read, the bytes of the next message, if there is    *)
(* one, are in the buffer; but then it would have been handled.            *)
LEMMA AllHandled ==
  ASSUME AllWellFormed, BufferInv, OrderInv, InStep, WaitInv, GrowthInv, EofInv, Intact
  PROVE  NothingLostAtEof
<1> SUFFICES ASSUME pc = "ended", peer = "fin", stop = "no", Len(disp) # Len(sent) PROVE FALSE
  BY DEF NothingLostAtEof
<1> DEFINE n == Len(disp) + 1
<1>a. /\ buf.base \in Nat /\ buf.len \in Nat /\ lp = 0 /\ wire \in Nat
      /\ Len(sent) \in Nat /\ Len(disp) \in Nat /\ DOMAIN sent = 1 .. Len(sent)
      /\ OFP_HEADER_BYTES \in Nat \ {0}
  BY FlowAssumption DEF BufferInv, TypeOK, stream_t
<1>1. Len(disp) <= Len(sent) /\ buf.base + lp = StartOf(n)
  BY DEF InStep
<1>2. n \in DOMAIN sent
  BY <1>a, <1>1
<1>3. sent[n].start = buf.base /\ buf.base + buf.len = wire
  BY <1>a, <1>1, <1>2 DEF StartOf, EofInv, GrowthInv
<1>4. /\ sent[n].msg \in Wire /\ sent[n].msg.len \in Nat
      /\ sent[n].msg.len >= OFP_HEADER_BYTES
  BY <1>2, SentFrames, FlowAssumption DEF AllWellFormed
<1>5. Bytes(sent[n].msg) = sent[n].msg.len
  BY <1>a, <1>4 DEF Bytes
<1>6. sent[n].start + sent[n].msg.len <= wire
  <2>1. sent[n].start + sent[n].msg.len = StartOf(n + 1)
    BY <1>2, <1>5 DEF OrderInv
  <2>2. CASE n + 1 \in DOMAIN sent
    <3>1. sent[n + 1].start < wire /\ sent[n + 1].start \in Nat
      BY <2>2, SentFrames DEF OrderInv
    <3> QED BY <1>a, <2>1, <2>2, <3>1 DEF StartOf
  <2>3. CASE n + 1 \notin DOMAIN sent
    BY <1>a, <2>1, <2>3 DEF StartOf
  <2> QED BY <2>2, <2>3
<1>7. buf.len >= sent[n].msg.len
  BY <1>a, <1>3, <1>4, <1>6
<1> QED BY <1>a, <1>2, <1>3, <1>4, <1>7 DEF WaitInv

(* If the calls succeed and the messages are no shorter than a header, a   *)
(* sender that closes the connection in good order has had every message   *)
(* handled when the thread leaves its loop by itself.                      *)
THEOREM NothingLost ==
  ASSUME ReallocSucceeds, OverlapKept, AllWellFormed
  PROVE  Spec => []NothingLostAtEof
<1> DEFINE Inv == /\ BufferInv /\ OrderInv /\ InStep /\ WaitInv
                  /\ GrowthInv /\ EofInv /\ Intact
<1>1. Init => Inv
  <2> SUFFICES ASSUME Init PROVE OrderInv /\ InStep /\ WaitInv /\ EofInv /\ Intact
    BY BufferInit, GrowthInit
  <2>1. /\ sent = <<>> /\ disp = <<>> /\ staged = <<>> /\ wire = 0 /\ lp = 0
        /\ buf.base = 0 /\ buf.bytes = "intact" /\ pc = "idle"
    BY DEF Init, stream_new
  <2> QED BY <2>1 DEF OrderInv, InStep, WaitInv, EofInv, Intact, StartOf
<1>2. Inv /\ [Next]_vars => Inv'
  BY BufferStep, OrderStep, InStepStep, WaitStep, GrowthStep, EofStep, StaysIntact
<1>3. Inv => NothingLostAtEof
  BY AllHandled
<1> QED BY <1>1, <1>2, <1>3, PTL DEF Spec

-----------------------------------------------------------------------------
(* The messages sent, as MessageRelay sees them.                           *)
Msgs == [i \in DOMAIN sent |-> sent[i].msg]

(* The loop runs only in step: a return that leaves messages it handled in *)
(* the buffer comes from the end of the pair, and while the pair is closed *)
(* no later callback gets into the loop.                                   *)
LoopInv ==
  /\ Intact
  /\ staged = <<>>
  /\ Len(disp) <= Len(sent)
  /\ pc = "run" \/ (pc = "idle" /\ pair = "open") =>
       buf.base + lp = StartOf(Len(disp) + 1)

(* Handling the frame at the front is what MessageRelay calls Take.        *)
LEMMA HandleStep ==
  ASSUME NoneMalformed, BufferInv, OrderInv, LoopInv, pc = "run",
         NEW f \in Frames, NEW k \in Copies(f.msg), lp' = lp + f.msg.len,
         disp' = Append(disp, [id |-> f.id, copies |-> k]),
         UNCHANGED <<sent, wire, buf>>
  PROVE  /\ Relay!Take
         /\ Len(disp') <= Len(sent')
         /\ buf'.base + lp' = StartOf(Len(disp) + 1)'
<1> DEFINE n == Len(disp) + 1
<1>a. /\ buf.base \in Nat /\ lp \in Nat /\ Len(sent) \in Nat /\ Len(disp) \in Nat
      /\ DOMAIN sent = 1 .. Len(sent) /\ disp \in Seq(DispT)
  BY DEF BufferInv, TypeOK, stream_t
<1>1. Len(disp) <= Len(sent) /\ buf.base + lp = StartOf(n) /\ Intact
  BY DEF LoopInv
<1>2. n \in DOMAIN sent /\ f = sent[n] /\ f.id = n
  BY <1>1, NextFrameAt
<1>3. Len(disp) < Len(sent) /\ Msgs[n] = f.msg
  BY <1>a, <1>2 DEF Msgs
<1>4. Len(Msgs) = Len(sent)
  BY <1>a DEF Msgs
<1>5. Len(disp') = n
  BY <1>a, <1>2
<1>6. Relay!Take
  <2>1. \E c \in Copies(Msgs[n]) : disp' = Append(disp, [id |-> n, copies |-> c])
    BY <1>2, <1>3
  <2>2. Len(disp) < Len(Msgs) /\ Msgs' = Msgs
    BY <1>3, <1>4 DEF Msgs
  <2> QED BY <2>1, <2>2 DEF Relay!Take, Msgs
<1>7. f.msg.len \in Nat /\ Bytes(f.msg) = f.msg.len
  BY <1>2, SentFrames, FlowAssumption DEF NoneMalformed, Bytes
<1>8. sent[n].start + f.msg.len = StartOf(n + 1)
  BY <1>2, <1>7 DEF OrderInv
<1>9. buf.base + lp = sent[n].start
  BY <1>1, <1>2 DEF StartOf
<1>10. buf'.base + lp' = StartOf(n + 1)
  BY <1>a, <1>7, <1>8, <1>9
<1>11. StartOf(Len(disp) + 1)' = StartOf(n + 1)
  BY <1>5 DEF StartOf
<1> QED BY <1>3, <1>5, <1>6, <1>10, <1>11, <1>a

(* The remote end sends: what MessageRelay calls Send.                     *)
LEMMA SendStep ==
  ASSUME BufferInv, NEW w \in Wire, RemoteSend(w)
  PROVE  Relay!Send(w)
<1>1. /\ sent' = Append(sent, [id |-> Len(sent) + 1, start |-> wire, msg |-> w])
      /\ disp' = disp /\ sent \in Seq(FrameT)
  BY DEF RemoteSend, BufferInv, TypeOK
<1>2. /\ Len(sent) \in Nat /\ DOMAIN sent = 1 .. Len(sent)
      /\ DOMAIN sent' = 1 .. Len(sent) + 1
      /\ \A i \in 1 .. Len(sent) : sent'[i] = sent[i]
      /\ sent'[Len(sent) + 1].msg = w
  BY <1>1
<1>3. Msgs \in Seq(Wire) /\ Len(Msgs) = Len(sent)
  <2>1. \A i \in DOMAIN sent : sent[i].msg \in Wire
    BY SentFrames
  <2>2. Msgs \in [1 .. Len(sent) -> Wire]
    BY <1>2, <2>1 DEF Msgs
  <2> QED BY <1>2, <2>2
<1>4. Msgs' = Append(Msgs, w)
  <2>1. Append(Msgs, w) \in Seq(Wire) /\ Len(Append(Msgs, w)) = Len(sent) + 1
    BY <1>3, AppendProperties
  <2>2. ASSUME NEW i \in 1 .. Len(sent) + 1
        PROVE  sent'[i].msg \in Wire /\ Append(Msgs, w)[i] = sent'[i].msg
    <3>1. CASE i \in 1 .. Len(sent)
      <4>1. Append(Msgs, w)[i] = Msgs[i] /\ Msgs[i] \in Wire
        BY <1>2, <1>3, <3>1, AppendProperties
      <4> QED BY <1>2, <3>1, <4>1 DEF Msgs
    <3>2. CASE i = Len(sent) + 1
      BY <1>2, <1>3, <3>2, AppendProperties
    <3>3. i \in 1 .. Len(sent) \/ i = Len(sent) + 1
      BY <1>2
    <3> QED BY <3>1, <3>2, <3>3
  <2>3. Msgs' = [i \in 1 .. Len(sent) + 1 |-> sent'[i].msg]
    BY <1>2 DEF Msgs
  <2>4. Msgs' \in [1 .. Len(sent) + 1 -> Wire]
    BY <2>2, <2>3
  <2>5. Len(sent) + 1 \in Nat
    BY <1>2
  <2>6. Msgs' \in Seq(Wire) /\ Len(Msgs') = Len(sent) + 1
    BY <2>4, <2>5
  <2>7. \A i \in 1 .. Len(Msgs') : (Msgs')[i] = Append(Msgs, w)[i]
    BY <2>2, <2>3, <2>6
  <2> QED BY <2>1, <2>6, <2>7, SeqEqual
<1> QED BY <1>1, <1>4 DEF Relay!Send, Msgs

(* Each step of FlowRead is one of MessageRelay or leaves its variables    *)
(* alone, and keeps the loop in step.                                      *)
LEMMA RelayStep ==
  ASSUME OverlapKept, WriteSucceeds, NoneMalformed,
         BufferInv, OrderInv, LoopInv, [Next]_vars
  PROVE  LoopInv' /\ [Relay!Next]_Relay!vars
<1> DEFINE Goal == LoopInv' /\ [Relay!Next]_Relay!vars
<1>a. /\ buf \in stream_t /\ buf.base \in Nat /\ lp \in Nat /\ lp <= buf.len
      /\ sent \in Seq(FrameT) /\ Len(sent) \in Nat /\ disp \in Seq(DispT) /\ Len(disp) \in Nat
      /\ DOMAIN sent = 1 .. Len(sent)
  BY DEF BufferInv, TypeOK, BufferBounded, stream_t
<1>b. Intact'
  BY StaysIntact DEF LoopInv
<1>0. ASSUME UNCHANGED <<sent, disp>> PROVE UNCHANGED Relay!vars
  BY <1>0 DEF Relay!vars
<1>1. ASSUME NEW w \in Wire, RemoteSend(w) PROVE Goal
  <2>1. Relay!Next
    BY <1>1, SendStep DEF Relay!Next
  <2>2. /\ sent' = Append(sent, [id |-> Len(sent) + 1, start |-> wire, msg |-> w])
        /\ UNCHANGED <<buf, lp, pc, pair, staged, disp>>
    BY <1>1 DEF RemoteSend
  <2>3. Len(sent') = Len(sent) + 1
    BY <1>a, <2>2
  <2>4. StartOf(Len(disp) + 1)' = StartOf(Len(disp) + 1)
    <3>1. CASE Len(disp) < Len(sent)
      BY <1>a, <2>2, <3>1 DEF StartOf
    <3>2. CASE Len(disp) = Len(sent)
      <4>1. Len(disp) + 1 \notin DOMAIN sent
        BY <1>a, <3>2
      <4>2. sent'[Len(disp) + 1].start = wire /\ Len(disp) + 1 \in DOMAIN sent'
        BY <1>a, <2>2, <3>2
      <4> QED BY <2>2, <4>1, <4>2 DEF StartOf
    <3> QED BY <1>a, <3>1, <3>2 DEF LoopInv
  <2>5. LoopInv'
    BY <1>a, <1>b, <2>2, <2>3, <2>4 DEF LoopInv
  <2> QED BY <2>1, <2>5
(* The position is kept, and whoever is in the loop after the step, or     *)
(* waits with an open pair, did so before it.                              *)
<1>2. ASSUME UNCHANGED <<sent, wire, staged, disp>>, buf'.base + lp' = buf.base + lp,
             (pc = "run" \/ (pc = "idle" /\ pair = "open"))'
                => pc = "run" \/ (pc = "idle" /\ pair = "open")
      PROVE  Goal
  <2>1. StartOf(Len(disp) + 1)' = StartOf(Len(disp) + 1)
    BY <1>2 DEF StartOf
  <2> QED BY <1>0, <1>2, <1>b, <2>1 DEF LoopInv
<1>3. CASE PairCloses \/ PairBreaks
  BY <1>2, <1>3 DEF PairCloses, PairBreaks, peerVars
<1>4. ASSUME NEW n \in 1 .. MaxChunk, Read(n) PROVE Goal
  <2>1. pc = "idle" /\ lp' = 0 /\ UNCHANGED <<sent, wire, pair, staged, disp>>
    BY <1>4 DEF Read, ReadStarts, peerVars
  <2>2. lp = 0
    BY <2>1 DEF BufferInv
  <2>3. buf'.base = buf.base
    BY <1>4, <1>a DEF Read, Fill, stream_expand, stream_t
  <2>4. pc' = "run" => pair # "closed"
    BY <1>4 DEF Read, NoPair
  <2>5. pair \in {"open", "closed"}
    BY DEF BufferInv, TypeOK
  <2> QED BY <1>2, <2>1, <2>2, <2>3, <2>4, <2>5
<1>5. ASSUME buf' \in Shifted, Return, pc = "run", UNCHANGED <<sent, wire, staged, disp>>
      PROVE  Goal
  <2>1. buf'.base = buf.base + lp /\ lp' = 0
    BY <1>5, <1>a, ShiftedType DEF Return
  <2> QED BY <1>2, <1>5, <1>a, <2>1
<1>6. CASE LoopDone
  BY <1>5, <1>6 DEF LoopDone, peerVars
<1>7. ASSUME NEW f \in Frames, PartialMessage(f) PROVE Goal
  BY <1>5, <1>7 DEF PartialMessage, InLoop, peerVars
<1>8. ASSUME NEW f \in Frames, MalformedLength(f) PROVE Goal
  <2>1. f.msg \in Wire
    BY FramesType DEF BufferInv, FrameT
  <2> QED BY <1>8, <2>1 DEF MalformedLength, NoneMalformed
<1>9. ASSUME NEW f \in Frames, PairIsGone(f) PROVE Goal
  <2>1. pc' = "idle" /\ pair' = "closed" /\ UNCHANGED <<sent, disp, staged>>
    BY <1>9 DEF PairIsGone, Return, peerVars
  <2> QED BY <1>0, <1>b, <2>1 DEF LoopInv
<1>10. ASSUME NEW f \in Frames, DropMessage(f) PROVE Goal
  <2>1. /\ pc = "run" /\ 0 \in Copies(f.msg) /\ lp' = lp + f.msg.len
        /\ disp' = Append(disp, [id |-> f.id, copies |-> 0])
        /\ UNCHANGED <<sent, wire, buf, staged>>
    BY <1>10 DEF DropMessage, InLoop, peerVars
  <2>2. Relay!Take /\ Len(disp') <= Len(sent') /\ buf'.base + lp' = StartOf(Len(disp) + 1)'
    BY <2>1, HandleStep
  <2> QED BY <1>b, <2>1, <2>2 DEF LoopInv, Relay!Next
<1>11. ASSUME NEW f \in Frames, NEW k \in Copies(f.msg), RelayMessage(f, k) PROVE Goal
  <2>1. /\ pc = "run" /\ lp' = lp + f.msg.len /\ staged' = <<>>
        /\ disp' = disp \o staged \o <<[id |-> f.id, copies |-> k]>>
        /\ UNCHANGED <<sent, wire, buf>>
    BY <1>11 DEF RelayMessage, InLoop, peerVars
  <2>2. disp' = Append(disp, [id |-> f.id, copies |-> k])
    <3>1. staged = <<>> /\ disp \o <<>> = disp
      BY <1>a DEF LoopInv
    <3> QED BY <1>a, <2>1, <3>1
  <2>3. Relay!Take /\ Len(disp') <= Len(sent') /\ buf'.base + lp' = StartOf(Len(disp) + 1)'
    BY <2>1, <2>2, HandleStep
  <2> QED BY <1>b, <2>1, <2>3 DEF LoopInv, Relay!Next
<1>12. ASSUME NEW f \in Frames, NEW k \in Copies(f.msg), WriteFails(f, k) PROVE Goal
  BY <1>12 DEF WriteFails, WriteSucceeds
<1>13. ASSUME NEW f \in Frames, Crash(f) PROVE Goal
  BY <1>2, <1>13 DEF Crash, peerVars
<1>14. ASSUME NEW how \in {"fin", "rst"}, RemoteCloses(how) PROVE Goal
  BY <1>2, <1>14 DEF RemoteCloses
<1>15. CASE LoopEnds
  BY <1>2, <1>15 DEF LoopEnds, peerVars
<1>16. ASSUME NEW n \in 1 .. MaxChunk, ReadFailsToExpand(n) PROVE Goal
  BY <1>2, <1>16 DEF ReadFailsToExpand, peerVars
<1>17. CASE UNCHANGED vars
  BY <1>2, <1>17 DEF vars
<1> QED
  BY <1>1, <1>3, <1>4, <1>6, <1>7, <1>8, <1>9, <1>10, <1>11, <1>12, <1>13, <1>14,
     <1>15, <1>16, <1>17
  DEF Next, Remote, Callback, Body

(* One direction of the proxy implements MessageRelay, whatever the chunks *)
(* and the table, when realloc fails, and when the pair is destroyed in    *)
(* the middle of the loop: it takes each message once, in order, and gives *)
(* it a fate that the rules allow.  It does as long as writes succeed, the *)
(* copies of memcpy are intact and no message has a length of 0: a return  *)
(* after a failed write or a length of 0 leaves messages that were handled *)
(* in the buffer, where the callback that runs once more finds them again. *)
THEOREM ImplementsRelay ==
  ASSUME OverlapKept, WriteSucceeds, NoneMalformed
  PROVE  Spec => RelaySpec
<1> DEFINE Inv == BufferInv /\ OrderInv /\ LoopInv
<1>1. Init => Relay!Init /\ Inv
  <2> SUFFICES ASSUME Init PROVE Relay!Init /\ OrderInv /\ LoopInv
    BY BufferInit
  <2>1. /\ sent = <<>> /\ disp = <<>> /\ staged = <<>> /\ wire = 0 /\ lp = 0
        /\ buf.base = 0 /\ buf.bytes = "intact"
    BY DEF Init, stream_new
  <2>2. Msgs = <<>>
    BY <2>1 DEF Msgs
  <2> QED BY <2>1, <2>2 DEF Relay!Init, Msgs, OrderInv, LoopInv, Intact, StartOf
<1>2. Inv /\ [Next]_vars => Inv' /\ [Relay!Next]_Relay!vars
  BY BufferStep, OrderStep, RelayStep
<1> QED BY <1>1, <1>2, PTL DEF Spec, RelaySpec, Relay!Spec

-----------------------------------------------------------------------------
(* No early return of on_flow_read is followed by another callback that    *)
(* finds the pair open: libevent runs none after the loop was told to      *)
(* exit, or the two returns that leave the pair open do not happen.        *)
NoReentry == ~ExitIsDeferred \/ (WriteSucceeds /\ NoneMalformed)

(* The loop of on_flow_read runs or may be entered again.                  *)
MayHandle == pc = "run" \/ (pc = "idle" /\ pair = "open" /\ stop # "now")

(* The j-th entry of the history is the j-th message, or one that was read *)
(* from garbled bytes, and its fate is one that the rules allow.           *)
ToldInv ==
  /\ \A j \in DOMAIN disp :
       /\ disp[j].id \in {0, j}
       /\ disp[j].id = j => j <= Len(sent) /\ disp[j].copies \in Copies(sent[j].msg)
  /\ Intact => \A j \in DOMAIN disp : disp[j].id = j
  /\ MayHandle => staged = <<>>
  /\ MayHandle /\ Intact =>
       Len(disp) <= Len(sent) /\ buf.base + lp = StartOf(Len(disp) + 1)

(* Garbled bytes stay so.                                                  *)
LEMMA IntactBefore ==
  ASSUME BufferInv, [Next]_vars, Intact'
  PROVE  Intact
<1>a. buf \in stream_t
  BY DEF BufferInv, TypeOK
<1>1. ASSUME buf' \in Shifted PROVE Intact
  BY <1>1 DEF Shifted, stream_left_shift, Intact
<1>2. ASSUME NEW n \in 1 .. MaxChunk, Read(n) PROVE Intact
  BY <1>2, <1>a DEF Read, Fill, stream_expand, stream_t, Intact
<1>3. ASSUME buf' = buf PROVE Intact
  BY <1>3 DEF Intact
<1> QED
  BY <1>1, <1>2, <1>3
  DEF Next, Remote, RemoteSend, RemoteCloses, PairCloses, PairBreaks, LoopEnds,
      Callback, ReadFailsToExpand, Body, LoopDone, MalformedLength, PartialMessage,
      DropMessage, PairIsGone, Crash, RelayMessage, WriteFails, vars

(* A message that is handled in the loop gets the next place.              *)
LEMMA ToldHandle ==
  ASSUME BufferInv, OrderInv, ToldInv, pc = "run",
         NEW f \in Frames, f.msg.len # 0, NEW k \in Copies(f.msg),
         disp' = Append(disp, [id |-> f.id, copies |-> k]),
         lp' = lp + f.msg.len, staged' = <<>>, UNCHANGED <<sent, wire, buf>>
  PROVE  ToldInv'
<1> DEFINE n == Len(disp) + 1
<1>a. /\ buf.base \in Nat /\ lp \in Nat /\ Len(sent) \in Nat /\ Len(disp) \in Nat
      /\ DOMAIN sent = 1 .. Len(sent) /\ disp \in Seq(DispT) /\ DOMAIN disp = 1 .. Len(disp)
  BY DEF BufferInv, TypeOK, stream_t
<1>b. Intact' = Intact
  BY DEF Intact
<1>c. f \in FrameT
  BY FramesType DEF BufferInv
<1>d. k \in Nat
  BY <1>c, CopiesNat DEF FrameT
<1>1. /\ DOMAIN disp' = 1 .. n
      /\ \A j \in DOMAIN disp : disp'[j] = disp[j]
      /\ disp'[n].id = f.id /\ disp'[n].copies = k
  <2>1. [id |-> f.id, copies |-> k] \in DispT
    BY <1>c, <1>d DEF DispT, FrameT
  <2>2. /\ DOMAIN disp' = 1 .. n /\ \A j \in 1 .. Len(disp) : disp'[j] = disp[j]
        /\ disp'[n] = [id |-> f.id, copies |-> k]
    BY <1>a, <2>1, AppendProperties
  <2> QED BY <1>a, <2>2
<1>2. ASSUME Intact
      PROVE  /\ n \in DOMAIN sent /\ f = sent[n] /\ f.id = n
             /\ buf.base + lp + f.msg.len = StartOf(n + 1)
  <2>1. Len(disp) <= Len(sent) /\ buf.base + lp = StartOf(n)
    BY <1>2 DEF ToldInv, MayHandle
  <2>2. n \in DOMAIN sent /\ f = sent[n] /\ f.id = n
    BY <1>2, <2>1, NextFrameAt
  <2>3. Bytes(f.msg) = f.msg.len
    BY DEF Bytes
  <2>4. sent[n].start + f.msg.len = StartOf(n + 1)
    BY <2>2, <2>3 DEF OrderInv
  <2> QED BY <2>1, <2>2, <2>4 DEF StartOf
<1>3. f.id \in {0, n} /\ (f.id = n => n <= Len(sent) /\ k \in Copies(sent[n].msg))
  <2>1. CASE Intact
    BY <1>a, <1>2, <2>1
  <2>2. CASE ~Intact
    BY <1>a, <2>2 DEF Frames
  <2> QED BY <2>1, <2>2
<1>4. \A j \in DOMAIN disp' :
        /\ disp'[j].id \in {0, j}
        /\ disp'[j].id = j => j <= Len(sent') /\ disp'[j].copies \in Copies(sent'[j].msg)
  <2> SUFFICES ASSUME NEW j \in DOMAIN disp'
               PROVE  /\ disp'[j].id \in {0, j}
                      /\ disp'[j].id = j => j <= Len(sent) /\ disp'[j].copies \in Copies(sent[j].msg)
    OBVIOUS
  <2>1. CASE j \in DOMAIN disp
    BY <1>1, <2>1 DEF ToldInv
  <2>2. CASE j = n
    BY <1>1, <1>3, <2>2
  <2> QED BY <1>a, <1>1, <2>1, <2>2
<1>5. Intact' => \A j \in DOMAIN disp' : disp'[j].id = j
  BY <1>a, <1>b, <1>1, <1>2 DEF ToldInv
<1>6. Len(disp') = n
  BY <1>a
<1>7. Intact' => Len(disp') <= Len(sent') /\ buf'.base + lp' = StartOf(Len(disp) + 1)'
  <2> SUFFICES ASSUME Intact'
               PROVE  Len(disp') <= Len(sent') /\ buf'.base + lp' = StartOf(Len(disp) + 1)'
    OBVIOUS
  <2>1. StartOf(Len(disp) + 1)' = StartOf(n + 1)
    BY <1>6 DEF StartOf
  <2>2. n \in DOMAIN sent /\ buf.base + lp + f.msg.len = StartOf(n + 1)
    BY <1>b, <1>2
  <2>3. f.msg.len \in Nat
    BY <1>c, FlowAssumption DEF FrameT
  <2>4. buf'.base + lp' = StartOf(n + 1)
    BY <1>a, <2>2, <2>3
  <2> QED BY <1>a, <1>6, <2>1, <2>2, <2>4
<1> QED BY <1>4, <1>5, <1>7 DEF ToldInv

LEMMA ToldStep ==
  ASSUME NoReentry, BufferInv, OrderInv, ToldInv, [Next]_vars
  PROVE  ToldInv'
<1>a. /\ buf \in stream_t /\ buf.base \in Nat /\ lp \in Nat /\ lp <= buf.len
      /\ sent \in Seq(FrameT) /\ Len(sent) \in Nat /\ disp \in Seq(DispT) /\ Len(disp) \in Nat
      /\ DOMAIN sent = 1 .. Len(sent) /\ DOMAIN disp = 1 .. Len(disp)
      /\ pair \in {"open", "closed"}
  BY DEF BufferInv, TypeOK, BufferBounded, stream_t
<1>b. Intact' => Intact
  BY IntactBefore
<1>c. Len(sent) \in Nat /\ Len(disp) \in Nat /\ DOMAIN sent = 1 .. Len(sent)
  BY <1>a
(* The position is kept, or the loop is not entered again.                 *)
<1>1. ASSUME UNCHANGED <<sent, wire, disp>>,
             MayHandle' => /\ MayHandle /\ staged' = staged
                           /\ buf'.base + lp' = buf.base + lp
      PROVE  ToldInv'
  <2>1. StartOf(Len(disp) + 1)' = StartOf(Len(disp) + 1)
    BY <1>1 DEF StartOf
  <2>2. MayHandle' => staged' = <<>>
    BY <1>1 DEF ToldInv
  <2>3. MayHandle' /\ Intact' =>
          Len(disp') <= Len(sent') /\ buf'.base + lp' = StartOf(Len(disp) + 1)'
    BY <1>1, <1>b, <2>1 DEF ToldInv
  <2> QED BY <1>1, <1>b, <2>2, <2>3 DEF ToldInv
<1>2. ASSUME NEW w \in Wire, RemoteSend(w) PROVE ToldInv'
  <2>1. /\ sent' = Append(sent, [id |-> Len(sent) + 1, start |-> wire, msg |-> w])
        /\ UNCHANGED <<buf, lp, pc, stop, pair, staged, disp>>
    BY <1>2 DEF RemoteSend
  <2>2. Len(sent') = Len(sent) + 1 /\ \A i \in 1 .. Len(sent) : sent'[i] = sent[i]
    BY <1>a, <2>1
  <2>3. ASSUME Len(disp) <= Len(sent)
        PROVE  StartOf(Len(disp) + 1)' = StartOf(Len(disp) + 1)
    <3>1. CASE Len(disp) + 1 \in DOMAIN sent
      <4>1. Len(disp) + 1 \in DOMAIN sent' /\ sent'[Len(disp) + 1] = sent[Len(disp) + 1]
        BY <1>a, <2>1, <3>1
      <4> QED BY <2>1, <3>1, <4>1 DEF StartOf
    <3>2. CASE Len(disp) + 1 \notin DOMAIN sent
      <4>1. Len(disp) = Len(sent)
        BY <1>c, <2>3, <3>2
      <4>2. sent'[Len(disp) + 1].start = wire /\ Len(disp) + 1 \in DOMAIN sent'
        BY <1>a, <2>1, <4>1
      <4> QED BY <2>1, <3>2, <4>2 DEF StartOf
    <3> QED BY <3>1, <3>2
  <2>4. MayHandle' = MayHandle /\ Intact' = Intact
    BY <2>1 DEF MayHandle, Intact
  <2>5. MayHandle' /\ Intact' =>
          Len(disp') <= Len(sent') /\ buf'.base + lp' = StartOf(Len(disp) + 1)'
    BY <1>a, <2>1, <2>2, <2>3, <2>4 DEF ToldInv
  <2>6. \A j \in DOMAIN disp' :
          /\ disp'[j].id \in {0, j}
          /\ disp'[j].id = j => j <= Len(sent') /\ disp'[j].copies \in Copies(sent'[j].msg)
    BY <1>a, <2>1, <2>2 DEF ToldInv
  <2> QED BY <2>1, <2>4, <2>5, <2>6 DEF ToldInv
<1>3. CASE PairCloses \/ PairBreaks
  BY <1>1, <1>3 DEF PairCloses, PairBreaks, MayHandle, peerVars
<1>4. ASSUME NEW n \in 1 .. MaxChunk, Read(n) PROVE ToldInv'
  <2>1. /\ pc = "idle" /\ stop # "now" /\ lp' = 0
        /\ UNCHANGED <<sent, wire, pair, staged, disp>>
    BY <1>4 DEF Read, ReadStarts, peerVars
  <2>2. lp = 0
    BY <2>1 DEF BufferInv
  <2>3. buf'.base = buf.base
    BY <1>4, <1>a DEF Read, Fill, stream_expand, stream_t
  <2>4. pc' = "run" => pair # "closed"
    BY <1>4 DEF Read, NoPair
  <2> QED BY <1>1, <1>a, <2>1, <2>2, <2>3, <2>4 DEF MayHandle
<1>5. ASSUME buf' \in Shifted, Return, pc = "run", UNCHANGED <<sent, wire, staged, disp>>
      PROVE  ToldInv'
  <2>1. buf'.base = buf.base + lp /\ lp' = 0
    BY <1>5, <1>a, ShiftedType DEF Return
  <2> QED BY <1>1, <1>5, <1>a, <2>1 DEF MayHandle
<1>6. CASE LoopDone
  BY <1>5, <1>6 DEF LoopDone, peerVars
<1>7. ASSUME NEW f \in Frames, PartialMessage(f) PROVE ToldInv'
  BY <1>5, <1>7 DEF PartialMessage, InLoop, peerVars
(* The early returns.                                                      *)
<1>8. ASSUME ~ExitIsDeferred, stop' = loopexit, Return, UNCHANGED <<sent, wire, disp>>
      PROVE  ToldInv'
  BY <1>1, <1>8 DEF loopexit, Return, MayHandle
<1>9. ASSUME NEW f \in Frames, MalformedLength(f) PROVE ToldInv'
  <2>1. f.msg \in Wire /\ f.msg.len = 0
    BY <1>9, FramesType DEF BufferInv, FrameT, MalformedLength
  <2>2. ~ExitIsDeferred
    BY <2>1 DEF NoReentry, NoneMalformed
  <2> QED BY <1>8, <1>9, <2>2 DEF MalformedLength, peerVars
<1>10. ASSUME NEW f \in Frames, NEW k \in Copies(f.msg), WriteFails(f, k) PROVE ToldInv'
  <2>1. ~ExitIsDeferred
    BY <1>10 DEF NoReentry, WriteFails, WriteSucceeds
  <2> QED BY <1>8, <1>10, <2>1 DEF WriteFails, peerVars
<1>11. ASSUME NEW f \in Frames, PairIsGone(f) PROVE ToldInv'
  <2>1. pc' = "idle" /\ pair' = "closed" /\ UNCHANGED <<sent, wire, disp>>
    BY <1>11 DEF PairIsGone, Return, peerVars
  <2> QED BY <1>1, <2>1 DEF MayHandle
<1>12. ASSUME NEW f \in Frames, DropMessage(f) PROVE ToldInv'
  <2>1. /\ pc = "run" /\ f.msg.len # 0 /\ 0 \in Copies(f.msg) /\ lp' = lp + f.msg.len
        /\ disp' = Append(disp, [id |-> f.id, copies |-> 0])
        /\ UNCHANGED <<sent, wire, buf, staged>>
    BY <1>12 DEF DropMessage, InLoop, Complete, peerVars
  <2>2. staged' = <<>>
    BY <2>1 DEF ToldInv, MayHandle
  <2> QED BY <2>1, <2>2, ToldHandle
<1>13. ASSUME NEW f \in Frames, NEW k \in Copies(f.msg), RelayMessage(f, k) PROVE ToldInv'
  <2>1. /\ pc = "run" /\ f.msg.len # 0 /\ lp' = lp + f.msg.len /\ staged' = <<>>
        /\ disp' = disp \o staged \o <<[id |-> f.id, copies |-> k]>>
        /\ UNCHANGED <<sent, wire, buf>>
    BY <1>13 DEF RelayMessage, InLoop, Complete, peerVars
  <2>2. disp' = Append(disp, [id |-> f.id, copies |-> k])
    <3>1. staged = <<>> /\ disp \o <<>> = disp
      BY <1>a, <2>1 DEF ToldInv, MayHandle
    <3> QED BY <1>a, <2>1, <3>1
  <2> QED BY <2>1, <2>2, ToldHandle
<1>14. ASSUME NEW f \in Frames, Crash(f) PROVE ToldInv'
  BY <1>1, <1>14 DEF Crash, MayHandle, peerVars
<1>15. ASSUME NEW how \in {"fin", "rst"}, RemoteCloses(how) PROVE ToldInv'
  BY <1>1, <1>15 DEF RemoteCloses, MayHandle
<1>16. CASE LoopEnds
  BY <1>1, <1>16 DEF LoopEnds, MayHandle, peerVars
<1>17. ASSUME NEW n \in 1 .. MaxChunk, ReadFailsToExpand(n) PROVE ToldInv'
  BY <1>1, <1>17 DEF ReadFailsToExpand, ReadStarts, MayHandle, peerVars
<1>18. CASE UNCHANGED vars
  BY <1>1, <1>18 DEF vars, MayHandle
<1> QED
  BY <1>2, <1>3, <1>4, <1>6, <1>7, <1>9, <1>10, <1>11, <1>12, <1>13, <1>14, <1>15, <1>16,
     <1>17, <1>18
  DEF Next, Remote, Callback, Body

(* What the table gives a message that passes.                             *)
LEMMA CopiesAsTold ==
  ASSUME NEW m \in Wire, m.ver \in Versions, NEW k \in Copies(m), k > 0
  PROVE  k = 1 + atk_dup_action_table[m.ver][m.type]
<1>1. should_dup_msg(m.ver, m.type) = {atk_dup_action_table[m.ver][m.type]}
  BY DEF should_dup_msg, Cell
<1> QED BY <1>1 DEF Copies

(* Each message is delivered as often as the table says and only once,     *)
(* whatever the chunks, also when bytes are garbled, realloc or a write    *)
(* fails, headers are malformed or the pair is destroyed, as long as no    *)
(* early return is followed by a callback that finds the pair open.  With  *)
(* such a callback it fails: the run flow_reentry.                         *)
THEOREM ToldWithoutReentry ==
  ASSUME NoReentry
  PROVE  Spec => []DeliveredAsTold
<1> DEFINE Inv == BufferInv /\ OrderInv /\ ToldInv
<1>1. Init => Inv
  <2> SUFFICES ASSUME Init PROVE OrderInv /\ ToldInv
    BY BufferInit
  <2>1. /\ sent = <<>> /\ disp = <<>> /\ staged = <<>> /\ wire = 0 /\ lp = 0
        /\ buf.base = 0 /\ buf.bytes = "intact"
    BY DEF Init, stream_new
  <2> QED BY <2>1 DEF OrderInv, ToldInv, Intact, StartOf
<1>2. Inv /\ [Next]_vars => Inv'
  BY BufferStep, OrderStep, ToldStep
<1>3. Inv => DeliveredAsTold
  <2> SUFFICES ASSUME BufferInv, ToldInv, NEW i \in DOMAIN disp, disp[i].id # 0,
                      sent[disp[i].id].msg.ver \in Versions,
                      NEW j \in DOMAIN disp, disp[j].id = disp[i].id, disp[j].copies > 0
               PROVE  /\ disp[j].copies =
                           1 + atk_dup_action_table[sent[disp[i].id].msg.ver]
                                                   [sent[disp[i].id].msg.type]
                      /\ {n \in DOMAIN disp : disp[n].id = disp[i].id /\ disp[n].copies > 0}
                           = {j}
    BY DEF DeliveredAsTold
  <2>1. disp[i].id = j /\ \A n \in DOMAIN disp : disp[n].id = j => n = j
    BY DEF ToldInv
  <2>2. j \in DOMAIN sent /\ disp[j].copies \in Copies(sent[j].msg)
    <3>1. DOMAIN disp = 1 .. Len(disp) /\ DOMAIN sent = 1 .. Len(sent)
          /\ Len(disp) \in Nat /\ Len(sent) \in Nat
      BY DEF BufferInv, TypeOK
    <3> QED BY <2>1, <3>1 DEF ToldInv
  <2>3. sent[j].msg \in Wire
    BY <2>2, SentFrames
  <2> QED BY <2>1, <2>2, <2>3, CopiesAsTold
<1> QED BY <1>1, <1>2, <1>3, PTL DEF Spec
=============================================================================
