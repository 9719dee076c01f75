--------------------------- MODULE FlowReadProofs ---------------------------
(***************************************************************************)
(* Proofs about FlowRead, for every set of messages, every size of header, *)
(* buffer and chunk, every content of the rule tables, and whatever calls  *)
(* may fail.                                                               *)
(***************************************************************************)
EXTENDS FlowRead, SequenceTheorems, TLAPS

(* What action_inject has on_flow_read write is a number of copies.        *)
LEMMA CopiesNat ==
  ASSUME NEW m \in Wire
  PROVE  Copies(m) \subseteq Nat
<1>1. m.ver \in Nat /\ m.type \in Nat
  BY FlowAssumption
<1>2. CASE ~is_valid_ofp_header(m.ver, m.type)
  BY <1>2 DEF Copies
<1>3. CASE is_valid_ofp_header(m.ver, m.type)
  <2>1. should_dup_msg(m.ver, m.type) \subseteq Nat
    <3>1. CASE m.ver \in Versions
      <4>1. m.type \in Types
        BY <1>1, <1>3, TableAssumption DEF is_valid_ofp_header, Types
      <4>2. atk_dup_action_table[m.ver] \in [Types -> Counter]
        BY <3>1, TableAssumption
      <4>3. atk_dup_action_table[m.ver][m.type] \in Counter
        BY <4>1, <4>2
      <4>4. atk_dup_action_table[m.ver][m.type] \in Nat
        BY <4>3 DEF Counter
      <4> QED BY <3>1, <4>4 DEF should_dup_msg, Cell
    <3>2. CASE m.ver \notin Versions
      BY <3>2, TableAssumption DEF should_dup_msg, Cell, Counter
    <3> QED BY <3>1, <3>2
  <2>2. Copies(m) \subseteq {0} \cup {1 + r : r \in should_dup_msg(m.ver, m.type)}
    BY <1>3 DEF Copies
  <2> QED BY <2>1, <2>2
<1> QED BY <1>2, <1>3

(* A shift moves the window of the connection that the buffer holds.       *)
LEMMA ShiftedType ==
  ASSUME buf \in stream_t, lp \in Nat, lp <= buf.len,
         NEW b \in Shifted
  PROVE  /\ b \in stream_t
         /\ b.base = buf.base + lp
         /\ b.len = buf.len - lp
         /\ b.cap = buf.cap
         /\ b.bytes = "intact" => buf.bytes = "intact"
  BY OverlapAssumption DEF Shifted, stream_left_shift, stream_t, Condition

(* A frame that on_flow_read may read is one of the messages.              *)
LEMMA FramesType ==
  ASSUME TypeOK, NEW f \in Frames
  PROVE  f \in FrameT
<1>1. CASE Intact
  BY <1>1 DEF Frames, TypeOK
<1>2. CASE ~Intact
  <2>1. buf.base + lp \in Nat
    BY DEF TypeOK, stream_t
  <2> QED BY <1>2, <2>1 DEF Frames, FrameT
<1> QED BY <1>1, <1>2

-----------------------------------------------------------------------------
(* The buffer: its type, its bounds, and no processed part outside the     *)
(* loop.                                                                   *)
BufferInv ==
  /\ TypeOK
  /\ BufferBounded
  /\ pc \in {"idle", "ended"} => lp = 0
  /\ \A i \in DOMAIN sent : sent[i].id = i

LEMMA BufferInit == Init => BufferInv
<1> SUFFICES ASSUME Init PROVE BufferInv
  OBVIOUS
<1>1. buf \in stream_t /\ buf.len = 0 /\ buf.base = 0 /\ buf.cap \in Nat
  BY FlowAssumption DEF Init, stream_new, stream_t, Condition
<1>2. TypeOK
  BY <1>1 DEF Init, TypeOK
<1> QED BY <1>1, <1>2 DEF Init, BufferInv, BufferBounded

LEMMA BufferStep == BufferInv /\ [Next]_vars => BufferInv'
<1> SUFFICES ASSUME BufferInv, [Next]_vars PROVE BufferInv'
  OBVIOUS
<1> USE DEF BufferInv
<1>1. ASSUME NEW w \in Wire, RemoteSend(w) PROVE BufferInv'
  <2>1. Bytes(w) \in Nat
    BY FlowAssumption DEF Bytes
  <2>2. [id |-> Len(sent) + 1, start |-> wire, msg |-> w] \in FrameT
    BY DEF TypeOK, FrameT
  <2>3. TypeOK'
    BY <1>1, <2>1, <2>2 DEF RemoteSend, TypeOK
  <2> QED BY <1>1, <2>3 DEF RemoteSend, TypeOK, BufferBounded
<1>2. ASSUME NEW how \in {"fin", "rst"}, RemoteCloses(how) PROVE BufferInv'
  BY <1>2 DEF RemoteCloses, TypeOK, BufferBounded
<1>3. CASE PairCloses \/ PairBreaks
  BY <1>3 DEF PairCloses, PairBreaks, TypeOK, BufferBounded, peerVars
<1>4. CASE LoopEnds
  BY <1>4 DEF LoopEnds, TypeOK, BufferBounded, peerVars
<1>5. ASSUME NEW n \in 1 .. MaxChunk, ReadFailsToExpand(n) PROVE BufferInv'
  <2>1. n \in Nat
    BY FlowAssumption
  <2> QED BY <1>5, <2>1 DEF ReadFailsToExpand, ReadStarts, TypeOK, BufferBounded, peerVars, stream_t
<1>6. ASSUME NEW n \in 1 .. MaxChunk, Read(n) PROVE BufferInv'
  <2> DEFINE bytes == taken + n - (buf.base + buf.len)
  <2>1. n \in Nat /\ bytes \in Nat /\ buf \in stream_t
    BY FlowAssumption DEF TypeOK, BufferBounded, stream_t
  <2>2. /\ buf' \in stream_t
        /\ buf'.base = buf.base
        /\ buf'.len = buf.len + bytes
        /\ buf'.len <= buf'.cap
    <3>1. CASE NeedsExpand(bytes)
      <4>1. buf' = [[buf EXCEPT !.cap = @ + bytes] EXCEPT !.len = @ + bytes]
        BY <1>6, <3>1 DEF Read, stream_expand, Fill
      <4>2. buf' = [base |-> buf.base, len |-> buf.len + bytes,
                    cap |-> buf.cap + bytes, bytes |-> buf.bytes]
        BY <2>1, <4>1 DEF stream_t
      <4> QED BY <2>1, <4>2 DEF stream_t, BufferBounded
    <3>2. CASE ~NeedsExpand(bytes)
      <4>1. buf' = [buf EXCEPT !.len = @ + bytes]
        BY <1>6, <3>2 DEF Read, Fill
      <4>2. buf' = [base |-> buf.base, len |-> buf.len + bytes,
                    cap |-> buf.cap, bytes |-> buf.bytes]
        BY <2>1, <4>1 DEF stream_t
      <4> QED BY <2>1, <3>2, <4>2 DEF stream_t, NeedsExpand
    <3> QED BY <3>1, <3>2
  <2>3. /\ taken' = taken + n /\ taken' <= wire /\ lp' = 0
        /\ UNCHANGED <<sent, wire, peer, pair, staged, disp>>
    BY <1>6 DEF Read, ReadStarts, peerVars
  <2>4. pc' \in {"idle", "run"} /\ stop' \in {"no", "last", "now"}
    BY <1>6 DEF Read, NoPair, loopexit, TypeOK
  <2>5. TypeOK'
    BY <2>1, <2>2, <2>3, <2>4 DEF TypeOK
  <2>6. BufferBounded'
    <3>1. buf.base \in Nat /\ buf.len \in Nat /\ taken \in Nat
      BY <2>1 DEF stream_t, TypeOK
    <3>2. buf'.base + buf'.len = taken + n
      BY <2>1, <2>2, <3>1
    <3> QED BY <2>1, <2>2, <2>3, <3>1, <3>2 DEF BufferBounded
  <2> QED BY <2>3, <2>5, <2>6
<1>7. CASE LoopDone
  <2>1. buf' \in Shifted /\ lp \in Nat /\ lp <= buf.len /\ buf \in stream_t
    BY <1>7 DEF LoopDone, TypeOK, BufferBounded
  <2>2. /\ buf' \in stream_t /\ buf'.base = buf.base + lp
        /\ buf'.len = buf.len - lp /\ buf'.cap = buf.cap
    BY <2>1, ShiftedType
  <2> QED BY <1>7, <2>1, <2>2 DEF LoopDone, Return, TypeOK, BufferBounded, peerVars, stream_t
<1>8. ASSUME NEW f \in Frames, MalformedLength(f) PROVE BufferInv'
  BY <1>8 DEF MalformedLength, Return, loopexit, TypeOK, BufferBounded, peerVars, stream_t
<1>9. ASSUME NEW f \in Frames, PartialMessage(f) PROVE BufferInv'
  <2>1. buf' \in Shifted /\ lp \in Nat /\ lp <= buf.len /\ buf \in stream_t
    BY <1>9 DEF PartialMessage, TypeOK, BufferBounded
  <2>2. /\ buf' \in stream_t /\ buf'.base = buf.base + lp
        /\ buf'.len = buf.len - lp /\ buf'.cap = buf.cap
    BY <2>1, ShiftedType
  <2> QED BY <1>9, <2>1, <2>2 DEF PartialMessage, Return, TypeOK, BufferBounded, peerVars, stream_t
<1>10. ASSUME NEW f \in Frames, Complete(f), f.id \in Nat
       PROVE  /\ lp + f.msg.len \in Nat
              /\ lp + f.msg.len <= buf.len
  <2>1. f.msg.len \in Nat
    BY FramesType, FlowAssumption DEF FrameT
  <2> QED BY <1>10, <2>1 DEF Complete, TypeOK, BufferBounded, stream_t
<1>11. ASSUME NEW f \in Frames, DropMessage(f) PROVE BufferInv'
  <2>1. f.id \in Nat
    BY FramesType DEF FrameT
  <2>2. lp + f.msg.len \in Nat /\ lp + f.msg.len <= buf.len
    BY <1>10, <1>11, <2>1 DEF DropMessage
  <2>3. disp' \in Seq(DispT)
    BY <1>11, <2>1 DEF DropMessage, TypeOK, DispT
  <2>4. pc = "run"
    BY <1>11 DEF DropMessage, InLoop
  <2> QED BY <1>11, <2>2, <2>3, <2>4 DEF DropMessage, TypeOK, BufferBounded, peerVars
<1>12. ASSUME NEW f \in Frames, PairIsGone(f) PROVE BufferInv'
  BY <1>12 DEF PairIsGone, Return, loopexit, TypeOK, BufferBounded, peerVars, stream_t
<1>13. ASSUME NEW f \in Frames, Crash(f) PROVE BufferInv'
  BY <1>13 DEF Crash, TypeOK, BufferBounded, peerVars
<1>14. ASSUME NEW f \in Frames, NEW k \in Copies(f.msg)
       PROVE  [id |-> f.id, copies |-> k] \in DispT
  <2>1. f.id \in Nat /\ f.msg \in Wire
    BY FramesType DEF FrameT
  <2>2. k \in Nat
    BY <2>1, CopiesNat
  <2> QED BY <2>1, <2>2 DEF DispT
<1>15. ASSUME NEW f \in Frames, NEW k \in Copies(f.msg), RelayMessage(f, k) PROVE BufferInv'
  <2>1. f.id \in Nat
    BY FramesType DEF FrameT
  <2>2. lp + f.msg.len \in Nat /\ lp + f.msg.len <= buf.len
    BY <1>10, <1>15, <2>1 DEF RelayMessage
  <2>3. disp' \in Seq(DispT) /\ staged' \in Seq(DispT)
    BY <1>14, <1>15 DEF RelayMessage, TypeOK
  <2>4. pc = "run"
    BY <1>15 DEF RelayMessage, InLoop
  <2> QED BY <1>15, <2>2, <2>3, <2>4 DEF RelayMessage, TypeOK, BufferBounded, peerVars
<1>16. ASSUME NEW f \in Frames, NEW k \in Copies(f.msg), WriteFails(f, k) PROVE BufferInv'
  <2>1. staged' \in Seq(DispT)
    BY <1>14, <1>16 DEF WriteFails, TypeOK
  <2> QED BY <1>16, <2>1 DEF WriteFails, Return, loopexit, TypeOK, BufferBounded, peerVars, stream_t
<1>17. CASE UNCHANGED vars
  BY <1>17 DEF vars, TypeOK, BufferBounded
<1> QED
  BY <1>1, <1>2, <1>3, <1>4, <1>5, <1>6, <1>7, <1>8, <1>9, <1>11, <1>12, <1>13,
     <1>15, <1>16, <1>17
  DEF Next, Remote, Callback, Body

(* on_flow_read keeps every variable in its type.                          *)
THEOREM TypeCorrect == Spec => []TypeOK
<1>1. BufferInv => TypeOK
  BY DEF BufferInv
<1> QED BY BufferInit, BufferStep, <1>1, PTL DEF Spec

(* on_flow_read never copies more into the buffer than was allocated and   *)
(* never processes more than was copied, however the stream is cut into    *)
(* chunks and whichever realloc or write fails.                            *)
THEOREM BufferSafe == Spec => []BufferBounded
<1>1. BufferInv => BufferBounded
  BY DEF BufferInv
<1> QED BY BufferInit, BufferStep, <1>1, PTL DEF Spec
-----------------------------------------------------------------------------
(* The frames follow one another without gaps, and each takes some bytes.  *)
OrderInv ==
  /\ \A i \in DOMAIN sent : sent[i].start + Bytes(sent[i].msg) = StartOf(i + 1)
  /\ \A i, j \in DOMAIN sent : i < j => sent[i].start < sent[j].start
  /\ \A i \in DOMAIN sent : sent[i].start < wire

LEMMA BytesPositive ==
  ASSUME NEW w \in Wire
  PROVE  Bytes(w) \in Nat /\ Bytes(w) > 0
  BY FlowAssumption DEF Bytes

LEMMA SentFrames ==
  ASSUME BufferInv, NEW i \in DOMAIN sent
  PROVE  sent[i] \in FrameT /\ sent[i].start \in Nat /\ sent[i].msg \in Wire
<1>1. sent[i] \in FrameT
  BY DEF BufferInv, TypeOK
<1> QED BY <1>1 DEF FrameT

(* Only the remote end changes what was sent.                              *)
LEMMA OnlyRemoteSends ==
  Next => (\E w \in Wire : RemoteSend(w)) \/ UNCHANGED <<sent, wire>>
  BY DEF Next, Remote, RemoteCloses, PairCloses, PairBreaks, LoopEnds, Callback, Read,
         ReadStarts, ReadFailsToExpand, Body, LoopDone, MalformedLength,
         PartialMessage, DropMessage, PairIsGone, Crash, RelayMessage,
         WriteFails, peerVars

LEMMA OrderStep == BufferInv /\ OrderInv /\ [Next]_vars => OrderInv'
<1> SUFFICES ASSUME BufferInv, OrderInv, [Next]_vars PROVE OrderInv'
  OBVIOUS
<1>1. ASSUME NEW w \in Wire, RemoteSend(w) PROVE OrderInv'
  <2>1. /\ sent' = Append(sent, [id |-> Len(sent) + 1, start |-> wire, msg |-> w])
        /\ wire' = wire + Bytes(w)
        /\ wire \in Nat /\ sent \in Seq(FrameT)
    BY <1>1 DEF RemoteSend, BufferInv, TypeOK
  <2>2. Bytes(w) \in Nat /\ Bytes(w) > 0
    BY BytesPositive
  <2>3. /\ Len(sent') = Len(sent) + 1
        /\ \A i \in DOMAIN sent : sent'[i] = sent[i]
        /\ sent'[Len(sent) + 1].start = wire
        /\ sent'[Len(sent) + 1].msg = w
        /\ DOMAIN sent = 1 .. Len(sent) /\ DOMAIN sent' = 1 .. Len(sent) + 1
        /\ Len(sent) \in Nat
    BY <2>1
  <2>4. \A i \in DOMAIN sent : sent[i].start \in Nat
    BY SentFrames
  <2>5. \A i \in DOMAIN sent : StartOf(i + 1)' = StartOf(i + 1)
    BY <2>1, <2>3 DEF StartOf
  <2>6. \A i \in DOMAIN sent' :
          sent'[i].start + Bytes(sent'[i].msg) = StartOf(i + 1)'
    <3> SUFFICES ASSUME NEW i \in DOMAIN sent'
                 PROVE  sent'[i].start + Bytes(sent'[i].msg) = StartOf(i + 1)'
      OBVIOUS
    <3>1. CASE i \in DOMAIN sent
      BY <3>1, <2>3, <2>5 DEF OrderInv
    <3>2. CASE i = Len(sent) + 1
      <4>1. i + 1 \notin DOMAIN sent'
        BY <3>2, <2>3
      <4>2. StartOf(i + 1)' = wire + Bytes(w)
        BY <4>1, <2>1 DEF StartOf
      <4>3. sent'[i].start = wire /\ sent'[i].msg = w
        BY <3>2, <2>3
      <4> QED BY <4>2, <4>3
    <3>3. i \in DOMAIN sent \/ i = Len(sent) + 1
      BY <2>3
    <3> QED BY <3>1, <3>2, <3>3
  <2>7. \A i, j \in DOMAIN sent' : i < j => sent'[i].start < sent'[j].start
    BY <2>3 DEF OrderInv
  <2>8. \A i \in DOMAIN sent' : sent'[i].start < wire'
    BY <2>1, <2>2, <2>3, <2>4 DEF OrderInv
  <2> QED BY <2>6, <2>7, <2>8 DEF OrderInv
<1>2. CASE UNCHANGED <<sent, wire>>
  BY <1>2 DEF OrderInv, StartOf
<1> QED BY <1>1, <1>2, OnlyRemoteSends DEF vars

(* With intact bytes, the frame on_flow_read looks at is the first one     *)
(* that has not been handled, if that one starts at its position.          *)
LEMMA NextFrameAt ==
  ASSUME BufferInv, OrderInv, Intact, NEW f \in Frames,
         Len(disp) <= Len(sent), buf.base + lp = StartOf(Len(disp) + 1)
  PROVE  /\ Len(disp) + 1 \in DOMAIN sent
         /\ f = sent[Len(disp) + 1]
         /\ f.id = Len(disp) + 1
<1> DEFINE at == buf.base + lp
           n  == Len(disp) + 1
<1>1. PICK i \in DOMAIN sent : f = sent[i] /\ sent[i].start = at
  BY DEF Frames
<1>2. at = StartOf(n) /\ Len(disp) <= Len(sent)
  OBVIOUS
<1>3. /\ sent \in Seq(FrameT) /\ DOMAIN sent = 1 .. Len(sent)
      /\ Len(sent) \in Nat /\ Len(disp) \in Nat
  BY DEF BufferInv, TypeOK
<1>4. n \in DOMAIN sent
  <2> SUFFICES ASSUME n \notin DOMAIN sent PROVE FALSE
    OBVIOUS
  <2>1. sent[i].start = wire
    BY <1>1, <1>2 DEF StartOf
  <2>2. sent[i].start < wire /\ wire \in Nat
    BY DEF OrderInv, BufferInv, TypeOK
  <2> QED BY <2>1, <2>2
<1>5. sent[n].start = sent[i].start
  BY <1>1, <1>2, <1>4 DEF StartOf
<1>6. sent[n].start \in Nat
  BY <1>4, SentFrames
<1>7. i = n
  BY <1>3, <1>4, <1>5, <1>6 DEF OrderInv
<1> QED BY <1>1, <1>4, <1>7 DEF BufferInv

(* In particular as long as on_flow_read is in step.                       *)
LEMMA NextFrame ==
  ASSUME BufferInv, OrderInv, InStep, stop = "no", Intact, NEW f \in Frames
  PROVE  /\ Len(disp) + 1 \in DOMAIN sent
         /\ f = sent[Len(disp) + 1]
         /\ f.id = Len(disp) + 1
<1>1. Len(disp) <= Len(sent) /\ buf.base + lp = StartOf(Len(disp) + 1)
  BY DEF InStep
<1> QED BY <1>1, NextFrameAt

(* Every step keeps on_flow_read in step with the sender: an action that   *)
(* handles a frame moves len_processed to the start of the next one, and   *)
(* a shift moves the base by what len_processed loses.                     *)
LEMMA InStepStep ==
  BufferInv /\ OrderInv /\ InStep /\ [Next]_vars => InStep'
<1> SUFFICES ASSUME BufferInv, OrderInv, InStep, [Next]_vars, stop' = "no", Intact'
             PROVE  /\ staged' = <<>>
                    /\ Len(disp') <= Len(sent')
                    /\ buf'.base + lp' = StartOf(Len(disp) + 1)'
                    /\ \A i \in DOMAIN disp' : disp'[i].id = i
  BY DEF InStep
<1> DEFINE Goal == /\ staged' = <<>>
                   /\ Len(disp') <= Len(sent')
                   /\ buf'.base + lp' = StartOf(Len(disp) + 1)'
                   /\ \A i \in DOMAIN disp' : disp'[i].id = i
<1> USE DEF Goal
<1>0. ASSUME stop = "no", Intact
      PROVE  /\ staged = <<>> /\ Len(disp) <= Len(sent)
             /\ buf.base + lp = StartOf(Len(disp) + 1)
             /\ \A i \in DOMAIN disp : disp[i].id = i
  BY <1>0 DEF InStep
<1>a. /\ buf \in stream_t /\ lp \in Nat /\ lp <= buf.len
      /\ disp \in Seq(DispT) /\ sent \in Seq(FrameT)
      /\ Len(disp) \in Nat /\ Len(sent) \in Nat
      /\ stop \in {"no", "last", "now"}
  BY DEF BufferInv, TypeOK, BufferBounded
<1>1. ASSUME NEW w \in Wire, RemoteSend(w) PROVE Goal
  <2>1. /\ sent' = Append(sent, [id |-> Len(sent) + 1, start |-> wire, msg |-> w])
        /\ UNCHANGED <<buf, lp, stop, staged, disp>>
    BY <1>1 DEF RemoteSend
  <2>2. stop = "no" /\ Intact
    BY <2>1 DEF Intact
  <2>3. StartOf(Len(disp) + 1)' = StartOf(Len(disp) + 1)
    <3>1. CASE Len(disp) < Len(sent)
      BY <1>a, <2>1, <3>1 DEF StartOf
    <3>2. CASE Len(disp) = Len(sent)
      <4>1. Len(disp) + 1 \notin DOMAIN sent
        BY <1>a, <3>2
      <4>2. sent'[Len(disp) + 1].start = wire /\ Len(disp) + 1 \in DOMAIN sent'
        BY <1>a, <2>1, <3>2
      <4> QED BY <2>1, <4>1, <4>2 DEF StartOf
    <3> QED BY <1>0, <1>a, <2>2, <3>1, <3>2
  <2>4. Len(sent') = Len(sent) + 1
    BY <1>a, <2>1
  <2> QED BY <1>0, <1>a, <2>1, <2>2, <2>3, <2>4
<1>2. ASSUME UNCHANGED <<sent, wire, buf, lp, stop, staged, disp>> PROVE Goal
  <2>1. stop = "no" /\ Intact
    BY <1>2 DEF Intact
  <2> QED BY <1>0, <1>2, <2>1 DEF StartOf
<1>3. ASSUME stop' # "no" PROVE Goal
  BY <1>3
<1>4. ASSUME NEW how \in {"fin", "rst"}, RemoteCloses(how) PROVE Goal
  BY <1>2, <1>4 DEF RemoteCloses
<1>5. CASE PairCloses \/ PairBreaks
  BY <1>a, <1>2, <1>3, <1>5 DEF PairCloses, PairBreaks, BufferInv, TypeOK, peerVars
<1>6. CASE LoopEnds
  BY <1>2, <1>6 DEF LoopEnds, peerVars
<1>7. ASSUME NEW n \in 1 .. MaxChunk, ReadFailsToExpand(n) PROVE Goal
  BY <1>2, <1>7 DEF ReadFailsToExpand, peerVars
<1>8. ASSUME NEW n \in 1 .. MaxChunk, Read(n) PROVE Goal
  <2>1. stop = "no" /\ pc = "idle" /\ UNCHANGED <<sent, wire, staged, disp>> /\ lp' = 0
    BY <1>8, <1>a DEF Read, ReadStarts, loopexit, peerVars
  <2>2. lp = 0
    BY <2>1 DEF BufferInv
  <2>3. buf'.base = buf.base /\ buf'.bytes = buf.bytes
    BY <1>8, <1>a DEF Read, Fill, stream_expand, stream_t
  <2>4. Intact
    BY <2>3 DEF Intact
  <2> QED BY <1>0, <2>1, <2>2, <2>3, <2>4 DEF StartOf
<1>9. ASSUME buf' \in Shifted, Return, UNCHANGED <<sent, wire, stop, staged, disp>>
      PROVE  Goal
  <2>1. buf'.base = buf.base + lp /\ (buf'.bytes = "intact" => buf.bytes = "intact")
    BY <1>9, <1>a, ShiftedType
  <2>2. Intact /\ stop = "no" /\ lp' = 0
    BY <1>9, <2>1 DEF Intact, Return
  <2>3. buf'.base + lp' = buf.base + lp
    BY <1>a, <2>1, <2>2 DEF stream_t
  <2> QED BY <1>0, <1>9, <2>2, <2>3 DEF StartOf
<1>10. CASE LoopDone
  BY <1>9, <1>10 DEF LoopDone, peerVars
<1>11. ASSUME NEW f \in Frames, MalformedLength(f) PROVE Goal
  BY <1>3, <1>11 DEF MalformedLength, loopexit
<1>12. ASSUME NEW f \in Frames, PartialMessage(f) PROVE Goal
  BY <1>9, <1>12 DEF PartialMessage, peerVars
(* The message at the front has been handled with k copies.                *)
<1>13. ASSUME NEW f \in Frames, NEW k, stop = "no", Intact,
              f.msg.len # 0, lp' = lp + f.msg.len, staged' = <<>>,
              disp' = Append(disp, [id |-> f.id, copies |-> k]),
              UNCHANGED <<sent, wire, buf>>
       PROVE  Goal
  <2>1. Len(disp) + 1 \in DOMAIN sent /\ f = sent[Len(disp) + 1] /\ f.id = Len(disp) + 1
    BY <1>13, NextFrame
  <2>2. sent[Len(disp) + 1].start + Bytes(f.msg) = StartOf(Len(disp) + 1 + 1)
    BY <2>1 DEF OrderInv
  <2>3. buf.base + lp = sent[Len(disp) + 1].start
    BY <1>0, <1>13, <2>1 DEF StartOf
  <2>4. Bytes(f.msg) = f.msg.len /\ f.msg.len \in Nat
    BY <1>13, <2>1, SentFrames, FlowAssumption DEF Bytes
  <2>5. buf'.base + lp' = StartOf(Len(disp) + 1 + 1)
    BY <1>13, <1>a, <2>2, <2>3, <2>4 DEF stream_t
  <2>6. /\ Len(disp') = Len(disp) + 1
        /\ \A i \in DOMAIN disp : disp'[i] = disp[i]
        /\ disp'[Len(disp) + 1].id = Len(disp) + 1
        /\ DOMAIN disp = 1 .. Len(disp) /\ DOMAIN disp' = 1 .. Len(disp) + 1
    BY <1>13, <1>a, <2>1
  <2>7. \A i \in DOMAIN disp' : disp'[i].id = i
    BY <1>0, <1>13, <1>a, <2>6
  <2>8. Len(disp') <= Len(sent')
    BY <1>13, <1>a, <2>1, <2>6
  <2>9. StartOf(Len(disp) + 1)' = StartOf(Len(disp) + 1 + 1)
    BY <1>13, <2>6 DEF StartOf
  <2> QED BY <1>13, <2>5, <2>7, <2>8, <2>9
<1>14. ASSUME NEW f \in Frames, DropMessage(f) PROVE Goal
  <2>1. /\ UNCHANGED <<sent, wire, buf, stop, staged>>
        /\ f.msg.len # 0 /\ lp' = lp + f.msg.len
        /\ disp' = Append(disp, [id |-> f.id, copies |-> 0])
    BY <1>14 DEF DropMessage, Complete, peerVars
  <2>2. stop = "no" /\ Intact
    BY <2>1 DEF Intact
  <2>3. staged' = <<>>
    BY <1>0, <2>1, <2>2
  <2> QED BY <1>13, <2>1, <2>2, <2>3
<1>15. ASSUME NEW f \in Frames, PairIsGone(f) PROVE Goal
  BY <1>3, <1>15 DEF PairIsGone, loopexit
<1>16. ASSUME NEW f \in Frames, Crash(f) PROVE Goal
  BY <1>2, <1>16 DEF Crash, peerVars
<1>17. ASSUME NEW f \in Frames, NEW k \in Copies(f.msg), RelayMessage(f, k) PROVE Goal
  <2>1. /\ UNCHANGED <<sent, wire, buf, stop>>
        /\ f.msg.len # 0 /\ lp' = lp + f.msg.len /\ staged' = <<>>
        /\ disp' = disp \o staged \o <<[id |-> f.id, copies |-> k]>>
    BY <1>17 DEF RelayMessage, Complete, peerVars
  <2>2. stop = "no" /\ Intact
    BY <2>1 DEF Intact
  <2>3. disp' = Append(disp, [id |-> f.id, copies |-> k])
    <3>1. staged = <<>>
      BY <1>0, <2>2
    <3>2. disp \o <<>> = disp
      BY <1>a
    <3> QED BY <1>a, <2>1, <3>1, <3>2
  <2> QED BY <1>13, <2>1, <2>2, <2>3
<1>18. ASSUME NEW f \in Frames, NEW k \in Copies(f.msg), WriteFails(f, k) PROVE Goal
  BY <1>3, <1>18 DEF WriteFails, loopexit
<1>19. CASE UNCHANGED vars
  BY <1>2, <1>19 DEF vars
<1> QED
  BY <1>1, <1>4, <1>5, <1>6, <1>7, <1>8, <1>10, <1>11, <1>12, <1>14, <1>15,
     <1>16, <1>17, <1>18, <1>19
  DEF Next, Remote, Callback, Body

(* As long as its loop was not told to end and the bytes of its buffer are *)
(* intact, on_flow_read has handled each message before its position once  *)
(* and in order, and the next message starts at its position.              *)
THEOREM StaysInStep == Spec => []InStep
<1>1. Init => OrderInv /\ InStep
  <2> SUFFICES ASSUME Init PROVE OrderInv /\ InStep
    OBVIOUS
  <2>1. sent = <<>> /\ disp = <<>> /\ staged = <<>> /\ wire = 0 /\ lp = 0 /\ buf.base = 0
    BY DEF Init, stream_new
  <2> QED BY <2>1 DEF OrderInv, InStep, StartOf
<1>2. BufferInv /\ OrderInv /\ InStep /\ [Next]_vars => (BufferInv /\ OrderInv /\ InStep)'
  BY BufferStep, OrderStep, InStepStep
<1> QED BY BufferInit, <1>1, <1>2, PTL DEF Spec

-----------------------------------------------------------------------------
(* Two frames that start at the same byte are the same frame.              *)
LEMMA FrameUnique ==
  ASSUME BufferInv, OrderInv, NEW i \in DOMAIN sent, NEW j \in DOMAIN sent,
         sent[i].start = sent[j].start
  PROVE  i = j
<1>1. i \in Nat /\ j \in Nat /\ sent[i].start \in Nat
  BY SentFrames DEF BufferInv, TypeOK
<1> QED BY <1>1 DEF OrderInv

(* What NoCompleteLeft says of a thread that waits, said of one that has   *)
(* left its loop as well.                                                  *)
WaitInv ==
  pc \in {"idle", "ended"} /\ stop = "no" /\ Intact =>
    \A i \in DOMAIN sent :
      sent[i].start = buf.base =>
        buf.len < OFP_HEADER_BYTES \/ buf.len < sent[i].msg.len

LEMMA WaitStep == BufferInv /\ OrderInv /\ WaitInv /\ [Next]_vars => WaitInv'
<1> SUFFICES ASSUME BufferInv, OrderInv, WaitInv, [Next]_vars,
                    pc' \in {"idle", "ended"}, stop' = "no", Intact',
                    NEW i \in DOMAIN sent', sent'[i].start = buf'.base
             PROVE  buf'.len < OFP_HEADER_BYTES \/ buf'.len < sent'[i].msg.len
  BY DEF WaitInv
<1> DEFINE Goal == buf'.len < OFP_HEADER_BYTES \/ buf'.len < sent'[i].msg.len
<1>a. /\ buf \in stream_t /\ lp \in Nat /\ lp <= buf.len /\ buf.base + buf.len <= taken
      /\ taken \in 0 .. wire /\ wire \in Nat /\ sent \in Seq(FrameT)
      /\ stop \in {"no", "last", "now"} /\ OFP_HEADER_BYTES \in Nat \ {0}
      /\ buf.len \in Nat /\ buf.base \in Nat
  BY FlowAssumption DEF BufferInv, TypeOK, BufferBounded, stream_t
<1>1. ASSUME NEW w \in Wire, RemoteSend(w) PROVE Goal
  <2>1. /\ sent' = Append(sent, [id |-> Len(sent) + 1, start |-> wire, msg |-> w])
        /\ UNCHANGED <<buf, pc, stop>>
    BY <1>1 DEF RemoteSend
  <2>2. CASE i \in DOMAIN sent
    <3>1. sent'[i] = sent[i]
      BY <1>a, <2>1, <2>2
    <3> QED BY <2>1, <2>2, <3>1 DEF WaitInv, Intact
  <2>3. CASE i = Len(sent) + 1
    <3>1. sent'[i].start = wire
      BY <1>a, <2>1, <2>3
    <3>2. buf.base = wire
      BY <2>1, <3>1
    <3> QED BY <1>a, <2>1, <3>2
  <2>4. i \in DOMAIN sent \/ i = Len(sent) + 1
    BY <1>a, <2>1
  <2> QED BY <2>2, <2>3, <2>4
<1>2. ASSUME UNCHANGED <<sent, buf, stop>>, pc \in {"idle", "ended"} PROVE Goal
  BY <1>2 DEF WaitInv, Intact
<1>3. ASSUME stop' # "no" PROVE Goal
  BY <1>3
<1>4. ASSUME pc' = "run" \/ pc' = "crashed" PROVE Goal
  BY <1>4
<1>5. ASSUME NEW n \in 1 .. MaxChunk, ReadFailsToExpand(n) PROVE Goal
  BY <1>2, <1>5 DEF ReadFailsToExpand, ReadStarts, peerVars
<1>6. ASSUME NEW n \in 1 .. MaxChunk, Read(n) PROVE Goal
  <2>1. CASE buf'.len < OFP_HEADER_BYTES
    BY <2>1
  <2>2. CASE ~(buf'.len < OFP_HEADER_BYTES)
    BY <1>6, <2>2, <1>a DEF Read, NoPair, loopexit
  <2> QED BY <2>1, <2>2
<1>7. CASE LoopDone
  <2>1. buf'.len = buf.len - lp /\ ~(lp + OFP_HEADER_BYTES <= buf.len)
    BY <1>a, <1>7, ShiftedType DEF LoopDone, HeaderIn
  <2> QED BY <1>a, <2>1
<1>8. ASSUME NEW f \in Frames, PartialMessage(f) PROVE Goal
  <2>1. /\ buf'.len = buf.len - lp /\ buf'.base = buf.base + lp
        /\ buf'.bytes = "intact" => buf.bytes = "intact"
    BY <1>a, <1>8, ShiftedType DEF PartialMessage
  <2>2. Intact /\ sent' = sent /\ f.msg.len > buf.len - lp
    BY <1>8, <2>1 DEF Intact, PartialMessage, peerVars
  <2>3. PICK j \in DOMAIN sent : f = sent[j] /\ sent[j].start = buf.base + lp
    BY <2>2 DEF Frames
  <2>4. j = i
    BY <2>1, <2>2, <2>3, FrameUnique
  <2>5. f.msg.len \in Nat
    BY <2>3, SentFrames, FlowAssumption
  <2> QED BY <1>a, <2>1, <2>2, <2>3, <2>4, <2>5
<1>9. ASSUME NEW f \in Frames, MalformedLength(f) \/ PairIsGone(f) PROVE Goal
  BY <1>3, <1>9 DEF MalformedLength, PairIsGone, loopexit
<1>10. ASSUME NEW f \in Frames, DropMessage(f) \/ Crash(f) PROVE Goal
  BY <1>4, <1>10 DEF DropMessage, Crash, InLoop
<1>11. ASSUME NEW f \in Frames, NEW k \in Copies(f.msg), RelayMessage(f, k) PROVE Goal
  BY <1>4, <1>11 DEF RelayMessage, InLoop
<1>12. ASSUME NEW f \in Frames, NEW k \in Copies(f.msg), WriteFails(f, k) PROVE Goal
  BY <1>3, <1>12 DEF WriteFails, loopexit
<1>13. ASSUME NEW how \in {"fin", "rst"}, RemoteCloses(how) PROVE Goal
  BY <1>2, <1>13 DEF RemoteCloses
<1>14. CASE PairCloses \/ PairBreaks
  BY <1>2, <1>a, <1>14 DEF PairCloses, PairBreaks, peerVars
<1>15. CASE LoopEnds
  BY <1>2, <1>15 DEF LoopEnds, peerVars
<1>16. CASE UNCHANGED vars
  BY <1>2, <1>16 DEF vars
<1> QED
  BY <1>1, <1>5, <1>6, <1>7, <1>8, <1>9, <1>10, <1>11, <1>12, <1>13, <1>14, <1>15, <1>16
  DEF Next, Remote, Callback, Body

(* The three invariants hold together.                                     *)
LEMMA WaitAlways == Spec => [](BufferInv /\ OrderInv /\ WaitInv)
<1>1. Init => OrderInv /\ WaitInv
  <2> SUFFICES ASSUME Init PROVE OrderInv /\ WaitInv
    OBVIOUS
  <2>1. sent = <<>> /\ wire = 0
    BY DEF Init
  <2> QED BY <2>1 DEF OrderInv, WaitInv, StartOf
<1>2. BufferInv /\ OrderInv /\ WaitInv /\ [Next]_vars => (BufferInv /\ OrderInv /\ WaitInv)'
  BY BufferStep, OrderStep, WaitStep
<1> QED BY BufferInit, <1>1, <1>2, PTL DEF Spec

(* When on_flow_read waits for more bytes, no message that is complete in  *)
(* the buffer is left unhandled.                                           *)
THEOREM NothingHeldBack == Spec => []NoCompleteLeft
<1>1. WaitInv => NoCompleteLeft
  BY DEF WaitInv, NoCompleteLeft
<1> QED BY WaitAlways, <1>1, PTL

-----------------------------------------------------------------------------
(* No message was handled that was not sent, and neither the position of   *)
(* on_flow_read nor a message it handled is behind a header of length 0.   *)
(* An early return moves the position back to the front of the buffer,     *)
(* which repeats messages but passes none.                                 *)
PastInv ==
  Intact =>
    /\ \A j \in DOMAIN disp : disp[j].id <= Len(sent)
    /\ \A j \in DOMAIN staged : staged[j].id <= Len(sent)
    /\ \A i \in DOMAIN sent : sent[i].msg.len = 0 =>
         /\ buf.base + lp <= sent[i].start
         /\ \A j \in DOMAIN disp : disp[j].id < i
         /\ \A j \in DOMAIN staged : staged[j].id < i

(* A well-formed frame at the position of on_flow_read, which is at or     *)
(* before the header i of length 0, comes before i and ends before it.     *)
LEMMA BeforeMalformed ==
  ASSUME BufferInv, OrderInv, PastInv, Intact, NEW f \in Frames, f.msg.len # 0
  PROVE  /\ f.id \in Nat /\ f.id <= Len(sent) /\ f.msg.len \in Nat
         /\ \A i \in DOMAIN sent : sent[i].msg.len = 0 =>
              f.id < i /\ buf.base + (lp + f.msg.len) <= sent[i].start
<1>a. /\ buf.base \in Nat /\ lp \in Nat /\ wire \in Nat
      /\ sent \in Seq(FrameT) /\ Len(sent) \in Nat /\ DOMAIN sent = 1 .. Len(sent)
  BY DEF BufferInv, TypeOK, stream_t
<1>1. PICK m \in DOMAIN sent : f = sent[m] /\ sent[m].start = buf.base + lp
  BY DEF Frames
<1>2. f.id = m /\ m \in 1 .. Len(sent)
  BY <1>1, <1>a DEF BufferInv
<1>3. f.msg.len \in Nat /\ Bytes(f.msg) = f.msg.len
  BY <1>1, SentFrames, FlowAssumption DEF Bytes
<1>4. ASSUME NEW i \in DOMAIN sent, sent[i].msg.len = 0
      PROVE  f.id < i /\ buf.base + (lp + f.msg.len) <= sent[i].start
  <2>1. sent[m].start <= sent[i].start /\ i # m
    BY <1>1, <1>4 DEF PastInv
  <2>2. sent[i].start \in Nat /\ sent[m].start \in Nat
    BY SentFrames
  <2>3. ~(i < m)
    BY <2>1, <2>2 DEF OrderInv
  <2>4. m < i /\ m + 1 \in DOMAIN sent /\ (m + 1 = i \/ m + 1 < i)
    BY <1>a, <1>2, <2>1, <2>3
  <2>5. sent[m].start + f.msg.len = sent[m + 1].start
    BY <1>1, <1>3, <2>4 DEF OrderInv, StartOf
  <2>6. sent[m + 1].start <= sent[i].start
    <3>1. sent[m + 1].start \in Nat
      BY <2>4, SentFrames
    <3> QED BY <2>2, <2>4, <3>1 DEF OrderInv
  <2> QED BY <1>a, <1>1, <1>2, <1>3, <2>2, <2>4, <2>5, <2>6
<1> QED BY <1>a, <1>2, <1>3, <1>4

LEMMA PastStep == BufferInv /\ OrderInv /\ PastInv /\ [Next]_vars => PastInv'
<1> SUFFICES ASSUME BufferInv, OrderInv, PastInv, [Next]_vars, Intact' PROVE PastInv'
  BY DEF PastInv
<1>a. /\ buf \in stream_t /\ buf.base \in Nat /\ buf.len \in Nat /\ lp \in Nat
      /\ lp <= buf.len /\ buf.base + buf.len <= taken /\ taken \in Nat /\ taken <= wire
      /\ wire \in Nat /\ sent \in Seq(FrameT) /\ Len(sent) \in Nat
      /\ DOMAIN sent = 1 .. Len(sent) /\ disp \in Seq(DispT) /\ staged \in Seq(DispT)
  BY DEF BufferInv, TypeOK, BufferBounded, stream_t
<1>b. \A i \in DOMAIN sent : sent[i].start \in Nat
  BY SentFrames
<1>c. /\ \A j \in DOMAIN disp : disp[j].id \in Nat
      /\ \A j \in DOMAIN staged : staged[j].id \in Nat
  <2>1. \A d \in DispT : d.id \in Nat
    BY DEF DispT
  <2> QED BY <1>a, <2>1
<1>1. ASSUME NEW w \in Wire, RemoteSend(w) PROVE PastInv'
  <2>1. /\ sent' = Append(sent, [id |-> Len(sent) + 1, start |-> wire, msg |-> w])
        /\ UNCHANGED <<buf, lp, disp, staged>>
    BY <1>1 DEF RemoteSend
  <2>2. /\ Len(sent') = Len(sent) + 1 /\ DOMAIN sent' = 1 .. Len(sent) + 1
        /\ \A i \in 1 .. Len(sent) : sent'[i] = sent[i]
        /\ sent'[Len(sent) + 1].start = wire
    BY <1>a, <2>1
  <2>3. Intact
    BY <2>1 DEF Intact
  <2>4. /\ \A j \in DOMAIN disp' : disp'[j].id <= Len(sent')
        /\ \A j \in DOMAIN staged' : staged'[j].id <= Len(sent')
    BY <1>a, <1>c, <2>1, <2>2, <2>3 DEF PastInv
  <2>5. ASSUME NEW i \in DOMAIN sent', sent'[i].msg.len = 0
        PROVE  /\ buf'.base + lp' <= sent'[i].start
               /\ \A j \in DOMAIN disp' : disp'[j].id < i
               /\ \A j \in DOMAIN staged' : staged'[j].id < i
    <3>1. CASE i \in 1 .. Len(sent)
      BY <1>a, <2>1, <2>2, <2>3, <2>5, <3>1 DEF PastInv
    <3>2. CASE i = Len(sent) + 1
      <4>1. buf.base + lp <= wire
        BY <1>a
      <4> QED BY <1>a, <1>c, <2>1, <2>2, <2>3, <3>2, <4>1 DEF PastInv
    <3> QED BY <1>a, <2>2, <3>1, <3>2
  <2> QED BY <2>4, <2>5 DEF PastInv
(* The position stays or moves back, and nothing is handled.               *)
<1>2. ASSUME Intact, UNCHANGED <<sent, disp, staged>>, buf'.base + lp' \in Nat,
             buf'.base + lp' <= buf.base + lp
      PROVE  PastInv'
  BY <1>2, <1>a, <1>b DEF PastInv
<1>3. ASSUME UNCHANGED <<sent, disp, staged, buf, lp>> PROVE PastInv'
  BY <1>3 DEF PastInv, Intact
<1>4. ASSUME NEW n \in 1 .. MaxChunk, Read(n) PROVE PastInv'
  <2>1. buf'.base = buf.base /\ buf'.bytes = buf.bytes /\ lp' = 0
    BY <1>4, <1>a DEF Read, Fill, stream_expand, stream_t
  <2>2. UNCHANGED <<sent, disp, staged>>
    BY <1>4 DEF Read, peerVars
  <2> QED BY <1>2, <1>a, <2>1, <2>2 DEF Intact
<1>5. ASSUME buf' \in Shifted, Return, UNCHANGED <<sent, disp, staged>> PROVE PastInv'
  <2>1. buf'.base = buf.base + lp /\ (buf'.bytes = "intact" => buf.bytes = "intact")
    BY <1>5, <1>a, ShiftedType
  <2>2. lp' = 0 /\ Intact
    BY <1>5, <2>1 DEF Return, Intact
  <2> QED BY <1>2, <1>5, <1>a, <2>1, <2>2
<1>6. CASE LoopDone
  BY <1>5, <1>6 DEF LoopDone, peerVars
<1>7. ASSUME NEW f \in Frames, PartialMessage(f) PROVE PastInv'
  BY <1>5, <1>7 DEF PartialMessage, peerVars
<1>8. ASSUME NEW f \in Frames, MalformedLength(f) \/ PairIsGone(f) PROVE PastInv'
  <2>1. UNCHANGED <<sent, disp, staged, buf>> /\ lp' = 0
    BY <1>8 DEF MalformedLength, PairIsGone, Return, peerVars
  <2> QED BY <1>2, <1>a, <2>1 DEF Intact
(* The message at the front is added to disp or to staged.                 *)
<1>9. ASSUME NEW f \in Frames, NEW k, (DropMessage(f) /\ k = 0) \/ RelayMessage(f, k)
      PROVE  PastInv'
  <2>1. /\ UNCHANGED <<sent, buf>> /\ f.msg.len # 0 /\ lp' = lp + f.msg.len
        /\ \/ disp' = Append(disp, [id |-> f.id, copies |-> k]) /\ staged' = staged
           \/ disp' = disp \o staged \o <<[id |-> f.id, copies |-> k]>> /\ staged' = <<>>
    BY <1>9 DEF DropMessage, RelayMessage, Complete, peerVars
  <2>2. Intact
    BY <2>1 DEF Intact
  <2>3. /\ f.id \in Nat /\ f.id <= Len(sent) /\ f.msg.len \in Nat
        /\ \A i \in DOMAIN sent : sent[i].msg.len = 0 =>
             f.id < i /\ buf.base + (lp + f.msg.len) <= sent[i].start
    BY <2>1, <2>2, BeforeMalformed
  <2>4. \A j \in DOMAIN disp' : \/ disp'[j].id = f.id
                                \/ \E l \in DOMAIN disp : disp'[j].id = disp[l].id
                                \/ \E l \in DOMAIN staged : disp'[j].id = staged[l].id
    <3>1. CASE disp' = Append(disp, [id |-> f.id, copies |-> k])
      BY <1>a, <3>1
    <3>2. CASE disp' = disp \o staged \o <<[id |-> f.id, copies |-> k]>>
      <4> DEFINE both == disp \o staged
      <4>1. both \in Seq(DispT) /\ disp' = Append(both, [id |-> f.id, copies |-> k])
        BY <1>a, <3>2
      <4>2. \A j \in DOMAIN both : \/ \E l \in DOMAIN disp : both[j] = disp[l]
                                   \/ \E l \in DOMAIN staged : both[j] = staged[l]
        <5>0. both \in Seq(DispT) /\ Len(both) = Len(disp) + Len(staged)
          BY <1>a, ConcatProperties
        <5>a. DOMAIN both = 1 .. Len(disp) + Len(staged)
          BY <5>0
        <5> SUFFICES ASSUME NEW j \in 1 .. Len(disp) + Len(staged)
                     PROVE  \/ \E l \in DOMAIN disp : both[j] = disp[l]
                            \/ \E l \in DOMAIN staged : both[j] = staged[l]
          BY <5>a
        <5>1. CASE j <= Len(disp)
          <6>1. j \in DOMAIN disp /\ both[j] = disp[j]
            BY <1>a, <5>1, ConcatProperties
          <6> QED BY <6>1
        <5>2. CASE j > Len(disp)
          <6>1. j - Len(disp) \in DOMAIN staged /\ both[j] = staged[j - Len(disp)]
            BY <1>a, <5>2, ConcatProperties
          <6> QED BY <6>1
        <5> QED BY <1>a, <5>1, <5>2
      <4> HIDE DEF both
      <4> QED BY <4>1, <4>2
    <3> QED BY <2>1, <3>1, <3>2
  <2>5. \A j \in DOMAIN staged' : \E l \in DOMAIN staged : staged'[j] = staged[l]
    BY <2>1
  <2>6. /\ \A j \in DOMAIN disp' : disp'[j].id <= Len(sent)
        /\ \A j \in DOMAIN staged' : staged'[j].id <= Len(sent)
    BY <2>2, <2>3, <2>4, <2>5 DEF PastInv
  <2>7. ASSUME NEW i \in DOMAIN sent, sent[i].msg.len = 0
        PROVE  /\ \A j \in DOMAIN disp' : disp'[j].id < i
               /\ \A j \in DOMAIN staged' : staged'[j].id < i
    BY <2>2, <2>3, <2>4, <2>5, <2>7 DEF PastInv
  <2> QED BY <2>1, <2>3, <2>6, <2>7 DEF PastInv
<1>10. ASSUME NEW f \in Frames, NEW k \in Copies(f.msg), WriteFails(f, k) PROVE PastInv'
  <2>1. /\ UNCHANGED <<sent, buf, disp>> /\ f.msg.len # 0 /\ lp' = 0
        /\ staged' = Append(staged, [id |-> f.id, copies |-> k])
    BY <1>10 DEF WriteFails, Complete, Return, peerVars
  <2>2. Intact
    BY <2>1 DEF Intact
  <2>3. /\ f.id <= Len(sent)
        /\ \A i \in DOMAIN sent : sent[i].msg.len = 0 => f.id < i
    BY <2>1, <2>2, BeforeMalformed
  <2>4. \A j \in DOMAIN staged' : \/ staged'[j].id = f.id
                                  \/ \E l \in DOMAIN staged : staged'[j].id = staged[l].id
    BY <1>a, <2>1
  <2>5. \A i \in DOMAIN sent : sent[i].msg.len = 0 => buf.base <= sent[i].start
    BY <1>a, <1>b, <2>2 DEF PastInv
  <2> QED BY <1>a, <2>1, <2>2, <2>3, <2>4, <2>5 DEF PastInv
<1>11. ASSUME NEW f \in Frames, Crash(f) PROVE PastInv'
  BY <1>3, <1>11 DEF Crash, peerVars
<1>12. ASSUME NEW how \in {"fin", "rst"}, RemoteCloses(how) PROVE PastInv'
  BY <1>3, <1>12 DEF RemoteCloses
<1>13. CASE PairCloses \/ PairBreaks
  BY <1>3, <1>13 DEF PairCloses, PairBreaks, peerVars
<1>14. CASE LoopEnds
  BY <1>3, <1>14 DEF LoopEnds, peerVars
<1>15. ASSUME NEW n \in 1 .. MaxChunk, ReadFailsToExpand(n) PROVE PastInv'
  BY <1>3, <1>15 DEF ReadFailsToExpand, peerVars
<1>16. CASE UNCHANGED vars
  BY <1>3, <1>16 DEF vars
<1> QED
  BY <1>1, <1>4, <1>6, <1>7, <1>8, <1>9, <1>10, <1>11, <1>12, <1>13, <1>14, <1>15, <1>16
  DEF Next, Remote, Callback, Body

(* Nothing behind a header of length 0 is passed on, also by the callback  *)
(* that runs once more, and whatever writes failed before.                 *)
THEOREM NonePastMalformed == Spec => []NothingPastMalformed
<1>1. Init => OrderInv /\ PastInv
  <2> SUFFICES ASSUME Init PROVE OrderInv /\ PastInv
    OBVIOUS
  <2>1. sent = <<>> /\ disp = <<>> /\ staged = <<>> /\ wire = 0
    BY DEF Init
  <2> QED BY <2>1 DEF OrderInv, PastInv, StartOf
<1>2. BufferInv /\ OrderInv /\ PastInv /\ [Next]_vars => (BufferInv /\ OrderInv /\ PastInv)'
  BY BufferStep, OrderStep, PastStep
<1>3. PastInv => NothingPastMalformed
  BY DEF PastInv, NothingPastMalformed
<1> QED BY BufferInit, <1>1, <1>2, <1>3, PTL DEF Spec
=============================================================================
