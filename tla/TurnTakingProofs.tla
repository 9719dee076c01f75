-------------------------- MODULE TurnTakingProofs --------------------------
(***************************************************************************)
(* Proofs about TurnTaking, for every size of the buffer and of what the   *)
(* remote ends send.                                                       *)
(***************************************************************************)
EXTENDS TurnTaking, FiniteSetTheorems, TLAPS

(* The type invariant without the bound of the semaphores, which is a      *)
(* consequence of OneTurn.                                                 *)
Shape ==
  /\ sent \in [Sides -> 0 .. MaxBytes]
  /\ end \in [Sides -> {"open", "fin", "rst", "dead"}]
  /\ got \in [Sides -> Nat] /\ fwd \in [Sides -> Nat] /\ failed \in [Sides -> Nat]
  /\ sem \in [Sides -> Nat]
  /\ pc \in [Sides -> {"wait", "recv", "more", "send", "post"}]
  /\ msg \in [Sides -> Nat]
  /\ killed \in BOOLEAN

(* One if the handler of side s has the turn, 0 if not.                    *)
Turn(s) == IF pc[s] # "wait" THEN 1 ELSE 0

TurnInv == sem["in"] + sem["out"] + Turn("in") + Turn("out") = 1

Inv == Shape /\ TurnInv /\ NothingDropped

(* The handlers that have the turn, counted.                               *)
LEMMA TurnCount ==
  Cardinality({s \in Sides : pc[s] # "wait"}) = Turn("in") + Turn("out")
<1> DEFINE Busy == {s \in Sides : pc[s] # "wait"}
<1>1. CASE Turn("in") = 0 /\ Turn("out") = 0
  <2>1. Busy = {}
    BY <1>1 DEF Turn, Sides
  <2>2. Cardinality(Busy) = 0
    BY <2>1, FS_EmptySet
  <2> QED BY <1>1, <2>2
<1>2. CASE Turn("in") = 1 /\ Turn("out") = 0
  <2>1. Busy = {"in"}
    BY <1>2 DEF Turn, Sides
  <2>2. Cardinality(Busy) = 1
    BY <2>1, FS_Singleton
  <2> QED BY <1>2, <2>2
<1>3. CASE Turn("in") = 0 /\ Turn("out") = 1
  <2>1. Busy = {"out"}
    BY <1>3 DEF Turn, Sides
  <2>2. Cardinality(Busy) = 1
    BY <2>1, FS_Singleton
  <2> QED BY <1>3, <2>2
<1>4. CASE Turn("in") = 1 /\ Turn("out") = 1
  <2>1. Busy = {"in"} \cup {"out"}
    BY <1>4 DEF Turn, Sides
  <2>2. IsFiniteSet({"in"}) /\ Cardinality({"in"}) = 1
    BY FS_Singleton
  <2>3. Cardinality({"in"} \cup {"out"}) = 2
    BY <2>2, FS_AddElement
  <2>4. Cardinality(Busy) = 2
    BY <2>1, <2>3
  <2> QED BY <1>4, <2>4
<1> QED BY <1>1, <1>2, <1>3, <1>4 DEF Turn

(* A recv gives no more than there is and no more than was asked for.      *)
LEMMA ChunkBounds ==
  ASSUME Inv, NEW s \in Sides
  PROVE  Chunk(s) \in Nat /\ Chunk(s) <= Available(s)
<1>1. Available(s) \in Nat
  BY DEF Inv, Shape, NothingDropped, Available
<1>2. DEF_SOCKET_BUF_SIZE \in Nat
  BY TurnTakingAssumption
<1>3. \E m \in {Available(s), DEF_SOCKET_BUF_SIZE} :
        \A k \in {Available(s), DEF_SOCKET_BUF_SIZE} : m <= k
  BY <1>1, <1>2
<1>4. Chunk(s) \in {Available(s), DEF_SOCKET_BUF_SIZE} /\ Chunk(s) <= Available(s)
  BY <1>3 DEF Chunk, Min
<1> QED BY <1>1, <1>2, <1>4

(* Bytes received for side s that are added to its message.                *)
LEMMA AppendKeeps ==
  ASSUME Inv, NEW s \in Sides, AppendBytes(s, Chunk(s)), UNCHANGED <<sent, fwd, failed>>,
         Report(s) \/ UNCHANGED end
  PROVE  /\ got' \in [Sides -> Nat] /\ msg' \in [Sides -> Nat]
         /\ NothingDropped'
<1>1. Chunk(s) \in Nat /\ Chunk(s) <= Available(s)
  BY ChunkBounds
<1>2. got' = [got EXCEPT ![s] = @ + Chunk(s)] /\ msg' = [msg EXCEPT ![s] = @ + Chunk(s)]
  BY DEF AppendBytes
<1>3. got' \in [Sides -> Nat] /\ msg' \in [Sides -> Nat]
  BY <1>1, <1>2 DEF Inv, Shape
<1>4. NothingDropped'
  <2> SUFFICES ASSUME NEW r \in Sides
               PROVE  /\ fwd'[r] + failed'[r] + msg'[r] = got'[r]
                      /\ got'[r] <= sent'[r]
                      /\ failed'[r] > 0 => end'[Other(r)] = "dead"
    BY DEF NothingDropped
  <2>1. /\ fwd[r] + failed[r] + msg[r] = got[r] /\ got[r] <= sent[r]
        /\ failed[r] > 0 => end[Other(r)] = "dead"
        /\ fwd[r] \in Nat /\ failed[r] \in Nat /\ msg[r] \in Nat /\ got[r] \in Nat
        /\ sent[r] \in Nat /\ Other(r) \in Sides
    BY DEF Inv, NothingDropped, Shape, Other, Sides
  <2>4. end[Other(r)] = "dead" => end'[Other(r)] = "dead"
    BY <2>1 DEF Report, Inv, Shape
  <2>2. CASE r = s
    BY <1>1, <1>2, <2>1, <2>2, <2>4 DEF Inv, Shape, Available
  <2>3. CASE r # s
    BY <1>2, <2>1, <2>3, <2>4 DEF Inv, Shape
  <2> QED BY <2>2, <2>3
<1> QED BY <1>3, <1>4

LEMMA InvInit == Init => Inv
<1> SUFFICES ASSUME Init PROVE Inv
  OBVIOUS
<1>1. Shape
  <2>1. killed \in BOOLEAN
    BY Zenon DEF Init
  <2>2. sem \in [Sides -> Nat] /\ sent \in [Sides -> 0 .. MaxBytes]
    BY TurnTakingAssumption DEF Init, SemInit
  <2>3. /\ got \in [Sides -> Nat] /\ fwd \in [Sides -> Nat]
        /\ failed \in [Sides -> Nat] /\ msg \in [Sides -> Nat]
    BY DEF Init
  <2>4. /\ end \in [Sides -> {"open", "fin", "rst", "dead"}]
        /\ pc \in [Sides -> {"wait", "recv", "more", "send", "post"}]
    BY DEF Init
  <2> QED BY <2>1, <2>2, <2>3, <2>4 DEF Shape
<1>2. TurnInv
  BY DEF Init, TurnInv, Turn, Sides, SemInit
<1>3. NothingDropped
  BY DEF Init, NothingDropped
<1> QED BY <1>1, <1>2, <1>3 DEF Inv

LEMMA InvStep == Inv /\ [Next]_vars => Inv'
<1> SUFFICES ASSUME Inv, [Next]_vars PROVE Inv'
  OBVIOUS
<1>0. Shape /\ TurnInv /\ NothingDropped
  BY DEF Inv
<1>1. ASSUME NEW s \in Sides, NEW n \in Sizes, RemoteSends(s, n) PROVE Inv'
  <2>1. n \in Nat
    BY TurnTakingAssumption
  <2>2. sent' = [sent EXCEPT ![s] = @ + n] /\ sent[s] + n <= MaxBytes
        /\ UNCHANGED <<end, got, fwd, failed, sem, pc, msg, killed>>
    BY <1>1 DEF RemoteSends, Remote
  <2>3. Shape'
    BY <1>0, <2>1, <2>2, TurnTakingAssumption DEF Shape
  <2>4. TurnInv'
    BY <1>0, <2>2 DEF TurnInv, Turn
  <2>5. NothingDropped'
    BY <1>0, <2>1, <2>2, TurnTakingAssumption DEF NothingDropped, Shape
  <2> QED BY <2>3, <2>4, <2>5 DEF Inv
<1>2. ASSUME NEW s \in Sides, RemoteCloses(s) PROVE Inv'
  BY <1>0, <1>2 DEF RemoteCloses, Remote, Inv, Shape, TurnInv, Turn, NothingDropped, Sides, Other
<1>10. ASSUME NEW s \in Sides, RemoteResets(s) PROVE Inv'
  <2>1. PICK k \in got[s] .. sent[s] : sent' = [sent EXCEPT ![s] = k]
    BY <1>10 DEF RemoteResets
  <2>2. /\ end' = [end EXCEPT ![s] = IF @ = "open" THEN "rst" ELSE "dead"]
        /\ end[s] \in {"open", "fin"}
        /\ UNCHANGED <<got, fwd, failed, sem, pc, msg, killed>>
    BY <1>10 DEF RemoteResets, Remote
  <2>3. k \in 0 .. MaxBytes /\ got[s] <= k
    BY <1>0, <2>1, TurnTakingAssumption DEF Shape
  <2>4. Shape'
    BY <1>0, <2>1, <2>2, <2>3 DEF Shape
  <2>5. TurnInv'
    BY <1>0, <2>2 DEF TurnInv, Turn
  <2>6. NothingDropped'
    BY <1>0, <2>1, <2>2, <2>3 DEF NothingDropped, Shape, Sides, Other
  <2> QED BY <2>4, <2>5, <2>6 DEF Inv
<1>3. ASSUME NEW s \in Sides, SemWait(s) PROVE Inv'
  BY <1>0, <1>3 DEF SemWait, Goto, Inv, Shape, TurnInv, Turn, NothingDropped, Sides
<1>4. ASSUME NEW s \in Sides, Recv(s) PROVE Inv'
  <2>1. /\ pc[s] = "recv" /\ AppendBytes(s, Chunk(s)) /\ UNCHANGED <<sent, fwd, failed, sem, killed>>
        /\ Report(s) \/ UNCHANGED end
        /\ \E to \in {"send", "more"} : pc' = [pc EXCEPT ![s] = to]
    BY <1>4 DEF Recv, Goto
  <2>2. got' \in [Sides -> Nat] /\ msg' \in [Sides -> Nat] /\ NothingDropped'
    BY <2>1, AppendKeeps
  <2>3. Shape'
    BY <1>0, <2>1, <2>2 DEF Shape, Report
  <2>4. TurnInv'
    BY <1>0, <2>1 DEF TurnInv, Turn, Shape, Sides
  <2> QED BY <2>2, <2>3, <2>4 DEF Inv
<1>5. ASSUME NEW s \in Sides, RecvMore(s) PROVE Inv'
  <2>1. /\ pc[s] = "more" /\ AppendBytes(s, Chunk(s)) /\ UNCHANGED <<sent, fwd, failed, sem, killed>>
        /\ Report(s) \/ UNCHANGED end
        /\ \E to \in {"send", "recv"} : pc' = [pc EXCEPT ![s] = to]
    BY <1>5 DEF RecvMore, Goto
  <2>2. got' \in [Sides -> Nat] /\ msg' \in [Sides -> Nat] /\ NothingDropped'
    BY <2>1, AppendKeeps
  <2>3. Shape'
    BY <1>0, <2>1, <2>2 DEF Shape, Report
  <2>4. TurnInv'
    BY <1>0, <2>1 DEF TurnInv, Turn, Shape, Sides
  <2> QED BY <2>2, <2>3, <2>4 DEF Inv
<1>6. ASSUME NEW s \in Sides, Send(s) PROVE Inv'
  BY <1>0, <1>6 DEF Send, Goto, Inv, Shape, TurnInv, Turn, NothingDropped, Sides
<1>7. ASSUME NEW s \in Sides, SendFails(s) PROVE Inv'
  BY <1>0, <1>7 DEF SendFails, Report, Goto, Inv, Shape, TurnInv, Turn, NothingDropped, Sides, Other
<1>8. ASSUME NEW s \in Sides, SemPost(s) PROVE Inv'
  BY <1>0, <1>8 DEF SemPost, Goto, Inv, Shape, TurnInv, Turn, NothingDropped, Sides, Other
<1>11. ASSUME NEW s \in Sides, SendKills(s) PROVE Inv'
  BY <1>0, <1>11 DEF SendKills, Inv, Shape, TurnInv, Turn, NothingDropped
<1>9. CASE UNCHANGED vars
  BY <1>0, <1>9 DEF vars, Inv, Shape, TurnInv, Turn, NothingDropped
<1> QED BY <1>1, <1>2, <1>3, <1>4, <1>5, <1>6, <1>7, <1>8, <1>9, <1>10, <1>11 DEF Next, Handler

LEMMA Invariance == Spec => []Inv
  BY InvInit, InvStep, PTL DEF Spec

(* The two semaphores and the handlers of a v0.1 connection pass a single  *)
(* permission to and fro, whatever the remote ends send and whenever they  *)
(* close or are reset.                                                     *)
THEOREM TurnsAlternate == Spec => []OneTurn
<1>1. Inv => OneTurn
  <2> SUFFICES ASSUME Inv PROVE OneTurn
    OBVIOUS
  <2>1. sem["in"] \in Nat /\ sem["out"] \in Nat
    BY DEF Inv, Shape, Sides
  <2> QED BY <2>1, TurnCount DEF Inv, TurnInv, OneTurn, Turn
<1> QED BY Invariance, <1>1, PTL

(* The variables of the handlers keep their types; a semaphore that counts *)
(* a single permission is 0 or 1.                                          *)
THEOREM HandlersTyped == Spec => []TypeOK
<1>1. Inv => TypeOK
  BY DEF Inv, TypeOK, Shape, TurnInv, Turn, Sides
<1> QED BY Invariance, <1>1, PTL

(* read_message and send lose no byte, however the stream is cut: what was *)
(* received was sent on, is in the message under way, or was refused by a  *)
(* side that was reset.                                                    *)
THEOREM BytesAccounted == Spec => []NothingDropped
<1>1. Inv => NothingDropped
  BY DEF Inv
<1> QED BY Invariance, <1>1, PTL
=============================================================================
