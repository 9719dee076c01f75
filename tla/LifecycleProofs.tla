-------------------------- MODULE LifecycleProofs ---------------------------
(***************************************************************************)
(* Proofs about Lifecycle, for any sets of descriptors and addresses and   *)
(* any number of connections, whether or not Client::init may fail.        *)
(***************************************************************************)
EXTENDS Lifecycle, TLAPS

(* The clients that the listener has made and for which no thread and no   *)
(* destructor runs yet.                                                    *)
Unstarted ==
  CASE mpc = "new_out"   -> {here.in_cd}
    [] mpc = "spawn_out" -> {here.in_cd, here.out_cd}
    [] mpc = "spawn_in"  -> {here.in_cd}
    [] mpc = "delete"    -> {here.out_cd} \ {NULL}
    [] OTHER -> {}

(* The locals of the listener: the two descriptors of the pair it is       *)
(* setting up are open, distinct and belong to the last connection.        *)
HereInv ==
  /\ mpc \in {"start", "accept", "connect", "new_in", "new_out"} => here.out_cd = NULL
  /\ Handing \subseteq Fds
  /\ mpc \in {"connect", "new_in", "new_out"} => conns > 0
  /\ \A f \in Handing : conn[f] = conns
  /\ mpc = "new_in" => here.in_fd # here.out_fd

(* A Client is allocated exactly as long as a thread runs for it, its      *)
(* destructor runs, or the listener has it in its hands.                   *)
ThreadInv ==
  /\ \A c \in Clients : obj[c].live <=> (th[c] # "none" \/ c \in Unstarted)
  /\ Unstarted \subseteq Clients
  /\ \A c \in Unstarted : th[c] = "none"
  /\ mpc = "spawn_out" => here.in_cd # here.out_cd
  /\ \A c \in Clients : obj[c].live => obj[c].fd \in Fds /\ obj[c].of > 0
  /\ mpc \in {"start", "exit"} => \A c \in Clients : th[c] = "none"

LifeInv == TypeOK /\ HereInv /\ ThreadInv /\ MapNoDangling /\ FdOwnership

-----------------------------------------------------------------------------
(* Where a step may lead.                                                  *)
LEMMA NextCases ==
  ASSUME [Next]_vars
  PROVE  \/ Construct \/ Signal \/ LeaveListener \/ ConnectFails \/ Deleted
         \/ SpawnOut \/ SpawnIn \/ Sweep \/ SweepBreak \/ Join
         \/ \E f \in Fds : Accept(f) \/ Connect(f)
         \/ \E c \in Clients :
              \/ NewInClient(c) \/ InInitFails(c) \/ NewOutClient(c) \/ OutInitFails(c)
              \/ Dispatch(c) \/ LoopEnds(c) \/ ReadStarts(c) \/ ReadReturns(c)
              \/ DtorMap(c) \/ DtorFree(c) \/ DtorClose(c) \/ DtorErase(c)
              \/ DtorPair(c) \/ DtorEnd(c) \/ RemoteCloses(c)
         \/ UNCHANGED vars
  BY DEF Next, Main, Environment, Thread, Destroy, AcceptFails, ListenerCloses

(* The records the actions build have their types.                         *)
LEMMA RecordTypes ==
  /\ Nobody \in ObjT
  /\ NoLocals \in LocT
  /\ Idle \in HereT
  /\ \A d \in Clients \cup {NULL} : [Idle EXCEPT !.in_cd = d] \in HereT
  /\ \A h \in HereT :
       /\ \A f \in Fds : [h EXCEPT !.in_fd = f] \in HereT /\ [h EXCEPT !.out_fd = f] \in HereT
       /\ \A c \in Clients : [h EXCEPT !.in_cd = c] \in HereT /\ [h EXCEPT !.out_cd = c] \in HereT
  /\ \A o \in ObjT : [o EXCEPT !.ev = "freed"] \in ObjT /\ [o EXCEPT !.fw = NoFd] \in ObjT
  /\ \A fd, fw \in Keys, ev \in {"none", "ok"}, n \in 0 .. MaxConns :
       [live |-> TRUE, fd |-> fd, fw |-> fw, ev |-> ev, of |-> n] \in ObjT
  /\ \A l \in LocT, d \in Clients \cup {NULL} : [l EXCEPT !.cli = d] \in LocT
  /\ \A d \in Clients \cup {NULL}, k \in Keys : [cli |-> d, fd |-> k] \in LocT
  BY LifecycleAssumption DEF ObjT, LocT, HereT, Keys, Nobody, NoLocals, Idle

(* Each step keeps the types; RemoteCloses needs that a client whose loop  *)
(* runs has a descriptor.                                                  *)
LEMMA TypeStep == TypeOK /\ ThreadInv /\ [Next]_vars => TypeOK'
<1> SUFFICES ASSUME TypeOK, ThreadInv, [Next]_vars PROVE TypeOK'
  OBVIOUS
<1>1. CASE Construct
  BY <1>1 DEF Construct, init_sockets, TypeOK
<1>2. CASE Signal
  BY <1>2 DEF Signal, TypeOK
<1>3. CASE LeaveListener
  BY <1>3 DEF LeaveListener, TypeOK
<1>4. CASE ConnectFails
  <2>1. conn' \in [Fds -> 0 .. MaxConns] /\ rclosed' \in SUBSET Fds
    BY <1>4, LifecycleAssumption DEF ConnectFails, CloseAll, TypeOK
  <2> QED BY <1>4, <2>1, RecordTypes DEF ConnectFails, TypeOK
<1>5. CASE Deleted
  <2>1. here.out_cd # NULL => here.out_cd \in Clients
    BY DEF TypeOK, HereT
  <2>2. th' \in [Clients -> {"none", "ready", "loop", "cb"} \cup Dtor]
    BY <1>5, <2>1 DEF Deleted, TypeOK, Dtor
  <2>3. here' \in HereT /\ mpc' \in {"delete", "accept"}
    BY <1>5, <2>1, RecordTypes DEF Deleted
  <2> QED BY <1>5, <2>2, <2>3 DEF Deleted, TypeOK
<1>6. CASE SpawnOut
  BY <1>6 DEF SpawnOut, TypeOK
<1>7. CASE SpawnIn
  BY <1>7, RecordTypes DEF SpawnIn, TypeOK
<1>8. CASE Sweep
  <2>1. client_map' \in [Keys -> Clients \cup {NULL, Absent}]
    BY <1>8 DEF Sweep, TypeOK
  <2>2. \A k \in Entries : client_map[k] \in Clients \cup {NULL}
    BY DEF Entries, TypeOK, Keys
  <2>3. here' \in HereT /\ mpc' \in {"join", "break"}
    BY <1>8, <2>2, RecordTypes DEF Sweep, TypeOK
  <2> QED BY <1>8, <2>1, <2>3 DEF Sweep, TypeOK
<1>9. CASE SweepBreak
  <2>1. stop' \in [Clients -> {"no", "last", "now"}]
    BY <1>9 DEF SweepBreak, Usable, loopbreak, TypeOK
  <2> QED BY <1>9, <2>1, RecordTypes DEF SweepBreak, TypeOK
<1>10. CASE Join
  BY <1>10 DEF Join, TypeOK
<1>11. ASSUME NEW f \in Fds, Accept(f) PROVE TypeOK'
  <2>1. conns' \in 0 .. MaxConns
    BY <1>11, LifecycleAssumption DEF Accept, TypeOK
  <2>2. conn' \in [Fds -> 0 .. MaxConns]
    BY <1>11, <2>1 DEF Accept, TypeOK
  <2>3. /\ here' = [here EXCEPT !.in_fd = f] \/ here' = here
        /\ mpc' \in {"accept", "connect"}
    BY <1>11 DEF Accept
  <2>4. here' \in HereT
    <3>1. here \in HereT
      BY DEF TypeOK
    <3>2. [here EXCEPT !.in_fd = f] \in HereT
      BY <3>1, RecordTypes
    <3> QED BY <2>3, <3>1, <3>2
  <2> QED BY <1>11, <2>1, <2>2, <2>3, <2>4 DEF Accept, TypeOK
<1>12. ASSUME NEW f \in Fds, Connect(f) PROVE TypeOK'
  <2>1. conn' \in [Fds -> 0 .. MaxConns] /\ here' \in HereT
    BY <1>12, RecordTypes DEF Connect, TypeOK
  <2> QED BY <1>12, <2>1 DEF Connect, TypeOK
<1>13. ASSUME NEW c \in Clients, NewInClient(c) PROVE TypeOK'
  <2>1. here.in_fd \in Keys /\ here.out_fd \in Keys
    BY DEF TypeOK, HereT
  <2>2. obj' \in [Clients -> ObjT]
    BY <1>13, <2>1, RecordTypes DEF NewInClient, NewClient, TypeOK
  <2>3. client_map' \in [Keys -> Clients \cup {NULL, Absent}] /\ here' \in HereT
    BY <1>13, RecordTypes DEF NewInClient, TypeOK
  <2> QED BY <1>13, <2>2, <2>3 DEF NewInClient, TypeOK
<1>14. ASSUME NEW c \in Clients, InInitFails(c) PROVE TypeOK'
  <2>1. here.in_fd \in Keys /\ here.out_fd \in Keys
    BY DEF TypeOK, HereT
  <2>2. obj' \in [Clients -> ObjT] /\ here' \in HereT
    BY <1>14, <2>1, RecordTypes DEF InInitFails, NewClient, TypeOK
  <2>3. conn' \in [Fds -> 0 .. MaxConns] /\ rclosed' \in SUBSET Fds
    BY <1>14, LifecycleAssumption DEF InInitFails, CloseAll, TypeOK
  <2>4. th' \in [Clients -> {"none", "ready", "loop", "cb"} \cup Dtor]
    BY <1>14 DEF InInitFails, TypeOK, Dtor
  <2> QED BY <1>14, <2>2, <2>3, <2>4 DEF InInitFails, TypeOK
<1>15. ASSUME NEW c \in Clients, NewOutClient(c) PROVE TypeOK'
  <2>1. here.in_fd \in Keys /\ here.out_fd \in Keys
    BY DEF TypeOK, HereT
  <2>2. obj' \in [Clients -> ObjT]
    BY <1>15, <2>1, RecordTypes DEF NewOutClient, NewClient, TypeOK
  <2>3. client_map' \in [Keys -> Clients \cup {NULL, Absent}] /\ here' \in HereT
    BY <1>15, RecordTypes DEF NewOutClient, TypeOK
  <2> QED BY <1>15, <2>2, <2>3 DEF NewOutClient, TypeOK
<1>16. ASSUME NEW c \in Clients, OutInitFails(c) PROVE TypeOK'
  <2>1. here.in_fd \in Keys /\ here.out_fd \in Keys
    BY DEF TypeOK, HereT
  <2>2. obj' \in [Clients -> ObjT] /\ here' \in HereT
    BY <1>16, <2>1, RecordTypes DEF OutInitFails, NewClient, TypeOK
  <2>3. th' \in [Clients -> {"none", "ready", "loop", "cb"} \cup Dtor]
    BY <1>16 DEF OutInitFails, TypeOK, Dtor
  <2> QED BY <1>16, <2>2, <2>3 DEF OutInitFails, TypeOK
<1>17. ASSUME NEW c \in Clients, Dispatch(c) PROVE TypeOK'
  BY <1>17 DEF Dispatch, TypeOK, mainVars
<1>18. ASSUME NEW c \in Clients, LoopEnds(c) PROVE TypeOK'
  BY <1>18 DEF LoopEnds, TypeOK, Dtor, mainVars
<1>19. ASSUME NEW c \in Clients, ReadStarts(c) PROVE TypeOK'
  <2>1. obj[c].fw \in Keys
    BY DEF TypeOK, ObjT
  <2>2. Found(obj[c].fw) \in Clients \cup {NULL}
    BY <2>1 DEF Found, TypeOK
  <2>3. client_map' \in [Keys -> Clients \cup {NULL, Absent}]
    BY <1>19, <2>1, <2>2 DEF ReadStarts, AfterLookup, TypeOK
  <2>4. loc' \in [Clients -> LocT]
    BY <1>19, <2>1, <2>2, RecordTypes DEF ReadStarts, TypeOK
  <2>5. stop' \in [Clients -> {"no", "last", "now"}]
    BY <1>19 DEF ReadStarts, TypeOK
  <2>6. th' \in [Clients -> {"none", "ready", "loop", "cb"} \cup Dtor]
    BY <1>19 DEF ReadStarts, TypeOK
  <2> QED BY <1>19, <2>3, <2>4, <2>5, <2>6 DEF ReadStarts, TypeOK, mainVars
<1>20. ASSUME NEW c \in Clients, ReadReturns(c) PROVE TypeOK'
  <2>1. stop' \in [Clients -> {"no", "last", "now"}] /\ loc' \in [Clients -> LocT]
    BY <1>20, RecordTypes DEF ReadReturns, TypeOK
  <2> QED BY <1>20, <2>1 DEF ReadReturns, TypeOK, mainVars
<1>21. ASSUME NEW c \in Clients, DtorMap(c) PROVE TypeOK'
  <2>1. obj[c].fw \in Keys
    BY DEF TypeOK, ObjT
  <2>2. Found(obj[c].fw) \in Clients \cup {NULL}
    BY <2>1 DEF Found, TypeOK
  <2>3. client_map' \in [Keys -> Clients \cup {NULL, Absent}]
    BY <1>21, <2>1, <2>2 DEF DtorMap, AfterLookup, TypeOK
  <2>4. loc' \in [Clients -> LocT]
    BY <1>21, <2>2, RecordTypes DEF DtorMap, TypeOK
  <2> QED BY <1>21, <2>3, <2>4 DEF DtorMap, TypeOK, Dtor, mainVars
<1>22. ASSUME NEW c \in Clients, DtorFree(c) PROVE TypeOK'
  <2>1. obj' \in [Clients -> ObjT]
    BY <1>22, RecordTypes DEF DtorFree, TypeOK
  <2> QED BY <1>22, <2>1 DEF DtorFree, TypeOK, Dtor, mainVars
<1>23. ASSUME NEW c \in Clients, DtorClose(c) PROVE TypeOK'
  BY <1>23, LifecycleAssumption DEF DtorClose, CloseAll, TypeOK, Dtor, mainVars
<1>24. ASSUME NEW c \in Clients, DtorErase(c) PROVE TypeOK'
  BY <1>24 DEF DtorErase, TypeOK, Dtor, mainVars
<1>25. ASSUME NEW c \in Clients, DtorPair(c) PROVE TypeOK'
  <2>1. loc[c].cli # NULL => loc[c].cli \in Clients
    BY DEF TypeOK, LocT
  <2>2. obj' \in [Clients -> ObjT]
    BY <1>25, <2>1, RecordTypes DEF DtorPair, TypeOK
  <2>3. stop' \in [Clients -> {"no", "last", "now"}]
    BY <1>25 DEF DtorPair, Usable, loopbreak, TypeOK
  <2> QED BY <1>25, <2>2, <2>3 DEF DtorPair, TypeOK, Dtor, mainVars
<1>26. ASSUME NEW c \in Clients, DtorEnd(c) PROVE TypeOK'
  BY <1>26, RecordTypes DEF DtorEnd, TypeOK, mainVars
<1>27. ASSUME NEW c \in Clients, RemoteCloses(c) PROVE TypeOK'
  <2>1. obj[c].fd \in Fds
    BY <1>27 DEF RemoteCloses, ThreadInv
  <2> QED BY <1>27, <2>1 DEF RemoteCloses, TypeOK, mainVars
<1>28. CASE UNCHANGED vars
  BY <1>28 DEF vars, mainVars, TypeOK, Dtor
<1> QED
  BY NextCases, <1>1, <1>2, <1>3, <1>4, <1>5, <1>6, <1>7, <1>8, <1>9, <1>10, <1>11,
     <1>12, <1>13, <1>14, <1>15, <1>16, <1>17, <1>18, <1>19, <1>20, <1>21, <1>22, <1>23,
     <1>24, <1>25, <1>26, <1>27, <1>28

-----------------------------------------------------------------------------
(* The descriptors of a pair that is being set up are not closed by any    *)
(* destructor, because no client owns them yet.                            *)
LEMMA HereStep == TypeOK /\ HereInv /\ ThreadInv /\ FdOwnership /\ [Next]_vars => HereInv'
<1> SUFFICES ASSUME TypeOK, HereInv, ThreadInv, FdOwnership, [Next]_vars PROVE HereInv'
  OBVIOUS
<1>1. CASE Construct
  BY <1>1 DEF Construct, HereInv, Handing
<1>2. CASE Signal
  BY <1>2 DEF Signal, HereInv, Handing
<1>3. CASE LeaveListener
  BY <1>3 DEF LeaveListener, HereInv, Handing
<1>4. CASE ConnectFails
  BY <1>4 DEF ConnectFails, HereInv, Handing, Idle
<1>5. CASE Deleted
  BY <1>5 DEF Deleted, HereInv, Handing, Idle
<1>6. CASE SpawnOut
  BY <1>6 DEF SpawnOut, HereInv, Handing
<1>7. CASE SpawnIn
  BY <1>7 DEF SpawnIn, HereInv, Handing, Idle
<1>8. CASE Sweep
  BY <1>8 DEF Sweep, HereInv, Handing
<1>9. CASE SweepBreak
  BY <1>9 DEF SweepBreak, HereInv, Handing
<1>10. CASE Join
  BY <1>10 DEF Join, HereInv, Handing
<1>11. ASSUME NEW f \in Fds, Accept(f) PROVE HereInv'
  <2>1. here \in HereT /\ conn \in [Fds -> 0 .. MaxConns] /\ conns \in Nat
    BY DEF TypeOK
  <2>2. CASE mpc' = mpc /\ UNCHANGED <<conn, here>>
    BY <1>11, <2>2 DEF Accept, HereInv, Handing
  <2>3. CASE mpc' = "connect" /\ conn' = [conn EXCEPT ![f] = conns + 1]
             /\ here' = [here EXCEPT !.in_fd = f]
    <3>1. conns' = conns + 1 /\ mpc = "accept"
      BY <1>11 DEF Accept
    <3>2. here'.in_fd = f /\ here'.out_cd = NULL
      BY <2>1, <2>3, <3>1 DEF HereT, HereInv
    <3>3. Handing' = {f}
      BY <2>3, <3>2 DEF Handing
    <3>4. conn'[f] = conns'
      BY <2>1, <2>3, <3>1
    <3> QED BY <2>1, <2>3, <3>1, <3>2, <3>3, <3>4 DEF HereInv
  <2> QED BY <1>11, <2>2, <2>3 DEF Accept
<1>12. ASSUME NEW f \in Fds, Connect(f) PROVE HereInv'
  <2>1. /\ mpc = "connect" /\ mpc' = "new_in" /\ conns' = conns
        /\ conn' = [conn EXCEPT ![f] = conns] /\ here' = [here EXCEPT !.out_fd = f]
        /\ conn[f] = 0 /\ here \in HereT /\ conn \in [Fds -> 0 .. MaxConns]
    BY <1>12 DEF Connect, FreeFds, TypeOK
  <2>2. Handing = {here.in_fd} /\ conn[here.in_fd] = conns /\ here.in_fd \in Fds /\ conns > 0
    BY <2>1 DEF HereInv, Handing
  <2>3. here'.in_fd = here.in_fd /\ here'.out_fd = f /\ here'.out_cd = here.out_cd
    BY <2>1 DEF HereT
  <2>4. Handing' = {here.in_fd, f} /\ here.in_fd # f
    BY <2>1, <2>2, <2>3 DEF Handing
  <2> QED BY <2>1, <2>2, <2>3, <2>4 DEF HereInv
<1>13. ASSUME NEW c \in Clients, NewInClient(c) PROVE HereInv'
  BY <1>13 DEF NewInClient, HereInv, Handing
<1>14. ASSUME NEW c \in Clients, InInitFails(c) PROVE HereInv'
  BY <1>14 DEF InInitFails, HereInv, Handing
<1>15. ASSUME NEW c \in Clients, NewOutClient(c) PROVE HereInv'
  BY <1>15 DEF NewOutClient, HereInv, Handing
<1>16. ASSUME NEW c \in Clients, OutInitFails(c) PROVE HereInv'
  BY <1>16 DEF OutInitFails, HereInv, Handing
<1>17. ASSUME NEW c \in Clients, Dispatch(c) PROVE HereInv'
  BY <1>17 DEF Dispatch, HereInv, Handing, mainVars
<1>18. ASSUME NEW c \in Clients, LoopEnds(c) PROVE HereInv'
  BY <1>18 DEF LoopEnds, HereInv, Handing, mainVars
<1>19. ASSUME NEW c \in Clients, ReadStarts(c) PROVE HereInv'
  BY <1>19 DEF ReadStarts, HereInv, Handing, mainVars
<1>20. ASSUME NEW c \in Clients, ReadReturns(c) PROVE HereInv'
  BY <1>20 DEF ReadReturns, HereInv, Handing, mainVars
<1>21. ASSUME NEW c \in Clients, DtorMap(c) PROVE HereInv'
  BY <1>21 DEF DtorMap, HereInv, Handing, mainVars
<1>22. ASSUME NEW c \in Clients, DtorFree(c) PROVE HereInv'
  BY <1>22 DEF DtorFree, HereInv, Handing, mainVars
<1>23. ASSUME NEW c \in Clients, DtorClose(c) PROVE HereInv'
  <2>1. c \in Owners
    BY <1>23 DEF DtorClose, ThreadInv, Owners
  <2>2. obj[c].fd \notin Handing
    BY <2>1 DEF FdOwnership
  <2>3. Handing' = Handing
    BY <1>23 DEF DtorClose, mainVars, Handing
  <2>4. \A f \in Handing : conn'[f] = conns
    BY <1>23, <2>2 DEF DtorClose, CloseAll, HereInv
  <2> QED BY <1>23, <2>3, <2>4 DEF DtorClose, mainVars, HereInv
<1>24. ASSUME NEW c \in Clients, DtorErase(c) PROVE HereInv'
  BY <1>24 DEF DtorErase, HereInv, Handing, mainVars
<1>25. ASSUME NEW c \in Clients, DtorPair(c) PROVE HereInv'
  BY <1>25 DEF DtorPair, HereInv, Handing, mainVars
<1>26. ASSUME NEW c \in Clients, DtorEnd(c) PROVE HereInv'
  BY <1>26 DEF DtorEnd, HereInv, Handing, mainVars
<1>27. ASSUME NEW c \in Clients, RemoteCloses(c) PROVE HereInv'
  BY <1>27 DEF RemoteCloses, HereInv, Handing, mainVars
<1>28. CASE UNCHANGED vars
  BY <1>28 DEF vars, mainVars, HereInv, Handing
<1> QED
  BY NextCases, <1>1, <1>2, <1>3, <1>4, <1>5, <1>6, <1>7, <1>8, <1>9, <1>10, <1>11,
     <1>12, <1>13, <1>14, <1>15, <1>16, <1>17, <1>18, <1>19, <1>20, <1>21, <1>22, <1>23,
     <1>24, <1>25, <1>26, <1>27, <1>28

-----------------------------------------------------------------------------
(* Allocation, threads and the hands of the listener agree.                *)
LEMMA ThreadStep == TypeOK /\ HereInv /\ ThreadInv /\ [Next]_vars => ThreadInv'
<1> SUFFICES ASSUME TypeOK, HereInv, ThreadInv, [Next]_vars PROVE ThreadInv'
  OBVIOUS
<1>1. CASE Construct
  BY <1>1 DEF Construct, ThreadInv, Unstarted
<1>2. CASE Signal
  BY <1>2 DEF Signal, ThreadInv, Unstarted
<1>3. CASE LeaveListener
  BY <1>3 DEF LeaveListener, ThreadInv, Unstarted
<1>4. CASE ConnectFails
  BY <1>4 DEF ConnectFails, ThreadInv, Unstarted
<1>5. CASE Deleted
  BY <1>5 DEF Deleted, ThreadInv, Unstarted, TypeOK, Idle
<1>6. CASE SpawnOut
  BY <1>6 DEF SpawnOut, ThreadInv, Unstarted, TypeOK
<1>7. CASE SpawnIn
  BY <1>7 DEF SpawnIn, ThreadInv, Unstarted, TypeOK
<1>8. CASE Sweep
  BY <1>8 DEF Sweep, ThreadInv, Unstarted
<1>9. CASE SweepBreak
  BY <1>9 DEF SweepBreak, ThreadInv, Unstarted
<1>10. CASE Join
  BY <1>10 DEF Join, ThreadInv, Unstarted
<1>11. ASSUME NEW f \in Fds, Accept(f) PROVE ThreadInv'
  BY <1>11 DEF Accept, ThreadInv, Unstarted
<1>12. ASSUME NEW f \in Fds, Connect(f) PROVE ThreadInv'
  BY <1>12 DEF Connect, ThreadInv, Unstarted
<1>13. ASSUME NEW c \in Clients, NewInClient(c) PROVE ThreadInv'
  BY <1>13 DEF NewInClient, NewClient, ThreadInv, Unstarted, TypeOK, HereInv, Handing
<1>14. ASSUME NEW c \in Clients, InInitFails(c) PROVE ThreadInv'
  BY <1>14 DEF InInitFails, NewClient, ThreadInv, Unstarted, TypeOK, HereInv, Handing
<1>15. ASSUME NEW c \in Clients, NewOutClient(c) PROVE ThreadInv'
  BY <1>15 DEF NewOutClient, NewClient, ThreadInv, Unstarted, TypeOK, HereInv, Handing
<1>16. ASSUME NEW c \in Clients, OutInitFails(c) PROVE ThreadInv'
  BY <1>16, LifecycleAssumption
  DEF OutInitFails, NewClient, ThreadInv, Unstarted, TypeOK, HereInv, Handing
<1>17. ASSUME NEW c \in Clients, Dispatch(c) PROVE ThreadInv'
  BY <1>17 DEF Dispatch, ThreadInv, Unstarted, mainVars
<1>18. ASSUME NEW c \in Clients, LoopEnds(c) PROVE ThreadInv'
  BY <1>18 DEF LoopEnds, ThreadInv, Unstarted, mainVars
<1>19. ASSUME NEW c \in Clients, ReadStarts(c) PROVE ThreadInv'
  BY <1>19 DEF ReadStarts, ThreadInv, Unstarted, TypeOK, mainVars
<1>20. ASSUME NEW c \in Clients, ReadReturns(c) PROVE ThreadInv'
  BY <1>20 DEF ReadReturns, ThreadInv, Unstarted, mainVars
<1>21. ASSUME NEW c \in Clients, DtorMap(c) PROVE ThreadInv'
  BY <1>21 DEF DtorMap, ThreadInv, Unstarted, mainVars
<1>22. ASSUME NEW c \in Clients, DtorFree(c) PROVE ThreadInv'
  BY <1>22 DEF DtorFree, ThreadInv, Unstarted, mainVars
<1>23. ASSUME NEW c \in Clients, DtorClose(c) PROVE ThreadInv'
  BY <1>23 DEF DtorClose, ThreadInv, Unstarted, mainVars
<1>24. ASSUME NEW c \in Clients, DtorErase(c) PROVE ThreadInv'
  BY <1>24 DEF DtorErase, ThreadInv, Unstarted, mainVars
<1>25. ASSUME NEW c \in Clients, DtorPair(c) PROVE ThreadInv'
  BY <1>25 DEF DtorPair, ThreadInv, Unstarted, mainVars
<1>26. ASSUME NEW c \in Clients, DtorEnd(c) PROVE ThreadInv'
  BY <1>26 DEF DtorEnd, ThreadInv, Unstarted, TypeOK, mainVars, Nobody
<1>27. ASSUME NEW c \in Clients, RemoteCloses(c) PROVE ThreadInv'
  BY <1>27 DEF RemoteCloses, ThreadInv, Unstarted, mainVars
<1>28. CASE UNCHANGED vars
  BY <1>28 DEF vars, mainVars, ThreadInv, Unstarted, TypeOK
<1> QED
  BY NextCases, <1>1, <1>2, <1>3, <1>4, <1>5, <1>6, <1>7, <1>8, <1>9, <1>10, <1>11,
     <1>12, <1>13, <1>14, <1>15, <1>16, <1>17, <1>18, <1>19, <1>20, <1>21, <1>22, <1>23,
     <1>24, <1>25, <1>26, <1>27, <1>28

-----------------------------------------------------------------------------
(* A client enters the map under its descriptor, when no thread runs for   *)
(* it, and leaves it before its memory is freed.                           *)
LEMMA MapStep == TypeOK /\ ThreadInv /\ MapNoDangling /\ [Next]_vars => MapNoDangling'
<1> SUFFICES ASSUME TypeOK, ThreadInv, MapNoDangling, [Next]_vars PROVE MapNoDangling'
  OBVIOUS
<1>1. CASE Construct
  BY <1>1 DEF Construct, MapNoDangling
<1>2. CASE Signal
  BY <1>2 DEF Signal, MapNoDangling
<1>3. CASE LeaveListener
  BY <1>3 DEF LeaveListener, MapNoDangling
<1>4. CASE ConnectFails
  BY <1>4 DEF ConnectFails, MapNoDangling
<1>5. CASE Deleted
  BY <1>5 DEF Deleted, MapNoDangling, TypeOK
<1>6. CASE SpawnOut
  BY <1>6 DEF SpawnOut, MapNoDangling
<1>7. CASE SpawnIn
  BY <1>7 DEF SpawnIn, MapNoDangling
<1>8. CASE Sweep
  BY <1>8, LifecycleAssumption DEF Sweep, MapNoDangling
<1>9. CASE SweepBreak
  BY <1>9 DEF SweepBreak, MapNoDangling
<1>10. CASE Join
  BY <1>10 DEF Join, MapNoDangling
<1>11. ASSUME NEW f \in Fds, Accept(f) PROVE MapNoDangling'
  BY <1>11 DEF Accept, MapNoDangling
<1>12. ASSUME NEW f \in Fds, Connect(f) PROVE MapNoDangling'
  BY <1>12 DEF Connect, MapNoDangling
<1>13. ASSUME NEW c \in Clients, NewInClient(c) PROVE MapNoDangling'
  BY <1>13 DEF NewInClient, NewClient, MapNoDangling, TypeOK, ThreadInv
<1>14. ASSUME NEW c \in Clients, InInitFails(c) PROVE MapNoDangling'
  BY <1>14 DEF InInitFails, NewClient, MapNoDangling
<1>15. ASSUME NEW c \in Clients, NewOutClient(c) PROVE MapNoDangling'
  BY <1>15 DEF NewOutClient, NewClient, MapNoDangling, TypeOK, ThreadInv
<1>16. ASSUME NEW c \in Clients, OutInitFails(c) PROVE MapNoDangling'
  BY <1>16 DEF OutInitFails, NewClient, MapNoDangling
<1>17. ASSUME NEW c \in Clients, Dispatch(c) PROVE MapNoDangling'
  BY <1>17 DEF Dispatch, MapNoDangling
<1>18. ASSUME NEW c \in Clients, LoopEnds(c) PROVE MapNoDangling'
  BY <1>18 DEF LoopEnds, MapNoDangling
<1>19. ASSUME NEW c \in Clients, ReadStarts(c) PROVE MapNoDangling'
  BY <1>19, LifecycleAssumption DEF ReadStarts, Found, AfterLookup, MapNoDangling, TypeOK
<1>20. ASSUME NEW c \in Clients, ReadReturns(c) PROVE MapNoDangling'
  BY <1>20 DEF ReadReturns, MapNoDangling
<1>21. ASSUME NEW c \in Clients, DtorMap(c) PROVE MapNoDangling'
  BY <1>21, LifecycleAssumption DEF DtorMap, Found, AfterLookup, MapNoDangling
<1>22. ASSUME NEW c \in Clients, DtorFree(c) PROVE MapNoDangling'
  BY <1>22 DEF DtorFree, MapNoDangling
<1>23. ASSUME NEW c \in Clients, DtorClose(c) PROVE MapNoDangling'
  BY <1>23 DEF DtorClose, MapNoDangling
<1>24. ASSUME NEW c \in Clients, DtorErase(c) PROVE MapNoDangling'
  BY <1>24, LifecycleAssumption DEF DtorErase, MapNoDangling, TypeOK
<1>25. ASSUME NEW c \in Clients, DtorPair(c) PROVE MapNoDangling'
  BY <1>25 DEF DtorPair, MapNoDangling
<1>26. ASSUME NEW c \in Clients, DtorEnd(c) PROVE MapNoDangling'
  BY <1>26 DEF DtorEnd, MapNoDangling
<1>27. ASSUME NEW c \in Clients, RemoteCloses(c) PROVE MapNoDangling'
  BY <1>27 DEF RemoteCloses, MapNoDangling
<1>28. CASE UNCHANGED vars
  BY <1>28 DEF vars, mainVars, MapNoDangling, TypeOK
<1> QED
  BY NextCases, <1>1, <1>2, <1>3, <1>4, <1>5, <1>6, <1>7, <1>8, <1>9, <1>10, <1>11,
     <1>12, <1>13, <1>14, <1>15, <1>16, <1>17, <1>18, <1>19, <1>20, <1>21, <1>22, <1>23,
     <1>24, <1>25, <1>26, <1>27, <1>28

-----------------------------------------------------------------------------
(* A descriptor passes from the listener to one client; the destructor     *)
(* gives it back.                                                          *)
LEMMA FdStep == TypeOK /\ HereInv /\ ThreadInv /\ FdOwnership /\ [Next]_vars => FdOwnership'
<1> SUFFICES ASSUME TypeOK, HereInv, ThreadInv, FdOwnership, [Next]_vars PROVE FdOwnership'
  OBVIOUS
<1>0. ASSUME Owners' = Owners, Handing' = Handing, conn' = conn,
             \A c \in Owners : obj'[c].fd = obj[c].fd /\ obj'[c].of = obj[c].of
      PROVE  FdOwnership'
  BY <1>0 DEF FdOwnership
<1>1. CASE Construct
  BY <1>1 DEF Construct, FdOwnership, Owners, Handing
<1>2. CASE Signal
  BY <1>2 DEF Signal, FdOwnership, Owners, Handing
<1>3. CASE LeaveListener
  BY <1>3 DEF LeaveListener, FdOwnership, Owners, Handing
<1>4. CASE ConnectFails
  BY <1>4 DEF ConnectFails, CloseAll, FdOwnership, Owners, Handing, ThreadInv
<1>5. CASE Deleted
  <2>1. here.out_cd # NULL => here.out_cd \in Unstarted
    BY <1>5 DEF Deleted, Unstarted
  <2>2. Owners' = Owners
    BY <1>5, <2>1 DEF Deleted, Owners, ThreadInv, TypeOK
  <2>3. Handing' = Handing
    BY <1>5 DEF Deleted, Handing
  <2> QED BY <1>0, <1>5, <2>2, <2>3 DEF Deleted
<1>6. CASE SpawnOut
  <2>1. here.out_cd \in Unstarted
    BY <1>6 DEF SpawnOut, Unstarted
  <2>2. Owners' = Owners
    BY <1>6, <2>1 DEF SpawnOut, Owners, ThreadInv, TypeOK
  <2>3. Handing' = Handing
    BY <1>6 DEF SpawnOut, Handing
  <2> QED BY <1>0, <1>6, <2>2, <2>3 DEF SpawnOut
<1>7. CASE SpawnIn
  <2>1. here.in_cd \in Unstarted
    BY <1>7 DEF SpawnIn, Unstarted
  <2>2. Owners' = Owners
    BY <1>7, <2>1 DEF SpawnIn, Owners, ThreadInv, TypeOK
  <2>3. Handing' = Handing
    BY <1>7 DEF SpawnIn, Handing
  <2> QED BY <1>0, <1>7, <2>2, <2>3 DEF SpawnIn
<1>8. CASE Sweep
  BY <1>8 DEF Sweep, FdOwnership, Owners, Handing
<1>9. CASE SweepBreak
  BY <1>9 DEF SweepBreak, FdOwnership, Owners, Handing
<1>10. CASE Join
  BY <1>10 DEF Join, FdOwnership, Owners, Handing
<1>11. ASSUME NEW f \in Fds, Accept(f) PROVE FdOwnership'
  BY <1>11 DEF Accept, FreeFds, FdOwnership, Owners, Handing, TypeOK, HereT, ThreadInv
<1>12. ASSUME NEW f \in Fds, Connect(f) PROVE FdOwnership'
  BY <1>12 DEF Connect, FreeFds, FdOwnership, Owners, Handing, TypeOK, ThreadInv, HereInv
<1>13. ASSUME NEW c \in Clients, NewInClient(c) PROVE FdOwnership'
  BY <1>13
  DEF NewInClient, NewClient, FdOwnership, Owners, Handing, TypeOK, ThreadInv, HereInv
<1>14. ASSUME NEW c \in Clients, InInitFails(c) PROVE FdOwnership'
  BY <1>14
  DEF InInitFails, CloseAll, NewClient, FdOwnership, Owners, Handing, TypeOK, ThreadInv,
      HereInv
<1>15. ASSUME NEW c \in Clients, NewOutClient(c) PROVE FdOwnership'
  BY <1>15
  DEF NewOutClient, NewClient, FdOwnership, Owners, Handing, TypeOK, ThreadInv, HereInv
<1>16. ASSUME NEW c \in Clients, OutInitFails(c) PROVE FdOwnership'
  <2> DEFINE f == here.out_fd
  <2>1. /\ mpc = "new_out" /\ mpc' = "delete" /\ conn' = conn /\ ~obj[c].live
        /\ obj' = [obj EXCEPT ![c] = [live |-> TRUE, fd |-> f, fw |-> here.in_fd,
                                    ev |-> "none", of |-> conns]]
        /\ th' = [th EXCEPT ![here.in_cd] = "d_map"]
    BY <1>16 DEF OutInitFails, NewClient
  <2>2. Handing = {f} /\ Handing' = {} /\ here.in_cd \in Unstarted
    BY <2>1 DEF Handing, Unstarted
  <2>3. here.in_cd \in Clients /\ obj[here.in_cd].live /\ th[here.in_cd] = "none"
    BY <2>2 DEF ThreadInv
  <2>4. th[c] = "none" /\ th'[c] = "none"
    BY <2>1, <2>3 DEF ThreadInv, TypeOK
  <2>5. Owners' = Owners \cup {c} /\ c \notin Owners
    BY <2>1, <2>3, <2>4 DEF Owners, TypeOK
  <2>6. /\ obj'[c].fd = f /\ obj'[c].of = conns
        /\ \A d \in Owners : obj'[d] = obj[d]
    BY <2>1, <2>5 DEF Owners, TypeOK
  <2>7. conn[f] = conns
    BY <2>2 DEF HereInv
  <2> QED BY <2>1, <2>2, <2>5, <2>6, <2>7 DEF FdOwnership
<1>17. ASSUME NEW c \in Clients, Dispatch(c) PROVE FdOwnership'
  BY <1>17 DEF Dispatch, FdOwnership, Owners, Handing, mainVars
<1>18. ASSUME NEW c \in Clients, LoopEnds(c) PROVE FdOwnership'
  BY <1>18 DEF LoopEnds, FdOwnership, Owners, Handing, mainVars
<1>19. ASSUME NEW c \in Clients, ReadStarts(c) PROVE FdOwnership'
  BY <1>19, LifecycleAssumption
  DEF ReadStarts, Found, AfterLookup, FdOwnership, Owners, Handing, TypeOK, mainVars,
      HereT, ThreadInv, HereInv, ObjT
<1>20. ASSUME NEW c \in Clients, ReadReturns(c) PROVE FdOwnership'
  BY <1>20 DEF ReadReturns, FdOwnership, Owners, Handing, mainVars
<1>21. ASSUME NEW c \in Clients, DtorMap(c) PROVE FdOwnership'
  BY <1>21 DEF DtorMap, FdOwnership, Owners, Handing, mainVars
<1>22. ASSUME NEW c \in Clients, DtorFree(c) PROVE FdOwnership'
  BY <1>22 DEF DtorFree, FdOwnership, Owners, Handing, mainVars
<1>23. ASSUME NEW c \in Clients, DtorClose(c) PROVE FdOwnership'
  BY <1>23
  DEF DtorClose, CloseAll, FdOwnership, Owners, Handing, TypeOK, mainVars, ThreadInv,
      HereInv
<1>24. ASSUME NEW c \in Clients, DtorErase(c) PROVE FdOwnership'
  BY <1>24 DEF DtorErase, FdOwnership, Owners, Handing, mainVars
<1>25. ASSUME NEW c \in Clients, DtorPair(c) PROVE FdOwnership'
  <2>1. Handing' = Handing /\ conn' = conn
    BY <1>25 DEF DtorPair, Handing, mainVars
  <2>2. \A d \in Clients : /\ obj'[d].live = obj[d].live /\ obj'[d].fd = obj[d].fd
                          /\ obj'[d].of = obj[d].of
    BY <1>25 DEF DtorPair, TypeOK, ObjT
  <2>3. Owners' = Owners
    BY <1>25, <2>2 DEF DtorPair, Owners, TypeOK
  <2> QED BY <1>0, <2>1, <2>2, <2>3 DEF Owners
<1>26. ASSUME NEW c \in Clients, DtorEnd(c) PROVE FdOwnership'
  <2>1. Handing' = Handing /\ conn' = conn
    BY <1>26 DEF DtorEnd, Handing, mainVars
  <2>2. c \notin Owners /\ \A d \in Clients : d # c => obj'[d] = obj[d] /\ th'[d] = th[d]
    BY <1>26 DEF DtorEnd, Owners, TypeOK
  <2>3. ~obj'[c].live
    BY <1>26 DEF DtorEnd, Nobody, TypeOK
  <2>4. Owners' = Owners
    BY <2>2, <2>3 DEF Owners
  <2> QED BY <1>0, <2>1, <2>2, <2>4 DEF Owners
<1>27. ASSUME NEW c \in Clients, RemoteCloses(c) PROVE FdOwnership'
  BY <1>27 DEF RemoteCloses, FdOwnership, Owners, Handing, mainVars
<1>28. CASE UNCHANGED vars
  BY <1>28 DEF vars, mainVars, FdOwnership, Owners, Handing, TypeOK
<1> QED
  BY NextCases, <1>1, <1>2, <1>3, <1>4, <1>5, <1>6, <1>7, <1>8, <1>9, <1>10, <1>11,
     <1>12, <1>13, <1>14, <1>15, <1>16, <1>17, <1>18, <1>19, <1>20, <1>21, <1>22, <1>23,
     <1>24, <1>25, <1>26, <1>27, <1>28

-----------------------------------------------------------------------------
LEMMA LifeInit == Init => LifeInv
<1> SUFFICES ASSUME Init PROVE LifeInv
  OBVIOUS
<1>1. TypeOK
  <2>1. obj \in [Clients -> ObjT] /\ loc \in [Clients -> LocT] /\ here \in HereT
    BY RecordTypes DEF Init
  <2>2. conn \in [Fds -> 0 .. MaxConns] /\ conns \in 0 .. MaxConns
    BY LifecycleAssumption DEF Init
  <2> QED BY <2>1, <2>2 DEF Init, TypeOK
<1>2. Handing = {} /\ Unstarted = {} /\ Owners = {}
  BY DEF Init, Handing, Unstarted, Owners, Nobody
<1>3. HereInv
  BY <1>2 DEF Init, HereInv, Idle
<1>4. ThreadInv
  BY <1>2 DEF Init, ThreadInv, Nobody
<1>5. MapNoDangling
  BY LifecycleAssumption DEF Init, MapNoDangling
<1>6. FdOwnership
  BY <1>2 DEF Init, FdOwnership
<1> QED BY <1>1, <1>3, <1>4, <1>5, <1>6 DEF LifeInv

LEMMA LifeAlways == Spec => []LifeInv
<1>1. LifeInv /\ [Next]_vars => LifeInv'
  BY TypeStep, HereStep, ThreadStep, MapStep, FdStep DEF LifeInv
<1> QED BY LifeInit, <1>1, PTL DEF Spec

(* The listener, the client threads and the destructors keep every         *)
(* variable in its type.                                                   *)
THEOREM LifeTyped == Spec => []TypeOK
<1>1. LifeInv => TypeOK
  BY DEF LifeInv
<1> QED BY LifeAlways, <1>1, PTL

(* However descriptors and addresses are reused while destructors run,     *)
(* client_map never leads to a Client that was freed or to the Client of   *)
(* another descriptor.                                                     *)
THEOREM MapSafe == Spec => []MapNoDangling
<1>1. LifeInv => MapNoDangling
  BY DEF LifeInv
<1> QED BY LifeAlways, <1>1, PTL

(* Each open descriptor has one owner that will close it, on every path of *)
(* the listener and of the destructors.                                    *)
THEOREM DescriptorsOwned == Spec => []FdOwnership
<1>1. LifeInv => FdOwnership
  BY DEF LifeInv
<1> QED BY LifeAlways, <1>1, PTL

(* When main() returns, every client was freed and every connection was    *)
(* closed.                                                                 *)
THEOREM ExitsClean == Spec => []CleanExit
<1>1. LifeInv => CleanExit
  <2> SUFFICES ASSUME LifeInv, mpc = "exit"
               PROVE  /\ \A c \in Clients : ~obj[c].live
                      /\ \A f \in Fds : conn[f] = 0
    BY DEF CleanExit
  <2>1. Unstarted = {} /\ Handing = {}
    BY DEF Unstarted, Handing
  <2>2. \A c \in Clients : ~obj[c].live
    BY <2>1 DEF LifeInv, ThreadInv
  <2>3. \A f \in Fds : conn[f] = 0
    BY <2>1, <2>2 DEF LifeInv, FdOwnership, Owners
  <2> QED BY <2>2, <2>3
<1> QED BY LifeAlways, <1>1, PTL
=============================================================================
