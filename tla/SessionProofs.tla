--------------------------- MODULE SessionProofs ----------------------------
(***************************************************************************)
(* When the connections of Lifecycle stay apart.  SessionsSeparate is      *)
(* violated by the code: a descriptor that was closed is given to a new    *)
(* connection while a client of the old one still refers to it by number.  *)
(* Here it is proved that nothing else can mix two connections up.         *)
(***************************************************************************)
EXTENDS LifecycleProofs

(* A step opens no descriptor to which a client that is still allocated    *)
(* refers: as its own, as that of its pair, or in the running callback.    *)
FreshFd ==
  \A f \in Fds : conn[f] = 0 /\ conn'[f] # 0 =>
    \A c \in Clients : obj[c].live => f \notin {obj[c].fd, obj[c].fw, loc[c].fd}

Closed == {"d_erase", "d_pair", "d_end"}

(* The inflow client that is made first has the connection's descriptor.   *)
InHandInv ==
  mpc = "new_out" => obj[here.in_cd].fd = here.in_fd /\ obj[here.in_cd].of = conns

(* The locals of on_flow_read are set while it runs and not otherwise.     *)
LocalsInv ==
  \A c \in Clients :
    /\ th[c] = "cb" => loc[c].fd \in Fds /\ loc[c].cli \in Clients
    /\ th[c] # "cb" => loc[c].fd = NoFd

(* A descriptor to which a client refers as that of its pair is closed or  *)
(* belongs to the client's own connection.                                 *)
RefInv ==
  \A c \in Clients : obj[c].live =>
    \A k \in {obj[c].fw, loc[c].fd} \cap Fds : conn[k] \in {0, obj[c].of}

(* The descriptor that a destructor has closed stays closed until its end. *)
ClosedInv ==
  \A c \in Clients : obj[c].live /\ th[c] \in Closed => conn[obj[c].fd] = 0

(* While the descriptor that a callback looked up is open, the client that *)
(* it found there still owns it.                                           *)
CallInv ==
  \A c \in Clients : th[c] = "cb" /\ conn[loc[c].fd] # 0 =>
    loc[c].cli \in Owners /\ obj[loc[c].cli].fd = loc[c].fd

SessionInv == InHandInv /\ LocalsInv /\ RefInv /\ ClosedInv /\ CallInv

-----------------------------------------------------------------------------
(* What a step may change of a client: it is made by the listener for the  *)
(* present connection, keeps its descriptor, may lose its pair, and is     *)
(* freed at the end of its destructor.                                     *)
LEMMA ObjectMoves ==
  ASSUME LifeInv, InHandInv, [Next]_vars, NEW c \in Clients
  PROVE  /\ obj[c].live /\ obj'[c].live =>
              /\ obj'[c].fd = obj[c].fd /\ obj'[c].of = obj[c].of
              /\ obj'[c].fw \in {obj[c].fw, NoFd}
         /\ obj[c].live /\ ~obj'[c].live => th[c] = "d_end"
         /\ ~obj[c].live /\ obj'[c].live =>
              /\ obj'[c].of = conns /\ obj'[c].fw \in Fds
              /\ conn'[obj'[c].fw] \in {0, conns}
              /\ loc'[c] = loc[c] /\ th'[c] \notin Closed
<1> DEFINE Goal == /\ obj[c].live /\ obj'[c].live =>
                        /\ obj'[c].fd = obj[c].fd /\ obj'[c].of = obj[c].of
                        /\ obj'[c].fw \in {obj[c].fw, NoFd}
                   /\ obj[c].live /\ ~obj'[c].live => th[c] = "d_end"
                   /\ ~obj[c].live /\ obj'[c].live =>
                        /\ obj'[c].of = conns /\ obj'[c].fw \in Fds
                        /\ conn'[obj'[c].fw] \in {0, conns}
                        /\ loc'[c] = loc[c] /\ th'[c] \notin Closed
<1>a. /\ obj \in [Clients -> ObjT] /\ here \in HereT
      /\ th \in [Clients -> {"none", "ready", "loop", "cb"} \cup Dtor]
      /\ conn \in [Fds -> 0 .. MaxConns] /\ conns \in 0 .. MaxConns
      /\ loc \in [Clients -> LocT]
  BY DEF LifeInv, TypeOK
<1>b. \A d \in Clients : ~obj[d].live => th[d] = "none"
  BY DEF LifeInv, ThreadInv
<1>1. CASE UNCHANGED obj
  BY <1>1
<1>2. ASSUME NEW e \in Clients, NEW fd, NEW fw \in Fds, NEW ev, ~obj[e].live,
             obj' = NewClient(e, fd, fw, ev), conn'[fw] \in {0, conns},
             loc' = loc, \A d \in Clients : d = e => th'[d] \in {"none", "d_map"}
      PROVE  Goal
  <2>1. CASE c = e
    BY <1>2, <1>a, <2>1 DEF NewClient, Closed
  <2>2. CASE c # e
    BY <1>2, <1>a, <2>2 DEF NewClient
  <2> QED BY <2>1, <2>2
<1>3. ASSUME NEW e \in Clients, NewInClient(e) PROVE Goal
  <2>1. mpc = "new_in" /\ conn' = conn /\ loc' = loc /\ th' = th /\ ~obj[e].live
        /\ obj' = NewClient(e, here.in_fd, here.out_fd, "ok")
    BY <1>3 DEF NewInClient
  <2>2. here.out_fd \in Fds /\ conn[here.out_fd] = conns
    BY <2>1 DEF LifeInv, HereInv, Handing
  <2>3. th'[e] \in {"none", "d_map"}
    BY <1>b, <2>1
  <2> QED BY <1>2, <2>1, <2>2, <2>3
<1>4. ASSUME NEW e \in Clients, InInitFails(e) PROVE Goal
  <2>1. mpc = "new_in" /\ loc' = loc /\ th' = [th EXCEPT ![e] = "d_map"] /\ ~obj[e].live
        /\ obj' = NewClient(e, here.in_fd, here.out_fd, "none")
        /\ CloseAll({here.out_fd})
    BY <1>4 DEF InInitFails
  <2>2. here.out_fd \in Fds
    BY <2>1 DEF LifeInv, HereInv, Handing
  <2>3. conn'[here.out_fd] = 0
    BY <2>1, <2>2 DEF CloseAll
  <2>4. th'[e] \in {"none", "d_map"}
    BY <1>a, <2>1
  <2> QED BY <1>2, <2>1, <2>2, <2>3, <2>4
<1>5. ASSUME NEW e \in Clients, NewOutClient(e) \/ OutInitFails(e) PROVE Goal
  <2>1. /\ mpc = "new_out" /\ conn' = conn /\ loc' = loc /\ ~obj[e].live
        /\ th' = th \/ th' = [th EXCEPT ![here.in_cd] = "d_map"]
        /\ \E ev \in {"ok", "none"} : obj' = NewClient(e, here.out_fd, here.in_fd, ev)
    BY <1>5 DEF NewOutClient, OutInitFails
  <2>2. here.in_cd \in Unstarted /\ here.in_cd \in Clients
    BY <2>1 DEF LifeInv, ThreadInv, Unstarted
  <2>3. obj[here.in_cd].live /\ th[here.in_cd] = "none"
    BY <2>2 DEF LifeInv, ThreadInv
  <2>4. obj[here.in_cd].fd = here.in_fd /\ obj[here.in_cd].of = conns
    BY <2>1 DEF InHandInv
  <2>5. here.in_fd \in Fds
    BY <2>2, <2>3, <2>4 DEF LifeInv, ThreadInv
  <2>6. here.in_cd \in Owners
    BY <2>2, <2>3 DEF Owners
  <2>7. conn[here.in_fd] = conns
    BY <2>4, <2>6 DEF LifeInv, FdOwnership
  <2>8. th'[e] \in {"none", "d_map"}
    BY <1>a, <1>b, <2>1
  <2>9. PICK ev \in {"ok", "none"} : obj' = NewClient(e, here.out_fd, here.in_fd, ev)
    BY <2>1
  <2>10. conn'[here.in_fd] \in {0, conns}
    BY <2>1, <2>7
  <2> QED BY <1>2, <2>1, <2>5, <2>8, <2>9, <2>10
<1>6. ASSUME NEW e \in Clients, DtorFree(e) PROVE Goal
  BY <1>6, <1>a DEF DtorFree, ObjT
<1>7. ASSUME NEW e \in Clients, DtorPair(e) PROVE Goal
  <2>1. \/ obj' = obj
        \/ \E d \in Clients : obj' = [obj EXCEPT ![d].fw = NoFd]
    <3>1. loc[e].cli \in Clients \cup {NULL}
      BY <1>a DEF LocT
    <3> QED BY <1>7, <3>1 DEF DtorPair
  <2> QED BY <1>1, <1>a, <2>1 DEF ObjT
<1>8. ASSUME NEW e \in Clients, DtorEnd(e) PROVE Goal
  BY <1>8, <1>a DEF DtorEnd, Nobody
<1>9. \/ UNCHANGED obj
      \/ \E e \in Clients : \/ NewInClient(e) \/ InInitFails(e) \/ NewOutClient(e)
                            \/ OutInitFails(e) \/ DtorFree(e) \/ DtorPair(e) \/ DtorEnd(e)
  <2>1. ASSUME NEW e \in Clients,
               \/ Dispatch(e) \/ LoopEnds(e) \/ ReadStarts(e) \/ ReadReturns(e)
               \/ DtorMap(e) \/ DtorClose(e) \/ DtorErase(e) \/ RemoteCloses(e)
        PROVE  UNCHANGED obj
    BY <2>1 DEF Dispatch, LoopEnds, ReadStarts, ReadReturns, DtorMap, DtorClose, DtorErase,
       RemoteCloses
  <2>2. ASSUME NEW f \in Fds, Accept(f) \/ Connect(f) PROVE UNCHANGED obj
    BY <2>2 DEF Accept, Connect
  <2>3. ASSUME \/ Construct \/ Signal \/ LeaveListener \/ ConnectFails \/ Deleted
               \/ SpawnOut \/ SpawnIn \/ Sweep \/ SweepBreak \/ Join \/ UNCHANGED vars
        PROVE  UNCHANGED obj
    BY <2>3 DEF Construct, Signal, LeaveListener, ConnectFails, Deleted, SpawnOut, SpawnIn,
       Sweep, SweepBreak, Join, vars
  <2> QED BY NextCases, <2>1, <2>2, <2>3
<1> QED BY <1>1, <1>3, <1>4, <1>5, <1>6, <1>7, <1>8, <1>9

(* A descriptor to which an allocated client refers keeps its connection   *)
(* or is closed, where descriptors are fresh.                              *)
LEMMA NoReopening ==
  ASSUME LifeInv, [Next]_vars, FreshFd, NEW c \in Clients, obj[c].live,
         NEW f \in {obj[c].fd, obj[c].fw, loc[c].fd} \cap Fds
  PROVE  conn'[f] \in {conn[f], 0}
<1>a. conn \in [Fds -> 0 .. MaxConns]
  BY DEF LifeInv, TypeOK
<1>1. conn[f] = 0 => conn'[f] = 0
  BY DEF FreshFd
<1>2. ASSUME NEW F, CloseAll(F) PROVE conn'[f] \in {conn[f], 0}
  BY <1>2 DEF CloseAll
<1>3. ASSUME NEW g \in Fds, Accept(g) \/ Connect(g) PROVE conn'[f] \in {conn[f], 0}
  <2>1. conn[g] = 0 /\ (conn' = conn \/ \E n : conn' = [conn EXCEPT ![g] = n])
    BY <1>3 DEF Accept, Connect, FreeFds
  <2> QED BY <1>1, <1>a, <2>1
<1>4. ASSUME \E e \in Clients : DtorClose(e) \/ InInitFails(e) PROVE \E F : CloseAll(F)
  BY <1>4 DEF DtorClose, InInitFails
<1>5. ASSUME ConnectFails PROVE \E F : CloseAll(F)
  BY <1>5 DEF ConnectFails
<1>6. ASSUME NEW e \in Clients,
             \/ NewInClient(e) \/ NewOutClient(e) \/ OutInitFails(e) \/ Dispatch(e)
             \/ LoopEnds(e) \/ ReadStarts(e) \/ ReadReturns(e) \/ DtorMap(e) \/ DtorFree(e)
             \/ DtorErase(e) \/ DtorPair(e) \/ DtorEnd(e) \/ RemoteCloses(e)
      PROVE  UNCHANGED conn
  BY <1>6 DEF NewInClient, NewOutClient, OutInitFails, Dispatch, LoopEnds, ReadStarts,
     ReadReturns, DtorMap, DtorFree, DtorErase, DtorPair, DtorEnd, RemoteCloses
<1>7. ASSUME \/ Construct \/ Signal \/ LeaveListener \/ Deleted \/ SpawnOut \/ SpawnIn
             \/ Sweep \/ SweepBreak \/ Join \/ UNCHANGED vars
      PROVE  UNCHANGED conn
  BY <1>7 DEF Construct, Signal, LeaveListener, Deleted, SpawnOut, SpawnIn, Sweep,
     SweepBreak, Join, vars
<1>8. CASE \E F : CloseAll(F)
  BY <1>2, <1>8
<1>9. CASE UNCHANGED conn
  BY <1>9
<1> QED BY NextCases, <1>3, <1>4, <1>5, <1>6, <1>7, <1>8, <1>9

(* The locals of a callback are those that it looked up, and a destructor  *)
(* that has closed its descriptor did so in this step or before.           *)
LEMMA ThreadMoves ==
  ASSUME LifeInv, LocalsInv, [Next]_vars, NEW c \in Clients
  PROVE  /\ th'[c] = "cb" =>
              \/ th[c] = "cb" /\ loc'[c] = loc[c]
              \/ /\ ReadStarts(c) /\ loc'[c].fd = obj[c].fw
                 /\ loc'[c].cli = client_map[obj[c].fw] /\ loc'[c].cli \in Clients
                 /\ \A d \in Clients : d # c => th'[d] = th[d]
         /\ th'[c] # "cb" => loc'[c].fd = NoFd
         /\ th'[c] \in Closed /\ th[c] \notin Closed => conn'[obj[c].fd] = 0
<1> DEFINE Goal == /\ th'[c] = "cb" =>
                        \/ th[c] = "cb" /\ loc'[c] = loc[c]
                        \/ /\ ReadStarts(c) /\ loc'[c].fd = obj[c].fw
                           /\ loc'[c].cli = client_map[obj[c].fw] /\ loc'[c].cli \in Clients
                           /\ \A d \in Clients : d # c => th'[d] = th[d]
                   /\ th'[c] # "cb" => loc'[c].fd = NoFd
                   /\ th'[c] \in Closed /\ th[c] \notin Closed => conn'[obj[c].fd] = 0
<1>a. /\ th \in [Clients -> {"none", "ready", "loop", "cb"} \cup Dtor]
      /\ loc \in [Clients -> LocT] /\ obj \in [Clients -> ObjT]
      /\ client_map \in [Keys -> Clients \cup {NULL, Absent}]
      /\ conn \in [Fds -> 0 .. MaxConns] /\ here \in HereT
  BY DEF LifeInv, TypeOK
<1>b. th[c] # "cb" => loc[c].fd = NoFd
  BY DEF LocalsInv
<1>1. CASE UNCHANGED <<th, loc>>
  BY <1>1, <1>b
(* A thread e moves on outside of a callback.                              *)
<1>2. ASSUME NEW e, NEW s \in {"ready", "loop", "d_map"}, loc' = loc,
             th' = [th EXCEPT ![e] = s], e \in Clients => th[e] # "cb"
      PROVE  Goal
  <2>1. CASE c = e
    BY <1>2, <1>a, <1>b, <2>1 DEF Closed
  <2>2. CASE c # e
    BY <1>2, <1>a, <1>b, <2>2
  <2> QED BY <2>1, <2>2
<1>3. ASSUME NEW e \in Clients, Dispatch(e) \/ LoopEnds(e) PROVE Goal
  BY <1>2, <1>3, <1>a DEF Dispatch, LoopEnds
<1>4. ASSUME NEW e \in Clients, InInitFails(e) PROVE Goal
  <2>1. ~obj[e].live /\ loc' = loc /\ th' = [th EXCEPT ![e] = "d_map"]
    BY <1>4 DEF InInitFails
  <2>2. th[e] # "cb"
    BY <2>1 DEF LifeInv, ThreadInv
  <2> QED BY <1>2, <2>1, <2>2
<1>5. ASSUME NEW e \in Clients, OutInitFails(e) PROVE Goal
  <2>1. mpc = "new_out" /\ loc' = loc /\ th' = [th EXCEPT ![here.in_cd] = "d_map"]
    BY <1>5 DEF OutInitFails
  <2>2. here.in_cd \in Unstarted
    BY <2>1 DEF Unstarted
  <2>3. th[here.in_cd] # "cb"
    BY <2>2 DEF LifeInv, ThreadInv
  <2> QED BY <1>2, <2>1, <2>3
<1>6. CASE Deleted
  <2>1. CASE here.out_cd = NULL
    BY <1>1, <1>6, <2>1 DEF Deleted
  <2>2. CASE here.out_cd # NULL
    <3>1. mpc = "delete" /\ loc' = loc /\ th' = [th EXCEPT ![here.out_cd] = "d_map"]
      BY <1>6, <2>2 DEF Deleted
    <3>2. here.out_cd \in Unstarted
      BY <2>2, <3>1 DEF Unstarted
    <3>3. th[here.out_cd] # "cb"
      BY <3>2 DEF LifeInv, ThreadInv
    <3> QED BY <1>2, <3>1, <3>3
  <2> QED BY <2>1, <2>2
<1>7. CASE SpawnOut
  <2>1. mpc = "spawn_out" /\ loc' = loc /\ th' = [th EXCEPT ![here.out_cd] = "ready"]
    BY <1>7 DEF SpawnOut
  <2>2. th[here.out_cd] # "cb"
    BY <2>1 DEF LifeInv, ThreadInv, Unstarted
  <2> QED BY <1>2, <2>1, <2>2
<1>8. CASE SpawnIn
  <2>1. mpc = "spawn_in" /\ loc' = loc /\ th' = [th EXCEPT ![here.in_cd] = "ready"]
    BY <1>8 DEF SpawnIn
  <2>2. th[here.in_cd] # "cb"
    BY <2>1 DEF LifeInv, ThreadInv, Unstarted
  <2> QED BY <1>2, <2>1, <2>2
<1>9. ASSUME NEW e \in Clients, ReadStarts(e) PROVE Goal
  <2> DEFINE k == obj[e].fw
  <2>1. k \in Keys /\ th[e] = "loop"
    BY <1>9, <1>a DEF ReadStarts, ObjT
  <2>2. CASE Found(k) = NULL
    BY <1>1, <1>9, <2>2 DEF ReadStarts
  <2>3. CASE Found(k) # NULL
    <3>1. client_map[k] \in Clients /\ Found(k) = client_map[k]
      BY <1>a, <2>1, <2>3 DEF Found
    <3>2. /\ th' = [th EXCEPT ![e] = "cb"]
          /\ loc' = [loc EXCEPT ![e] = [cli |-> client_map[k], fd |-> k]]
      BY <1>9, <2>3, <3>1 DEF ReadStarts
    <3>3. CASE c = e
      <4>1. th'[c] = "cb" /\ loc'[c] = [cli |-> client_map[k], fd |-> k]
        BY <1>a, <3>2, <3>3
      <4>2. \A d \in Clients : d # c => th'[d] = th[d]
        BY <1>a, <3>2, <3>3
      <4> QED BY <1>9, <3>1, <3>3, <4>1, <4>2 DEF Closed
    <3>4. CASE c # e
      <4>1. th'[c] = th[c] /\ loc'[c] = loc[c]
        BY <1>a, <3>2, <3>4
      <4> QED BY <1>b, <4>1
    <3> QED BY <3>3, <3>4
  <2> QED BY <2>2, <2>3
<1>10. ASSUME NEW e \in Clients, NEW s \in {"loop", "none", "d_free"}, loc' \in [Clients -> LocT],
              th' = [th EXCEPT ![e] = s], loc'[e].fd = NoFd,
              \A d \in Clients : d # e => loc'[d] = loc[d]
       PROVE  Goal
  <2>1. CASE c = e
    BY <1>10, <1>a, <2>1 DEF Closed
  <2>2. CASE c # e
    BY <1>10, <1>a, <1>b, <2>2
  <2> QED BY <2>1, <2>2
<1>11. LifeInv'
  BY TypeStep, HereStep, ThreadStep, MapStep, FdStep DEF LifeInv
<1>12. loc' \in [Clients -> LocT]
  BY <1>11 DEF LifeInv, TypeOK
<1>13. ASSUME NEW e \in Clients, ReadReturns(e) PROVE Goal
  BY <1>10, <1>12, <1>13, <1>a DEF ReadReturns, NoLocals
<1>14. ASSUME NEW e \in Clients, DtorEnd(e) PROVE Goal
  BY <1>10, <1>12, <1>14, <1>a DEF DtorEnd, NoLocals
<1>15. ASSUME NEW e \in Clients, DtorMap(e) PROVE Goal
  <2>1. th[e] = "d_map" /\ th' = [th EXCEPT ![e] = "d_free"]
        /\ loc' = [loc EXCEPT ![e].cli = Found(obj[e].fw)]
    BY <1>15 DEF DtorMap
  <2>2. loc[e].fd = NoFd
    BY <2>1 DEF LocalsInv
  <2>3. loc'[e].fd = NoFd
    BY <1>a, <2>1, <2>2 DEF LocT
  <2>4. \A d \in Clients : d # e => loc'[d] = loc[d]
    BY <1>a, <2>1
  <2> QED BY <1>10, <1>12, <2>1, <2>3, <2>4
<1>16. ASSUME NEW e \in Clients, DtorFree(e) PROVE Goal
  BY <1>16, <1>a, <1>b DEF DtorFree, Closed
<1>17. ASSUME NEW e \in Clients, DtorClose(e) PROVE Goal
  <2>1. th[e] = "d_close" /\ th' = [th EXCEPT ![e] = "d_erase"] /\ loc' = loc
        /\ CloseAll({obj[e].fd})
    BY <1>17 DEF DtorClose
  <2>2. obj[e].fd \in Fds
    BY <2>1 DEF LifeInv, ThreadInv
  <2>3. conn'[obj[e].fd] = 0
    BY <2>1, <2>2 DEF CloseAll
  <2> QED BY <1>a, <1>b, <2>1, <2>3
<1>18. ASSUME NEW e \in Clients, DtorErase(e) PROVE Goal
  BY <1>18, <1>a, <1>b DEF DtorErase, Closed
<1>19. ASSUME NEW e \in Clients, DtorPair(e) PROVE Goal
  BY <1>19, <1>a, <1>b DEF DtorPair, Closed
<1>20. ASSUME NEW e \in Clients, NewInClient(e) \/ NewOutClient(e) \/ RemoteCloses(e)
       PROVE  UNCHANGED <<th, loc>>
  BY <1>20 DEF NewInClient, NewOutClient, RemoteCloses
<1>21. ASSUME NEW f \in Fds, Accept(f) \/ Connect(f) PROVE UNCHANGED <<th, loc>>
  BY <1>21 DEF Accept, Connect
<1>22. ASSUME \/ Construct \/ Signal \/ LeaveListener \/ ConnectFails
              \/ Sweep \/ SweepBreak \/ Join \/ UNCHANGED vars
       PROVE  UNCHANGED <<th, loc>>
  BY <1>22 DEF Construct, Signal, LeaveListener, ConnectFails, Sweep, SweepBreak, Join, vars
<1> QED
  BY NextCases, <1>1, <1>3, <1>4, <1>5, <1>6, <1>7, <1>8, <1>9, <1>13, <1>14, <1>15, <1>16,
     <1>17, <1>18, <1>19, <1>20, <1>21, <1>22

-----------------------------------------------------------------------------
(* While the listener makes the second client, the first stays as it is.   *)
LEMMA InHandStep == LifeInv /\ InHandInv /\ [Next]_vars => InHandInv'
<1> SUFFICES ASSUME LifeInv, InHandInv, [Next]_vars, mpc' = "new_out"
             PROVE  obj'[here'.in_cd].fd = here'.in_fd /\ obj'[here'.in_cd].of = conns'
  BY DEF InHandInv
<1>a. obj \in [Clients -> ObjT] /\ here \in HereT
  BY DEF LifeInv, TypeOK
<1>1. ASSUME NEW c \in Clients, NewInClient(c)
      PROVE  obj'[here'.in_cd].fd = here'.in_fd /\ obj'[here'.in_cd].of = conns'
  <2>1. here' = [here EXCEPT !.in_cd = c] /\ conns' = conns
        /\ obj' = NewClient(c, here.in_fd, here.out_fd, "ok")
    BY <1>1 DEF NewInClient
  <2>2. here'.in_cd = c /\ here'.in_fd = here.in_fd
    BY <1>a, <2>1 DEF HereT
  <2> QED BY <1>a, <2>1, <2>2 DEF NewClient
<1>2. ASSUME mpc = "new_out", here' = here, conns' = conns
      PROVE  obj'[here'.in_cd].fd = here'.in_fd /\ obj'[here'.in_cd].of = conns'
  <2> DEFINE c == here.in_cd
  <2>1. c \in Unstarted /\ Unstarted' = Unstarted
    BY <1>2 DEF Unstarted
  <2>2. c \in Clients /\ obj[c].live /\ th[c] # "d_end"
    BY <2>1 DEF LifeInv, ThreadInv
  <2>3. obj'[c].live
    BY <2>2, ObjectMoves
  <2>4. obj'[c].fd = obj[c].fd /\ obj'[c].of = obj[c].of
    BY <2>2, <2>3, ObjectMoves
  <2> QED BY <1>2, <2>4 DEF InHandInv
<1>3. ASSUME NEW c \in Clients,
             \/ Dispatch(c) \/ LoopEnds(c) \/ ReadStarts(c) \/ ReadReturns(c)
             \/ DtorMap(c) \/ DtorFree(c) \/ DtorClose(c) \/ DtorErase(c)
             \/ DtorPair(c) \/ DtorEnd(c) \/ RemoteCloses(c)
      PROVE  mpc = "new_out" /\ here' = here /\ conns' = conns
  BY <1>3 DEF Dispatch, LoopEnds, ReadStarts, ReadReturns, DtorMap, DtorFree, DtorClose,
     DtorErase, DtorPair, DtorEnd, RemoteCloses, mainVars
<1>4. ASSUME NEW c \in Clients, InInitFails(c) \/ NewOutClient(c) \/ OutInitFails(c)
      PROVE  FALSE
  BY <1>4 DEF InInitFails, NewOutClient, OutInitFails
<1>5. ASSUME NEW f \in Fds, Accept(f) \/ Connect(f) PROVE FALSE
  BY <1>5 DEF Accept, Connect
<1>6. CASE Signal \/ UNCHANGED vars
  BY <1>2, <1>6 DEF Signal, vars, mainVars
<1>7. ASSUME \/ Construct \/ LeaveListener \/ ConnectFails \/ Deleted
             \/ SpawnOut \/ SpawnIn \/ Sweep \/ SweepBreak \/ Join
      PROVE  FALSE
  BY <1>7 DEF Construct, LeaveListener, ConnectFails, Deleted, SpawnOut, SpawnIn, Sweep,
     SweepBreak, Join
<1> QED BY NextCases, <1>1, <1>2, <1>3, <1>4, <1>5, <1>6, <1>7

(* With fresh descriptors no reference to a descriptor outlives what it    *)
(* was made for.                                                           *)
LEMMA SessionStep ==
  LifeInv /\ SessionInv /\ [Next]_vars /\ FreshFd => SessionInv'
<1> SUFFICES ASSUME LifeInv, SessionInv, [Next]_vars, FreshFd PROVE SessionInv'
  OBVIOUS
<1> USE DEF SessionInv
<1>0. LifeInv'
  BY TypeStep, HereStep, ThreadStep, MapStep, FdStep DEF LifeInv
<1>a. \A c \in Clients : /\ obj[c].live => obj[c].fd \in Fds
                         /\ ~obj[c].live => th[c] = "none"
  BY DEF LifeInv, ThreadInv
<1>b. NoFd \notin Fds
  BY LifecycleAssumption
<1>1. InHandInv'
  BY InHandStep
<1>2. LocalsInv'
  <2> SUFFICES ASSUME NEW c \in Clients
               PROVE  /\ th'[c] = "cb" => loc'[c].fd \in Fds /\ loc'[c].cli \in Clients
                      /\ th'[c] # "cb" => loc'[c].fd = NoFd
    BY DEF LocalsInv
  <2>1. CASE th'[c] # "cb"
    BY <2>1, ThreadMoves
  <2>2. CASE th[c] = "cb" /\ loc'[c] = loc[c]
    BY <2>2, ThreadMoves DEF LocalsInv
  <2>3. CASE loc'[c].fd = obj[c].fw /\ loc'[c].cli = client_map[obj[c].fw]
             /\ loc'[c].cli \in Clients /\ th'[c] = "cb"
    <3>1. obj[c].fw \in Keys
      BY DEF LifeInv, TypeOK, ObjT
    <3>2. obj[loc'[c].cli].live /\ obj[loc'[c].cli].fd = obj[c].fw
      BY <2>3, <3>1 DEF LifeInv, MapNoDangling
    <3> QED BY <1>a, <2>3, <3>2
  <2> QED BY <2>1, <2>2, <2>3, ThreadMoves
<1>3. RefInv'
  <2> SUFFICES ASSUME NEW c \in Clients, obj'[c].live,
                      NEW k \in {obj'[c].fw, loc'[c].fd} \cap Fds
               PROVE  conn'[k] \in {0, obj'[c].of}
    BY DEF RefInv
  <2>1. CASE obj[c].live
    <3>1. obj'[c].of = obj[c].of /\ obj'[c].fw \in {obj[c].fw, NoFd}
      BY <2>1, ObjectMoves
    <3>2. loc'[c].fd \in {loc[c].fd, obj[c].fw, NoFd}
      BY ThreadMoves
    <3>3. k \in {obj[c].fw, loc[c].fd} \cap Fds
      BY <1>b, <3>1, <3>2
    <3>4. conn[k] \in {0, obj[c].of}
      BY <2>1, <3>3 DEF RefInv
    <3>5. conn'[k] \in {conn[k], 0}
      BY <2>1, <3>3, NoReopening
    <3> QED BY <3>1, <3>4, <3>5
  <2>2. CASE ~obj[c].live
    <3>1. /\ obj'[c].of = conns /\ conn'[obj'[c].fw] \in {0, conns} /\ loc'[c] = loc[c]
      BY <2>2, ObjectMoves
    <3>2. loc[c].fd = NoFd
      BY <1>a, <2>2 DEF LocalsInv
    <3> QED BY <1>b, <3>1, <3>2
  <2> QED BY <2>1, <2>2
<1>4. ClosedInv'
  <2> SUFFICES ASSUME NEW c \in Clients, obj'[c].live, th'[c] \in Closed
               PROVE  conn'[obj'[c].fd] = 0
    BY DEF ClosedInv
  <2>1. obj[c].live
    BY ObjectMoves
  <2>2. obj'[c].fd = obj[c].fd /\ obj[c].fd \in Fds
    BY <1>a, <2>1, ObjectMoves
  <2>3. CASE th[c] \in Closed
    <3>1. conn[obj[c].fd] = 0
      BY <2>1, <2>3 DEF ClosedInv
    <3>2. conn'[obj[c].fd] \in {conn[obj[c].fd], 0}
      BY <2>1, <2>2, NoReopening
    <3> QED BY <2>2, <3>1, <3>2
  <2>4. CASE th[c] \notin Closed
    BY <2>2, <2>4, ThreadMoves
  <2> QED BY <2>3, <2>4
<1>5. CallInv'
  <2> SUFFICES ASSUME NEW c \in Clients, th'[c] = "cb", conn'[loc'[c].fd] # 0
               PROVE  loc'[c].cli \in Owners' /\ obj'[loc'[c].cli].fd = loc'[c].fd
    BY DEF CallInv
  <2>1. ASSUME NEW d \in Clients, obj[d].live, th[d] \notin Closed, conn'[obj[d].fd] # 0
        PROVE  d \in Owners' /\ obj'[d].fd = obj[d].fd
    <3>1. obj'[d].live
      BY <2>1, ObjectMoves DEF Closed
    <3>2. th'[d] \notin Closed
      BY <2>1, ThreadMoves
    <3>3. obj'[d].fd = obj[d].fd
      BY <2>1, <3>1, ObjectMoves
    <3> QED BY <3>1, <3>2, <3>3 DEF Owners, Closed
  <2>2. CASE th[c] = "cb" /\ loc'[c] = loc[c]
    <3>1. obj[c].live /\ loc[c].fd \in Fds /\ loc[c].cli \in Clients
      BY <1>a, <2>2 DEF LocalsInv
    <3>2. conn'[loc[c].fd] \in {conn[loc[c].fd], 0}
      BY <3>1, NoReopening
    <3>3. loc[c].cli \in Owners /\ obj[loc[c].cli].fd = loc[c].fd
      BY <2>2, <3>2 DEF CallInv
    <3> QED BY <2>1, <2>2, <3>1, <3>3 DEF Owners, Closed
  <2>3. CASE ReadStarts(c) /\ loc'[c].fd = obj[c].fw /\ loc'[c].cli = client_map[obj[c].fw]
             /\ loc'[c].cli \in Clients
    <3> DEFINE d == loc'[c].cli
    <3>1. obj[c].fw \in Keys
      BY DEF LifeInv, TypeOK, ObjT
    <3>2. obj[d].live /\ obj[d].fd = obj[c].fw /\ th[d] \notin {"d_pair", "d_end"}
      BY <2>3, <3>1 DEF LifeInv, MapNoDangling
    <3>3. conn' = conn
      BY <2>3 DEF ReadStarts
    <3>4. th[d] \notin Closed
      BY <2>3, <3>2, <3>3 DEF ClosedInv
    <3> QED BY <2>1, <2>3, <3>2, <3>4
  <2> QED BY <2>2, <2>3, ThreadMoves
<1> QED BY <1>1, <1>2, <1>3, <1>4, <1>5

LEMMA SessionInit == Init => SessionInv
  BY DEF Init, SessionInv, InHandInv, LocalsInv, RefInv, ClosedInv, CallInv, NoLocals, Nobody

(* The reuse of a descriptor to which a client still refers is the only    *)
(* way in which on_flow_read can come to pass a message on into another    *)
(* connection: in every run without it, whatever is freed, stopped or      *)
(* fails and however the threads interleave, the pair it uses is its own.  *)
THEOREM SeparateIfFresh == Spec /\ [][FreshFd]_vars => []SessionsSeparate
<1>1. LifeInv /\ SessionInv => SessionsSeparate
  <2> SUFFICES ASSUME LifeInv, SessionInv, NEW c \in Clients, th[c] = "cb",
                      conn[loc[c].fd] # 0
               PROVE  obj[loc[c].cli].of = obj[c].of
    BY DEF SessionsSeparate
  <2>1. obj[c].live /\ loc[c].fd \in Fds
    BY DEF LifeInv, ThreadInv, SessionInv, LocalsInv
  <2>2. conn[loc[c].fd] = obj[c].of
    BY <2>1 DEF SessionInv, RefInv
  <2>3. loc[c].cli \in Owners /\ obj[loc[c].cli].fd = loc[c].fd
    BY DEF SessionInv, CallInv
  <2>4. conn[loc[c].fd] = obj[loc[c].cli].of
    BY <2>3 DEF LifeInv, FdOwnership
  <2> QED BY <2>2, <2>4
<1>2. LifeInv /\ SessionInv /\ [Next]_vars /\ [FreshFd]_vars => SessionInv'
  <2>1. ASSUME UNCHANGED vars PROVE FreshFd
    BY <2>1 DEF vars, FreshFd
  <2> QED BY <2>1, SessionStep
<1> QED BY LifeAlways, SessionInit, <1>1, <1>2, PTL DEF Spec
=============================================================================
