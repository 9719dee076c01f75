----------------------------- MODULE Lifecycle ------------------------------
(***************************************************************************)
(* The life of connection pairs: main() and the listener of class Proxy    *)
(* (one thread), the Client objects, the global client_map, and one thread *)
(* per client that runs its event loop and then deletes the client.        *)
(*                                                                         *)
(* Descriptors and the addresses of Client objects are reused as soon as   *)
(* they are closed or freed.  A destructor is a sequence of steps that     *)
(* other threads see between; one operation on client_map is one step.     *)
(* What travels through the pair is the subject of FlowRead; here the read *)
(* callback looks its pair up, holds the pointer for a while and returns.  *)
(*                                                                         *)
(* An access to a freed object has no effect here, unless the address has  *)
(* been given to a new one.  The process may also die of it: that is a     *)
(* behaviour that ends, and every finite prefix is one of Spec.            *)
(*                                                                         *)
(* A definition marked "mutant" is a slip that one of the properties must  *)
(* notice; it stands before the definition it would replace and is not     *)
(* used by the specification.                                              *)
(***************************************************************************)
EXTENDS Naturals, FiniteSets

CONSTANTS
  Fds,        \* descriptors of connections
  NoFd,       \* -1
  Clients,    \* addresses at which a Client may be allocated
  NULL,       \* the null pointer
  Absent,     \* marks a key that client_map does not hold
  InitMayFail,\* whether Client::init may fail
  MaxConns    \* bound of the model: connections accepted in a run

ASSUME LifecycleAssumption ==
  /\ NoFd \notin Fds
  /\ NULL \notin Clients /\ Absent \notin Clients /\ NULL # Absent
  /\ InitMayFail \in BOOLEAN
  /\ MaxConns \in Nat

Keys == Fds \cup {NoFd}

VARIABLES
  obj,        \* the Client objects, by address
  th,         \* where the thread (or the destructor) of a client is
  loc,        \* its locals fw_cli and fw_fd
  stop,       \* what its event loop was told: "no", "last", "now"
  client_map, \* the global map from descriptors to clients
  conn,       \* the connection a descriptor belongs to, 0 if it is closed
  rclosed,    \* descriptors on which the end of the stream was seen
  listening,  \* whether in_sock_fd is a valid descriptor
  mpc,        \* where the main thread is
  here,       \* its locals in_fd, out_fd, in_cd, out_cd
  conns       \* number of connections accepted

mainVars == <<listening, mpc, here, conns>>
vars == <<obj, th, loc, stop, client_map, conn, rclosed, mainVars>>

(* Destructor steps: look up the pair, free the event structures, close    *)
(* the descriptor, erase the map entry, detach the pair, free the memory.  *)
Dtor == {"d_map", "d_free", "d_close", "d_erase", "d_pair", "d_end"}

Nobody == [live |-> FALSE, fd |-> NoFd, fw |-> NoFd, ev |-> "none", of |-> 0]

NoLocals == [cli |-> NULL, fd |-> NoFd]

Idle == [in_fd |-> NoFd, out_fd |-> NoFd, in_cd |-> NULL, out_cd |-> NULL]

Init ==
  /\ obj = [c \in Clients |-> Nobody]
  /\ th = [c \in Clients |-> "none"]
  /\ loc = [c \in Clients |-> NoLocals]
  /\ stop = [c \in Clients |-> "no"]
  /\ client_map = [k \in Keys |-> Absent]
  /\ conn = [f \in Fds |-> 0]
  /\ rclosed = {}
  /\ listening = FALSE
  /\ mpc = "start"
  /\ here = Idle
  /\ conns = 0

(***************************************************************************)
(* client_map[k] as an expression: the value, and the map afterwards, in   *)
(* which a key that was absent has been inserted with NULL.                *)
(***************************************************************************)
Found(k) == IF client_map[k] = Absent THEN NULL ELSE client_map[k]
AfterLookup(k) == [client_map EXCEPT ![k] = Found(k)]

FreeFds == {f \in Fds : conn[f] = 0}

(* close(f) for the descriptors of F.                                      *)
CloseAll(F) ==
  /\ conn' = [f \in Fds |-> IF f \in F THEN 0 ELSE conn[f]]
  /\ rclosed' = rclosed \ F

(* A pointer through which the event structures of a client are reached.   *)
Usable(d) == d # NULL /\ obj[d].live /\ obj[d].ev = "ok"

(* What a loop that is told to break does: it takes note while it runs; a  *)
(* loop that has not started yet forgets it on entry.                      *)
loopbreak(c) ==
  [stop EXCEPT ![c] = CASE th[c] = "cb" -> "now"
                        [] th[c] = "loop" /\ @ = "no" -> "last"
                        [] OTHER -> @]

(***************************************************************************)
(* main() and Proxy::start_listen.                                         *)
(***************************************************************************)

(* init_in_socket and init_out_socket: one that fails closes what it had   *)
(* opened.                                                                 *)
init_sockets(ok) == listening' = ok

(* new Proxy, whose constructor throws when a socket cannot be set up;     *)
(* main() then ends the program.                                           *)
Construct ==
  /\ mpc = "start"
  /\ \E ok \in BOOLEAN :
       /\ init_sockets(ok)
       /\ mpc' = IF ok THEN "accept" ELSE "exit"
  /\ UNCHANGED <<obj, th, loc, stop, client_map, conn, rclosed, here, conns>>

(* SIGTERM or SIGINT: Proxy::stop closes the listening socket.             *)
Signal ==
  /\ listening
  /\ mpc # "exit"
  /\ listening' = FALSE
  /\ UNCHANGED <<obj, th, loc, stop, client_map, conn, rclosed, mpc, here,
                 conns>>

(* A connection on descriptor f; it is closed again when set_nonblock      *)
(* fails.                                                                  *)
Accept(f) ==
  /\ mpc = "accept"
  /\ listening
  /\ conns < MaxConns
  /\ f \in FreeFds
  /\ conns' = conns + 1
  /\ \/ /\ mpc' = "connect"
        /\ conn' = [conn EXCEPT ![f] = conns + 1]
        /\ here' = [here EXCEPT !.in_fd = f]
     \/ UNCHANGED <<mpc, conn, here>>
  /\ UNCHANGED <<obj, th, loc, stop, client_map, rclosed, listening>>

(* accept fails, or in_sock_fd was closed: the listener is left for good.  *)
LeaveListener ==
  /\ mpc = "accept"
  /\ mpc' = "sweep"
  /\ UNCHANGED <<obj, th, loc, stop, client_map, conn, rclosed, listening,
                 here, conns>>

AcceptFails == listening /\ LeaveListener

ListenerIgnoresStop == listening /\ LeaveListener         \* mutant
ListenerCloses == ~listening /\ LeaveListener

(* get_outflow_fd gives descriptor f.                                      *)
Connect(f) ==
  /\ mpc = "connect"
  /\ f \in FreeFds
  /\ conn' = [conn EXCEPT ![f] = conns]
  /\ here' = [here EXCEPT !.out_fd = f]
  /\ mpc' = "new_in"
  /\ UNCHANGED <<obj, th, loc, stop, client_map, rclosed, listening, conns>>

ConnectFailsLeaking ==                                    \* mutant
  /\ mpc = "connect"
  /\ here' = Idle
  /\ mpc' = "accept"
  /\ UNCHANGED <<obj, th, loc, stop, client_map, conn, rclosed, listening, conns>>

(* No connection to the server, or set_nonblock fails for it: what is open *)
(* of the pair is closed.                                                  *)
ConnectFails ==
  /\ mpc = "connect"
  /\ CloseAll({here.in_fd})
  /\ here' = Idle
  /\ mpc' = "accept"
  /\ UNCHANGED <<obj, th, loc, stop, client_map, listening, conns>>

NewClient(c, fd, fw, ev) ==
  [obj EXCEPT ![c] = [live |-> TRUE, fd |-> fd, fw |-> fw, ev |-> ev, of |-> conns]]

(* ev is "ok" once Client::init has set the event structures up and "none" *)
(* when it failed before that.                                             *)
NewInClient(c) ==
  /\ mpc = "new_in"
  /\ ~obj[c].live
  /\ here' = [here EXCEPT !.in_cd = c]
  /\ obj' = NewClient(c, here.in_fd, here.out_fd, "ok")
  /\ client_map' = [client_map EXCEPT ![here.in_fd] = c]
  /\ mpc' = "new_out"
  /\ UNCHANGED <<th, loc, stop, conn, rclosed, listening, conns>>

InInitFailsClosingBoth(c) ==                              \* mutant
  /\ InitMayFail
  /\ mpc = "new_in"
  /\ ~obj[c].live
  /\ obj' = NewClient(c, here.in_fd, here.out_fd, "none")
  /\ CloseAll({here.in_fd, here.out_fd})
  /\ here' = [here EXCEPT !.in_cd = c]
  /\ th' = [th EXCEPT ![c] = "d_map"]
  /\ mpc' = "delete"
  /\ UNCHANGED <<loc, stop, client_map, listening, conns>>

(* in_cd->init fails: close(out_fd), delete in_cd.                         *)
InInitFails(c) ==
  /\ InitMayFail
  /\ mpc = "new_in"
  /\ ~obj[c].live
  /\ obj' = NewClient(c, here.in_fd, here.out_fd, "none")
  /\ CloseAll({here.out_fd})
  /\ here' = [here EXCEPT !.in_cd = c]
  /\ th' = [th EXCEPT ![c] = "d_map"]
  /\ mpc' = "delete"
  /\ UNCHANGED <<loc, stop, client_map, listening, conns>>

NewOutClient(c) ==
  /\ mpc = "new_out"
  /\ ~obj[c].live
  /\ here' = [here EXCEPT !.out_cd = c]
  /\ obj' = NewClient(c, here.out_fd, here.in_fd, "ok")
  /\ client_map' = [client_map EXCEPT ![here.out_fd] = c]
  /\ mpc' = "spawn_out"
  /\ UNCHANGED <<th, loc, stop, conn, rclosed, listening, conns>>

(* out_cd->init fails: delete in_cd, delete out_cd.                        *)
OutInitFails(c) ==
  /\ InitMayFail
  /\ mpc = "new_out"
  /\ ~obj[c].live
  /\ obj' = NewClient(c, here.out_fd, here.in_fd, "none")
  /\ here' = [here EXCEPT !.out_cd = c]
  /\ th' = [th EXCEPT ![here.in_cd] = "d_map"]
  /\ mpc' = "delete"
  /\ UNCHANGED <<loc, stop, client_map, conn, rclosed, listening, conns>>

(* A destructor that the listener runs has ended: the one of out_cd is     *)
(* next, if there is an out_cd, and then the next connection.              *)
Deleted ==
  LET c == here.in_cd
      d == here.out_cd
  IN  /\ mpc = "delete"
      /\ ~obj[c].live
      /\ IF d # NULL
         THEN /\ th' = [th EXCEPT ![d] = "d_map"]
              /\ here' = [Idle EXCEPT !.in_cd = d]
              /\ UNCHANGED mpc
         ELSE /\ here' = Idle
              /\ mpc' = "accept"
              /\ UNCHANGED th
      /\ UNCHANGED <<obj, loc, stop, client_map, conn, rclosed, listening,
                 conns>>

SpawnOut ==
  /\ mpc = "spawn_out"
  /\ th' = [th EXCEPT ![here.out_cd] = "ready"]
  /\ mpc' = "spawn_in"
  /\ UNCHANGED <<obj, loc, stop, client_map, conn, rclosed, listening, here,
                 conns>>

SpawnIn ==
  /\ mpc = "spawn_in"
  /\ th' = [th EXCEPT ![here.in_cd] = "ready"]
  /\ here' = Idle
  /\ mpc' = "accept"
  /\ UNCHANGED <<obj, loc, stop, client_map, conn, rclosed, listening, conns>>

(* What the map holds after the key -1 was erased.                         *)
EntriesUnchecked == Fds                                   \* mutant
Entries == {k \in Fds : client_map[k] # Absent}

(* One turn of the sweep at the end of main(), up to reading the first     *)
(* entry of the map; the sweep ends when the map is empty.                 *)
Sweep ==
  /\ mpc = "sweep"
  /\ client_map' = [client_map EXCEPT ![NoFd] = Absent]
  /\ IF Entries = {}
     THEN mpc' = "join" /\ UNCHANGED here
     ELSE /\ \E k \in Entries : here' = [Idle EXCEPT !.in_cd = client_map[k]]
          /\ mpc' = "break"
  /\ UNCHANGED <<obj, th, loc, stop, conn, rclosed, listening, conns>>

(* The rest of the turn: the loop of the client found is told to break if  *)
(* it has an event base.  An entry that holds NULL stays where it is.      *)
SweepBreak ==
  LET d == here.in_cd
  IN  /\ mpc = "break"
      /\ mpc' = "sweep"
      /\ here' = Idle
      /\ stop' = IF Usable(d) THEN loopbreak(d) ELSE stop
      /\ UNCHANGED <<obj, th, loc, client_map, conn, rclosed, listening,
                 conns>>

(* delete proxy: every handler thread is joined.                           *)
Join ==
  /\ mpc = "join"
  /\ \A c \in Clients : th[c] = "none"
  /\ mpc' = "exit"
  /\ listening' = FALSE
  /\ UNCHANGED <<obj, th, loc, stop, client_map, conn, rclosed, here, conns>>

(***************************************************************************)
(* start_client_thread and on_flow_read.                                   *)
(***************************************************************************)
Dispatch(c) ==
  /\ th[c] = "ready"
  /\ th' = [th EXCEPT ![c] = "loop"]
  /\ stop' = [stop EXCEPT ![c] = "no"]
  /\ UNCHANGED <<obj, loc, client_map, conn, rclosed, mainVars>>

LoopIgnoresEof(c) ==                                      \* mutant
  /\ th[c] = "loop"
  /\ stop[c] # "no"
  /\ th' = [th EXCEPT ![c] = "d_map"]
  /\ UNCHANGED <<obj, loc, stop, client_map, conn, rclosed, mainVars>>

LoopIgnoresBreak(c) ==                                    \* mutant
  /\ th[c] = "loop"
  /\ obj[c].fd \in rclosed
  /\ th' = [th EXCEPT ![c] = "d_map"]
  /\ UNCHANGED <<obj, loc, stop, client_map, conn, rclosed, mainVars>>

(* The loop ends when it was told to, or when its remote end has closed;   *)
(* then the thread deletes the client.                                     *)
LoopEnds(c) ==
  /\ th[c] = "loop"
  /\ stop[c] # "no" \/ obj[c].fd \in rclosed
  /\ th' = [th EXCEPT ![c] = "d_map"]
  /\ UNCHANGED <<obj, loc, stop, client_map, conn, rclosed, mainVars>>

(* Data on the client's descriptor: on_flow_read looks its pair up.  If    *)
(* there is none it asks for the loop to end, unless it has returned       *)
(* before that for want of a whole header or of memory.                    *)
ReadStarts(c) ==
  LET k == obj[c].fw
  IN  /\ th[c] = "loop"
      /\ stop[c] # "now"
      /\ obj[c].fd \notin rclosed
      /\ client_map' = AfterLookup(k)
      /\ IF Found(k) = NULL
         THEN /\ \E asks \in {"no", "last"} :
                   stop' = [stop EXCEPT ![c] = IF @ = "no" THEN asks ELSE "now"]
              /\ UNCHANGED <<th, loc>>
         ELSE /\ stop' = [stop EXCEPT ![c] = IF @ = "no" THEN "no" ELSE "now"]
              /\ th' = [th EXCEPT ![c] = "cb"]
              /\ loc' = [loc EXCEPT ![c] = [cli |-> Found(k), fd |-> k]]
      /\ UNCHANGED <<obj, conn, rclosed, mainVars>>

(* on_flow_read returns: nothing more to pass on, or with a request to end *)
(* the loop (malformed header, pair's descriptor closed, write failed).    *)
ReadReturns(c) ==
  /\ th[c] = "cb"
  /\ th' = [th EXCEPT ![c] = "loop"]
  /\ loc' = [loc EXCEPT ![c] = NoLocals]
  /\ \/ UNCHANGED stop
     \/ stop' = [stop EXCEPT ![c] = IF @ = "no" THEN "last" ELSE @]
  /\ UNCHANGED <<obj, client_map, conn, rclosed, mainVars>>

(***************************************************************************)
(* Client::~Client.                                                        *)
(***************************************************************************)
DtorMap(c) ==
  /\ th[c] = "d_map"
  /\ loc' = [loc EXCEPT ![c].cli = Found(obj[c].fw)]
  /\ client_map' = AfterLookup(obj[c].fw)
  /\ th' = [th EXCEPT ![c] = "d_free"]
  /\ UNCHANGED <<obj, stop, conn, rclosed, mainVars>>

DtorFree(c) ==
  /\ th[c] = "d_free"
  /\ obj' = [obj EXCEPT ![c].ev = "freed"]
  /\ th' = [th EXCEPT ![c] = "d_close"]
  /\ UNCHANGED <<loc, stop, client_map, conn, rclosed, mainVars>>

DtorClose(c) ==
  /\ th[c] = "d_close"
  /\ CloseAll({obj[c].fd})
  /\ th' = [th EXCEPT ![c] = "d_erase"]
  /\ UNCHANGED <<obj, loc, stop, client_map, mainVars>>

DtorErasePair(c) ==                                       \* mutant
  /\ th[c] = "d_erase"
  /\ client_map' = [client_map EXCEPT ![obj[c].fw] = Absent]
  /\ th' = [th EXCEPT ![c] = "d_pair"]
  /\ UNCHANGED <<obj, loc, stop, conn, rclosed, mainVars>>

DtorErase(c) ==
  /\ th[c] = "d_erase"
  /\ client_map' = [client_map EXCEPT ![obj[c].fd] = Absent]
  /\ th' = [th EXCEPT ![c] = "d_pair"]
  /\ UNCHANGED <<obj, loc, stop, conn, rclosed, mainVars>>

(* The pair, if there was one in the map, loses its reference to this      *)
(* client and its loop is told to break.                                   *)
DtorPair(c) ==
  LET d == loc[c].cli
  IN  /\ th[c] = "d_pair"
      /\ obj' = IF d # NULL /\ obj[d].live THEN [obj EXCEPT ![d].fw = NoFd] ELSE obj
      /\ stop' = IF Usable(d) THEN loopbreak(d) ELSE stop
      /\ th' = [th EXCEPT ![c] = "d_end"]
      /\ UNCHANGED <<loc, client_map, conn, rclosed, mainVars>>

DtorEnd(c) ==
  /\ th[c] = "d_end"
  /\ obj' = [obj EXCEPT ![c] = Nobody]
  /\ loc' = [loc EXCEPT ![c] = NoLocals]
  /\ stop' = [stop EXCEPT ![c] = "no"]
  /\ th' = [th EXCEPT ![c] = "none"]
  /\ UNCHANGED <<client_map, conn, rclosed, mainVars>>

(***************************************************************************)
(* The remote ends.  A client learns of the end of its stream, or of an    *)
(* error, in its event loop.                                               *)
(***************************************************************************)
RemoteCloses(c) ==
  /\ th[c] = "loop"
  /\ rclosed' = rclosed \cup {obj[c].fd}
  /\ UNCHANGED <<obj, th, loc, stop, client_map, conn, mainVars>>

-----------------------------------------------------------------------------
Main ==
  \/ Construct \/ ListenerCloses \/ ConnectFails \/ Deleted \/ SpawnOut \/ SpawnIn
  \/ Sweep \/ SweepBreak \/ Join
  \/ \E f \in Fds : Connect(f)
  \/ \E c \in Clients : NewInClient(c) \/ InInitFails(c)
                        \/ NewOutClient(c) \/ OutInitFails(c)

Destroy(c) ==
  \/ DtorMap(c) \/ DtorFree(c) \/ DtorClose(c)
  \/ DtorErase(c) \/ DtorPair(c) \/ DtorEnd(c)

Thread(c) == Dispatch(c) \/ LoopEnds(c) \/ ReadReturns(c) \/ Destroy(c)

Environment ==
  \/ Signal
  \/ AcceptFails
  \/ \E f \in Fds : Accept(f)
  \/ \E c \in Clients : ReadStarts(c) \/ RemoteCloses(c)

Next == Main \/ Environment \/ \E c \in Clients : Thread(c)

Spec == Init /\ [][Next]_vars

(* The main thread and the client threads keep running; connections, data, *)
(* failures of accept and signals may or may not come.                     *)
Fairness ==
  /\ WF_vars(Main)
  /\ \A c \in Clients : WF_vars(Thread(c))

FairSpec == Spec /\ Fairness

-----------------------------------------------------------------------------
(***************************************************************************)
(* Properties.                                                             *)
(***************************************************************************)
ObjT == [live : BOOLEAN, fd : Keys, fw : Keys,
         ev : {"none", "ok", "freed"}, of : 0 .. MaxConns]

LocT == [cli : Clients \cup {NULL}, fd : Keys]

HereT == [in_fd : Keys, out_fd : Keys,
          in_cd : Clients \cup {NULL}, out_cd : Clients \cup {NULL}]

(* Every variable has its type.                                            *)
TypeOK ==
  /\ obj \in [Clients -> ObjT]
  /\ th \in [Clients -> {"none", "ready", "loop", "cb"} \cup Dtor]
  /\ loc \in [Clients -> LocT]
  /\ stop \in [Clients -> {"no", "last", "now"}]
  /\ client_map \in [Keys -> Clients \cup {NULL, Absent}]
  /\ conn \in [Fds -> 0 .. MaxConns]
  /\ rclosed \in SUBSET Fds
  /\ listening \in BOOLEAN
  /\ mpc \in {"start", "accept", "connect", "new_in", "new_out", "delete",
              "spawn_out", "spawn_in", "sweep", "break", "join", "exit"}
  /\ here \in HereT
  /\ conns \in 0 .. MaxConns

(* Whatever descriptors and addresses are reused, client_map never leads   *)
(* to a Client whose memory was freed or that is not the one of the        *)
(* descriptor: a lookup by on_flow_read, by a destructor or by the sweep   *)
(* gives NULL or an object that is still allocated.                        *)
MapNoDangling ==
  \A k \in Keys : client_map[k] \in Clients =>
    LET c == client_map[k]
    IN  obj[c].live /\ obj[c].fd = k /\ th[c] \notin {"d_pair", "d_end"}

(* The clients that still own the descriptor they were created with.       *)
Owners == {c \in Clients : obj[c].live /\ th[c] \notin {"d_erase", "d_pair", "d_end"}}

(* The descriptors the listener has open and not yet given to a client.    *)
Handing ==
  CASE mpc = "connect" -> {here.in_fd}
    [] mpc = "new_in"  -> {here.in_fd, here.out_fd}
    [] mpc = "new_out" -> {here.out_fd}
    [] OTHER -> {}

(* On every path of the listener and of the destructors, those after a     *)
(* failure included, each open descriptor has exactly one owner that will  *)
(* close it, and an owner's descriptor is open and is that of its own      *)
(* connection: none leaks, and none is closed twice.                       *)
FdOwnership ==
  /\ \A f \in Fds : conn[f] # 0 => f \in Handing \/ \E c \in Owners : obj[c].fd = f
  /\ \A f \in Handing : conn[f] # 0
  /\ \A c \in Owners :
       /\ conn[obj[c].fd] = obj[c].of
       /\ obj[c].fd \notin Handing
       /\ \A d \in Owners : obj[d].fd = obj[c].fd => c = d

(* When main() returns after delete proxy, every client has been freed and *)
(* every connection closed.                                                *)
CleanExit ==
  mpc = "exit" => /\ \A c \in Clients : ~obj[c].live
                  /\ \A f \in Fds : conn[f] = 0

(* A client whose remote end closes while its thread runs the event loop   *)
(* is freed in the end.                                                    *)
ClosedIsFreed ==
  \A c \in Clients :
    th[c] = "loop" /\ obj[c].fd \in rclosed ~> ~obj[c].live

(* A loop that was told to end, by its own callback, by the destructor of  *)
(* the pair or by the sweep, while it runs or inside a callback, does so,  *)
(* and its client is freed: no later callback takes the request back.      *)
BreakObeyed == \A c \in Clients : stop[c] # "no" ~> ~obj[c].live

(* Once a signal has closed the listening socket, the listener finishes    *)
(* the pair it is setting up, whatever fails in that, and leaves for the   *)
(* sweep.                                                                  *)
StopObeyed ==
  ~listening /\ mpc # "start" ~> mpc \in {"sweep", "break", "join", "exit"}

(* The inflow and outflow sockets of a connection are mirrored clients     *)
(* (README): a client to which on_flow_read is about to pass a message on, *)
(* its check of the descriptor included, belongs to the same connection.   *)
SessionsSeparate ==
  \A c \in Clients :
    th[c] = "cb" /\ conn[loc[c].fd] # 0 /\ Usable(loc[c].cli)
      => obj[loc[c].cli].of = obj[c].of

(* main() cleans the client detail objects up (main.cpp: "cleanup client   *)
(* detail objects") and gets to the end of the program.                    *)
SweepEnds == mpc = "sweep" ~> mpc = "exit"
=============================================================================
