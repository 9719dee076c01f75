# Verification of mproxy

mproxy (`src/mproxy`) is a man-in-the-middle proxy for OpenFlow. It accepts TCP
connections from switches, opens one connection to the controller for each, and
passes OpenFlow messages on in both directions; an attack list read at start-up
says which messages are dropped or sent several times.

This directory holds TLA+ models of its core, TLC configurations that check
them on small instances, and proofs checked by TLAPS. `PROJECT.json` links every
definition to the lines it models.

## Inventory

| Part | State | Operations | Interacts with |
| --- | --- | --- | --- |
| `on_flow_read` (`proxy.cpp`) | the client's `buf`, the local `len_processed` | read callback, once per read event | own event loop (asks it to exit), `client_map`, the pair's `ev_buf` and `ev_event`, `action_inject` |
| `stream_t` (`stream.c`) | `data`, `len`, `cap` | new, expand, left shift, append, free | used by the callback and by `action_inject` |
| `action_inject` (`action.c`) | none (reads the two tables, `rand`) | one message to 0, 1 or more copies | loci (external) |
| attack list (`attack.c`) | `atk_drop_action_table`, `atk_dup_action_table` | one row accepted or rejected | CSV and argument parsers; written before the proxy starts, read-only afterwards |
| `Proxy` and `main()` | listening socket, handler threads, status | construct, accept loop, stop from a signal handler, shutdown sweep, join | creates clients and their threads |
| `Client` (`client.cpp`) | `fd`, `fw_fd`, event structures, buffer, its entry of the global `client_map` | construct, init, destructor | destructor detaches the pair and breaks its loop |
| CSV and argument parsers (`csv.c`, `args.c`) | none of their own; they overwrite the row in place | parse a row, parse its ARGS column, find an argument | attack list, whose one buffer they write to |
| task queue, workers (`useless/`) | queue, semaphore, the mutexes of queue and tasks, `can_run` | enqueue, dequeue, increment_count, run | not compiled any more; the threads that enqueue and that stop the workers are described by the README of mproxy only |
| v0.1 (`archive/`) | two sockets and two semaphores per connection | read_message, send, handler loops | the predecessor of mproxy |

Hard behaviours: every client has a thread of its own, and both threads of a
pair, the listener and the shutdown sweep share `client_map` and the `Client`
objects without a lock; descriptors and heap addresses are reused; the exit of
an event loop is only requested; TCP delivers bytes and not messages; each step
of setting up a pair can fail; the rows of the attack list share one buffer that
the parsers write to; the task queue waits for its semaphore outside its mutex.

What makes the parts correct:

* reassembly: the memory of the buffer is respected, each message is handled
  once and in order, nothing complete is held back, nothing is lost at the end
  of the stream, and the buffer does not grow with the connection;
* rules: a row is understood as it was written, whatever the rows before it
  were, the tables say what the last accepted rule about a message says, and that is
  what becomes of the message;
* task queue: tasks are run once, not before they are ready; they should run in the
  order of their seats, and do not with two workers, but no message overtakes more of
  them than there are other workers; none is forgotten; workers can be stopped;
* v0.1: one handler has the turn, no byte that was received is dropped, streams are
  drained unless the process is killed;
* lifecycle: `client_map` does not dangle, every open descriptor has one owner,
  everything is freed in the end, and the program can end.

`PROJECT.json` lists under "hazards" the places where these are at risk, with
the properties that watch them.

## Modules

* `Stream`: `stream_t` as the window of the connection it holds
  (`base`, `len`, `cap`) and a flag that tells whether the bytes are still those
  of the connection. `stream_left_shift` is a `memcpy` of regions that may
  overlap; what that leaves behind is the constant `OverlapCopies`.
* `ActionInject`: the set of possible numbers of copies of a message
  (`Copies`) and whether handling it may dereference the NULL that loci returns.
* `FlowRead`: one direction of one pair. The remote end sends frames
  (`RemoteSend`, `RemoteCloses`); a read event delivers 1 to `MaxChunk` new bytes
  (`Read`, `ReadFailsToExpand`); then one action per way through the body of the
  loop (`MalformedLength`, `PartialMessage`, `DropMessage`, `PairIsGone`,
  `RelayMessage`, `WriteFails`, `Crash`) and `LoopDone` for leaving it.
  `PairCloses` and `PairBreaks` are the pair's destructor in the other thread: the pair is
  gone from the map, and then this loop is told to break, or never is. `LoopEnds` is the
  return of `event_base_dispatch`. `disp` records what became of each message.
* `MessageRelay`: what a direction promises, without bytes: messages are taken
  one by one, in order, each with a fate the rules allow.
* `FlowReadProofs`, `FlowRelayProofs`: theorems about `FlowRead`; the second has those
  that need a hypothesis on faults or messages, and the refinement.
* `Lifecycle`: `main()`, the listener, the client threads and the destructor,
  with `client_map`, descriptors and addresses. One step is one operation that
  other threads can see, so the destructor has six. Lookups insert NULL for an
  absent key, as `operator[]` does. A callback holds the pointer it looked up
  between `ReadStarts` and `ReadReturns`; what it does with the bytes is
  `FlowRead`'s subject.
* `AttackRules`, `OfpAliases`: `attack.c` on rows whose fields are abstracted to
  what the code tells apart; the narrowing to one byte is kept, and so are the
  alias tables as the compiler sees them (a missing comma fuses two names). `OFPT`
  of `OfpAliases` has the type numbers that loci (`loci_idents.h`) gives the messages in each
  version. `attack.c` does not consult it; the properties do (`Covers`), so that a rule
  which gets its type from an alias table is compared with the protocol.
* `AttackEffect`: `ActionInject` applied to the tables of `AttackRules`, from a row of the
  list to the number of copies of a message.
* `TextParsers`: `csv_parse` and `args_parse` with their in-place changes, on a
  memory that is a sequence of characters. A word in which the parsers look at no
  character is one character. The operators are recursive, so no module with
  theorems uses this one.
* `AttackList`: the loop that reads the list. A line is stored in the reused
  buffer (`Stored`), skipped if it is a comment (`SkipRow`), or parsed and given to
  `AttackRules` (`ReadRow`). It extends `AttackRules` and `TextParsers` and joins
  them: `AttackRules` sees the fields that the text really amounts to.
* `TaskQueue`: threads that take seats (`EnqueuePush`, `EnqueuePost`,
  `EnqueueUnlock`, `MakeReady`), workers (`TestCanRun`, `SemWait`, `Dequeue`,
  `DequeueUnlock`, `GotNull`, `Run`) and the stop (`ClearCanRun`, `WakeAll`), one
  step per operation on the semaphore or a mutex.
* `SeatLine`: what the task queue promises, without semaphore, mutex and workers:
  seats are left at the front, a message is delivered once and when it is ready, and
  at most `Hands` messages are between their seat and their delivery.
* `TurnTaking`: one connection of v0.1: `SemWait`, `Recv` and `RecvMore`
  (`read_message`), `Send`, `SendFails`, `SendKills` and `SemPost` for each of the two
  handlers, and the remote ends, which close or reset their connection at any time. A
  reset of an open connection is reported by the next call; a send after that, or after a
  reset behind the end of the stream, is a SIGPIPE, which v0.1 does not handle (`SendKills`).
  Bytes are counted, since the handlers never look at them.
* `LifecycleProofs`, `AttackRulesProofs`, `AttackEffectProofs`, `TaskQueueProofs`,
  `TurnTakingProofs`: theorems about the module of that name. `SessionProofs`: when the
  connections of `Lifecycle` stay apart.
* `MCFlowRead`, `MCLifecycle`, `MCAttackList`: instances for TLC. `TaskQueue` and
  `TurnTaking` need none: their constants are given in the `.cfg`.

Definitions marked "mutant" are slips used to show that a property can fail;
the specifications do not use them.

### libevent, as modelled

`event_base_loopexit(base, NULL)` is a zero timeout in libevent 2.0, so one more
read callback may run (`ExitIsDeferred = TRUE`; with FALSE the loop ends after the
callback). `event_base_loopbreak` wakes a waiting loop, since `main()` calls
`evthread_use_pthreads`; an event already active then still gets its callback, and
a break requested before `event_base_dispatch` is forgotten on entry. After the
end of the stream or an error reading is disabled, no event is left and the loop
returns.

## Runs

| Run | Expected | Shows |
| --- | --- | --- |
| `flow_safety` | pass | `TypeOK`, `BufferBounded`, `InStep`, `NoCompleteLeft`, `NothingPastMalformed` with malformed and refused messages, failing `realloc` and write, garbling copies |
| `flow_progress` | pass | on well-formed traffic: `RelaySpec` (refinement of `MessageRelay`), `NothingLostAtEof`, `CapBounded`, `EventuallyRelayed`, `EventuallyEnds` |
| `flow_reentry` | violation of `DeliveredAsTold` | messages before a header of length 0 are relayed again when the callback runs once more |
| `life_safety` | pass | `TypeOK`, `MapNoDangling`, `FdOwnership`, `CleanExit` |
| `life_progress` | pass | `ClosedIsFreed`, `BreakObeyed`, `StopObeyed`: a client whose remote end closed or whose loop was told to end is freed; the listener leaves for the sweep after a signal |
| `life_cross` | violation of `SessionsSeparate` | a reused descriptor number joins two connections |
| `life_sweep` | violation of `SweepEnds` | a NULL entry keeps the shutdown from ending |
| `list_rules` | pass | `TypeOK`, `LastRuleWins`, `AsWritten`, `DupIsForGood`, `FateAsListed`: from text to tables, and from them to the fate of each message |
| `list_quoted` | violation of `CountsThisRow` | two quoted columns let the parser read a comma that an earlier line left behind the row |
| `queue_workers` | pass | `TypeOK`, `NullOnlyWhenStopped`, `OvertakingBounded`, `LineSpec` (refinement of `SeatLine`), `SeatIsServed`, `WorkersEnd` |
| `queue_order` | violation of `SeatOrder` | two workers, as `global.h` defines, deliver messages out of the order of their seats |
| `turns` | pass | `TypeOK`, `OneTurn`, `NothingDropped`, `DrainedAtClose` |

The findings in `PROJECT.json` quote the line of the repository that each
violated property comes from.

Two more disagreements have no run. `doc/attack_list.md` says of DUP that with `r` below 2
"the attack is ignored". That is so for `r=1`; for `r=0` the counter wraps to 255 and each
message is sent 256 times.
`FateAsListed` states what the code does, and the rows of `list_rules` include `r=0` and
`r=2`. And the comma missing behind `"MultipartRes"` (`attack.c:46`, `55`) moves the names
behind it in the tables of 1.3 and 1.4: a rule for `GetAsyncReq` in 1.3 is about the
messages of type 25, which are `RoleRes`. This is the theorem `CommaShiftsNames`.

### Bounds

* `FlowRead`: three messages. A message before, one at and one behind the
  interesting point (malformed header, end of a chunk, failed call) is all that
  the control of the callback can tell apart, since it keeps no state but the
  buffer. Headers of 2 bytes, messages of 1 to 5, chunks up to 4 and an initial
  buffer of 3 make partial headers, partial bodies, several messages in one chunk
  and growth of the buffer all happen. Tables of two versions and three
  types hold a type that passes, one that may be dropped and is otherwise sent
  twice, and one that is always dropped.
* `Lifecycle`: `life_safety` has two descriptors, three addresses and two
  connections after each other, so that numbers and addresses are reused, the
  second connection starting while a destructor of the first is under way.
  `life_cross` has three descriptors and four addresses for two connections at
  once. The liveness runs have one connection and no symmetry.
* `AttackList`: lists of up to three rows out of twenty, and a comment that may
  come anywhere between them. `LastRuleWins` is about pairs of rules and a third that
  is rejected or about something else; the tables have their real size. `AsWritten`
  needs one row before the row in question, to leave bytes behind it, and the
  fresh memory of the first row is a comma or a character of no meaning. The rows have
  blanks on every side of a column, both kinds of quotes, an escaped quote and a comma
  inside quotes, arguments with and without a value and a name that occurs twice. A
  row of `list_rules` has at most one column in quotes and none has an argument
  with an empty value (`p=`): with these the code reads on behind the row, the
  subject of `list_quoted` and of a hazard. `MemSize` (40) is above the longest line.
* `TaskQueue`: three tasks and two workers (`NUM_OF_WORKERS` of `global.h`): a worker between semaphore and mutex,
  another that takes the task in the meantime, and one more task for either.
* `TurnTaking`: a buffer of 2, sends of 1 to 3 and 5 bytes in all for each side: a
  chunk below the buffer, one that fills it, one that fills it twice and more, and resets with bytes that were
  not received yet.

No run checks for deadlock: a run of the proxy ends (the remote ends are silent,
the list is read, the workers have stopped, the program has exited, or a bound of
the model is reached).

### Fairness

A thread that can run does, so the body of the callback, the return of a loop
that was told to end, the steps of `main()` and of a destructor are weakly fair,
and the kernel delivers bytes that were sent (`Callback`). Nothing is assumed of
the remote ends, of failures, of signals or, in `Lifecycle`, of data arriving. Nor is
`PairBreaks` fair: a break that comes before `event_base_dispatch` is forgotten, and none is
made when the destructor finds no pair. `EventuallyEnds` therefore promises the end of a
loop whose pair is gone only if the break arrives or the header of another message does.

In `TaskQueue` workers keep running, a mutex is granted to a worker that keeps
asking for it (strong fairness of `Dequeue`: other threads hold it again and
again, each time briefly), a thread that took a seat finishes its message, and
`increment_count` runs to its end. Nobody has to enqueue or to stop the workers. In
`TurnTaking` the two handlers keep running and the remote ends do as they like.

`flow_progress` checks with `OverlapCopies = {"intact"}`, no faults and well-formed
messages: what follows from the other cases is the subject of the runs above.

## Proofs

The theorems hold for all values of the constants that satisfy the named
assumptions of the modules (`FlowAssumption`, `OverlapAssumption`,
`TableAssumption`, `LifecycleAssumption`, `RowsAssumption`, `TaskQueueAssumption`,
`TurnTakingAssumption`), which say little more than that sizes are natural numbers
and that NULL is not an object. `TableSizes`, `AliasNumbers`, `ShiftedNumbers` and `OneNumber`
compare the alias tables as written with `OFPT`; they have no parameters, and TLC
evaluates them. A bound such as `MaxConns` or `MaxRows` is any
natural number. Every theorem is about `Spec` without fairness.

### `FlowReadProofs`

Any set of messages, chunk size, tables, faults, and any outcome of an overlapping
copy.

* `TypeCorrect` (`TypeOK`) and `BufferSafe` (`BufferBounded`) are parts of one
  inductive invariant, `BufferInv`. Neither is inductive alone: that `len` stays a
  natural number when the buffer is shifted needs `lp <= buf.len`, that in turn needs
  the types, and that the bytes copied are bytes received needs the position of the
  buffer in the connection to be bounded by `taken`. `BufferInv` also numbers the
  frames by their place in `sent`.
* `StaysInStep` (`InStep`) needs in addition `OrderInv`: the frames lie one behind the
  other in the byte stream, so that two frames with one start are the same. With it
  the frame found at the current position is the next one to be handled (lemma
  `NextFrame`), and each action either leaves position and history alone or moves
  both by one message (lemma `InStepStep`).
* `NothingHeldBack` (`NoCompleteLeft`) goes through `WaitInv`, the same statement for a
  loop that has ended too, which `NothingLost` uses below.
* `NonePastMalformed` (`NothingPastMalformed`) goes through `PastInv`: as long as the
  bytes are intact, the position is never behind the start of a header of length 0,
  and what was passed on or is staged is of messages before it. It has to speak of
  the position, since a callback that returns early runs once more from it.

### `FlowRelayProofs`

These need hypotheses, each of which is a named definition on the constants and
satisfied by the instance `flow_progress` checks.

* `BufferStaysSmall` (`CapBounded`), if `realloc` does not fail. `GrowthInv` bounds
  what is left in the buffer between callbacks by the largest message (`Within`), one
  chunk more while a callback runs or after it was told to end. After a failed
  `realloc` the bytes wait in libevent and the next callback gets more than a chunk.
* `NothingLost` (`NothingLostAtEof`), if `realloc` does not fail, copies are intact and
  messages are no shorter than a header: at the end of the loop `EofInv` says that
  everything was taken from the socket, `GrowthInv` that what was taken and not
  handled is in the buffer, and `WaitInv` that no complete message is.
* `ImplementsRelay`: `Spec => RelaySpec`, the refinement of `MessageRelay`, if writes
  succeed, copies are intact and no length is 0. `realloc` may fail, messages may be
  shorter than a header, the pair may go at any time. `LoopInv` is `InStep` in the form the
  mapping needs: the position is the start of the first message without a fate,
  as long as another message can be handled. `HandleStep` and `SendStep` map
  the actions that take and send a message, `RelayStep` maps every other one to
  a stutter.

* `ToldWithoutReentry` (`DeliveredAsTold`), if an early return of the callback is not
  followed by another that finds the pair open (`NoReentry`: either the loop ends at
  once when it is told to, or writes succeed and no length is 0). `flow_reentry` shows that
  the hypothesis is needed, the theorem that it is the only one: `realloc` may fail,
  copies may be garbled, and with a loop that ends at once writes may fail and headers may be
  malformed as well. `ToldInv` ties the j-th entry of the history to the j-th message,
  and the position in the stream to the length of the history as long as the
  callback runs or may run again (`MayHandle`); behind an early return the two differ.

### `LifecycleProofs`

Any sets of descriptors and addresses, any number of connections, any interleaving.

* `LifeTyped` (`TypeOK`), `MapSafe` (`MapNoDangling`), `DescriptorsOwned`
  (`FdOwnership`) and `ExitsClean` (`CleanExit`) from one inductive invariant,
  `LifeInv`: the first three with `HereInv` (which descriptors and clients the
  locals of the listener hold at each place) and `ThreadInv` (a Client is
  allocated exactly as long as a thread runs for it, its destructor runs, or the
  listener has it in its hands). That a destructor erases its own entry of
  `client_map` and no other needs that a live Client has a descriptor and that the
  descriptor has one owner; that nobody else owns it needs `ThreadInv`. `CleanExit`
  follows, since at the exit no thread is left and the listener holds nothing.

`LifeInv` was model-checked on the instance of `life_safety` before it was proved.

### `SessionProofs`

* `SeparateIfFresh`: `Spec /\ [][FreshFd]_vars => []SessionsSeparate`. `FreshFd` says of
  a step that it opens no descriptor to which an allocated client still refers, as its
  own, as that of its pair, or in the running callback. Nothing in the code provides
  for that, and `life_cross` shows what follows. The theorem says that nothing else can mix two
  connections up: not the order of the destructors, not the sweep, not a failure
  of the listener, not the reuse of an address, for any number of connections at once.
  A step that opens a descriptor meets `FreshFd` unless it is such a reuse, so the
  hypothesis restricts nothing else.
  `SessionInv` extends `LifeInv`: a descriptor to which a client refers is closed or of
  its own connection (`RefInv`), a destructor's descriptor stays closed until its end
  (`ClosedInv`), and while the descriptor that a callback looked up is open the client it found still
  owns it (`CallInv`). The last is what `FreshFd` keeps true and a reused number
  breaks. `SessionInv` was model-checked under `FreshFd`, with four descriptors and three
  clients, before it was proved.

### `AttackRulesProofs`

* `TablesTyped` (`TypeOK`) and `DupNeverTakenBack` (the action property
  `DupIsForGood`), for any rows: the narrowing to a byte is proved to leave
  percentages and bytes for every integer argument.
* `LastRowDecides` (`LastRuleWins`), for lists of any length, if each row is `Aimed`:
  the cells it writes are those of the messages it names. `LastInv` adds that the
  last rule about a message is one of those read.
* `PlainListsHold` (`LastRuleWins`) discharges that hypothesis for each `PlainRow`: rows
  that cannot be read, rows that give version and type as numbers or wildcards
  (`Numbered`, types up to 34), rows of a given version that name the type (`Named`), and
  rows for all versions with one of the fourteen names that have the same number in all of
  them (`CommonNamed`, with `OneNumber`). Which messages a name means is taken from `OFPT`,
  not from the alias tables, so for named rows the theorem says that the tables of `attack.c`
  agree with loci (`AliasNumbers`). In rules for 1.3 and 1.4 they do not behind the missing
  comma, and `Named` leaves these names out. The names of `CommonNamed` are those that
  `doc/attack_list.md` allows with a wildcard.
* `CommaShiftsNames`: each name left out is taken for the type below its own, but for the two
  that the comma fuses, `MultipartRes` and `BarrierReq`, which are rejected. With
  `ShiftedNumbers`, and `TableSizes` for the search to reach the name.

Two more kinds of row remain. Type 35, which `normalize_ofp_msg_type` admits, is
written to the cell of another version (a hazard). And the code also accepts `RoleReq`
and the ten names behind it with a wildcard, which not all versions have.

### `AttackEffectProofs`

* `ListDecidesFate` (`FateAsListed`), for lists of any length of such rows: a message is
  dropped only if the last DROP rule about it has a probability other than 0, always
  if it is 100 or not given, and otherwise sent as often in all as the last DUP rule about
  it says, modulo 256. It needs `DupInv` beside `LastInv`: the last DUP rule about a message asks for more
  than one delivery, since one that does not is rejected.
* `TablesReady`: what `TableAssumption` of `ActionInject` takes for granted holds of the tables
  after every row, so that the theorems about `FlowRead` apply to every list.

The theorems are about `Spec` of `AttackRules`; the run `list_rules` checks the same
properties under `ListSpec`, where the rows come from text.

### `TaskQueueProofs`

Any number of tasks, any finite number of workers.

* `QueueTyped` (`TypeOK`) and `NoSpuriousNull` (`NullOnlyWhenStopped`) from one inductive
  invariant, `QueueInv`. `MutexInv` says who holds the mutex, `HandInv` when a worker has a
  task. `BalanceInv` is the count behind `NoSpuriousNull`: as long as a worker may run, the
  semaphore, the workers between semaphore and mutex, and the task pushed but not
  posted add up to the length of the queue. `SeatInv` says that the queue is the end of
  the seats taken, and that what is in front of it was run or is in the hands of
  exactly one worker.
* `Overtaking` (`OvertakingBounded`), from `CountInv`: what lies between the seats left and
  the messages delivered is as many as there are workers with a task in their hands. The
  k-th message delivered therefore had one of the first k - 1 + n seats, with n workers.
* `ImplementsLine` (`LineSpec`), the refinement of `SeatLine`: `EnqueuePush` is `TakeSeat`,
  `Dequeue` of a queue with a task `LeaveSeat`, `MakeReady` `Finish`, `Run` `Deliver`, and every
  other step a stutter (lemma `LineStep`). That a message made ready has a seat needs
  `TakenInv`, that no more than `Hands` are under way needs `CountInv`.

`SeatOrder`, which `queue_order` violates, is what these leave open: a message may overtake
those in the hands of the other workers. With one worker `Overtaking` leaves it no room, but
the code defines two.

### `TurnTakingProofs`

Any buffer size, any chunks, any amount of data.

* `TurnsAlternate` (`OneTurn`), `HandlersTyped` (`TypeOK`), `BytesAccounted`
  (`NothingDropped`). The semaphores are counters, so their being 0 or 1 is not a matter
  of types: it follows from `TurnInv`, that the two semaphores and the handlers past
  them add up to 1. The count in `OneTurn` is a cardinality; `TurnCount` relates it to
  the sum the provers can handle.

### Only model-checked

* Liveness, which is out of the prover's reach: `EventuallyRelayed`, `EventuallyEnds`,
  `ClosedIsFreed`, `BreakObeyed`, `StopObeyed`, `SeatIsServed`, `WorkersEnd`,
  `DrainedAtClose`.
* `AsWritten`, what the parsers compute: `TextParsers` is recursive, and what it
  computes for every text needs induction over the text.
* The violations: each is a counterexample on its instance. For two of them a
  theorem says under which condition the property does hold (`SeparateIfFresh`,
  `ToldWithoutReentry`), for `SeatOrder` one says how far it can fail (`Overtaking`).

## Not modelled

* the data race inside `std::unordered_map`: one operation on `client_map` is one
  step, so what holds here holds at best for a map with a lock;
* what happens after an access to freed memory: it has no effect here unless
  the address was given to a new client;
* loci (`src/mproxy/inc/loci`): generated accessors, validators and dumpers per class
  and version, about 430 thousand of the 435 thousand lines of code. mproxy calls one
  function of it and reads the bytes back, so the models keep whether loci accepts a
  message (`valid`) and nothing else. The code of mproxy itself is about 1.7
  thousand lines; a share of the whole that is more than a percent or so cannot
  be reached by modelling what the program does;
* bytes and lifecycle in one model: `FlowRead` has one direction and sees the pair
  only as gone or not, `Lifecycle` has both directions and all threads but no bytes.
  They meet in `PairCloses` and `PairBreaks`, in the requests to end a loop and in the lookup of the
  pair, which both have; their product is out of TLC's reach;
* backpressure: `bufferevent_write_buffer` queues without limit, as in libevent, and a
  pending write event on output that nobody reads, which keeps a loop from running out
  of events, is left out;
* `new` and thread creation failing: they throw, and nothing catches it;
* a failing `fopen`, `stream_new` or `stream_append` while the list is read, and the
  write outside the tables for type 35 of version 1.4;
* SIGPIPE in the current version (libevent writes to sockets that were closed; v0.1 is
  modelled with it), and a signal before `Proxy` is constructed, which is lost;
* `csv_unescape` (only a unit test calls it), `args_free`, the dump functions;
* the destructors of task queue and worker (the latter deletes a thread that was
  not joined; no code in the repository stops the workers);
* of v0.1 the listener, which is of the same kind as the one `Lifecycle` models,
  and the scheduler thread, which does nothing;
* the command line, the delayer (declarations without code) and the scripts.

## What is left

Every part with state of its own has a module, every safety property a passing run checks but
`AsWritten` has a theorem, and both refinements are proved. Open:

1. `SweepEnds` and `CountsThisRow`: the conditions under which they hold (no lookup after an
   erase; at most one column in quotes) are known from the runs and not stated as theorems.
   The first is a liveness property, the second is about the recursive parsers.
2. The product of `FlowRead` and `Lifecycle`, on the level of the proofs.
