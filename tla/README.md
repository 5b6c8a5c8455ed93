# sbase: a TLA+ verification project

sbase is a C library for network servers: it accepts connections, spreads them
over threads, frames their input into packets and chunks, sends output and
recycles connections. Everything of interest happens between threads that
share connections through message queues, a connection table and a pool. The
modules in this directory model that core from the code under
`src/devel/libsbase/src` (sbase) and `src/devel/libevbase/src` (evbase), check it
with TLC on small instances and prove its main invariants with TLAPS.

Paths below are relative to `src/devel/libsbase/src` unless they start with `src/`.

## 1. Inventory

| Component | State | Operations | Who touches it |
|---|---|---|---|
| Connection table (`service.c`) | `connections[]`, `index_max`, `running_connections`, `conn->index` | `service_pushconn`, `service_popconn`, `service_findconn`, `qmessage_handler`'s index test | the thread that accepts, procthreads, the daemon |
| Connection pool (`service.c`) | `qconns[]`, `nqconns` | `service_popfromq`, `service_pushtoq` | accepting thread, thread that terminates |
| Client pool and groups (`service.c`) | `conns_free[]`, `nconns_free`, `nconnections`, `groups[]` | `service_getconn`, `service_freeconn`, `service_okconn`, `service_closegroup`, `service_castgroup`, `service_stategroup` | any thread, the heartbeat |
| Connection (`conn.c`) | `fd`, `d_state`, `parent`, `message_queue`, `inqmessage`, `outqmessage`, `event`, `outevent` | `procthread_add_connection`, `conn_set`, `conn_close`/`conn_shut`, the SHUT, SHUTOUT, OVER and QUIT handlers, `conn_terminate`, `conn_reset` | all threads |
| Session (`conn.c`) | `s_state`, `c_state`, `buffer`, `packet`, `cache`, `chunk`, timeout and transaction ids | `conn_read_handler`, `packet_reader`, packet/data/chunk/timeout/transaction handlers | iodaemon reads, procthread handles |
| Send queue (`conn.c`) | `qblocks`, `qleft`, `send_queue` | `conn_push_chunk`, `conn_push_file`, `conn_write_handler`, `conn_over_chunk`, `conn_start_cstate` | procthread pushes, outdaemon writes, `getconn` clears |
| Message queue (`message.c`) | `first`/`last`, `left`, `list`, `total` | `qmessage_push`, `qmessage_pop`, `qmessage_left`, `qmessage_handler` | every thread pushes, one pops |
| Procthread (`procthread.c`, `src/devel/libevbase/src/evsig.c`, `utils/mutex.h`) | `running_status`, `flag`, `event`, `evsig`, `mutex.nowait` | `procthread_run`, `procthread_wakeup`, `procthread_stop`, `procthread_terminate` | its own thread, all that push to it |
| Event base (`src/devel/libevbase/src/evbase.c`, `evepoll.c`, `evpoll.c`, `evselect.c`) | `evlist[]`, `maxfd`, the kernel's interest or `pollfd`s or `fd_set`s, `ev_flags`, `ev_base` | `event_set`, `event_add`, `event_del`, `event_destroy`, `event_active`, `add/update/del/loop` of each back end | owner of the loop, any thread through `event_add` |
| Event timer (`utils/evtimer.c`) | sorted list of `EVTNODE`, free list, `timeouts[]`, `conn->evid` | `evtimer_add`, `evtimer_update`, `evtimer_delete`, `evtimer_check`; `conn_set_timeout`, `conn_over_timeout`, `conn_over_cstate` | procthreads set and delete, the tracker (or the main loop) checks |
| Service control (`service.c`, `sbase.c`) | `lock`, `running_status` | `service_set`, `service_run`, `service_stop`, `service_clean`, `sbase_running` | main thread, signal handlers |
| Proxy (`conn.c`) | `session.parent`, `session.child` | `conn_bind_proxy`, `conn_proxy_handler`, `conn_close_proxy` | procthreads of both ends |
| Buffers and chunks (`utils/chunk.c`, `mmblock.c`, `xmm.c`) | memory and file ranges | read, write, fill | the owner of the connection |

The rest of the repository (logging, HTTP and mime parsing, the ini parser,
tries, example servers, the older copies in `src/libsbase` and `src/trash`,
PHP pages) is listed in `PROJECT.json` with the reason it is left out.

### How the components interact

In `WORKING_THREAD` mode a service has procthreads, iodaemons, optionally an
outdaemon (`SB_USE_OUTDAEMON`) and a daemon; in `WORKING_PROC` mode the daemon
does everything. `service_accept_handler` takes a CONN from `qconns`
(`service_addconn`) and either registers it in its own thread
(`procthread_add_connection`) or, for an outgoing connection that is still
connecting, announces it with NEW_SESSION to procthread `fd % nprocthreads`.
Any thread may close it (`conn_close`). Removal is a relay of messages:

    SHUT (procthread) -> SHUTOUT (outdaemon: event_destroy(outevent))
                      -> OVER (iodaemon: event_destroy(event))
                      -> QUIT (daemon: service_popconn, close(fd),
                               conn_reset, service_pushtoq)

A message names a connection by pointer, index and descriptor. All three are
reused; `qmessage_handler` drops a message whose index or descriptor does not
fit any more. Whoever pushes wakes the receiver with `procthread_wakeup`.

### What is hard

* A CONN pointer outlives its connection; calls look at `d_state` without a
  lock first (`CONN_CHECK`) and act later.
* Four threads take part in one removal, and the table, the pool, the kernel's
  descriptors and the event bases are changed in an order that no single lock
  protects.
* Three different ways to sleep and to be woken, one of them without a lock.
* Tables, pools and queues have limits whose branches tests hardly reach.

* The reader, the procthread and a task hand one session state to each other
  without a lock; what each does next depends on whether the other has looked yet.
* Handlers destroy and register events while the pass of the event loop that called them
  still holds readings for them.
* `service_stop` joins threads while they pass messages to each other and while
  some have not started.

The list under `hazards` in `PROJECT.json` gives each at its line, with the
properties that would notice it going wrong.

## 2. Modules

| Module | What it is |
|---|---|
| `ConnTable` | `service_pushconn` and `service_popconn`: the table, `index_max` and `running_connections`, as operators that other modules take into their actions |
| `ConnLife` | extends `ConnTable` with the pool of CONNs, the message queues and every handler on the way of a connection from `accept()` to `qconns` and back |
| `ConnPool` | extends `ConnTable` with the groups and the pool of a client service: `conns_free`, its counters, `getconn`, `freeconn`, the heartbeat |
| `SendQueue` | the chunks of one connection between the threads that send, the thread that writes and the one that takes the connection into use |
| `Session` | the reading side of one connection: reader, procthread and task with `s_state` between them |
| `Mailbox` | abstract: messages are put and taken once, a thread asked to stop ends |
| `Wakeup` | how a procthread waits and is woken in its three modes; implements `Mailbox` |
| `EventBase` | the epoll, poll and select back ends of libevbase: registered events, what the kernel is asked for, and a pass of the loop over its readings |
| `EvTimer` | the timer nodes with their links, `evtimer_check`, and what connections and the heartbeat do with the number of their node |
| `ServiceStop` | `service_stop` against threads that start, connections that are added, used and closed, and removals in the queues |
| `MCConnLife`, `MCConnPool` | what a `.cfg` cannot write down: which procthread and iodaemon serve a descriptor, the symmetry of connections |
| `ConnLifeProofs`, `ConnPoolProofs`, `SessionProofs`, `WakeupProofs`, `EvTimerProofs`, `SendQueueProofs`, `ServiceStopProofs`, `EventBaseProofs` | theorems |

How they fit: `ConnTable` is shared by `ConnLife` (servers: who is in the table and
when) and `ConnPool` (clients: who may use what is in the table). `Wakeup` shows what
the other modules take for granted, that a thread with a message in its queue will
handle it. `ServiceStop` takes the relay of `ConnLife` in a shorter form and adds the end
of the threads. `SendQueue`, `Session` and `EvTimer` are each about fields of a
connection that only the calls in them touch. `EventBase` is what lies under all of
them: that a descriptor with an armed event brings a call is what `SendQueue`, `Session` and
the evbase mode of `Wakeup` assume.

### ConnTable and ConnLife

`place[c]` stands for the program position of whoever is responsible for the
connection: *heap* (not allocated, or freed), *pool* (in `qconns`), *used* (taken by
`service_addconn`), *popped*, *closed* and *reset* (inside
`procthread_terminate_connection`). `add[a]` is the connection that thread `a` is adding
and how far it is: before the stores of `procthread_add_connection`, before
`procthread_addconn`, before `service_pushconn`, before `conn_set`. It is a variable of the thread
and not of the connection, because the connection may be closed, removed, reset and
taken again under it. The other variables are the fields they are named after.
`life[c]` is a history variable: it numbers the connections a CONN has carried,
so that properties can say "the same session"; no guard but the bound `MaxLife`
and the visibility of a fresh CONN looks at it. `late` is another: the
connections that were entered in the table when they were not in use any more or had an entry
already, or set when their removal had left the procthread.

| Action | Code |
|---|---|
| `AddConn` | `service_addconn` with `service_popfromq` |
| `BindConn`, `RegisterConn`, `SetConn` | `procthread_add_connection`: the stores without a lock (313-321), `service_pushconn` under `service->mutex`, `conn_set` |
| `AnnounceConn`, `HandleNewSession` | `procthread_addconn`, and the NEW_SESSION handler up to the stores; `RegisterConn` and `SetConn` of that thread follow |
| `BeginCall`, `FinishClose` | `conn_close`: the unlocked look at `d_state`, then `conn_shut` under `conn->mutex` |
| `BeginCall`, `FinishWork` | `conn_push_message` and the other pushes of work: look first, push later with the index and descriptor of that moment |
| `NewTransaction` | `service_newtransaction`, which pushes index -1 |
| `HandleShut`, `HandleShutout`, `HandleOver` | `conn_shut_handler`, `conn_shutout_handler`, `procthread_over_connection` |
| `HandleQuit`, `CloseFd`, `ResetConn`, `Recycle` | `service_popconn`; `close(fd)`; the end of `conn_terminate` with the first stores of `conn_reset` (`index`, `d_state`, `fd`); its other stores (`message_queue`, `parent`) with `service_pushtoq` |
| `DropMessage`, `HandleWork` | the tests and all other cases of `qmessage_handler` |

Abstractions: the session behind a connection is left out, so every message
about it is `WORK` or `TRANSACTION`; the stores of `procthread_add_connection` up to
`service_pushconn` are one step, since only `message_queue` and `parent`, the first and the last that
matter, are read by others, and so is `procthread_newtransaction`;
`service_stop`, groups and `conns_free` are in modules of their own. `fd` -1, which
`conn_terminate` leaves, counts as 0: no test tells them apart. `conn_terminate` stores it before
`conn_reset` clears `d_state`, so that a `conn_shut` in between finds nothing to close and the two
can be one step. A CONN that `conn_clean` freed, because `qconns` was full, is
taken to keep the values of `conn_reset` until `conn_init` returns its memory: who
still holds its pointer goes on with it, as the program does with whatever is there.

### Mailbox and Wakeup

`pc` is the position of the thread in `procthread_run`, `upc[u]` that of a
thread that pushes or stops. The three wait/wakeup pairs are:

* **evbase** (iodaemons, outdaemon): `epoll_wait` on an event base that also
  holds a UDP socket (`sbase.c:239`), which is always writable. `procthread_wakeup` sets
  `flag` and asks for E_WRITE once, `procthread_event_handler` withdraws it and
  clears `flag`, both under `pth->mutex`.
* **cond** (`SB_USE_COND`): `MUTEX_WAIT`/`MUTEX_SIGNAL`, where `nowait`
  remembers a signal that met nobody.
* **evsig** (`SB_USE_EVSIG`): a private epoll instance, armed by the waker, and
  a `flag` without a lock.

Every access to `flag`, `nowait`, the queue and the epoll instance that another
thread can see is a step of its own unless one lock covers it. Others may push and stop from the moment
the thread is created: `service_run` does not wait for it. `missed` is a history
variable for the three ways in which a start then goes wrong: `procthread_wakeup` set
`flag` when the event had no base yet; `evepoll_add` undid its `event_add`; with `SB_USE_COND`,
`running_status = 1` came between the two steps of `procthread_stop`. `Mailbox` is then no longer
reliable (`Lose`).
Service threads without either flag poll with `nanosleep` and need no wakeup;
they and the kqueue variant are not modelled.

### EvTimer

`list` holds `head`, `tail` and the `next` and `prev` of every node, and is changed
link by link as in the code, because `evtimer_check` decides whether to call a
handler by looking at links. `collected` is the rest of `timeouts[]`, `looked`
says that its first node has passed the test and the call is next. `now` is
`gettimeofday` in ticks.

| Action | Code |
|---|---|
| `Open` | `conn_set`, with or without `session.timeout` |
| `BeginSet`, `FinishSet` | `conn_set_timeout` and `conn_wait_evtimeout`: CONN_CHECK, then `CONN_EVTIMER_SET` (`Update` or `Add`) |
| `OverTimeout`, `Shut` | `conn_over_timeout`, and its call in `conn_shut`; only `Shut` may come from another thread and meet a set_timeout halfway |
| `OverCstate` | `conn_over_cstate`, which `service_freeconn` calls |
| `Terminate` | `conn_terminate` and `conn_reset`, as far as they concern the timer |
| `HandleTimeout` | `conn_timeout_handler` with its three outcomes; a user's handler may call any of the operations, as later actions of the same connection |
| `Collect` | the part of `evtimer_check` under the mutex |
| `Look`, `Fire`, `Beat` | the test of each collected node and the call of `conn_evtimer_handler` with the `arg` of that moment, or of `service_evtimer_handler`, which renews its node; all without the mutex |

Abstractions: the read of `conn->evid` and the operation on that node are one
step, and `evtimer_check` reads the clock in the step that collects.
`evtimer_reset` has no caller.

### ConnPool

Group 0 stands for the pool, whose array, counter, total and limit are fields of
the service; `free[g]`, `nfree[g]`, `total[g]` and `limit[g]` are those of group `g`.
`uses[c]` is a history variable: how many `getconn`s of this life have not been
answered by `over_session`.

| Action | Code |
|---|---|
| `WantConns`, `BeatNewConn`, `CountConn`, `BeatFails` | `service_state` and `service_stategroup`: read how many are missing, `newconn`, and the increment of the total without a lock (`Overlapped`: it may lose an update of `popconn`) |
| `NewOwnConn` | `service_newconn` by the application |
| `AddConnection`, `OkConn` | `procthread_add_connection` for NEW_SESSION with `service_pushconn`, and `service_okconn` when the connect succeeded |
| `GetConn` | `service_getconn` with `conn_start_cstate`; `service_castgroup` does the same for every group |
| `OverSession` | `conn_over_session` with `service_freeconn` and `conn_over_cstate` |
| `CloseGroup` | `service_closegroup` |
| `Close`, `Pop`, `Reset` | `conn_close`, `service_popconn`, `conn_reset`; the relay between them is `ConnLife`'s |

`nconnected` is left out: it only makes the heartbeat wait for its next turn.
The module assumes that a session calls `over_session` once for a `getconn`, and in the
procthread of the connection, as the callers in the repository do.

### SendQueue

`left[b]` is what a chunk has still to send (0 is CHUNK_STATUS_OVER), `qleft` the free
chunks, `nblocks` is `qblock_max`. `user[u]` is where a thread is in `push_chunk`,
`newchunk`, `send_chunk`, `over_chunk` or `start_cstate`; `writer` is where the waiting
thread is in `conn_outevent_handler`, `conn_output_handler` and `conn_write_handler`.
`popchunk`, `freechunk` and the three operations on the queue are sections of
`conn->mutex` and one step each; between them everything may happen. Mode "daemon" has
an outdaemon or indaemon that gets OUT messages; in mode "own" the thread that handles
messages arms the event itself. `Reset` starts the next life. `owed` counts the units
that were queued and neither sent nor discarded by `start_cstate`; `crossed` remembers
that `start_cstate` popped while the writer was in `write_handler`.

The code does not bound the number of chunks a connection has at a time
(`qblock_max++` indexes `qblocks[]`); the model takes `QBlockMax` as kept by the application.

### Session

The peer's data are the units 1, 2, 3, ...; `got` is how far they were read, `taken` how far
they have left the buffer, `packet` and `chunk` name their first and last unit. So a
unit that is lost, doubled or handed out in another order shows, without any
contents. A packet is PACKET_CERTAIN_LENGTH; delimiters and packet readers
differ in how they find the length only.

| Action | Code |
|---|---|
| `ReadEvent`, `AfterRead` | `conn_read_handler`: to the buffer and then the tests of `packet.ndata` and `s_state`, or straight to the chunk (`CONN_CHUNK_READ`) |
| `HandleIn` | BUFFER (`conn_buffer_handler`) and CHUNKIO (`conn_chunkio_handler`) |
| `HandlePacket`, `HandleData`, `HandleTimeout` | the handlers of the procthread; `done` and `skew` record what they are given |
| `RecvChunk`, `ReadChunk`, `NewTask`, `OverSession`, `Finish` | what a handler of the application may call |
| `AfterHandler` | the test of `s_state` behind the handler |
| `Clear`, `ClearLate`, `Store`, `TestBuffer` | SESSION_RESET: the fields and `s_state`, then the look at the buffer; `ClearLate` is the store of `s_state` that becomes visible after the look |
| `Timeout`, `Close` | TIMEOUT messages, `conn_close` |

Memory is sequentially consistent but for `ClearLate`. MESSAGE_CHUNK is pushed nowhere.
Out-of-band data, multicast, proxies, SSL and compression are left out.

### EventBase

One base with one of the three back ends, events and descriptors. `asked[f]` is what the
kernel is asked for (the epoll mask, `pollfd.events`, or the two `fd_set`s), `watched` the
descriptors in the epoll instance or with a `pollfd` that is set, `ptr` is `data.ptr` of
epoll, `seen` what the kernel has answered (`revents`, or the copies of the sets), and
`todo` what the pass has still to look at. `gone`, `stale` and `crossed` are history.

| Action | Code |
|---|---|
| `Register` | `event_set` and `evbase->add` |
| `Change` | `event_add` and `event_del` in the thread of the loop: flags and `evbase->update` |
| `BeginChange`, `ChangeFlags`, `FinishChange` | the same calls of another thread: the test of `ev_base`; the flags under the event's mutex with the second test; the update |
| `Destroy`, `Destroyed` | `event_destroy` |
| `Wait` | `epoll_wait`, `poll` or `select` returns |
| `Look`, `Activate`, `Return`, `EndPass` | one turn of the `for` in the three loops, `event_active` before and after the handler, the end of the `for` |
| `EpollAdd`, `PollUpdate`, `SelectDel`, ... | the functions of that name, with `UPDATE_EVENT_FD` (`Enter`) and `REMOVE_EVENT_FD` (`Leave`) |
| `Open`, `Close`, `Happen` | descriptors: external |

Handlers are whatever the owner may do while `at` = "handler": open and close descriptors, register,
change and destroy events. Events that another thread changes have `E_LOCK`, and the base has
a mutex, so that a call of a back end is one step. sbase itself calls
`evbase_init(0)`, without that mutex: with epoll, its default on Linux, calls for different
descriptors share nothing but `maxfd`, which epoll does not read; with poll and select
two threads could overwrite each other's `maxfd`, which is not modelled. Descriptors stay
below `allowed` and, with select, below `FD_SETSIZE`. `E_EPOLL_ET` and
`evbase_set_evops` on a base that has events are left out.

### ServiceStop

One CONN, one life, one descriptor: the number of the life stands for the descriptor in
a message. `place[c]` = *freed* is a CONN that a locked thread passed to `conn_clean`, *spilled* one that
`service_pushtoq` did because `qconns` was full. `at[t]` is where a thread is in `procthread_run`: created, in its loop, in the
last look at its queue behind the loop, ended. `stage` is where `service_stop` is: the
thread it stops or joins, or the loop over `connections[]`.

| Action | Code |
|---|---|
| `Start`, `LeaveLoop`, `End`, `HandleStop` | `procthread_run`, `procthread_terminate` |
| `BeginAdd`, `TakeConn`, `GiveConn`, `HandleNewSession`, `PushConn` | `service_addconn` in pieces: its test of `lock`, `service_popfromq`, binding or announcing, the test of `lock` in `service_pushconn` and what it does under the mutex |
| `Close`, `PushWork`, `HandleWork` | `conn_close`, other pushes, `qmessage_handler` |
| `HandleRemoval`, `HandleQuit`, `FinishQuit` | the relay; `service_popconn` tests `lock` before it takes the mutex; the CONN goes to `qconns` or is freed, by `pth->lock` |
| `BeginStop`, `StopThread`, `Join`, `CloseEntries` | `service_stop` |

WORKING_THREAD mode only. Wakeups are reliable (`Wakeup` has the exceptions), `procthread_stop` is one
step, the acceptor is in its loop when
`service_stop` is called, `daemons[]` and the timers are left out, and the application
knows a connection once `service_addconn` is done with it.

## 3. Runs

| Run | Instance | Shows |
|---|---|---|
| `life` | two connections and descriptors, two procthreads, iodaemon, outdaemon, daemon, one thread that adds, one caller, two lives each, a table of two, a pool of one | a removal is about the life that was shut (`RemovalIsCurrent`), a descriptor has one owner and is closed after its connection left the table and its events are destroyed (`FdClosedLast`), the pool is idle, the table holds connections in use (`TableHoldsUsed`), and a removal that was started ends (`RemovalEnds`), with any step between the stores of `procthread_add_connection`, `service_pushconn` and `conn_set`. 376 000 states |
| `proc` | `WORKING_PROC`: the daemon alone, one connection with four lives, two threads that add and two that close, a table of two | `OneRemoval`, `TableFits` and `RemovalEnds` where SHUT and QUIT share a queue, two threads close, and late registrations fill the table |
| `close` | one connection | **violated**: `conn_close` between `procthread_addconn` and its NEW_SESSION sets `d_state` but drops SHUT; the connection is never removed |
| `wakeup` | all three modes, two users, three messages and a STOP, from the creation of the thread | `NoLostWakeup` (evbase, cond), `FlagMeansArmed` (evsig), and `Mailbox`: with its liveness (`KeepsMailbox`, evbase and cond), its safety (`SafeMailbox`) in every mode |
| `timer` | three nodes, the heartbeat and two connections, timeouts 1 and 2, clock to 3 | the list stays sorted and doubly linked, no node is lost, no timer outlives its connection, the heartbeat goes on, and who is due gets a TIMEOUT message (`TimeoutArrives`), while timers are set, renewed, collected, deleted late and reused |
| `timer_owner` | the same | **violated**: `conn_over_cstate` frees the node and keeps its number; the next `set_timeout` takes over the timer of whoever got the node meanwhile |
| `pool` | three connections, a group of two, a pool of one, connections of the heartbeat and of the application | `SlotsNameTheirConns`: a slot never names a connection of another list although indexes are reused; `FreeIsCounted`; `UsedByOne`: a connection is used by one session at a time |
| `sendq` | two senders, three blocks, chunks of up to two units, two queued chunks, both modes | `BlocksAccounted`: no block leaks or is in two places; `NothingIsLost`; `QueueIsWatched` and `QueueDrains`: what is queued is written or the connection closes. 1.4 million states |
| `session` | both modes, six units, packets of two, chunks of one and two, one timeout | `InOrder`, `MessageMatchesState`, `PacketIsTaken` |
| `session_order` | packets of one, no timeout | **violated**: the test behind `packet_handler` compares `s_state` only. A task resets the session, the reader takes the next packet, and the test throws that packet away |
| `stop` | two connections, one procthread that may start late, with and without outdaemon, an application thread, two calls | a pool of one: `StopEnds`, `RemovalIsOnce`, `FreedIsForgotten`. 450 000 states |
| `events` | three back ends, two events, two descriptors, one other thread, one-shot events without a mutex and persistent ones with one, read or no interest at first, write added and deleted, readable and writable or hung up | `Coherent`: the kernel is asked for what the flags say and `maxfd` hides nobody; `CallsAreCurrent`: who is called for a reading that is no longer about it; `ReadyIsServed`. 354 000 states |

**Bounds.** `MaxLife` = 2 lets a CONN be recycled once, which is what a stale
pointer, message or descriptor needs to meet a later life; `proc` has four lives, so that a CONN
registered late can be taken again, registered again and removed. `Limit` = 3 leaves two usable entries (entry 0 is never
used): each connection has one, `index_max` can go down by one and stay, and in `proc` the entries that
late registrations leave fill the table. `PoolMax` = 1 makes the second
`service_pushtoq` free the connection. `MaxQueue` bounds the queue length up to which users add
work; it is 1 in `proc`, and 0 in `life`, which has no messages but those of adding and
removing. Removal messages are not bounded, so queues do hold several
messages. `MaxPush` = 3 lets one message arrive while another is
handled and a third while the thread goes to sleep, besides STOP. `Nodes` = 3
lets `evtimer_push` insert at the head, at the tail and in between; two timeouts
and four clock values put a new node before, behind and level with the others and
leave time to collect (a node is collected strictly after its time). In `ConnPool` three
connections share two usable entries, so that an index passes from a list to the other
and the table is full for the third; `MaxDrift` = 0 lets a list have one connection more than
its total says. In `SendQueue` two chunks let one be appended while the other is
written, and three blocks leave one to each sender besides. Six units in `Session`
make a packet, a chunk and a packet, or three packets. `MaxCalls` = 2 in `ServiceStop` lets a
connection be added while another is, or be added and used; what was registered before is free
(`Init` starts with any of the connections in the table that leave no more than `PoolMax` for `qconns`). `PoolMax` = 1 there lets
one of two terminated connections find `qconns` full. `MaxCalls` = 3 in `EventBase` counts registrations and
changes (not destructions): two events are registered and one of them is registered again or
changed, also within a pass; two descriptors let `maxfd` fall below one that is registered
if it is lowered wrongly.

**Deadlock** is checked for `EvTimer`, whose connections can always be opened or
closed, and not elsewhere: an instance whose lives, chunks or units are used up, or whose
thread has ended, has nothing left to do.

**Fairness.** `ConnLife`: weak fairness of every thread's handlers, since
`procthread_run` loops over its queue until the service stops, and of the
accepting thread finishing `service_addconn`; no fairness of callers. That a
thread with a queued message does run is what `Wakeup` is about. `Wakeup`:
weak fairness of the thread while it is not asleep and of a user inside a
call; returns from the wait that nobody caused (`OtherReturn`) are possible but
never assumed. `EvTimer`: weak fairness of `evtimer_check`, which the tracker
and the main loop call in every round; none of connections or of the clock.
`SendQueue`: the waiting thread and the handler of END run, a sender ends its call, and the
peer reads; nobody has to send. `Session`: the reader, the procthread (with the handlers and tasks of the application, which return) and
SESSION_RESET go on; neither the peer
nor the application has to do anything. `ServiceStop`: threads are scheduled,
`service_stop` goes on once it was called, calls of `service_addconn` in a service thread end, and the
acceptor leaves its loop once it is told to, because `accept` fails on the closed descriptor.
`EventBase`: the loop goes on and handlers return, and a call of `event_add` or `event_del` in another
thread ends; nobody has to register anything.

## 4. Proofs

All theorems hold for any number of connections, threads, users, groups, blocks
and descriptors, any table and pool size and any bounds, from the assumptions on
the constants alone: `ConnsAssumption` and `LimitAssumption` (`ConnTable`),
`ThreadsAssumption` (`ConnLife`), `WakeupAssumption`, `PoolAssumption`, `TimerAssumption`,
`SendAssumption`, `SessionAssumption`, `EventAssumption`, `StopAssumption`, `UsersAssumption` (`ServiceStop`). They say
that sets of connections and threads are finite, that sizes are natural numbers, that "none" is not one of the connections and
that threads of the application are not threads of the service.

`ConnLifeProofs` proves `TypeCorrect`, `RemovalIsSingle`, `RemovalFitsItsConn`, `FdIsOwnedOnce`,
`PoolHoldsIdle`, `TableFitsIndexes` and `TableHoldsOnlyUsed` from one
inductive invariant `IInv`. None of these is inductive alone: that a removal
message fits its connection (`RemovalIsCurrent`) is kept by `CloseFd` and
`ResetConn` only if nobody else is removing the connection (`OneRemoval`), which is
kept by `FinishClose` only if `d_state` is "close" whenever a removal is under
way, which `ResetConn` would break if the pool could hold a connection with a
message. `IInv` says for every place of a connection what its fields are,
that SHUT, SHUTOUT, OVER, QUIT and NEW_SESSION are tokens of
which a connection has at most one and which fit it, and that pool and terminating
threads agree with the places. Of the table it says only what survives a late
registration: an index that a connection carries names an entry that holds it, from whatever moment
`service_pushconn` came. Entries without such an index are allowed for connections in `late`.
A removal whose message carries -1 therefore needs no entry, and one that carries an index has it.
Steps on queues are all brought into one form, `QueueStep`: pop at most one message
from some queues and append at most one to another.

The action property `DescriptorClosedLast` follows from `IInv` and an invariant about events: OVER
is in a queue only after the outdaemon has destroyed its event, QUIT only after the iodaemon has
too, except for connections in `late`. It has no assumption besides those on the constants.

`WakeupProofs` proves `ImplementsMailbox` (every mode, starts included): the
strengthening `StopInv` says that STOP, a cleared `running_status` and the end of
the loop all come from `procthread_stop`. `WakeupIsNotLost` covers evbase and cond
from the creation of the thread on: unless `missed`, `EvbaseSound` says that `flag` and the armed descriptor agree,
`CondSound` that `nowait` or a pending waker covers everything that changed since
the last look at the queue, and that a thread that was stopped before it started finds STOP
at its first look. `FlagIsBacked` covers evsig, with `EvsigSound`: the thread
never registers an event of its own there, so that only `evsig_wait` arms and disarms.

`ConnPoolProofs` proves `PoolTypeCorrect`, `SlotsAreTheirs`, `FreeCountIsRight`, `UsedOnce` and
`PoolKeepsTable`. A slot holds an index and a connection holds a slot, so that they name each
other depends on the table (`TableCoherent`, with the lemmas about `PushConn` and `PopConn` of `ConnTable` that `ConnLifeProofs` has too) and on what
the place of a connection says of its index, slot and uses (`FieldsFitPlace`): a
connection without an index, because the table was full, has never been offered.
`OfferFillsGap` and the lemma about taking a slot back say what one operation does to a free
list; that `nconns_free` counts the slots in use follows from the cardinality lemmas of the library.

`EvTimerProofs` proves `TimerTypes`, `ListStaysSorted`, `NoNodeIsLost`, `HeartbeatNeverStops` and
`NoTimerOutlivesItsConn`. The last looks at owners only (`OwnerTypes`, `Held`, and `BusyInUse`: a thread inside
`set_timeout` keeps its connection from being recycled). The others rest on `ListInv`: the `prev` and
`next` links show one sequence of armed nodes, in the order of `evtime`, and one of free nodes,
which have no node in common and of which the second ends where `left` does. `Walk`, which follows the links, is a recursive
function over sets of nodes; that it visits exactly the armed sequence follows from its defining
equation by the least counterexample (`WFMin`), without an induction rule. Each operation of
`evtimer.c` is then an operation on the two sequences (`Insert`, `Without`, `After`).

`SendQueueProofs` proves `SendTypeCorrect`, `NoBlockLeaks`, `QueuedIsWatched` and `NothingLost`. The blocks
are in three kinds of places (`Places`: free list, queue, hands of a thread), pairwise
apart and counted by `qblock_max`; a block that was never used is nowhere
(`FreshUntouched`). `Watched` strengthens `QueueIsWatched` with the position of the
writer: once it has found the queue empty and has not yet disarmed the event, whoever pushes
is not through with its OUT or END message. `NothingIsLost` needs `HeadKept`: from
`conn_write_chunk` to the drop, the pointer of `write_handler` is the head of the queue, unless
`conn_start_cstate` popped meanwhile. Its sum over the queue is a fold, which the prover sees
as the choice of a function that solves an equation: that there is a solution, that the value does not
depend on which one is chosen nor on the order of the elements (`SumRemove`), follows
from the smallest subset that would be a counterexample (`SmallestOf`).

`EventBaseProofs` proves `InterestFollowsFlags` and `ReadingsFindTheirEvent`, for all three back
ends at once. The invariant `Keeps` relates every descriptor to the event it is entered for
(`DescriptorsFit`), every event to its descriptor (`EventsFit`), and every `event_add` in
progress to both (`CallsFit`); what holds even after an event was destroyed inside an
`event_add` (types, `maxfd` as a bound, one holder of a mutex) is `Bounded`. The lemmas about
`add`, `update` and `del` say what happens at one descriptor and that no other is touched
(`Apart`), so that the steps need not look at the back ends again.

`SessionProofs` proves `SessionTypes`, `UnitsInOrder` and `OneMessageAtATime`. What makes `InOrder`
inductive is to say of every `s_state` what the application has and what waits for it (`UnitsFit`:
`AllHanded`, `PacketWaits`, `ChunkWaits`), and of the procthread whether it has the session
(`Holding`): its handler runs, or has returned without letting the session go on, or it is about
to reset it. While nobody holds a session, PACKET or DATA is queued for it exactly if `s_state`
is PACKET_HANDLING or DATA_HANDLING (`NewsFit`). Where a session is cut, by a timeout or by a
reset that comes after the reader went on, `cut` is all the invariant says, and where the connection is
closed nothing is handed any more.

`ServiceStopProofs` proves `StopTypes`, `OneRemovalInStop` and `FreedAndForgotten`. The heart of its
`IInv` is `RemovalIsLast`: whatever else is in the queues about a connection is before its removal in the same queue or in
a queue the removal has still to pass (`Rank`), so that when the daemon has taken QUIT nobody names the
connection any more. `TasksFit` says the same of threads that are in the middle of adding or terminating a connection, and
`StageFits` that the daemon is locked only after the loop of `service_stop` over `connections[]`
(`PastClose`): a CONN that is freed for the lock of its thread is freed after the loop. One that is freed because
`qconns` is full (*spilled*) may be freed before the loop, and its entry may still be in the table (section 5); for it
`FreedIsForgotten` says only that no thread and no message names it. The theorem holds for every `PoolMax`. `LifeBound` is for the types: each life was paid for with one of
`MaxCalls`.

Only model-checked:

* everything temporal (liveness is out of the prover's reach): `RemovalEnds`, the liveness of `KeepsMailbox`,
  `TimeoutArrives`, `QueueDrains`, `PacketIsTaken`, `StopEnds`, `ReadyIsServed`. Every invariant
  that a passing run checks is stated by a theorem.

## 5. What the models show about the code

What holds:

* The removal relay is sound: whatever is stale, and wherever the thread that adds the connection is,
  a removal reaches the connection that was closed, exactly once, and ends. The second look at
  `d_state` under the lock and the descriptor and index tests suffice for that.
* The event-base and condition-variable wakeups are sound but for three windows while the thread starts (below).
* The timer list keeps its order and its nodes whatever connections do with it, and
  no timer outlives its connection.
* Slots of the client pool and its groups stay with their connections, although
  `service_popconn` reads them by an index that is reused. (`ConnPool` registers a connection in
  one step with the stores of `procthread_add_connection`; what a late registration does to the table is in `ConnLife` only.)
* The interest of the kernel, `evlist[]` and `maxfd` follow the flags of the events through
  every order of calls; lowering `maxfd` by one only is enough for poll and select to see
  everybody. With epoll the comparison of `data.ptr` with `evlist[]`, with poll the
  `revents` that are reset, keep a reading from another event that got the descriptor.
* A chunk that is pushed while the writer finds its queue empty is written all the same:
  the order of test and disarming in `write_handler`, and OUT and END, see to that.
* The reader and the procthread hand the session to each other without a lock and
  lose no packet, in spite of a store that becomes visible late.
* `service_stop` ends, also when a thread starts late, because the STOP message
  stands in for a `running_status` that `procthread_run` sets again (below for the exception); and the order in which
  threads are locked and joined keeps a freed CONN out of the queues.

What does not, with a run that shows it: `close`, `timer_owner`, `session_order`
(section 3; `findings` in `PROJECT.json` quotes what the repository says).

What was met on the way:

* TRANSACTION has no index, so a recycled CONN with the same descriptor gets it
  (`procthread.c:245`). Work that was pushed after an unlocked look carries the fields
  of the next life, so nothing can tell.
* `evsig_wait` resets `flag` right after `epoll_wait` and disarms the descriptor later (`src/devel/libevbase/src/evsig.c:107`):
  a waker in between sets `flag`, arms, and is disarmed; the next one finds `flag` set and
  arms nothing, so the thread sleeps with its message queued. `FlagMeansArmed` is what is left,
  and `Mailbox` is implemented without its liveness.
* The epoll loop gives a stale reading to a later registration of the same event, and calls
  handlers for directions that `ev_flags` no longer has (`evepoll.c:195`: the mask is commented
  out); select gives a stale reading even to another event that got the descriptor.
* `evpoll_update` clears `revents` and sets `ev_base` again (`evpoll.c:82`): an
  event that is changed by a handler earlier in the pass is served in the next one.
* `event_add` of another thread that meets `event_destroy` (`evbase.c:223`) leaves `evlist[]`
  and the kernel with an event that is not registered any more (`crossed`); what `EventBase` shows
  is about runs without that.
* On the blocking path the thread that accepted makes the stores of `procthread_add_connection` while an older
  holder of the pointer may close the CONN (`procthread.c:313`). The removal then runs through with index -1,
  and `service_pushconn` (`procthread.c:322`) enters a CONN that is in `qconns`, or in use again: the table keeps
  an entry that no `service_popconn` will clear, since the CONN forgets or replaces its index, and `running_connections`
  counts it. `src/README.md:168` says of `service_pushconn` that it adds "正常正确的连接" (normal, correct
  connections). The life's descriptor, the pool and the removal are not affected (`FdHasOneOwner`, `PoolIsIdle`, `RemovalIsCurrent`).
* In the same way `conn_set` may register events after the iodaemon or the outdaemon has destroyed
  those of the removal, or for the next life (`late`); `close(fd)` then comes while an event is registered.
* A wakeup of an iodaemon or the outdaemon before its event is registered sets `flag` and arms nothing
  (`procthread.c:97`): all later wakeups find `flag` set, and the thread handles messages only when a
  connection's event wakes it. This holds for STOP as well.
* With `SB_USE_COND`, a thread that sets `running_status` between the two steps of `procthread_stop`
  (`procthread.c:399`) and then goes to sleep is woken by STOP, clears `running_status` in the handler,
  finds its queue empty and waits again: `service_stop` would not return. `ServiceStop` makes the two steps one.
* The test before a timer's call, `next == NULL && prev == NULL`, also accepts a node that was
  renewed meanwhile and is alone in the list, so a timeout may come too early.
* A chunk that `conn_read_handler` completes from the buffer alone leaves `n` at -1, and the
  connection is shut as if the peer had closed (`conn.c:1044`).
* In `WORKING_PROC` mode `conn->indaemon` is NULL and `qmessage_handler` drops BUFFER and
  CHUNKIO: what is in the buffer waits for the next read (`conn.c:308`, `conn.c:302`).
* `service_popconn` takes a connection off `nconnections` only while it is in
  `conns_free` (`service.c:1018`), and the totals are changed without the mutex
  (`service.c:1047`), so the heartbeat may open too few or too many connections.
* `service_closegroup` walks up to `nconns_free`, although the array has gaps (`service.c:1458`).
* `service_pushconn` tests `lock` before it takes the mutex (`service.c:913`): a
  connection may be registered after `service_stop` has gone over the table, and is never closed. Likewise
  `service_addconn` in flight may take a CONN that was terminated without
  `service_popconn`, whose entry is still there.
* When `qconns` is full (256 places for up to 40960 connections) while the service is locked, `service_pushtoq` frees a CONN that
  `service_popconn` has left in `connections[]` (`service.c:1222`), and the loop of `service_stop` (`service.c:1609`) goes on to
  read it (*spilled* in `ServiceStop`).
* OVER may be left in the queue of an iodaemon that was joined (`service.c:1622`).
* The acceptor handles STOP after its loop only, so `service_stop` before the acceptor
  has set `running_status` would not return; and `service_clean` goes over the iodaemons up to
  `ndaemons` (`service.c:1786`).
* `sbase_remove_service` leaves a gap that nobody fills (`sbase.c:148`).
* The number of chunks of a connection is not bounded (`conn.c:1638`), and `conn_start_cstate`
  resets buffers that belong to other threads (`conn.c:922`).
* `index_max` is an upper bound and not "the largest position", as
  `src/README.md:151` has it: `service_popconn` lowers it by one only.

## 6. Plan and limits

Left of the plan, in this order: the free list of `message.c` (`left`, `list`, `nlist`) with
its silent drop, against a bounded FIFO; `Proxy`;
`service_clean` and `sbase_running`.

Not modelled and not planned:

* Buffers and chunks (`chunk.c`, `mmblock.c`): one thread's memory and file ranges.
* HTTP and mime parsing, the ini parser, logging, tries and other utility structures:
  sequential code on strings and files; nothing of the core depends on their state.
* kqueue and the unfinished event back ends: other platforms.
* Example servers, benchmarks and management pages: users of the library.
* `src/libsbase` and `src/trash` hold the repository's older copies of the same library, which are most of
  its lines. `src/devel` is the current one, and the models follow it line by line; a model of the
  older copies would repeat it with other line numbers.
