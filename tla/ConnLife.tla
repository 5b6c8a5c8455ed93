------------------------------ MODULE ConnLife ------------------------------
(***************************************************************************)
(* The life of a connection: service_addconn takes a CONN from qconns, a   *)
(* procthread registers it, conn_shut starts its removal, and the removal  *)
(* travels through the message queues                                      *)
(*                                                                         *)
(*   SHUT (procthread) -> SHUTOUT (outdaemon) -> OVER (iodaemon)           *)
(*                     -> QUIT (daemon)                                    *)
(*                                                                         *)
(* until procthread_terminate_connection takes it out of the table, closes *)
(* its descriptor, resets it and pushes it back to qconns for reuse.       *)
(* Without an outdaemon SHUTOUT is skipped; in WORKING_PROC mode SHUT      *)
(* leads to QUIT on the same queue.  All other messages are one operation, *)
(* WORK, which any thread may push after it looked at d_state without a    *)
(* lock; TRANSACTION and NEW_SESSION are kept apart because they carry     *)
(* index -1.                                                               *)
(*                                                                         *)
(* procthread_add_connection is cut where it holds no lock: it stores      *)
(* message_queue ... parent, then service_pushconn enters the connection   *)
(* in the table under service->mutex, then conn_set registers its events.  *)
(* A connection may be closed, removed, reset and taken again between any  *)
(* two of them.                                                            *)
(***************************************************************************)
EXTENDS ConnTable, Sequences

CONSTANTS
  Fds,           (* descriptors the kernel may hand out                    *)
  ProcThreads,   (* service->procthreads (the daemon in WORKING_PROC mode) *)
  IoDaemons,     (* service->iodaemons                                     *)
  Out,           (* service->outdaemon                                     *)
  Daemon,        (* service->daemon                                        *)
  NoThread,      (* a NULL PROCTHREAD                                      *)
  ProcOf,        (* fd -> procthreads[fd % nprocthreads]                   *)
  InOf,          (* procthread -> its indaemon, NoThread in WORKING_PROC   *)
  UseOut,        (* SB_USE_OUTDAEMON                                       *)
  Users,         (* threads that hold a CONN pointer and call into it      *)
  Adders,        (* threads in service_addconn: acceptor, service_newconn  *)
  PoolMax,       (* SB_QCONN_MAX                                           *)
  MaxLife,       (* bound: how often one CONN is taken                     *)
  MaxQueue       (* bound: queue length up to which users add work         *)

Threads == ProcThreads \cup IoDaemons \cup {Out, Daemon}

ASSUME ThreadsAssumption ==
  /\ Fds \subseteq Nat \ {0}
  /\ NoThread \notin Threads
  /\ ProcOf \in [Fds -> ProcThreads]
  /\ InOf \in [ProcThreads -> IoDaemons \cup {NoThread}]
  /\ UseOut \in BOOLEAN
  /\ Adders \cap Threads = {}
  /\ PoolMax \in Nat /\ MaxLife \in Nat /\ MaxQueue \in Nat
  (* service_run starts an outdaemon only next to iodaemons *)
  /\ UseOut => \A p \in ProcThreads : InOf[p] # NoThread

VARIABLES
  place,      (* where the connection is, see Places                       *)
  fd,         (* conn->fd; -1, which conn_terminate leaves, counts as 0    *)
  dstate,     (* conn->d_state                                             *)
  parent,     (* conn->parent, and with it message_queue and the daemons   *)
  events,     (* the events of the connection registered with an evbase    *)
  life,       (* history: how often the connection was taken               *)
  late,       (* history: connections registered or set when it was late   *)
  add,        (* the connection a thread is adding and how far it is       *)
  qconns,     (* service->qconns[0 .. nqconns-1], the last one is the top  *)
  openFds,    (* descriptors open in the kernel                            *)
  mq,         (* message queue of every thread                             *)
  quitting,   (* the connection a thread is terminating, or NoConn         *)
  call        (* the call a user is in after its unlocked test of d_state  *)

connVars == <<place, fd, dstate, parent, events, life, late>>
vars == <<tableVars, connVars, add, qconns, openFds, mq, quitting, call>>

(* heap: not allocated, or freed by conn_clean.  pool: in qconns.  used:    *)
(* taken by service_addconn.  popped: service_popconn of the removal done. *)
(* closed: close(fd) done.  reset: d_state and fd cleared by conn_reset.   *)
Places == {"heap", "pool", "used", "popped", "closed", "reset"}

(* Where a thread is in adding a connection: before the stores of          *)
(* procthread_add_connection, before procthread_addconn, before            *)
(* service_pushconn, before conn_set.                                      *)
Idle == [at |-> "none", conn |-> NoConn]
AddStates ==
  [at : {"bind", "announce", "push", "set"}, conn : Conns] \cup {Idle}

PipelineOps == {"SHUT", "SHUTOUT", "OVER", "QUIT"}
Ops == PipelineOps \cup {"NEW_SESSION", "WORK", "TRANSACTION"}

Message == [op : Ops, conn : Conns, index : Indexes \cup {-1},
            fd : Fds \cup {0}, life : Nat]

NoCall == [op |-> "none", conn |-> NoConn]
Calls == [op : {"close", "work"}, conn : Conns] \cup {NoCall}

TypeOK ==
  /\ TableTypeOK
  /\ place \in [Conns -> Places]
  /\ fd \in [Conns -> Fds \cup {0}]
  /\ dstate \in [Conns -> {"free", "close"}]
  /\ parent \in [Conns -> ProcThreads \cup {NoThread}]
  /\ events \in [Conns -> SUBSET {"in", "out"}]
  /\ life \in [Conns -> Nat]
  /\ late \subseteq Conns
  /\ add \in [Threads \cup Adders -> AddStates]
  /\ qconns \in Seq(Conns)
  /\ openFds \subseteq Fds
  /\ mq \in [Threads -> Seq(Message)]
  /\ quitting \in [Threads -> Conns \cup {NoConn}]
  /\ call \in [Users -> Calls]

Init ==
  /\ TableInit
  /\ place = [c \in Conns |-> "heap"]
  /\ fd = [c \in Conns |-> 0]
  /\ dstate = [c \in Conns |-> "free"]
  /\ parent = [c \in Conns |-> NoThread]
  /\ events = [c \in Conns |-> {}]
  /\ life = [c \in Conns |-> 0]
  /\ late = {}
  /\ add = [t \in Threads \cup Adders |-> Idle]
  /\ qconns = <<>>
  /\ openFds = {}
  /\ mq = [t \in Threads |-> <<>>]
  /\ quitting = [t \in Threads |-> NoConn]
  /\ call = [u \in Users |-> NoCall]

-----------------------------------------------------------------------------
(* Message queues.                                                         *)

(* The arguments of qmessage_push are read from the connection.            *)
Msg(op, c) == [op |-> op, conn |-> c, index |-> index[c], fd |-> fd[c],
               life |-> life[c]]

(* PUSH_TASK_MESSAGE with index -1: NEW_SESSION and TRANSACTION.           *)
MsgNoIndex(op, c) == [Msg(op, c) EXCEPT !.index = -1]

Push(t, m) == mq' = [mq EXCEPT ![t] = Append(@, m)]
Pop(t) == mq' = [mq EXCEPT ![t] = Tail(@)]

(* Thread t handles its first message m and pushes n to thread s.          *)
PopAndPush(t, s, n) ==
  mq' = [q \in Threads |->
           LET rest == IF q = t THEN Tail(mq[q]) ELSE mq[q]
           IN IF q = s THEN Append(rest, n) ELSE rest]

(* The tests qmessage_handler makes before it dispatches a message.        *)
Accepts(m) ==
  /\ m.fd = fd[m.conn]
  /\ m.index # -1 => connections[m.index] = m.conn

(* Thread t is in qmessage_handler with a first message of this kind.      *)
Ready(t) == quitting[t] = NoConn /\ add[t] = Idle /\ mq[t] # <<>>
Dispatches(t, op) == Ready(t) /\ Head(mq[t]).op = op /\ Accepts(Head(mq[t]))

-----------------------------------------------------------------------------
(* Adding a connection.                                                    *)

(* service_popfromq: the top of the stack, or a new one from conn_init,    *)
(* which has no index.                                                     *)
TakesFromQueue(c) ==
  \/ /\ qconns # <<>>
     /\ c = qconns[Len(qconns)]
     /\ qconns' = SubSeq(qconns, 1, Len(qconns) - 1)
     /\ UNCHANGED tableVars
  \/ /\ qconns = <<>>
     /\ place[c] = "heap"
     /\ ForgetIndex(c)
     /\ UNCHANGED qconns

Adds(a, at, c) == add' = [add EXCEPT ![a] = [at |-> at, conn |-> c]]
StopsAdding(a) == add' = [add EXCEPT ![a] = Idle]

(* service_addconn up to the hand-over to a procthread, for a descriptor   *)
(* that accept() or socket() has just returned.  A blocking connection has *)
(* CONN_STATUS_FREE and is registered by the caller; one that is still     *)
(* connecting has CONN_STATUS_READY and in WORKING_THREAD mode is          *)
(* announced to its procthread.                                            *)
AddConn(a, c, f, next) ==
  /\ add[a] = Idle
  /\ next = "announce" => Daemon \notin ProcThreads
  /\ life[c] < MaxLife
  /\ f \notin openFds
  /\ TakesFromQueue(c)
  /\ openFds' = openFds \cup {f}
  /\ fd' = [fd EXCEPT ![c] = f]
  /\ life' = [life EXCEPT ![c] = @ + 1]
  /\ place' = [place EXCEPT ![c] = "used"]
  /\ Adds(a, next, c)
  /\ UNCHANGED <<dstate, parent, events, late, mq, quitting, call>>

(* procthread_addconn.                                                     *)
AnnounceConn(a) ==
  LET c == add[a].conn IN
  /\ add[a].at = "announce"
  /\ Push(ProcOf[fd[c]], MsgNoIndex("NEW_SESSION", c))
  /\ StopsAdding(a)
  /\ UNCHANGED <<tableVars, connVars, qconns, openFds, quitting, call>>

(* procthread_add_connection up to service_pushconn: the stores, made      *)
(* without a lock; parent is the last one a message on c depends on.       *)
Bind(c) == parent' = [parent EXCEPT ![c] = ProcOf[fd[c]]]

BindConn(a) ==
  LET c == add[a].conn IN
  /\ add[a].at = "bind"
  /\ Bind(c)
  /\ Adds(a, "push", c)
  /\ UNCHANGED <<tableVars, place, fd, dstate, events, life, late, qconns,
                 openFds, mq, quitting, call>>

(* A NEW_SESSION message: thread t makes the stores and handles no other   *)
(* message until conn_set.                                                 *)
HandleNewSession(t) ==
  LET c == Head(mq[t]).conn IN
  /\ Dispatches(t, "NEW_SESSION")
  /\ Bind(c)
  /\ Adds(t, "push", c)
  /\ Pop(t)
  /\ UNCHANGED <<tableVars, place, fd, dstate, events, life, late, qconns,
                 openFds, quitting, call>>

(* service_pushconn for whatever the CONN has become since the stores;     *)
(* conn_set is called only when there was a free entry.                    *)
RegisterConn(a) ==
  LET c == add[a].conn IN
  /\ add[a].at = "push"
  /\ PushConn(c)
  /\ \/ FreeIndexes # {} /\ Adds(a, "set", c)
     \/ FreeIndexes = {} /\ StopsAdding(a)
  /\ late' = IF FreeIndexes # {} /\ (place[c] # "used" \/ index[c] # -1)
             THEN late \cup {c} ELSE late
  /\ UNCHANGED <<place, fd, dstate, parent, events, life, qconns, openFds, mq,
                 quitting, call>>

(* The removal of c has left the procthread: its events are going or gone. *)
RemovalPast(c) ==
  \/ \E t \in Threads : \E i \in 1 .. Len(mq[t]) :
       mq[t][i].conn = c /\ mq[t][i].op \in PipelineOps \ {"SHUT"}
  \/ \E t \in Threads : quitting[t] = c

SetEvents == IF UseOut THEN {"in", "out"} ELSE {"in"}

(* conn_set registers the events of a connection that has a descriptor and *)
(* an evbase.                                                              *)
SetConn(a) ==
  LET c == add[a].conn IN
  /\ add[a].at = "set"
  /\ StopsAdding(a)
  /\ \/ /\ fd[c] > 0 /\ parent[c] # NoThread
        /\ events' = [events EXCEPT ![c] = SetEvents]
        /\ late' = IF RemovalPast(c) THEN late \cup {c} ELSE late
     \/ ~(fd[c] > 0 /\ parent[c] # NoThread) /\ UNCHANGED <<events, late>>
  /\ UNCHANGED <<tableVars, place, fd, dstate, parent, life, qconns, openFds,
                 mq, quitting, call>>

-----------------------------------------------------------------------------
(* Calls on a connection from any thread.  A pointer stays with whoever    *)
(* had it when the CONN is recycled or freed, so a call may reach a later  *)
(* life than the one its caller had in mind.  In its first life a CONN is  *)
(* known only to the thread that adds it until that thread has put it into *)
(* the table or returned it.  A CONN freed by conn_clean is taken to keep  *)
(* the values of conn_reset until conn_init returns its memory again.      *)

Reachable(c) ==
  /\ life[c] > 0
  /\ life[c] = 1 => \A a \in Adders : add[a].conn = c => add[a].at = "set"

(* CONN_CHECK: conn_shut and conn_push_message first read d_state without  *)
(* a lock and return when the connection is closing.                       *)
BeginCall(u, c, op) ==
  /\ call[u] = NoCall
  /\ Reachable(c)
  /\ dstate[c] = "free"
  /\ call' = [call EXCEPT ![u] = [op |-> op, conn |-> c]]
  /\ UNCHANGED <<tableVars, connVars, add, qconns, openFds, mq, quitting>>

EndCall(u) == call' = [call EXCEPT ![u] = NoCall]

(* Variants of FinishClose with the second look at d_state left out, and   *)
(* without the assignment to d_state.                                      *)
FinishCloseNoRecheck(u) ==
  LET c == call[u].conn IN
  /\ call[u].op = "close"
  /\ \/ /\ fd[c] > 0 /\ parent[c] # NoThread
        /\ dstate' = [dstate EXCEPT ![c] = "close"]
        /\ Push(parent[c], Msg("SHUT", c))
     \/ ~(fd[c] > 0 /\ parent[c] # NoThread) /\ UNCHANGED <<dstate, mq>>
  /\ EndCall(u)
  /\ UNCHANGED <<tableVars, place, fd, parent, events, life, late, add, qconns,
                 openFds, quitting>>

FinishCloseNoState(u) ==
  LET c == call[u].conn IN
  /\ call[u].op = "close"
  /\ \/ fd[c] > 0 /\ parent[c] # NoThread /\ Push(parent[c], Msg("SHUT", c))
     \/ ~(fd[c] > 0 /\ parent[c] # NoThread) /\ UNCHANGED mq
  /\ EndCall(u)
  /\ UNCHANGED <<tableVars, connVars, add, qconns, openFds, quitting>>

(* conn_shut under conn->mutex: it looks at d_state again, and            *)
(* conn__push__message drops SHUT when the connection has no queue yet.    *)
FinishClose(u) ==
  LET c == call[u].conn IN
  /\ call[u].op = "close"
  /\ \/ /\ dstate[c] = "free" /\ fd[c] > 0
        /\ dstate' = [dstate EXCEPT ![c] = "close"]
        /\ \/ parent[c] # NoThread /\ Push(parent[c], Msg("SHUT", c))
           \/ parent[c] = NoThread /\ UNCHANGED mq
     \/ ~(dstate[c] = "free" /\ fd[c] > 0) /\ UNCHANGED <<dstate, mq>>
  /\ EndCall(u)
  /\ UNCHANGED <<tableVars, place, fd, parent, events, life, late, add, qconns,
                 openFds, quitting>>

(* The queues a bound connection points to: its procthread's, inqmessage   *)
(* and outqmessage.                                                        *)
QueuesOf(c) ==
  {parent[c], InOf[parent[c]]} \cup (IF UseOut THEN {Out} ELSE {})

(* The qmessage_push of conn_push_message, PUSH_INQMESSAGE and             *)
(* CONN_OUTEVENT_MESSAGE: index, fd and queue are those of the moment.     *)
FinishWork(u) ==
  LET c == call[u].conn IN
  /\ call[u].op = "work"
  /\ \/ /\ parent[c] # NoThread
        /\ \E q \in QueuesOf(c) \cap Threads :
             /\ Len(mq[q]) < MaxQueue
             /\ Push(q, Msg("WORK", c))
     \/ parent[c] = NoThread /\ UNCHANGED mq
  /\ EndCall(u)
  /\ UNCHANGED <<tableVars, connVars, add, qconns, openFds, quitting>>

(* service_newtransaction and procthread_newtransaction.                   *)
NewTransaction(c) ==
  /\ Reachable(c)
  /\ fd[c] > 0
  /\ Len(mq[ProcOf[fd[c]]]) < MaxQueue
  /\ Push(ProcOf[fd[c]], MsgNoIndex("TRANSACTION", c))
  /\ UNCHANGED <<tableVars, connVars, add, qconns, openFds, quitting, call>>

-----------------------------------------------------------------------------
(* Removing a connection.                                                  *)

(* Variant: conn_shut_handler without its last alternative.                *)
HandleShutNoQuit(t) ==
  LET c == Head(mq[t]).conn IN
  /\ Dispatches(t, "SHUT")
  /\ \/ UseOut /\ PopAndPush(t, Out, Msg("SHUTOUT", c))
     \/ /\ ~UseOut
        /\ InOf[parent[c]] # NoThread
        /\ PopAndPush(t, InOf[parent[c]], Msg("OVER", c))
     \/ ~UseOut /\ InOf[parent[c]] = NoThread /\ Pop(t)
  /\ UNCHANGED <<tableVars, connVars, add, qconns, openFds, quitting, call>>

(* conn_shut_handler: on to the outdaemon, else to the iodaemon, else QUIT *)
(* on the queue of the connection.                                         *)
HandleShut(t) ==
  LET c == Head(mq[t]).conn IN
  /\ Dispatches(t, "SHUT")
  /\ \/ UseOut /\ PopAndPush(t, Out, Msg("SHUTOUT", c))
     \/ /\ ~UseOut
        /\ InOf[parent[c]] # NoThread
        /\ PopAndPush(t, InOf[parent[c]], Msg("OVER", c))
     \/ /\ ~UseOut
        /\ InOf[parent[c]] = NoThread
        /\ PopAndPush(t, parent[c], Msg("QUIT", c))
  /\ UNCHANGED <<tableVars, connVars, add, qconns, openFds, quitting, call>>

(* Variants of conn_shutout_handler: without event_destroy, and without    *)
(* the message to the iodaemon.                                            *)
HandleShutoutNoDestroy(t) ==
  LET c == Head(mq[t]).conn IN
  /\ Dispatches(t, "SHUTOUT")
  /\ PopAndPush(t, InOf[parent[c]], Msg("OVER", c))
  /\ UNCHANGED <<tableVars, connVars, add, qconns, openFds, quitting, call>>

HandleShutoutNoOver(t) ==
  /\ Dispatches(t, "SHUTOUT")
  /\ events' = [events EXCEPT ![Head(mq[t]).conn] = @ \ {"out"}]
  /\ Pop(t)
  /\ UNCHANGED <<tableVars, place, fd, dstate, parent, life, late, add, qconns,
                 openFds, quitting, call>>

(* conn_shutout_handler; an outdaemon runs only next to iodaemons.         *)
HandleShutout(t) ==
  LET c == Head(mq[t]).conn IN
  /\ Dispatches(t, "SHUTOUT")
  /\ events' = [events EXCEPT ![c] = @ \ {"out"}]
  /\ PopAndPush(t, InOf[parent[c]], Msg("OVER", c))
  /\ UNCHANGED <<tableVars, place, fd, dstate, parent, life, late, add, qconns,
                 openFds, quitting, call>>

(* procthread_over_connection with service_overconn.                       *)
HandleOver(t) ==
  LET c == Head(mq[t]).conn IN
  /\ Dispatches(t, "OVER")
  /\ events' = [events EXCEPT ![c] = @ \ {"in"}]
  /\ PopAndPush(t, Daemon, Msg("QUIT", c))
  /\ UNCHANGED <<tableVars, place, fd, dstate, parent, life, late, add, qconns,
                 openFds, quitting, call>>

(* Variant: terminate_connection without service_popconn.                  *)
HandleQuitNoPop(t) ==
  LET c == Head(mq[t]).conn IN
  /\ Dispatches(t, "QUIT")
  /\ Pop(t)
  /\ place' = [place EXCEPT ![c] = "popped"]
  /\ quitting' = [quitting EXCEPT ![t] = c]
  /\ UNCHANGED <<tableVars, fd, dstate, parent, events, life, late, add, qconns,
                 openFds, call>>

(* procthread_terminate_connection, first part: service_popconn.           *)
HandleQuit(t) ==
  LET c == Head(mq[t]).conn IN
  /\ Dispatches(t, "QUIT")
  /\ PopConn(c)
  /\ Pop(t)
  /\ place' = [place EXCEPT ![c] = "popped"]
  /\ quitting' = [quitting EXCEPT ![t] = c]
  /\ UNCHANGED <<fd, dstate, parent, events, life, late, add, qconns, openFds,
                 call>>

(* conn_terminate up to close(conn->fd).                                   *)
CloseFd(t) ==
  LET c == quitting[t] IN
  /\ c # NoConn
  /\ place[c] = "popped"
  /\ dstate' = [dstate EXCEPT ![c] = "close"]
  /\ openFds' = openFds \ {fd[c]}
  /\ place' = [place EXCEPT ![c] = "closed"]
  /\ UNCHANGED <<tableVars, fd, parent, events, life, late, add, qconns, mq,
                 quitting, call>>

(* Variants of ResetConn: a reset that leaves conn->fd alone, and one that *)
(* leaves d_state alone.                                                   *)
ResetKeepsFd(t) ==
  LET c == quitting[t] IN
  /\ c # NoConn
  /\ place[c] = "closed"
  /\ ForgetIndex(c)
  /\ dstate' = [dstate EXCEPT ![c] = "free"]
  /\ place' = [place EXCEPT ![c] = "reset"]
  /\ UNCHANGED <<fd, parent, events, life, late, add, qconns, openFds, mq,
                 quitting, call>>

ResetKeepsState(t) ==
  LET c == quitting[t] IN
  /\ c # NoConn
  /\ place[c] = "closed"
  /\ ForgetIndex(c)
  /\ fd' = [fd EXCEPT ![c] = 0]
  /\ place' = [place EXCEPT ![c] = "reset"]
  /\ UNCHANGED <<dstate, parent, events, life, late, add, qconns, openFds, mq,
                 quitting, call>>

(* The end of conn_terminate and the first stores of conn_reset.  fd is -1 *)
(* before d_state is cleared, so no conn_shut gets between them.           *)
ResetConn(t) ==
  LET c == quitting[t] IN
  /\ c # NoConn
  /\ place[c] = "closed"
  /\ ForgetIndex(c)
  /\ fd' = [fd EXCEPT ![c] = 0]
  /\ dstate' = [dstate EXCEPT ![c] = "free"]
  /\ place' = [place EXCEPT ![c] = "reset"]
  /\ UNCHANGED <<parent, events, life, late, add, qconns, openFds, mq, quitting,
                 call>>

(* The rest of conn_reset, which clears message_queue and parent, and      *)
(* service_pushtoq, which frees the connection when qconns is full.        *)
Recycle(t) ==
  LET c == quitting[t] IN
  /\ c # NoConn
  /\ place[c] = "reset"
  /\ parent' = [parent EXCEPT ![c] = NoThread]
  /\ \/ /\ Len(qconns) < PoolMax
        /\ qconns' = Append(qconns, c)
        /\ place' = [place EXCEPT ![c] = "pool"]
     \/ /\ Len(qconns) >= PoolMax
        /\ UNCHANGED qconns
        /\ place' = [place EXCEPT ![c] = "heap"]
  /\ quitting' = [quitting EXCEPT ![t] = NoConn]
  /\ UNCHANGED <<tableVars, fd, dstate, events, life, late, add, openFds, mq,
                 call>>

(* A message whose index or descriptor no longer fits is dropped.          *)
DropMessage(t) ==
  /\ Ready(t)
  /\ ~Accepts(Head(mq[t]))
  /\ Pop(t)
  /\ UNCHANGED <<tableVars, connVars, add, qconns, openFds, quitting, call>>

(* Any other message; what its handler does to the session is not modelled *)
(* here, and a handler that closes the connection is a call of a user.     *)
HandleWork(t) ==
  /\ Dispatches(t, "WORK") \/ Dispatches(t, "TRANSACTION")
  /\ Pop(t)
  /\ UNCHANGED <<tableVars, connVars, add, qconns, openFds, quitting, call>>

-----------------------------------------------------------------------------
Handle(t) ==
  \/ HandleNewSession(t)
  \/ RegisterConn(t)
  \/ SetConn(t)
  \/ HandleShut(t)
  \/ HandleShutout(t)
  \/ HandleOver(t)
  \/ HandleQuit(t)
  \/ CloseFd(t)
  \/ ResetConn(t)
  \/ Recycle(t)
  \/ DropMessage(t)
  \/ HandleWork(t)

(* The rest of service_addconn after AddConn.                              *)
FinishAdding(a) ==
  \/ AnnounceConn(a)
  \/ BindConn(a)
  \/ RegisterConn(a)
  \/ SetConn(a)

Next ==
  \/ \E a \in Adders, c \in Conns, f \in Fds, next \in {"bind", "announce"} :
       AddConn(a, c, f, next)
  \/ \E a \in Adders : FinishAdding(a)
  \/ \E u \in Users, c \in Conns, op \in {"close", "work"} : BeginCall(u, c, op)
  \/ \E u \in Users : FinishClose(u)
  \/ \E u \in Users : FinishWork(u)
  \/ \E c \in Conns : NewTransaction(c)
  \/ \E t \in Threads : Handle(t)

Spec == Init /\ [][Next]_vars

(* Every thread of the service runs procthread_run until the service is    *)
(* stopped, and a thread in service_addconn finishes it.                   *)
Fairness ==
  /\ \A t \in Threads : WF_vars(Handle(t))
  /\ \A a \in Adders : WF_vars(FinishAdding(a))

FairSpec == Spec /\ Fairness

-----------------------------------------------------------------------------
(* Properties.                                                             *)

(* The removal messages of c: positions in queues.                         *)
RemovalAt(c, t, i) ==
  /\ i \in 1 .. Len(mq[t])
  /\ mq[t][i].conn = c
  /\ mq[t][i].op \in PipelineOps

Removing(c) == \E t \in Threads : \E i \in 1 .. Len(mq[t]) : RemovalAt(c, t, i)

(* At most one removal of a connection is under way: conn_shut pushes SHUT *)
(* once per life however many threads close the connection, and every      *)
(* handler passes the removal on exactly once.  A second QUIT would pop,   *)
(* close and recycle somebody else's connection.                           *)
OneRemoval ==
  /\ \A c \in Conns, t, s \in Threads :
       \A i \in 1 .. Len(mq[t]), j \in 1 .. Len(mq[s]) :
         RemovalAt(c, t, i) /\ RemovalAt(c, s, j) => t = s /\ i = j
  /\ \A t, s \in Threads :
       quitting[t] # NoConn /\ quitting[t] = quitting[s] => t = s
  /\ \A t \in Threads : quitting[t] # NoConn => ~Removing(quitting[t])

(* A removal message is always about the life that was shut: the           *)
(* connection is in use, bound and closing, the descriptor in the message  *)
(* is its own and the index, where there is one, is that of an entry that  *)
(* holds it, so qmessage_handler never drops a removal and the terminated  *)
(* connection is the one somebody closed -- also when it was closed before *)
(* service_pushconn, so that the message carries index -1.                 *)
RemovalIsCurrent ==
  \A t \in Threads : \A i \in 1 .. Len(mq[t]) :
    mq[t][i].op \in PipelineOps =>
      LET m == mq[t][i] IN
      /\ place[m.conn] = "used" /\ dstate[m.conn] = "close"
      /\ parent[m.conn] # NoThread
      /\ Accepts(m)
      /\ m.life = life[m.conn]

(* A connection in qconns is there once, is reset, and nothing of its last *)
(* life is still to come: no removal, no thread that terminates it, no     *)
(* addition that has yet to bind it.  (The table may hold it: a            *)
(* service_pushconn that comes after the removal enters what it finds.)    *)
PoolIsIdle ==
  /\ \A i, j \in 1 .. Len(qconns) : qconns[i] = qconns[j] => i = j
  /\ \A c \in Conns :
       place[c] = "pool" <=> \E i \in 1 .. Len(qconns) : qconns[i] = c
  /\ \A c \in Conns : place[c] = "pool" =>
       /\ fd[c] = 0 /\ dstate[c] = "free" /\ parent[c] = NoThread
       /\ ~Removing(c)
       /\ \A t \in Threads : quitting[t] # c
       /\ \A a \in Adders : add[a].conn = c => add[a].at \in {"push", "set"}
       /\ \A t \in Threads : \A i \in 1 .. Len(mq[t]) :
            mq[t][i].conn = c => mq[t][i].op # "NEW_SESSION"

(* An open descriptor belongs to exactly one connection, and a connection  *)
(* that carries a descriptor carries an open one until it closed it.  With *)
(* two owners the close() of one would hit the connection of the other.    *)
FdHasOneOwner ==
  /\ \A f \in openFds : \E c \in Conns : fd[c] = f /\ place[c] # "closed"
  /\ \A c, d \in Conns :
       /\ fd[c] > 0 /\ place[c] # "closed"
       => /\ fd[c] \in openFds
          /\ fd[d] = fd[c] /\ place[d] # "closed" => d = c

(* index_max bounds the entries, running_connections counts them, and the *)
(* index a connection carries is that of an entry that holds it, from      *)
(* service_pushconn to the service_popconn of its removal.                 *)
IndexNamesEntry ==
  \A c \in Conns :
    index[c] # -1 /\ place[c] \notin {"popped", "closed"}
    => connections[index[c]] = c

TableFits == IndexNamesEntry /\ IndexMaxBounds /\ RunningCounts

(* An entry of the table holds a connection in use whose index it is:      *)
(* whoever finds one there finds a registered one that still has its       *)
(* descriptor.  Only a service_pushconn that comes when the connection was *)
(* removed meanwhile, or is registered again, leaves another entry.        *)
TableHoldsUsed ==
  \A i \in Indexes :
    LET c == connections[i] IN
    c # NoConn /\ c \notin late
    => place[c] = "used" /\ fd[c] > 0 /\ index[c] = i

(* close(fd) comes last: no step closes a descriptor whose connection is   *)
(* not closing, is still in the table, or is registered with an evbase     *)
(* (WORKING_THREAD mode, where SHUTOUT and OVER destroy the events), unless *)
(* service_pushconn or conn_set of the thread that added it came late.     *)
FdClosedLast ==
  [][\A f \in openFds \ openFds' : \E c \in Conns :
        /\ fd[c] = f
        /\ dstate[c] = "close"
        /\ c \notin late =>
             ~InTable(c) /\ (InOf[parent[c]] # NoThread => events[c] = {})]_vars

(* A removal that was started ends: the connection goes back to qconns or  *)
(* is freed.                                                               *)
RemovalEnds == \A c \in Conns : Removing(c) ~> place[c] \in {"pool", "heap"}

(* What conn_close promises: a connection somebody closed does not stay.   *)
ClosedIsRemoved ==
  \A c \in Conns : dstate[c] = "close" ~> place[c] \in {"pool", "heap"}
=============================================================================
