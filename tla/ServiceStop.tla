----------------------------- MODULE ServiceStop -----------------------------
(***************************************************************************)
(* service_stop while the service is at work (WORKING_THREAD mode): it     *)
(* locks the service, stops and joins the acceptor, closes every           *)
(* registered connection, and then stops and joins the other threads one   *)
(* after the other.  Meanwhile threads are still starting, connections are *)
(* being added and removals travel through the queues.  From the moment a  *)
(* thread is locked it frees the connections it terminates, where it       *)
(* pushed them back to qconns before.                                      *)
(*                                                                         *)
(* Taken from other modules: a thread that has a message or is told to end *)
(* wakes up (Wakeup), a removal is one message that passes through the     *)
(* queues (ConnLife).  Every life of a connection has a descriptor of its  *)
(* own, so the life stands for the descriptor in a message.                *)
(***************************************************************************)
EXTENDS Integers, Sequences, FiniteSets

CONSTANTS
  Conns, NoConn,
  Users,      (* threads of the application                                *)
  NProc,      (* service->nprocthreads                                     *)
  OutModes,   (* the values of SB_USE_OUTDAEMON                            *)
  Late,       (* kinds of threads that may start after service_stop did    *)
  PoolMax,    (* SB_QCONN_MAX                                              *)
  MaxCalls    (* bound: calls that add a connection or push a message      *)

ASSUME StopAssumption ==
  /\ IsFiniteSet(Conns) /\ NoConn \notin Conns
  /\ NProc \in Nat \ {0} /\ PoolMax \in Nat /\ MaxCalls \in Nat
  /\ OutModes \subseteq BOOLEAN

VARIABLES
  useOut,   (* SB_USE_OUTDAEMON                                            *)
  lock,     (* service->lock                                               *)
  stage,    (* where service_stop is: its phase and the thread it is at    *)
  toClose,  (* entries its loop over connections[] has still to close      *)
  table,    (* the connections in connections[]                            *)
  place,    (* in qconns, with a descriptor, freed by conn_clean; spilled: *)
            (* freed because qconns was full                               *)
  dstate,   (* conn->d_state                                               *)
  parent,   (* conn->parent, and with it message_queue                     *)
  life,     (* history: how often the connection was taken from qconns     *)
  at,       (* where a thread is in procthread_run                         *)
  run,      (* pth->running_status                                         *)
  plock,    (* pth->lock                                                   *)
  mq,       (* pth->message_queue                                          *)
  task,     (* what a thread is in the middle of                           *)
  calls     (* bound: what MaxCalls counts                                 *)

connVars == <<table, place, dstate, parent, life>>
threadVars == <<at, run, plock>>
vars == <<useOut, lock, stage, toClose, connVars, threadVars, mq, task, calls>>

Acceptor == <<"acceptor", 1>>
Io == <<"io", 1>>
Out == <<"out", 1>>
Daemon == <<"daemon", 1>>
Tracker == <<"tracker", 1>>
ProcThreads == {<<"proc", i>> : i \in 1 .. NProc}
NoThread == <<"none", 0>>
Threads == {Acceptor, Io, Out, Daemon, Tracker} \cup ProcThreads
Actors == Threads \cup Users

ASSUME UsersAssumption == Users \cap Threads = {}

(* The order in which service_stop stops and joins the threads.            *)
StopOrder ==
  <<Acceptor, Io>> \o (IF useOut THEN <<Out>> ELSE <<>>)
    \o [i \in 1 .. NProc |-> <<"proc", i>>] \o <<Daemon, Tracker>>

Ops == {"NEW_SESSION", "SHUT", "SHUTOUT", "OVER", "QUIT", "WORK"}
RemovalOps == {"SHUT", "SHUTOUT", "OVER", "QUIT"}
Message == [op : Ops, conn : Conns, life : Nat]
             \cup [op : {"STOP"}, conn : {NoConn}, life : {0}]

NoTask == [op |-> "none", conn |-> NoConn, passed |-> FALSE]

TypeOK ==
  /\ useOut \in OutModes /\ lock \in BOOLEAN
  /\ stage \in ({"stop", "join"} \X (1 .. Len(StopOrder)))
                 \cup {<<"running", 0>>, <<"close", 1>>, <<"done", 0>>}
  /\ toClose \subseteq Conns /\ table \subseteq Conns
  /\ place \in [Conns -> {"pool", "open", "freed", "spilled"}]
  /\ dstate \in [Conns -> {"free", "close"}]
  /\ parent \in [Conns -> ProcThreads \cup {NoThread}]
  /\ life \in [Conns -> 0 .. MaxCalls + 1]
  /\ at \in [Threads -> {"starting", "loop", "last", "ended"}]
  /\ run \in [Threads -> BOOLEAN] /\ plock \in [Threads -> BOOLEAN]
  /\ mq \in [Threads -> Seq(Message)]
  /\ task \in [Actors -> [op : {"none", "take", "give", "push", "quit"},
                          conn : Conns \cup {NoConn}, passed : BOOLEAN]]
  /\ calls \in 0 .. MaxCalls

(* A service with some registered connections, the others in qconns.  The  *)
(* threads of the kinds in Late have been created but have not got to      *)
(* procthread_run.                                                         *)
Init ==
  /\ useOut \in OutModes
  /\ lock = FALSE /\ stage = <<"running", 0>> /\ toClose = {} /\ calls = 0
  /\ \E S \in SUBSET Conns, p \in ProcThreads :
       /\ Cardinality(Conns \ S) <= PoolMax
       /\ table = S
       /\ place = [c \in Conns |-> IF c \in S THEN "open" ELSE "pool"]
       /\ parent = [c \in Conns |-> IF c \in S THEN p ELSE NoThread]
       /\ life = [c \in Conns |-> IF c \in S THEN 1 ELSE 0]
  /\ dstate = [c \in Conns |-> "free"]
  /\ at \in [Threads -> {"starting", "loop"}]
  /\ \A t \in Threads : at[t] = "starting" => t[1] \in Late
  /\ run = [t \in Threads |-> at[t] = "loop"]
  /\ plock = [t \in Threads |-> FALSE]
  /\ mq = [t \in Threads |-> <<>>]
  /\ task = [x \in Actors |-> NoTask]

Msg(op, c) == [op |-> op, conn |-> c, life |-> life[c]]
Stop == [op |-> "STOP", conn |-> NoConn, life |-> 0]
Push(t, m) == mq' = [mq EXCEPT ![t] = Append(@, m)]

-----------------------------------------------------------------------------
(* The loop of a thread.  Users push without a look at the state of the    *)
(* thread, and so do the other threads.                                    *)

Start(t) ==
  /\ at[t] = "starting"
  /\ at' = [at EXCEPT ![t] = "loop"]
  /\ run' = [run EXCEPT ![t] = TRUE]
  /\ UNCHANGED <<useOut, lock, stage, toClose, connVars, plock, mq, task, calls>>

(* while(running_status).  The thread may still have messages: it looks at *)
(* its queue once more.                                                    *)
LeaveLoop(t) ==
  /\ at[t] = "loop" /\ ~run[t] /\ task[t] = NoTask
  /\ at' = [at EXCEPT ![t] = "last"]
  /\ UNCHANGED <<useOut, lock, stage, toClose, connVars, run, plock, mq, task, calls>>

(* The queue is empty after the loop, or qmessage_pop returned NULL.       *)
End(t) ==
  /\ at[t] = "last" /\ mq[t] = <<>> /\ task[t] = NoTask
  /\ at' = [at EXCEPT ![t] = "ended"]
  /\ UNCHANGED <<useOut, lock, stage, toClose, connVars, run, plock, mq, task, calls>>

(* Thread t pops its first message, one of this kind; the acceptor calls   *)
(* accept in its loop and handles messages only after it.                  *)
Pops(t, op) ==
  /\ at[t] = "last" \/ (at[t] = "loop" /\ t # Acceptor)
  /\ task[t] = NoTask
  /\ mq[t] # <<>> /\ Head(mq[t]).op = op

(* msg->fd == conn->fd.  A message about a connection is pushed before its *)
(* removal passes through the same queue, so none is ever dropped here:    *)
(* one that were would block its queue for good, and StopEnds would fail.  *)
Accepts(m) == place[m.conn] = "open" /\ m.life = life[m.conn]

Dispatches(t, op) == Pops(t, op) /\ Accepts(Head(mq[t]))

Pop(t) == mq' = [mq EXCEPT ![t] = Tail(@)]
PassOn(t, s, op) ==
  mq' = [mq EXCEPT ![t] = Tail(@), ![s] = Append(@, Msg(op, Head(mq[t]).conn))]

(* procthread_terminate                                                    *)
HandleStop(t) ==
  /\ Pops(t, "STOP")
  /\ Pop(t)
  /\ run' = [run EXCEPT ![t] = FALSE]
  /\ plock' = [plock EXCEPT ![t] = TRUE]
  /\ UNCHANGED <<useOut, lock, stage, toClose, connVars, at, task, calls>>

-----------------------------------------------------------------------------
(* Adding a connection.  service->lock is tested at the beginning of       *)
(* service_addconn, and by service_pushconn before it takes the mutex.     *)

Adders == Users \cup {Acceptor}

BeginAdd(x) ==
  /\ x = Acceptor => at[x] = "loop"
  /\ task[x] = NoTask /\ ~lock
  /\ calls < MaxCalls /\ calls' = calls + 1
  /\ task' = [task EXCEPT ![x].op = "take"]
  /\ UNCHANGED <<useOut, lock, stage, toClose, connVars, threadVars, mq>>

(* service_popfromq; the call returns when there is no CONN left.          *)
TakeConn(x) ==
  /\ task[x].op = "take"
  /\ \/ \E c \in Conns :
          /\ place[c] = "pool"
          /\ place' = [place EXCEPT ![c] = "open"]
          /\ life' = [life EXCEPT ![c] = @ + 1]
          /\ task' = [task EXCEPT ![x] = [NoTask EXCEPT !.op = "give", !.conn = c]]
     \/ /\ \A c \in Conns : place[c] # "pool"
        /\ task' = [task EXCEPT ![x] = NoTask]
        /\ UNCHANGED <<place, life>>
  /\ UNCHANGED <<useOut, lock, stage, toClose, table, dstate, parent, threadVars,
                 mq, calls>>

(* procthread_add_connection up to the test in service_pushconn.           *)
BindConn(x, c, p) ==
  /\ parent' = [parent EXCEPT ![c] = p]
  /\ task' = [task EXCEPT ![x] = [op |-> "push", conn |-> c, passed |-> ~lock]]

(* A connected CONN is bound by the caller, one that is still connecting   *)
(* is announced with procthread_addconn, unless the procthread is locked.  *)
GiveConn(x, p) ==
  LET c == task[x].conn IN
  /\ task[x].op = "give"
  /\ \/ BindConn(x, c, p) /\ UNCHANGED mq
     \/ /\ x # Acceptor
        /\ \/ ~plock[p] /\ Push(p, Msg("NEW_SESSION", c))
           \/ plock[p] /\ UNCHANGED mq
        /\ task' = [task EXCEPT ![x] = NoTask]
        /\ UNCHANGED parent
  /\ UNCHANGED <<useOut, lock, stage, toClose, table, place, dstate, life,
                 threadVars, calls>>

HandleNewSession(t) ==
  /\ Dispatches(t, "NEW_SESSION")
  /\ Pop(t)
  /\ BindConn(t, Head(mq[t]).conn, t)
  /\ UNCHANGED <<useOut, lock, stage, toClose, table, place, dstate, life,
                 threadVars, calls>>

(* service_pushconn with the mutex held, which service_stop holds while it *)
(* closes the connections.                                                 *)
PushConn(x) ==
  /\ task[x].op = "push"
  /\ \/ task[x].passed /\ stage[1] # "close" /\ table' = table \cup {task[x].conn}
     \/ ~task[x].passed /\ UNCHANGED table
  /\ task' = [task EXCEPT ![x] = NoTask]
  /\ UNCHANGED <<useOut, lock, stage, toClose, place, dstate, parent, life,
                 threadVars, mq, calls>>

-----------------------------------------------------------------------------
(* Closing and removing a connection.                                      *)

(* Variant of Shut without the test of d_state.                            *)
ShutAgain(c) ==
  /\ dstate' = [dstate EXCEPT ![c] = "close"]
  /\ \/ /\ place[c] = "open" /\ parent[c] # NoThread
        /\ Push(parent[c], Msg("SHUT", c))
     \/ ~(place[c] = "open" /\ parent[c] # NoThread) /\ UNCHANGED mq

(* conn_close: SHUT goes to the queue of the procthread, if there is one.  *)
Shut(c) ==
  \/ /\ place[c] = "open" /\ dstate[c] = "free"
     /\ dstate' = [dstate EXCEPT ![c] = "close"]
     /\ \/ parent[c] # NoThread /\ Push(parent[c], Msg("SHUT", c))
        \/ parent[c] = NoThread /\ UNCHANGED mq
  \/ ~(place[c] = "open" /\ dstate[c] = "free") /\ UNCHANGED <<dstate, mq>>

(* An open connection that handlers and the application know: nobody does  *)
(* while service_addconn is still at work on it.                           *)
Known(c) ==
  /\ place[c] = "open" /\ dstate[c] = "free" /\ parent[c] # NoThread
  /\ \A x \in Adders : task[x].conn # c

(* A handler or a thread of the application closes a connection.           *)
Close(c) ==
  /\ Known(c)
  /\ Shut(c)
  /\ UNCHANGED <<useOut, lock, stage, toClose, table, place, parent, life,
                 threadVars, task, calls>>

(* Any other message about a connection that is not closing.               *)
PushWork(c, t) ==
  /\ calls < MaxCalls /\ calls' = calls + 1
  /\ Known(c)
  /\ t \in {parent[c], Io} \cup (IF useOut THEN {Out} ELSE {})
  /\ Push(t, Msg("WORK", c))
  /\ UNCHANGED <<useOut, lock, stage, toClose, connVars, threadVars, task>>

HandleWork(t) ==
  /\ Dispatches(t, "WORK")
  /\ Pop(t)
  /\ UNCHANGED <<useOut, lock, stage, toClose, connVars, threadVars, task, calls>>

(* conn_shut_handler, conn_shutout_handler and over_connection.            *)
HandleRemoval(t) ==
  /\ \/ Dispatches(t, "SHUT") /\ useOut /\ PassOn(t, Out, "SHUTOUT")
     \/ Dispatches(t, "SHUT") /\ ~useOut /\ PassOn(t, Io, "OVER")
     \/ Dispatches(t, "SHUTOUT") /\ PassOn(t, Io, "OVER")
     \/ Dispatches(t, "OVER") /\ PassOn(t, Daemon, "QUIT")
  /\ UNCHANGED <<useOut, lock, stage, toClose, connVars, threadVars, task, calls>>

(* procthread_terminate_connection up to the test in service_popconn.      *)
HandleQuit(t) ==
  /\ Dispatches(t, "QUIT")
  /\ Pop(t)
  /\ task' = [task EXCEPT ![t] = [op |-> "quit", conn |-> Head(mq[t]).conn,
                                  passed |-> ~lock]]
  /\ UNCHANGED <<useOut, lock, stage, toClose, connVars, threadVars, calls>>

Pool == {c \in Conns : place[c] = "pool"}

(* Where a terminated connection goes: to qconns, or it is freed because   *)
(* qconns is full or because the thread is locked.                         *)
Recycle(t, c) ==
  \/ /\ ~plock[t] /\ Cardinality(Pool) < PoolMax
     /\ place' = [place EXCEPT ![c] = "pool"]
     /\ dstate' = [dstate EXCEPT ![c] = "free"]
     /\ parent' = [parent EXCEPT ![c] = NoThread]
  \/ /\ ~plock[t] /\ Cardinality(Pool) >= PoolMax
     /\ place' = [place EXCEPT ![c] = "spilled"]
     /\ UNCHANGED <<dstate, parent>>
  \/ /\ plock[t]
     /\ place' = [place EXCEPT ![c] = "freed"]
     /\ UNCHANGED <<dstate, parent>>

(* Variant: frees the connection as soon as the service is locked.         *)
FinishQuitFrees(t) ==
  LET c == task[t].conn IN
  /\ task[t].op = "quit"
  /\ \/ task[t].passed /\ stage[1] # "close" /\ table' = table \ {c}
     \/ ~task[t].passed /\ UNCHANGED table
  /\ \/ lock /\ place' = [place EXCEPT ![c] = "freed"] /\ UNCHANGED <<dstate, parent>>
     \/ ~lock /\ Recycle(t, c)
  /\ task' = [task EXCEPT ![t] = NoTask]
  /\ UNCHANGED <<useOut, lock, stage, toClose, life, threadVars, mq, calls>>

(* The rest of service_popconn, conn_terminate and what follows it.        *)
FinishQuit(t) ==
  LET c == task[t].conn IN
  /\ task[t].op = "quit"
  /\ \/ task[t].passed /\ stage[1] # "close" /\ table' = table \ {c}
     \/ ~task[t].passed /\ UNCHANGED table
  /\ Recycle(t, c)
  /\ task' = [task EXCEPT ![t] = NoTask]
  /\ UNCHANGED <<useOut, lock, stage, toClose, life, threadVars, mq, calls>>

-----------------------------------------------------------------------------
(* service_stop.                                                           *)

BeginStop ==
  /\ stage = <<"running", 0>>
  /\ lock' = TRUE
  /\ stage' = <<"stop", 1>>
  /\ UNCHANGED <<useOut, toClose, connVars, threadVars, mq, task, calls>>

(* Variant of StopThread: no STOP message.                                 *)
StopThreadSilently ==
  LET t == StopOrder[stage[2]] IN
  /\ stage[1] = "stop"
  /\ plock' = [plock EXCEPT ![t] = TRUE]
  /\ run' = [run EXCEPT ![t] = FALSE]
  /\ stage' = <<"join", stage[2]>>
  /\ UNCHANGED <<useOut, lock, toClose, connVars, at, mq, task, calls>>

(* procthread_stop                                                         *)
StopThread ==
  LET t == StopOrder[stage[2]] IN
  /\ stage[1] = "stop"
  /\ plock' = [plock EXCEPT ![t] = TRUE]
  /\ run' = [run EXCEPT ![t] = FALSE]
  /\ Push(t, Stop)
  /\ stage' = <<"join", stage[2]>>
  /\ UNCHANGED <<useOut, lock, toClose, connVars, at, task, calls>>

(* What follows the end of a thread; Past is a variant that goes one too   *)
(* far.                                                                    *)
Past(k) == IF k > Len(StopOrder) THEN <<"done", 0>> ELSE <<"stop", k + 1>>
Following(k) == IF k = Len(StopOrder) THEN <<"done", 0>> ELSE <<"stop", k + 1>>

(* pthread_join; after the acceptor the connections are closed.            *)
Join ==
  /\ stage[1] = "join"
  /\ at[StopOrder[stage[2]]] = "ended"
  /\ \/ /\ StopOrder[stage[2]] = Acceptor
        /\ stage' = <<"close", 1>>
        /\ toClose' = table
     \/ /\ StopOrder[stage[2]] # Acceptor
        /\ stage' = Following(stage[2])
        /\ UNCHANGED toClose
  /\ UNCHANGED <<useOut, lock, connVars, threadVars, mq, task, calls>>

(* The loop over connections[].  An entry that has been freed is passed    *)
(* over; what the program reads there is undefined.                        *)
CloseEntries ==
  /\ stage[1] = "close"
  /\ \/ \E c \in toClose : Shut(c) /\ toClose' = toClose \ {c} /\ UNCHANGED stage
     \/ /\ toClose = {}
        /\ stage' = Following(stage[2])
        /\ UNCHANGED <<toClose, dstate, mq>>
  /\ UNCHANGED <<useOut, lock, table, place, parent, life, threadVars, task, calls>>

Stopping == StopThread \/ Join \/ CloseEntries

Running(t) ==
  \/ Start(t)
  \/ LeaveLoop(t)
  \/ End(t)
  \/ HandleStop(t)
  \/ HandleNewSession(t)
  \/ HandleWork(t)
  \/ HandleRemoval(t)
  \/ HandleQuit(t)
  \/ FinishQuit(t)

Adding(x) ==
  \/ TakeConn(x)
  \/ \E p \in ProcThreads : GiveConn(x, p)
  \/ PushConn(x)

Next ==
  \/ BeginStop
  \/ Stopping
  \/ \E t \in Threads : Running(t)
  \/ \E x \in Adders : BeginAdd(x)
  \/ \E x \in Actors : Adding(x)
  \/ \E c \in Conns : Close(c)
  \/ \E c \in Conns, t \in Threads : PushWork(c, t)

(* The threads are scheduled, service_stop goes on once it was called, and *)
(* the acceptor gives up adding connections when accept fails.             *)
Fairness ==
  /\ WF_vars(Stopping)
  /\ \A t \in Threads : WF_vars(Running(t)) /\ WF_vars(Adding(t))
  /\ WF_vars(LeaveLoop(Acceptor))

Spec == Init /\ [][Next]_vars /\ Fairness

-----------------------------------------------------------------------------
(* Properties.                                                             *)

(* When conn_clean frees a connection no thread of the service is at work  *)
(* on it or has a message about it, whether the thread is locked or qconns *)
(* is full.  service_popconn refuses to take the entry out of a locked     *)
(* service, so it is the order in which the threads are locked and joined  *)
(* that keeps the loop of service_stop over connections[] from finding one *)
(* that a locked thread has freed.  One that did not fit into qconns it    *)
(* does find; such a connection is therefore left out of the second part.  *)
FreedIsForgotten ==
  \A c \in Conns : place[c] \in {"freed", "spilled"} =>
    /\ \A t \in Threads :
         task[t].conn # c /\ \A i \in DOMAIN mq[t] : mq[t][i].conn # c
    /\ place[c] = "freed" /\ c \in table =>
         stage[1] \in {"stop", "join", "done"} /\ stage[2] # 1

(* The loop of service_stop, the application and the handlers close the    *)
(* same connections, and a connection that is terminated in a locked       *)
(* service keeps its entry: there is one removal at a time all the same.   *)
RemovalIsOnce ==
  \A c \in Conns, s, t \in Threads :
    \A i \in DOMAIN mq[s], j \in DOMAIN mq[t] :
      /\ mq[s][i].op \in RemovalOps /\ mq[s][i].conn = c
      /\ mq[t][j].op \in RemovalOps /\ mq[t][j].conn = c
      => s = t /\ i = j

(* service_stop returns: every thread it joins ends, also one that sets    *)
(* running_status only after procthread_stop has cleared it and pushed     *)
(* STOP (between these two, with SB_USE_COND, see missed in Wakeup).       *)
StopEnds == stage[1] # "running" ~> stage[1] = "done"
=============================================================================
