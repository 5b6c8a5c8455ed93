------------------------------- MODULE EvTimer -------------------------------
(***************************************************************************)
(* The event timer (evtimer.c) and the timeouts of connections.  Armed     *)
(* nodes form a doubly linked list sorted by evusec; free nodes form a     *)
(* list through next.  evtimer_check moves expired nodes out of the list   *)
(* under the mutex and calls their handlers after it has released it; an   *)
(* expired node stays on, belonging to neither list, until its connection  *)
(* renews or deletes it.  A connection keeps the number of its node in     *)
(* conn->evid.  The heartbeat of a service is a timer too, added before    *)
(* any connection is (service_run) and renewed by its own handler.         *)
(***************************************************************************)
EXTENDS Integers, FiniteSets, Sequences, Functions

CONSTANTS
  Nodes,      (* EVTNODE_MAX - 1: the nodes are 1 .. Nodes                 *)
  Conns,      (* connections with the same evtimer                         *)
  Service,    (* the service, whose heartbeat uses the same evtimer        *)
  NoConn,     (* a NULL arg                                                *)
  Timeouts,   (* values of conn->timeout, in ticks of the clock            *)
  Heartbeat,  (* service->heartbeat_interval                               *)
  MaxTime     (* bound: where the clock stops                              *)

Ids == 1 .. Nodes
Owners == Conns \cup {Service}

ASSUME TimerAssumption ==
  /\ Nodes \in Nat \ {0}
  /\ Service \notin Conns /\ NoConn \notin Owners
  /\ Timeouts \subseteq Nat \ {0}
  /\ Heartbeat \in Nat \ {0}
  /\ MaxTime \in Nat

VARIABLES
  list,       (* head, tail, next and prev; 0 is NULL                      *)
  left,       (* evtimer->left                                             *)
  ison,       (* node->ison                                                *)
  arg,        (* node->arg, the connection that conn_evtimer_handler gets  *)
  evusec,     (* node->evusec                                              *)
  collected,  (* timeouts[i .. ntimeout-1], whose handlers are still to run *)
  looked,     (* the first of them has passed the test before the call     *)
  now,        (* the time of day                                           *)
  state,      (* of a connection: idle (in qconns), open, closing          *)
  evid,       (* conn->evid, service->evid                                 *)
  call,       (* timeout of a set_timeout that passed CONN_CHECK, or 0     *)
  messages    (* TIMEOUT messages of a connection in its queue             *)

nodeVars == <<list, left, ison, arg, evusec>>
checkVars == <<collected, looked>>
connVars == <<state, evid, call, messages>>
vars == <<nodeVars, checkVars, now, connVars>>

Lists == [head : 0 .. Nodes, tail : 0 .. Nodes,
          next : [Ids -> 0 .. Nodes], prev : [Ids -> 0 .. Nodes]]

(* Every variable keeps its type; in particular evid is the number of a    *)
(* node or -1, never a plain 0.                                            *)
TypeOK ==
  /\ list \in Lists
  /\ left \in 0 .. Nodes
  /\ ison \in [Ids -> BOOLEAN]
  /\ arg \in [Ids -> Owners \cup {NoConn}]
  /\ evusec \in [Ids -> Nat]
  /\ collected \in Seq(Ids)
  /\ looked \in BOOLEAN
  /\ now \in Nat
  /\ state \in [Conns -> {"idle", "open", "closing"}]
  /\ evid \in [Owners -> Ids \cup {-1}]
  /\ call \in [Conns -> Timeouts \cup {0}]
  /\ messages \in [Conns -> Nat]

(* evtimer_init pushes the nodes 1, 2, ... to left, and service_run takes  *)
(* the last one for the heartbeat.                                         *)
Init ==
  /\ list = [head |-> Nodes, tail |-> Nodes,
             next |-> [i \in Ids |-> IF i = Nodes THEN 0 ELSE i - 1],
             prev |-> [i \in Ids |-> 0]]
  /\ left = Nodes - 1
  /\ ison = [i \in Ids |-> i = Nodes]
  /\ arg = [i \in Ids |-> IF i = Nodes THEN Service ELSE NoConn]
  /\ evusec = [i \in Ids |-> IF i = Nodes THEN Heartbeat ELSE 0]
  /\ collected = <<>>
  /\ looked = FALSE
  /\ now = 0
  /\ state = [c \in Conns |-> "idle"]
  /\ evid = [o \in Owners |-> IF o = Service THEN Nodes ELSE -1]
  /\ call = [c \in Conns |-> 0]
  /\ messages = [c \in Conns |-> 0]

-----------------------------------------------------------------------------
(* The list.                                                               *)

(* The k-th node after i on a list, 0 past its end.                        *)
Walk(link, i) ==
  LET w[k \in 0 .. Nodes] ==
        IF k = 0 THEN i
        ELSE LET j == w[k - 1] IN IF j = 0 THEN 0 ELSE link[j]
  IN w

(* The nodes from i on, in the order of the links.                         *)
Chain(link, i) ==
  LET w == Walk(link, i)
      length == Cardinality({k \in 0 .. Nodes : w[k] # 0})
  IN [k \in 1 .. length |-> w[k - 1]]

Armed == Chain(list.next, list.head)
Free == Chain(list.next, left)

InList(i) == i \in Range(Armed)

(* Taking node i out, in evtimer_update and evtimer_delete; nothing        *)
(* happens to the list when i is expired.                                  *)
Unlink(l, i) ==
  [head |-> IF i = l.head THEN l.next[i] ELSE l.head,
   tail |-> IF i = l.tail THEN l.prev[i] ELSE l.tail,
   next |-> [j \in Ids |-> IF j = l.prev[i] THEN l.next[i] ELSE l.next[j]],
   prev |-> [j \in Ids |-> IF j = l.next[i] THEN l.prev[i] ELSE l.prev[j]]]

(* Between the neighbours p and n, either of which may be 0.               *)
Link(l, p, i, n) ==
  [head |-> IF p = 0 THEN i ELSE l.head,
   tail |-> IF n = 0 THEN i ELSE l.tail,
   next |-> [j \in Ids |-> IF j = i THEN n ELSE IF j = p THEN i ELSE l.next[j]],
   prev |-> [j \in Ids |-> IF j = i THEN p ELSE IF j = n THEN i ELSE l.prev[j]]]

(* Variant of Push that walks from tail instead of tail->prev but links    *)
(* in front of the node it found.                                          *)
PushInFront(l, i, due) ==
  LET w == Walk(l.prev, l.tail)
      k == CHOOSE m \in 0 .. Nodes :
             /\ w[m] = 0 \/ due[w[m]] <= due[i]
             /\ \A n \in 0 .. m - 1 : due[w[n]] > due[i]
  IN IF l.head = 0 THEN Link(l, 0, i, 0)
     ELSE IF w[k] = 0 THEN Link(l, 0, i, l.head)
     ELSE Link(l, l.prev[w[k]], i, w[k])

(* evtimer_push: behind the last node that is not due later; due has the   *)
(* new evusec of i.                                                        *)
Push(l, i, due) ==
  LET w == Walk(l.prev, l.tail)
      k == CHOOSE m \in 0 .. Nodes :
             /\ w[m] = 0 \/ due[w[m]] <= due[i]
             /\ \A n \in 0 .. m - 1 : due[w[n]] > due[i]
  IN IF l.head = 0 THEN Link(l, 0, i, 0)
     ELSE IF w[k] = 0 THEN Link(l, 0, i, l.head)
     ELSE Link(l, w[k], i, l.next[w[k]])

-----------------------------------------------------------------------------
(* The operations on nodes, each under evtimer->mutex.                     *)

(* evtimer_add and the assignment of its result to conn->evid; without a   *)
(* free node the connection gets -1 and no timeout.                        *)
Add(c, timeout) ==
  \/ /\ left # 0
     /\ evusec' = [evusec EXCEPT ![left] = now + timeout]
     /\ list' = Push(list, left, evusec')
     /\ left' = list.next[left]
     /\ ison' = [ison EXCEPT ![left] = TRUE]
     /\ arg' = [arg EXCEPT ![left] = c]
     /\ evid' = [evid EXCEPT ![c] = left]
  \/ left = 0 /\ UNCHANGED <<nodeVars, evid>>

(* evtimer_update, which does nothing to a node that is off.               *)
Update(c, timeout) ==
  LET i == evid[c] IN
  \/ /\ ison[i]
     /\ evusec' = [evusec EXCEPT ![i] = now + timeout]
     /\ list' = Push(Unlink(list, i), i, evusec')
     /\ arg' = [arg EXCEPT ![i] = c]
     /\ UNCHANGED <<left, ison, evid>>
  \/ ~ison[i] /\ UNCHANGED <<nodeVars, evid>>

(* Variant of Delete that leaves the node in the list.                     *)
DeleteLinked(i) ==
  \/ /\ i > 0 /\ ison[i]
     /\ ison' = [ison EXCEPT ![i] = FALSE]
     /\ arg' = [arg EXCEPT ![i] = NoConn]
     /\ evusec' = [evusec EXCEPT ![i] = 0]
     /\ list' = [list EXCEPT !.next[i] = left, !.prev[i] = 0]
     /\ left' = i
  \/ (i > 0 => ~ison[i]) /\ UNCHANGED nodeVars

(* evtimer_delete.                                                         *)
Delete(i) ==
  \/ /\ i > 0 /\ ison[i]
     /\ ison' = [ison EXCEPT ![i] = FALSE]
     /\ arg' = [arg EXCEPT ![i] = NoConn]
     /\ evusec' = [evusec EXCEPT ![i] = 0]
     /\ list' = [Unlink(list, i) EXCEPT !.next[i] = left, !.prev[i] = 0]
     /\ left' = i
  \/ (i > 0 => ~ison[i]) /\ UNCHANGED nodeVars

-----------------------------------------------------------------------------
(* Connections.  A connection belongs to one procthread, which runs all of *)
(* its operations but conn_shut; conn_shut may come from any thread, also  *)
(* between the CONN_CHECK of a set_timeout and its effect.                 *)

Busy(c) == call[c] # 0

Tick == now < MaxTime /\ now' = now + 1 /\ UNCHANGED <<nodeVars, checkVars, connVars>>

(* conn_set, with or without a session.timeout.                            *)
Open(c) ==
  /\ state[c] = "idle"
  /\ state' = [state EXCEPT ![c] = "open"]
  /\ \/ \E timeout \in Timeouts : Add(c, timeout)
     \/ evid' = [evid EXCEPT ![c] = -1] /\ UNCHANGED nodeVars
  /\ UNCHANGED <<checkVars, now, call, messages>>

(* conn_set_timeout and conn_wait_evtimeout: CONN_CHECK, then              *)
(* CONN_EVTIMER_SET.                                                       *)
BeginSet(c, timeout) ==
  /\ state[c] = "open" /\ ~Busy(c)
  /\ call' = [call EXCEPT ![c] = timeout]
  /\ UNCHANGED <<nodeVars, checkVars, now, state, evid, messages>>

FinishSet(c) ==
  /\ Busy(c)
  /\ call' = [call EXCEPT ![c] = 0]
  /\ \/ evid[c] >= 0 /\ Update(c, call[c])
     \/ evid[c] < 0 /\ Add(c, call[c])
  /\ UNCHANGED <<checkVars, now, state, messages>>

(* Variant of DropTimer that leaves evid 0.                                *)
DropTimerToZero(c) == Delete(evid[c]) /\ evid' = [evid EXCEPT ![c] = 0]

(* What conn_over_timeout does behind its CONN_CHECK.                      *)
DropTimer(c) == Delete(evid[c]) /\ evid' = [evid EXCEPT ![c] = -1]

OverTimeout(c) ==
  /\ state[c] = "open" /\ ~Busy(c)
  /\ DropTimer(c)
  /\ UNCHANGED <<checkVars, now, state, call, messages>>

(* conn_over_cstate, called for every connection that service_freeconn     *)
(* puts back: the timer is deleted and evid keeps its number.              *)
OverCstate(c) ==
  /\ state[c] = "open" /\ ~Busy(c)
  /\ Delete(evid[c])
  /\ UNCHANGED <<checkVars, now, connVars>>

(* conn_shut.                                                              *)
Shut(c) ==
  /\ state[c] = "open"
  /\ state' = [state EXCEPT ![c] = "closing"]
  /\ DropTimer(c)
  /\ UNCHANGED <<checkVars, now, call, messages>>

(* Variant of Terminate without its EVTIMER_DEL.                           *)
TerminateKeepsTimer(c) ==
  /\ state[c] = "closing" /\ ~Busy(c)
  /\ state' = [state EXCEPT ![c] = "idle"]
  /\ evid' = [evid EXCEPT ![c] = -1]
  /\ messages' = [messages EXCEPT ![c] = 0]
  /\ UNCHANGED <<nodeVars, checkVars, now, call>>

(* conn_terminate and conn_reset.  qmessage_handler drops the messages     *)
(* that are left, because they name a descriptor that is closed.           *)
Terminate(c) ==
  /\ state[c] = "closing" /\ ~Busy(c)
  /\ state' = [state EXCEPT ![c] = "idle"]
  /\ Delete(evid[c])
  /\ evid' = [evid EXCEPT ![c] = -1]
  /\ messages' = [messages EXCEPT ![c] = 0]
  /\ UNCHANGED <<checkVars, now, call>>

(* conn_timeout_handler: a connection that waits drops its timer, one with *)
(* a timeout_handler keeps it, any other is shut.                          *)
HandleTimeout(c) ==
  /\ messages[c] > 0 /\ ~Busy(c)
  /\ messages' = [messages EXCEPT ![c] = @ - 1]
  /\ \/ state[c] = "open" /\ evid[c] >= 0 /\ DropTimer(c)
        /\ \/ UNCHANGED state
           \/ state' = [state EXCEPT ![c] = "closing"]
     \/ UNCHANGED <<nodeVars, state, evid>>
  /\ UNCHANGED <<checkVars, now, call>>

-----------------------------------------------------------------------------
(* evtimer_check, in one thread: the tracker of a service, or the main     *)
(* loop of sbase.                                                          *)

(* Variant of Collect that leaves the links of the nodes it takes.         *)
CollectKeepsLinks ==
  LET nodes == Armed
      n == Cardinality({k \in 1 .. Len(nodes) : evusec[nodes[k]] < now})
      head == IF n < Len(nodes) THEN nodes[n + 1] ELSE 0
  IN /\ collected = <<>> /\ n > 0
     /\ collected' = SubSeq(nodes, 1, n)
     /\ list' = [list EXCEPT !.head = head, !.tail = IF head = 0 THEN 0 ELSE @,
                            !.prev = [i \in Ids |-> IF i = head THEN 0 ELSE @[i]]]
     /\ UNCHANGED <<left, ison, arg, evusec, looked, now, connVars>>

(* The nodes that are due leave the list, in its order.                    *)
Collect ==
  LET nodes == Armed
      n == Cardinality({k \in 1 .. Len(nodes) : evusec[nodes[k]] < now})
      out == {nodes[k] : k \in 1 .. n}
      head == IF n < Len(nodes) THEN nodes[n + 1] ELSE 0
  IN /\ collected = <<>> /\ n > 0
     /\ collected' = SubSeq(nodes, 1, n)
     /\ list' = [head |-> head,
                 tail |-> IF head = 0 THEN 0 ELSE list.tail,
                 next |-> [i \in Ids |-> IF i \in out THEN 0 ELSE list.next[i]],
                 prev |-> [i \in Ids |-> IF i \in out \cup {head} THEN 0
                                        ELSE list.prev[i]]]
     /\ UNCHANGED <<left, ison, arg, evusec, looked, now, connVars>>

(* The test before a call, without the mutex.                              *)
Unlinked(i) == list.next[i] = 0 /\ list.prev[i] = 0

Look ==
  /\ collected # <<>> /\ ~looked
  /\ LET i == Head(collected) IN
     \/ Unlinked(i) /\ ison[i] /\ looked' = TRUE /\ UNCHANGED collected
     \/ ~(Unlinked(i) /\ ison[i]) /\ collected' = Tail(collected) /\ UNCHANGED looked
  /\ UNCHANGED <<nodeVars, now, connVars>>

(* Variant of Beat that does not renew the timer.                          *)
BeatOnce ==
  /\ looked /\ arg[Head(collected)] = Service
  /\ looked' = FALSE
  /\ collected' = Tail(collected)
  /\ UNCHANGED <<nodeVars, evid, now, state, call, messages>>

(* handler(node->arg) of the heartbeat: service_evtimer_handler, which     *)
(* renews the timer.                                                       *)
Beat ==
  /\ looked /\ arg[Head(collected)] = Service
  /\ looked' = FALSE
  /\ collected' = Tail(collected)
  /\ Update(Service, Heartbeat)
  /\ UNCHANGED <<now, state, call, messages>>

(* handler(node->arg) of a connection, with the arg of now:                *)
(* conn_evtimer_handler.                                                   *)
Fire ==
  /\ looked /\ arg[Head(collected)] # Service
  /\ looked' = FALSE
  /\ collected' = Tail(collected)
  /\ messages' = [c \in Conns |->
       IF c = arg[Head(collected)] /\ state[c] = "open"
       THEN messages[c] + 1 ELSE messages[c]]
  /\ UNCHANGED <<nodeVars, now, state, evid, call>>

Check == Collect \/ Look \/ Beat \/ Fire

Next ==
  \/ Tick
  \/ Check
  \/ \E c \in Conns :
       \/ Open(c)
       \/ \E timeout \in Timeouts : BeginSet(c, timeout)
       \/ FinishSet(c)
       \/ OverTimeout(c)
       \/ OverCstate(c)
       \/ Shut(c)
       \/ Terminate(c)
       \/ HandleTimeout(c)

(* The loops around EVTIMER_CHECK never stop while the service runs.       *)
Spec == Init /\ [][Next]_vars /\ WF_vars(Check)

-----------------------------------------------------------------------------
(* The armed nodes are linked both ways and sorted, so that evtimer_check  *)
(* may stop at the first node that is not due.                             *)
ListIsSorted ==
  LET nodes == Armed IN
  /\ nodes = <<>> <=> list.tail = 0
  /\ nodes # <<>> => /\ list.tail = nodes[Len(nodes)]
                     /\ list.prev[list.head] = 0
  /\ \A k \in 2 .. Len(nodes) :
       /\ list.prev[nodes[k]] = nodes[k - 1]
       /\ evusec[nodes[k - 1]] <= evusec[nodes[k]]

(* A node is free, in the list, or expired and linked to nothing, whatever *)
(* the connections do with expired and reused numbers: no node is lost or  *)
(* handed out twice.                                                       *)
NodesAccounted ==
  LET free == Free
      armed == Range(Armed)
  IN /\ Range(free) = {i \in Ids : ~ison[i]} /\ Len(free) = Cardinality(Range(free))
     /\ \A i \in armed : ison[i]
     /\ \A i \in Ids \ armed : ison[i] => Unlinked(i)

(* A timer that is on belongs to the service or to a connection in use,    *)
(* which knows its number: no timer outlives its connection, even when a   *)
(* set_timeout overlaps a conn_shut (EVTIMER_DEL in conn_terminate).       *)
TimersAreHeld ==
  \A i \in Ids : ison[i] => /\ arg[i] \in Owners
                            /\ arg[i] # Service => state[arg[i]] # "idle"
                            /\ evid[arg[i]] = i

(* The heartbeat of the service goes on: its timer is in the list or among *)
(* the nodes whose handlers are still to run, whatever stale numbers the   *)
(* connections use.                                                        *)
HeartbeatGoesOn ==
  /\ arg[evid[Service]] = Service
  /\ InList(evid[Service]) \/ evid[Service] \in Range(collected)

(* A connection whose timer is due gets a TIMEOUT message, unless the      *)
(* timer is renewed or deleted or the connection closed before.            *)
TimeoutArrives ==
  \A i \in Ids : \A c \in Conns :
    (InList(i) /\ evusec[i] < now /\ arg[i] = c)
      ~> (messages[c] > 0 \/ arg[i] # c \/ evusec[i] >= now \/ state[c] # "open")

(* set_timeout sets the timeout of its own connection: a timer that is on  *)
(* never passes from one connection to another.                            *)
TimerKeepsItsConn ==
  [][\A i \in Ids : ison[i] /\ ison'[i] => arg'[i] = arg[i]]_vars
=============================================================================
