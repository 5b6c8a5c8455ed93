-------------------------- MODULE ServiceStopProofs --------------------------
(***************************************************************************)
(* Proofs about ServiceStop, for any number of connections, procthreads    *)
(* and threads of the application.  The invariant follows the messages     *)
(* about a connection through the queues: its removal comes after every    *)
(* other message about it, so that nothing names the connection any more   *)
(* when QUIT has been taken.                                               *)
(***************************************************************************)
EXTENDS ServiceStop, SequenceTheorems, FiniteSetTheorems, TLAPS

-----------------------------------------------------------------------------
(* The inductive invariant.                                                *)

(* The position of a thread in the removal of a connection.                *)
Rank(t) == IF t \in ProcThreads THEN 1 ELSE IF t = Out THEN 2
           ELSE IF t = Io THEN 3 ELSE IF t = Daemon THEN 4 ELSE 0

(* Where a message about a connection may be, and what it says of it.      *)
Fits(t, c, op) ==
  /\ place[c] = "open"
  /\ op = "NEW_SESSION" => t \in ProcThreads /\ parent[c] = NoThread
  /\ op # "NEW_SESSION" => parent[c] \in ProcThreads
  /\ op = "WORK" => t \in {parent[c], Io, Out} /\ (t = Out => useOut)
  /\ op = "SHUT" => t = parent[c]
  /\ op = "SHUTOUT" => t = Out
  /\ op = "OVER" => t = Io
  /\ op = "QUIT" => t = Daemon
  /\ op \in RemovalOps => dstate[c] = "close"

About(t, i, c) == mq[t][i].conn = c
Removes(t, i) == mq[t][i].op \in RemovalOps

MessagesFit ==
  \A c \in Conns, t \in Threads : \A i \in 1 .. Len(mq[t]) :
    About(t, i, c) => Fits(t, c, mq[t][i].op)

(* A removal is the last message about its connection: the others are      *)
(* before it in its queue, or in a queue that it has still to pass.        *)
RemovalIsLast ==
  \A c \in Conns, s, t \in Threads : \A i \in 1 .. Len(mq[t]), j \in 1 .. Len(mq[s]) :
    About(t, i, c) /\ Removes(t, i) /\ About(s, j, c) =>
      (s = t /\ j <= i) \/ Rank(s) > Rank(t)

(* A connection that is announced has no other message.                    *)
NewIsAlone ==
  \A c \in Conns, s, t \in Threads : \A i \in 1 .. Len(mq[t]), j \in 1 .. Len(mq[s]) :
    About(t, i, c) /\ mq[t][i].op = "NEW_SESSION" /\ About(s, j, c) => s = t /\ i = j

Relay == MessagesFit /\ RemovalIsLast /\ NewIsAlone

(* No message is about c, or no removal of it is elsewhere than at x.      *)
Silent(c) == \A t \in Threads : \A i \in 1 .. Len(mq[t]) : ~About(t, i, c)
RemovedAt(x, c) ==
  \A t \in Threads : \A i \in 1 .. Len(mq[t]) : About(t, i, c) /\ Removes(t, i) => t = x

Quits(c) == task[Daemon].op = "quit" /\ task[Daemon].conn = c

(* What the task of x says of the connection it is about.  A thread of the *)
(* application may be delayed before it enters a connection in the table   *)
(* until that one has been closed.                                         *)
TaskFits(x) ==
  LET c == task[x].conn IN
  /\ task[x].op \in {"none", "take"} <=> c = NoConn
  /\ task[x].op \in {"take", "give"} => x \in Adders
  /\ task[x].op = "give" =>
       /\ place[c] = "open" /\ parent[c] = NoThread /\ Silent(c)
       /\ \A y \in Actors : task[y].op = "give" /\ task[y].conn = c => y = x
  /\ task[x].op = "push" => x \in Adders \cup ProcThreads
  /\ task[x].op = "push" /\ x \in ProcThreads =>
       place[c] = "open" /\ parent[c] = x /\ RemovedAt(x, c) /\ ~Quits(c)
  /\ task[x].op \in {"give", "push"} /\ x = Acceptor =>
       place[c] = "open" /\ dstate[c] = "free"
  /\ task[x].op = "push" /\ x = Acceptor => parent[c] # NoThread
  /\ task[x].op = "quit" =>
       /\ x = Daemon /\ place[c] = "open" /\ dstate[c] = "close"
       /\ parent[c] # NoThread /\ Silent(c)

TasksFit == \A x \in Actors : TaskFits(x)

PoolFits == \A c \in Conns : place[c] = "pool" => dstate[c] = "free" /\ parent[c] = NoThread

(* service_stop has been through the entries of connections[].             *)
PastClose == stage[1] = "done" \/ (stage[1] \in {"stop", "join"} /\ stage[2] > 1)

(* The daemon is told to end only after that, so it is then that it frees  *)
(* connections that would fit into qconns.                                 *)
StageFits ==
  /\ stage[1] = "close" \/ PastClose => at[Acceptor] = "ended"
  /\ \A t \in Threads : at[t] = "ended" => task[t] = NoTask
  /\ plock[Daemon] => PastClose
  /\ (\E i \in 1 .. Len(mq[Daemon]) : mq[Daemon][i].op = "STOP") => PastClose
  /\ \A c \in Conns : place[c] = "freed" => PastClose

(* Every connection that is taken from qconns was paid for with a call.    *)
Takers == {x \in Actors : task[x].op = "take"}
LifeBound ==
  IsFiniteSet(Takers) /\ \A c \in Conns : life[c] + Cardinality(Takers) <= calls + 1

IInv == TypeOK /\ Relay /\ TasksFit /\ PoolFits /\ StageFits /\ LifeBound

-----------------------------------------------------------------------------
(* Threads and the order in which they are stopped.                        *)

LEMMA ThreadNames ==
  /\ Acceptor \in Threads /\ Io \in Threads /\ Out \in Threads /\ Daemon \in Threads
  /\ ProcThreads \subseteq Threads /\ NoThread \notin Threads
  /\ \A p \in ProcThreads : p \notin {Acceptor, Io, Out, Daemon, NoThread}
  /\ Acceptor # Io /\ Acceptor # Out /\ Acceptor # Daemon
  /\ Io # Out /\ Io # Daemon /\ Out # Daemon
<1>1. \A p \in ProcThreads : p[1] = "proc"
  BY DEF ProcThreads
<1>2. /\ Acceptor[1] = "acceptor" /\ Io[1] = "io" /\ Out[1] = "out"
      /\ Daemon[1] = "daemon" /\ Tracker[1] = "tracker" /\ NoThread[1] = "none"
  BY DEF Acceptor, Io, Out, Daemon, Tracker, NoThread
<1> QED  BY <1>1, <1>2 DEF Threads

LEMMA Ranks ==
  /\ \A p \in ProcThreads : Rank(p) = 1
  /\ Rank(Out) = 2 /\ Rank(Io) = 3 /\ Rank(Daemon) = 4
  /\ \A t \in Threads : Rank(t) \in 0 .. 4
BY ThreadNames DEF Rank

(* The acceptor is stopped first, and only once.                           *)
LEMMA StopOrderIs ==
  ASSUME useOut \in BOOLEAN
  PROVE  /\ Len(StopOrder) \in Nat /\ Len(StopOrder) >= 2
         /\ StopOrder[1] = Acceptor
         /\ \A k \in 1 .. Len(StopOrder) : StopOrder[k] \in Threads
         /\ \A k \in 2 .. Len(StopOrder) : StopOrder[k] # Acceptor
<1> DEFINE outs == IF useOut THEN <<Out>> ELSE <<>>
           procs == [i \in 1 .. NProc |-> <<"proc", i>>]
           ends == <<Daemon, Tracker>>
           Others == Threads \ {Acceptor}
<1>1. Io \in Others /\ Out \in Others /\ Daemon \in Others /\ Tracker \in Others
  <2>1. Tracker[1] = "tracker" /\ Acceptor[1] = "acceptor"
    BY DEF Tracker, Acceptor
  <2> QED  BY <2>1, ThreadNames DEF Threads
<1>2. procs \in Seq(Others)
  <2>1. \A i \in 1 .. NProc : <<"proc", i>> \in ProcThreads
    BY DEF ProcThreads
  <2>2. \A i \in 1 .. NProc : <<"proc", i>> \in Others
    BY <2>1, ThreadNames
  <2> QED  BY <2>2, StopAssumption, SeqDef
<1>3. outs \in Seq(Others) /\ ends \in Seq(Others) /\ <<Acceptor, Io>> \in Seq(Threads)
  <2> HIDE DEF Others
  <2>1. outs \in Seq(Others)
    <3>1. CASE useOut
      <4>1. <<Out>> \in Seq(Others)
        BY <1>1
      <4> QED  BY <3>1, <4>1
    <3>2. CASE ~useOut
      <4>1. <<>> \in Seq(Others)
        OBVIOUS
      <4> QED  BY <3>2, <4>1
    <3> QED  BY <3>1, <3>2
  <2>2. ends \in Seq(Others)
    BY <1>1
  <2>3. <<Acceptor, Io>> \in Seq(Threads)
    BY ThreadNames
  <2> QED  BY <2>1, <2>2, <2>3
<1> DEFINE rest == (outs \o procs) \o ends
<1> HIDE DEF outs, procs, ends
<1>4. rest \in Seq(Others)
  BY <1>2, <1>3, ConcatProperties
<1>5. StopOrder = <<Acceptor, Io>> \o rest
  <2>1. StopOrder = ((<<Acceptor, Io>> \o outs) \o procs) \o ends
    BY DEF StopOrder, outs, procs, ends
  <2>2. /\ <<Acceptor, Io>> \in Seq(Threads) /\ outs \in Seq(Threads)
        /\ procs \in Seq(Threads) /\ ends \in Seq(Threads)
    BY <1>2, <1>3
  <2> QED  BY <2>1, <2>2, ConcatAssociative, ConcatProperties
<1> HIDE DEF rest
<1>6. Len(rest) \in Nat /\ \A k \in 1 .. Len(rest) : rest[k] \in Others
  BY <1>4, LenProperties, ElementOfSeq
<1> DEFINE first == <<Acceptor, Io>>
<1>7. first \in Seq(Threads) /\ Len(first) = 2 /\ first[1] = Acceptor /\ first[2] = Io
  BY <1>3
<1> HIDE DEF first
<1>8. /\ Len(StopOrder) = 2 + Len(rest)
      /\ \A k \in 1 .. Len(StopOrder) :
           StopOrder[k] = IF k <= 2 THEN first[k] ELSE rest[k - 2]
  <2>1. rest \in Seq(Threads)
    BY <1>4
  <2>2. StopOrder = first \o rest
    BY <1>5 DEF first
  <2>3. /\ Len(first \o rest) = Len(first) + Len(rest)
        /\ \A k \in 1 .. Len(first) + Len(rest) :
             (first \o rest)[k] = IF k <= Len(first) THEN first[k] ELSE rest[k - Len(first)]
    BY <1>7, <2>1, ConcatProperties
  <2> QED  BY <1>7, <2>2, <2>3
<1> HIDE DEF StopOrder
<1>9. \A k \in 1 .. Len(StopOrder) : k = 1 \/ k = 2 \/ (k > 2 /\ k - 2 \in 1 .. Len(rest))
  BY <1>6, <1>8
<1>10. \A k \in 2 .. Len(StopOrder) : StopOrder[k] \in Others
  BY <1>1, <1>6, <1>7, <1>8, <1>9
<1>11. StopOrder[1] = Acceptor
  BY <1>6, <1>7, <1>8
<1> QED  BY <1>6, <1>8, <1>10, <1>11, ThreadNames

-----------------------------------------------------------------------------
(* Queues.  Every step takes the first message from at most one queue and  *)
(* appends one to at most one other.                                       *)

(* Where the i-th message of a queue was before the queue of p was popped. *)
Src(p, q, i) == IF q = p THEN i + 1 ELSE i

QueueStep(p, s, m) ==
  /\ mq' \in [Threads -> Seq(Message)]
  /\ \A q \in Threads : \A i \in 1 .. Len(mq'[q]) :
       \/ /\ Src(p, q, i) \in 1 .. Len(mq[q])
          /\ mq'[q][i] = mq[q][Src(p, q, i)]
       \/ /\ q = s
          /\ Src(p, q, i) = Len(mq[q]) + 1
          /\ mq'[q][i] = m

LEMMA PushStep ==
  ASSUME TypeOK, NEW s \in Threads, NEW m \in Message, Push(s, m)
  PROVE  QueueStep(NoThread, s, m)
BY ThreadNames DEF TypeOK, Push, QueueStep, Src

LEMMA PopStep ==
  ASSUME TypeOK, NEW t \in Threads, mq[t] # <<>>, Pop(t)
  PROVE  QueueStep(t, NoThread, Stop)
BY ThreadNames DEF TypeOK, Pop, QueueStep, Src

LEMMA StillStep ==
  ASSUME TypeOK, UNCHANGED mq
  PROVE  QueueStep(NoThread, NoThread, Stop)
BY ThreadNames DEF TypeOK, QueueStep, Src

LEMMA PassOnStep ==
  ASSUME TypeOK, NEW t \in Threads, NEW s \in Threads \ {t}, NEW op, mq[t] # <<>>,
         Msg(op, Head(mq[t]).conn) \in Message, PassOn(t, s, op)
  PROVE  QueueStep(t, s, Msg(op, Head(mq[t]).conn))
<1> DEFINE m == Msg(op, Head(mq[t]).conn)
<1>1. mq' = [mq EXCEPT ![t] = Tail(@), ![s] = Append(@, m)]
  BY DEF PassOn
<1> HIDE DEF m
<1>2. m \in Message
  BY DEF m
<1>3. mq' \in [Threads -> Seq(Message)]
  <2>1. mq[t] \in Seq(Message) /\ mq[s] \in Seq(Message)
    BY DEF TypeOK
  <2>2. Tail(mq[t]) \in Seq(Message)
    BY <2>1
  <2>3. Append(mq[s], m) \in Seq(Message)
    BY <1>2, <2>1
  <2> QED  BY <1>1, <2>2, <2>3 DEF TypeOK
<1>4. ASSUME NEW q \in Threads, NEW i \in 1 .. Len(mq'[q])
      PROVE  \/ /\ Src(t, q, i) \in 1 .. Len(mq[q])
                /\ mq'[q][i] = mq[q][Src(t, q, i)]
             \/ /\ q = s
                /\ Src(t, q, i) = Len(mq[q]) + 1
                /\ mq'[q][i] = m
  <2>1. CASE q = t
    <3>1. mq'[q] = Tail(mq[q]) /\ mq[q] \in Seq(Message) /\ mq[q] # <<>>
      BY <1>1, <2>1 DEF TypeOK
    <3> QED  BY <2>1, <3>1 DEF Src
  <2>2. CASE q = s
    <3>1. mq'[q] = Append(mq[q], m) /\ mq[q] \in Seq(Message) /\ q # t
      BY <1>1, <2>2 DEF TypeOK
    <3>2. /\ Len(mq'[q]) = Len(mq[q]) + 1 /\ mq'[q][Len(mq[q]) + 1] = m
          /\ \A k \in 1 .. Len(mq[q]) : mq'[q][k] = mq[q][k]
      BY <1>2, <3>1, AppendProperties
    <3> QED  BY <2>2, <3>1, <3>2, LenProperties DEF Src
  <2>3. CASE q # t /\ q # s
    <3>1. mq'[q] = mq[q] /\ mq[q] \in Seq(Message)
      BY <1>1, <2>3 DEF TypeOK
    <3> QED  BY <2>3, <3>1 DEF Src
  <2> QED  BY <2>1, <2>2, <2>3
<1>5. QueueStep(t, s, m)
  BY <1>3, <1>4 DEF QueueStep
<1> QED  BY <1>5 DEF m

-----------------------------------------------------------------------------
(* The messages about connections.                                         *)

(* What the messages about c rely on does not change.                      *)
SameConn(c) ==
  /\ place'[c] = place[c] /\ parent'[c] = parent[c]
  /\ dstate[c] = "close" => dstate'[c] = "close"

(* What may still be in the queues when m is pushed to s.                  *)
MayFollow(p, s, m) ==
  \A q \in Threads : \A j \in 1 .. Len(mq[q]) :
    About(q, j, m.conn) =>
      \/ q = p /\ j = 1
      \/ /\ mq[q][j].op = "WORK" /\ m.op # "NEW_SESSION"
         /\ m.op \in RemovalOps => q = s \/ Rank(q) > Rank(s)

LEMMA RelayStep ==
  ASSUME TypeOK, Relay, UNCHANGED useOut,
         NEW p, NEW s, NEW m, QueueStep(p, s, m),
         \A c \in Conns : SameConn(c) \/ Silent(c)',
         m.conn \in Conns => Fits(s, m.conn, m.op)' /\ MayFollow(p, s, m)
  PROVE  Relay'
<1> DEFINE Old(q, i) == /\ Src(p, q, i) \in 1 .. Len(mq[q])
                        /\ mq'[q][i] = mq[q][Src(p, q, i)]
           New(q, i) == /\ q = s
                        /\ Src(p, q, i) = Len(mq[q]) + 1
                        /\ mq'[q][i] = m
<1>1. \A q \in Threads : \A i \in 1 .. Len(mq'[q]) : Old(q, i) \/ New(q, i)
  BY DEF QueueStep
<1>2. MessagesFit'
  <2> SUFFICES ASSUME NEW c \in Conns, NEW t \in Threads, NEW i \in 1 .. Len(mq'[t]),
                      mq'[t][i].conn = c
               PROVE  Fits(t, c, mq[t][i].op)'
    BY DEF MessagesFit, About
  <2>1. SameConn(c)
    BY DEF Silent, About
  <2>2. CASE Old(t, i)
    <3>1. Fits(t, c, mq'[t][i].op)
      BY <2>2 DEF Relay, MessagesFit, About
    <3> QED  BY <2>1, <3>1 DEF Fits, SameConn
  <2>3. CASE New(t, i)
    BY <2>3
  <2> QED  BY <1>1, <2>2, <2>3
<1>3. RemovalIsLast'
  <2> SUFFICES ASSUME NEW c \in Conns, NEW u \in Threads, NEW t \in Threads,
                      NEW i \in 1 .. Len(mq'[t]), NEW j \in 1 .. Len(mq'[u]),
                      mq'[t][i].conn = c, mq'[t][i].op \in RemovalOps, mq'[u][j].conn = c
               PROVE  (u = t /\ j <= i) \/ Rank(u) > Rank(t)
    BY DEF RemovalIsLast, About, Removes, Rank
  <2>1. i \in Nat /\ j \in Nat /\ i > 0 /\ j > 0
    BY DEF QueueStep
  <2>2. CASE Old(t, i) /\ Old(u, j)
    <3>1. (u = t /\ Src(p, u, j) <= Src(p, t, i)) \/ Rank(u) > Rank(t)
      BY <2>2 DEF Relay, RemovalIsLast, About, Removes
    <3> QED  BY <2>1, <3>1 DEF Src
  <2>3. CASE Old(t, i) /\ New(u, j)
    <3>1. t = p /\ Src(p, t, i) = 1
      BY <2>3 DEF MayFollow, About, RemovalOps
    <3> QED  BY <2>1, <3>1 DEF Src
  <2>4. CASE New(t, i) /\ Old(u, j)
    <3>1. (u = p /\ Src(p, u, j) = 1) \/ u = s \/ Rank(u) > Rank(s)
      BY <2>4 DEF MayFollow, About
    <3>2. CASE u = s
      <4>1. Src(p, u, j) <= Len(mq[u]) /\ Src(p, u, i) = Len(mq[u]) + 1
        BY <2>4, <3>2
      <4>2. Len(mq[u]) \in Nat
        BY LenProperties DEF TypeOK
      <4> QED  BY <2>1, <2>4, <3>2, <4>1, <4>2 DEF Src
    <3> QED  BY <2>1, <2>4, <3>1, <3>2 DEF Src
  <2>5. CASE New(t, i) /\ New(u, j)
    BY <2>1, <2>5 DEF Src
  <2> QED  BY <1>1, <2>2, <2>3, <2>4, <2>5
<1>4. NewIsAlone'
  <2> SUFFICES ASSUME NEW c \in Conns, NEW u \in Threads, NEW t \in Threads,
                      NEW i \in 1 .. Len(mq'[t]), NEW j \in 1 .. Len(mq'[u]),
                      mq'[t][i].conn = c, mq'[t][i].op = "NEW_SESSION", mq'[u][j].conn = c
               PROVE  u = t /\ i = j
    BY DEF NewIsAlone, About
  <2>1. i \in Nat /\ j \in Nat /\ i > 0 /\ j > 0
    BY DEF QueueStep
  <2>2. CASE Old(t, i) /\ Old(u, j)
    <3>1. u = t /\ Src(p, u, j) = Src(p, t, i)
      BY <2>2 DEF Relay, NewIsAlone, About
    <3> QED  BY <2>1, <3>1 DEF Src
  <2>3. CASE Old(t, i) /\ New(u, j)
    <3>1. t = p /\ Src(p, t, i) = 1
      BY <2>3 DEF MayFollow, About
    <3> QED  BY <2>1, <3>1 DEF Src
  <2>4. CASE New(t, i) /\ Old(u, j)
    <3>1. u = p /\ Src(p, u, j) = 1
      BY <2>4 DEF MayFollow, About
    <3> QED  BY <2>1, <3>1 DEF Src
  <2>5. CASE New(t, i) /\ New(u, j)
    BY <2>1, <2>5 DEF Src
  <2> QED  BY <1>1, <2>2, <2>3, <2>4, <2>5
<1> QED  BY <1>2, <1>3, <1>4 DEF Relay

(* A connection stays unmentioned unless a message about it is pushed, and *)
(* is so after the only message about it has been taken.                   *)
LEMMA SilentStep ==
  ASSUME TypeOK, NEW p, NEW s, NEW m, QueueStep(p, s, m), NEW c \in Conns, m.conn # c,
         \A q \in Threads : \A j \in 1 .. Len(mq[q]) : About(q, j, c) => q = p /\ j = 1
  PROVE  Silent(c)'
<1> SUFFICES ASSUME NEW t \in Threads, NEW i \in 1 .. Len(mq'[t]), mq'[t][i].conn = c
             PROVE  FALSE
  BY DEF Silent, About
<1>1. i \in Nat /\ i > 0
  BY DEF QueueStep
<1>2. Src(p, t, i) \in 1 .. Len(mq[t]) /\ mq'[t][i] = mq[t][Src(p, t, i)]
  BY DEF QueueStep
<1>3. t = p /\ Src(p, t, i) = 1
  BY <1>2 DEF About
<1> QED  BY <1>1, <1>3 DEF Src

(* What the first message of a queue says.                                 *)
LEMMA HeadFacts ==
  ASSUME TypeOK, Relay, NEW t \in Threads, NEW op \in Ops, Pops(t, op),
         NEW c, c = Head(mq[t]).conn
  PROVE  /\ mq[t] # <<>> /\ 1 \in 1 .. Len(mq[t])
         /\ Head(mq[t]) = mq[t][1] /\ About(t, 1, c) /\ mq[t][1].op = op
         /\ c \in Conns /\ Fits(t, c, op)
         /\ t \in Actors /\ task[t] = NoTask /\ at[t] \in {"loop", "last"}
<1>1. mq[t] \in Seq(Message) /\ mq[t] # <<>>
  BY DEF TypeOK, Pops
<1>2. 1 \in 1 .. Len(mq[t]) /\ Head(mq[t]) = mq[t][1] /\ mq[t][1] \in Message
  BY <1>1
<1>3. mq[t][1].op = op /\ op # "STOP"
  BY <1>2 DEF Pops, Ops
<1>4. c \in Conns
  BY <1>2, <1>3 DEF Message
<1>5. Fits(t, c, op)
  BY <1>2, <1>3, <1>4 DEF Relay, MessagesFit, About
<1> QED  BY <1>1, <1>2, <1>3, <1>4, <1>5 DEF Pops, About, Actors

(* A removal that is taken from its queue leaves only messages in the      *)
(* queues it has to pass, and a NEW_SESSION leaves none.                   *)
LEMMA BehindRemoval ==
  ASSUME TypeOK, Relay, NEW t \in Threads, NEW op \in RemovalOps, Pops(t, op),
         NEW c, c = Head(mq[t]).conn
  PROVE  \A q \in Threads : \A j \in 1 .. Len(mq[q]) :
           About(q, j, c) => \/ q = t /\ j = 1
                             \/ mq[q][j].op = "WORK" /\ Rank(q) > Rank(t)
<1>1. /\ 1 \in 1 .. Len(mq[t]) /\ About(t, 1, c) /\ mq[t][1].op = op /\ c \in Conns
  BY HeadFacts DEF RemovalOps, Ops
<1> SUFFICES ASSUME NEW q \in Threads, NEW j \in 1 .. Len(mq[q]), About(q, j, c),
                    ~(q = t /\ j = 1)
             PROVE  mq[q][j].op = "WORK" /\ Rank(q) > Rank(t)
  OBVIOUS
<1>2. Rank(q) > Rank(t)
  <2>1. (q = t /\ j <= 1) \/ Rank(q) > Rank(t)
    BY <1>1 DEF Relay, RemovalIsLast, Removes
  <2> QED  BY <2>1
<1>3. ~Removes(q, j)
  <2>1. Removes(q, j) => (t = q /\ 1 <= j) \/ Rank(t) > Rank(q)
    BY <1>1 DEF Relay, RemovalIsLast
  <2> QED  BY <1>2, <2>1, Ranks
<1>4. mq[q][j].op # "NEW_SESSION"
  BY <1>1 DEF Relay, NewIsAlone
<1>5. mq[q][j].op \in Ops
  <2>1. mq[q][j] \in Message
    BY ElementOfSeq DEF TypeOK
  <2> QED  BY <1>1, <2>1, StopAssumption DEF About, Message
<1> QED  BY <1>2, <1>3, <1>4, <1>5 DEF Removes, Ops, RemovalOps

-----------------------------------------------------------------------------
(* Tasks.                                                                  *)

(* A thread of the service, or whoever adds a connection, is at work on it.*)
AtWork(x, c) ==
  /\ task[x].conn = c
  /\ task[x].op \in {"give", "quit"} \/ (task[x].op = "push" /\ x \in Threads)

LEMMA TaskKept ==
  ASSUME TypeOK, TasksFit, NEW p, NEW s, NEW m, QueueStep(p, s, m),
         NEW x \in Actors, task'[x] = task[x], NEW c, c = task[x].conn,
         AtWork(x, c) =>
           /\ place'[c] = place[c] /\ parent'[c] = parent[c]
           /\ x \in {Acceptor, Daemon} => dstate'[c] = dstate[c]
           /\ x \in ProcThreads => (Quits(c)' => Quits(c))
           /\ m.conn = c => /\ task[x].op = "push"
                            /\ x \in ProcThreads /\ m.op \in RemovalOps => s = x
           /\ \A y \in Actors : task'[y].op = "give" /\ task'[y].conn = c =>
                task'[y] = task[y]
  PROVE  TaskFits(x)'
<1>0. TaskFits(x)
  BY DEF TasksFit
<1>1. task[x].op \in {"none", "take", "give", "push", "quit"}
  BY DEF TypeOK
<1>2. CASE task[x].op \in {"none", "take"}
  BY <1>0, <1>2 DEF TaskFits
<1>3. CASE task[x].op \in {"give", "quit"}
  <2>1. AtWork(x, c)
    BY <1>3 DEF AtWork
  <2>2. c \in Conns /\ Silent(c)
    BY <1>0, <1>3, StopAssumption DEF TaskFits, TypeOK
  <2>3. Silent(c)'
    BY <1>3, <2>1, <2>2, SilentStep DEF Silent
  <2>4. CASE task[x].op = "give"
    BY <1>0, <2>1, <2>2, <2>3, <2>4 DEF TaskFits
  <2>5. CASE task[x].op = "quit"
    BY <1>0, <2>1, <2>2, <2>3, <2>5 DEF TaskFits
  <2> QED  BY <1>3, <2>4, <2>5
<1>4. CASE task[x].op = "push"
  <2>1. CASE x \in ProcThreads
    <3>1. AtWork(x, c)
      BY <1>4, <2>1, ThreadNames DEF AtWork
    <3>2. RemovedAt(x, c)
      BY <1>0, <1>4, <2>1 DEF TaskFits
    <3>3. RemovedAt(x, c)'
      <4> SUFFICES ASSUME NEW t \in Threads, NEW i \in 1 .. Len(mq'[t]),
                          mq'[t][i].conn = c, mq'[t][i].op \in RemovalOps
                   PROVE  t = x
        BY DEF RemovedAt, About, Removes
      <4>1. CASE Src(p, t, i) \in 1 .. Len(mq[t]) /\ mq'[t][i] = mq[t][Src(p, t, i)]
        BY <3>2, <4>1 DEF RemovedAt, About, Removes
      <4>2. CASE t = s /\ mq'[t][i] = m
        BY <2>1, <3>1, <4>2
      <4> QED  BY <4>1, <4>2 DEF QueueStep
    <3> QED  BY <1>0, <1>4, <2>1, <3>1, <3>3, ThreadNames DEF TaskFits
  <2>2. CASE x = Acceptor
    <3>1. AtWork(x, c)
      BY <1>4, <2>2, ThreadNames DEF AtWork
    <3> QED  BY <1>0, <1>4, <2>2, <3>1, ThreadNames DEF TaskFits
  <2>3. CASE x \notin ProcThreads /\ x # Acceptor
    BY <1>0, <1>4, <2>3 DEF TaskFits
  <2> QED  BY <2>1, <2>2, <2>3
<1> QED  BY <1>1, <1>2, <1>3, <1>4

(* Who is at work on a connection that is announced, or whose removal is   *)
(* about to be handled?  Nobody.                                           *)
LEMMA NobodyAtWork ==
  ASSUME TypeOK, Relay, TasksFit, NEW t \in Threads,
         NEW op \in RemovalOps \cup {"NEW_SESSION"}, Pops(t, op),
         NEW c, c = Head(mq[t]).conn
  PROVE  \A x \in Actors : ~AtWork(x, c)
<1>1. op \in Ops
  BY DEF RemovalOps, Ops
<1>2. /\ 1 \in 1 .. Len(mq[t]) /\ About(t, 1, c) /\ mq[t][1].op = op
      /\ c \in Conns /\ Fits(t, c, op) /\ task[t] = NoTask
  BY <1>1, HeadFacts
<1>3. ~Silent(c)
  BY <1>2 DEF Silent
<1> SUFFICES ASSUME NEW x \in Actors, AtWork(x, c)
             PROVE  FALSE
  OBVIOUS
<1>4. TaskFits(x) /\ task[x].conn = c
  BY DEF TasksFit, AtWork
<1>5. task[x].op = "push" /\ x \in Threads
  BY <1>3, <1>4 DEF TaskFits, AtWork
<1>6. x # t
  BY <1>2, <1>5 DEF NoTask
<1>7. CASE x \in ProcThreads
  <2>1. parent[c] = x /\ RemovedAt(x, c)
    BY <1>4, <1>5, <1>7 DEF TaskFits
  <2>2. op = "NEW_SESSION"
    BY <1>2, <1>6, <2>1 DEF RemovedAt, Removes
  <2> QED  BY <1>2, <1>7, <2>1, <2>2, ThreadNames DEF Fits
<1>8. CASE x = Acceptor
  <2>1. dstate[c] = "free" /\ parent[c] # NoThread
    BY <1>4, <1>5, <1>8 DEF TaskFits
  <2> QED  BY <1>2, <2>1 DEF Fits
<1>9. x \in {Acceptor} \cup ProcThreads
  BY <1>4, <1>5, UsersAssumption DEF TaskFits, Adders
<1> QED  BY <1>7, <1>8, <1>9

-----------------------------------------------------------------------------
(* The parts of the invariant, where a step leaves most of them alone.     *)

LEMMA SameOrder ==
  ASSUME UNCHANGED useOut
  PROVE  StopOrder' = StopOrder
BY DEF StopOrder

LEMMA TypeStep ==
  ASSUME TypeOK, UNCHANGED <<useOut, stage>>, NEW p, NEW s, NEW m, QueueStep(p, s, m),
         lock' \in BOOLEAN, toClose' \subseteq Conns, table' \subseteq Conns,
         place' \in [Conns -> {"pool", "open", "freed", "spilled"}],
         dstate' \in [Conns -> {"free", "close"}],
         parent' \in [Conns -> ProcThreads \cup {NoThread}],
         life' \in [Conns -> 0 .. MaxCalls + 1],
         at' \in [Threads -> {"starting", "loop", "last", "ended"}],
         run' \in [Threads -> BOOLEAN], plock' \in [Threads -> BOOLEAN],
         task' \in [Actors -> [op : {"none", "take", "give", "push", "quit"},
                               conn : Conns \cup {NoConn}, passed : BOOLEAN]],
         calls' \in 0 .. MaxCalls
  PROVE  TypeOK'
BY SameOrder DEF TypeOK, QueueStep

LEMMA StageKept ==
  ASSUME TypeOK, StageFits, UNCHANGED stage,
         NEW p, NEW s, NEW m, QueueStep(p, s, m),
         plock'[Daemon] => plock[Daemon] \/ PastClose,
         s = Daemon /\ m.op = "STOP" => PastClose,
         \A t \in Threads : at[t] = "ended" => at'[t] = "ended" /\ task'[t] = task[t],
         \A t \in Threads : at'[t] = "ended" => at[t] = "ended" \/ task'[t] = NoTask,
         \A c \in Conns : place'[c] = "freed" => place[c] = "freed"
  PROVE  StageFits'
<1>1. PastClose' <=> PastClose
  BY DEF PastClose
<1>2. (\E i \in 1 .. Len(mq'[Daemon]) : mq'[Daemon][i].op = "STOP") => PastClose
  <2> SUFFICES ASSUME NEW i \in 1 .. Len(mq'[Daemon]), mq'[Daemon][i].op = "STOP"
               PROVE  PastClose
    OBVIOUS
  <2>1. CASE /\ Src(p, Daemon, i) \in 1 .. Len(mq[Daemon])
             /\ mq'[Daemon][i] = mq[Daemon][Src(p, Daemon, i)]
    BY <2>1 DEF StageFits
  <2>2. CASE Daemon = s /\ mq'[Daemon][i] = m
    BY <2>2
  <2> QED  BY <2>1, <2>2, ThreadNames DEF QueueStep
<1>3. (stage'[1] = "close" \/ PastClose) => at'[Acceptor] = "ended"
  BY ThreadNames DEF StageFits
<1>4. \A t \in Threads : at'[t] = "ended" => task'[t] = NoTask
  BY DEF StageFits
<1> QED  BY <1>1, <1>2, <1>3, <1>4 DEF StageFits

LEMMA LifeKept ==
  ASSUME TypeOK, LifeBound, UNCHANGED life, calls' \in Nat, calls' >= calls,
         \A x \in Actors : task'[x].op = "take" <=> task[x].op = "take"
  PROVE  LifeBound'
<1>1. Takers' = Takers
  BY DEF Takers
<1>2. Cardinality(Takers) \in Nat
  BY FS_CardinalityType DEF LifeBound
<1>3. \A c \in Conns : life[c] + Cardinality(Takers) <= calls' + 1
  <2> SUFFICES ASSUME NEW c \in Conns PROVE life[c] + Cardinality(Takers) <= calls' + 1
    OBVIOUS
  <2>1. life[c] \in Nat /\ calls \in Nat
    BY StopAssumption DEF TypeOK
  <2>2. life[c] + Cardinality(Takers) <= calls + 1
    BY DEF LifeBound
  <2> QED  BY <1>2, <2>1, <2>2
<1> QED  BY <1>1, <1>3 DEF LifeBound

(* A step that leaves connections and tasks alone, and pushes a message    *)
(* only if it fits.                                                        *)
LEMMA ConnsKept ==
  ASSUME TypeOK, Relay, TasksFit, PoolFits, UNCHANGED <<useOut, place, dstate, parent, task>>,
         NEW p, NEW s, NEW m, QueueStep(p, s, m),
         m.conn \in Conns =>
           /\ Fits(s, m.conn, m.op)' /\ MayFollow(p, s, m)
           /\ \A x \in Actors : AtWork(x, m.conn) =>
                /\ task[x].op = "push"
                /\ x \in ProcThreads /\ m.op \in RemovalOps => s = x
  PROVE  Relay' /\ TasksFit' /\ PoolFits'
<1>1. Relay'
  <2>1. \A c \in Conns : SameConn(c)
    BY DEF SameConn
  <2> QED  BY <2>1, RelayStep
<1>2. TasksFit'
  <2> SUFFICES ASSUME NEW x \in Actors
               PROVE  TaskFits(x)'
    BY DEF TasksFit
  <2> DEFINE c == task[x].conn
  <2>1. AtWork(x, c) => c \in Conns
    BY StopAssumption DEF AtWork, TasksFit, TaskFits, TypeOK
  <2> QED  BY <2>1, TaskKept DEF Quits
<1> QED  BY <1>1, <1>2 DEF PoolFits

LEMMA MessageTypes ==
  ASSUME TypeOK
  PROVE  /\ \A op \in Ops, c \in Conns : Msg(op, c) \in Message
         /\ Stop \in Message /\ Stop.op = "STOP" /\ Stop.conn \notin Conns
<1>1. \A c \in Conns : life[c] \in Nat
  BY StopAssumption DEF TypeOK
<1> QED  BY <1>1, StopAssumption DEF Msg, Stop, Message

-----------------------------------------------------------------------------
(* The loop of a thread.                                                   *)

LEMMA LoopKeeps ==
  ASSUME IInv, NEW t \in Threads, Start(t) \/ LeaveLoop(t) \/ End(t)
  PROVE  IInv'
<1> USE DEF IInv
<1>1. /\ UNCHANGED <<useOut, lock, stage, toClose, table, place, dstate, parent, life>>
      /\ UNCHANGED <<plock, mq, task, calls>>
      /\ at' \in [Threads -> {"starting", "loop", "last", "ended"}]
      /\ run' \in [Threads -> BOOLEAN]
  BY DEF Start, LeaveLoop, End, TypeOK, connVars
<1>2. QueueStep(NoThread, NoThread, Stop) /\ Stop.conn \notin Conns
  BY <1>1, StillStep, MessageTypes
<1>3. TypeOK'
  BY <1>1, <1>2, TypeStep DEF TypeOK
<1>4. Relay' /\ TasksFit' /\ PoolFits'
  BY <1>1, <1>2, ConnsKept
<1>5. StageFits'
  <2>1. /\ \A u \in Threads : at[u] = "ended" => at'[u] = "ended"
        /\ \A u \in Threads : at'[u] = "ended" => at[u] = "ended" \/ task'[u] = NoTask
    BY <1>1 DEF Start, LeaveLoop, End, TypeOK
  <2> QED  BY <1>1, <1>2, <2>1, ThreadNames, StageKept
<1>6. LifeBound'
  BY <1>1, LifeKept DEF TypeOK
<1> QED  BY <1>3, <1>4, <1>5, <1>6

LEMMA HandleStopKeeps ==
  ASSUME IInv, NEW t \in Threads, HandleStop(t)
  PROVE  IInv'
<1> USE DEF IInv
<1>1. /\ UNCHANGED <<useOut, lock, stage, toClose, table, place, dstate, parent, life>>
      /\ UNCHANGED <<at, task, calls>>
      /\ run' \in [Threads -> BOOLEAN] /\ plock' \in [Threads -> BOOLEAN]
      /\ plock' = [plock EXCEPT ![t] = TRUE]
      /\ Pop(t) /\ mq[t] # <<>> /\ Head(mq[t]).op = "STOP"
  BY DEF HandleStop, Pops, TypeOK, connVars
<1>2. QueueStep(t, NoThread, Stop) /\ Stop.conn \notin Conns
  BY <1>1, PopStep, MessageTypes
<1>3. TypeOK'
  BY <1>1, <1>2, TypeStep DEF TypeOK
<1>4. Relay' /\ TasksFit' /\ PoolFits'
  BY <1>1, <1>2, ConnsKept
<1>5. plock'[Daemon] => plock[Daemon] \/ PastClose
  <2>1. CASE t = Daemon
    <3>1. 1 \in 1 .. Len(mq[t]) /\ mq[t][1].op = "STOP"
      BY <1>1 DEF TypeOK
    <3> QED  BY <2>1, <3>1 DEF StageFits
  <2>2. CASE t # Daemon
    BY <1>1, <2>2, ThreadNames DEF TypeOK
  <2> QED  BY <2>1, <2>2
<1>6. StageFits'
  BY <1>1, <1>2, <1>5, ThreadNames, StageKept
<1>7. LifeBound'
  BY <1>1, LifeKept DEF TypeOK
<1> QED  BY <1>3, <1>4, <1>6, <1>7

-----------------------------------------------------------------------------
(* Closing and removing.                                                   *)

LEMMA HandleWorkKeeps ==
  ASSUME IInv, NEW t \in Threads, HandleWork(t)
  PROVE  IInv'
<1> USE DEF IInv
<1>1. /\ UNCHANGED <<useOut, lock, stage, toClose, table, place, dstate, parent, life>>
      /\ UNCHANGED <<at, run, plock, task, calls>>
      /\ Pop(t) /\ mq[t] # <<>>
  BY DEF HandleWork, Dispatches, Pops, connVars, threadVars
<1>2. QueueStep(t, NoThread, Stop) /\ Stop.conn \notin Conns
  BY <1>1, PopStep, MessageTypes
<1>3. TypeOK'
  BY <1>1, <1>2, TypeStep DEF TypeOK
<1>4. Relay' /\ TasksFit' /\ PoolFits'
  BY <1>1, <1>2, ConnsKept
<1>5. StageFits'
  BY <1>1, <1>2, ThreadNames, StageKept
<1>6. LifeBound'
  BY <1>1, LifeKept DEF TypeOK
<1> QED  BY <1>3, <1>4, <1>5, <1>6

(* The removal goes on to the queue of a thread of higher rank, where the  *)
(* messages about the connection are that are left.                        *)
LEMMA PassOnKeeps ==
  ASSUME IInv, NEW t \in Threads, NEW op \in RemovalOps, Pops(t, op),
         NEW s \in {Out, Io, Daemon}, NEW next \in RemovalOps, PassOn(t, s, next),
         Rank(s) > Rank(t), next = "SHUTOUT" <=> s = Out, next = "OVER" <=> s = Io,
         next = "QUIT" <=> s = Daemon, s = Io => Rank(t) = 2 \/ ~useOut,
         s = Daemon => Rank(t) = 3,
         UNCHANGED <<useOut, lock, stage, toClose, connVars, threadVars, task, calls>>
  PROVE  IInv'
<1> USE DEF IInv
<1>1. /\ UNCHANGED <<useOut, lock, stage, toClose, table, place, dstate, parent, life>>
      /\ UNCHANGED <<at, run, plock, task, calls>>
  BY DEF connVars, threadVars
<1>2. op \in Ops /\ next \in Ops
  BY DEF RemovalOps, Ops
<1>3. PICK c \in Conns : c = Head(mq[t]).conn /\ Fits(t, c, op) /\ mq[t] # <<>>
  BY <1>2, HeadFacts
<1>4. s \in Threads \ {t}
  BY ThreadNames, Ranks
<1>5. PICK m \in Message : m = Msg(next, c) /\ m.conn = c /\ m.op = next
  BY <1>2, <1>3, MessageTypes DEF Msg
<1>6. QueueStep(t, s, m)
  BY <1>3, <1>4, <1>5, PassOnStep
<1>7. Fits(s, c, next)'
  <2>1. place[c] = "open" /\ parent[c] \in ProcThreads /\ dstate[c] = "close"
    BY <1>3 DEF Fits, RemovalOps
  <2>2. next \notin {"WORK", "NEW_SESSION", "SHUT"}
    BY ThreadNames DEF RemovalOps
  <2> QED  BY <1>1, <2>1, <2>2 DEF Fits
<1>8. MayFollow(t, s, m)
  <2> SUFFICES ASSUME NEW q \in Threads, NEW j \in 1 .. Len(mq[q]), About(q, j, c),
                      ~(q = t /\ j = 1)
               PROVE  mq[q][j].op = "WORK" /\ (q = s \/ Rank(q) > Rank(s))
    BY <1>2, <1>5, ThreadNames DEF MayFollow, RemovalOps
  <2>1. mq[q][j].op = "WORK" /\ Rank(q) > Rank(t)
    BY <1>3, BehindRemoval
  <2>2. Fits(q, c, "WORK")
    BY <1>3, <2>1 DEF Relay, MessagesFit
  <2>3. q \in {parent[c], Io, Out} /\ parent[c] \in ProcThreads /\ (q = Out => useOut)
    BY <2>2 DEF Fits
  <2>4. Rank(t) >= 1
    BY <1>3, Ranks DEF Fits, RemovalOps
  <2> QED  BY <2>1, <2>3, <2>4, Ranks
<1>9. \A x \in Actors : ~AtWork(x, c)
  BY <1>3, NobodyAtWork
<1>10. TypeOK'
  BY <1>1, <1>6, TypeStep DEF TypeOK
<1>11. Relay' /\ TasksFit' /\ PoolFits'
  BY <1>1, <1>5, <1>6, <1>7, <1>8, <1>9, ConnsKept
<1>12. StageFits'
  <2>1. m.op # "STOP"
    BY <1>5 DEF RemovalOps
  <2> QED  BY <1>1, <1>6, <2>1, ThreadNames, StageKept
<1>13. LifeBound'
  BY <1>1, LifeKept DEF TypeOK
<1> QED  BY <1>10, <1>11, <1>12, <1>13

LEMMA HandleRemovalKeeps ==
  ASSUME IInv, NEW t \in Threads, HandleRemoval(t)
  PROVE  IInv'
<1>1. {"SHUT", "SHUTOUT", "OVER", "QUIT"} = RemovalOps /\ RemovalOps \subseteq Ops
  BY DEF RemovalOps, Ops
<1>2. \A op \in RemovalOps : Pops(t, op) => Fits(t, Head(mq[t]).conn, op)
  BY <1>1, HeadFacts DEF IInv
<1>3. UNCHANGED <<useOut, lock, stage, toClose, connVars, threadVars, task, calls>>
  BY DEF HandleRemoval
<1>4. CASE Pops(t, "SHUT") /\ useOut /\ PassOn(t, Out, "SHUTOUT")
  <2>1. Rank(t) = 1
    BY <1>1, <1>2, <1>4, Ranks DEF Fits
  <2> QED  BY <1>1, <1>3, <1>4, <2>1, Ranks, ThreadNames, PassOnKeeps
<1>5. CASE Pops(t, "SHUT") /\ ~useOut /\ PassOn(t, Io, "OVER")
  <2>1. Rank(t) = 1
    BY <1>1, <1>2, <1>5, Ranks DEF Fits
  <2> QED  BY <1>1, <1>3, <1>5, <2>1, Ranks, ThreadNames, PassOnKeeps
<1>6. CASE Pops(t, "SHUTOUT") /\ PassOn(t, Io, "OVER")
  <2>1. Rank(t) = 2
    BY <1>1, <1>2, <1>6, Ranks DEF Fits
  <2> QED  BY <1>1, <1>3, <1>6, <2>1, Ranks, ThreadNames, PassOnKeeps
<1>7. CASE Pops(t, "OVER") /\ PassOn(t, Daemon, "QUIT")
  <2>1. Rank(t) = 3
    BY <1>1, <1>2, <1>7, Ranks DEF Fits
  <2> QED  BY <1>1, <1>3, <1>7, <2>1, Ranks, ThreadNames, PassOnKeeps
<1> QED  BY <1>4, <1>5, <1>6, <1>7 DEF HandleRemoval, Dispatches

-----------------------------------------------------------------------------
(* Steps of a task.                                                        *)

LEMMA AtWorkFacts ==
  ASSUME TypeOK, TasksFit, NEW x \in Actors, NEW c, AtWork(x, c)
  PROVE  /\ c \in Conns /\ place[c] = "open"
         /\ task[x].op = "give" => parent[c] = NoThread
         /\ task[x].op = "quit" => x = Daemon /\ dstate[c] = "close" /\ parent[c] # NoThread
         /\ task[x].op = "push" =>
              \/ x \in ProcThreads /\ parent[c] = x /\ ~Quits(c)
              \/ x = Acceptor /\ parent[c] # NoThread /\ dstate[c] = "free"
<1>1. TaskFits(x) /\ task[x].conn = c
  BY DEF TasksFit, AtWork
<1>2. c \in Conns
  BY <1>1, StopAssumption DEF TaskFits, AtWork, TypeOK
<1>3. CASE task[x].op \in {"give", "quit"}
  BY <1>1, <1>2, <1>3 DEF TaskFits
<1>4. CASE task[x].op = "push" /\ x \in Threads
  <2>1. x \in {Acceptor} \cup ProcThreads
    BY <1>1, <1>4, UsersAssumption DEF TaskFits, Adders
  <2> QED  BY <1>1, <1>2, <1>4, <2>1, ThreadNames DEF TaskFits
<1> QED  BY <1>3, <1>4 DEF AtWork

(* Actor a goes on with connection d, which nobody else is at work on.     *)
LEMMA OtherTasks ==
  ASSUME TypeOK, TasksFit, NEW p, NEW s, NEW m, QueueStep(p, s, m),
         NEW a \in Actors, NEW d, task'[a].conn \in {d, NoConn},
         \A x \in Actors \ {a} : task'[x] = task[x] /\ ~AtWork(x, d),
         \A c \in Conns \ {d} :
           place'[c] = place[c] /\ parent'[c] = parent[c] /\ dstate'[c] = dstate[c],
         m.conn \in Conns => m.conn = d,
         TaskFits(a)'
  PROVE  TasksFit'
<1> SUFFICES ASSUME NEW x \in Actors, x # a
             PROVE  TaskFits(x)'
  BY DEF TasksFit
<1> DEFINE c == task[x].conn
<1>1. AtWork(x, c) => c \in Conns \ {d} /\ c # NoConn
  BY AtWorkFacts, StopAssumption
<1>2. Daemon \in Actors
  BY ThreadNames DEF Actors
<1>3. AtWork(x, c) => (Quits(c)' => Quits(c))
  BY <1>1, <1>2 DEF Quits
<1> QED  BY <1>1, <1>3, TaskKept

LEMMA HandleQuitKeeps ==
  ASSUME IInv, NEW t \in Threads, HandleQuit(t)
  PROVE  IInv'
<1> USE DEF IInv
<1>1. Pops(t, "QUIT") /\ "QUIT" \in RemovalOps /\ "QUIT" \in Ops
  BY DEF HandleQuit, Dispatches, RemovalOps, Ops
<1>2. PICK c \in Conns : /\ c = Head(mq[t]).conn /\ Fits(t, c, "QUIT")
                         /\ mq[t] # <<>> /\ t \in Actors /\ task[t] = NoTask
                         /\ at[t] # "ended"
  BY <1>1, HeadFacts
<1>3. /\ t = Daemon /\ place[c] = "open" /\ dstate[c] = "close" /\ parent[c] \in ProcThreads
  BY <1>1, <1>2 DEF Fits
<1>4. /\ UNCHANGED <<useOut, lock, stage, toClose, table, place, dstate, parent, life>>
      /\ UNCHANGED <<at, run, plock, calls>> /\ Pop(t)
      /\ task' = [task EXCEPT ![t] = [op |-> "quit", conn |-> c, passed |-> ~lock]]
  BY <1>2 DEF HandleQuit, connVars, threadVars
<1>5. QueueStep(t, NoThread, Stop) /\ Stop.conn \notin Conns
  BY <1>2, <1>4, PopStep, MessageTypes
<1>6. TypeOK'
  <2>1. lock \in BOOLEAN
    BY DEF TypeOK
  <2> QED  BY <1>4, <1>5, <2>1, TypeStep DEF TypeOK
<1>7. Silent(c)'
  <2>1. \A q \in Threads : \A j \in 1 .. Len(mq[q]) : About(q, j, c) => q = t /\ j = 1
    <3> SUFFICES ASSUME NEW q \in Threads, NEW j \in 1 .. Len(mq[q]), About(q, j, c),
                        ~(q = t /\ j = 1)
                 PROVE  FALSE
      OBVIOUS
    <3>1. mq[q][j].op = "WORK" /\ Rank(q) > Rank(t)
      BY <1>1, <1>2, BehindRemoval
    <3> QED  BY <1>3, <3>1, Ranks
  <2> QED  BY <1>5, <2>1, SilentStep
<1>8. TaskFits(t)'
  <2>1. task'[t].op = "quit" /\ task'[t].conn = c
    BY <1>2, <1>4 DEF TypeOK
  <2> QED  BY <1>3, <1>4, <1>7, <2>1, ThreadNames, StopAssumption DEF TaskFits
<1>9. Relay' /\ TasksFit' /\ PoolFits'
  <2>1. \A x \in Actors : ~AtWork(x, c)
    BY <1>1, <1>2, NobodyAtWork
  <2>2. task'[t].conn = c /\ \A x \in Actors \ {t} : task'[x] = task[x]
    BY <1>2, <1>4 DEF TypeOK
  <2>3. TasksFit'
    BY <1>2, <1>4, <1>5, <1>8, <2>1, <2>2, OtherTasks
  <2>4. \A d \in Conns : SameConn(d)
    BY <1>4 DEF SameConn
  <2>5. Relay'
    BY <1>4, <1>5, <2>4, RelayStep
  <2> QED  BY <1>4, <2>3, <2>5 DEF PoolFits
<1>10. StageFits'
  <2>1. \A u \in Threads : at[u] = "ended" => task'[u] = task[u]
    BY <1>2, <1>4 DEF TypeOK, Actors
  <2> QED  BY <1>4, <1>5, <2>1, ThreadNames, StageKept
<1>11. LifeBound'
  <2>1. \A x \in Actors : task'[x].op = "take" <=> task[x].op = "take"
    BY <1>2, <1>4 DEF TypeOK, NoTask
  <2> QED  BY <1>4, <2>1, LifeKept DEF TypeOK
<1> QED  BY <1>6, <1>9, <1>10, <1>11

LEMMA FinishQuitKeeps ==
  ASSUME IInv, NEW t \in Threads, FinishQuit(t)
  PROVE  IInv'
<1> USE DEF IInv
<1>1. t \in Actors /\ task[t].op = "quit" /\ TaskFits(t)
  BY DEF FinishQuit, Actors, TasksFit
<1>2. PICK c \in Conns : c = task[t].conn
  BY <1>1, StopAssumption DEF TaskFits, TypeOK
<1>3. /\ t = Daemon /\ place[c] = "open" /\ dstate[c] = "close" /\ parent[c] # NoThread
      /\ Silent(c)
  BY <1>1, <1>2 DEF TaskFits
<1>4. /\ UNCHANGED <<useOut, lock, stage, toClose, life, at, run, plock, mq, calls>>
      /\ task' = [task EXCEPT ![t] = NoTask]
      /\ table' \subseteq table
      /\ Recycle(t, c)
  BY <1>2 DEF FinishQuit, threadVars
<1>5. QueueStep(NoThread, NoThread, Stop) /\ Stop.conn \notin Conns
  BY <1>4, StillStep, MessageTypes
<1>6. /\ place' \in [Conns -> {"pool", "open", "freed", "spilled"}]
      /\ dstate' \in [Conns -> {"free", "close"}]
      /\ parent' \in [Conns -> ProcThreads \cup {NoThread}]
      /\ \A d \in Conns \ {c} :
           place'[d] = place[d] /\ parent'[d] = parent[d] /\ dstate'[d] = dstate[d]
      /\ place'[c] = "pool" => dstate'[c] = "free" /\ parent'[c] = NoThread
      /\ place'[c] = "freed" => plock[t]
  BY <1>3, <1>4 DEF Recycle, TypeOK
<1>7. TypeOK'
  <2>1. NoTask \in [op : {"none", "take", "give", "push", "quit"},
                    conn : Conns \cup {NoConn}, passed : BOOLEAN]
    BY DEF NoTask
  <2> QED  BY <1>4, <1>5, <1>6, <2>1, TypeStep DEF TypeOK
<1>8. task'[t] = NoTask /\ \A x \in Actors \ {t} : task'[x] = task[x]
  BY <1>1, <1>4 DEF TypeOK
<1>9. TasksFit'
  <2>1. \A x \in Actors \ {t} : ~AtWork(x, c)
    <3> SUFFICES ASSUME NEW x \in Actors \ {t}, AtWork(x, c)
                 PROVE  FALSE
      OBVIOUS
    <3>1. Quits(c)
      BY <1>1, <1>2, <1>3 DEF Quits
    <3> QED  BY <1>3, <3>1, AtWorkFacts DEF AtWork
  <2>2. TaskFits(t)'
    BY <1>8 DEF TaskFits, NoTask
  <2>3. task'[t].conn \in {c, NoConn}
    BY <1>8 DEF NoTask
  <2> QED  BY <1>1, <1>5, <1>6, <1>8, <2>1, <2>2, <2>3, OtherTasks
<1>10. Relay'
  <2>1. Silent(c)'
    BY <1>4, <1>3 DEF Silent, About
  <2>2. \A d \in Conns : SameConn(d) \/ Silent(d)'
    BY <1>6, <2>1 DEF SameConn
  <2> QED  BY <1>4, <1>5, <2>2, RelayStep
<1>11. PoolFits'
  BY <1>6 DEF PoolFits
<1>12. StageFits'
  <2>1. place'[c] = "freed" => PastClose
    BY <1>3, <1>6 DEF StageFits
  <2>2. PastClose' <=> PastClose
    BY <1>4 DEF PastClose
  <2>3. \A u \in Threads : at[u] = "ended" => task'[u] = NoTask
    BY <1>8 DEF StageFits, Actors
  <2> QED  BY <1>4, <1>6, <2>1, <2>2, <2>3 DEF StageFits
<1>13. LifeBound'
  <2>1. \A x \in Actors : task'[x].op = "take" <=> task[x].op = "take"
    BY <1>1, <1>8 DEF NoTask
  <2> QED  BY <1>4, <2>1, LifeKept DEF TypeOK
<1> QED  BY <1>7, <1>9, <1>10, <1>11, <1>12, <1>13

-----------------------------------------------------------------------------
(* Adding a connection.                                                    *)

LEMMA TaskTypes ==
  /\ NoTask \in [op : {"none", "take", "give", "push", "quit"},
                 conn : Conns \cup {NoConn}, passed : BOOLEAN]
  /\ NoTask.op = "none" /\ NoTask.conn = NoConn
BY DEF NoTask

LEMMA HandleNewSessionKeeps ==
  ASSUME IInv, NEW t \in Threads, HandleNewSession(t)
  PROVE  IInv'
<1> USE DEF IInv
<1>1. Pops(t, "NEW_SESSION") /\ "NEW_SESSION" \in Ops
  BY DEF HandleNewSession, Dispatches, Ops
<1>2. PICK c \in Conns : /\ c = Head(mq[t]).conn /\ Fits(t, c, "NEW_SESSION")
                         /\ mq[t] # <<>> /\ t \in Actors /\ task[t] = NoTask
                         /\ at[t] # "ended" /\ 1 \in 1 .. Len(mq[t]) /\ About(t, 1, c)
                         /\ mq[t][1].op = "NEW_SESSION"
  BY <1>1, HeadFacts
<1>3. t \in ProcThreads /\ place[c] = "open" /\ parent[c] = NoThread
  BY <1>2 DEF Fits
<1>4. /\ UNCHANGED <<useOut, lock, stage, toClose, table, place, dstate, life>>
      /\ UNCHANGED <<at, run, plock, calls>> /\ Pop(t)
      /\ task' = [task EXCEPT ![t] = [op |-> "push", conn |-> c, passed |-> ~lock]]
      /\ parent' = [parent EXCEPT ![c] = t]
  BY <1>2 DEF HandleNewSession, BindConn, threadVars
<1>5. QueueStep(t, NoThread, Stop) /\ Stop.conn \notin Conns
  BY <1>2, <1>4, PopStep, MessageTypes
<1>6. TypeOK'
  <2>1. lock \in BOOLEAN
    BY DEF TypeOK
  <2> QED  BY <1>3, <1>4, <1>5, <2>1, TypeStep DEF TypeOK
<1>7. Silent(c)'
  <2>1. \A q \in Threads : \A j \in 1 .. Len(mq[q]) : About(q, j, c) => q = t /\ j = 1
    BY <1>2 DEF Relay, NewIsAlone
  <2> QED  BY <1>5, <2>1, SilentStep
<1>8. /\ task'[t] = [op |-> "push", conn |-> c, passed |-> ~lock]
      /\ \A x \in Actors \ {t} : task'[x] = task[x]
      /\ parent'[c] = t /\ \A d \in Conns \ {c} : parent'[d] = parent[d]
  BY <1>2, <1>4 DEF TypeOK
<1>9. \A x \in Actors : ~AtWork(x, c)
  BY <1>1, <1>2, NobodyAtWork
<1>10. TaskFits(t)'
  <2>1. RemovedAt(t, c)'
    BY <1>7 DEF Silent, RemovedAt
  <2>2. ~Quits(c)'
    <3>1. Daemon \in Actors \ {t}
      BY <1>3, ThreadNames DEF Actors
    <3> QED  BY <1>8, <1>9, <3>1 DEF Quits, AtWork
  <2> QED  BY <1>3, <1>4, <1>8, <2>1, <2>2, ThreadNames, StopAssumption DEF TaskFits
<1>11. TasksFit'
  BY <1>2, <1>4, <1>5, <1>8, <1>9, <1>10, OtherTasks
<1>12. Relay' /\ PoolFits'
  <2>1. \A d \in Conns : SameConn(d) \/ Silent(d)'
    BY <1>4, <1>7, <1>8 DEF SameConn
  <2>2. Relay'
    BY <1>4, <1>5, <2>1, RelayStep
  <2> QED  BY <1>3, <1>4, <1>8, <2>2 DEF PoolFits
<1>13. StageFits'
  <2>1. \A u \in Threads : at[u] = "ended" => task'[u] = task[u]
    BY <1>2, <1>8 DEF Actors
  <2> QED  BY <1>4, <1>5, <2>1, ThreadNames, StageKept
<1>14. LifeBound'
  <2>1. \A x \in Actors : task'[x].op = "take" <=> task[x].op = "take"
    BY <1>2, <1>8 DEF NoTask
  <2> QED  BY <1>4, <2>1, LifeKept DEF TypeOK
<1> QED  BY <1>6, <1>11, <1>12, <1>13, <1>14

LEMMA BeginAddKeeps ==
  ASSUME IInv, NEW a \in Adders, BeginAdd(a)
  PROVE  IInv'
<1> USE DEF IInv
<1>1. a \in Actors /\ (a \in Threads => a = Acceptor)
  BY ThreadNames, UsersAssumption DEF Adders, Actors
<1>2. /\ UNCHANGED <<useOut, lock, stage, toClose, table, place, dstate, parent, life>>
      /\ UNCHANGED <<at, run, plock, mq>>
      /\ task[a] = NoTask /\ task' = [task EXCEPT ![a].op = "take"]
      /\ calls < MaxCalls /\ calls' = calls + 1
      /\ a = Acceptor => at[a] = "loop"
  BY DEF BeginAdd, connVars, threadVars
<1>3. QueueStep(NoThread, NoThread, Stop) /\ Stop.conn \notin Conns
  BY <1>2, StillStep, MessageTypes
<1>4. /\ task'[a].op = "take" /\ task'[a].conn = NoConn
      /\ \A x \in Actors \ {a} : task'[x] = task[x]
      /\ task' \in [Actors -> [op : {"none", "take", "give", "push", "quit"},
                               conn : Conns \cup {NoConn}, passed : BOOLEAN]]
  BY <1>1, <1>2, TaskTypes DEF TypeOK
<1>5. calls' \in 0 .. MaxCalls /\ calls \in Nat
  BY <1>2, StopAssumption DEF TypeOK
<1>6. TypeOK'
  BY <1>2, <1>3, <1>4, <1>5, TypeStep DEF TypeOK
<1>7. TasksFit'
  <2>1. TaskFits(a)'
    BY <1>4 DEF TaskFits
  <2>2. \A x \in Actors : ~AtWork(x, NoConn)
    BY AtWorkFacts, StopAssumption
  <2> QED  BY <1>1, <1>2, <1>3, <1>4, <2>1, <2>2, OtherTasks
<1>8. Relay' /\ PoolFits'
  <2>1. \A d \in Conns : SameConn(d)
    BY <1>2 DEF SameConn
  <2>2. Relay'
    BY <1>2, <1>3, <2>1, RelayStep
  <2> QED  BY <1>2, <2>2 DEF PoolFits
<1>9. StageFits'
  <2>1. \A u \in Threads : at[u] = "ended" => task'[u] = task[u]
    BY <1>1, <1>2, <1>4 DEF Actors
  <2> QED  BY <1>2, <1>3, <2>1, ThreadNames, StageKept
<1>10. LifeBound'
  <2>1. Takers' = Takers \cup {a} /\ a \notin Takers
    BY <1>1, <1>2, <1>4, TaskTypes DEF Takers
  <2>2. IsFiniteSet(Takers') /\ Cardinality(Takers') = Cardinality(Takers) + 1
    BY <2>1, FS_AddElement DEF LifeBound
  <2>3. Cardinality(Takers) \in Nat
    BY FS_CardinalityType DEF LifeBound
  <2>4. \A c \in Conns : life'[c] + Cardinality(Takers') <= calls' + 1
    <3> SUFFICES ASSUME NEW c \in Conns
                 PROVE  life[c] + (Cardinality(Takers) + 1) <= (calls + 1) + 1
      BY <1>2, <2>2
    <3>1. life[c] \in Nat /\ life[c] + Cardinality(Takers) <= calls + 1
      BY StopAssumption DEF TypeOK, LifeBound
    <3> QED  BY <1>5, <2>3, <3>1
  <2> QED  BY <2>2, <2>4 DEF LifeBound
<1> QED  BY <1>6, <1>7, <1>8, <1>9, <1>10

LEMMA TakeConnKeeps ==
  ASSUME IInv, NEW a \in Actors, TakeConn(a)
  PROVE  IInv'
<1> USE DEF IInv
<1>1. /\ UNCHANGED <<useOut, lock, stage, toClose, table, dstate, parent>>
      /\ UNCHANGED <<at, run, plock, mq, calls>>
      /\ task[a].op = "take" /\ TaskFits(a) /\ a \in Adders
  BY DEF TakeConn, threadVars, TasksFit, TaskFits
<1>2. QueueStep(NoThread, NoThread, Stop) /\ Stop.conn \notin Conns
  BY <1>1, StillStep, MessageTypes
<1>3. \A u \in Threads : at[u] = "ended" => u # a
  BY <1>1, TaskTypes DEF StageFits
<1>4. calls \in Nat /\ Cardinality(Takers) \in Nat /\ a \in Takers
  BY <1>1, StopAssumption, FS_CardinalityType DEF TypeOK, LifeBound, Takers
<1>5. ASSUME task'[a].op # "take", \A x \in Actors \ {a} : task'[x] = task[x]
      PROVE  IsFiniteSet(Takers') /\ Cardinality(Takers') = Cardinality(Takers) - 1
  <2>1. Takers' = Takers \ {a}
    BY <1>5 DEF Takers
  <2> QED  BY <1>4, <2>1, FS_RemoveElement DEF LifeBound
<1>6. ASSUME NEW c \in Conns, place[c] = "pool", place' = [place EXCEPT ![c] = "open"],
             life' = [life EXCEPT ![c] = @ + 1],
             task' = [task EXCEPT ![a] = [NoTask EXCEPT !.op = "give", !.conn = c]]
      PROVE  IInv'
  <2>1. /\ task'[a].op = "give" /\ task'[a].conn = c
        /\ \A x \in Actors \ {a} : task'[x] = task[x]
        /\ task' \in [Actors -> [op : {"none", "take", "give", "push", "quit"},
                                 conn : Conns \cup {NoConn}, passed : BOOLEAN]]
    BY <1>6 DEF TypeOK, NoTask
  <2>2. /\ place'[c] = "open" /\ dstate[c] = "free" /\ parent[c] = NoThread
        /\ \A d \in Conns \ {c} : place'[d] = place[d]
        /\ place' \in [Conns -> {"pool", "open", "freed", "spilled"}]
    BY <1>6 DEF TypeOK, PoolFits
  <2>3. \A d \in Conns : life'[d] \in Nat /\ life'[d] + Cardinality(Takers') <= calls' + 1
    <3> SUFFICES ASSUME NEW d \in Conns
                 PROVE  life'[d] \in Nat /\ life'[d] + (Cardinality(Takers) - 1) <= calls + 1
      BY <1>1, <1>5, <2>1
    <3>1. life[d] \in Nat /\ life[d] + Cardinality(Takers) <= calls + 1
      BY StopAssumption DEF TypeOK, LifeBound
    <3>2. life'[d] = life[d] \/ life'[d] = life[d] + 1
      BY <1>6 DEF TypeOK
    <3> QED  BY <1>4, <3>1, <3>2
  <2>4. life' \in [Conns -> 0 .. MaxCalls + 1]
    <3>1. life' = [d \in Conns |-> life'[d]]
      BY <1>6 DEF TypeOK
    <3>2. Cardinality(Takers') \in Nat
      BY <1>5, <2>1, FS_CardinalityType
    <3>3. \A d \in Conns : life'[d] \in 0 .. MaxCalls + 1
      BY <1>1, <2>3, <3>2, StopAssumption DEF TypeOK
    <3> QED  BY <3>1, <3>3
  <2>5. TypeOK'
    BY <1>1, <1>2, <2>1, <2>2, <2>4, TypeStep DEF TypeOK
  <2>6. Silent(c)
    BY <1>6 DEF Silent, Relay, MessagesFit, Fits
  <2>7. \A x \in Actors : ~AtWork(x, c)
    BY <1>6, AtWorkFacts
  <2>8. Silent(c)'
    BY <1>1, <2>6 DEF Silent, About
  <2>9. TaskFits(a)'
    <3>1. \A y \in Actors : task'[y].op = "give" /\ task'[y].conn = c => y = a
      BY <2>1, <2>7 DEF AtWork
    <3> QED  BY <1>1, <2>1, <2>2, <2>8, <3>1, StopAssumption DEF TaskFits
  <2>10. TasksFit'
    <3>1. /\ task'[a].conn \in {c, NoConn}
          /\ \A x \in Actors \ {a} : task'[x] = task[x] /\ ~AtWork(x, c)
          /\ \A d \in Conns \ {c} :
               place'[d] = place[d] /\ parent'[d] = parent[d] /\ dstate'[d] = dstate[d]
      BY <1>1, <2>1, <2>2, <2>7
    <3> QED  BY <1>2, <2>9, <3>1, OtherTasks
  <2>11. Relay' /\ PoolFits'
    <3>1. \A d \in Conns : SameConn(d) \/ Silent(d)'
      BY <1>1, <2>2, <2>8 DEF SameConn
    <3>2. Relay'
      BY <1>1, <1>2, <3>1, RelayStep
    <3> QED  BY <1>1, <2>2, <3>2 DEF PoolFits
  <2>12. StageFits'
    <3>1. \A d \in Conns : place'[d] = "freed" => place[d] = "freed"
      BY <2>2
    <3>2. \A u \in Threads : at[u] = "ended" => task'[u] = task[u]
      BY <1>3, <2>1 DEF Actors
    <3> QED  BY <1>1, <1>2, <3>1, <3>2, ThreadNames, StageKept
  <2>13. LifeBound'
    BY <1>5, <2>1, <2>3 DEF LifeBound
  <2> QED  BY <2>5, <2>10, <2>11, <2>12, <2>13
<1>7. ASSUME task' = [task EXCEPT ![a] = NoTask], UNCHANGED <<place, life>>
      PROVE  IInv'
  <2>1. /\ task'[a] = NoTask /\ \A x \in Actors \ {a} : task'[x] = task[x]
        /\ task' \in [Actors -> [op : {"none", "take", "give", "push", "quit"},
                                 conn : Conns \cup {NoConn}, passed : BOOLEAN]]
    BY <1>7, TaskTypes DEF TypeOK
  <2>2. TypeOK'
    BY <1>1, <1>2, <1>7, <2>1, TypeStep DEF TypeOK
  <2>3. TasksFit'
    <3>1. TaskFits(a)'
      BY <2>1, TaskTypes DEF TaskFits
    <3>2. \A x \in Actors : ~AtWork(x, NoConn)
      BY AtWorkFacts, StopAssumption
    <3> QED  BY <1>1, <1>2, <1>7, <2>1, <3>1, <3>2, TaskTypes, OtherTasks
  <2>4. Relay' /\ PoolFits'
    <3>1. \A d \in Conns : SameConn(d)
      BY <1>1, <1>7 DEF SameConn
    <3>2. Relay'
      BY <1>1, <1>2, <3>1, RelayStep
    <3> QED  BY <1>1, <1>7, <3>2 DEF PoolFits
  <2>5. StageFits'
    <3>1. \A u \in Threads : at[u] = "ended" => task'[u] = task[u]
      BY <1>3, <2>1 DEF Actors
    <3> QED  BY <1>1, <1>2, <1>7, <3>1, ThreadNames, StageKept
  <2>6. LifeBound'
    <3>1. IsFiniteSet(Takers') /\ Cardinality(Takers') = Cardinality(Takers) - 1
      BY <1>5, <2>1, TaskTypes
    <3>2. \A d \in Conns : life[d] + (Cardinality(Takers) - 1) <= calls + 1
      <4> SUFFICES ASSUME NEW d \in Conns
                   PROVE  life[d] + (Cardinality(Takers) - 1) <= calls + 1
        OBVIOUS
      <4>1. life[d] \in Nat /\ life[d] + Cardinality(Takers) <= calls + 1
        BY StopAssumption DEF TypeOK, LifeBound
      <4> QED  BY <1>4, <4>1
    <3> QED  BY <1>1, <1>7, <3>1, <3>2 DEF LifeBound
  <2> QED  BY <2>2, <2>3, <2>4, <2>5, <2>6
<1> QED  BY <1>6, <1>7 DEF TakeConn

LEMMA GiveConnKeeps ==
  ASSUME IInv, NEW a \in Actors, NEW p \in ProcThreads, GiveConn(a, p)
  PROVE  IInv'
<1> USE DEF IInv
<1>1. /\ UNCHANGED <<useOut, lock, stage, toClose, table, place, dstate, life>>
      /\ UNCHANGED <<at, run, plock, calls>>
      /\ task[a].op = "give" /\ TaskFits(a) /\ a \in Adders
  BY DEF GiveConn, threadVars, TasksFit, TaskFits
<1>2. PICK c \in Conns : c = task[a].conn
  BY <1>1, StopAssumption DEF TaskFits, TypeOK
<1>3. /\ place[c] = "open" /\ parent[c] = NoThread /\ Silent(c)
      /\ a = Acceptor => dstate[c] = "free"
      /\ \A y \in Actors : task[y].op = "give" /\ task[y].conn = c => y = a
  BY <1>1, <1>2 DEF TaskFits
<1>4. a \notin ProcThreads /\ p # NoThread /\ p \in Threads /\ p # Daemon
  BY <1>1, ThreadNames, UsersAssumption DEF Adders
<1>5. \A x \in Actors \ {a} : ~AtWork(x, c)
  <2> SUFFICES ASSUME NEW x \in Actors \ {a}, AtWork(x, c)
               PROVE  FALSE
    OBVIOUS
  <2>1. task[x].op # "give"
    BY <1>3 DEF AtWork
  <2> QED  BY <1>3, <2>1, ThreadNames, AtWorkFacts DEF AtWork
<1>6. \A u \in Threads : at[u] = "ended" => u # a
  BY <1>1, TaskTypes DEF StageFits
<1>7. ASSUME NEW s, NEW m, QueueStep(NoThread, s, m), m.conn # c, m.conn \notin Conns
      PROVE  Silent(c)'
  BY <1>3, <1>7, SilentStep DEF Silent
<1>8. ASSUME BindConn(a, c, p), UNCHANGED mq
      PROVE  IInv'
  <2>1. QueueStep(NoThread, NoThread, Stop) /\ Stop.conn \notin Conns
    BY <1>8, StillStep, MessageTypes
  <2>2. /\ task'[a].op = "push" /\ task'[a].conn = c
        /\ \A x \in Actors \ {a} : task'[x] = task[x]
        /\ task' \in [Actors -> [op : {"none", "take", "give", "push", "quit"},
                                 conn : Conns \cup {NoConn}, passed : BOOLEAN]]
    BY <1>8 DEF BindConn, TypeOK
  <2>3. /\ parent'[c] = p /\ \A d \in Conns \ {c} : parent'[d] = parent[d]
        /\ parent' \in [Conns -> ProcThreads \cup {NoThread}]
    BY <1>8 DEF BindConn, TypeOK
  <2>4. TypeOK'
    BY <1>1, <2>1, <2>2, <2>3, TypeStep DEF TypeOK
  <2>5. Silent(c)'
    BY <1>7, <2>1
  <2>6. TaskFits(a)'
    BY <1>1, <1>3, <1>4, <2>2, <2>3, StopAssumption DEF TaskFits
  <2>7. TasksFit'
    <3>1. /\ task'[a].conn \in {c, NoConn}
          /\ \A x \in Actors \ {a} : task'[x] = task[x] /\ ~AtWork(x, c)
          /\ \A d \in Conns \ {c} :
               place'[d] = place[d] /\ parent'[d] = parent[d] /\ dstate'[d] = dstate[d]
      BY <1>1, <1>5, <2>2, <2>3
    <3> QED  BY <2>1, <2>6, <3>1, OtherTasks
  <2>8. Relay' /\ PoolFits'
    <3>1. \A d \in Conns : SameConn(d) \/ Silent(d)'
      BY <1>1, <2>3, <2>5 DEF SameConn
    <3>2. Relay'
      BY <1>1, <2>1, <3>1, RelayStep
    <3> QED  BY <1>1, <1>3, <2>3, <3>2 DEF PoolFits
  <2>9. StageFits'
    <3>1. \A u \in Threads : at[u] = "ended" => task'[u] = task[u]
      BY <1>6, <2>2 DEF Actors
    <3> QED  BY <1>1, <2>1, <3>1, ThreadNames, StageKept
  <2>10. LifeBound'
    <3>1. \A x \in Actors : task'[x].op = "take" <=> task[x].op = "take"
      BY <1>1, <2>2
    <3> QED  BY <1>1, <3>1, LifeKept DEF TypeOK
  <2> QED  BY <2>4, <2>7, <2>8, <2>9, <2>10
<1>9. ASSUME task' = [task EXCEPT ![a] = NoTask], UNCHANGED parent,
             NEW s, NEW m, QueueStep(NoThread, s, m), s # Daemon,
             m.conn \in Conns => m.conn = c /\ m.op = "NEW_SESSION" /\ s = p
      PROVE  IInv'
  <2>1. /\ task'[a] = NoTask /\ \A x \in Actors \ {a} : task'[x] = task[x]
        /\ task' \in [Actors -> [op : {"none", "take", "give", "push", "quit"},
                                 conn : Conns \cup {NoConn}, passed : BOOLEAN]]
    BY <1>9, TaskTypes DEF TypeOK
  <2>2. TypeOK'
    BY <1>1, <1>9, <2>1, TypeStep DEF TypeOK
  <2>3. TasksFit'
    <3>1. TaskFits(a)'
      BY <2>1, TaskTypes DEF TaskFits
    <3> QED  BY <1>1, <1>5, <1>9, <2>1, <3>1, TaskTypes, OtherTasks
  <2>4. Relay' /\ PoolFits'
    <3>1. \A d \in Conns : SameConn(d)
      BY <1>1, <1>9 DEF SameConn
    <3>2. m.conn \in Conns => Fits(s, m.conn, m.op)'
      BY <1>1, <1>3, <1>9 DEF Fits, RemovalOps
    <3>3. m.conn \in Conns => MayFollow(NoThread, s, m)
      BY <1>3, <1>9 DEF MayFollow, Silent
    <3>4. Relay'
      BY <1>1, <1>9, <3>1, <3>2, <3>3, RelayStep
    <3> QED  BY <1>1, <1>9, <3>4 DEF PoolFits
  <2>5. StageFits'
    <3>1. \A u \in Threads : at[u] = "ended" => task'[u] = task[u]
      BY <1>6, <2>1 DEF Actors
    <3> QED  BY <1>1, <1>9, <3>1, ThreadNames, StageKept
  <2>6. LifeBound'
    <3>1. \A x \in Actors : task'[x].op = "take" <=> task[x].op = "take"
      BY <1>1, <2>1, TaskTypes
    <3> QED  BY <1>1, <3>1, LifeKept DEF TypeOK
  <2> QED  BY <2>2, <2>3, <2>4, <2>5, <2>6
<1>10. CASE BindConn(a, c, p) /\ UNCHANGED mq
  BY <1>8, <1>10
<1>11. CASE task' = [task EXCEPT ![a] = NoTask] /\ UNCHANGED <<parent, mq>>
  <2>1. QueueStep(NoThread, NoThread, Stop) /\ Stop.conn \notin Conns
    BY <1>11, StillStep, MessageTypes
  <2> QED  BY <1>9, <1>11, <2>1, ThreadNames
<1>12. CASE task' = [task EXCEPT ![a] = NoTask] /\ UNCHANGED parent
            /\ Push(p, Msg("NEW_SESSION", c))
  <2>1. PICK m \in Message : m = Msg("NEW_SESSION", c) /\ m.conn = c /\ m.op = "NEW_SESSION"
    BY MessageTypes DEF Msg, Ops
  <2>2. QueueStep(NoThread, p, m)
    BY <1>4, <1>12, <2>1, PushStep
  <2> QED  BY <1>4, <1>9, <1>12, <2>1, <2>2
<1> QED  BY <1>2, <1>10, <1>11, <1>12 DEF GiveConn

LEMMA PushConnKeeps ==
  ASSUME IInv, NEW a \in Actors, PushConn(a)
  PROVE  IInv'
<1> USE DEF IInv
<1>1. /\ UNCHANGED <<useOut, lock, stage, toClose, place, dstate, parent, life>>
      /\ UNCHANGED <<at, run, plock, mq, calls>>
      /\ task[a].op = "push" /\ TaskFits(a)
      /\ task' = [task EXCEPT ![a] = NoTask]
  BY DEF PushConn, threadVars, TasksFit
<1>2. task[a].conn \in Conns /\ table' \subseteq Conns
  BY <1>1, StopAssumption DEF TaskFits, TypeOK, PushConn
<1>3. QueueStep(NoThread, NoThread, Stop) /\ Stop.conn \notin Conns
  BY <1>1, StillStep, MessageTypes
<1>4. /\ task'[a] = NoTask /\ \A x \in Actors \ {a} : task'[x] = task[x]
      /\ task' \in [Actors -> [op : {"none", "take", "give", "push", "quit"},
                               conn : Conns \cup {NoConn}, passed : BOOLEAN]]
  BY <1>1, TaskTypes DEF TypeOK
<1>5. TypeOK'
  BY <1>1, <1>2, <1>3, <1>4, TypeStep DEF TypeOK
<1>6. TasksFit'
  <2>1. TaskFits(a)'
    BY <1>4, TaskTypes DEF TaskFits
  <2>2. \A x \in Actors : ~AtWork(x, NoConn)
    BY AtWorkFacts, StopAssumption
  <2> QED  BY <1>1, <1>3, <1>4, <2>1, <2>2, TaskTypes, OtherTasks
<1>7. Relay' /\ PoolFits'
  <2>1. \A d \in Conns : SameConn(d)
    BY <1>1 DEF SameConn
  <2>2. Relay'
    BY <1>1, <1>3, <2>1, RelayStep
  <2> QED  BY <1>1, <2>2 DEF PoolFits
<1>8. StageFits'
  <2>1. \A u \in Threads : at[u] = "ended" => task'[u] = task[u]
    BY <1>1, <1>4, TaskTypes DEF StageFits, Actors
  <2> QED  BY <1>1, <1>3, <2>1, ThreadNames, StageKept
<1>9. LifeBound'
  <2>1. \A x \in Actors : task'[x].op = "take" <=> task[x].op = "take"
    BY <1>1, <1>4, TaskTypes
  <2> QED  BY <1>1, <2>1, LifeKept DEF TypeOK
<1> QED  BY <1>5, <1>6, <1>7, <1>8, <1>9

-----------------------------------------------------------------------------
(* Closing, and other messages about a connection.                         *)

LEMMA ShutKeeps ==
  ASSUME IInv, NEW c \in Conns, Shut(c), ~AtWork(Acceptor, c), toClose' \subseteq Conns,
         UNCHANGED <<useOut, lock, stage, table, place, parent, life, threadVars, task, calls>>
  PROVE  IInv'
<1> USE DEF IInv
<1>1. /\ UNCHANGED <<useOut, lock, stage, table, place, parent, life>>
      /\ UNCHANGED <<at, run, plock, task, calls>>
  BY DEF threadVars
<1>2. /\ dstate' \in [Conns -> {"free", "close"}]
      /\ \A d \in Conns \ {c} : dstate'[d] = dstate[d]
      /\ dstate'[c] # dstate[c] =>
           place[c] = "open" /\ dstate[c] = "free" /\ dstate'[c] = "close"
  BY DEF Shut, TypeOK
<1>3. ASSUME NEW s, NEW m, QueueStep(NoThread, s, m), m.op = "STOP" => s # Daemon,
             m.conn \in Conns =>
               /\ m.conn = c /\ m.op = "SHUT" /\ s = parent[c] /\ s \in ProcThreads
               /\ place[c] = "open" /\ dstate[c] = "free" /\ dstate'[c] = "close"
      PROVE  IInv'
  <2>1. TypeOK'
    BY <1>1, <1>2, <1>3, TypeStep DEF TypeOK
  <2>2. TasksFit'
    <3> SUFFICES ASSUME NEW x \in Actors
                 PROVE  TaskFits(x)'
      BY DEF TasksFit
    <3> DEFINE d == task[x].conn
    <3>1. AtWork(x, d) => /\ x \in {Acceptor, Daemon} => dstate'[d] = dstate[d]
                          /\ m.conn = d => /\ task[x].op = "push"
                                           /\ x \in ProcThreads => s = x
      <4> SUFFICES ASSUME AtWork(x, d)
                   PROVE  /\ x \in {Acceptor, Daemon} => dstate'[d] = dstate[d]
                          /\ m.conn = d => /\ task[x].op = "push"
                                           /\ x \in ProcThreads => s = x
        OBVIOUS
      <4>1. d \in Conns /\ task[x].op \in {"give", "quit", "push"}
        BY AtWorkFacts DEF AtWork
      <4>2. CASE task[x].op = "quit"
        BY <1>2, <1>3, <4>1, <4>2, AtWorkFacts
      <4>3. CASE task[x].op = "give"
        <5>1. x # Daemon
          BY <4>3, ThreadNames, UsersAssumption DEF TasksFit, TaskFits, Adders
        <5>2. parent[d] = NoThread
          BY <4>3, AtWorkFacts
        <5> QED  BY <1>2, <1>3, <4>1, <5>1, <5>2, ThreadNames
      <4>4. CASE task[x].op = "push"
        BY <1>2, <1>3, <4>1, <4>4, ThreadNames, AtWorkFacts
      <4> QED  BY <4>1, <4>2, <4>3, <4>4
    <3>2. AtWork(x, d) => d \in Conns
      BY AtWorkFacts
    <3> QED  BY <1>1, <1>3, <3>1, <3>2, TaskKept DEF Quits
  <2>3. Relay' /\ PoolFits'
    <3>1. \A d \in Conns : SameConn(d)
      BY <1>1, <1>2 DEF SameConn
    <3>2. m.conn \in Conns => Fits(s, m.conn, m.op)'
      BY <1>1, <1>3 DEF Fits
    <3>3. m.conn \in Conns => MayFollow(NoThread, s, m)
      <4> SUFFICES ASSUME m.conn \in Conns, NEW q \in Threads, NEW j \in 1 .. Len(mq[q]),
                          About(q, j, c)
                   PROVE  mq[q][j].op = "WORK" /\ (q = s \/ Rank(q) > Rank(s))
        BY <1>3 DEF MayFollow
      <4>1. Fits(q, c, mq[q][j].op)
        BY DEF Relay, MessagesFit
      <4>2. mq[q][j].op \in Ops
        <5>1. mq[q][j] \in Message
          BY ElementOfSeq DEF TypeOK
        <5> QED  BY <5>1, StopAssumption DEF About, Message
      <4>3. mq[q][j].op = "WORK"
        BY <1>3, <4>1, <4>2, ThreadNames DEF Fits, Ops, RemovalOps
      <4>4. q \in {parent[c], Io, Out}
        BY <4>1, <4>3 DEF Fits
      <4> QED  BY <1>3, <4>3, <4>4, Ranks
    <3>4. Relay'
      BY <1>1, <1>3, <3>1, <3>2, <3>3, RelayStep
    <3> QED  BY <1>1, <1>2, <3>4 DEF PoolFits
  <2>4. StageFits'
    BY <1>1, <1>3, ThreadNames, StageKept
  <2>5. LifeBound'
    BY <1>1, LifeKept DEF TypeOK
  <2> QED  BY <2>1, <2>2, <2>3, <2>4, <2>5
<1>4. CASE UNCHANGED mq
  <2>1. QueueStep(NoThread, NoThread, Stop) /\ Stop.conn \notin Conns /\ NoThread # Daemon
    BY <1>4, StillStep, MessageTypes, ThreadNames
  <2> QED  BY <1>3, <2>1
<1>5. CASE /\ parent[c] # NoThread /\ Push(parent[c], Msg("SHUT", c))
           /\ place[c] = "open" /\ dstate[c] = "free" /\ dstate' = [dstate EXCEPT ![c] = "close"]
  <2>1. PICK m \in Message : m = Msg("SHUT", c) /\ m.conn = c /\ m.op = "SHUT"
    BY MessageTypes DEF Msg, Ops
  <2>2. parent[c] \in ProcThreads /\ parent[c] \in Threads /\ dstate'[c] = "close"
    BY <1>5, ThreadNames DEF TypeOK
  <2>3. QueueStep(NoThread, parent[c], m)
    BY <1>5, <2>1, <2>2, PushStep
  <2> QED  BY <1>3, <1>5, <2>1, <2>2, <2>3
<1> QED  BY <1>4, <1>5 DEF Shut

LEMMA CloseKeeps ==
  ASSUME IInv, NEW c \in Conns, Close(c)
  PROVE  IInv'
<1>1. ~AtWork(Acceptor, c)
  BY DEF Close, Known, AtWork, Adders
<1>2. toClose' \subseteq Conns
  BY DEF Close, IInv, TypeOK
<1> QED  BY <1>1, <1>2, ShutKeeps DEF Close

LEMMA PushWorkKeeps ==
  ASSUME IInv, NEW c \in Conns, NEW t \in Threads, PushWork(c, t)
  PROVE  IInv'
<1> USE DEF IInv
<1>1. /\ UNCHANGED <<useOut, lock, stage, toClose, table, place, dstate, parent, life>>
      /\ UNCHANGED <<at, run, plock, task>>
      /\ calls < MaxCalls /\ calls' = calls + 1
      /\ Known(c) /\ Push(t, Msg("WORK", c))
      /\ t \in {parent[c], Io} \cup (IF useOut THEN {Out} ELSE {})
  BY DEF PushWork, connVars, threadVars
<1>2. PICK m \in Message : m = Msg("WORK", c) /\ m.conn = c /\ m.op = "WORK"
  BY MessageTypes DEF Msg, Ops
<1>3. QueueStep(NoThread, t, m)
  BY <1>1, <1>2, PushStep
<1>4. calls' \in 0 .. MaxCalls /\ calls \in Nat
  BY <1>1, StopAssumption DEF TypeOK
<1>5. TypeOK'
  BY <1>1, <1>3, <1>4, TypeStep DEF TypeOK
<1>6. place[c] = "open" /\ dstate[c] = "free" /\ parent[c] \in ProcThreads
  BY <1>1 DEF Known, TypeOK
<1>7. Fits(t, c, "WORK")'
  <2>1. t \in {parent[c], Io, Out} /\ (t = Out => useOut)
    BY <1>1, <1>6, ThreadNames
  <2> QED  BY <1>1, <1>6, <2>1 DEF Fits, RemovalOps
<1>8. MayFollow(NoThread, t, m)
  <2> SUFFICES ASSUME NEW q \in Threads, NEW j \in 1 .. Len(mq[q]), About(q, j, c)
               PROVE  mq[q][j].op = "WORK"
    BY <1>2 DEF MayFollow, RemovalOps
  <2>1. Fits(q, c, mq[q][j].op)
    BY DEF Relay, MessagesFit
  <2>2. mq[q][j].op \in Ops
    <3>1. mq[q][j] \in Message
      BY ElementOfSeq DEF TypeOK
    <3> QED  BY <3>1, StopAssumption DEF About, Message
  <2> QED  BY <1>6, <2>1, <2>2, ThreadNames DEF Fits, Ops, RemovalOps
<1>9. \A x \in Actors : AtWork(x, c) => task[x].op = "push"
  <2> SUFFICES ASSUME NEW x \in Actors, AtWork(x, c), task[x].op # "push"
               PROVE  FALSE
    OBVIOUS
  <2> QED  BY <1>6, ThreadNames, AtWorkFacts DEF AtWork
<1>10. Relay' /\ TasksFit' /\ PoolFits'
  BY <1>1, <1>2, <1>3, <1>7, <1>8, <1>9, ConnsKept DEF RemovalOps
<1>11. StageFits'
  BY <1>1, <1>2, <1>3, ThreadNames, StageKept
<1>12. LifeBound'
  BY <1>1, <1>4, LifeKept DEF TypeOK
<1> QED  BY <1>5, <1>10, <1>11, <1>12

-----------------------------------------------------------------------------
(* service_stop.                                                           *)

(* It goes on to another thread, or to its loop over connections[].        *)
StageType == ({"stop", "join"} \X (1 .. Len(StopOrder)))
               \cup {<<"running", 0>>, <<"close", 1>>, <<"done", 0>>}

LEMMA StageMoves ==
  ASSUME IInv, UNCHANGED <<useOut, table, place, dstate, parent, life, at, task, calls>>,
         lock' \in BOOLEAN, toClose' \subseteq Conns, stage' \in StageType,
         run' \in [Threads -> BOOLEAN], plock' \in [Threads -> BOOLEAN],
         NEW p, NEW s, QueueStep(p, s, Stop), s = Daemon => PastClose',
         plock'[Daemon] => plock[Daemon] \/ PastClose',
         PastClose => PastClose',
         (stage'[1] = "close" \/ PastClose') => at[Acceptor] = "ended"
  PROVE  IInv'
<1> USE DEF IInv
<1>1. TypeOK'
  <2>1. StopOrder' = StopOrder
    BY SameOrder
  <2> QED  BY <2>1 DEF TypeOK, QueueStep, StageType
<1>2. Relay' /\ TasksFit' /\ PoolFits'
  BY MessageTypes, ConnsKept
<1>3. StageFits'
  <2>1. (\E i \in 1 .. Len(mq'[Daemon]) : mq'[Daemon][i].op = "STOP") => PastClose'
    <3> SUFFICES ASSUME NEW i \in 1 .. Len(mq'[Daemon]), mq'[Daemon][i].op = "STOP"
                 PROVE  PastClose'
      OBVIOUS
    <3>1. CASE /\ Src(p, Daemon, i) \in 1 .. Len(mq[Daemon])
               /\ mq'[Daemon][i] = mq[Daemon][Src(p, Daemon, i)]
      BY <3>1 DEF StageFits
    <3>2. CASE Daemon = s
      BY <3>2
    <3> QED  BY <3>1, <3>2, ThreadNames DEF QueueStep
  <2> QED  BY <2>1 DEF StageFits
<1>4. LifeBound'
  BY LifeKept DEF TypeOK
<1> QED  BY <1>1, <1>2, <1>3, <1>4

LEMMA BeginStopKeeps ==
  ASSUME IInv, BeginStop
  PROVE  IInv'
<1>1. TypeOK /\ StageFits
  BY DEF IInv
<1>2. /\ UNCHANGED <<useOut, table, place, dstate, parent, life, at, task, calls>>
      /\ UNCHANGED <<toClose, run, plock, mq>> /\ lock' = TRUE
      /\ stage = <<"running", 0>> /\ stage' = <<"stop", 1>>
  BY DEF BeginStop, connVars, threadVars
<1>3. QueueStep(NoThread, NoThread, Stop) /\ NoThread # Daemon
  BY <1>1, <1>2, StillStep, ThreadNames
<1>4. useOut \in BOOLEAN
  BY <1>1, StopAssumption DEF TypeOK
<1>5. stage' \in StageType
  BY <1>2, <1>4, StopOrderIs DEF StageType
<1>6. ~PastClose /\ ~PastClose' /\ stage'[1] # "close"
  BY <1>2 DEF PastClose
<1> QED  BY <1>1, <1>2, <1>3, <1>5, <1>6, StageMoves DEF TypeOK

LEMMA StopThreadKeeps ==
  ASSUME IInv, StopThread
  PROVE  IInv'
<1>1. TypeOK /\ StageFits
  BY DEF IInv
<1>2. useOut \in BOOLEAN
  BY <1>1, StopAssumption DEF TypeOK
<1>3. PICK k \in 1 .. Len(StopOrder) : stage = <<"stop", k>>
  BY <1>1 DEF StopThread, TypeOK
<1>4. PICK t \in Threads : t = StopOrder[k]
  BY <1>2, StopOrderIs
<1>5. /\ UNCHANGED <<useOut, table, place, dstate, parent, life, at, task, calls>>
      /\ UNCHANGED <<toClose, lock>>
      /\ plock' = [plock EXCEPT ![t] = TRUE] /\ run' = [run EXCEPT ![t] = FALSE]
      /\ Push(t, Stop) /\ stage' = <<"join", k>>
  BY <1>3, <1>4 DEF StopThread, connVars
<1>6. QueueStep(NoThread, t, Stop)
  BY <1>1, <1>5, PushStep, MessageTypes
<1>7. PastClose' <=> PastClose
  BY <1>3, <1>5 DEF PastClose
<1>8. t = Daemon => PastClose
  <2>1. k = 1 => t = Acceptor
    BY <1>2, <1>4, StopOrderIs
  <2> QED  BY <1>3, <2>1, ThreadNames DEF PastClose
<1>9. stage' \in StageType /\ stage'[1] # "close"
  BY <1>5 DEF StageType
<1>10. /\ plock' \in [Threads -> BOOLEAN] /\ run' \in [Threads -> BOOLEAN]
       /\ plock'[Daemon] => plock[Daemon] \/ t = Daemon
  BY <1>1, <1>5, ThreadNames DEF TypeOK
<1>11. PastClose => at[Acceptor] = "ended"
  BY <1>1 DEF StageFits
<1> QED  BY <1>1, <1>5, <1>6, <1>7, <1>8, <1>9, <1>10, <1>11, StageMoves DEF TypeOK

LEMMA JoinKeeps ==
  ASSUME IInv, Join
  PROVE  IInv'
<1>1. TypeOK /\ StageFits
  BY DEF IInv
<1>2. useOut \in BOOLEAN
  BY <1>1, StopAssumption DEF TypeOK
<1>3. PICK k \in 1 .. Len(StopOrder) : stage = <<"join", k>>
  BY <1>1 DEF Join, TypeOK
<1>4. /\ UNCHANGED <<useOut, table, place, dstate, parent, life, at, task, calls>>
      /\ UNCHANGED <<lock, run, plock, mq>>
      /\ at[StopOrder[k]] = "ended"
  BY <1>3 DEF Join, connVars, threadVars
<1>5. QueueStep(NoThread, NoThread, Stop) /\ NoThread # Daemon
  BY <1>1, <1>4, StillStep, ThreadNames
<1>6. CASE StopOrder[k] = Acceptor /\ stage' = <<"close", 1>> /\ toClose' = table
  <2>1. k = 1
    BY <1>2, <1>6, StopOrderIs
  <2>2. ~PastClose
    BY <1>3, <2>1 DEF PastClose
  <2>3. stage' \in StageType
    BY <1>6 DEF StageType
  <2>4. at[Acceptor] = "ended"
    BY <1>4, <1>6
  <2> QED  BY <1>1, <1>4, <1>5, <1>6, <2>2, <2>3, <2>4, StageMoves DEF TypeOK
<1>7. CASE StopOrder[k] # Acceptor /\ stage' = Following(k) /\ UNCHANGED toClose
  <2>1. k > 1 /\ Len(StopOrder) \in Nat
    BY <1>2, <1>7, StopOrderIs
  <2>2. PastClose
    BY <1>3, <2>1 DEF PastClose
  <2>3. stage' \in StageType /\ PastClose'
    BY <1>7, <2>1 DEF StageType, Following, PastClose
  <2>4. at[Acceptor] = "ended"
    BY <1>1, <2>2 DEF StageFits
  <2> QED  BY <1>1, <1>4, <1>5, <1>7, <2>2, <2>3, <2>4, StageMoves DEF TypeOK
<1> QED  BY <1>3, <1>6, <1>7 DEF Join

LEMMA CloseEntriesKeeps ==
  ASSUME IInv, CloseEntries
  PROVE  IInv'
<1>1. TypeOK /\ StageFits
  BY DEF IInv
<1>2. stage = <<"close", 1>> /\ at[Acceptor] = "ended"
  BY <1>1 DEF CloseEntries, TypeOK, StageFits
<1>3. ASSUME NEW c \in toClose, Shut(c), toClose' = toClose \ {c}, UNCHANGED stage
      PROVE  IInv'
  <2>1. c \in Conns /\ toClose' \subseteq Conns
    BY <1>1, <1>3 DEF TypeOK
  <2>2. ~AtWork(Acceptor, c)
    BY <1>1, <1>2, ThreadNames, TaskTypes DEF StageFits, AtWork
  <2> QED  BY <1>3, <2>1, <2>2, ShutKeeps DEF CloseEntries
<1>4. CASE stage' = Following(1) /\ UNCHANGED <<toClose, dstate, mq>>
  <2>1. Len(StopOrder) \in Nat /\ Len(StopOrder) >= 2
    BY <1>1, StopAssumption, StopOrderIs DEF TypeOK
  <2>2. stage' = <<"stop", 2>>
    BY <1>4, <2>1 DEF Following
  <2>3. stage' \in StageType
    BY <2>1, <2>2 DEF StageType
  <2>4. ~PastClose
    BY <1>2 DEF PastClose
  <2>5. /\ UNCHANGED <<useOut, table, place, dstate, parent, life, at, task, calls>>
        /\ UNCHANGED <<toClose, lock, run, plock, mq>>
    BY <1>4 DEF CloseEntries, threadVars
  <2>6. QueueStep(NoThread, NoThread, Stop) /\ NoThread # Daemon
    BY <1>1, <2>5, StillStep, ThreadNames
  <2> QED  BY <1>1, <1>2, <2>3, <2>4, <2>5, <2>6, StageMoves DEF TypeOK
<1> QED  BY <1>2, <1>3, <1>4 DEF CloseEntries

-----------------------------------------------------------------------------
(* The invariant holds.                                                    *)

LEMMA InitHolds == Init => IInv
<1> SUFFICES ASSUME Init
             PROVE  IInv
  OBVIOUS
<1>1. PICK S \in SUBSET Conns, p \in ProcThreads :
        /\ table = S
        /\ place = [c \in Conns |-> IF c \in S THEN "open" ELSE "pool"]
        /\ parent = [c \in Conns |-> IF c \in S THEN p ELSE NoThread]
        /\ life = [c \in Conns |-> IF c \in S THEN 1 ELSE 0]
  BY DEF Init
<1>2. \A t \in Threads : mq[t] = <<>> /\ Len(mq[t]) = 0
  BY DEF Init
<1>3. TypeOK
  <2>1. mq \in [Threads -> Seq(Message)]
    BY DEF Init
  <2>2. at \in [Threads -> {"starting", "loop", "last", "ended"}]
    BY DEF Init
  <2>3. life \in [Conns -> 0 .. MaxCalls + 1] /\ calls \in 0 .. MaxCalls
    BY <1>1, StopAssumption DEF Init
  <2>4. stage = <<"running", 0>> /\ toClose \subseteq Conns /\ table \subseteq Conns
    BY <1>1 DEF Init
  <2>5. /\ place \in [Conns -> {"pool", "open", "freed", "spilled"}]
        /\ dstate \in [Conns -> {"free", "close"}]
        /\ parent \in [Conns -> ProcThreads \cup {NoThread}]
    BY <1>1 DEF Init
  <2>6. run \in [Threads -> BOOLEAN] /\ plock \in [Threads -> BOOLEAN]
    BY DEF Init
  <2>7. task \in [Actors -> [op : {"none", "take", "give", "push", "quit"},
                             conn : Conns \cup {NoConn}, passed : BOOLEAN]]
    BY TaskTypes DEF Init
  <2>8. useOut \in OutModes /\ lock \in BOOLEAN
    BY DEF Init
  <2> QED  BY <2>1, <2>2, <2>3, <2>4, <2>5, <2>6, <2>7, <2>8 DEF TypeOK
<1>4. Relay
  BY <1>2 DEF Relay, MessagesFit, RemovalIsLast, NewIsAlone
<1>5. TasksFit
  <2>1. \A x \in Actors : task[x].op = "none" /\ task[x].conn = NoConn
    BY TaskTypes DEF Init
  <2> QED  BY <2>1 DEF TasksFit, TaskFits
<1>6. PoolFits
  BY <1>1 DEF PoolFits, Init
<1>7. StageFits
  <2>1. \A t \in Threads : at[t] # "ended"
    BY DEF Init
  <2>2. ~PastClose /\ stage[1] # "close" /\ ~plock[Daemon] /\ Len(mq[Daemon]) = 0
    BY <1>2, ThreadNames DEF Init, PastClose
  <2>3. \A c \in Conns : place[c] # "freed"
    BY <1>1
  <2> QED  BY <2>1, <2>2, <2>3 DEF StageFits
<1>8. LifeBound
  <2>1. Takers = {}
    BY TaskTypes DEF Init, Takers
  <2>2. IsFiniteSet(Takers) /\ Cardinality(Takers) = 0
    BY <2>1, FS_EmptySet
  <2>3. \A c \in Conns : life[c] + 0 <= calls + 1
    BY <1>1 DEF Init
  <2> QED  BY <2>2, <2>3 DEF LifeBound
<1> QED  BY <1>3, <1>4, <1>5, <1>6, <1>7, <1>8 DEF IInv

LEMMA StepHolds == IInv /\ [Next]_vars => IInv'
<1> SUFFICES ASSUME IInv, [Next]_vars
             PROVE  IInv'
  OBVIOUS
<1>1. CASE BeginStop
  BY <1>1, BeginStopKeeps
<1>2. CASE Stopping
  BY <1>2, StopThreadKeeps, JoinKeeps, CloseEntriesKeeps DEF Stopping
<1>3. ASSUME NEW t \in Threads, Running(t)
      PROVE  IInv'
  BY <1>3, LoopKeeps, HandleStopKeeps, HandleNewSessionKeeps, HandleWorkKeeps,
     HandleRemovalKeeps, HandleQuitKeeps, FinishQuitKeeps DEF Running
<1>4. ASSUME NEW x \in Adders, BeginAdd(x)
      PROVE  IInv'
  BY <1>4, BeginAddKeeps
<1>5. ASSUME NEW x \in Actors, Adding(x)
      PROVE  IInv'
  BY <1>5, TakeConnKeeps, GiveConnKeeps, PushConnKeeps DEF Adding
<1>6. ASSUME NEW c \in Conns, Close(c)
      PROVE  IInv'
  BY <1>6, CloseKeeps
<1>7. ASSUME NEW c \in Conns, NEW t \in Threads, PushWork(c, t)
      PROVE  IInv'
  BY <1>7, PushWorkKeeps
<1>8. CASE UNCHANGED vars
  <2>1. /\ UNCHANGED <<useOut, lock, stage, toClose, table, place, dstate, parent, life>>
        /\ UNCHANGED <<at, run, plock, mq, task, calls>>
    BY <1>8 DEF vars, connVars, threadVars
  <2>2. TypeOK /\ StageFits
    BY DEF IInv
  <2>3. QueueStep(NoThread, NoThread, Stop) /\ NoThread # Daemon
    BY <2>1, <2>2, StillStep, ThreadNames
  <2>4. PastClose' <=> PastClose
    BY <2>1 DEF PastClose
  <2>5. stage' \in StageType
    BY <2>1, <2>2 DEF TypeOK, StageType
  <2> QED  BY <2>1, <2>2, <2>3, <2>4, <2>5, StageMoves DEF TypeOK, StageFits
<1> QED  BY <1>1, <1>2, <1>3, <1>4, <1>5, <1>6, <1>7, <1>8 DEF Next

LEMMA InvHolds == Spec => []IInv
<1>1. Init => IInv
  BY InitHolds
<1>2. IInv /\ [Next]_vars => IInv'
  BY StepHolds
<1> QED  BY <1>1, <1>2, PTL DEF Spec

-----------------------------------------------------------------------------
(* The theorems.                                                           *)

(* Every variable keeps its type.                                          *)
THEOREM StopTypes == Spec => []TypeOK
<1>1. IInv => TypeOK
  BY DEF IInv
<1> QED  BY <1>1, InvHolds, PTL

(* At most one removal of a connection is in the queues, however many      *)
(* threads close it while service_stop does.                               *)
THEOREM OneRemovalInStop == Spec => []RemovalIsOnce
<1>1. IInv => RemovalIsOnce
  <2> SUFFICES ASSUME IInv, NEW c \in Conns, NEW s \in Threads, NEW t \in Threads,
                      NEW i \in DOMAIN mq[s], NEW j \in DOMAIN mq[t],
                      mq[s][i].op \in RemovalOps, mq[s][i].conn = c,
                      mq[t][j].op \in RemovalOps, mq[t][j].conn = c
               PROVE  s = t /\ i = j
    BY DEF RemovalIsOnce
  <2>1. i \in 1 .. Len(mq[s]) /\ j \in 1 .. Len(mq[t])
    BY LenProperties DEF IInv, TypeOK
  <2>2. /\ (s = t /\ i <= j) \/ Rank(s) > Rank(t)
        /\ (s = t /\ j <= i) \/ Rank(t) > Rank(s)
    BY <2>1 DEF IInv, Relay, RemovalIsLast, About, Removes
  <2> QED  BY <2>1, <2>2, Ranks
<1> QED  BY <1>1, InvHolds, PTL

(* No message and no thread names c.                                       *)
Unnamed(c) ==
  \A t \in Threads : task[t].conn # c /\ \A i \in DOMAIN mq[t] : mq[t][i].conn # c

(* Whoever is named by a thread or a message is not freed.                 *)
LEMMA FreedInv ==
  IInv => \A c \in Conns : place[c] \in {"freed", "spilled"} => Unnamed(c)
<1> SUFFICES ASSUME IInv, NEW c \in Conns, place[c] \in {"freed", "spilled"},
                    NEW t \in Threads
             PROVE  task[t].conn # c /\ \A i \in DOMAIN mq[t] : mq[t][i].conn # c
  BY DEF Unnamed
<1>1. ASSUME NEW i \in DOMAIN mq[t]
      PROVE  mq[t][i].conn # c
  <2>1. i \in 1 .. Len(mq[t])
    BY LenProperties DEF IInv, TypeOK
  <2> QED  BY <2>1 DEF IInv, Relay, MessagesFit, Fits, About
<1>2. ASSUME task[t].conn = c
      PROVE  FALSE
  <2>1. t \in Actors /\ task[t].op \in {"none", "take", "give", "push", "quit"}
    BY DEF IInv, TypeOK, Actors
  <2>2. task[t].op \in {"give", "push", "quit"}
    BY <1>2, <2>1, StopAssumption DEF IInv, TasksFit, TaskFits
  <2>3. AtWork(t, c)
    BY <1>2, <2>2 DEF AtWork
  <2> QED  BY <2>1, <2>3, AtWorkFacts DEF IInv
<1> QED  BY <1>1, <1>2

(* A connection that conn_clean has freed is in no queue and in no hands   *)
(* of a thread of the service, also of one that has ended, whatever the    *)
(* size of qconns is; and when it was freed for the lock of its thread,    *)
(* service_stop is past its loop over connections[].                       *)
THEOREM FreedAndForgotten == Spec => []FreedIsForgotten
<1>1. IInv => FreedIsForgotten
  <2> SUFFICES ASSUME IInv, NEW c \in Conns, place[c] \in {"freed", "spilled"}
               PROVE  /\ Unnamed(c)
                      /\ place[c] = "freed" =>
                           stage[1] \in {"stop", "join", "done"} /\ stage[2] # 1
    BY DEF FreedIsForgotten, Unnamed
  <2>1. place[c] = "freed" => PastClose
    BY DEF IInv, StageFits
  <2>2. PastClose => stage[1] \in {"stop", "join", "done"} /\ stage[2] # 1
    BY DEF PastClose, IInv, TypeOK
  <2> QED  BY <2>1, <2>2, FreedInv
<1> QED  BY <1>1, InvHolds, PTL
=============================================================================
