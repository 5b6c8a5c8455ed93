--------------------------- MODULE ConnLifeProofs ---------------------------
(***************************************************************************)
(* Proofs about ConnLife, for every number of connections, threads, users  *)
(* and descriptors, every table and pool size, and with or without an      *)
(* outdaemon.  The inductive invariant IInv follows a connection through   *)
(* its places; the messages that carry it from one thread to the next      *)
(* (SHUT, SHUTOUT, OVER, QUIT and NEW_SESSION) are called tokens.  Nothing *)
(* is assumed of a thread between the stores of procthread_add_connection  *)
(* and conn_set: by then its connection may be anywhere.                   *)
(***************************************************************************)
EXTENDS ConnLife, SequenceTheorems, FiniteSetTheorems, TLAPS

-----------------------------------------------------------------------------
(* The connection table: what service_pushconn and service_popconn do to   *)
(* it, for every table size and every connection.                          *)

Occupied == {i \in Indexes : connections[i] # NoConn}

(* The table is finite, so its occupied entries can be counted.            *)
LEMMA OccupiedIsFinite ==
  /\ IsFiniteSet(Occupied) /\ Cardinality(Occupied) \in Nat
  /\ IsFiniteSet(Occupied') /\ Cardinality(Occupied') \in Nat
<1>1. IsFiniteSet(Indexes)
  BY LimitAssumption, FS_Interval DEF Indexes
<1>2. Occupied \in SUBSET Indexes /\ Occupied' \in SUBSET Indexes
  BY DEF Occupied, Indexes
<1> QED  BY <1>1, <1>2, FS_Subset, FS_CardinalityType

(* The entries are bounded and counted.                                    *)
TableCounts == TableTypeOK /\ IndexMaxBounds /\ RunningCounts

(* The initial table.                                                      *)
LEMMA InitTable ==
  ASSUME TableInit
  PROVE  TableCounts /\ \A c \in Conns : index[c] = -1
<1>1. TableTypeOK /\ IndexMaxBounds /\ \A c \in Conns : index[c] = -1
  BY DEF TableInit, TableTypeOK, IndexMaxBounds
<1>2. Occupied = {}
  BY DEF TableInit, Occupied
<1>3. RunningCounts
  BY <1>2, FS_EmptySet DEF RunningCounts, Occupied, TableInit
<1> QED  BY <1>1, <1>3 DEF TableCounts

(* service_pushconn takes a free entry, whatever connection it is called   *)
(* for and whether it is in the table already.                             *)
LEMMA PushTable ==
  ASSUME TableCounts, NEW c \in Conns, PushConn(c)
  PROVE  /\ TableCounts'
         /\ \/ FreeIndexes = {} /\ UNCHANGED <<connections, index>>
            \/ \E i \in FreeIndexes :
                 /\ connections' = [connections EXCEPT ![i] = c]
                 /\ index' = [index EXCEPT ![c] = i]
<1>1. CASE FreeIndexes = {} /\ UNCHANGED tableVars
  BY <1>1 DEF tableVars, TableCounts, TableTypeOK, IndexMaxBounds, RunningCounts
<1>2. ASSUME NEW i \in FreeIndexes,
             connections' = [connections EXCEPT ![i] = c],
             index' = [index EXCEPT ![c] = i],
             indexMax' = IF i > indexMax THEN i ELSE indexMax,
             running' = running + 1
      PROVE  TableCounts'
  <2>1. i \in Indexes /\ connections[i] = NoConn
    BY DEF FreeIndexes
  <2>2. TableTypeOK'
    BY <1>2, <2>1 DEF TableCounts, TableTypeOK, Indexes
  <2>3. IndexMaxBounds'
    BY <1>2, <2>1, LimitAssumption
       DEF TableCounts, TableTypeOK, IndexMaxBounds, Indexes
  <2>4. RunningCounts'
    <3>1. Occupied' = Occupied \cup {i} /\ i \notin Occupied
      BY <1>2, <2>1, ConnsAssumption DEF Occupied, TableCounts, TableTypeOK
    <3>2. Cardinality(Occupied') = Cardinality(Occupied) + 1
      BY <3>1, OccupiedIsFinite, FS_AddElement
    <3> QED  BY <1>2, <3>2 DEF TableCounts, RunningCounts, Occupied
  <2> QED  BY <2>2, <2>3, <2>4 DEF TableCounts
<1>3. CASE \E i \in FreeIndexes :
             /\ connections' = [connections EXCEPT ![i] = c]
             /\ index' = [index EXCEPT ![c] = i]
             /\ indexMax' = IF i > indexMax THEN i ELSE indexMax
             /\ running' = running + 1
  BY <1>2, <1>3
<1>4. \/ FreeIndexes = {} /\ UNCHANGED tableVars
      \/ \E i \in FreeIndexes :
           /\ connections' = [connections EXCEPT ![i] = c]
           /\ index' = [index EXCEPT ![c] = i]
           /\ indexMax' = IF i > indexMax THEN i ELSE indexMax
           /\ running' = running + 1
  BY DEF PushConn
<1> QED  BY <1>1, <1>3, <1>4 DEF tableVars

(* service_popconn clears the entry that the index of the connection names *)
(* when it holds the connection, and no other entry.                       *)
LEMMA PopTable ==
  ASSUME TableCounts, NEW c \in Conns, PopConn(c)
  PROVE  /\ TableCounts'
         /\ index' = index
         /\ \A i \in Indexes : connections'[i] \in {connections[i], NoConn}
         /\ \A i \in Indexes : connections[i] # c => connections'[i] = connections[i]
         /\ index[c] # -1 => connections'[index[c]] # c
<1>1. c # NoConn
  BY ConnsAssumption
<1>2. CASE ~HoldsItsIndex(c) /\ UNCHANGED tableVars
  <2>1. index[c] # -1 => connections[index[c]] # c
    BY <1>1, <1>2 DEF TableCounts, TableTypeOK, IndexMaxBounds, HoldsItsIndex, Indexes
  <2> QED  BY <1>2, <2>1 DEF tableVars, TableCounts, TableTypeOK, IndexMaxBounds,
                RunningCounts
<1>3. CASE /\ HoldsItsIndex(c)
           /\ connections' = [connections EXCEPT ![index[c]] = NoConn]
           /\ running' = running - 1
           /\ indexMax' = IF indexMax = index[c] THEN indexMax - 1 ELSE indexMax
           /\ UNCHANGED index
  <2>1. index[c] \in Indexes /\ connections[index[c]] = c
    BY <1>3 DEF HoldsItsIndex, TableCounts, TableTypeOK
  <2>2. TableTypeOK'
    BY <1>3, <2>1, LimitAssumption DEF TableCounts, TableTypeOK, Indexes
  <2>3. IndexMaxBounds'
    BY <1>3, <2>1, LimitAssumption
       DEF TableCounts, TableTypeOK, IndexMaxBounds, Indexes
  <2>4. RunningCounts'
    <3>1. Occupied' = Occupied \ {index[c]} /\ index[c] \in Occupied
      BY <1>1, <1>3, <2>1 DEF Occupied, TableCounts, TableTypeOK
    <3>2. Cardinality(Occupied') = Cardinality(Occupied) - 1
      BY <3>1, OccupiedIsFinite, FS_RemoveElement
    <3> QED  BY <1>3, <3>2 DEF TableCounts, RunningCounts, Occupied
  <2>5. /\ \A i \in Indexes : connections'[i] \in {connections[i], NoConn}
        /\ \A i \in Indexes : connections[i] # c => connections'[i] = connections[i]
        /\ connections'[index[c]] # c
    BY <1>1, <1>3, <2>1 DEF TableCounts, TableTypeOK
  <2> QED  BY <1>3, <2>2, <2>3, <2>4, <2>5 DEF TableCounts
<1> QED  BY <1>2, <1>3 DEF PopConn

(* conn_reset forgets an index and leaves the entries alone.               *)
LEMMA ForgetTable ==
  ASSUME TableCounts, NEW c \in Conns, ForgetIndex(c)
  PROVE  /\ TableCounts'
         /\ connections' = connections
         /\ index' = [index EXCEPT ![c] = -1]
BY DEF ForgetIndex, TableCounts, TableTypeOK, IndexMaxBounds, RunningCounts

(* A step that leaves the table alone.                                     *)
LEMMA StillTable ==
  ASSUME TableCounts, UNCHANGED tableVars
  PROVE  TableCounts' /\ UNCHANGED <<connections, index>>
BY DEF tableVars, TableCounts, TableTypeOK, IndexMaxBounds, RunningCounts

-----------------------------------------------------------------------------
(* The inductive invariant.                                                *)

TokenOps == PipelineOps \cup {"NEW_SESSION"}

(* A connection has at most one token.                                     *)
TokenIsUnique ==
  \A t, s \in Threads : \A i \in 1 .. Len(mq[t]), j \in 1 .. Len(mq[s]) :
    /\ mq[t][i].op \in TokenOps /\ mq[s][j].op \in TokenOps
    /\ mq[t][i].conn = mq[s][j].conn
    => t = s /\ i = j

(* NEW_SESSION is under way only for a connection that is not bound yet, a *)
(* removal message only for a bound and closing one, of which it has every *)
(* field right.                                                            *)
Fits(m) ==
  /\ m.op = "NEW_SESSION" => place[m.conn] = "used" /\ parent[m.conn] = NoThread
  /\ m.op \in PipelineOps =>
       /\ place[m.conn] = "used" /\ dstate[m.conn] = "close"
       /\ parent[m.conn] # NoThread
       /\ Accepts(m)
       /\ m.life = life[m.conn]

TokensFit == \A t \in Threads : \A i \in 1 .. Len(mq[t]) : Fits(mq[t][i])

(* A thread that has yet to bind or announce its connection is the only    *)
(* one, and the connection is not bound.                                   *)
Binding(a) == add[a].at \in {"bind", "announce"}

BindersFit ==
  /\ \A a \in Adders : Binding(a) =>
       place[add[a].conn] = "used" /\ parent[add[a].conn] = NoThread
  /\ \A a, b \in Adders :
       Binding(a) /\ Binding(b) /\ add[a].conn = add[b].conn => a = b
  /\ \A a \in Adders : Binding(a) =>
       \A t \in Threads : \A i \in 1 .. Len(mq[t]) :
         mq[t][i].op = "NEW_SESSION" => mq[t][i].conn # add[a].conn

(* What each place of a connection says of its fields.                     *)
FieldsFitPlace ==
  \A c \in Conns :
    /\ place[c] \in {"heap", "pool"} =>
         fd[c] = 0 /\ dstate[c] = "free" /\ parent[c] = NoThread
    /\ place[c] = "reset" => fd[c] = 0 /\ dstate[c] = "free"
    /\ place[c] \in {"used", "popped", "closed"} => fd[c] \in Fds
    /\ place[c] \in {"popped", "closed"} => dstate[c] = "close"

(* A thread terminates a connection alone.                                 *)
QuittingIsCurrent ==
  /\ \A t \in Threads :
       quitting[t] # NoConn => place[quitting[t]] \in {"popped", "closed", "reset"}
  /\ \A t, s \in Threads :
       quitting[t] # NoConn /\ quitting[t] = quitting[s] => t = s

(* qconns and the place "pool" say the same.                               *)
PoolFits ==
  /\ \A i, j \in 1 .. Len(qconns) : qconns[i] = qconns[j] => i = j
  /\ \A c \in Conns :
       place[c] = "pool" <=> \E i \in 1 .. Len(qconns) : qconns[i] = c

(* The part of the invariant that does not look at the queues.             *)
PlacesFit ==
  /\ TableFits
  /\ TableHoldsUsed
  /\ FieldsFitPlace
  /\ QuittingIsCurrent
  /\ PoolFits
  /\ FdHasOneOwner

IInv == TypeOK /\ TokenIsUnique /\ TokensFit /\ BindersFit /\ PlacesFit

-----------------------------------------------------------------------------
(* Queues.  A step pops the head of the queues of the threads in P and may *)
(* append n to the queue of s; Src says where a message of mq' came from.  *)

Src(P, q, i) == IF q \in P THEN i + 1 ELSE i

QueueStep(P, s, n) ==
  /\ mq' \in [Threads -> Seq(Message)]
  /\ \A q \in Threads : \A i \in 1 .. Len(mq'[q]) :
       \/ /\ Src(P, q, i) \in 1 .. Len(mq[q])
          /\ mq'[q][i] = mq[q][Src(P, q, i)]
       \/ /\ q = s
          /\ Src(P, q, i) = Len(mq[q]) + 1
          /\ mq'[q][i] = n

(* qmessage_push appends one message.                                      *)
LEMMA PushStep ==
  ASSUME mq \in [Threads -> Seq(Message)],
         NEW s \in Threads, NEW n \in Message, Push(s, n)
  PROVE  QueueStep({}, s, n)
BY DEF Push, QueueStep, Src

(* qmessage_pop takes the first message.                                   *)
LEMMA PopStep ==
  ASSUME mq \in [Threads -> Seq(Message)], NEW n,
         NEW t \in Threads, NEW s, mq[t] # <<>>, Pop(t)
  PROVE  QueueStep({t}, s, n)
BY DEF Pop, QueueStep, Src

(* A handler that passes a removal on takes one message and appends one.   *)
LEMMA PopAndPushStep ==
  ASSUME mq \in [Threads -> Seq(Message)],
         NEW t \in Threads, NEW s, NEW n \in Message,
         mq[t] # <<>>, PopAndPush(t, s, n)
  PROVE  QueueStep({t}, s, n)
<1>1. mq' \in [Threads -> Seq(Message)]
  BY DEF PopAndPush
<1>2. ASSUME NEW q \in Threads, NEW i \in 1 .. Len(mq'[q])
      PROVE  \/ /\ Src({t}, q, i) \in 1 .. Len(mq[q])
                /\ mq'[q][i] = mq[q][Src({t}, q, i)]
             \/ /\ q = s
                /\ Src({t}, q, i) = Len(mq[q]) + 1
                /\ mq'[q][i] = n
  <2> DEFINE rest == IF q = t THEN Tail(mq[q]) ELSE mq[q]
  <2>1. /\ rest \in Seq(Message)
        /\ Len(rest) = IF q = t THEN Len(mq[q]) - 1 ELSE Len(mq[q])
        /\ \A j \in 1 .. Len(rest) :
             /\ Src({t}, q, j) \in 1 .. Len(mq[q])
             /\ rest[j] = mq[q][Src({t}, q, j)]
    BY DEF Src
  <2>2. mq'[q] = IF q = s THEN Append(rest, n) ELSE rest
    BY DEF PopAndPush
  <2> HIDE DEF rest
  <2>3. CASE q # s
    BY <2>1, <2>2, <2>3
  <2>4. CASE q = s
    <3>1. /\ mq'[q] = Append(rest, n)
          /\ Len(mq'[q]) = Len(rest) + 1
          /\ \A j \in 1 .. Len(rest) : mq'[q][j] = rest[j]
          /\ mq'[q][Len(rest) + 1] = n
      <4>1. mq'[q] = Append(rest, n)
        BY <2>2, <2>4
      <4>2. /\ Len(Append(rest, n)) = Len(rest) + 1
            /\ \A j \in 1 .. Len(rest) : Append(rest, n)[j] = rest[j]
            /\ Append(rest, n)[Len(rest) + 1] = n
        <5>1. rest \in Seq(Message)
          BY <2>1
        <5> QED  BY <5>1, AppendProperties
      <4> QED  BY <4>1, <4>2
    <3>2. Len(rest) \in Nat
      BY <2>1, LenProperties
    <3>3. CASE i \in 1 .. Len(rest)
      BY <2>1, <3>1, <3>3
    <3>4. CASE i = Len(rest) + 1
      BY <2>1, <2>4, <3>1, <3>4 DEF Src
    <3> QED  BY <3>1, <3>2, <3>3, <3>4
  <2> QED  BY <2>3, <2>4
<1> QED  BY <1>1, <1>2 DEF QueueStep

(* A step that does not touch the queues.                                  *)
LEMMA StillStep ==
  ASSUME mq \in [Threads -> Seq(Message)], NEW s, NEW n, UNCHANGED mq
  PROVE  QueueStep({}, s, n)
BY DEF QueueStep, Src

(* Tokens stay unique when the step pushes none, or one for a connection   *)
(* that has no other token than the one the step takes.                    *)
LEMMA TokenIsUniqueStep ==
  ASSUME mq \in [Threads -> Seq(Message)],
         NEW P, NEW s, NEW n, QueueStep(P, s, n), TokenIsUnique,
         n.op \in TokenOps =>
           \A q \in Threads : \A j \in 1 .. Len(mq[q]) :
             mq[q][j].op \in TokenOps /\ mq[q][j].conn = n.conn => q \in P /\ j = 1
  PROVE  TokenIsUnique'
<1> DEFINE Old(q, i) == /\ Src(P, q, i) \in 1 .. Len(mq[q])
                        /\ mq'[q][i] = mq[q][Src(P, q, i)]
           New(q, i) == /\ q = s
                        /\ Src(P, q, i) = Len(mq[q]) + 1
                        /\ mq'[q][i] = n
<1> SUFFICES ASSUME NEW t \in Threads, NEW u \in Threads,
                    NEW i \in 1 .. Len(mq'[t]), NEW j \in 1 .. Len(mq'[u]),
                    mq'[t][i].op \in TokenOps, mq'[u][j].op \in TokenOps,
                    mq'[t][i].conn = mq'[u][j].conn
             PROVE  t = u /\ i = j
  BY DEF TokenIsUnique
<1>1. (Old(t, i) \/ New(t, i)) /\ (Old(u, j) \/ New(u, j))
  BY DEF QueueStep
<1>2. i \in Nat /\ j \in Nat /\ i > 0 /\ j > 0
  BY DEF QueueStep
<1>3. CASE Old(t, i) /\ Old(u, j)
  <2>1. t = u /\ Src(P, t, i) = Src(P, u, j)
    BY <1>3 DEF TokenIsUnique
  <2> QED  BY <2>1, <1>2 DEF Src
<1>4. CASE Old(t, i) /\ New(u, j)
  BY <1>2, <1>4 DEF Src
<1>5. CASE New(t, i) /\ Old(u, j)
  BY <1>2, <1>5 DEF Src
<1>6. CASE New(t, i) /\ New(u, j)
  BY <1>2, <1>6 DEF Src
<1> QED  BY <1>1, <1>3, <1>4, <1>5, <1>6

(* What a token relies on does not change for connection d.                *)
SameConn(d) ==
  /\ place'[d] = place[d] /\ fd'[d] = fd[d] /\ life'[d] = life[d]
  /\ parent'[d] = parent[d]
  /\ \A i \in Indexes : connections[i] = d => connections'[i] = d
  /\ dstate[d] = "close" => dstate'[d] = "close"

(* The message m fits the state that the step leads to.                    *)
FitsNext(m) ==
  /\ m.op = "NEW_SESSION" => place'[m.conn] = "used" /\ parent'[m.conn] = NoThread
  /\ m.op \in PipelineOps =>
       /\ place'[m.conn] = "used" /\ dstate'[m.conn] = "close"
       /\ parent'[m.conn] # NoThread
       /\ m.fd = fd'[m.conn]
       /\ m.index # -1 => connections'[m.index] = m.conn
       /\ m.life = life'[m.conn]

(* Tokens keep fitting when the step takes the token of every connection   *)
(* it changes, and the message it pushes fits.                             *)
LEMMA TokensFitStep ==
  ASSUME mq \in [Threads -> Seq(Message)],
         NEW P, NEW s, NEW n, QueueStep(P, s, n), TokensFit,
         \A q \in Threads : \A j \in 1 .. Len(mq[q]) :
           mq[q][j].op \in TokenOps
           => SameConn(mq[q][j].conn) \/ (q \in P /\ j = 1),
         FitsNext(n)
  PROVE  TokensFit'
<1> SUFFICES ASSUME NEW q \in Threads, NEW i \in 1 .. Len(mq'[q])
             PROVE  Fits(mq[q][i])'
  BY DEF TokensFit
<1>1. CASE /\ Src(P, q, i) \in 1 .. Len(mq[q])
           /\ mq'[q][i] = mq[q][Src(P, q, i)]
  <2> DEFINE m == mq[q][Src(P, q, i)]
  <2>1. Fits(m)
    BY <1>1 DEF TokensFit
  <2>2. m.index \in Indexes \cup {-1}
    <3>1. mq[q] \in Seq(Message)
      OBVIOUS
    <3>2. m \in Message
      BY <1>1, <3>1, ElementOfSeq
    <3> QED  BY <3>2 DEF Message
  <2>3. CASE m.op \notin TokenOps
    BY <1>1, <2>3 DEF Fits, TokenOps
  <2>4. CASE m.op \in TokenOps
    <3>1. ~(q \in P /\ Src(P, q, i) = 1)
      BY DEF QueueStep, Src
    <3>2. SameConn(m.conn)
      BY <1>1, <2>4, <3>1
    <3>3. mq'[q][i] = m
      BY <1>1
    <3> HIDE DEF m
    <3> QED  BY <2>1, <2>2, <3>2, <3>3 DEF Fits, SameConn, Accepts
  <2> QED  BY <2>3, <2>4
<1>2. CASE mq'[q][i] = n
  BY <1>2 DEF Fits, FitsNext, Accepts
<1> QED  BY <1>1, <1>2 DEF QueueStep

(* Threads that bind stay alone when the step leaves them and their        *)
(* connections as they are and pushes no NEW_SESSION about one of them.    *)
LEMMA BindersStep ==
  ASSUME BindersFit, NEW P, NEW s, NEW n, QueueStep(P, s, n),
         \A a \in Adders : Binding(a)' =>
           /\ add'[a] = add[a]
           /\ place'[add[a].conn] = place[add[a].conn]
           /\ parent'[add[a].conn] = parent[add[a].conn]
           /\ n.op = "NEW_SESSION" => n.conn # add[a].conn
  PROVE  BindersFit'
<1>1. \A a \in Adders : Binding(a)' => Binding(a)
  BY DEF Binding
<1>2. ASSUME NEW a \in Adders, Binding(a)', NEW q \in Threads,
             NEW i \in 1 .. Len(mq'[q]), mq'[q][i].op = "NEW_SESSION"
      PROVE  mq'[q][i].conn # add'[a].conn
  <2>1. CASE /\ Src(P, q, i) \in 1 .. Len(mq[q])
             /\ mq'[q][i] = mq[q][Src(P, q, i)]
    BY <1>1, <1>2, <2>1 DEF BindersFit
  <2>2. CASE mq'[q][i] = n
    BY <1>2, <2>2
  <2> QED  BY <2>1, <2>2 DEF QueueStep
<1>3. \A a \in Adders : Binding(a)' =>
        place'[add'[a].conn] = "used" /\ parent'[add'[a].conn] = NoThread
  BY <1>1 DEF BindersFit
<1>4. \A a, b \in Adders :
        Binding(a)' /\ Binding(b)' /\ add'[a].conn = add'[b].conn => a = b
  BY <1>1 DEF BindersFit
<1> QED  BY <1>2, <1>3, <1>4 DEF BindersFit

-----------------------------------------------------------------------------
(* Facts that the steps share.                                             *)

(* The message constructors build messages.                                 *)
LEMMA MsgType ==
  ASSUME TypeOK, NEW op \in Ops, NEW c \in Conns
  PROVE  Msg(op, c) \in Message /\ MsgNoIndex(op, c) \in Message
BY DEF TypeOK, TableTypeOK, Msg, MsgNoIndex, Message

(* The first message of a queue is a message, about a connection.           *)
LEMMA HeadFacts ==
  ASSUME TypeOK, NEW t \in Threads, mq[t] # <<>>
  PROVE  /\ Head(mq[t]) \in Message /\ Head(mq[t]).conn \in Conns
         /\ 1 \in 1 .. Len(mq[t]) /\ Head(mq[t]) = mq[t][1]
<1>1. mq[t] \in Seq(Message)
  BY DEF TypeOK
<1>2. Head(mq[t]) \in Message /\ 1 \in 1 .. Len(mq[t]) /\ Head(mq[t]) = mq[t][1]
  BY <1>1
<1> QED  BY <1>2 DEF Message

(* Every queued message is a message, about a connection.                   *)
LEMMA MessageConn ==
  ASSUME TypeOK
  PROVE  \A q \in Threads : \A j \in 1 .. Len(mq[q]) :
           mq[q][j] \in Message /\ mq[q][j].conn \in Conns
<1>1. ASSUME NEW q \in Threads, NEW j \in 1 .. Len(mq[q])
      PROVE  mq[q][j] \in Message
  <2>1. mq[q] \in Seq(Message)
    BY DEF TypeOK
  <2> QED  BY <2>1, ElementOfSeq
<1> QED  BY <1>1 DEF Message

(* Pushing a message that is no token, or popping one.                     *)
NoToken == [op |-> "WORK"]

(* NoToken asks nothing of its connection.                                 *)
LEMMA NoTokenFits == NoToken.op \notin TokenOps /\ Fits(NoToken) /\ FitsNext(NoToken)
BY DEF NoToken, TokenOps, PipelineOps, Fits, FitsNext

(* A step that changes no field the places speak of.                       *)
LEMMA PlacesKept ==
  ASSUME TypeOK, PlacesFit,
         UNCHANGED <<tableVars, place, fd, dstate, late, quitting, qconns, openFds>>,
         \A c \in Conns : place[c] \in {"heap", "pool"} => parent'[c] = parent[c]
  PROVE  PlacesFit' /\ TableTypeOK'
<1>1. TableCounts
  BY DEF TypeOK, PlacesFit, TableFits, TableCounts
<1>2. TableCounts' /\ UNCHANGED <<connections, index>>
  BY <1>1, StillTable DEF tableVars
<1>3. TableFits' /\ TableHoldsUsed'
  BY <1>2 DEF PlacesFit, TableFits, IndexNamesEntry, TableHoldsUsed, TableCounts
<1>4. FieldsFitPlace' /\ QuittingIsCurrent' /\ PoolFits' /\ FdHasOneOwner'
  BY DEF PlacesFit, FieldsFitPlace, QuittingIsCurrent, PoolFits, FdHasOneOwner
<1> QED  BY <1>2, <1>3, <1>4 DEF PlacesFit, TableCounts

(* The same step may move messages, as long as the tokens stay unique and  *)
(* fit and no thread starts to bind, and changes the other variables       *)
(* within their types.                                                     *)
LEMMA QuietStep ==
  ASSUME IInv, NEW P, NEW s, NEW n, QueueStep(P, s, n),
         UNCHANGED <<tableVars, place, fd, dstate, parent, life, late, quitting,
                     qconns, openFds>>,
         events' \in [Conns -> SUBSET {"in", "out"}],
         call' \in [Users -> Calls],
         add' \in [Threads \cup Adders -> AddStates],
         \A a \in Adders : Binding(a)' =>
           add'[a] = add[a] /\ (n.op = "NEW_SESSION" => n.conn # add[a].conn),
         n.op \in TokenOps =>
           \A q \in Threads : \A j \in 1 .. Len(mq[q]) :
             mq[q][j].op \in TokenOps /\ mq[q][j].conn = n.conn => q \in P /\ j = 1,
         Fits(n)
  PROVE  IInv'
<1>1. PlacesFit' /\ TableTypeOK'
  BY PlacesKept DEF IInv
<1>2. TokenIsUnique'
  BY TokenIsUniqueStep DEF IInv, TypeOK
<1>3. TokensFit'
  <2>1. FitsNext(n)
    BY DEF Fits, FitsNext, Accepts, tableVars
  <2>2. \A d : SameConn(d)
    BY DEF SameConn, tableVars
  <2> QED  BY <2>1, <2>2, TokensFitStep DEF IInv, TypeOK
<1>4. BindersFit'
  BY BindersStep DEF IInv
<1>5. TypeOK'
  BY <1>1 DEF IInv, TypeOK, QueueStep
<1> QED  BY <1>1, <1>2, <1>3, <1>4, <1>5 DEF IInv

-----------------------------------------------------------------------------
(* One lemma per action.                                                   *)

(* conn_close and conn_push_message up to their look at d_state.           *)
LEMMA BeginCallKeeps ==
  ASSUME IInv, NEW u \in Users, NEW c \in Conns, NEW op \in {"close", "work"},
         BeginCall(u, c, op)
  PROVE  IInv'
<1>1. QueueStep({}, Daemon, NoToken)
  BY StillStep DEF IInv, TypeOK, BeginCall
<1>2. call' \in [Users -> Calls]
  BY DEF IInv, TypeOK, BeginCall, Calls
<1> QED  BY <1>1, <1>2, NoTokenFits, QuietStep
         DEF BeginCall, IInv, TypeOK, connVars, NoToken

(* conn_push_message pushes with whatever the connection is by then.       *)
LEMMA FinishWorkKeeps ==
  ASSUME IInv, NEW u \in Users, FinishWork(u)
  PROVE  IInv'
<1> DEFINE c == call[u].conn
           m == Msg("WORK", c)
<1>1. call[u] \in Calls /\ call[u].op = "work"
  BY DEF IInv, TypeOK, FinishWork
<1>2. c \in Conns
  BY <1>1 DEF Calls, NoCall
<1>3. m \in Message
  BY <1>2, MsgType DEF IInv, Ops
<1>4. m.op = "WORK"
  BY DEF Msg
<1>5. m.op \notin TokenOps /\ Fits(m)
  BY <1>4 DEF TokenOps, PipelineOps, Fits
<1>6. call' \in [Users -> Calls]
  BY DEF IInv, TypeOK, FinishWork, EndCall, Calls
<1>7. UNCHANGED <<tableVars, connVars, add, qconns, openFds, quitting>>
  BY DEF FinishWork
<1> HIDE DEF m
<1>8. CASE UNCHANGED mq
  <2>1. QueueStep({}, Daemon, NoToken)
    BY <1>8, StillStep DEF IInv, TypeOK
  <2> QED  BY <2>1, <1>6, <1>7, NoTokenFits, QuietStep
           DEF IInv, TypeOK, connVars, NoToken
<1>9. ASSUME NEW q \in Threads, Push(q, m)
      PROVE  IInv'
  <2>1. QueueStep({}, q, m)
    BY <1>3, <1>9, PushStep DEF IInv, TypeOK
  <2> QED  BY <2>1, <1>4, <1>5, <1>6, <1>7, QuietStep DEF IInv, TypeOK, connVars
<1> QED  BY <1>8, <1>9 DEF FinishWork, m

(* procthread_newtransaction pushes without an index.                      *)
LEMMA NewTransactionKeeps ==
  ASSUME IInv, NEW c \in Conns, NewTransaction(c)
  PROVE  IInv'
<1> DEFINE m == MsgNoIndex("TRANSACTION", c)
<1>1. m \in Message
  BY MsgType DEF IInv, Ops
<1>2. m.op = "TRANSACTION" /\ m.op \notin TokenOps /\ Fits(m)
  BY DEF MsgNoIndex, Msg, TokenOps, PipelineOps, Fits
<1>3. ProcOf[fd[c]] \in Threads
  <2>1. fd[c] \in Fds
    BY DEF NewTransaction, IInv, TypeOK
  <2>2. ProcOf[fd[c]] \in ProcThreads
    BY <2>1, ThreadsAssumption
  <2> QED  BY <2>2 DEF Threads
<1>4. QueueStep({}, ProcOf[fd[c]], m)
  BY <1>1, <1>3, PushStep DEF IInv, TypeOK, NewTransaction
<1> HIDE DEF m
<1> QED  BY <1>2, <1>4, QuietStep DEF NewTransaction, IInv, TypeOK, connVars

(* The steps that only take a message which is no removal token.           *)
LEMMA PopKeeps ==
  ASSUME IInv, NEW t \in Threads, mq[t] # <<>>, Pop(t),
         UNCHANGED <<tableVars, connVars, add, qconns, openFds, quitting, call>>
  PROVE  IInv'
<1>1. QueueStep({t}, Daemon, NoToken)
  BY PopStep DEF IInv, TypeOK
<1> QED  BY <1>1, NoTokenFits, QuietStep DEF IInv, TypeOK, connVars, NoToken

(* qmessage_handler drops a message that is not accepted.                  *)
LEMMA DropMessageKeeps ==
  ASSUME IInv, NEW t \in Threads, DropMessage(t)
  PROVE  IInv'
BY PopKeeps DEF DropMessage, Ready

(* A handler that leaves the table and the pool alone.                     *)
LEMMA HandleWorkKeeps ==
  ASSUME IInv, NEW t \in Threads, HandleWork(t)
  PROVE  IInv'
BY PopKeeps DEF HandleWork, Dispatches, Ready

(* Where the thread a is going, it does not bind.                          *)
LEMMA AddTypes ==
  ASSUME TypeOK, NEW a \in Threads \cup Adders
  PROVE  /\ add[a].at # "none" => add[a].conn \in Conns
         /\ StopsAdding(a) =>
              /\ add' \in [Threads \cup Adders -> AddStates]
              /\ \A b \in Adders : Binding(b)' => add'[b] = add[b] /\ b # a
         /\ \A c \in Conns : \A at \in {"push", "set"} : Adds(a, at, c) =>
              /\ add' \in [Threads \cup Adders -> AddStates]
              /\ \A b \in Adders : Binding(b)' => add'[b] = add[b] /\ b # a
<1>1. add[a] \in AddStates
  BY DEF TypeOK
<1>2. add[a].at # "none" => add[a].conn \in Conns
  BY <1>1 DEF AddStates, Idle
<1>3. StopsAdding(a) =>
        /\ add' \in [Threads \cup Adders -> AddStates]
        /\ \A b \in Adders : Binding(b)' => add'[b] = add[b] /\ b # a
  BY DEF StopsAdding, TypeOK, AddStates, Idle, Binding
<1>4. \A c \in Conns : \A at \in {"push", "set"} : Adds(a, at, c) =>
        /\ add' \in [Threads \cup Adders -> AddStates]
        /\ \A b \in Adders : Binding(b)' => add'[b] = add[b] /\ b # a
  BY DEF Adds, TypeOK, AddStates, Binding
<1> QED  BY <1>2, <1>3, <1>4

(* conn_set registers the events of whatever the connection is by then.    *)
LEMMA SetConnKeeps ==
  ASSUME IInv, NEW a \in Threads \cup Adders, SetConn(a)
  PROVE  IInv'
<1> DEFINE c == add[a].conn
<1>1. /\ add[a].at = "set" /\ StopsAdding(a)
      /\ UNCHANGED <<tableVars, place, fd, dstate, parent, life, qconns, openFds, mq,
                     quitting, call>>
  BY DEF SetConn
<1>2. c \in Conns
  BY <1>1, AddTypes DEF IInv
<1>3. /\ add' \in [Threads \cup Adders -> AddStates]
      /\ \A b \in Adders : Binding(b)' => add'[b] = add[b]
  BY <1>1, AddTypes DEF IInv
<1>4. events' \in [Conns -> SUBSET {"in", "out"}]
  BY DEF IInv, TypeOK, SetConn, SetEvents
<1>5. late' \subseteq Conns /\ late \subseteq late'
  BY <1>2 DEF IInv, TypeOK, SetConn
<1>6. QueueStep({}, Daemon, NoToken)
  BY <1>1, StillStep DEF IInv, TypeOK
<1>7. TokenIsUnique'
  BY <1>6, NoTokenFits, TokenIsUniqueStep DEF IInv, TypeOK
<1>8. TokensFit'
  <2>1. \A d : SameConn(d)
    BY <1>1 DEF SameConn, tableVars
  <2> QED  BY <1>6, <2>1, NoTokenFits, TokensFitStep DEF IInv, TypeOK
<1>9. BindersFit'
  BY <1>1, <1>3, <1>6, BindersStep DEF IInv, NoToken
<1>10. TableCounts' /\ UNCHANGED <<connections, index>>
  BY <1>1, StillTable DEF IInv, TypeOK, PlacesFit, TableFits, TableCounts, tableVars
<1>11. TableFits' /\ TableHoldsUsed'
  BY <1>1, <1>5, <1>10
     DEF IInv, PlacesFit, TableFits, IndexNamesEntry, TableHoldsUsed, TableCounts
<1>12. FieldsFitPlace' /\ QuittingIsCurrent' /\ PoolFits' /\ FdHasOneOwner'
  BY <1>1 DEF IInv, PlacesFit, FieldsFitPlace, QuittingIsCurrent, PoolFits,
     FdHasOneOwner
<1>13. TypeOK'
  BY <1>1, <1>3, <1>4, <1>5, <1>10 DEF IInv, TypeOK, TableCounts
<1> QED  BY <1>7, <1>8, <1>9, <1>11, <1>12, <1>13 DEF IInv, PlacesFit

(* A handler that takes the removal token of c and passes it on.           *)
LEMMA PassOnKeeps ==
  ASSUME IInv, NEW t \in Threads, mq[t] # <<>>, NEW s,
         Head(mq[t]).op \in PipelineOps, NEW op \in PipelineOps,
         PopAndPush(t, s, Msg(op, Head(mq[t]).conn)),
         UNCHANGED <<tableVars, place, fd, dstate, parent, life, late, add,
                     qconns, openFds, quitting, call>>,
         events' \in [Conns -> SUBSET {"in", "out"}]
  PROVE  IInv'
<1> DEFINE c == Head(mq[t]).conn
           m == Msg(op, c)
<1>1. /\ c \in Conns /\ 1 \in 1 .. Len(mq[t]) /\ Head(mq[t]) = mq[t][1]
  BY HeadFacts DEF IInv
<1>2. m \in Message
  BY <1>1, MsgType DEF IInv, Ops
<1>3. QueueStep({t}, s, m)
  BY <1>2, PopAndPushStep DEF IInv, TypeOK
<1>4. Fits(mq[t][1])
  BY <1>1 DEF IInv, TokensFit
<1>5. Fits(m) /\ m.op # "NEW_SESSION"
  <2>1. place[c] = "used" /\ dstate[c] = "close" /\ parent[c] # NoThread
    BY <1>1, <1>4 DEF Fits
  <2>2. index[c] # -1 => connections[index[c]] = c
    BY <1>1, <2>1 DEF IInv, PlacesFit, TableFits, IndexNamesEntry
  <2> QED  BY <2>1, <2>2 DEF Fits, Msg, PipelineOps, Accepts
<1>6. \A q \in Threads : \A j \in 1 .. Len(mq[q]) :
        mq[q][j].op \in TokenOps /\ mq[q][j].conn = m.conn => q \in {t} /\ j = 1
  <2>1. mq[t][1].op \in TokenOps /\ mq[t][1].conn = m.conn
    BY <1>1 DEF TokenOps, Msg
  <2> QED  BY <1>1, <2>1 DEF IInv, TokenIsUnique
<1> HIDE DEF m
<1> QED  BY <1>3, <1>5, <1>6, QuietStep DEF IInv, TypeOK

(* conn_shut_handler passes the removal on.                                *)
LEMMA HandleShutKeeps ==
  ASSUME IInv, NEW t \in Threads, HandleShut(t)
  PROVE  IInv'
<1>1. /\ mq[t] # <<>> /\ Head(mq[t]).op \in PipelineOps
      /\ events' \in [Conns -> SUBSET {"in", "out"}]
      /\ UNCHANGED <<tableVars, place, fd, dstate, parent, life, late, add,
                     qconns, openFds, quitting, call>>
  BY DEF HandleShut, Dispatches, Ready, PipelineOps, IInv, TypeOK, connVars
<1>2. \E s : \E op \in PipelineOps : PopAndPush(t, s, Msg(op, Head(mq[t]).conn))
  BY DEF HandleShut, PipelineOps
<1> QED  BY <1>1, <1>2, PassOnKeeps

(* conn_shutout_handler passes the removal on.                             *)
LEMMA HandleShutoutKeeps ==
  ASSUME IInv, NEW t \in Threads, HandleShutout(t)
  PROVE  IInv'
<1>1. /\ mq[t] # <<>> /\ Head(mq[t]).op \in PipelineOps
      /\ events' \in [Conns -> SUBSET {"in", "out"}]
      /\ UNCHANGED <<tableVars, place, fd, dstate, parent, life, late, add,
                     qconns, openFds, quitting, call>>
  BY DEF HandleShutout, Dispatches, Ready, PipelineOps, IInv, TypeOK
<1>2. \E s : \E op \in PipelineOps : PopAndPush(t, s, Msg(op, Head(mq[t]).conn))
  BY DEF HandleShutout, PipelineOps
<1> QED  BY <1>1, <1>2, PassOnKeeps

(* procthread_over_connection passes the removal on.                       *)
LEMMA HandleOverKeeps ==
  ASSUME IInv, NEW t \in Threads, HandleOver(t)
  PROVE  IInv'
<1>1. /\ mq[t] # <<>> /\ Head(mq[t]).op \in PipelineOps
      /\ events' \in [Conns -> SUBSET {"in", "out"}]
      /\ UNCHANGED <<tableVars, place, fd, dstate, parent, life, late, add,
                     qconns, openFds, quitting, call>>
  BY DEF HandleOver, Dispatches, Ready, PipelineOps, IInv, TypeOK
<1>2. \E s : \E op \in PipelineOps : PopAndPush(t, s, Msg(op, Head(mq[t]).conn))
  BY DEF HandleOver, PipelineOps
<1> QED  BY <1>1, <1>2, PassOnKeeps

(* procthread_addconn pushes the first token of the connection.            *)
LEMMA AnnounceConnKeeps ==
  ASSUME IInv, NEW a \in Adders, AnnounceConn(a)
  PROVE  IInv'
<1> DEFINE c == add[a].conn
           m == MsgNoIndex("NEW_SESSION", c)
<1>1. /\ Binding(a) /\ add[a].at # "none" /\ StopsAdding(a)
      /\ Push(ProcOf[fd[c]], m)
      /\ UNCHANGED <<tableVars, connVars, qconns, openFds, quitting, call>>
  BY DEF AnnounceConn, Binding
<1>2. c \in Conns
  BY <1>1, AddTypes DEF IInv
<1>3. place[c] = "used" /\ parent[c] = NoThread /\ fd[c] \in Fds
  BY <1>1, <1>2 DEF IInv, BindersFit, PlacesFit, FieldsFitPlace
<1>4. m \in Message /\ m.conn = c /\ m.op = "NEW_SESSION"
  BY <1>2, MsgType DEF IInv, Ops, MsgNoIndex, Msg
<1>5. ProcOf[fd[c]] \in Threads
  BY <1>3, ThreadsAssumption DEF Threads
<1>6. QueueStep({}, ProcOf[fd[c]], m)
  BY <1>1, <1>4, <1>5, PushStep DEF IInv, TypeOK
<1>7. Fits(m)
  BY <1>3, <1>4 DEF Fits, PipelineOps
<1>8. \A q \in Threads : \A j \in 1 .. Len(mq[q]) :
        mq[q][j].op \in TokenOps => mq[q][j].conn # c
  BY <1>1, <1>3 DEF IInv, TokensFit, Fits, TokenOps, BindersFit
<1>9. /\ add' \in [Threads \cup Adders -> AddStates]
      /\ \A b \in Adders : Binding(b)' => add'[b] = add[b] /\ b # a
  BY <1>1, AddTypes DEF IInv
<1>10. \A b \in Adders : Binding(b)' =>
         add'[b] = add[b] /\ (m.op = "NEW_SESSION" => m.conn # add[b].conn)
  <2>1. \A b \in Adders : Binding(b)' => Binding(b)
    BY <1>9 DEF Binding
  <2> QED  BY <1>1, <1>4, <1>9, <2>1 DEF IInv, BindersFit
<1> HIDE DEF m
<1>11. /\ UNCHANGED <<tableVars, place, fd, dstate, parent, life, late, quitting,
                      qconns, openFds>>
       /\ events' \in [Conns -> SUBSET {"in", "out"}] /\ call' \in [Users -> Calls]
  BY <1>1 DEF connVars, IInv, TypeOK
<1>12. m.op \in TokenOps =>
         \A q \in Threads : \A j \in 1 .. Len(mq[q]) :
           mq[q][j].op \in TokenOps /\ mq[q][j].conn = m.conn => q \in {} /\ j = 1
  BY <1>4, <1>8
<1> QED  BY <1>6, <1>7, <1>9, <1>10, <1>11, <1>12, QuietStep

(* conn_shut pushes SHUT only for a bound connection that was not closing  *)
(* yet and so has no token.                                                *)
LEMMA FinishCloseKeeps ==
  ASSUME IInv, NEW u \in Users, FinishClose(u)
  PROVE  IInv'
<1> DEFINE c == call[u].conn
           m == Msg("SHUT", c)
<1>1. c \in Conns
  BY DEF FinishClose, IInv, TypeOK, Calls, NoCall
<1>2. call' \in [Users -> Calls]
  BY DEF IInv, TypeOK, FinishClose, EndCall, Calls
<1>3. UNCHANGED <<tableVars, place, fd, parent, events, life, late, add, qconns,
                  openFds, quitting>>
  BY DEF FinishClose
<1>4. CASE UNCHANGED <<dstate, mq>>
  <2>1. QueueStep({}, Daemon, NoToken)
    BY <1>4, StillStep DEF IInv, TypeOK
  <2> QED  BY <2>1, <1>2, <1>3, <1>4, NoTokenFits, QuietStep DEF IInv, TypeOK, NoToken
<1>5. CASE /\ dstate[c] = "free" /\ fd[c] > 0
           /\ dstate' = [dstate EXCEPT ![c] = "close"]
           /\ \/ parent[c] # NoThread /\ Push(parent[c], m)
              \/ parent[c] = NoThread /\ UNCHANGED mq
  <2>1. place[c] = "used"
    <3>1. place[c] \in Places
      BY <1>1 DEF IInv, TypeOK
    <3>2. fd[c] # 0 /\ dstate[c] # "close"
      BY <1>5
    <3>3. place[c] \notin {"heap", "pool", "reset", "popped", "closed"}
      BY <1>1, <3>2 DEF IInv, PlacesFit, FieldsFitPlace
    <3> QED  BY <3>1, <3>3 DEF Places
  <2>2. m \in Message /\ m.op = "SHUT" /\ m.conn = c
    BY <1>1, MsgType DEF IInv, Ops, PipelineOps, Msg
  <2>3. \A d : SameConn(d)
    BY <1>1, <1>3, <1>5 DEF SameConn, tableVars, IInv, TypeOK
  <2>4. /\ TokenIsUnique' /\ TokensFit' /\ BindersFit'
        /\ mq' \in [Threads -> Seq(Message)]
    <3>1. CASE parent[c] = NoThread /\ UNCHANGED mq
      <4>1. QueueStep({}, Daemon, NoToken)
        BY <3>1, StillStep DEF IInv, TypeOK
      <4>2. TokenIsUnique'
        BY <4>1, NoTokenFits, TokenIsUniqueStep DEF IInv, TypeOK
      <4>3. TokensFit'
        BY <2>3, <4>1, NoTokenFits, TokensFitStep DEF IInv, TypeOK
      <4>4. BindersFit'
        BY <1>3, <4>1, BindersStep DEF IInv, NoToken
      <4> QED  BY <4>1, <4>2, <4>3, <4>4 DEF QueueStep
    <3>2. CASE parent[c] # NoThread /\ Push(parent[c], m)
      <4>1. parent[c] \in Threads
        BY <1>1, <3>2 DEF IInv, TypeOK, Threads
      <4>2. QueueStep({}, parent[c], m)
        BY <2>2, <3>2, <4>1, PushStep DEF IInv, TypeOK
      <4>3. \A q \in Threads : \A j \in 1 .. Len(mq[q]) :
              mq[q][j].op \in TokenOps => mq[q][j].conn # c
        BY <1>5, <3>2 DEF IInv, TokensFit, Fits, TokenOps
      <4>4. FitsNext(m)
        <5>1. index[c] # -1 => connections[index[c]] = c
          BY <1>1, <2>1 DEF IInv, PlacesFit, TableFits, IndexNamesEntry
        <5>2. UNCHANGED <<connections, place, fd, parent, life>> /\ dstate'[c] = "close"
          BY <1>1, <1>3, <1>5 DEF tableVars, IInv, TypeOK
        <5> QED  BY <2>1, <3>2, <5>1, <5>2 DEF FitsNext, Msg, PipelineOps
      <4> HIDE DEF m
      <4>5. TokenIsUnique'
        <5>1. \A q \in Threads : \A j \in 1 .. Len(mq[q]) :
                mq[q][j].op \in TokenOps /\ mq[q][j].conn = m.conn => q \in {} /\ j = 1
          BY <2>2, <4>3
        <5> QED  BY <4>2, <5>1, TokenIsUniqueStep DEF IInv, TypeOK
      <4>6. TokensFit'
        BY <2>3, <4>2, <4>4, TokensFitStep DEF IInv, TypeOK
      <4>7. BindersFit'
        BY <1>3, <2>2, <4>2, BindersStep DEF IInv
      <4> QED  BY <4>2, <4>5, <4>6, <4>7 DEF QueueStep
    <3> QED  BY <1>5, <3>1, <3>2
  <2>5. TableCounts' /\ UNCHANGED <<connections, index>>
    BY <1>3, StillTable DEF IInv, TypeOK, PlacesFit, TableFits, TableCounts, tableVars
  <2>6. TableFits' /\ TableHoldsUsed'
    BY <1>3, <2>5 DEF IInv, PlacesFit, TableFits, IndexNamesEntry, TableHoldsUsed,
       TableCounts
  <2>7. FieldsFitPlace'
    BY <1>1, <1>3, <1>5, <2>1 DEF IInv, TypeOK, PlacesFit, FieldsFitPlace
  <2>8. QuittingIsCurrent' /\ PoolFits' /\ FdHasOneOwner'
    BY <1>3 DEF IInv, PlacesFit, QuittingIsCurrent, PoolFits, FdHasOneOwner
  <2>9. TypeOK'
    BY <1>1, <1>2, <1>3, <1>5, <2>4, <2>5 DEF IInv, TypeOK, TableCounts
  <2> QED  BY <2>4, <2>6, <2>7, <2>8, <2>9 DEF IInv, PlacesFit
<1> QED  BY <1>4, <1>5 DEF FinishClose

(* procthread_add_connection binds a connection that is in use, has no     *)
(* procthread and, after the step, no token and nobody else who binds it.  *)
LEMMA BindKeeps ==
  ASSUME IInv, NEW a \in Threads \cup Adders, NEW c \in Conns,
         NEW P, QueueStep(P, Daemon, NoToken),
         place[c] = "used", parent[c] = NoThread, Bind(c), Adds(a, "push", c),
         \A q \in Threads : \A j \in 1 .. Len(mq[q]) :
           mq[q][j].op \in TokenOps => mq[q][j].conn # c \/ (q \in P /\ j = 1),
         \A b \in Adders : Binding(b) => b = a \/ add[b].conn # c,
         UNCHANGED <<tableVars, place, fd, dstate, events, life, late, qconns,
                     openFds, quitting, call>>
  PROVE  IInv'
<1>1. fd[c] \in Fds /\ ProcOf[fd[c]] \in ProcThreads /\ ProcOf[fd[c]] # NoThread
  <2>1. fd[c] \in Fds
    BY DEF IInv, PlacesFit, FieldsFitPlace
  <2> QED  BY <2>1, ThreadsAssumption DEF Threads
<1>2. /\ parent' \in [Conns -> ProcThreads \cup {NoThread}]
      /\ \A d \in Conns \ {c} : parent'[d] = parent[d]
  BY <1>1 DEF Bind, IInv, TypeOK
<1>3. TokenIsUnique'
  BY NoTokenFits, TokenIsUniqueStep DEF IInv, TypeOK
<1>4. TokensFit'
  <2>1. \A d \in Conns \ {c} : SameConn(d)
    BY <1>2 DEF SameConn, tableVars
  <2>2. \A q \in Threads : \A j \in 1 .. Len(mq[q]) : mq[q][j].conn \in Conns
    BY MessageConn DEF IInv
  <2> QED  BY <2>1, <2>2, NoTokenFits, TokensFitStep DEF IInv, TypeOK
<1>5. /\ add' \in [Threads \cup Adders -> AddStates]
      /\ \A b \in Adders : Binding(b)' => add'[b] = add[b] /\ b # a
  BY AddTypes DEF IInv
<1>6. BindersFit'
  <2>1. ASSUME NEW b \in Adders, Binding(b)'
        PROVE  /\ add'[b] = add[b]
               /\ place'[add[b].conn] = place[add[b].conn]
               /\ parent'[add[b].conn] = parent[add[b].conn]
    <3>1. add'[b] = add[b] /\ b # a /\ Binding(b)
      BY <1>5, <2>1 DEF Binding
    <3>2. add[b].conn \in Conns
      BY <3>1, AddTypes DEF IInv, Binding
    <3> QED  BY <1>2, <3>1, <3>2
  <2>2. NoToken.op # "NEW_SESSION"
    BY DEF NoToken
  <2> QED  BY <2>1, <2>2, BindersStep DEF IInv
<1>7. PlacesFit' /\ TableTypeOK'
  <2>1. \A d \in Conns : place[d] \in {"heap", "pool"} => parent'[d] = parent[d]
    BY <1>2
  <2> QED  BY <2>1, PlacesKept DEF IInv
<1>8. TypeOK'
  BY <1>2, <1>5, <1>7 DEF QueueStep, IInv, TypeOK
<1> QED  BY <1>3, <1>4, <1>6, <1>7, <1>8 DEF IInv

(* procthread_add_connection in the thread that accepted or connected.     *)
LEMMA BindConnKeeps ==
  ASSUME IInv, NEW a \in Adders, BindConn(a)
  PROVE  IInv'
<1> DEFINE c == add[a].conn
<1>1. /\ add[a].at = "bind" /\ Bind(c) /\ Adds(a, "push", c)
      /\ UNCHANGED <<tableVars, place, fd, dstate, events, life, late, qconns,
                     openFds, mq, quitting, call>>
  BY DEF BindConn
<1>2. Binding(a) /\ c \in Conns
  BY <1>1, AddTypes DEF IInv, Binding
<1>3. place[c] = "used" /\ parent[c] = NoThread
  BY <1>2 DEF IInv, BindersFit
<1>4. QueueStep({}, Daemon, NoToken)
  BY <1>1, StillStep DEF IInv, TypeOK
<1>5. \A q \in Threads : \A j \in 1 .. Len(mq[q]) :
        mq[q][j].op \in TokenOps => mq[q][j].conn # c
  BY <1>2, <1>3 DEF IInv, TokensFit, Fits, TokenOps, BindersFit
<1>6. \A b \in Adders : Binding(b) => b = a \/ add[b].conn # c
  BY <1>2 DEF IInv, BindersFit
<1> HIDE DEF c
<1> QED  BY <1>1, <1>2, <1>3, <1>4, <1>5, <1>6, BindKeeps

(* The connection whose token is the head of a queue has no other one.     *)
LEMMA HeadTokenIsAlone ==
  ASSUME IInv, NEW t \in Threads, mq[t] # <<>>, Head(mq[t]).op \in TokenOps
  PROVE  /\ Fits(Head(mq[t]))
         /\ \A q \in Threads : \A j \in 1 .. Len(mq[q]) :
              mq[q][j].op \in TokenOps
              => mq[q][j].conn # Head(mq[t]).conn \/ (q = t /\ j = 1)
<1>1. 1 \in 1 .. Len(mq[t]) /\ Head(mq[t]) = mq[t][1]
  BY HeadFacts DEF IInv
<1> QED  BY <1>1 DEF IInv, TokensFit, TokenIsUnique

(* procthread_add_connection in the thread of the queue.                   *)
LEMMA HandleNewSessionKeeps ==
  ASSUME IInv, NEW t \in Threads, HandleNewSession(t)
  PROVE  IInv'
<1> DEFINE c == Head(mq[t]).conn
<1>1. /\ mq[t] # <<>> /\ Head(mq[t]).op = "NEW_SESSION"
      /\ Bind(c) /\ Adds(t, "push", c) /\ Pop(t)
      /\ UNCHANGED <<tableVars, place, fd, dstate, events, life, late, qconns,
                     openFds, quitting, call>>
  BY DEF HandleNewSession, Dispatches, Ready
<1>2. c \in Conns /\ 1 \in 1 .. Len(mq[t]) /\ Head(mq[t]) = mq[t][1]
  BY <1>1, HeadFacts DEF IInv
<1>3. QueueStep({t}, Daemon, NoToken)
  BY <1>1, PopStep DEF IInv, TypeOK
<1>4. /\ place[c] = "used" /\ parent[c] = NoThread
      /\ \A q \in Threads : \A j \in 1 .. Len(mq[q]) :
           mq[q][j].op \in TokenOps => mq[q][j].conn # c \/ (q \in {t} /\ j = 1)
  BY <1>1, HeadTokenIsAlone DEF TokenOps, Fits
<1>5. \A b \in Adders : Binding(b) => b = t \/ add[b].conn # c
  BY <1>1, <1>2 DEF IInv, BindersFit
<1> HIDE DEF c
<1> QED  BY <1>1, <1>2, <1>3, <1>4, <1>5, BindKeeps

(* service_pushconn enters whatever the connection is by then: what the    *)
(* tokens, the places and the descriptors say of it stays true.            *)
LEMMA RegisterConnKeeps ==
  ASSUME IInv, NEW a \in Threads \cup Adders, RegisterConn(a)
  PROVE  IInv'
<1> DEFINE c == add[a].conn
<1>1. /\ add[a].at = "push" /\ PushConn(c)
      /\ late' = IF FreeIndexes # {} /\ (place[c] # "used" \/ index[c] # -1)
                 THEN late \cup {c} ELSE late
      /\ UNCHANGED <<place, fd, dstate, parent, events, life, qconns, openFds, mq,
                     quitting, call>>
  BY DEF RegisterConn
<1>2. c \in Conns
  BY <1>1, AddTypes DEF IInv
<1>3. /\ add' \in [Threads \cup Adders -> AddStates]
      /\ \A b \in Adders : Binding(b)' => add'[b] = add[b]
  BY <1>2, AddTypes DEF RegisterConn, IInv
<1>4. /\ connections \in [Indexes -> Conns \cup {NoConn}]
      /\ index \in [Conns -> Indexes \cup {-1}]
      /\ late \subseteq Conns /\ late \subseteq late' /\ late' \subseteq Conns
  BY <1>1, <1>2 DEF IInv, TypeOK, TableTypeOK
<1> HIDE DEF c
<1>5. /\ TableCounts'
      /\ \/ FreeIndexes = {} /\ UNCHANGED <<connections, index>>
         \/ \E i \in FreeIndexes :
              /\ connections' = [connections EXCEPT ![i] = c]
              /\ index' = [index EXCEPT ![c] = i]
  BY <1>1, <1>2, PushTable DEF IInv, TypeOK, PlacesFit, TableFits, TableCounts
<1>6. \A i \in Indexes : connections[i] # NoConn => connections'[i] = connections[i]
  BY <1>4, <1>5 DEF FreeIndexes
<1>7. TableFits' /\ TableHoldsUsed'
  <2>1. CASE FreeIndexes = {} /\ UNCHANGED <<connections, index>>
    BY <1>1, <1>4, <1>5, <2>1
       DEF IInv, PlacesFit, TableFits, IndexNamesEntry, TableHoldsUsed, TableCounts
  <2>2. ASSUME NEW i \in FreeIndexes,
               connections' = [connections EXCEPT ![i] = c],
               index' = [index EXCEPT ![c] = i]
        PROVE  IndexNamesEntry' /\ TableHoldsUsed'
    <3>1. i \in Indexes /\ connections[i] = NoConn /\ FreeIndexes # {}
      BY DEF FreeIndexes
    <3>2. IndexNamesEntry'
      BY <1>1, <1>2, <1>4, <2>2, <3>1, ConnsAssumption
         DEF IInv, PlacesFit, TableFits, IndexNamesEntry
    <3>3. ASSUME NEW j \in Indexes, connections'[j] # NoConn,
                 connections'[j] \notin late'
          PROVE  /\ place'[connections'[j]] = "used" /\ fd'[connections'[j]] > 0
                 /\ index'[connections'[j]] = j
      <4>1. CASE j = i
        <5>1. connections'[j] = c /\ index'[c] = j
          BY <1>2, <1>4, <2>2, <3>1, <4>1
        <5>2. place[c] = "used"
          BY <1>1, <3>1, <3>3, <5>1
        <5>3. fd[c] \in Fds
          BY <1>2, <5>2 DEF IInv, PlacesFit, FieldsFitPlace
        <5>4. \A f \in Fds : f > 0
          BY ThreadsAssumption
        <5>5. fd[c] > 0
          BY <5>3, <5>4
        <5> QED  BY <1>1, <5>1, <5>2, <5>5
      <4>2. CASE j # i
        <5> DEFINE d == connections[j]
        <5>1. connections'[j] = d /\ d # NoConn /\ d \notin late /\ d \in Conns
          BY <1>4, <2>2, <3>1, <3>3, <4>2
        <5>2. place[d] = "used" /\ fd[d] > 0 /\ index[d] = j
          BY <5>1 DEF IInv, PlacesFit, TableHoldsUsed
        <5>3. d # c
          <6>1. j # -1
            BY LimitAssumption DEF Indexes
          <6> QED  BY <1>1, <3>1, <3>3, <5>1, <5>2, <6>1
        <5>4. index'[d] = j
          BY <1>4, <2>2, <5>1, <5>2, <5>3
        <5> QED  BY <1>1, <5>1, <5>2, <5>4
      <4> QED  BY <4>1, <4>2
    <3>4. TableHoldsUsed'
      BY <3>3 DEF TableHoldsUsed
    <3> QED  BY <3>2, <3>4
  <2>3. IndexNamesEntry' /\ TableHoldsUsed'
    BY <1>5, <2>1, <2>2 DEF TableFits
  <2> QED  BY <1>5, <2>3 DEF TableFits, TableCounts
<1>8. QueueStep({}, Daemon, NoToken)
  BY <1>1, StillStep DEF IInv, TypeOK
<1>9. TokenIsUnique'
  BY <1>8, NoTokenFits, TokenIsUniqueStep DEF IInv, TypeOK
<1>10. TokensFit'
  <2>1. \A d \in Conns : SameConn(d)
    BY <1>1, <1>6, ConnsAssumption DEF SameConn
  <2>2. \A q \in Threads : \A j \in 1 .. Len(mq[q]) : mq[q][j].conn \in Conns
    BY MessageConn DEF IInv
  <2> QED  BY <1>8, <2>1, <2>2, NoTokenFits, TokensFitStep DEF IInv, TypeOK
<1>11. BindersFit'
  BY <1>1, <1>3, <1>8, BindersStep DEF IInv, NoToken
<1>12. FieldsFitPlace' /\ QuittingIsCurrent' /\ PoolFits' /\ FdHasOneOwner'
  BY <1>1 DEF IInv, PlacesFit, FieldsFitPlace, QuittingIsCurrent, PoolFits,
     FdHasOneOwner
<1>13. TypeOK'
  BY <1>1, <1>3, <1>4, <1>5 DEF IInv, TypeOK, TableCounts
<1> QED  BY <1>7, <1>9, <1>10, <1>11, <1>12, <1>13 DEF IInv, PlacesFit


(* service_addconn takes a connection that is nowhere else: it is in       *)
(* qconns, or not allocated.                                               *)
LEMMA AddConnKeeps ==
  ASSUME IInv, NEW a \in Adders, NEW c \in Conns, NEW f \in Fds,
         NEW next \in {"bind", "announce"}, AddConn(a, c, f, next)
  PROVE  IInv'
<1>1. /\ place' = [place EXCEPT ![c] = "used"]
      /\ fd' = [fd EXCEPT ![c] = f]
      /\ life' = [life EXCEPT ![c] = @ + 1]
      /\ openFds' = openFds \cup {f} /\ f \notin openFds
      /\ add' = [add EXCEPT ![a] = [at |-> next, conn |-> c]]
      /\ UNCHANGED <<dstate, parent, events, late, mq, quitting, call>>
  BY DEF AddConn, Adds
<1>2. place[c] \in {"heap", "pool"}
  <2>1. CASE qconns # <<>> /\ c = qconns[Len(qconns)]
    <3>1. Len(qconns) \in 1 .. Len(qconns)
      BY <2>1 DEF IInv, TypeOK
    <3> QED  BY <2>1, <3>1 DEF IInv, PlacesFit, PoolFits
  <2> QED  BY <2>1 DEF AddConn, TakesFromQueue
<1>3. \A q \in Threads : \A j \in 1 .. Len(mq[q]) :
        mq[q][j].op \in TokenOps => mq[q][j].conn # c
  BY <1>2 DEF IInv, TokensFit, Fits, TokenOps
<1>4. QueueStep({}, Daemon, NoToken)
  BY <1>1, StillStep DEF IInv, TypeOK
<1>5. TokenIsUnique'
  BY <1>4, NoTokenFits, TokenIsUniqueStep DEF IInv, TypeOK
<1>6. /\ TableCounts' /\ connections' = connections
      /\ index' = index \/ index' = [index EXCEPT ![c] = -1]
  <2>1. TableCounts
    BY DEF IInv, TypeOK, PlacesFit, TableFits, TableCounts
  <2>2. UNCHANGED tableVars \/ ForgetIndex(c)
    BY DEF AddConn, TakesFromQueue
  <2> QED  BY <2>1, <2>2, StillTable, ForgetTable
<1>7. TokensFit'
  <2>1. \A d \in Conns \ {c} : SameConn(d)
    BY <1>1, <1>6 DEF SameConn, IInv, TypeOK
  <2>2. \A q \in Threads : \A j \in 1 .. Len(mq[q]) : mq[q][j].conn \in Conns
    BY MessageConn DEF IInv
  <2> QED  BY <1>3, <1>4, <2>1, <2>2, NoTokenFits, TokensFitStep DEF IInv, TypeOK
<1>8. BindersFit'
  <2>1. /\ add'[a].conn = c /\ place'[c] = "used" /\ parent[c] = NoThread
        /\ \A b \in Adders \ {a} : add'[b] = add[b]
        /\ \A d \in Conns \ {c} : place'[d] = place[d]
    BY <1>1, <1>2 DEF IInv, TypeOK, PlacesFit, FieldsFitPlace
  <2>2. \A b \in Adders : Binding(b) => add[b].conn \in Conns \ {c}
    <3>1. \A b \in Adders : Binding(b) => add[b].conn \in Conns
      BY AddTypes DEF Binding, IInv
    <3> QED  BY <1>2, <3>1 DEF IInv, BindersFit
  <2>3. \A b \in Adders \ {a} : Binding(b)' => Binding(b)
    BY <2>1 DEF Binding
  <2>4. \A b \in Adders : Binding(b)' =>
          place'[add'[b].conn] = "used" /\ parent'[add'[b].conn] = NoThread
    BY <1>1, <2>1, <2>2, <2>3 DEF IInv, BindersFit
  <2>5. \A b, d \in Adders :
          Binding(b)' /\ Binding(d)' /\ add'[b].conn = add'[d].conn => b = d
    BY <2>1, <2>2, <2>3 DEF IInv, BindersFit
  <2>6. \A b \in Adders : Binding(b)' =>
          \A t \in Threads : \A i \in 1 .. Len(mq'[t]) :
            mq'[t][i].op = "NEW_SESSION" => mq'[t][i].conn # add'[b].conn
    BY <1>1, <1>3, <2>1, <2>3 DEF IInv, BindersFit, TokenOps
  <2> QED  BY <2>4, <2>5, <2>6 DEF BindersFit
<1>9. TableFits' /\ TableHoldsUsed'
  <2>1. /\ connections \in [Indexes -> Conns \cup {NoConn}]
        /\ index \in [Conns -> Indexes \cup {-1}]
        /\ fd' \in [Conns -> Fds \cup {0}]
        /\ \A d \in Conns \ {c} : place'[d] = place[d] /\ fd'[d] = fd[d]
    BY <1>1 DEF IInv, TypeOK, TableTypeOK
  <2>2. IndexNamesEntry'
    BY <1>1, <1>2, <1>6, <2>1 DEF IInv, PlacesFit, TableFits, IndexNamesEntry
  <2>3. TableHoldsUsed'
    <3>1. \A i \in Indexes : connections[i] # NoConn /\ connections[i] \notin late
            => connections[i] \in Conns \ {c}
      BY <1>2, <2>1 DEF IInv, PlacesFit, TableHoldsUsed
    <3>2. \A d \in Conns \ {c} : index'[d] = index[d]
      BY <1>6, <2>1
    <3> QED  BY <1>1, <1>6, <2>1, <3>1, <3>2 DEF IInv, PlacesFit, TableHoldsUsed
  <2> QED  BY <1>6, <2>2, <2>3 DEF TableFits, TableCounts
<1>10. FieldsFitPlace' /\ QuittingIsCurrent'
  BY <1>1, <1>2 DEF IInv, TypeOK, PlacesFit, FieldsFitPlace, QuittingIsCurrent
<1>11. PoolFits' /\ qconns' \in Seq(Conns)
  <2>1. CASE qconns = <<>> /\ place[c] = "heap" /\ UNCHANGED qconns
    BY <1>1, <2>1 DEF IInv, TypeOK, PlacesFit, PoolFits
  <2>2. CASE /\ qconns # <<>> /\ c = qconns[Len(qconns)]
             /\ qconns' = SubSeq(qconns, 1, Len(qconns) - 1)
    <3>2. qconns \in Seq(Conns) /\ Len(qconns) \in Nat /\ Len(qconns) > 0
      BY <2>2 DEF IInv, TypeOK
    <3>1. /\ qconns' \in Seq(Conns) /\ Len(qconns') = Len(qconns) - 1
          /\ \A i \in 1 .. Len(qconns') : qconns'[i] = qconns[i]
      <4> DEFINE n == Len(qconns) - 1
      <4>1. n \in Nat /\ n < Len(qconns)
        BY <3>2
      <4>2. \A i \in 1 .. n : qconns[i] \in Conns
        BY <3>2
      <4>3. /\ SubSeq(qconns, 1, n) \in Seq(Conns)
            /\ Len(SubSeq(qconns, 1, n)) = IF 1 <= n THEN n - 1 + 1 ELSE 0
            /\ \A i \in 1 .. n - 1 + 1 : SubSeq(qconns, 1, n)[i] = qconns[1 + i - 1]
        <5> HIDE DEF n
        <5> QED  BY ONLY <4>1, <4>2, SubSeqProperties
      <4>4. qconns' = SubSeq(qconns, 1, n)
        BY <2>2
      <4> HIDE DEF n
      <4>5. Len(qconns') = n /\ \A i \in 1 .. n : qconns'[i] = qconns[i]
        BY <4>1, <4>3, <4>4
      <4>6. qconns' \in Seq(Conns)
        BY <4>3, <4>4
      <4> QED  BY <4>5, <4>6 DEF n
    <3>3. ASSUME NEW d \in Conns
          PROVE  place'[d] = "pool" <=> \E i \in 1 .. Len(qconns') : qconns'[i] = d
      <4>1. CASE d = c
        <5>1. \A i \in 1 .. Len(qconns') : qconns'[i] # c
          BY <2>2, <3>1, <3>2 DEF IInv, PlacesFit, PoolFits
        <5> QED  BY <1>1, <4>1, <5>1 DEF IInv, TypeOK
      <4>2. CASE d # c
        <5>1. place'[d] = place[d]
          BY <1>1, <4>2 DEF IInv, TypeOK
        <5>2. (\E i \in 1 .. Len(qconns) : qconns[i] = d)
              <=> \E i \in 1 .. Len(qconns') : qconns'[i] = d
          BY <2>2, <3>1, <3>2, <4>2
        <5> QED  BY <5>1, <5>2 DEF IInv, PlacesFit, PoolFits
      <4> QED  BY <4>1, <4>2
    <3>4. \A i, j \in 1 .. Len(qconns') : qconns'[i] = qconns'[j] => i = j
      <4>1. \A i, j \in 1 .. Len(qconns) : qconns[i] = qconns[j] => i = j
        BY DEF IInv, PlacesFit, PoolFits
      <4>2. \A i \in 1 .. Len(qconns') :
              i \in 1 .. Len(qconns) /\ qconns'[i] = qconns[i]
        BY <3>1, <3>2
      <4> QED  BY ONLY <4>1, <4>2
    <3>5. PoolFits'
      BY ONLY <3>3, <3>4 DEF PoolFits
    <3> QED  BY <3>1, <3>5
  <2> QED  BY <2>1, <2>2 DEF AddConn, TakesFromQueue
<1>12. FdHasOneOwner'
  <2>1. /\ place'[c] = "used" /\ fd'[c] = f
        /\ \A d \in Conns \ {c} : place'[d] = place[d] /\ fd'[d] = fd[d]
    BY <1>1 DEF IInv, TypeOK
  <2>2. fd[c] = 0 /\ \A d \in Conns : fd[d] \in Fds \cup {0}
    BY <1>2 DEF IInv, TypeOK, PlacesFit, FieldsFitPlace
  <2>3. 0 \notin Fds /\ Fds \subseteq Nat
    BY ThreadsAssumption
  <2>4. openFds \subseteq Fds
    BY DEF IInv, TypeOK
  <2>5. ASSUME NEW g \in openFds'
        PROVE  \E d \in Conns : fd'[d] = g /\ place'[d] # "closed"
    <3>1. CASE g = f
      BY <2>1, <3>1
    <3>2. CASE g # f
      <4>1. PICK d \in Conns : fd[d] = g /\ place[d] # "closed"
        BY <1>1, <3>2 DEF IInv, PlacesFit, FdHasOneOwner
      <4>2. d # c
        BY <1>1, <2>2, <2>3, <2>4, <2>5, <3>2, <4>1
      <4> QED  BY <2>1, <4>1, <4>2
    <3> QED  BY <3>1, <3>2
  <2>6. ASSUME NEW b \in Conns, fd'[b] > 0, place'[b] # "closed"
        PROVE  fd'[b] \in openFds'
    BY <1>1, <2>1, <2>6 DEF IInv, PlacesFit, FdHasOneOwner
  <2>7. ASSUME NEW b \in Conns, fd'[b] > 0, place'[b] # "closed",
               NEW d \in Conns, fd'[d] = fd'[b], place'[d] # "closed"
        PROVE  d = b
    <3>1. \A e \in Conns \ {c} : fd[e] > 0 /\ place[e] # "closed" => fd[e] # f
      BY <1>1 DEF IInv, PlacesFit, FdHasOneOwner
    <3>2. CASE b = c \/ d = c
      BY <2>1, <2>7, <3>1, <3>2
    <3>3. CASE b # c /\ d # c
      <4>1. /\ fd[b] > 0 /\ place[b] # "closed"
            /\ fd[d] = fd[b] /\ place[d] # "closed"
        BY <2>1, <2>7, <3>3
      <4> QED  BY <4>1 DEF IInv, PlacesFit, FdHasOneOwner
    <3> QED  BY <3>2, <3>3
  <2> QED  BY <2>5, <2>6, <2>7 DEF FdHasOneOwner
<1>13. TypeOK'
  <2>1. add' \in [Threads \cup Adders -> AddStates]
    BY <1>1 DEF IInv, TypeOK, AddStates
  <2> QED  BY <1>1, <1>6, <1>11, <2>1 DEF IInv, TypeOK, Places, TableCounts
<1> QED  BY <1>5, <1>7, <1>8, <1>9, <1>10, <1>11, <1>12, <1>13 DEF IInv, PlacesFit

(* service_popconn clears the entry of the connection, and the removal     *)
(* token goes with the message.                                            *)
LEMMA HandleQuitKeeps ==
  ASSUME IInv, NEW t \in Threads, HandleQuit(t)
  PROVE  IInv'
<1> DEFINE c == Head(mq[t]).conn
<1>1. /\ mq[t] # <<>> /\ Head(mq[t]).op = "QUIT" /\ quitting[t] = NoConn
      /\ PopConn(c) /\ Pop(t)
      /\ place' = [place EXCEPT ![c] = "popped"]
      /\ quitting' = [quitting EXCEPT ![t] = c]
      /\ UNCHANGED <<fd, dstate, parent, events, life, late, add, qconns, openFds,
                     call>>
  BY DEF HandleQuit, Dispatches, Ready
<1>2. c \in Conns
  BY <1>1, HeadFacts DEF IInv
<1>3. QueueStep({t}, Daemon, NoToken)
  BY <1>1, PopStep DEF IInv, TypeOK
<1>4. /\ place[c] = "used" /\ dstate[c] = "close" /\ parent[c] # NoThread
      /\ \A q \in Threads : \A j \in 1 .. Len(mq[q]) :
           mq[q][j].op \in TokenOps => mq[q][j].conn # c \/ (q \in {t} /\ j = 1)
  BY <1>1, HeadTokenIsAlone DEF TokenOps, PipelineOps, Fits
<1> HIDE DEF c
<1>5. /\ TableCounts' /\ index' = index
      /\ \A i \in Indexes : connections'[i] \in {connections[i], NoConn}
      /\ \A i \in Indexes : connections[i] # c => connections'[i] = connections[i]
      /\ index[c] # -1 => connections'[index[c]] # c
  BY <1>1, <1>2, PopTable DEF IInv, TypeOK, PlacesFit, TableFits, TableCounts
<1>6. TokenIsUnique'
  BY <1>3, NoTokenFits, TokenIsUniqueStep DEF IInv, TypeOK
<1>7. TokensFit'
  <2>1. \A d \in Conns \ {c} : SameConn(d)
    BY <1>1, <1>5 DEF SameConn, IInv, TypeOK
  <2>2. \A q \in Threads : \A j \in 1 .. Len(mq[q]) : mq[q][j].conn \in Conns
    BY MessageConn DEF IInv
  <2> QED  BY <1>3, <1>4, <2>1, <2>2, NoTokenFits, TokensFitStep DEF IInv, TypeOK
<1>8. BindersFit'
  <2>1. \A b \in Adders : Binding(b) => add[b].conn \in Conns \ {c}
    <3>1. \A b \in Adders : Binding(b) => add[b].conn \in Conns
      BY AddTypes DEF Binding, IInv
    <3> QED  BY <1>4, <3>1 DEF IInv, BindersFit
  <2>2. \A d \in Conns \ {c} : place'[d] = place[d] /\ parent'[d] = parent[d]
    BY <1>1 DEF IInv, TypeOK
  <2>3. \A b \in Adders : Binding(b)' => Binding(b)
    BY <1>1 DEF Binding
  <2>4. NoToken.op # "NEW_SESSION"
    BY DEF NoToken
  <2> QED  BY <1>1, <1>3, <2>1, <2>2, <2>3, <2>4, BindersStep DEF IInv
<1>9. FieldsFitPlace'
  BY <1>1, <1>2, <1>4 DEF IInv, TypeOK, PlacesFit, FieldsFitPlace
<1>10. QuittingIsCurrent'
  <2>1. \A s \in Threads : quitting[s] # c
    BY <1>2, <1>4, ConnsAssumption DEF IInv, PlacesFit, QuittingIsCurrent
  <2>2. /\ quitting'[t] = c /\ place'[c] = "popped"
        /\ \A s \in Threads \ {t} : quitting'[s] = quitting[s]
        /\ \A d \in Conns \ {c} : place'[d] = place[d]
        /\ \A s \in Threads : quitting[s] \in Conns \cup {NoConn}
    BY <1>1, <1>2 DEF IInv, TypeOK
  <2> QED  BY <2>1, <2>2 DEF IInv, PlacesFit, QuittingIsCurrent
<1>11. PoolFits'
  <2>1. qconns' = qconns /\ \A d \in Conns : place'[d] = "pool" <=> place[d] = "pool"
    BY <1>1, <1>2, <1>4 DEF IInv, TypeOK
  <2> QED  BY <2>1 DEF IInv, PlacesFit, PoolFits
<1>12. TableFits' /\ TableHoldsUsed'
  <2>1. /\ connections \in [Indexes -> Conns \cup {NoConn}]
        /\ index \in [Conns -> Indexes \cup {-1}]
        /\ place'[c] = "popped" /\ \A d \in Conns \ {c} : place'[d] = place[d]
    BY <1>1, <1>2 DEF IInv, TypeOK, TableTypeOK
  <2>2. IndexNamesEntry'
    <3>1. ASSUME NEW d \in Conns, index[d] # -1,
                 place'[d] \notin {"popped", "closed"}
          PROVE  connections'[index[d]] = d
      <4>1. d # c /\ place[d] \notin {"popped", "closed"}
        BY <2>1, <3>1
      <4>2. index[d] \in Indexes /\ connections[index[d]] = d
        BY <2>1, <3>1, <4>1 DEF IInv, PlacesFit, TableFits, IndexNamesEntry
      <4> QED  BY <1>5, <4>1, <4>2
    <3> QED  BY <1>5, <3>1 DEF IndexNamesEntry
  <2>3. TableHoldsUsed'
    <3>1. ASSUME NEW i \in Indexes, connections'[i] # NoConn,
                 connections'[i] \notin late
          PROVE  /\ place'[connections'[i]] = "used" /\ fd[connections'[i]] > 0
                 /\ index[connections'[i]] = i
      <4> DEFINE d == connections[i]
      <4>1. connections'[i] = d /\ d \in Conns
        BY <1>5, <2>1, <3>1
      <4>2. place[d] = "used" /\ fd[d] > 0 /\ index[d] = i
        BY <3>1, <4>1 DEF IInv, PlacesFit, TableHoldsUsed
      <4>3. d # c
        <5>1. i # -1
          BY LimitAssumption DEF Indexes
        <5> QED  BY <1>5, <4>1, <4>2, <5>1
      <4> QED  BY <2>1, <4>1, <4>2, <4>3
    <3> QED  BY <1>1, <1>5, <3>1 DEF TableHoldsUsed
  <2> QED  BY <1>5, <2>2, <2>3 DEF TableFits, TableCounts
<1>13. FdHasOneOwner'
  <2>1. \A d \in Conns : place'[d] = "closed" <=> place[d] = "closed"
    BY <1>1, <1>4 DEF IInv, TypeOK
  <2> QED  BY <1>1, <2>1 DEF IInv, PlacesFit, FdHasOneOwner
<1>14. TypeOK'
  BY <1>1, <1>2, <1>3, <1>5 DEF QueueStep, IInv, TypeOK, Places, TableCounts
<1> QED  BY <1>6, <1>7, <1>8, <1>9, <1>10, <1>11, <1>12, <1>13, <1>14
         DEF IInv, PlacesFit

(* The connection a thread terminates has no token, nobody is about to     *)
(* bind it, and only a late service_pushconn puts it into the table again. *)
LEMMA QuittingIsAlone ==
  ASSUME IInv, NEW t \in Threads, quitting[t] # NoConn
  PROVE  LET c == quitting[t] IN
         /\ c \in Conns
         /\ place[c] \in {"popped", "closed", "reset"}
         /\ c \notin late => ~InTable(c)
         /\ \A b \in Adders : Binding(b) => add[b].conn \in Conns \ {c}
         /\ \A q \in Threads : \A j \in 1 .. Len(mq[q]) :
              mq[q][j].op \in TokenOps => mq[q][j].conn \in Conns \ {c}
<1> DEFINE c == quitting[t]
<1>1. c \in Conns
  BY DEF IInv, TypeOK
<1>2. place[c] \in {"popped", "closed", "reset"}
  BY DEF IInv, PlacesFit, QuittingIsCurrent
<1>3. c \notin late => ~InTable(c)
  BY <1>1, <1>2, ConnsAssumption DEF IInv, PlacesFit, TableHoldsUsed, InTable
<1>4. \A b \in Adders : Binding(b) => add[b].conn \in Conns \ {c}
  <2>1. \A b \in Adders : Binding(b) => add[b].conn \in Conns
    BY AddTypes DEF Binding, IInv
  <2> QED  BY <1>2, <2>1 DEF IInv, BindersFit
<1>5. \A q \in Threads : \A j \in 1 .. Len(mq[q]) :
        mq[q][j].op \in TokenOps => mq[q][j].conn \in Conns \ {c}
  BY <1>2, MessageConn DEF IInv, TokensFit, Fits, TokenOps
<1> QED  BY <1>1, <1>2, <1>3, <1>4, <1>5

(* A step about the connection that a thread terminates leaves the tokens  *)
(* and the threads that bind alone.                                        *)
LEMMA TerminateStep ==
  ASSUME IInv, NEW t \in Threads, quitting[t] # NoConn, UNCHANGED <<mq, add>>,
         \A d \in Conns \ {quitting[t]} : SameConn(d)
  PROVE  TokenIsUnique' /\ TokensFit' /\ BindersFit'
<1>1. QueueStep({}, Daemon, NoToken)
  BY StillStep DEF IInv, TypeOK
<1>2. TokenIsUnique'
  BY <1>1, NoTokenFits, TokenIsUniqueStep DEF IInv, TypeOK
<1>3. TokensFit'
  BY <1>1, QuittingIsAlone, NoTokenFits, TokensFitStep DEF IInv, TypeOK
<1>4. BindersFit'
  <2>1. \A b \in Adders : Binding(b)' => Binding(b)
    BY DEF Binding
  <2>2. NoToken.op # "NEW_SESSION"
    BY DEF NoToken
  <2> QED  BY <1>1, <2>1, <2>2, QuittingIsAlone, BindersStep DEF IInv, SameConn
<1> QED  BY <1>2, <1>3, <1>4

(* What the steps of procthread_terminate_connection do to the places of   *)
(* other connections, and to the table: nothing but the index.             *)
LEMMA TerminateTable ==
  ASSUME IInv, NEW t \in Threads, quitting[t] # NoConn,
         UNCHANGED tableVars \/ ForgetIndex(quitting[t]),
         \A d \in Conns \ {quitting[t]} : place'[d] = place[d] /\ fd'[d] = fd[d],
         \/ place'[quitting[t]] \in {"popped", "closed"}
         \/ index'[quitting[t]] = -1
         \/ UNCHANGED tableVars /\ place[quitting[t]] = "reset",
         UNCHANGED late
  PROVE  TableCounts' /\ TableFits' /\ TableHoldsUsed' /\ connections' = connections
<1> DEFINE c == quitting[t]
<1>1. /\ c \in Conns /\ place[c] \in {"popped", "closed", "reset"}
      /\ c \notin late => ~InTable(c)
  BY QuittingIsAlone
<1>2. TableCounts
  BY DEF IInv, TypeOK, PlacesFit, TableFits, TableCounts
<1>3. /\ TableCounts' /\ connections' = connections
      /\ index' = index \/ index' = [index EXCEPT ![c] = -1]
  BY <1>1, <1>2, StillTable, ForgetTable
<1>4. /\ connections \in [Indexes -> Conns \cup {NoConn}]
      /\ index \in [Conns -> Indexes \cup {-1}]
  BY <1>2 DEF TableCounts, TableTypeOK
<1>5. \A d \in Conns \ {c} : index'[d] = index[d]
  BY <1>3, <1>4
<1>6. IndexNamesEntry'
  BY <1>1, <1>3, <1>5
     DEF IInv, PlacesFit, TableFits, IndexNamesEntry, tableVars
<1>7. TableHoldsUsed'
  BY <1>1, <1>3, <1>4, <1>5 DEF IInv, PlacesFit, TableHoldsUsed, InTable
<1> QED  BY <1>3, <1>6, <1>7 DEF TableFits, TableCounts

(* close() takes the descriptor of the connection, which no other          *)
(* connection owns.                                                        *)
LEMMA CloseFdKeeps ==
  ASSUME IInv, NEW t \in Threads, CloseFd(t)
  PROVE  IInv'
<1> DEFINE c == quitting[t]
<1>1. /\ c # NoConn /\ place[c] = "popped"
      /\ dstate' = [dstate EXCEPT ![c] = "close"]
      /\ openFds' = openFds \ {fd[c]}
      /\ place' = [place EXCEPT ![c] = "closed"]
      /\ UNCHANGED <<tableVars, fd, parent, events, life, late, add, qconns, mq,
                     quitting, call>>
  BY DEF CloseFd
<1>2. c \in Conns
  BY <1>1 DEF IInv, TypeOK
<1>3. /\ place'[c] = "closed" /\ place' \in [Conns -> Places]
      /\ \A d \in Conns \ {c} : place'[d] = place[d] /\ dstate'[d] = dstate[d]
  BY <1>1, <1>2 DEF IInv, TypeOK, Places
<1>4. TokenIsUnique' /\ TokensFit' /\ BindersFit'
  <2>1. \A d \in Conns \ {c} : SameConn(d)
    BY <1>1, <1>3 DEF SameConn, tableVars
  <2> QED  BY <1>1, <2>1, TerminateStep
<1>5. TableCounts' /\ TableFits' /\ TableHoldsUsed'
  <2>1. \A d \in Conns \ {c} : place'[d] = place[d] /\ fd'[d] = fd[d]
    BY <1>1, <1>3
  <2> QED  BY <1>1, <1>3, <2>1, TerminateTable
<1> HIDE DEF c
<1>6. FieldsFitPlace'
  BY <1>1, <1>2 DEF IInv, TypeOK, PlacesFit, FieldsFitPlace
<1>7. QuittingIsCurrent'
  BY <1>1, <1>3 DEF IInv, TypeOK, PlacesFit, QuittingIsCurrent
<1>8. PoolFits'
  BY <1>1, <1>2 DEF IInv, TypeOK, PlacesFit, PoolFits
<1>9. FdHasOneOwner'
  <2>1. /\ fd' = fd /\ place'[c] = "closed"
        /\ \A d \in Conns \ {c} : place'[d] = place[d]
    BY <1>1, <1>2 DEF IInv, TypeOK
  <2>2. fd[c] \in Fds /\ fd[c] > 0 /\ place[c] # "closed"
    <3>1. fd[c] \in Fds /\ place[c] # "closed"
      BY <1>1, <1>2 DEF IInv, PlacesFit, FieldsFitPlace
    <3>2. \A f \in Fds : f \in Nat /\ f # 0
      BY ThreadsAssumption
    <3> QED  BY ONLY <3>1, <3>2
  <2>3. \A d \in Conns \ {c} : place[d] # "closed" => fd[d] # fd[c]
    BY <1>1, <1>2, <2>2 DEF IInv, PlacesFit, FdHasOneOwner
  <2>4. \A f \in openFds' : \E d \in Conns : fd'[d] = f /\ place'[d] # "closed"
    <3>1. ASSUME NEW f \in openFds'
          PROVE  \E d \in Conns : fd'[d] = f /\ place'[d] # "closed"
      <4>1. PICK d \in Conns : fd[d] = f /\ place[d] # "closed"
        BY <1>1 DEF IInv, PlacesFit, FdHasOneOwner
      <4>2. d # c
        BY <1>1, <4>1
      <4> QED  BY <2>1, <4>1, <4>2
    <3> QED  BY <3>1
  <2>5. ASSUME NEW b \in Conns, fd'[b] > 0, place'[b] # "closed"
        PROVE  /\ fd'[b] \in openFds'
               /\ \A d \in Conns : fd'[d] = fd'[b] /\ place'[d] # "closed" => d = b
    <3>1. b # c /\ fd[b] > 0 /\ place[b] # "closed" /\ fd[b] # fd[c]
      BY <2>1, <2>3, <2>5
    <3>2. /\ fd[b] \in openFds
          /\ \A d \in Conns : fd[d] = fd[b] /\ place[d] # "closed" => d = b
      BY <3>1 DEF IInv, PlacesFit, FdHasOneOwner
    <3> QED  BY <1>1, <2>1, <3>1, <3>2
  <2> QED  BY <2>4, <2>5 DEF FdHasOneOwner
<1>10. TypeOK'
  BY <1>1, <1>2, <1>3, <1>5 DEF IInv, TypeOK, TableCounts
<1> QED  BY <1>4, <1>5, <1>6, <1>7, <1>8, <1>9, <1>10 DEF IInv, PlacesFit

(* conn_reset clears the state, the descriptor and the index of a          *)
(* connection whose descriptor is closed.                                  *)
LEMMA ResetConnKeeps ==
  ASSUME IInv, NEW t \in Threads, ResetConn(t)
  PROVE  IInv'
<1> DEFINE c == quitting[t]
<1>1. /\ c # NoConn /\ place[c] = "closed"
      /\ ForgetIndex(c)
      /\ fd' = [fd EXCEPT ![c] = 0]
      /\ dstate' = [dstate EXCEPT ![c] = "free"]
      /\ place' = [place EXCEPT ![c] = "reset"]
      /\ UNCHANGED <<parent, events, life, late, add, qconns, openFds, mq, quitting,
                     call>>
  BY DEF ResetConn
<1>2. c \in Conns
  BY <1>1 DEF IInv, TypeOK
<1>3. /\ place'[c] = "reset" /\ fd'[c] = 0 /\ place' \in [Conns -> Places]
      /\ \A d \in Conns \ {c} :
           place'[d] = place[d] /\ dstate'[d] = dstate[d] /\ fd'[d] = fd[d]
  BY <1>1, <1>2 DEF IInv, TypeOK, Places
<1>4. index'[c] = -1
  BY <1>1, <1>2 DEF ForgetIndex, IInv, TypeOK, TableTypeOK
<1>5. TableCounts' /\ TableFits' /\ TableHoldsUsed' /\ connections' = connections
  <2>1. \A d \in Conns \ {c} : place'[d] = place[d] /\ fd'[d] = fd[d]
    BY <1>3
  <2> QED  BY <1>1, <1>4, <2>1, TerminateTable
<1>6. TokenIsUnique' /\ TokensFit' /\ BindersFit'
  <2>1. \A d \in Conns \ {c} : SameConn(d)
    BY <1>1, <1>3, <1>5 DEF SameConn
  <2> QED  BY <1>1, <2>1, TerminateStep
<1> HIDE DEF c
<1>7. FieldsFitPlace'
  BY <1>1, <1>2, <1>3 DEF IInv, TypeOK, PlacesFit, FieldsFitPlace
<1>8. QuittingIsCurrent'
  BY <1>1, <1>3 DEF IInv, TypeOK, PlacesFit, QuittingIsCurrent
<1>9. PoolFits'
  BY <1>1, <1>2 DEF IInv, TypeOK, PlacesFit, PoolFits
<1>10. FdHasOneOwner'
  <2>1. ASSUME NEW f \in openFds'
        PROVE  \E d \in Conns : fd'[d] = f /\ place'[d] # "closed"
    <3>1. PICK d \in Conns : fd[d] = f /\ place[d] # "closed"
      BY <1>1 DEF IInv, PlacesFit, FdHasOneOwner
    <3> QED  BY <1>1, <1>3, <3>1
  <2>2. ASSUME NEW b \in Conns, fd'[b] > 0, place'[b] # "closed"
        PROVE  /\ fd'[b] \in openFds'
               /\ \A d \in Conns : fd'[d] = fd'[b] /\ place'[d] # "closed" => d = b
    <3>1. b # c /\ fd[b] > 0 /\ place[b] # "closed"
      BY <1>3, <2>2
    <3>2. /\ fd[b] \in openFds
          /\ \A d \in Conns : fd[d] = fd[b] /\ place[d] # "closed" => d = b
      BY <3>1 DEF IInv, PlacesFit, FdHasOneOwner
    <3> QED  BY <1>1, <1>3, <2>2, <3>1, <3>2
  <2> QED  BY <2>1, <2>2 DEF FdHasOneOwner
<1>11. TypeOK'
  BY <1>1, <1>2, <1>3, <1>5 DEF IInv, TypeOK, TableCounts
<1> QED  BY <1>5, <1>6, <1>7, <1>8, <1>9, <1>10, <1>11 DEF IInv, PlacesFit

(* service_pushtoq keeps a connection that is nowhere else, or frees it.   *)
LEMMA RecycleKeeps ==
  ASSUME IInv, NEW t \in Threads, Recycle(t)
  PROVE  IInv'
<1> DEFINE c == quitting[t]
<1>1. /\ c # NoConn /\ place[c] = "reset"
      /\ parent' = [parent EXCEPT ![c] = NoThread]
      /\ quitting' = [quitting EXCEPT ![t] = NoConn]
      /\ UNCHANGED <<tableVars, fd, dstate, events, life, late, add, openFds, mq,
                     call>>
  BY DEF Recycle
<1>2. \/ qconns' = Append(qconns, c) /\ place' = [place EXCEPT ![c] = "pool"]
      \/ UNCHANGED qconns /\ place' = [place EXCEPT ![c] = "heap"]
  BY DEF Recycle
<1>3. c \in Conns /\ \A s \in Threads \ {t} : quitting[s] # c
  BY <1>1 DEF IInv, TypeOK, PlacesFit, QuittingIsCurrent
<1>4. quitting'[t] = NoConn /\ \A s \in Threads \ {t} : quitting'[s] = quitting[s]
  BY <1>1 DEF IInv, TypeOK
<1>5. /\ place'[c] \in {"pool", "heap"} /\ place' \in [Conns -> Places]
      /\ \A d \in Conns \ {c} : place'[d] = place[d] /\ parent'[d] = parent[d]
  BY <1>1, <1>2, <1>3 DEF IInv, TypeOK, Places
<1>6. TokenIsUnique' /\ TokensFit' /\ BindersFit'
  <2>1. \A d \in Conns \ {c} : SameConn(d)
    BY <1>1, <1>5 DEF SameConn, tableVars
  <2> QED  BY <1>1, <2>1, TerminateStep
<1>7. TableCounts' /\ TableFits' /\ TableHoldsUsed'
  BY <1>1, <1>5, TerminateTable
<1> HIDE DEF c
<1>8. FieldsFitPlace'
  BY <1>1, <1>3, <1>5 DEF IInv, TypeOK, PlacesFit, FieldsFitPlace
<1>9. QuittingIsCurrent'
  <2>1. \A s \in Threads : quitting[s] \in Conns \cup {NoConn}
    BY DEF IInv, TypeOK
  <2> QED  BY <1>3, <1>4, <1>5, <2>1 DEF IInv, PlacesFit, QuittingIsCurrent
<1>10. PoolFits' /\ qconns' \in Seq(Conns)
  <2>1. /\ qconns \in Seq(Conns) /\ Len(qconns) \in Nat
        /\ \A i, j \in 1 .. Len(qconns) : qconns[i] = qconns[j] => i = j
        /\ \A d \in Conns :
             place[d] = "pool" <=> \E i \in 1 .. Len(qconns) : qconns[i] = d
    BY DEF IInv, TypeOK, PlacesFit, PoolFits
  <2>2. \A i \in 1 .. Len(qconns) : qconns[i] # c
    BY <1>1, <1>3, <2>1
  <2>3. CASE UNCHANGED qconns /\ place'[c] = "heap"
    <3>1. \A d \in Conns :
            place'[d] = "pool" <=> \E i \in 1 .. Len(qconns) : qconns[i] = d
      BY <1>5, <2>1, <2>2, <2>3
    <3> QED  BY <2>1, <2>3, <3>1 DEF PoolFits
  <2>4. CASE qconns' = Append(qconns, c) /\ place'[c] = "pool"
    <3>1. /\ qconns' \in Seq(Conns) /\ Len(qconns') = Len(qconns) + 1
          /\ \A i \in 1 .. Len(qconns) : qconns'[i] = qconns[i]
          /\ qconns'[Len(qconns) + 1] = c
      BY ONLY <1>3, <2>1, <2>4, AppendProperties
    <3>2. \A i, j \in 1 .. Len(qconns') : qconns'[i] = qconns'[j] => i = j
      <4>1. \A i \in 1 .. Len(qconns') :
              \/ i \in 1 .. Len(qconns) /\ qconns'[i] = qconns[i]
              \/ i = Len(qconns) + 1 /\ qconns'[i] = c
        BY ONLY <2>1, <3>1
      <4> QED  BY ONLY <2>1, <2>2, <4>1
    <3>3. ASSUME NEW d \in Conns
          PROVE  place'[d] = "pool" <=> \E i \in 1 .. Len(qconns') : qconns'[i] = d
      <4>1. CASE d = c
        BY <2>1, <2>4, <3>1, <4>1
      <4>2. CASE d # c
        BY ONLY <1>5, <2>1, <3>1, <3>3, <4>2
      <4> QED  BY <4>1, <4>2
    <3>4. PoolFits'
      BY ONLY <3>2, <3>3 DEF PoolFits
    <3> QED  BY <3>1, <3>4
  <2> QED  BY <1>2, <1>3, <2>1, <2>3, <2>4 DEF IInv, TypeOK
<1>11. FdHasOneOwner'
  <2>1. \A d \in Conns : place'[d] = "closed" <=> place[d] = "closed"
    BY <1>1, <1>5
  <2> QED  BY <1>1, <2>1 DEF IInv, PlacesFit, FdHasOneOwner
<1>12. TypeOK'
  BY <1>1, <1>3, <1>5, <1>7, <1>10 DEF IInv, TypeOK, TableCounts
<1> QED  BY <1>6, <1>7, <1>8, <1>9, <1>10, <1>11, <1>12 DEF IInv, PlacesFit

-----------------------------------------------------------------------------
(* The invariant is inductive.                                             *)

(* The invariant holds initially.                                           *)
LEMMA InitHolds == Init => IInv
<1> SUFFICES ASSUME Init  PROVE IInv
  OBVIOUS
<1>1. TableCounts /\ \A c \in Conns : index[c] = -1
  BY InitTable DEF Init
<1>2. TypeOK
  BY <1>1 DEF Init, TypeOK, Places, Calls, AddStates, TableCounts
<1>3. TokenIsUnique /\ TokensFit /\ BindersFit
  BY DEF Init, TokenIsUnique, TokensFit, BindersFit, Binding, Idle
<1>4. TableFits /\ TableHoldsUsed
  BY <1>1 DEF Init, TableInit, TableCounts, TableFits, IndexNamesEntry,
     TableHoldsUsed
<1>5. FieldsFitPlace /\ QuittingIsCurrent
  BY DEF Init, FieldsFitPlace, QuittingIsCurrent
<1>6. PoolFits /\ FdHasOneOwner
  BY DEF Init, PoolFits, FdHasOneOwner
<1> QED  BY <1>2, <1>3, <1>4, <1>5, <1>6 DEF IInv, PlacesFit

(* Any step of a thread of the service keeps the invariant.                 *)
LEMMA HandleKeeps ==
  ASSUME IInv, NEW t \in Threads, Handle(t)
  PROVE  IInv'
BY HandleNewSessionKeeps, RegisterConnKeeps, SetConnKeeps, HandleShutKeeps,
   HandleShutoutKeeps, HandleOverKeeps, HandleQuitKeeps, CloseFdKeeps,
   ResetConnKeeps, RecycleKeeps, DropMessageKeeps, HandleWorkKeeps DEF Handle

(* The invariant is inductive.                                              *)
LEMMA StepHolds == IInv /\ [Next]_vars => IInv'
<1> SUFFICES ASSUME IInv, [Next]_vars  PROVE IInv'
  OBVIOUS
<1>1. ASSUME NEW a \in Adders, NEW c \in Conns, NEW f \in Fds,
             NEW next \in {"bind", "announce"}, AddConn(a, c, f, next)
      PROVE  IInv'
  BY <1>1, AddConnKeeps
<1>2. ASSUME NEW a \in Adders, FinishAdding(a)
      PROVE  IInv'
  BY <1>2, AnnounceConnKeeps, BindConnKeeps, RegisterConnKeeps, SetConnKeeps
     DEF FinishAdding
<1>3. ASSUME NEW u \in Users, NEW c \in Conns, NEW op \in {"close", "work"},
             BeginCall(u, c, op)
      PROVE  IInv'
  BY <1>3, BeginCallKeeps
<1>4. ASSUME NEW u \in Users, FinishClose(u) \/ FinishWork(u)
      PROVE  IInv'
  BY <1>4, FinishCloseKeeps, FinishWorkKeeps
<1>5. ASSUME NEW c \in Conns, NewTransaction(c)
      PROVE  IInv'
  BY <1>5, NewTransactionKeeps
<1>6. ASSUME NEW t \in Threads, Handle(t)
      PROVE  IInv'
  BY <1>6, HandleKeeps
<1>7. CASE UNCHANGED vars
  <2>1. QueueStep({}, Daemon, NoToken)
    BY <1>7, StillStep DEF vars, IInv, TypeOK
  <2> QED  BY <1>7, <2>1, NoTokenFits, QuietStep
           DEF vars, connVars, IInv, TypeOK, NoToken
<1> QED  BY <1>1, <1>2, <1>3, <1>4, <1>5, <1>6, <1>7 DEF Next

(* The invariant holds in every reachable state.                            *)
LEMMA InvHolds == Spec => []IInv
BY InitHolds, StepHolds, PTL DEF Spec

-----------------------------------------------------------------------------
(* What follows.                                                           *)

(* Every field of every connection, every queue and every call keeps its   *)
(* type.                                                                   *)
THEOREM TypeCorrect == Spec => []TypeOK
<1>1. IInv => TypeOK
  BY DEF IInv
<1> QED  BY <1>1, InvHolds, PTL

(* index_max bounds the entries of connections[], running_connections      *)
(* counts them, and the index of a connection is that of an entry which    *)
(* holds it, however the threads interleave procthread_add_connection with *)
(* the removal and the reuse of the connection they add.                   *)
THEOREM TableFitsIndexes == Spec => []TableFits
<1>1. IInv => TableFits
  BY DEF IInv, PlacesFit
<1> QED  BY <1>1, InvHolds, PTL

(* An entry of connections[] holds a connection in use that has its        *)
(* descriptor, unless service_pushconn came when it was removed.           *)
THEOREM TableHoldsOnlyUsed == Spec => []TableHoldsUsed
<1>1. IInv => TableHoldsUsed
  BY DEF IInv, PlacesFit
<1> QED  BY <1>1, InvHolds, PTL

(* However many threads close a connection, and whenever they do, it has   *)
(* one removal under way at most: the second look at d_state in conn_shut  *)
(* and the hand-over from handler to handler never duplicate it.           *)
THEOREM RemovalIsSingle == Spec => []OneRemoval
<1>1. IInv => OneRemoval
  <2> SUFFICES ASSUME IInv  PROVE OneRemoval
    OBVIOUS
  <2>1. \A c \in Conns, t, s \in Threads :
          \A i \in 1 .. Len(mq[t]), j \in 1 .. Len(mq[s]) :
            RemovalAt(c, t, i) /\ RemovalAt(c, s, j) => t = s /\ i = j
    BY DEF IInv, TokenIsUnique, RemovalAt, TokenOps
  <2>2. \A t, s \in Threads :
          quitting[t] # NoConn /\ quitting[t] = quitting[s] => t = s
    BY DEF IInv, PlacesFit, QuittingIsCurrent
  <2>3. \A t \in Threads : quitting[t] # NoConn => ~Removing(quitting[t])
    BY QuittingIsAlone DEF Removing, RemovalAt, TokenOps
  <2> QED  BY <2>1, <2>2, <2>3 DEF OneRemoval
<1> QED  BY <1>1, InvHolds, PTL

(* A removal message always carries the descriptor and the life of a       *)
(* bound, closing connection, and the index of an entry that holds it or   *)
(* none: qmessage_handler never drops one, and what QUIT terminates is     *)
(* what conn_shut was asked to close, registered or not.                   *)
THEOREM RemovalFitsItsConn == Spec => []RemovalIsCurrent
<1>1. IInv => RemovalIsCurrent
  BY DEF IInv, TokensFit, Fits, RemovalIsCurrent
<1> QED  BY <1>1, InvHolds, PTL

(* No descriptor has two connections, so close(conn->fd) never hits the    *)
(* descriptor of another connection.                                       *)
THEOREM FdIsOwnedOnce == Spec => []FdHasOneOwner
<1>1. IInv => FdHasOneOwner
  BY DEF IInv, PlacesFit
<1> QED  BY <1>1, InvHolds, PTL

(* A connection that service_addconn may take from qconns is there once    *)
(* and reset; no removal of it is under way, no thread terminates it and   *)
(* none is about to bind it.                                               *)
THEOREM PoolHoldsIdle == Spec => []PoolIsIdle
<1>1. ASSUME IInv  PROVE PoolIsIdle
  <2>1. PoolFits
    BY <1>1 DEF IInv, PlacesFit
  <2>2. ASSUME NEW c \in Conns, place[c] = "pool"
        PROVE  /\ fd[c] = 0 /\ dstate[c] = "free" /\ parent[c] = NoThread
               /\ ~Removing(c)
               /\ \A t \in Threads : quitting[t] # c
               /\ \A a \in Adders : add[a].conn = c => add[a].at \in {"push", "set"}
               /\ \A t \in Threads : \A i \in 1 .. Len(mq[t]) :
                    mq[t][i].conn = c => mq[t][i].op # "NEW_SESSION"
    <3>1. fd[c] = 0 /\ dstate[c] = "free" /\ parent[c] = NoThread
      BY <1>1, <2>2 DEF IInv, PlacesFit, FieldsFitPlace
    <3>2. /\ ~Removing(c)
          /\ \A t \in Threads : \A i \in 1 .. Len(mq[t]) :
               mq[t][i].conn = c => mq[t][i].op # "NEW_SESSION"
      BY <1>1, <2>2 DEF Removing, RemovalAt, IInv, TokensFit, Fits
    <3>3. \A t \in Threads : quitting[t] # c
      BY <1>1, <2>2, QuittingIsAlone, ConnsAssumption
    <3>4. \A a \in Adders : add[a].conn = c => add[a].at \in {"push", "set"}
      <4>1. \A a \in Adders : ~Binding(a) \/ add[a].conn # c
        BY <1>1, <2>2 DEF IInv, BindersFit
      <4>2. \A a \in Adders : add[a] \in AddStates
        BY <1>1 DEF IInv, TypeOK
      <4> QED  BY <4>1, <4>2, ConnsAssumption DEF Binding, AddStates, Idle
    <3> QED  BY <3>1, <3>2, <3>3, <3>4
  <2> QED  BY <2>1, <2>2 DEF PoolIsIdle, PoolFits
<1> QED  BY <1>1, InvHolds, PTL

-----------------------------------------------------------------------------
(* procthread_terminate_connection closes a descriptor last: its           *)
(* connection left the table and the iodaemon and the outdaemon have       *)
(* destroyed its events, unless service_pushconn or conn_set came when     *)
(* that was done already.                                                  *)

(* What the removal has done to the events by the time it gets to a        *)
(* message: SHUTOUT comes before OVER, and OVER before QUIT.               *)

Past(m) ==
  /\ m.op = "OVER" => "out" \notin events[m.conn]
  /\ m.op = "QUIT" /\ InOf[parent[m.conn]] # NoThread => events[m.conn] = {}

(* Thread t terminates a connection that still has its descriptor.         *)
Gone(t) ==
  LET c == quitting[t] IN
  c # NoConn /\ c \notin late /\ place[c] = "popped" /\ InOf[parent[c]] # NoThread
  => events[c] = {}

EventsFit ==
  /\ ~UseOut => \A c \in Conns : "out" \notin events[c]
  /\ \A t \in Threads : \A i \in 1 .. Len(mq[t]) :
       mq[t][i].conn \notin late => Past(mq[t][i])
  /\ \A t \in Threads : Gone(t)

(* A message m of before that fits the events of after the step.           *)
PastNext(m) ==
  /\ m.op = "OVER" => "out" \notin events'[m.conn]
  /\ m.op = "QUIT" /\ InOf[parent'[m.conn]] # NoThread => events'[m.conn] = {}

(* The step registers no event of c and leaves it with its threads.        *)
Kept(c) == parent'[c] = parent[c] /\ events'[c] \subseteq events[c]

(* The messages that say that events are gone.                             *)
PastOps == {"OVER", "QUIT"}

(* The invariant survives a step that registers events only of connections *)
(* of which no message says they are gone, or too late, and that pushes    *)
(* only a message which fits.                                              *)
LEMMA EventsStep ==
  ASSUME EventsFit, NEW P, NEW s, NEW n, QueueStep(P, s, n), late \subseteq late',
         ~UseOut => \A c \in Conns : "out" \notin events'[c],
         \A q \in Threads : \A j \in 1 .. Len(mq[q]) :
           mq[q][j].op \in PastOps /\ mq[q][j].conn \notin late'
           => Kept(mq[q][j].conn) \/ (q \in P /\ j = 1),
         n.conn \notin late' => PastNext(n),
         \A t \in Threads : Gone(t)'
  PROVE  EventsFit'
<1>1. ASSUME NEW q \in Threads, NEW i \in 1 .. Len(mq'[q]),
             mq'[q][i].conn \notin late'
      PROVE  Past(mq[q][i])'
  <2>1. CASE /\ Src(P, q, i) \in 1 .. Len(mq[q])
             /\ mq'[q][i] = mq[q][Src(P, q, i)]
    <3> DEFINE m == mq[q][Src(P, q, i)]
    <3>1. Past(m) /\ m.conn \notin late'
      BY <1>1, <2>1 DEF EventsFit
    <3>2. CASE m.op \notin PastOps
      BY <2>1, <3>2 DEF Past, PastOps
    <3>3. CASE m.op \in PastOps
      <4>1. ~(q \in P /\ Src(P, q, i) = 1)
        BY DEF QueueStep, Src
      <4>2. Kept(m.conn)
        BY <2>1, <3>1, <3>3, <4>1
      <4> QED  BY <2>1, <3>1, <4>2 DEF Past, Kept
    <3> QED  BY <3>2, <3>3
  <2>2. CASE mq'[q][i] = n
    BY <1>1, <2>2 DEF Past, PastNext
  <2> QED  BY <2>1, <2>2 DEF QueueStep
<1> QED  BY <1>1 DEF EventsFit

(* A step that only moves messages and changes neither events nor threads. *)
LEMMA EventsStill ==
  ASSUME EventsFit, NEW P, NEW s, NEW n, QueueStep(P, s, n), PastNext(n),
         UNCHANGED <<place, parent, events, late, quitting>>
  PROVE  EventsFit'
<1>1. \A c : Kept(c)
  BY DEF Kept
<1>2. \A t \in Threads : Gone(t)'
  BY DEF EventsFit, Gone
<1> QED  BY <1>1, <1>2, EventsStep DEF EventsFit

(* A message that is no removal asks nothing of the events.                *)
LEMMA NoTokenPast == PastNext(NoToken)
BY DEF PastNext, NoToken

-----------------------------------------------------------------------------
(* One lemma per group of actions.                                         *)

(* Steps that leave the connections where they are and push at most a      *)
(* message that is neither OVER nor QUIT.                                  *)
LEMMA QuietKeepsEvents ==
  ASSUME IInv, EventsFit,
         \/ \E a \in Adders : AnnounceConn(a)
         \/ \E u \in Users, c \in Conns, op \in {"close", "work"} : BeginCall(u, c, op)
         \/ \E u \in Users : FinishClose(u) \/ FinishWork(u)
         \/ \E c \in Conns : NewTransaction(c)
         \/ \E t \in Threads : DropMessage(t) \/ HandleWork(t)
         \/ UNCHANGED vars
  PROVE  EventsFit'
<1>1. mq \in [Threads -> Seq(Message)]
  BY DEF IInv, TypeOK
<1>2. UNCHANGED <<place, parent, events, late, quitting>>
  BY DEF AnnounceConn, BeginCall, FinishClose, FinishWork, NewTransaction,
         DropMessage, HandleWork, connVars, vars
<1>3. CASE UNCHANGED mq
  BY <1>1, <1>2, <1>3, StillStep, NoTokenPast, EventsStill
<1>4. ASSUME NEW t \in Threads, mq[t] # <<>>, Pop(t)
      PROVE  EventsFit'
  BY <1>1, <1>2, <1>4, PopStep, NoTokenPast, EventsStill
<1>5. ASSUME NEW s, NEW n \in Message, n.op \notin PastOps, Push(s, n),
             s \in Threads
      PROVE  EventsFit'
  <2>1. PastNext(n)
    BY <1>5 DEF PastNext, PastOps
  <2>2. QueueStep({}, s, n)
    BY <1>1, <1>5, PushStep
  <2> QED  BY <1>2, <2>1, <2>2, EventsStill
<1>6. ASSUME NEW u \in Users, FinishClose(u)  PROVE EventsFit'
  <2> DEFINE c == call[u].conn
  <2>1. c \in Conns
    BY <1>6 DEF FinishClose, IInv, TypeOK, Calls, NoCall
  <2>2. Msg("SHUT", c) \in Message /\ Msg("SHUT", c).op \notin PastOps
    BY <2>1, MsgType DEF IInv, Ops, PipelineOps, PastOps, Msg
  <2>3. CASE parent[c] # NoThread /\ Push(parent[c], Msg("SHUT", c))
    <3>1. parent[c] \in Threads
      BY <2>1, <2>3 DEF IInv, TypeOK, Threads
    <3> QED  BY <2>2, <2>3, <3>1, <1>5
  <2> QED  BY <1>3, <1>6, <2>3 DEF FinishClose
<1>7. ASSUME NEW u \in Users, FinishWork(u)  PROVE EventsFit'
  <2> DEFINE m == Msg("WORK", call[u].conn)
  <2>1. call[u].conn \in Conns
    BY <1>7 DEF FinishWork, IInv, TypeOK, Calls, NoCall
  <2>2. m \in Message /\ m.op \notin PastOps
    BY <2>1, MsgType DEF IInv, Ops, Msg, PastOps
  <2> HIDE DEF m
  <2>3. ASSUME NEW q \in Threads, Push(q, m)  PROVE EventsFit'
    BY <2>2, <2>3, <1>5
  <2> QED  BY <1>3, <1>7, <2>3 DEF FinishWork, m
<1>8. ASSUME NEW f \in Fds, NEW m \in Message, m.op \notin PastOps,
             Push(ProcOf[f], m)
      PROVE  EventsFit'
  <2>1. ProcOf[f] \in Threads
    <3>1. ProcOf[f] \in ProcThreads
      BY ThreadsAssumption
    <3> QED  BY <3>1 DEF Threads
  <2> QED  BY <1>5, <1>8, <2>1
<1>9. ASSUME NEW c \in Conns, NewTransaction(c)  PROVE EventsFit'
  <2>1. /\ MsgNoIndex("TRANSACTION", c) \in Message
        /\ MsgNoIndex("TRANSACTION", c).op \notin PastOps
    BY MsgType DEF IInv, Ops, MsgNoIndex, Msg, PastOps
  <2>2. fd[c] \in Fds
    BY <1>9 DEF NewTransaction, IInv, TypeOK
  <2> QED  BY <1>8, <1>9, <2>1, <2>2 DEF NewTransaction
<1>10. ASSUME NEW a \in Adders, AnnounceConn(a)  PROVE EventsFit'
  <2> DEFINE c == add[a].conn
  <2>1. c \in Conns /\ place[c] = "used"
    BY <1>10, AddTypes DEF AnnounceConn, IInv, BindersFit, Binding
  <2>2. /\ MsgNoIndex("NEW_SESSION", c) \in Message
        /\ MsgNoIndex("NEW_SESSION", c).op \notin PastOps
    BY <2>1, MsgType DEF IInv, Ops, MsgNoIndex, Msg, PastOps
  <2>3. fd[c] \in Fds
    BY <2>1 DEF IInv, PlacesFit, FieldsFitPlace
  <2> QED  BY <1>8, <1>10, <2>2, <2>3 DEF AnnounceConn
<1>11. ASSUME NEW t \in Threads, DropMessage(t) \/ HandleWork(t)  PROVE EventsFit'
  BY <1>4, <1>11 DEF DropMessage, HandleWork, Dispatches, Ready
<1> QED  BY <1>3, <1>6, <1>7, <1>9, <1>10, <1>11 DEF BeginCall, vars

(* service_addconn takes a connection of which no thread holds a message   *)
(* that says its events are gone.                                          *)
LEMMA AddConnKeepsEvents ==
  ASSUME IInv, EventsFit, NEW a \in Adders, NEW c \in Conns, NEW f \in Fds,
         NEW next \in {"bind", "announce"}, AddConn(a, c, f, next)
  PROVE  EventsFit'
<1>1. /\ place' = [place EXCEPT ![c] = "used"]
      /\ UNCHANGED <<parent, events, late, mq, quitting>>
  BY DEF AddConn
<1>2. QueueStep({}, Daemon, NoToken)
  BY <1>1, StillStep DEF IInv, TypeOK
<1>3. \A d : Kept(d)
  BY <1>1 DEF Kept
<1>4. \A t \in Threads : Gone(t)'
  <2>1. \A d \in Conns : place'[d] = "popped" => place[d] = "popped"
    BY <1>1 DEF IInv, TypeOK
  <2> QED  BY <1>1, <2>1 DEF Gone, EventsFit, IInv, TypeOK
<1> QED  BY <1>1, <1>2, <1>3, <1>4, NoTokenPast, EventsStep DEF EventsFit

(* service_pushconn leaves the events alone.                               *)
LEMMA RegisterConnKeepsEvents ==
  ASSUME IInv, EventsFit, NEW a \in Threads \cup Adders, RegisterConn(a)
  PROVE  EventsFit'
<1>1. late \subseteq late' /\ UNCHANGED <<place, parent, events, mq, quitting>>
  BY DEF RegisterConn
<1>2. QueueStep({}, Daemon, NoToken)
  BY <1>1, StillStep DEF IInv, TypeOK
<1>3. \A d : Kept(d)
  BY <1>1 DEF Kept
<1>4. \A t \in Threads : Gone(t)'
  BY <1>1 DEF Gone, EventsFit
<1> QED  BY <1>1, <1>2, <1>3, <1>4, NoTokenPast, EventsStep DEF EventsFit

(* conn_set registers events: when the removal is past the procthread the  *)
(* connection counts as late from now on.                                  *)
LEMMA SetConnKeepsEvents ==
  ASSUME IInv, EventsFit, NEW a \in Threads \cup Adders, SetConn(a)
  PROVE  EventsFit'
<1> DEFINE c == add[a].conn
<1>1. UNCHANGED <<place, parent, mq, quitting>>
  BY DEF SetConn
<1>2. c \in Conns
  BY AddTypes DEF SetConn, IInv
<1>3. QueueStep({}, Daemon, NoToken)
  BY <1>1, StillStep DEF IInv, TypeOK
<1>4. CASE UNCHANGED <<events, late>>
  BY <1>1, <1>3, <1>4, NoTokenPast, EventsStill
<1>5. CASE /\ events' = [events EXCEPT ![c] = SetEvents]
           /\ late' = IF RemovalPast(c) THEN late \cup {c} ELSE late
  <2>1. \A d \in Conns \ {c} : events'[d] = events[d] /\ Kept(d)
    BY <1>1, <1>5 DEF Kept, IInv, TypeOK
  <2>2. late \subseteq late' /\ (c \notin late' => ~RemovalPast(c))
    BY <1>5
  <2>3. \A q \in Threads : \A j \in 1 .. Len(mq[q]) :
          mq[q][j].op \in PastOps /\ mq[q][j].conn \notin late'
          => Kept(mq[q][j].conn)
    BY <2>1, <2>2, MessageConn DEF IInv, RemovalPast, PastOps, PipelineOps
  <2>4. \A t \in Threads : Gone(t)'
    <3>1. ASSUME NEW t \in Threads, quitting[t] # NoConn, quitting[t] \notin late'
          PROVE  events'[quitting[t]] = events[quitting[t]]
      <4>1. quitting[t] # c
        BY <2>2, <3>1 DEF RemovalPast
      <4> QED  BY <2>1, <3>1, <4>1 DEF IInv, TypeOK
    <3> QED  BY <1>1, <2>2, <3>1 DEF Gone, EventsFit
  <2>5. ~UseOut => \A d \in Conns : "out" \notin events'[d]
    BY <1>5 DEF EventsFit, SetEvents, IInv, TypeOK
  <2> QED  BY <1>3, <2>2, <2>3, <2>4, <2>5, NoTokenPast, EventsStep
<1> QED  BY <1>4, <1>5 DEF SetConn

(* procthread_add_connection: a connection that is being bound has no      *)
(* removal message.                                                        *)
LEMMA BindKeepsEvents ==
  ASSUME IInv, EventsFit, NEW c \in Conns, NEW P, QueueStep(P, Daemon, NoToken),
         place[c] = "used", Bind(c),
         \A q \in Threads : \A j \in 1 .. Len(mq[q]) :
           mq[q][j].op \in TokenOps => mq[q][j].conn # c \/ (q \in P /\ j = 1),
         UNCHANGED <<place, events, late, quitting>>
  PROVE  EventsFit'
<1>1. \A d \in Conns \ {c} : parent'[d] = parent[d] /\ Kept(d)
  BY DEF Bind, Kept, IInv, TypeOK
<1>2. \A q \in Threads : \A j \in 1 .. Len(mq[q]) :
        mq[q][j].op \in PastOps => Kept(mq[q][j].conn) \/ (q \in P /\ j = 1)
  BY <1>1, MessageConn DEF IInv, PastOps, TokenOps, PipelineOps
<1>3. \A t \in Threads : Gone(t)'
  <2>1. ASSUME NEW t \in Threads, quitting[t] # NoConn,
               place[quitting[t]] = "popped"
        PROVE  parent'[quitting[t]] = parent[quitting[t]]
    BY <1>1, <2>1 DEF IInv, TypeOK
  <2> QED  BY <2>1 DEF Gone, EventsFit
<1> QED  BY <1>2, <1>3, NoTokenPast, EventsStep DEF EventsFit

(* The two callers of procthread_add_connection.                           *)
LEMMA BindersKeepEvents ==
  ASSUME IInv, EventsFit,
         (\E a \in Adders : BindConn(a)) \/ \E t \in Threads : HandleNewSession(t)
  PROVE  EventsFit'
<1>1. ASSUME NEW a \in Adders, BindConn(a)  PROVE EventsFit'
  <2> DEFINE c == add[a].conn
  <2>1. /\ Binding(a) /\ c \in Conns /\ Bind(c)
        /\ UNCHANGED <<place, events, late, mq, quitting>>
    BY <1>1, AddTypes DEF BindConn, Binding, IInv
  <2>2. place[c] = "used" /\ parent[c] = NoThread
    BY <2>1 DEF IInv, BindersFit
  <2>3. QueueStep({}, Daemon, NoToken)
    BY <2>1, StillStep DEF IInv, TypeOK
  <2>4. \A q \in Threads : \A j \in 1 .. Len(mq[q]) :
          mq[q][j].op \in TokenOps => mq[q][j].conn # c
    BY <2>1, <2>2 DEF IInv, TokensFit, Fits, TokenOps, BindersFit
  <2> HIDE DEF c
  <2> QED  BY <2>1, <2>2, <2>3, <2>4, BindKeepsEvents
<1>2. ASSUME NEW t \in Threads, HandleNewSession(t)  PROVE EventsFit'
  <2> DEFINE c == Head(mq[t]).conn
  <2>1. /\ mq[t] # <<>> /\ Head(mq[t]).op = "NEW_SESSION"
        /\ Bind(c) /\ Pop(t) /\ UNCHANGED <<place, events, late, quitting>>
    BY <1>2 DEF HandleNewSession, Dispatches, Ready
  <2>2. c \in Conns
    BY <2>1, HeadFacts DEF IInv
  <2>3. QueueStep({t}, Daemon, NoToken)
    BY <2>1, PopStep DEF IInv, TypeOK
  <2>4. /\ place[c] = "used"
        /\ \A q \in Threads : \A j \in 1 .. Len(mq[q]) :
             mq[q][j].op \in TokenOps => mq[q][j].conn # c \/ (q \in {t} /\ j = 1)
    BY <2>1, HeadTokenIsAlone DEF TokenOps, Fits
  <2> HIDE DEF c
  <2> QED  BY <2>1, <2>2, <2>3, <2>4, BindKeepsEvents
<1> QED  BY <1>1, <1>2

(* SHUT, SHUTOUT and OVER: what each handler has destroyed is what the     *)
(* message it pushes says.                                                 *)
LEMMA PassOnKeepsEvents ==
  ASSUME IInv, EventsFit, NEW t \in Threads,
         HandleShut(t) \/ HandleShutout(t) \/ HandleOver(t)
  PROVE  EventsFit'
<1> DEFINE c == Head(mq[t]).conn
<1>1. /\ mq[t] # <<>> /\ Head(mq[t]).op \in PipelineOps
      /\ UNCHANGED <<place, parent, late, quitting>>
  BY DEF HandleShut, HandleShutout, HandleOver, Dispatches, Ready, PipelineOps,
         connVars
<1>2. c \in Conns /\ (c \notin late => Past(Head(mq[t])))
  BY <1>1, HeadFacts DEF IInv, EventsFit
<1>3. events \in [Conns -> SUBSET {"in", "out"}] /\ mq \in [Threads -> Seq(Message)]
  BY DEF IInv, TypeOK
<1>4. \A d \in Conns : events'[d] \subseteq events[d]
  BY <1>3 DEF HandleShut, HandleShutout, HandleOver, connVars
<1>5. \E s : \E op \in PipelineOps :
        /\ PopAndPush(t, s, Msg(op, c))
        /\ op = "OVER" => "out" \notin events'[c]
        /\ op = "QUIT" /\ InOf[parent[c]] # NoThread /\ c \notin late
           => events'[c] = {}
  <2>1. CASE HandleShut(t)
    BY <1>2, <2>1 DEF HandleShut, PipelineOps, EventsFit, connVars
  <2>2. CASE HandleShutout(t)
    <3>1. PopAndPush(t, InOf[parent[c]], Msg("OVER", c)) /\ "out" \notin events'[c]
      BY <1>2, <1>3, <2>2 DEF HandleShutout
    <3> QED  BY <3>1 DEF PipelineOps
  <2>3. CASE HandleOver(t)
    <3>1. PopAndPush(t, Daemon, Msg("QUIT", c)) /\ Head(mq[t]).op = "OVER"
      BY <2>3 DEF HandleOver, Dispatches
    <3>2. /\ c \notin late => events[c] \subseteq {"in"}
          /\ events'[c] = events[c] \ {"in"}
      BY <1>2, <1>3, <2>3, <3>1 DEF Past, HandleOver
    <3>3. c \notin late => events'[c] = {}
      BY <3>2
    <3> QED  BY <3>1, <3>3 DEF PipelineOps
  <2> QED  BY <2>1, <2>2, <2>3
<1>6. PICK s : \E op \in PipelineOps :
        /\ PopAndPush(t, s, Msg(op, c))
        /\ op = "OVER" => "out" \notin events'[c]
        /\ op = "QUIT" /\ InOf[parent[c]] # NoThread /\ c \notin late
           => events'[c] = {}
  BY <1>5
<1>7. PICK op \in PipelineOps :
        /\ PopAndPush(t, s, Msg(op, c))
        /\ op = "OVER" => "out" \notin events'[c]
        /\ op = "QUIT" /\ InOf[parent[c]] # NoThread /\ c \notin late
           => events'[c] = {}
  BY <1>6
<1> DEFINE m == Msg(op, c)
<1>8. m \in Message /\ m.op = op /\ m.conn = c
  BY <1>2, MsgType DEF IInv, Ops, Msg
<1>9. QueueStep({t}, s, m)
  BY <1>1, <1>3, <1>7, <1>8, PopAndPushStep
<1>10. m.conn \notin late' => PastNext(m)
  BY <1>1, <1>7, <1>8 DEF PastNext
<1>11. \A q \in Threads : \A j \in 1 .. Len(mq[q]) : Kept(mq[q][j].conn)
  BY <1>1, <1>4, MessageConn DEF Kept, IInv
<1>12. \A u \in Threads : Gone(u)'
  BY <1>1, <1>4 DEF Gone, EventsFit, IInv, TypeOK
<1>13. ~UseOut => \A d \in Conns : "out" \notin events'[d]
  BY <1>4 DEF EventsFit
<1> HIDE DEF c, m
<1> QED  BY <1>1, <1>9, <1>10, <1>11, <1>12, <1>13, EventsStep

(* procthread_terminate_connection: QUIT says that the events are gone.    *)
LEMMA TerminateKeepsEvents ==
  ASSUME IInv, EventsFit, NEW t \in Threads,
         HandleQuit(t) \/ CloseFd(t) \/ ResetConn(t) \/ Recycle(t)
  PROVE  EventsFit'
<1>1. /\ mq \in [Threads -> Seq(Message)] /\ place \in [Conns -> Places]
      /\ \A s \in Threads : quitting[s] \in Conns \cup {NoConn}
  BY DEF IInv, TypeOK
<1>2. CASE HandleQuit(t)
  <2> DEFINE c == Head(mq[t]).conn
  <2>1. /\ mq[t] # <<>> /\ Head(mq[t]).op = "QUIT" /\ Pop(t)
        /\ place' = [place EXCEPT ![c] = "popped"]
        /\ quitting' = [quitting EXCEPT ![t] = c]
        /\ UNCHANGED <<parent, events, late>>
    BY <1>2 DEF HandleQuit, Dispatches, Ready
  <2>2. QueueStep({t}, Daemon, NoToken)
    BY <1>1, <2>1, PopStep
  <2>3. c \in Conns /\ (c \notin late => Past(Head(mq[t])))
    BY <2>1, HeadFacts DEF IInv, EventsFit
  <2>4. place[c] = "used"
    BY <2>1, HeadTokenIsAlone DEF TokenOps, PipelineOps, Fits
  <2>5. \A d : Kept(d)
    BY <2>1 DEF Kept
  <2>6. \A s \in Threads : Gone(s)'
    <3>1. c \notin late /\ InOf[parent[c]] # NoThread => events[c] = {}
      BY <2>1, <2>3 DEF Past
    <3>2. /\ quitting'[t] = c /\ \A s \in Threads \ {t} : quitting'[s] = quitting[s]
          /\ \A d \in Conns \ {c} : place'[d] = place[d]
      BY <2>1 DEF IInv, TypeOK
    <3>3. \A s \in Threads \ {t} : quitting[s] # NoConn => quitting[s] # c
      BY <2>4 DEF IInv, PlacesFit, QuittingIsCurrent
    <3> HIDE DEF c
    <3>4. Gone(t)'
      BY <2>1, <3>1, <3>2 DEF Gone
    <3>5. ASSUME NEW s \in Threads \ {t}  PROVE Gone(s)'
      <4>1. quitting'[s] = quitting[s] /\ Gone(s)
        BY <3>2 DEF EventsFit
      <4>2. quitting[s] # NoConn => place'[quitting[s]] = place[quitting[s]]
        BY <1>1, <3>2, <3>3
      <4> QED  BY <2>1, <4>1, <4>2 DEF Gone
    <3> QED  BY <3>4, <3>5
  <2> HIDE DEF c
  <2> QED  BY <2>1, <2>2, <2>5, <2>6, NoTokenPast, EventsStep DEF EventsFit
<1>3. CASE CloseFd(t) \/ ResetConn(t)
  <2>1. /\ place' \in {[place EXCEPT ![quitting[t]] = "closed"],
                       [place EXCEPT ![quitting[t]] = "reset"]}
        /\ UNCHANGED <<parent, events, late, mq, quitting>>
    BY <1>3 DEF CloseFd, ResetConn
  <2>2. QueueStep({}, Daemon, NoToken)
    BY <1>1, <2>1, StillStep
  <2>3. \A d : Kept(d)
    BY <2>1 DEF Kept
  <2>4. \A s \in Threads : Gone(s)'
    <3>1. \A d \in Conns : place'[d] = "popped" => place[d] = "popped"
      BY <1>1, <2>1
    <3> QED  BY <1>1, <2>1, <3>1 DEF Gone, EventsFit
  <2> QED  BY <2>1, <2>2, <2>3, <2>4, NoTokenPast, EventsStep DEF EventsFit
<1>4. CASE Recycle(t)
  <2> DEFINE c == quitting[t]
  <2>1. /\ c # NoConn
        /\ parent' = [parent EXCEPT ![c] = NoThread]
        /\ place' \in {[place EXCEPT ![c] = "pool"], [place EXCEPT ![c] = "heap"]}
        /\ quitting' = [quitting EXCEPT ![t] = NoConn]
        /\ UNCHANGED <<events, late, mq>>
    BY <1>4 DEF Recycle
  <2>2. \A q \in Threads : \A j \in 1 .. Len(mq[q]) :
          mq[q][j].op \in TokenOps => mq[q][j].conn \in Conns \ {c}
    BY <2>1, QuittingIsAlone
  <2>3. QueueStep({}, Daemon, NoToken)
    BY <1>1, <2>1, StillStep
  <2> HIDE DEF c
  <2>4. \A d \in Conns \ {c} : Kept(d) /\ parent'[d] = parent[d]
    BY <2>1 DEF Kept, IInv, TypeOK
  <2>5. \A d \in Conns : place'[d] = "popped" => d # c /\ place[d] = "popped"
    BY <1>1, <2>1
  <2>6. \A s \in Threads : Gone(s)'
    <3>1. \A s \in Threads : quitting'[s] \in {quitting[s], NoConn}
      BY <2>1 DEF IInv, TypeOK
    <3>2. ASSUME NEW s \in Threads, quitting'[s] # NoConn,
                 place'[quitting'[s]] = "popped"
          PROVE  /\ quitting'[s] = quitting[s] /\ place[quitting[s]] = "popped"
                 /\ parent'[quitting[s]] = parent[quitting[s]] /\ Gone(s)
      <4>1. quitting'[s] = quitting[s] /\ quitting[s] \in Conns
        BY <1>1, <3>1, <3>2
      <4> QED  BY <2>4, <2>5, <3>2, <4>1 DEF EventsFit
    <3> QED  BY <2>1, <3>2 DEF Gone
  <2>7. \A q \in Threads : \A j \in 1 .. Len(mq[q]) :
          mq[q][j].op \in PastOps => Kept(mq[q][j].conn)
    BY <2>2, <2>4 DEF PastOps, TokenOps, PipelineOps
  <2> QED  BY <2>1, <2>3, <2>6, <2>7, NoTokenPast, EventsStep DEF EventsFit
<1> QED  BY <1>2, <1>3, <1>4

-----------------------------------------------------------------------------
(* The invariant and what follows.                                         *)

(* The events fit initially.                                               *)
LEMMA InitEvents == Init => EventsFit
BY DEF Init, EventsFit, Gone

(* Every step keeps them so.                                               *)
LEMMA StepEvents == IInv /\ EventsFit /\ [Next]_vars => EventsFit'
<1> SUFFICES ASSUME IInv, EventsFit, [Next]_vars
             PROVE  EventsFit'
  OBVIOUS
<1>1. ASSUME NEW a \in Adders, NEW c \in Conns, NEW f \in Fds,
             NEW next \in {"bind", "announce"}, AddConn(a, c, f, next)
      PROVE  EventsFit'
  BY <1>1, AddConnKeepsEvents
<1>2. ASSUME NEW a \in Adders, FinishAdding(a)
      PROVE  EventsFit'
  BY <1>2, QuietKeepsEvents, BindersKeepEvents, RegisterConnKeepsEvents,
     SetConnKeepsEvents DEF FinishAdding
<1>3. CASE \/ \E u \in Users, c \in Conns, op \in {"close", "work"} :
                BeginCall(u, c, op)
           \/ \E u \in Users : FinishClose(u) \/ FinishWork(u)
           \/ \E c \in Conns : NewTransaction(c)
           \/ UNCHANGED vars
  BY <1>3, QuietKeepsEvents
<1>4. ASSUME NEW t \in Threads, Handle(t)
      PROVE  EventsFit'
  BY <1>4, QuietKeepsEvents, BindersKeepEvents, RegisterConnKeepsEvents,
     SetConnKeepsEvents, PassOnKeepsEvents, TerminateKeepsEvents DEF Handle
<1> QED  BY <1>1, <1>2, <1>3, <1>4 DEF Next

(* close(conn->fd) is the last thing that happens to a connection: it is   *)
(* closing and, unless the thread that added it came late, out of the      *)
(* table and in WORKING_THREAD mode without events, whatever the number of *)
(* threads and however their queues interleave.                            *)
THEOREM DescriptorClosedLast == Spec => FdClosedLast
<1> DEFINE Closes == \A f \in openFds \ openFds' : \E c \in Conns :
             /\ fd[c] = f
             /\ dstate[c] = "close"
             /\ c \notin late =>
                  ~InTable(c) /\ (InOf[parent[c]] # NoThread => events[c] = {})
<1>1. ASSUME IInv, EventsFit, [Next]_vars  PROVE [Closes]_vars
  <2>1. SUFFICES ASSUME Next, NEW f \in openFds \ openFds'
                 PROVE  \E c \in Conns :
                          /\ fd[c] = f
                          /\ dstate[c] = "close"
                          /\ c \notin late =>
                               /\ ~InTable(c)
                               /\ InOf[parent[c]] # NoThread => events[c] = {}
    BY <1>1
  <2>2. PICK t \in Threads : CloseFd(t)
    BY <2>1 DEF Next, Handle, FinishAdding, AddConn, BindConn, RegisterConn,
       SetConn, AnnounceConn, BeginCall, FinishClose, FinishWork, NewTransaction,
       HandleNewSession, HandleShut, HandleShutout, HandleOver, HandleQuit,
       ResetConn, Recycle, DropMessage, HandleWork
  <2> DEFINE c == quitting[t]
  <2>3. c # NoConn /\ place[c] = "popped" /\ openFds' = openFds \ {fd[c]}
    BY <2>2 DEF CloseFd
  <2>4. c \in Conns /\ (c \notin late => ~InTable(c))
    BY <1>1, <2>3, QuittingIsAlone
  <2>5. dstate[c] = "close"
    BY <1>1, <2>3, <2>4 DEF IInv, PlacesFit, FieldsFitPlace
  <2>6. c \notin late /\ InOf[parent[c]] # NoThread => events[c] = {}
    BY <1>1, <2>3 DEF EventsFit, Gone
  <2> QED  BY <2>1, <2>3, <2>4, <2>5, <2>6
<1>2. Spec => [](IInv /\ EventsFit)
  <2>1. Init => EventsFit
    BY InitEvents
  <2>2. IInv /\ EventsFit /\ [Next]_vars => EventsFit'
    BY StepEvents
  <2> QED  BY <2>1, <2>2, InvHolds, PTL DEF Spec
<1>3. IInv /\ EventsFit /\ [Next]_vars => [Closes]_vars
  BY <1>1
<1> QED  BY <1>2, <1>3, PTL DEF Spec, FdClosedLast
=============================================================================
