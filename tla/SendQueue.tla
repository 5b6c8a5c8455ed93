------------------------------ MODULE SendQueue ------------------------------
(***************************************************************************)
(* The send queue of a connection (conn.c).  Threads take chunks from the  *)
(* blocks of the connection, fill and queue them, and announce them to the *)
(* thread that waits for the descriptor to be writable: the outdaemon, the *)
(* indaemon, or, without either, the daemon that also handles the messages *)
(* of the connection.  That thread writes the head of the queue, frees it  *)
(* when it is sent, and closes the connection when it finds an empty chunk *)
(* (conn_over_chunk).  A client connection is emptied when it is taken     *)
(* into use (conn_start_cstate).  Lives follow one another (conn_reset).   *)
(*                                                                         *)
(* popchunk and freechunk, and the three operations on the queue, are      *)
(* sections of conn->mutex and steps here.                                 *)
(***************************************************************************)
EXTENDS Integers, FiniteSets, SequencesExt

CONSTANTS
  Users,      (* threads that send                                         *)
  Modes,      (* "daemon" with outdaemon or indaemon, "own" without: who   *)
              (* waits for the descriptor                                  *)
  QBlockMax,  (* SB_QBLOCK_MAX; nothing in the code keeps the application  *)
              (* from having more chunks at a time, the model does         *)
  MaxSize,    (* bound: units of data in a chunk                           *)
  MaxPushes   (* bound: chunks that are queued                             *)

ASSUME SendAssumption ==
  /\ IsFiniteSet(Users)
  /\ Modes \subseteq {"daemon", "own"}
  /\ QBlockMax \in Nat /\ MaxSize \in Nat \ {0} /\ MaxPushes \in Nat

Blocks == 0 .. QBlockMax - 1
None == -1

VARIABLES
  mode,     (* of the service                                              *)
  sendq,    (* qhead .. qtail                                              *)
  left,     (* chunk->left of every block; 0 is CHUNK_STATUS_OVER          *)
  qleft,    (* qleft[0 .. nqleft-1]                                        *)
  nblocks,  (* qblock_max                                                  *)
  user,     (* of a thread: what it is about to do, and its block          *)
  pushes,   (* how many chunks were queued                                 *)
  writer,   (* of the waiting thread: its place in write_handler, cp,      *)
            (* chunk_over, and whether an OUT message called it            *)
  armed,    (* E_WRITE is set in the event                                 *)
  outs,     (* OUT messages in the queue of the waiting thread             *)
  ends,     (* END messages in the queue of the procthread                 *)
  closed,   (* d_state                                                     *)
  owed,     (* history: units that were queued and neither sent nor        *)
            (* discarded by conn_start_cstate                              *)
  crossed   (* history: conn_start_cstate popped while write_handler ran   *)

queueVars == <<mode, sendq, left, qleft, nblocks>>
waitVars == <<armed, outs, ends>>
historyVars == <<owed, crossed>>
vars == <<queueVars, user, pushes, writer, waitVars, closed, historyVars>>

Idle == [at |-> "idle", block |-> None]
Waiting == [at |-> "idle", cp |-> None, over |-> FALSE, out |-> FALSE]

TypeOK ==
  /\ mode \in Modes
  /\ sendq \in Seq(Blocks) /\ qleft \in Seq(Blocks)
  /\ left \in [Blocks -> 0 .. MaxSize]
  /\ nblocks \in 0 .. QBlockMax
  /\ user \in [Users -> [at : {"idle", "held", "filled", "queued", "clearing"},
                         block : Blocks \cup {None}]]
  /\ writer \in [at : {"idle", "head", "write", "drop", "peek", "decide", "disarm", "return"},
                 cp : Blocks \cup {None}, over : BOOLEAN, out : BOOLEAN]
  /\ pushes \in 0 .. MaxPushes
  /\ armed \in BOOLEAN /\ outs \in Nat /\ ends \in Nat
  /\ closed \in BOOLEAN /\ crossed \in BOOLEAN
  /\ owed \in Int

Init ==
  /\ mode \in Modes
  /\ sendq = <<>> /\ qleft = <<>>
  /\ left = [b \in Blocks |-> 0]
  /\ nblocks = 0
  /\ user = [u \in Users |-> Idle]
  /\ pushes = 0
  /\ writer = Waiting
  /\ armed = FALSE /\ outs = 0 /\ ends = 0
  /\ closed = FALSE /\ crossed = FALSE
  /\ owed = 0

-----------------------------------------------------------------------------
(* Blocks.                                                                 *)

(* conn_popchunk: the last one of qleft, else the next of qblocks.         *)
PopChunk(b) ==
  \/ /\ qleft # <<>> /\ b = Last(qleft)
     /\ qleft' = Front(qleft)
     /\ UNCHANGED nblocks
  \/ /\ qleft = <<>> /\ nblocks < QBlockMax /\ b = nblocks
     /\ nblocks' = nblocks + 1
     /\ UNCHANGED qleft

(* SENDQPOP and conn_freechunk with its chunk_reset, when the queue is not *)
(* empty.                                                                  *)
DropHead ==
  IF sendq = <<>> THEN UNCHANGED <<sendq, left, qleft>>
  ELSE /\ sendq' = Tail(sendq)
       /\ left' = [left EXCEPT ![Head(sendq)] = 0]
       /\ qleft' = Append(qleft, Head(sendq))

-----------------------------------------------------------------------------
(* Threads that send.                                                      *)

To(u, at, b) == user' = [user EXCEPT ![u] = [at |-> at, block |-> b]]

(* conn_push_chunk, conn_push_file (size > 0) and conn_over_chunk (size 0) *)
(* up to the filling of the chunk.                                         *)
PushChunk(u, size) ==
  /\ user[u].at = "idle" /\ ~closed /\ pushes < MaxPushes
  /\ \E b \in Blocks :
       /\ PopChunk(b)
       /\ left' = [left EXCEPT ![b] = size]
       /\ To(u, "filled", b)
  /\ UNCHANGED <<mode, sendq, pushes, writer, waitVars, closed, historyVars>>

(* conn_newchunk, which looks at no state.                                 *)
NewChunk(u, size) ==
  /\ user[u].at = "idle" /\ size > 0 /\ pushes < MaxPushes
  /\ \E b \in Blocks :
       /\ PopChunk(b)
       /\ left' = [left EXCEPT ![b] = size]
       /\ To(u, "held", b)
  /\ UNCHANGED <<mode, sendq, pushes, writer, waitVars, closed, historyVars>>

(* conn_send_chunk: its CONN_CHECK.                                        *)
SendChunk(u) ==
  /\ user[u].at = "held" /\ ~closed
  /\ To(u, "filled", user[u].block)
  /\ UNCHANGED <<queueVars, pushes, writer, waitVars, closed, historyVars>>

(* conn_freechunk of a chunk that is not sent.                             *)
FreeChunk(u) ==
  LET b == user[u].block IN
  /\ user[u].at = "held"
  /\ left' = [left EXCEPT ![b] = 0]
  /\ qleft' = Append(qleft, b)
  /\ To(u, "idle", None)
  /\ UNCHANGED <<mode, sendq, nblocks, pushes, writer, waitVars, closed, historyVars>>

(* SENDQPUSH.                                                              *)
Enqueue(u) ==
  LET b == user[u].block IN
  /\ user[u].at = "filled" /\ pushes < MaxPushes
  /\ sendq' = Append(sendq, b)
  /\ pushes' = pushes + 1
  /\ owed' = owed + left[b]
  /\ To(u, "queued", None)
  /\ UNCHANGED <<mode, left, qleft, nblocks, writer, waitVars, closed, crossed>>

(* CONN_OUTEVENT_MESSAGE.                                                  *)
Notify ==
  IF mode = "own" THEN armed' = TRUE /\ UNCHANGED outs
  ELSE outs' = outs + 1 /\ UNCHANGED armed

Announce(u) ==
  /\ user[u].at = "queued"
  /\ Notify
  /\ To(u, "idle", None)
  /\ UNCHANGED <<queueVars, pushes, writer, ends, closed, historyVars>>

(* conn_start_cstate of a free client connection, chunk by chunk.          *)
StartCstate(u) ==
  /\ user[u].at = "idle" /\ ~closed
  /\ \A v \in Users : user[v].at # "clearing"
  /\ To(u, "clearing", None)
  /\ UNCHANGED <<queueVars, pushes, writer, waitVars, closed, historyVars>>

ClearOne(u) ==
  /\ user[u].at = "clearing"
  /\ DropHead
  /\ \/ /\ sendq # <<>>
        /\ owed' = owed - left[Head(sendq)]
        /\ crossed' = (crossed \/ writer.at # "idle")
        /\ UNCHANGED user
     \/ sendq = <<>> /\ To(u, "idle", None) /\ UNCHANGED historyVars
  /\ UNCHANGED <<mode, nblocks, pushes, writer, waitVars, closed>>

-----------------------------------------------------------------------------
(* The thread that waits for the descriptor.                               *)

At(at) == writer' = [writer EXCEPT !.at = at]

(* The rest of the handler when write_handler fails: the event is          *)
(* destroyed and the connection shut.                                      *)
Fail == writer' = Waiting /\ armed' = FALSE /\ closed' = TRUE

(* conn_output_handler or conn_event_handler with E_WRITE.  An empty queue *)
(* disarms the event.                                                      *)
WriteEvent ==
  /\ writer.at = "idle" /\ armed
  /\ \/ closed /\ Fail
     \/ /\ ~closed /\ sendq # <<>>
        /\ writer' = [Waiting EXCEPT !.at = "head"]
        /\ UNCHANGED <<armed, closed>>
     \/ ~closed /\ sendq = <<>> /\ armed' = FALSE /\ UNCHANGED <<writer, closed>>
  /\ UNCHANGED <<queueVars, user, pushes, outs, ends, historyVars>>

(* conn_outevent_handler, for OUT.                                         *)
HandleOut ==
  /\ writer.at = "idle" /\ outs > 0
  /\ outs' = outs - 1
  /\ \/ closed /\ sendq # <<>> /\ Fail
     \/ /\ ~closed /\ sendq # <<>>
        /\ writer' = [Waiting EXCEPT !.at = "head", !.out = TRUE]
        /\ UNCHANGED <<armed, closed>>
     \/ sendq = <<>> /\ UNCHANGED <<writer, armed, closed>>
  /\ UNCHANGED <<queueVars, user, pushes, ends, historyVars>>

(* SENDQHEAD; without a head write_handler returns its initial -1.         *)
LookAtHead ==
  /\ writer.at = "head"
  /\ \/ /\ sendq # <<>>
        /\ writer' = [writer EXCEPT !.at = "write", !.cp = Head(sendq)]
        /\ UNCHANGED <<armed, closed>>
     \/ sendq = <<>> /\ Fail
  /\ UNCHANGED <<queueVars, user, pushes, outs, ends, historyVars>>

(* Variant of Written that may go one past the end.                        *)
WrittenPastEnd(b) == 1 .. left[b] + 1

(* What a write may take of a chunk: n <= left.                            *)
Written(b) == 1 .. left[b]

(* conn_write_chunk: some of the chunk, or nothing when the descriptor is  *)
(* not writable after all (OUT), or an error.  An empty chunk is           *)
(* chunk_over.                                                             *)
WriteChunk ==
  LET b == writer.cp IN
  /\ writer.at = "write"
  /\ \/ \E n \in Written(b) :
          /\ left' = [left EXCEPT ![b] = @ - n]
          /\ owed' = owed - n
          /\ At("drop") /\ UNCHANGED <<armed, closed>>
     \/ writer.out /\ left[b] > 0 /\ At("drop") /\ UNCHANGED <<left, owed, armed, closed>>
     \/ left[b] > 0 /\ Fail /\ UNCHANGED <<left, owed>>
     \/ /\ left[b] = 0
        /\ writer' = [writer EXCEPT !.at = "drop", !.over = TRUE]
        /\ UNCHANGED <<left, owed, armed, closed>>
  /\ UNCHANGED <<mode, sendq, qleft, nblocks, user, pushes, outs, ends, crossed>>

(* Variant of DropSent that drops the head whether it was sent or not.     *)
DropAlways ==
  /\ writer.at = "drop"
  /\ DropHead
  /\ At("peek")
  /\ UNCHANGED <<mode, nblocks, user, pushes, waitVars, closed, historyVars>>

(* A chunk that is sent is popped and freed.                               *)
DropSent ==
  /\ writer.at = "drop"
  /\ IF left[writer.cp] = 0 THEN DropHead ELSE UNCHANGED <<sendq, left, qleft>>
  /\ At("peek")
  /\ UNCHANGED <<mode, nblocks, user, pushes, waitVars, closed, historyVars>>

(* An empty chunk behind it is taken along (write_handler), or left for    *)
(* the next time (send_handler, SB_WHILE_SEND).                            *)
PeekMarker ==
  /\ writer.at = "peek"
  /\ \/ /\ sendq # <<>> /\ left[Head(sendq)] = 0
        /\ DropHead
        /\ writer' = [writer EXCEPT !.at = "decide", !.over = TRUE]
     \/ At("decide") /\ UNCHANGED <<sendq, left, qleft>>
  /\ UNCHANGED <<mode, nblocks, user, pushes, waitVars, closed, historyVars>>

(* After an empty chunk the connection is shut; an empty queue is to be    *)
(* disarmed.                                                               *)
Decide ==
  /\ writer.at = "decide"
  /\ \/ writer.over /\ armed' = FALSE /\ closed' = TRUE /\ At("return")
     \/ ~writer.over /\ sendq = <<>> /\ At("disarm") /\ UNCHANGED <<armed, closed>>
     \/ ~writer.over /\ sendq # <<>> /\ At("return") /\ UNCHANGED <<armed, closed>>
  /\ UNCHANGED <<queueVars, user, pushes, outs, ends, historyVars>>

(* Variant of Disarm without the END message.                              *)
DisarmOnly ==
  /\ writer.at = "disarm"
  /\ armed' = FALSE
  /\ At("return")
  /\ UNCHANGED <<queueVars, user, pushes, outs, ends, closed, historyVars>>

(* CONN_OUTEVENT_DEL, and conn_push_message(END), of a queue that was      *)
(* empty a moment ago.                                                     *)
Disarm ==
  /\ writer.at = "disarm"
  /\ armed' = FALSE
  /\ ends' = IF closed THEN ends ELSE ends + 1
  /\ At("return")
  /\ UNCHANGED <<queueVars, user, pushes, outs, closed, historyVars>>

(* Variant of Return that leaves the arming to the events.                 *)
ReturnUnarmed ==
  /\ writer.at = "return"
  /\ writer' = Waiting
  /\ UNCHANGED <<queueVars, user, pushes, waitVars, closed, historyVars>>

(* conn_outevent_handler arms the event while there is something to send.  *)
Return ==
  /\ writer.at = "return"
  /\ armed' = (armed \/ (writer.out /\ sendq # <<>>))
  /\ writer' = Waiting
  /\ UNCHANGED <<queueVars, user, pushes, outs, ends, closed, historyVars>>

Writer ==
  \/ WriteEvent \/ HandleOut \/ LookAtHead \/ WriteChunk \/ DropSent
  \/ PeekMarker \/ Decide \/ Disarm \/ Return

-----------------------------------------------------------------------------
(* conn_end_handler, for END; without indaemon and outdaemon the waiting   *)
(* thread is the one that handles it.                                      *)
HandleEnd ==
  /\ ends > 0 /\ (mode = "own" => writer.at = "idle")
  /\ ends' = ends - 1
  /\ IF sendq # <<>> /\ ~closed THEN Notify ELSE UNCHANGED <<armed, outs>>
  /\ UNCHANGED <<queueVars, user, pushes, writer, closed, historyVars>>

(* conn_close, by any thread.                                              *)
Close ==
  /\ ~closed
  /\ closed' = TRUE
  /\ UNCHANGED <<queueVars, user, pushes, writer, waitVars, historyVars>>

(* Variant of Reset that forgets the queue.                                *)
ResetForgets ==
  /\ closed /\ writer.at = "idle"
  /\ sendq' = <<>>
  /\ closed' = FALSE /\ armed' = FALSE /\ outs' = 0 /\ ends' = 0
  /\ owed' = 0 /\ crossed' = FALSE
  /\ UNCHANGED <<mode, left, qleft, nblocks, user, pushes, writer>>

(* The removal has passed through the waiting thread; conn_reset frees     *)
(* what is queued, and the next life begins.  A thread that is still in a  *)
(* call goes on with it.                                                   *)
Reset ==
  /\ closed /\ writer.at = "idle"
  /\ sendq' = <<>>
  /\ qleft' = qleft \o sendq
  /\ left' = [b \in Blocks |-> IF b \in ToSet(sendq) THEN 0 ELSE left[b]]
  /\ closed' = FALSE /\ armed' = FALSE /\ outs' = 0 /\ ends' = 0
  /\ owed' = 0 /\ crossed' = FALSE
  /\ UNCHANGED <<mode, nblocks, user, pushes, writer>>

Call(u) == SendChunk(u) \/ FreeChunk(u) \/ Enqueue(u) \/ Announce(u) \/ ClearOne(u)

Next ==
  \/ Writer \/ HandleEnd \/ Close \/ Reset
  \/ \E u \in Users :
       \/ \E size \in 0 .. MaxSize : PushChunk(u, size) \/ NewChunk(u, size)
       \/ StartCstate(u)
       \/ Call(u)

(* The loops of the threads go on, a thread ends its calls, and the peer   *)
(* reads what is sent.                                                     *)
Fairness ==
  /\ WF_vars(Writer) /\ WF_vars(HandleEnd)
  /\ \A u \in Users : WF_vars(Enqueue(u)) /\ WF_vars(Announce(u)) /\ WF_vars(ClearOne(u))

Spec == Init /\ [][Next]_vars /\ Fairness

-----------------------------------------------------------------------------
(* Every block that was ever taken from qblocks is free, queued, or in the *)
(* hands of one thread, and in one of these places only: no block leaks,   *)
(* and no two chunks share one, although conn_start_cstate pops while      *)
(* write_handler holds a pointer to the head.                              *)
BlocksAccounted ==
  LET held == {u \in Users : user[u].block # None}
      places == sendq \o qleft
  IN /\ IsInjective(places)
     /\ \A u, v \in held : user[u].block = user[v].block => u = v
     /\ \A u \in held : user[u].block \notin ToSet(places)
     /\ Len(places) + Cardinality(held) = nblocks

(* What was queued and not sent is still in the queue, unless              *)
(* conn_start_cstate interfered with write_handler, which then pops        *)
(* another chunk than the one it sent.                                     *)
NothingIsLost ==
  crossed \/ owed = FoldFunctionOnSet(+, 0, left, ToSet(sendq))

(* While something is queued on an open connection somebody will look at   *)
(* the queue again: the event is armed, a message is on its way, or a      *)
(* thread has not finished.  write_handler tests the queue before it       *)
(* disarms the event; OUT, or END where there is no OUT, makes up for it.  *)
QueueIsWatched ==
  sendq # <<>> /\ ~closed =>
    \/ armed \/ outs > 0 \/ ends > 0
    \/ writer.at # "idle"
    \/ \E u \in Users : user[u].at \in {"queued", "clearing"}

(* What is queued is sent, or the connection closes.                       *)
QueueDrains == sendq # <<>> ~> sendq = <<>> \/ closed
=============================================================================
