----------------------------- MODULE WakeupProofs -----------------------------
(***************************************************************************)
(* Proofs about Wakeup for any number of users and messages.  The loop     *)
(* keeps the safety part of the promise of Mailbox in every mode; in the   *)
(* evbase and cond modes no wakeup is lost unless the thread missed one    *)
(* while it was starting.                                                  *)
(***************************************************************************)
EXTENDS Wakeup, SequenceTheorems, TLAPS

(* A user that pushed, or cleared running_status, has still to wake.       *)
WakeDue == \E u \in Users : upc[u] # "idle"

(* STOP comes only from procthread_stop, and the thread leaves its loop    *)
(* only because of it.                                                     *)
StopFits ==
  /\ \A i \in 1 .. Len(queue) : queue[i] = "STOP" => stopped
  /\ pc # "start" /\ ~running => stopped
  /\ pc \in {"drain", "done"} => stopped
  /\ \A u \in Users : upc[u] = "stop" => stopped

StopInv == TypeOK /\ StopFits

-----------------------------------------------------------------------------
(* The queue.                                                              *)

(* qmessage_push: a longer queue whose only new message is the last.        *)
LEMMA AppendFits ==
  ASSUME queue \in Seq({"WORK", "STOP"}), NEW m \in {"WORK", "STOP"},
         queue' = Append(queue, m)
  PROVE  /\ queue' \in Seq({"WORK", "STOP"}) /\ Len(queue') = Len(queue) + 1
         /\ queue' # <<>>
         /\ \A i \in 1 .. Len(queue') : queue'[i] = "STOP" =>
              m = "STOP" \/ \E j \in 1 .. Len(queue) : queue[j] = "STOP"
<1>1. /\ queue' \in Seq({"WORK", "STOP"}) /\ Len(queue') = Len(queue) + 1
      /\ queue' # <<>>
      /\ \A i \in 1 .. Len(queue) : queue'[i] = queue[i]
      /\ queue'[Len(queue) + 1] = m
  BY AppendProperties
<1>2. Len(queue) \in Nat
  OBVIOUS
<1> QED  BY <1>1, <1>2

(* qmessage_pop: a shorter queue of the same messages.                      *)
LEMMA TakeFits ==
  ASSUME queue \in Seq({"WORK", "STOP"}), TakeMessage
  PROVE  /\ queue' \in Seq({"WORK", "STOP"}) /\ Len(queue') = Len(queue) - 1
         /\ Len(queue) \in Nat \ {0}
         /\ \A i \in 1 .. Len(queue') : i + 1 \in 1 .. Len(queue) /\ queue'[i] = queue[i + 1]
         /\ Head(queue) = queue[1]
         /\ running' = (running /\ Head(queue) # "STOP")
BY DEF TakeMessage

(* Every variable keeps its type, and a thread that leaves its loop was    *)
(* stopped.                                                                *)
LEMMA StopInvHolds == Spec => []StopInv
<1>1. Init => StopInv
  <2> SUFFICES ASSUME Init  PROVE StopInv
    OBVIOUS
  <2>1. TypeOK
    <3>1. queue \in Seq({"WORK", "STOP"})
      BY EmptySeq DEF Init
    <3>2. pushes \in 0 .. MaxPush
      BY WakeupAssumption DEF Init
    <3>3. upc \in [Users -> {"idle", "stop", "wake", "arm"}]
      BY DEF Init
    <3> QED  BY <3>1, <3>2, <3>3 DEF Init, TypeOK, Places
  <2>2. StopFits
    <3>1. Len(queue) = 0
      BY DEF Init
    <3> QED  BY <3>1 DEF Init, StopFits
  <2> QED  BY <2>1, <2>2 DEF StopInv
<1>2. ASSUME StopInv, [Next]_vars  PROVE StopInv'
  <2>0. TypeOK /\ StopFits
    BY <1>2 DEF StopInv
  <2> USE <2>0 DEF StopInv, TypeOK, StopFits, waitVars
  <2>1. CASE UNCHANGED vars
    BY <2>1 DEF vars, threadVars, wakeVars, userVars
  <2>2. ASSUME TakeMessage  PROVE StopInv'
    <3>1. /\ queue' \in Seq({"WORK", "STOP"})
          /\ \A i \in 1 .. Len(queue') :
               i + 1 \in 1 .. Len(queue) /\ queue'[i] = queue[i + 1]
          /\ Head(queue) = queue[1] /\ 1 \in 1 .. Len(queue)
          /\ running' = (running /\ Head(queue) # "STOP")
      BY <2>2, TakeFits
    <3>2. UNCHANGED <<pc, wakeVars, userVars, waitVars>>
      BY <2>2 DEF TakeMessage
    <3>3. TypeOK'
      BY <3>1, <3>2 DEF wakeVars, userVars
    <3>4. StopFits'
      BY <3>1, <3>2 DEF wakeVars, userVars
    <3> QED  BY <3>3, <3>4
  <2>3. CASE Thread
    <3>1. CASE Start \/ SetBase \/ Register \/ EventHandler \/ Check \/ Test
      BY <3>1 DEF Start, SetBase, Register, EventHandler, Check, Test, Goto,
         Places, wakeVars, userVars
    <3>2. CASE EnterCond \/ EnterEvsig \/ EpollReturns \/ Woken \/ Disarm \/ Again
      BY <3>2 DEF EnterCond, EnterEvsig, EpollReturns, Woken, Disarm, Again, Goto,
         Places, wakeVars, userVars
    <3>3. CASE Handle \/ Drain
      BY <2>2, <3>3 DEF Handle, Drain, Goto, Places, wakeVars, userVars
    <3> QED  BY <2>3, <3>1, <3>2, <3>3 DEF Thread
  <2>4. CASE OtherReturn
    BY <2>4 DEF OtherReturn, Goto, Places, wakeVars, userVars
  <2>5. ASSUME NEW u \in Users, PushMessage(u)  PROVE StopInv'
    <3>1. /\ queue' \in Seq({"WORK", "STOP"})
          /\ \A i \in 1 .. Len(queue') : queue'[i] = "STOP" => stopped
      BY <2>5, AppendFits DEF PushMessage
    <3> QED  BY <2>5, <3>1, WakeupAssumption
             DEF PushMessage, Step, threadVars, wakeVars
  <2>6. ASSUME NEW u \in Users, BeginStop(u)  PROVE StopInv'
    BY <2>6 DEF BeginStop, Step, wakeVars
  <2>7. ASSUME NEW u \in Users, Finish(u)  PROVE StopInv'
    <3>1. CASE PushStop(u)
      <4>1. stopped /\ queue' = Append(queue, "STOP")
        BY <3>1 DEF PushStop, Step
      <4>2. queue' \in Seq({"WORK", "STOP"})
        BY <4>1, AppendFits
      <4> QED  BY <3>1, <4>1, <4>2 DEF PushStop, Step, threadVars, wakeVars
    <3>2. CASE WakeEvbase(u) \/ WakeEvsig(u) \/ Arm(u)
      BY <3>2 DEF WakeEvbase, WakeEvsig, Arm, Step, threadVars
    <3>3. CASE WakeCond(u)
      BY <3>3 DEF WakeCond, Step, Places
    <3> QED  BY <2>7, <3>1, <3>2, <3>3 DEF Finish
  <2> QED  BY <1>2, <2>1, <2>3, <2>4, <2>5, <2>6, <2>7 DEF Next
<1> QED  BY <1>1, <1>2, PTL DEF Spec

-----------------------------------------------------------------------------
(* The promise of Mailbox.                                                 *)

(* The queue length is what the refinement maps to pending.                *)
LEMMA QueueCounts ==
  ASSUME StopInv
  PROVE  /\ queue = <<>> => Len(queue) = 0
         /\ TakeMessage => Len(queue) \in Nat \ {0} /\ Len(queue') = Len(queue) - 1
         /\ \A m \in {"WORK", "STOP"} :
              queue' = Append(queue, m) => Len(queue') = Len(queue) + 1
<1>1. queue \in Seq({"WORK", "STOP"})
  BY DEF StopInv, TypeOK
<1> QED  BY <1>1, TakeFits, AppendFits

(* A step of the thread: it takes a message, ends, or is not seen.         *)
LEMMA ThreadKeeps ==
  ASSUME StopInv, Thread \/ OtherReturn
  PROVE  M!Take \/ M!End \/ M!Lose \/ UNCHANGED M!vars
<1> USE DEF State, waitVars
<1>1. ASSUME TakeMessage, pc # "done"  PROVE M!Take
  <2>1. Len(queue) > 0 /\ Len(queue') = Len(queue) - 1
    BY <1>1, QueueCounts
  <2>2. UNCHANGED <<pc, stopped, waitVars>>
    BY <1>1 DEF TakeMessage, userVars
  <2> QED  BY <1>1, <2>1, <2>2 DEF M!Take
<1>2. CASE Start \/ SetBase \/ Register \/ EventHandler \/ Check \/ Test
  <2>1. pc # "done" /\ pc' # "done" /\ UNCHANGED <<queue, stopped, mode>>
    BY <1>2 DEF Start, SetBase, Register, EventHandler, Check, Test, Goto, userVars
  <2>2. missed \in BOOLEAN /\ (missed => missed')
    BY <1>2 DEF StopInv, TypeOK, Start, SetBase, Register, EventHandler, Check, Test
  <2> QED  BY <2>1, <2>2 DEF M!vars, M!Lose
<1>3. CASE EnterCond \/ EnterEvsig \/ EpollReturns \/ Woken \/ Disarm \/ Again
  BY <1>3 DEF EnterCond, EnterEvsig, EpollReturns, Woken, Disarm, Again, Goto,
     userVars, M!vars
<1>4. CASE Handle
  <2>1. CASE pc = "handle" /\ TakeMessage
    BY <1>1, <2>1
  <2>2. CASE ~(pc = "handle" /\ TakeMessage)
    BY <1>4, <2>2 DEF Handle, Goto, userVars, M!vars
  <2> QED  BY <2>1, <2>2
<1>5. CASE Drain
  <2>1. CASE pc = "drain" /\ TakeMessage
    BY <1>1, <2>1
  <2>2. CASE ~(pc = "drain" /\ TakeMessage)
    <3>1. Goto("drain", "done") /\ UNCHANGED <<queue, stopped, waitVars>>
      BY <1>5, <2>2 DEF Drain, userVars
    <3>2. stopped
      BY <3>1 DEF StopInv, StopFits, Goto
    <3> QED  BY <3>1, <3>2 DEF Goto, M!End
  <2> QED  BY <2>1, <2>2
<1>6. CASE OtherReturn
  BY <1>6 DEF OtherReturn, Goto, userVars, M!vars
<1> QED  BY <1>2, <1>3, <1>4, <1>5, <1>6 DEF Thread

(* A step of a user: it puts a message, asks the thread to stop, or is not *)
(* seen.                                                                   *)
LEMMA UserKeeps ==
  ASSUME StopInv, NEW u \in Users, PushMessage(u) \/ BeginStop(u) \/ Finish(u)
  PROVE  M!Put \/ M!Stop \/ M!Lose \/ UNCHANGED M!vars
<1> USE DEF State, waitVars
<1>1. ASSUME NEW m \in {"WORK", "STOP"}, queue' = Append(queue, m),
             UNCHANGED <<pc, stopped, waitVars>>
      PROVE  M!Put
  BY <1>1, QueueCounts DEF M!Put
<1>2. CASE PushMessage(u)
  BY <1>1, <1>2 DEF PushMessage, threadVars
<1>3. CASE BeginStop(u)
  <2>1. pc # "done"
    BY <1>3 DEF BeginStop, StopInv, StopFits
  <2> QED  BY <1>3, <2>1 DEF BeginStop, M!Stop
<1>4. CASE PushStop(u)
  BY <1>1, <1>4 DEF PushStop, threadVars
<1>5. CASE WakeEvbase(u) \/ WakeEvsig(u) \/ Arm(u)
  <2>1. UNCHANGED <<queue, pc, stopped, mode>>
    BY <1>5 DEF WakeEvbase, WakeEvsig, Arm, threadVars
  <2>2. missed \in BOOLEAN /\ (missed => missed')
    BY <1>5 DEF StopInv, TypeOK, WakeEvbase, WakeEvsig, Arm
  <2> QED  BY <2>1, <2>2 DEF M!vars, M!Lose
<1>6. CASE WakeCond(u)
  BY <1>6 DEF WakeCond, M!vars
<1> QED  BY <1>2, <1>3, <1>4, <1>5, <1>6 DEF Finish

(* The queue and the loop of a procthread implement Mailbox, however the   *)
(* thread waits and whenever it is used: a message is taken once, in the   *)
(* state the abstract thread is in, and the thread ends only when          *)
(* procthread_stop was called.                                             *)
THEOREM ImplementsMailbox == Spec => SafeMailbox
<1>1. Init => M!Init
  <2>1. ASSUME Init  PROVE Len(queue) = 0
    BY <2>1 DEF Init
  <2> QED  BY <2>1 DEF Init, M!Init, State
<1>2. ASSUME StopInv, [Next]_vars  PROVE [M!Next]_M!vars
  <2>1. CASE UNCHANGED vars
    BY <2>1 DEF vars, threadVars, userVars, waitVars, State, M!vars
  <2>2. CASE Thread \/ OtherReturn
    BY <1>2, <2>2, ThreadKeeps DEF M!Next
  <2>3. ASSUME NEW u \in Users, PushMessage(u) \/ BeginStop(u) \/ Finish(u)
        PROVE  [M!Next]_M!vars
    BY <1>2, <2>3, UserKeeps DEF M!Next
  <2> QED  BY <1>2, <2>1, <2>2, <2>3 DEF Next
<1> QED  BY <1>1, <1>2, StopInvHolds, PTL DEF Spec, SafeMailbox, M!Spec

-----------------------------------------------------------------------------
(* No wakeup is lost.                                                      *)

HasStop == \E i \in 1 .. Len(queue) : queue[i] = "STOP"

(* evbase: the flag says that the descriptor is armed, and a thread that   *)
(* is past its last look at the queue, or before its first, will be woken  *)
(* for what came since.                                                    *)
EvbaseSound ==
  /\ pc \notin {"test", "enter", "woken", "disarm"}
  /\ ~missed =>
       /\ flag <=> armed
       /\ pc \in {"start", "adding", "register", "again", "sleep"} /\ queue # <<>>
          => armed \/ WakeDue
       /\ pc \in {"adding", "register", "sleep"} /\ ~running => armed \/ WakeDue

(* cond: the same of nowait, which the thread consumes on its way to sleep. *)
(* A thread that was stopped before it started finds STOP in its queue.    *)
CondSound ==
  /\ pc \notin {"adding", "register", "active", "disarm"}
  /\ ~missed =>
       /\ pc = "start" /\ stopped => HasStop \/ \E u \in Users : upc[u] = "stop"
       /\ pc # "start" /\ stopped /\ running => HasStop /\ pc \in {"check", "handle"}
       /\ pc \in {"start", "check", "handle", "test", "enter"} /\ stopped
          => nowait \/ WakeDue
       /\ pc = "enter" /\ queue # <<>> => nowait \/ WakeDue
       /\ pc = "sleep" /\ (queue # <<>> \/ ~running) => WakeDue

WakeInv ==
  /\ \A u \in Users : upc[u] # "arm"
  /\ mode = "evbase" => EvbaseSound
  /\ mode = "cond" => CondSound

(* A call of a user leaves it waking, and concerns no other user.          *)
LEMMA StepMoves ==
  ASSUME StopInv, NEW u \in Users, NEW from, NEW to \in {"idle", "stop", "wake"},
         Step(u, from, to), \A v \in Users : upc[v] # "arm"
  PROVE  /\ to # "idle" => WakeDue'
         /\ \A v \in Users : upc'[v] # "arm"
         /\ to = "stop" => \E v \in Users : upc'[v] = "stop"
         /\ from # "stop" /\ (\E v \in Users : upc[v] = "stop")
            => \E v \in Users : upc'[v] = "stop"
BY DEF StopInv, TypeOK, Step, WakeDue

(* A push keeps STOP in the queue.                                         *)
LEMMA StopStays ==
  ASSUME StopInv, NEW m \in {"WORK", "STOP"}, queue' = Append(queue, m)
  PROVE  (HasStop \/ m = "STOP") => HasStop'
<1>1. queue \in Seq({"WORK", "STOP"})
  BY DEF StopInv, TypeOK
<1>2. /\ Len(queue') = Len(queue) + 1 /\ queue'[Len(queue) + 1] = m
      /\ \A i \in 1 .. Len(queue) : queue'[i] = queue[i]
  BY <1>1, AppendProperties
<1>3. Len(queue) \in Nat
  BY <1>1
<1> QED  BY <1>2, <1>3 DEF HasStop

(* The thread takes STOP out of the queue only by handling it.             *)
LEMMA StopIsTaken ==
  ASSUME StopInv, TakeMessage, HasStop, running
  PROVE  HasStop' \/ ~running'
<1>1. queue \in Seq({"WORK", "STOP"})
  BY DEF StopInv, TypeOK
<1>2. PICK i \in 1 .. Len(queue) : queue[i] = "STOP"
  BY DEF HasStop
<1>3. CASE i = 1
  BY <1>1, <1>2, <1>3, TakeFits
<1>4. CASE i # 1
  <2>1. /\ queue' = Tail(queue) /\ queue # <<>>
        /\ Len(queue') = Len(queue) - 1 /\ Len(queue) \in Nat
    BY <1>1, TakeFits DEF TakeMessage
  <2>2. i - 1 \in 1 .. Len(queue')
    BY <1>2, <1>4, <2>1
  <2>3. queue'[i - 1] = queue[(i - 1) + 1]
    BY <1>1, <2>2, TakeFits
  <2>4. queue'[i - 1] = "STOP"
    BY <1>2, <2>3
  <2> QED  BY <2>2, <2>4 DEF HasStop
<1> QED  BY <1>3, <1>4

(* A user's call, in the two modes.                                        *)
LEMMA UserWakesEvbase ==
  ASSUME mode = "evbase", StopInv, WakeInv,
         NEW u \in Users, PushMessage(u) \/ BeginStop(u) \/ Finish(u)
  PROVE  WakeInv'
<1> USE DEF WakeInv
<1>0. /\ running \in BOOLEAN /\ flag \in BOOLEAN /\ armed \in BOOLEAN
      /\ based \in BOOLEAN /\ missed \in BOOLEAN
  BY DEF StopInv, TypeOK
<1>1. CASE PushMessage(u) \/ BeginStop(u) \/ PushStop(u)
  <2>1. WakeDue' /\ \A v \in Users : upc'[v] # "arm"
    BY <1>1, StepMoves DEF PushMessage, BeginStop, PushStop
  <2>2. UNCHANGED <<pc, flag, armed, mode, missed>>
    BY <1>1 DEF PushMessage, BeginStop, PushStop, threadVars, wakeVars, waitVars
  <2> QED  BY <2>1, <2>2 DEF EvbaseSound
<1>2. CASE WakeEvbase(u)
  <2>1. \A v \in Users : upc'[v] # "arm"
    BY <1>2, StepMoves DEF WakeEvbase
  <2>2. /\ UNCHANGED <<mode, pc, running, queue>>
        /\ flag' /\ armed' = (armed \/ (~flag /\ based))
        /\ missed' = (missed \/ (~flag /\ ~based))
    BY <1>2 DEF WakeEvbase, threadVars
  <2> QED  BY <1>0, <2>1, <2>2 DEF EvbaseSound
<1>3. ~WakeCond(u) /\ ~WakeEvsig(u) /\ ~Arm(u)
  BY DEF WakeCond, WakeEvsig, Arm, Step
<1> QED  BY <1>1, <1>2, <1>3 DEF Finish

LEMMA UserWakesCond ==
  ASSUME mode = "cond", StopInv, WakeInv,
         NEW u \in Users, PushMessage(u) \/ BeginStop(u) \/ Finish(u)
  PROVE  WakeInv'
<1> USE DEF WakeInv
<1>0. running \in BOOLEAN /\ nowait \in BOOLEAN /\ stopped \in BOOLEAN
  BY DEF StopInv, TypeOK
<1>1. CASE PushMessage(u)
  <2>1. /\ WakeDue' /\ \A v \in Users : upc'[v] # "arm"
        /\ (\E v \in Users : upc[v] = "stop") => \E v \in Users : upc'[v] = "stop"
    BY <1>1, StepMoves DEF PushMessage
  <2>2. HasStop => HasStop'
    BY <1>1, StopStays DEF PushMessage
  <2>3. UNCHANGED <<pc, running, nowait, stopped, mode, missed>>
    BY <1>1 DEF PushMessage, threadVars, wakeVars, waitVars
  <2> QED  BY <2>1, <2>2, <2>3 DEF CondSound
<1>2. CASE BeginStop(u)
  <2>1. /\ WakeDue' /\ \A v \in Users : upc'[v] # "arm"
        /\ \E v \in Users : upc'[v] = "stop"
    BY <1>2, StepMoves DEF BeginStop
  <2>2. ~running' /\ UNCHANGED <<pc, mode, missed>>
    BY <1>2 DEF BeginStop, waitVars
  <2> QED  BY <2>1, <2>2 DEF CondSound
<1>3. CASE PushStop(u)
  <2>1. WakeDue' /\ \A v \in Users : upc'[v] # "arm"
    BY <1>3, StepMoves DEF PushStop
  <2>2. HasStop'
    BY <1>3, StopStays DEF PushStop
  <2>3. UNCHANGED <<pc, running, stopped, mode, missed>>
    BY <1>3 DEF PushStop, threadVars, waitVars
  <2> QED  BY <2>1, <2>2, <2>3 DEF CondSound
<1>4. CASE WakeCond(u)
  <2>1. /\ \A v \in Users : upc'[v] # "arm"
        /\ (\E v \in Users : upc[v] = "stop") => \E v \in Users : upc'[v] = "stop"
    BY <1>4, StepMoves DEF WakeCond
  <2>2. /\ nowait' /\ UNCHANGED <<queue, running, stopped, mode, missed>>
        /\ pc' = IF pc = "sleep" THEN "woken" ELSE pc
    BY <1>4 DEF WakeCond, waitVars
  <2>3. HasStop' <=> HasStop
    BY <2>2 DEF HasStop
  <2>4. pc' = "start" <=> pc = "start"
    BY <2>2
  <2> QED  BY <2>1, <2>2, <2>3, <2>4 DEF CondSound
<1>5. ~WakeEvbase(u) /\ ~WakeEvsig(u) /\ ~Arm(u)
  BY DEF WakeEvbase, WakeEvsig, Arm, Step
<1> QED  BY <1>1, <1>2, <1>3, <1>4, <1>5 DEF Finish

(* What no step of the thread changes.                                     *)
LEMMA ThreadKeepsUsers ==
  ASSUME Thread \/ OtherReturn
  PROVE  UNCHANGED <<mode, upc, stopped>> /\ (WakeDue' <=> WakeDue)
BY DEF Thread, Start, SetBase, Register, EventHandler, Check, Handle, Test,
   EnterCond, EnterEvsig, EpollReturns, Woken, Disarm, Again, Drain,
   OtherReturn, TakeMessage, userVars, waitVars, WakeDue

(* A step of the thread, in the two modes.                                 *)
LEMMA ThreadWakesEvbase ==
  ASSUME mode = "evbase", StopInv, WakeInv, Thread \/ OtherReturn
  PROVE  WakeInv'
<1> USE DEF WakeInv, Goto
<1>0. /\ running \in BOOLEAN /\ flag \in BOOLEAN /\ armed \in BOOLEAN
      /\ based \in BOOLEAN /\ missed \in BOOLEAN
  BY DEF StopInv, TypeOK
<1>1. UNCHANGED <<mode, upc, stopped>> /\ (WakeDue' <=> WakeDue)
  BY ThreadKeepsUsers
<1>2. CASE Start \/ SetBase
  BY <1>0, <1>1, <1>2 DEF Start, SetBase, wakeVars, waitVars, EvbaseSound
<1>3. CASE Register
  <2>1. /\ pc = "register" /\ pc' = "sleep" /\ UNCHANGED <<running, queue, flag>>
        /\ armed' \in BOOLEAN /\ missed' \in BOOLEAN
    BY <1>0, <1>3 DEF Register
  <2>2. ~missed' => ~missed /\ armed' = armed
    BY <1>0, <1>3, <2>1, Zenon DEF Register
  <2> QED  BY <1>0, <1>1, <2>1, <2>2 DEF EvbaseSound
<1>4. CASE EventHandler \/ EpollReturns \/ OtherReturn
  BY <1>0, <1>1, <1>4 DEF EventHandler, EpollReturns, OtherReturn, wakeVars,
     waitVars, EvbaseSound
<1>5. CASE Check \/ Again
  BY <1>0, <1>1, <1>5 DEF Check, Again, wakeVars, waitVars, EvbaseSound
<1>6. CASE Test \/ EnterCond \/ EnterEvsig \/ Woken \/ Disarm
  BY <1>6 DEF Test, EnterCond, EnterEvsig, Woken, Disarm, EvbaseSound
<1>7. CASE Handle \/ Drain
  BY <1>0, <1>1, <1>7 DEF Handle, Drain, TakeMessage, wakeVars, waitVars,
     EvbaseSound
<1> QED  BY <1>2, <1>3, <1>4, <1>5, <1>6, <1>7 DEF Thread

LEMMA ThreadWakesCond ==
  ASSUME mode = "cond", StopInv, WakeInv, Thread \/ OtherReturn
  PROVE  WakeInv'
<1> USE DEF WakeInv, Goto
<1>0. running \in BOOLEAN /\ nowait \in BOOLEAN /\ stopped \in BOOLEAN
  BY DEF StopInv, TypeOK
<1>1. UNCHANGED <<mode, upc, stopped>> /\ (WakeDue' <=> WakeDue)
  BY ThreadKeepsUsers
<1>a. pc # "start" /\ ~running => stopped
  BY DEF StopInv, StopFits
<1>b. queue' = queue => (HasStop' <=> HasStop)
  BY DEF HasStop
<1>c. queue = <<>> => ~HasStop
  BY DEF HasStop
<1>2. CASE Start
  <2>1. /\ pc = "start" /\ pc' = "check" /\ running'
        /\ UNCHANGED <<queue, nowait>>
        /\ missed' = (missed \/ \E u \in Users : upc[u] = "stop")
    BY <1>2 DEF Start, wakeVars
  <2> QED  BY <1>1, <1>b, <2>1 DEF CondSound
<1>3. CASE SetBase \/ Register \/ EventHandler \/ EnterEvsig \/ Disarm \/ EpollReturns
  BY <1>3 DEF SetBase, Register, EventHandler, EnterEvsig, Disarm, EpollReturns,
     CondSound
<1>4. CASE Check \/ Test \/ Again \/ OtherReturn
  BY <1>0, <1>1, <1>a, <1>b, <1>c, <1>4
     DEF Check, Test, Again, OtherReturn, wakeVars, waitVars, CondSound
<1>5. CASE EnterCond \/ Woken
  BY <1>0, <1>1, <1>a, <1>b, <1>5 DEF EnterCond, Woken, waitVars, CondSound
<1>6. CASE Handle \/ Drain
  <2>1. CASE TakeMessage /\ pc \in {"handle", "drain"}
    <3>1. UNCHANGED <<pc, nowait, missed>>
      BY <2>1 DEF TakeMessage, wakeVars, waitVars
    <3>2. HasStop /\ running => HasStop' \/ ~running'
      BY <2>1, StopIsTaken
    <3>3. running' => running
      BY <1>0, <2>1 DEF TakeMessage
    <3> QED  BY <1>1, <2>1, <3>1, <3>2, <3>3 DEF CondSound
  <2>2. CASE ~(TakeMessage /\ pc \in {"handle", "drain"})
    BY <1>0, <1>1, <1>a, <1>b, <1>c, <1>6, <2>2
       DEF Handle, Drain, wakeVars, waitVars, CondSound
  <2> QED  BY <2>1, <2>2
<1> QED  BY <1>2, <1>3, <1>4, <1>5, <1>6 DEF Thread

(* In the evbase and cond modes no wakeup is lost, whenever the thread is  *)
(* pushed to or stopped (procthread_wakeup, MUTEX_SIGNAL), except those    *)
(* that fall into the start of procthread_run as missed says.              *)
THEOREM WakeupIsNotLost == Spec => []NoLostWakeup
<1> DEFINE Inv == mode # "evsig" => WakeInv
<1>1. Init => Inv
  <2> SUFFICES ASSUME Init  PROVE WakeInv
    OBVIOUS
  <2> QED  BY DEF Init, WakeInv, EvbaseSound, CondSound
<1>2. ASSUME StopInv, Inv, [Next]_vars  PROVE Inv'
  <2>1. mode' = mode
    BY <1>2 DEF Next, Thread, Start, SetBase, Register, EventHandler, Check, Handle,
       Test, EnterCond, EnterEvsig, EpollReturns, Woken, Disarm, Again, Drain,
       OtherReturn, TakeMessage, PushMessage, BeginStop, Finish, PushStop,
       WakeEvbase, WakeCond, WakeEvsig, Arm, vars, waitVars
  <2>2. mode \in {"evbase", "cond", "evsig"}
    BY <1>2, WakeupAssumption DEF StopInv, TypeOK
  <2> SUFFICES ASSUME mode # "evsig", WakeInv  PROVE WakeInv'
    BY <1>2, <2>1
  <2>3. CASE UNCHANGED vars
    BY <2>3 DEF vars, threadVars, wakeVars, userVars, waitVars, WakeInv,
       EvbaseSound, CondSound, WakeDue, HasStop
  <2>4. CASE Next
    BY <1>2, <2>2, <2>4, ThreadWakesEvbase, ThreadWakesCond, UserWakesEvbase,
       UserWakesCond DEF Next
  <2> QED  BY <1>2, <2>3, <2>4
<1>3. StopInv /\ Inv => NoLostWakeup
  BY WakeupAssumption
     DEF StopInv, TypeOK, WakeInv, EvbaseSound, CondSound, NoLostWakeup, WakeDue
<1> HIDE DEF Inv
<1> QED  BY <1>1, <1>2, <1>3, StopInvHolds, PTL DEF Spec

(* With SB_USE_EVSIG: the thread has no event to register, and a flag that *)
(* is set while it sleeps has somebody who arms the descriptor.            *)
EvsigSound ==
  mode = "evsig" => pc \notin {"adding", "register"} /\ FlagMeansArmed

(* evsig_wait falls asleep with flag cleared, and evsig_wakeup arms when   *)
(* it sets flag, so a flag that is set during the sleep is backed by the   *)
(* epoll instance or by a waker on its way to it; for any number of wakers *)
(* and with wakers that come before the loop.                              *)
THEOREM FlagIsBacked == Spec => []FlagMeansArmed
<1> USE DEF waitVars
<1>1. Init => EvsigSound
  BY DEF Init, EvsigSound, FlagMeansArmed
<1>2. ASSUME StopInv, EvsigSound, [Next]_vars  PROVE EvsigSound'
  <2>1. CASE Thread \/ OtherReturn
    <3>1. CASE (Handle \/ Drain) /\ TakeMessage
      BY <1>2, <3>1 DEF TakeMessage, EvsigSound, FlagMeansArmed, wakeVars, userVars
    <3>2. CASE ~((Handle \/ Drain) /\ TakeMessage)
      BY <1>2, <2>1, <3>2
         DEF Thread, Start, SetBase, Register, EventHandler, Check, Handle, Test,
             EnterCond, EnterEvsig, EpollReturns, Woken, Disarm, Again, Drain,
             OtherReturn, Goto, EvsigSound, FlagMeansArmed, wakeVars, userVars
    <3> QED BY <3>1, <3>2
  <2>2. ASSUME NEW u \in Users, PushMessage(u) \/ BeginStop(u) \/ Finish(u)
        PROVE  EvsigSound'
    <3>1. upc \in [Users -> {"idle", "stop", "wake", "arm"}]
      BY <1>2 DEF StopInv, TypeOK
    <3>2. CASE WakeEvsig(u) \/ Arm(u)
      BY <1>2, <3>1, <3>2
         DEF WakeEvsig, Arm, Step, EvsigSound, FlagMeansArmed, threadVars
    <3>3. CASE PushMessage(u) \/ BeginStop(u) \/ PushStop(u)
      BY <1>2, <3>1, <3>3
         DEF PushMessage, BeginStop, PushStop, Step, EvsigSound, FlagMeansArmed,
             threadVars, wakeVars
    <3>4. CASE WakeEvbase(u) \/ WakeCond(u)
      BY <3>4 DEF WakeEvbase, WakeCond, EvsigSound
    <3> QED BY <2>2, <3>2, <3>3, <3>4 DEF Finish
  <2>3. CASE UNCHANGED vars
    BY <1>2, <2>3 DEF vars, threadVars, wakeVars, userVars, EvsigSound, FlagMeansArmed
  <2> QED BY <1>2, <2>1, <2>2, <2>3 DEF Next
<1>3. EvsigSound => FlagMeansArmed
  BY DEF EvsigSound, FlagMeansArmed
<1> QED BY <1>1, <1>2, <1>3, StopInvHolds, PTL DEF Spec
=============================================================================
