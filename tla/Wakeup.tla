-------------------------------- MODULE Wakeup --------------------------------
(***************************************************************************)
(* How a procthread waits for messages and how the threads that push them  *)
(* wake it up (procthread_run, procthread_wakeup, evsig.c, mutex.h):       *)
(*                                                                         *)
(*   "evbase"  iodaemons and the outdaemon sleep in epoll_wait.  A waker   *)
(*             arms E_WRITE on a descriptor that is always writable, once  *)
(*             as long as pth->flag is set; the event handler disarms it.  *)
(*   "cond"    procthreads and daemons sleep in MUTEX_WAIT (SB_USE_COND);  *)
(*             nowait remembers a signal that came while nobody slept.     *)
(*   "evsig"   they sleep in evsig_wait (SB_USE_EVSIG): an epoll instance  *)
(*             of their own, armed by the waker and guarded by a flag that *)
(*             nobody locks.                                               *)
(*                                                                         *)
(* Without either flag the thread polls with nanosleep, which needs no     *)
(* wakeup and is not modelled.  What a message does is left out, except    *)
(* for STOP.                                                               *)
(***************************************************************************)
EXTENDS Naturals, Sequences

CONSTANTS
  Modes,     (* the ways to wait: a subset of {"evbase", "cond", "evsig"}  *)
  Users,     (* threads that push messages or stop the thread              *)
  MaxPush    (* bound: messages pushed besides STOP                        *)

ASSUME WakeupAssumption ==
  Modes \subseteq {"evbase", "cond", "evsig"} /\ MaxPush \in Nat

VARIABLES
  mode,      (* how the thread waits, decided before it runs               *)
  pc,        (* where the thread is in procthread_run                      *)
  running,   (* pth->running_status                                        *)
  queue,     (* pth->message_queue                                         *)
  flag,      (* pth->flag, in evsig mode evsig->flag                       *)
  nowait,    (* nowait of pth->mutex                                       *)
  based,     (* pth->event.ev_base is set                                  *)
  armed,     (* the epoll instance reports the descriptor as writable      *)
  missed,    (* history: the thread started in the middle of a call        *)
  stopped,   (* history: procthread_stop was called                        *)
  upc,       (* where a user is in PUSH_TASK_MESSAGE or procthread_stop    *)
  pushes     (* how many messages were pushed                              *)

threadVars == <<pc, running>>
wakeVars == <<flag, nowait, based, armed>>
userVars == <<stopped, upc, pushes>>
waitVars == <<mode, missed>>
vars == <<waitVars, threadVars, queue, wakeVars, userVars>>

(* check: QMTOTAL > 0 before qmessage_handler.  handle: in its loop.       *)
(* test: QMTOTAL < 1 before the wait.  again: while(running_status).       *)
Places == {"start", "adding", "register", "sleep", "active", "check", "handle",
           "test", "enter", "woken", "disarm", "again", "drain", "done"}

TypeOK ==
  /\ mode \in Modes
  /\ pc \in Places
  /\ queue \in Seq({"WORK", "STOP"})
  /\ running \in BOOLEAN /\ flag \in BOOLEAN /\ nowait \in BOOLEAN
  /\ based \in BOOLEAN /\ armed \in BOOLEAN
  /\ missed \in BOOLEAN /\ stopped \in BOOLEAN
  /\ upc \in [Users -> {"idle", "stop", "wake", "arm"}]
  /\ pushes \in 0 .. MaxPush

Init ==
  /\ mode \in Modes
  /\ pc = "start"
  /\ queue = <<>>
  /\ running = FALSE /\ flag = FALSE /\ nowait = FALSE
  /\ based = FALSE /\ armed = FALSE
  /\ missed = FALSE /\ stopped = FALSE
  /\ upc = [u \in Users |-> "idle"]
  /\ pushes = 0

-----------------------------------------------------------------------------
(* The thread.                                                             *)

Goto(from, to) == pc = from /\ pc' = to

(* procthread_run from its first line.  It sets running_status also when   *)
(* procthread_stop has just cleared it and not yet pushed STOP.            *)
Start ==
  /\ Goto("start", IF mode = "evbase" THEN "adding" ELSE "check")
  /\ running' = TRUE
  /\ missed' = (missed \/ (mode = "cond" /\ \E u \in Users : upc[u] = "stop"))
  /\ UNCHANGED <<queue, wakeVars, userVars, mode>>

(* evepoll_add sets ev_base; from then on event_add reaches epoll.         *)
SetBase ==
  /\ Goto("adding", "register")
  /\ based' = TRUE
  /\ UNCHANGED <<running, queue, flag, nowait, armed, userVars, waitVars>>

(* evepoll_add reads ev_flags and calls epoll_ctl without a lock, so it    *)
(* may undo an event_add that came in between.                             *)
Register ==
  /\ Goto("register", "sleep")
  /\ armed' \in {armed, FALSE}
  /\ missed' = (missed \/ (armed /\ ~armed'))
  /\ UNCHANGED <<running, queue, flag, nowait, based, userVars, mode>>

(* Variant of EventHandler that leaves the flag set.                       *)
EventHandlerKeepsFlag ==
  /\ Goto("active", "check")
  /\ armed' = FALSE
  /\ UNCHANGED <<running, queue, flag, nowait, based, userVars, waitVars>>

(* procthread_event_handler, under pth->mutex.                             *)
EventHandler ==
  /\ Goto("active", "check")
  /\ armed' = FALSE
  /\ flag' = FALSE
  /\ UNCHANGED <<running, queue, nowait, based, userVars, waitVars>>

(* QMTOTAL(pth->message_queue) > 0 at the head of the loop.                *)
Check ==
  /\ \/ queue # <<>> /\ Goto("check", "handle")
     \/ queue = <<>> /\ Goto("check", IF mode = "evbase" THEN "again" ELSE "test")
  /\ UNCHANGED <<running, queue, wakeVars, userVars, waitVars>>

(* Variant of TakeMessage that terminates after any message.               *)
TakeMessageTerminates ==
  /\ queue # <<>>
  /\ queue' = Tail(queue)
  /\ running' = FALSE
  /\ UNCHANGED <<pc, wakeVars, userVars, waitVars>>

(* One turn of the loop of qmessage_handler; STOP calls terminate.         *)
TakeMessage ==
  /\ queue # <<>>
  /\ queue' = Tail(queue)
  /\ running' = (running /\ Head(queue) # "STOP")
  /\ UNCHANGED <<pc, wakeVars, userVars, waitVars>>

Handle ==
  \/ pc = "handle" /\ TakeMessage
  \/ /\ queue = <<>>
     /\ Goto("handle", IF mode = "evbase" THEN "again" ELSE "test")
     /\ UNCHANGED <<running, queue, wakeVars, userVars, waitVars>>

(* QMTOTAL(pth->message_queue) < 1 before the wait.                        *)
Test ==
  /\ \/ queue = <<>> /\ Goto("test", "enter")
     \/ queue # <<>> /\ Goto("test", "again")
  /\ UNCHANGED <<running, queue, wakeVars, userVars, waitVars>>

(* MUTEX_WAIT up to pthread_cond_wait, and all of it when nowait is set.   *)
EnterCond ==
  /\ mode = "cond"
  /\ Goto("enter", IF nowait THEN "again" ELSE "sleep")
  /\ nowait' = FALSE
  /\ UNCHANGED <<running, queue, flag, based, armed, userVars, waitVars>>

(* Variant of EnterEvsig that leaves the flag as it is.                    *)
EnterEvsigKeepsFlag ==
  /\ mode = "evsig"
  /\ Goto("enter", "sleep")
  /\ UNCHANGED <<running, queue, wakeVars, userVars, waitVars>>

(* evsig_epoll_wait up to epoll_wait.                                      *)
EnterEvsig ==
  /\ mode = "evsig"
  /\ Goto("enter", "sleep")
  /\ flag' = FALSE
  /\ UNCHANGED <<running, queue, nowait, based, armed, userVars, waitVars>>

(* epoll_wait returns because the descriptor is armed.                     *)
EpollReturns ==
  /\ mode # "cond" /\ armed
  /\ Goto("sleep", IF mode = "evbase" THEN "active" ELSE "woken")
  /\ UNCHANGED <<running, queue, wakeVars, userVars, waitVars>>

(* Without being woken: an event of a connection in evbase mode, a signal  *)
(* (EINTR), a spurious return of pthread_cond_wait.                        *)
OtherReturn ==
  /\ ~armed
  /\ Goto("sleep", IF mode = "evbase" THEN "check" ELSE "woken")
  /\ UNCHANGED <<running, queue, wakeVars, userVars, waitVars>>

(* The rest of MUTEX_WAIT; of evsig_epoll_wait up to epoll_ctl.            *)
Woken ==
  \/ /\ mode = "cond"
     /\ Goto("woken", "again")
     /\ nowait' = FALSE
     /\ UNCHANGED <<running, queue, flag, based, armed, userVars, waitVars>>
  \/ /\ mode = "evsig"
     /\ Goto("woken", "disarm")
     /\ flag' = FALSE
     /\ UNCHANGED <<running, queue, nowait, based, armed, userVars, waitVars>>

Disarm ==
  /\ Goto("disarm", "again")
  /\ armed' = FALSE
  /\ UNCHANGED <<running, queue, flag, nowait, based, userVars, waitVars>>

(* while(pth->running_status).                                             *)
Again ==
  /\ \/ running /\ Goto("again", IF mode = "evbase" THEN "sleep" ELSE "check")
     \/ ~running /\ Goto("again", "drain")
  /\ UNCHANGED <<running, queue, wakeVars, userVars, waitVars>>

(* The messages left after the loop.                                       *)
Drain ==
  \/ pc = "drain" /\ TakeMessage
  \/ /\ queue = <<>>
     /\ Goto("drain", "done")
     /\ UNCHANGED <<running, queue, wakeVars, userVars, waitVars>>

Thread ==
  \/ Start \/ SetBase \/ Register \/ EventHandler \/ Check \/ Handle \/ Test
  \/ EnterCond \/ EnterEvsig \/ EpollReturns \/ Woken \/ Disarm \/ Again \/ Drain

-----------------------------------------------------------------------------
(* The users.                                                              *)

Step(u, from, to) == upc[u] = from /\ upc' = [upc EXCEPT ![u] = to]

(* The qmessage_push of PUSH_TASK_MESSAGE and of the other pushers.        *)
PushMessage(u) ==
  /\ pushes < MaxPush
  /\ Step(u, "idle", "wake")
  /\ queue' = Append(queue, "WORK")
  /\ pushes' = pushes + 1
  /\ UNCHANGED <<threadVars, wakeVars, stopped, waitVars>>

(* procthread_stop, which service_stop calls once.                         *)
BeginStop(u) ==
  /\ ~stopped
  /\ Step(u, "idle", "stop")
  /\ running' = FALSE
  /\ stopped' = TRUE
  /\ UNCHANGED <<pc, queue, wakeVars, pushes, waitVars>>

(* Variant of PushStop without the wakeup.                                 *)
PushStopSilently(u) ==
  /\ Step(u, "stop", "idle")
  /\ queue' = Append(queue, "STOP")
  /\ UNCHANGED <<threadVars, wakeVars, stopped, pushes, waitVars>>

PushStop(u) ==
  /\ Step(u, "stop", "wake")
  /\ queue' = Append(queue, "STOP")
  /\ UNCHANGED <<threadVars, wakeVars, stopped, pushes, waitVars>>

(* procthread_wakeup of a thread with an evbase, under pth->mutex;         *)
(* event_add does nothing before ev_base is set, and the flag stays.       *)
WakeEvbase(u) ==
  /\ mode = "evbase"
  /\ Step(u, "wake", "idle")
  /\ flag' = TRUE
  /\ armed' = (armed \/ (~flag /\ based))
  /\ missed' = (missed \/ (~flag /\ ~based))
  /\ UNCHANGED <<threadVars, queue, nowait, based, stopped, pushes, mode>>

(* Variant of WakeCond that signals without setting nowait.                *)
WakeCondForgets(u) ==
  /\ mode = "cond"
  /\ Step(u, "wake", "idle")
  /\ pc' = IF pc = "sleep" THEN "woken" ELSE pc
  /\ UNCHANGED <<running, queue, wakeVars, stopped, pushes, waitVars>>

(* MUTEX_SIGNAL.                                                           *)
WakeCond(u) ==
  /\ mode = "cond"
  /\ Step(u, "wake", "idle")
  /\ nowait' = TRUE
  /\ pc' = IF pc = "sleep" THEN "woken" ELSE pc
  /\ UNCHANGED <<running, queue, flag, based, armed, stopped, pushes, waitVars>>

(* evsig_wakeup: the flag, then epoll_ctl, without a lock.                 *)
WakeEvsig(u) ==
  /\ mode = "evsig"
  /\ Step(u, "wake", IF flag THEN "idle" ELSE "arm")
  /\ flag' = TRUE
  /\ UNCHANGED <<threadVars, queue, nowait, based, armed, stopped, pushes, waitVars>>

Arm(u) ==
  /\ Step(u, "arm", "idle")
  /\ armed' = TRUE
  /\ UNCHANGED <<threadVars, queue, flag, nowait, based, stopped, pushes, waitVars>>

(* A user finishes the call it is in.                                      *)
Finish(u) == PushStop(u) \/ WakeEvbase(u) \/ WakeCond(u) \/ WakeEvsig(u) \/ Arm(u)

Next ==
  \/ Thread
  \/ OtherReturn
  \/ \E u \in Users : PushMessage(u) \/ BeginStop(u) \/ Finish(u)

Spec == Init /\ [][Next]_vars

(* A thread that is not asleep runs, and a user finishes the call it is    *)
(* in.  Nothing makes the thread return from its wait by itself.           *)
Fairness == WF_vars(Thread) /\ \A u \in Users : WF_vars(Finish(u))

FairSpec == Spec /\ Fairness

-----------------------------------------------------------------------------
(* Properties.                                                             *)

(* A thread asleep with a message in its queue, or with running_status     *)
(* cleared, is about to be woken: it is armed, or a user that pushed has   *)
(* still to wake it.  missed leaves out three starts of procthread_run:    *)
(* procthread_wakeup came before the event had a base, or evepoll_add      *)
(* undid its event_add, so that pth->flag stays set without the event; or  *)
(* running_status = 1 came between the two steps of procthread_stop.       *)
NoLostWakeup ==
  mode # "evsig" /\ ~missed /\ pc = "sleep" /\ (queue # <<>> \/ ~running)
  => armed \/ \E u \in Users : upc[u] # "idle"

(* evsig: a waker that finds flag set while the thread sleeps may leave    *)
(* the arming to the one that set it.                                      *)
FlagMeansArmed ==
  mode = "evsig" /\ pc = "sleep" /\ flag /\ (\A u \in Users : upc[u] # "arm") => armed

(* The loop and its wait keep the promise of Mailbox; the wait of evsig is *)
(* not reliable, nor is that of a thread that missed something.            *)
State == IF pc = "done" THEN "ended" ELSE IF stopped THEN "stopping" ELSE "open"

M == INSTANCE Mailbox WITH pending <- Len(queue), state <- State,
                           reliable <- mode # "evsig" /\ ~missed

KeepsMailbox == M!FairSpec

(* Its safety part holds for every way to wait, evsig included: a message  *)
(* is taken once, and procthread_run returns only after procthread_stop.   *)
SafeMailbox == M!Spec
=============================================================================
