------------------------------ MODULE EventBase ------------------------------
(***************************************************************************)
(* An event base of libevbase with its epoll, poll and select back ends:   *)
(* which descriptors it looks at, whom it calls, and what happens when     *)
(* events are changed, destroyed and registered again while a pass of the  *)
(* loop still has readings of them in hand.                                *)
(*                                                                         *)
(* One thread runs the loop and the handlers, registers and destroys       *)
(* events; other threads may add and delete flags (event_add, event_del)   *)
(* of an event that has a mutex (E_LOCK).  The base has its mutex, so that *)
(* a call of a back end is one step; event_destroy takes no event mutex.   *)
(* Applications close a descriptor when no event is registered for it.     *)
(***************************************************************************)
EXTENDS Integers, FiniteSets

CONSTANTS
  Backends,   (* the EOP_... to look at: "epoll", "poll", "select"         *)
  Events, NoEvent,
  Fds,        (* descriptors below evbase->allowed                         *)
  Others,     (* threads that do not run the loop                          *)
  Readings,   (* what the kernel may have to say of a descriptor           *)
  Masks,      (* directions that event_set is called with                  *)
  Options,    (* other flags that event_set is called with                 *)
  Changes,    (* directions that event_add and event_del are called with   *)
  MaxCalls    (* bound: calls that register or change an event             *)

Dirs == {"read", "write"}
Flags == Dirs \cup {"persist", "lock"}

ASSUME EventAssumption ==
  /\ Backends \subseteq {"epoll", "poll", "select"}
  /\ NoEvent \notin Events
  /\ Fds \subseteq Nat \ {0}
  /\ Readings \subseteq SUBSET (Dirs \cup {"hup"}) /\ {} \in Readings
  /\ Masks \subseteq SUBSET Dirs /\ Options \subseteq SUBSET {"persist", "lock"}
  /\ Changes \subseteq SUBSET Dirs \ {{}}
  /\ MaxCalls \in Nat

VARIABLES
  backend,
  open,     (* descriptors that are open                                   *)
  ready,    (* what the kernel would say of a descriptor                   *)
  fd, flags, (* event->ev_fd, event->ev_flags                              *)
  base,     (* event->ev_base # NULL                                       *)
  evlist, maxfd,
  asked,    (* directions the kernel is asked for: the mask of epoll,      *)
            (* pollfd.events, or the two sets of select                    *)
  watched,  (* descriptors in the epoll instance, or set in a pollfd       *)
  ptr,      (* epoll: data.ptr                                             *)
  at,       (* the loop: "idle", in a "pass", in a "handler"               *)
  cur,      (* the event whose handler runs                                *)
  todo,     (* descriptors the pass has still to look at                   *)
  seen,     (* revents, or the sets that select returned                   *)
  who,      (* epoll: data.ptr of the reading; else history: evlist then   *)
  other,    (* where another thread is in event_add or event_del           *)
  gone,     (* history: events destroyed since the kernel was asked        *)
  stale,    (* history: a handler was called for a reading of an earlier   *)
            (* registration, of the same event or of another one           *)
  crossed,  (* history: an event was destroyed inside somebody's event_add *)
  calls

eventVars == <<fd, flags, base>>
tableVars == <<evlist, maxfd, asked, watched, ptr>>
loopVars == <<at, cur, todo, who, gone, stale>>
vars == <<backend, open, ready, eventVars, tableVars, loopVars, seen, other,
          crossed, calls>>

NoCall == [step |-> "none", event |-> NoEvent, dirs |-> {}, adds |-> TRUE, old |-> {}]

TypeOK ==
  /\ backend \in Backends
  /\ open \subseteq Fds /\ ready \in [Fds -> Readings]
  /\ fd \in [Events -> Fds \cup {0}]
  /\ flags \in [Events -> SUBSET Flags]
  /\ base \in [Events -> BOOLEAN]
  /\ evlist \in [Fds -> Events \cup {NoEvent}] /\ maxfd \in Nat
  /\ asked \in [Fds -> SUBSET Dirs] /\ watched \subseteq Fds
  /\ ptr \in [Fds -> Events \cup {NoEvent}]
  /\ at \in {"idle", "pass", "handler"} /\ cur \in Events \cup {NoEvent}
  /\ todo \subseteq Fds
  /\ seen \in [Fds -> SUBSET (Dirs \cup {"hup"})]
  /\ who \in [Fds -> Events \cup {NoEvent}]
  /\ other \in [Others -> [step : {"none", "tested", "changed"},
                           event : Events \cup {NoEvent},
                           dirs : SUBSET Dirs, adds : BOOLEAN,
                           old : SUBSET Flags]]
  /\ gone \subseteq Events
  /\ stale \in {"no", "same", "other"}
  /\ crossed \in BOOLEAN
  /\ calls \in 0 .. MaxCalls

Init ==
  /\ backend \in Backends
  /\ open = {} /\ ready = [f \in Fds |-> {}]
  /\ fd = [e \in Events |-> 0] /\ flags = [e \in Events |-> {}]
  /\ base = [e \in Events |-> FALSE]
  /\ evlist = [f \in Fds |-> NoEvent] /\ maxfd = 0
  /\ asked = [f \in Fds |-> {}] /\ watched = {}
  /\ ptr = [f \in Fds |-> NoEvent]
  /\ at = "idle" /\ cur = NoEvent /\ todo = {}
  /\ seen = [f \in Fds |-> {}]
  /\ who = [f \in Fds |-> NoEvent]
  /\ other = [t \in Others |-> NoCall]
  /\ gone = {} /\ stale = "no" /\ crossed = FALSE
  /\ calls = 0

-----------------------------------------------------------------------------
(* The kernel and the descriptors.  What happens to a descriptor matters    *)
(* when the kernel is asked again; handlers and the code between two       *)
(* passes open and close descriptors.                                      *)

Happen(f, r) ==
  /\ at = "idle"
  /\ f \in open /\ ready[f] # r
  /\ ready' = [ready EXCEPT ![f] = r]
  /\ UNCHANGED <<backend, open, eventVars, tableVars, loopVars, seen, other,
                 crossed, calls>>

Open(f) ==
  /\ f \notin open /\ at # "pass"
  /\ open' = open \cup {f}
  /\ ready' = [ready EXCEPT ![f] = {}]
  /\ UNCHANGED <<backend, eventVars, tableVars, loopVars, seen, other, crossed,
                 calls>>

(* A descriptor that is closed leaves the epoll instance.                  *)
Close(f) ==
  /\ f \in open /\ \A e \in Events : base[e] => fd[e] # f
  /\ at # "pass"
  /\ open' = open \ {f}
  /\ ready' = [ready EXCEPT ![f] = {}]
  /\ \/ /\ backend = "epoll"
        /\ watched' = watched \ {f}
        /\ asked' = [asked EXCEPT ![f] = {}]
        /\ ptr' = [ptr EXCEPT ![f] = NoEvent]
     \/ backend # "epoll" /\ UNCHANGED <<watched, asked, ptr>>
  /\ UNCHANGED <<backend, eventVars, evlist, maxfd, loopVars, seen, other,
                 crossed, calls>>

-----------------------------------------------------------------------------
(* The back ends: evepoll.c, evpoll.c, evselect.c.                         *)

(* Variant of Enter without the test of maxfd.                             *)
EnterOnly(e, f) ==
  /\ evlist' = [evlist EXCEPT ![f] = e]
  /\ UNCHANGED maxfd

(* UPDATE_EVENT_FD and REMOVE_EVENT_FD.                                    *)
Enter(e, f) ==
  /\ evlist' = [evlist EXCEPT ![f] = e]
  /\ maxfd' = IF f > maxfd THEN f ELSE maxfd

(* Variant of Leave that takes maxfd for a number of events.               *)
LeaveTwice(f) ==
  /\ evlist' = [evlist EXCEPT ![f] = NoEvent]
  /\ maxfd' = IF maxfd > 0 THEN maxfd - 1 ELSE 0

Leave(f) ==
  /\ evlist' = [evlist EXCEPT ![f] = NoEvent]
  /\ maxfd' = IF f = maxfd THEN f - 1 ELSE maxfd

(* EPOLL_CTL_MOD or EPOLL_CTL_ADD, whichever the kernel accepts.           *)
Control(e, f, dirs) ==
  /\ asked' = [asked EXCEPT ![f] = dirs]
  /\ watched' = watched \cup {f}
  /\ ptr' = [ptr EXCEPT ![f] = e]
  /\ UNCHANGED seen

EpollAdd(e, f, dirs) ==
  \/ dirs # {} /\ Enter(e, f) /\ Control(e, f, dirs)
  \/ dirs = {} /\ UNCHANGED <<tableVars, seen>>

(* The kernel refuses a closed descriptor.                                 *)
EpollUpdate(e, f, dirs) ==
  /\ Enter(e, f)
  /\ \/ f \in open /\ Control(e, f, dirs)
     \/ f \notin open /\ UNCHANGED <<asked, watched, ptr, seen>>
  /\ UNCHANGED base

EpollDel(f) ==
  \/ /\ evlist[f] # NoEvent
     /\ Leave(f)
     /\ asked' = [asked EXCEPT ![f] = {}]
     /\ watched' = watched \ {f}
     /\ ptr' = [ptr EXCEPT ![f] = NoEvent]
     /\ UNCHANGED seen
  \/ evlist[f] = NoEvent /\ UNCHANGED <<tableVars, seen>>

(* The pollfd of descriptor f, with revents = 0.                           *)
SetPoll(f, dirs) ==
  /\ asked' = [asked EXCEPT ![f] = dirs]
  /\ watched' = watched \cup {f}
  /\ seen' = [seen EXCEPT ![f] = {}]
  /\ UNCHANGED ptr

PollAdd(e, f, dirs) ==
  /\ Enter(e, f)
  /\ \/ dirs # {} /\ SetPoll(f, dirs)
     \/ dirs = {} /\ UNCHANGED <<asked, watched, ptr, seen>>

(* evpoll_update sets ev_base besides.                                     *)
PollUpdate(e, f, dirs) ==
  /\ Enter(e, f)
  /\ SetPoll(f, dirs)
  /\ base' = [base EXCEPT ![e] = TRUE]

PollDel(f) ==
  /\ Leave(f)
  /\ asked' = [asked EXCEPT ![f] = {}]
  /\ watched' = watched \ {f}
  /\ seen' = [seen EXCEPT ![f] = {}]
  /\ UNCHANGED ptr

SelectAdd(e, f, dirs) ==
  /\ Enter(e, f)
  /\ asked' = [asked EXCEPT ![f] = @ \cup dirs]
  /\ UNCHANGED <<watched, ptr, seen>>

(* Only what differs between the old and the new directions is set or      *)
(* cleared.                                                                *)
SelectUpdate(e, f, was, dirs) ==
  /\ Enter(e, f)
  /\ asked' = [asked EXCEPT ![f] = (@ \cup (dirs \ was)) \ (was \ dirs)]
  /\ UNCHANGED <<base, watched, ptr, seen>>

SelectDel(f) ==
  /\ Leave(f)
  /\ asked' = [asked EXCEPT ![f] = {}]
  /\ UNCHANGED <<watched, ptr, seen>>

(* evbase->add for event e with descriptor f and directions dirs.          *)
Add(e, f, dirs) ==
  \/ backend = "epoll" /\ EpollAdd(e, f, dirs)
  \/ backend = "poll" /\ PollAdd(e, f, dirs)
  \/ backend = "select" /\ SelectAdd(e, f, dirs)

(* evbase->update for event e, whose flags were o and are F.               *)
Update(e, o, F) ==
  \/ backend = "epoll" /\ EpollUpdate(e, fd[e], F \cap Dirs)
  \/ backend = "poll" /\ PollUpdate(e, fd[e], F \cap Dirs)
  \/ backend = "select" /\ SelectUpdate(e, fd[e], o \cap Dirs, F \cap Dirs)

(* evbase->del for an event with descriptor f.                             *)
Del(f) ==
  \/ backend = "epoll" /\ EpollDel(f)
  \/ backend = "poll" /\ PollDel(f)
  \/ backend = "select" /\ SelectDel(f)

-----------------------------------------------------------------------------
(* Events: evbase.c.  The thread of the loop calls these between two       *)
(* passes and in handlers.                                                 *)

OwnerRuns == at \in {"idle", "handler"}
Counted == calls < MaxCalls /\ calls' = calls + 1

Unlocked(e) == \A t \in Others : ~(other[t].step = "changed" /\ other[t].event = e)

(* event_set and evbase->add, for a descriptor without another event.      *)
Register(e, f, dirs, options) ==
  /\ OwnerRuns /\ Counted
  /\ ~base[e]
  /\ f \in open /\ \A d \in Events : base[d] => fd[d] # f
  /\ fd' = [fd EXCEPT ![e] = f]
  /\ flags' = [flags EXCEPT ![e] = dirs \cup options]
  /\ base' = [base EXCEPT ![e] = TRUE]
  /\ Add(e, f, dirs)
  /\ UNCHANGED <<backend, open, ready, loopVars, other, crossed>>

Changed(e, dirs, adds) == IF adds THEN flags[e] \cup dirs ELSE flags[e] \ dirs

(* event_add and event_del.                                                *)
Change(e, dirs, adds) ==
  /\ OwnerRuns /\ Counted
  /\ base[e] /\ Unlocked(e)
  /\ flags' = [flags EXCEPT ![e] = Changed(e, dirs, adds)]
  /\ Update(e, flags[e], Changed(e, dirs, adds))
  /\ UNCHANGED <<backend, open, ready, fd, loopVars, other, crossed>>

(* What event_destroy does; it takes no notice of another thread that has  *)
(* the mutex of the event.                                                 *)
Destroyed(e) ==
  /\ flags' = [flags EXCEPT ![e] = {}]
  /\ base' = [base EXCEPT ![e] = FALSE]
  /\ gone' = IF at = "idle" THEN gone ELSE gone \cup {e}
  /\ \/ base[e] /\ Del(fd[e])
     \/ ~base[e] /\ UNCHANGED <<tableVars, seen>>
  /\ crossed' = (crossed \/ ~Unlocked(e))
  /\ UNCHANGED fd

Destroy(e) ==
  /\ OwnerRuns
  /\ base[e] \/ flags[e] # {}
  /\ Destroyed(e)
  /\ UNCHANGED <<backend, open, ready, at, cur, todo, who, stale, other, calls>>

(* event_add and event_del of another thread: ev_base is tested, tested    *)
(* again with the mutex held when the flags have changed, and then used.   *)
BeginChange(t, e, dirs, adds) ==
  /\ other[t] = NoCall /\ base[e] /\ "lock" \in flags[e]
  /\ Counted
  /\ other' = [other EXCEPT ![t] =
                 [step |-> "tested", event |-> e, dirs |-> dirs, adds |-> adds,
                  old |-> {}]]
  /\ UNCHANGED <<backend, open, ready, eventVars, tableVars, loopVars, seen, crossed>>

ChangeFlags(t) ==
  LET e == other[t].event IN
  /\ other[t].step = "tested" /\ Unlocked(e)
  /\ flags' = [flags EXCEPT ![e] = Changed(e, other[t].dirs, other[t].adds)]
  /\ other' = [other EXCEPT ![t] =
                 IF base[e] THEN [@ EXCEPT !.step = "changed", !.old = flags[e]]
                            ELSE NoCall]
  /\ UNCHANGED <<backend, open, ready, fd, base, tableVars, loopVars, seen,
                 crossed, calls>>

FinishChange(t) ==
  LET e == other[t].event IN
  /\ other[t].step = "changed"
  /\ Update(e, other[t].old, flags[e])
  /\ other' = [other EXCEPT ![t] = NoCall]
  /\ UNCHANGED <<backend, open, ready, fd, flags, loopVars, crossed, calls>>

-----------------------------------------------------------------------------
(* The loop.                                                               *)

(* What the kernel says of descriptor f.                                   *)
EpollReading(f) == IF f \in watched THEN ready[f] \cap (asked[f] \cup {"hup"}) ELSE {}
PollReading(f) == IF f <= maxfd THEN EpollReading(f) ELSE {}
SelectReading(f) ==
  IF f > maxfd THEN {}
  ELSE IF "hup" \in ready[f] THEN asked[f]
  ELSE ready[f] \cap asked[f]

Reading(f) ==
  CASE f \notin open -> {}
    [] f \in open /\ backend = "epoll" -> EpollReading(f)
    [] f \in open /\ backend = "poll" -> PollReading(f)
    [] f \in open /\ backend = "select" -> SelectReading(f)

(* epoll_wait, poll or select returns.                                     *)
Wait ==
  /\ at = "idle" /\ \E f \in Fds : Reading(f) # {}
  /\ seen' = [f \in Fds |-> Reading(f)]
  /\ who' = IF backend = "epoll" THEN ptr ELSE evlist
  /\ todo' = IF backend = "epoll" THEN {f \in Fds : Reading(f) # {}} ELSE Fds
  /\ at' = "pass"
  /\ UNCHANGED <<backend, open, ready, eventVars, tableVars, cur, gone, stale, other,
                 crossed, calls>>

(* event_active for event e and the reading of descriptor f.               *)
Activate(e, f) ==
  \/ /\ base[e] /\ flags[e] # {}
     /\ at' = "handler" /\ cur' = e
     /\ stale' = CASE stale = "other" \/ who[f] # e -> "other"
                   [] e \in gone -> "same"
                   [] OTHER -> stale
     /\ UNCHANGED <<eventVars, tableVars, seen, gone, crossed>>
  \/ /\ base[e] /\ flags[e] = {}
     /\ Destroyed(e)
     /\ UNCHANGED <<at, cur, stale>>
  \/ /\ ~base[e]
     /\ UNCHANGED <<at, cur, stale, eventVars, tableVars, seen, gone, crossed>>

Skip == UNCHANGED <<at, cur, stale, eventVars, tableVars, seen, gone, crossed>>

Told(f) == IF "hup" \in seen[f] THEN Dirs ELSE seen[f]

(* Variant of Current that goes by data.fd.                                *)
CurrentOfFd(f) == evlist[f]

(* The event that epoll calls for a reading: data.ptr, if it is in evlist. *)
Current(f) == IF who[f] # NoEvent /\ fd[who[f]] # 0 /\ evlist[fd[who[f]]] = who[f] THEN who[f] ELSE NoEvent

(* poll and select call whom evlist has, for a direction of its flags.     *)
Listed(f) ==
  IF evlist[f] # NoEvent /\ Told(f) \cap flags[evlist[f]] # {} THEN evlist[f] ELSE NoEvent

Called(f) == IF backend = "epoll" THEN Current(f) ELSE Listed(f)

(* poll and select go through the descriptors in their order.              *)
Look(f) ==
  /\ at = "pass" /\ f \in todo
  /\ backend # "epoll" => f <= maxfd /\ \A g \in todo : f <= g
  /\ todo' = todo \ {f}
  /\ \/ Called(f) # NoEvent /\ Activate(Called(f), f)
     \/ Called(f) = NoEvent /\ Skip
  /\ UNCHANGED <<backend, open, ready, who, other, calls>>

(* The handler returns; an event without E_PERSIST is destroyed.           *)
Return ==
  /\ at = "handler"
  /\ at' = "pass" /\ cur' = NoEvent
  /\ \/ /\ base[cur] /\ "persist" \notin flags[cur]
        /\ Destroyed(cur)
     \/ /\ ~(base[cur] /\ "persist" \notin flags[cur])
        /\ UNCHANGED <<eventVars, tableVars, seen, gone, crossed>>
  /\ UNCHANGED <<backend, open, ready, todo, who, stale, other, calls>>

(* The next readings replace these.                                        *)
EndPass ==
  /\ at = "pass"
  /\ \A f \in todo : backend # "epoll" /\ f > maxfd
  /\ at' = "idle" /\ todo' = {} /\ gone' = {}
  /\ seen' = [f \in Fds |-> {}] /\ who' = [f \in Fds |-> NoEvent]
  /\ UNCHANGED <<backend, open, ready, eventVars, tableVars, cur, other,
                 stale, crossed, calls>>

Loop == Wait \/ (\E f \in Fds : Look(f)) \/ Return \/ EndPass

World ==
  \/ \E f \in Fds, r \in Readings : Happen(f, r)
  \/ \E f \in Fds : Open(f) \/ Close(f)

Owner ==
  \/ \E e \in Events, f \in Fds, dirs \in Masks, options \in Options :
       Register(e, f, dirs, options)
  \/ \E e \in Events, dirs \in Changes, adds \in BOOLEAN : Change(e, dirs, adds)
  \/ \E e \in Events : Destroy(e)

Other(t) ==
  \/ \E e \in Events, dirs \in Changes, adds \in BOOLEAN :
       BeginChange(t, e, dirs, adds)
  \/ ChangeFlags(t)
  \/ FinishChange(t)

Next == World \/ Owner \/ Loop \/ \E t \in Others : Other(t)

(* The loop goes on and handlers return, and calls end.                    *)
Spec ==
  /\ Init /\ [][Next]_vars
  /\ WF_vars(Loop)
  /\ \A t \in Others : WF_vars(ChangeFlags(t) \/ FinishChange(t))

-----------------------------------------------------------------------------
(* A registered event is in evlist, the kernel is asked for what its flags *)
(* say and for nothing else, and maxfd does not hide it from poll and      *)
(* select; whatever was added, deleted, destroyed and registered again,    *)
(* unless event_add of another thread met event_destroy.                   *)
Settled(e) == base[e] /\ Unlocked(e)

InterestIsFlags ==
  crossed \/
  /\ \A e \in Events : Settled(e) =>
       /\ asked[fd[e]] = flags[e] \cap Dirs
       /\ asked[fd[e]] # {} => evlist[fd[e]] = e /\ fd[e] <= maxfd
       /\ backend = "epoll" /\ asked[fd[e]] # {} => ptr[fd[e]] = e
       /\ backend # "select" /\ asked[fd[e]] # {} => fd[e] \in watched
  /\ \A f \in Fds : asked[f] # {} => \E e \in Events : base[e] /\ fd[e] = f

Coherent == TypeOK /\ InterestIsFlags

(* A reading that was taken for an event is not given to another one that  *)
(* got the descriptor meanwhile, except by select; and not to a later      *)
(* registration of the same event, except by epoll and select.  With poll  *)
(* it is the revents that add, update and del reset, with epoll the        *)
(* comparison of data.ptr with evlist.                                     *)
CallsAreCurrent ==
  crossed \/
  /\ stale = "other" => backend = "select"
  /\ stale = "same" => backend # "poll"

(* Who asked for a direction in which its descriptor is ready is called,   *)
(* once the calls that change events have ended.                           *)
ReadyIsServed ==
  \A e \in Events, d \in Dirs :
    base[e] /\ d \in flags[e] /\ d \in ready[fd[e]] ~>
      cur = e \/ crossed \/ ~(base[e] /\ d \in flags[e] /\ d \in ready[fd[e]])
=============================================================================
