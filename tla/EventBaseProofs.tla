------------------------ MODULE EventBaseProofs ------------------------
(***************************************************************************)
(* Coherent and CallsAreCurrent for any number of events, descriptors and  *)
(* threads.  Descriptors are related to the events they are entered for    *)
(* (DescriptorsFit), events to their descriptor (EventsFit) and calls in   *)
(* progress to both (CallsFit), as long as no event is destroyed inside    *)
(* somebody's event_add; what holds even then is in Bounded.               *)
(***************************************************************************)
EXTENDS EventBase, TLAPS

(* What event_add of another thread relies on, crossed or not: its event    *)
(* has been registered, and the mutex of an event is held once.            *)
Busy(t) == other[t].step # "none"
Holds(t) == other[t].step = "changed"

Bounded ==
  /\ \A f \in Fds : evlist[f] # NoEvent => f <= maxfd
  /\ \A e \in Events : base[e] => fd[e] \in Fds
  /\ \A t \in Others : Busy(t) => other[t].event \in Events /\ fd[other[t].event] \in Fds
  /\ \A t, u \in Others :
       Holds(t) /\ Holds(u) /\ other[t].event = other[u].event => t = u
  /\ at = "handler" => cur \in Events
  /\ at = "idle" => gone = {}

(* A descriptor is asked for only while it is in evlist, for an event that *)
(* is registered with it; with poll, revents are about that event.         *)
Fits(f) ==
  /\ evlist[f] # NoEvent => base[evlist[f]] /\ fd[evlist[f]] = f
  /\ asked[f] # {} \/ f \in watched \/ ptr[f] # NoEvent => evlist[f] # NoEvent
  /\ backend = "epoll" /\ evlist[f] # NoEvent => ptr[f] = evlist[f] /\ f \in watched
  /\ backend = "poll" /\ asked[f] # {} => f \in watched
  /\ backend # "epoll" => ptr[f] = NoEvent
  /\ backend = "select" => f \notin watched
  /\ backend = "poll" /\ seen[f] # {} =>
       evlist[f] # NoEvent /\ who[f] = evlist[f] /\ evlist[f] \notin gone

DescriptorsFit == \A f \in Fds : Fits(f)

EventsFit ==
  \A e \in Events : base[e] =>
    /\ fd[e] \in open
    /\ \A d \in Events : base[d] /\ fd[d] = fd[e] => d = e
    /\ Unlocked(e) => asked[fd[e]] = flags[e] \cap Dirs

CallsFit ==
  \A t \in Others : Holds(t) =>
    base[other[t].event] /\ asked[fd[other[t].event]] = other[t].old \cap Dirs

Uncrossed == DescriptorsFit /\ EventsFit /\ CallsFit

Keeps == TypeOK /\ Bounded /\ (~crossed => Uncrossed)

-----------------------------------------------------------------------------
(* What the back ends do to the table, whatever the state is.              *)

TableTypes ==
  /\ evlist \in [Fds -> Events \cup {NoEvent}] /\ maxfd \in Nat
  /\ asked \in [Fds -> SUBSET Dirs] /\ watched \subseteq Fds
  /\ ptr \in [Fds -> Events \cup {NoEvent}]
  /\ seen \in [Fds -> SUBSET (Dirs \cup {"hup"})]
  /\ \A f \in Fds : evlist[f] # NoEvent => f <= maxfd

(* An event is entered at a descriptor: maxfd goes up if need be.          *)
LEMMA EnterTypes ==
  ASSUME TableTypes, NEW e \in Events, NEW f \in Fds, Enter(e, f)
  PROVE  /\ evlist' \in [Fds -> Events \cup {NoEvent}] /\ maxfd' \in Nat
         /\ \A g \in Fds : evlist'[g] # NoEvent => g <= maxfd'
BY EventAssumption DEF TableTypes, Enter

(* A descriptor is left: maxfd goes down by one at most, and only if that  *)
(* descriptor was the largest, so it stays a bound of the others.          *)
LEMMA LeaveTypes ==
  ASSUME TableTypes, NEW f \in Fds, Leave(f)
  PROVE  /\ evlist' \in [Fds -> Events \cup {NoEvent}] /\ maxfd' \in Nat
         /\ \A g \in Fds : evlist'[g] # NoEvent => g <= maxfd'
BY EventAssumption DEF TableTypes, Leave

(* evbase->add keeps the types and the bound.                              *)
LEMMA AddTypes ==
  ASSUME TableTypes, NEW e \in Events, NEW f \in Fds, NEW dirs \in SUBSET Dirs,
         Add(e, f, dirs)
  PROVE  TableTypes'
<1>1. CASE Enter(e, f)
  BY <1>1, EnterTypes
     DEF TableTypes, Add, EpollAdd, PollAdd, SelectAdd, Control, SetPoll, tableVars
<1>2. CASE UNCHANGED <<tableVars, seen>>
  BY <1>2 DEF TableTypes, tableVars
<1> QED BY <1>1, <1>2 DEF Add, EpollAdd, PollAdd, SelectAdd

(* evbase->update keeps them and registers nobody else.                    *)
LEMMA UpdateTypes ==
  ASSUME TableTypes, base \in [Events -> BOOLEAN],
         NEW e \in Events, fd[e] \in Fds,
         NEW o \in SUBSET Flags, NEW F \in SUBSET Flags, Update(e, o, F)
  PROVE  /\ TableTypes'
         /\ base' \in [Events -> BOOLEAN]
         /\ \A d \in Events : base'[d] => base[d] \/ d = e
<1>1. Enter(e, fd[e])
  BY DEF Update, EpollUpdate, PollUpdate, SelectUpdate
<1>2. F \cap Dirs \in SUBSET Dirs /\ o \cap Dirs \in SUBSET Dirs
  OBVIOUS
<1>3. TableTypes'
  BY <1>1, <1>2, EnterTypes
     DEF TableTypes, Update, EpollUpdate, PollUpdate, SelectUpdate, Control, SetPoll
<1> QED BY <1>3 DEF Update, EpollUpdate, PollUpdate, SelectUpdate

(* evbase->del keeps them.                                                 *)
LEMMA DelTypes ==
  ASSUME TableTypes, NEW f \in Fds, Del(f)
  PROVE  TableTypes'
<1>1. CASE Leave(f)
  BY <1>1, LeaveTypes DEF TableTypes, Del, EpollDel, PollDel, SelectDel, tableVars
<1>2. CASE UNCHANGED <<tableVars, seen>>
  BY <1>2 DEF TableTypes, tableVars
<1> QED BY <1>1, <1>2 DEF Del, EpollDel, PollDel, SelectDel

-----------------------------------------------------------------------------
(* What they do to one descriptor that fits, and to no other.              *)

Apart(f) ==
  \A g \in Fds : g # f =>
    /\ evlist'[g] = evlist[g] /\ asked'[g] = asked[g] /\ ptr'[g] = ptr[g]
    /\ (g \in watched' <=> g \in watched)
    /\ seen'[g] = seen[g]

(* An event is added at a descriptor that nobody has.                      *)
LEMMA AddFits ==
  ASSUME TableTypes, NEW e \in Events, NEW f \in Fds, NEW dirs \in SUBSET Dirs,
         evlist[f] = NoEvent, Fits(f), backend \in {"epoll", "poll", "select"},
         Add(e, f, dirs)
  PROVE  /\ Apart(f)
         /\ asked'[f] = dirs
         /\ evlist'[f] \in {e, NoEvent}
         /\ asked'[f] # {} \/ f \in watched' \/ ptr'[f] # NoEvent => evlist'[f] = e
         /\ backend = "epoll" /\ evlist'[f] = e => ptr'[f] = e /\ f \in watched'
         /\ backend = "poll" /\ asked'[f] # {} => f \in watched'
         /\ backend # "epoll" => ptr'[f] = NoEvent
         /\ backend = "select" => f \notin watched'
         /\ backend = "poll" => seen'[f] = {}
<1>1. asked[f] = {} /\ f \notin watched /\ ptr[f] = NoEvent
      /\ (backend = "poll" => seen[f] = {})
  BY DEF Fits
<1>2. e # NoEvent
  BY EventAssumption
<1>3. CASE backend = "epoll"
  BY <1>1, <1>2, <1>3 DEF TableTypes, Add, EpollAdd, Enter, Control, Apart, tableVars
<1>4. CASE backend = "poll"
  BY <1>1, <1>2, <1>4 DEF TableTypes, Add, PollAdd, Enter, SetPoll, Apart
<1>5. CASE backend = "select"
  BY <1>1, <1>2, <1>5 DEF TableTypes, Add, SelectAdd, Enter, Apart
<1> QED BY <1>3, <1>4, <1>5

(* An event is changed at its open descriptor.                             *)
LEMMA UpdateFits ==
  ASSUME TableTypes, base \in [Events -> BOOLEAN],
         NEW e \in Events, base[e], fd[e] \in Fds \cap open,
         Fits(fd[e]), backend \in {"epoll", "poll", "select"},
         NEW o, NEW F, asked[fd[e]] = o \cap Dirs, Update(e, o, F)
  PROVE  /\ Apart(fd[e])
         /\ asked'[fd[e]] = F \cap Dirs
         /\ evlist'[fd[e]] = e
         /\ backend = "epoll" => ptr'[fd[e]] = e /\ fd[e] \in watched'
         /\ backend = "poll" => fd[e] \in watched' /\ seen'[fd[e]] = {}
         /\ backend # "epoll" => ptr'[fd[e]] = NoEvent
         /\ backend = "select" => fd[e] \notin watched'
         /\ base' = base
<1> DEFINE f == fd[e]
<1>1. CASE backend = "epoll"
  BY <1>1 DEF TableTypes, Update, EpollUpdate, Enter, Control, Apart
<1>2. CASE backend = "poll"
  <2>1. [base EXCEPT ![e] = TRUE] = base
    OBVIOUS
  <2>2. base' = base
    BY <1>2, <2>1 DEF Update, PollUpdate
  <2> QED BY <1>2, <2>2 DEF TableTypes, Update, PollUpdate, Enter, SetPoll, Apart, Fits
<1>3. CASE backend = "select"
  <2>1. asked'[f] = (asked[f] \cup ((F \cap Dirs) \ (o \cap Dirs)))
                      \ ((o \cap Dirs) \ (F \cap Dirs))
    BY <1>3 DEF TableTypes, Update, SelectUpdate
  <2>2. asked'[f] = F \cap Dirs
    BY <2>1
  <2> QED BY <2>2, <1>3 DEF TableTypes, Update, SelectUpdate, Enter, Apart, Fits
<1> QED BY <1>1, <1>2, <1>3

(* A descriptor is deleted.                                                *)
LEMMA DelFits ==
  ASSUME TableTypes, NEW f \in Fds, Fits(f),
         backend \in {"epoll", "poll", "select"}, Del(f)
  PROVE  /\ Apart(f)
         /\ evlist'[f] = NoEvent /\ asked'[f] = {} /\ f \notin watched'
         /\ ptr'[f] = NoEvent
         /\ backend = "poll" => seen'[f] = {}
<1>1. CASE backend = "epoll"
  BY <1>1 DEF TableTypes, Del, EpollDel, Leave, Apart, Fits, tableVars
<1>2. CASE backend = "poll"
  BY <1>2 DEF TableTypes, Del, PollDel, Leave, Apart, Fits
<1>3. CASE backend = "select"
  BY <1>3 DEF TableTypes, Del, SelectDel, Leave, Apart, Fits
<1> QED BY <1>1, <1>2, <1>3

-----------------------------------------------------------------------------
(* The steps.                                                              *)

(* The invariant has what the lemmas on the table ask for.                *)
LEMMA TypesOfTable ==
  ASSUME Keeps
  PROVE  TableTypes /\ backend \in {"epoll", "poll", "select"}
BY EventAssumption DEF Keeps, TypeOK, Bounded, TableTypes

(* Where no event is registered nothing is entered.                        *)
LEMMA UnusedIsEmpty ==
  ASSUME Keeps, ~crossed, NEW f \in Fds,
         \A d \in Events : base[d] => fd[d] # f
  PROVE  evlist[f] = NoEvent
BY DEF Keeps, TypeOK, Uncrossed, DescriptorsFit, Fits

(* An event is registered at a descriptor that nobody has.                *)
LEMMA RegisterKeeps ==
  ASSUME Keeps, NEW e \in Events, NEW f \in Fds, NEW dirs \in Masks,
         NEW options \in Options, Register(e, f, dirs, options)
  PROVE  Keeps'
<1> USE DEF Register
<1>1. TableTypes /\ backend \in {"epoll", "poll", "select"}
  BY TypesOfTable
<1>2. dirs \in SUBSET Dirs /\ dirs \cup options \in SUBSET Flags
      /\ options \cap Dirs = {}
  BY EventAssumption DEF Flags, Dirs
<1>3. TableTypes'
  BY <1>1, <1>2, AddTypes
<1>4. TypeOK'
  <2>1. calls' \in 0 .. MaxCalls
    BY EventAssumption DEF Keeps, TypeOK, Counted
  <2>2. /\ fd' \in [Events -> Fds \cup {0}]
        /\ flags' \in [Events -> SUBSET Flags]
        /\ base' \in [Events -> BOOLEAN]
    BY <1>2 DEF Keeps, TypeOK
  <2> QED BY <1>3, <2>1, <2>2 DEF Keeps, TypeOK, TableTypes, loopVars
<1>5. Bounded'
  BY <1>3 DEF Keeps, TypeOK, Bounded, TableTypes, Busy, Holds, loopVars
<1>6. ASSUME ~crossed' PROVE Uncrossed'
  <2>1. ~crossed /\ Uncrossed
    BY <1>6 DEF Keeps
  <2>2. evlist[f] = NoEvent
    BY <2>1, UnusedIsEmpty
  <2>3. Fits(f)
    BY <2>1 DEF Uncrossed, DescriptorsFit
  <2> DEFINE Added ==
    /\ Apart(f)
    /\ asked'[f] = dirs
    /\ evlist'[f] \in {e, NoEvent}
    /\ asked'[f] # {} \/ f \in watched' \/ ptr'[f] # NoEvent => evlist'[f] = e
    /\ backend = "epoll" /\ evlist'[f] = e => ptr'[f] = e /\ f \in watched'
    /\ backend = "poll" /\ asked'[f] # {} => f \in watched'
    /\ backend # "epoll" => ptr'[f] = NoEvent
    /\ backend = "select" => f \notin watched'
    /\ backend = "poll" => seen'[f] = {}
  <2>4. Added
    BY <1>1, <1>2, <2>2, <2>3, AddFits
  <2>5. fd' = [fd EXCEPT ![e] = f] /\ base' = [base EXCEPT ![e] = TRUE]
        /\ flags'[e] \cap Dirs = dirs
        /\ (\A d \in Events : d # e => flags'[d] = flags[d])
    BY <1>2 DEF Keeps, TypeOK
  <2>6. backend' = backend /\ who' = who /\ gone' = gone /\ open' = open /\ other' = other
    BY DEF loopVars
  <2>7. e # NoEvent
    BY EventAssumption
  <2>8. DescriptorsFit'
    <3> SUFFICES ASSUME NEW g \in Fds PROVE Fits(g)'
      BY DEF DescriptorsFit
    <3>1. CASE g = f
      BY <2>4, <2>5, <2>6, <2>7, <3>1 DEF Fits, Keeps, TypeOK
    <3>2. CASE g # f
      <4>1. Fits(g)
        BY <2>1 DEF Uncrossed, DescriptorsFit
      <4>2. /\ evlist'[g] = evlist[g] /\ asked'[g] = asked[g] /\ ptr'[g] = ptr[g]
            /\ (g \in watched' <=> g \in watched)
            /\ seen'[g] = seen[g]
        BY <2>4, <3>2 DEF Apart
      <4>3. evlist[g] # NoEvent => evlist[g] \in Events /\ evlist[g] # e
        BY <4>1 DEF Fits, Keeps, TypeOK
      <4> QED BY <2>5, <2>6, <4>1, <4>2, <4>3 DEF Fits, Keeps, TypeOK
    <3> QED BY <3>1, <3>2
  <2>9. EventsFit'
    <3> SUFFICES ASSUME NEW d \in Events, base'[d]
                 PROVE  /\ fd'[d] \in open'
                        /\ \A c \in Events : base'[c] /\ fd'[c] = fd'[d] => c = d
                        /\ Unlocked(d)' => asked'[fd'[d]] = flags'[d] \cap Dirs
      BY DEF EventsFit
    <3>1. CASE d = e
      BY <2>4, <2>5, <2>6, <3>1 DEF Keeps, TypeOK
    <3>2. CASE d # e
      <4>1. base[d] /\ fd'[d] = fd[d] /\ fd[d] # f /\ fd[d] \in Fds
        BY <2>5, <3>2 DEF Keeps, TypeOK, Bounded
      <4>2. asked'[fd[d]] = asked[fd[d]]
        BY <2>4, <4>1 DEF Apart
      <4>3. Unlocked(d)' => Unlocked(d)
        BY <2>6 DEF Unlocked
      <4> QED BY <2>1, <2>5, <2>6, <3>2, <4>1, <4>2, <4>3
              DEF Uncrossed, EventsFit, Keeps, TypeOK
    <3> QED BY <3>1, <3>2
  <2>10. CallsFit'
    <3> SUFFICES ASSUME NEW t \in Others, Holds(t)'
                 PROVE  base'[other'[t].event]
                        /\ asked'[fd'[other'[t].event]] = other'[t].old \cap Dirs
      BY DEF CallsFit
    <3> DEFINE d == other[t].event
    <3>1. Holds(t) /\ other'[t] = other[t]
      BY <2>6 DEF Holds
    <3>2. base[d] /\ d \in Events /\ d # e /\ fd[d] \in Fds /\ fd[d] # f
          /\ asked[fd[d]] = other[t].old \cap Dirs
      BY <2>1, <3>1 DEF Uncrossed, CallsFit, Keeps, Bounded, Busy, Holds
    <3>3. asked'[fd[d]] = asked[fd[d]] /\ fd'[d] = fd[d] /\ base'[d]
      BY <2>4, <2>5, <3>2 DEF Apart, Keeps, TypeOK
    <3> QED BY <3>1, <3>2, <3>3
  <2> QED BY <2>8, <2>9, <2>10 DEF Uncrossed
<1> QED BY <1>4, <1>5, <1>6 DEF Keeps

(* An update of event e, which leaves its new flags in flags'[e] and the   *)
(* event unlocked; calls for other events go on as they were.               *)
LEMMA UpdateKeepsFit ==
  ASSUME Keeps, ~crossed, NEW e \in Events, base[e], NEW o,
         asked[fd[e]] = o \cap Dirs,
         Update(e, o, flags'[e]), flags' \in [Events -> SUBSET Flags],
         \A d \in Events : d # e => flags'[d] = flags[d],
         UNCHANGED <<backend, open, fd, who, gone>>,
         \A t \in Others : Holds(t)' =>
           Holds(t) /\ other'[t] = other[t] /\ other[t].event # e,
         \A t \in Others : Holds(t) /\ other[t].event # e => other'[t] = other[t]
  PROVE  Uncrossed'
<1> DEFINE f == fd[e]
<1>1. TableTypes /\ backend \in {"epoll", "poll", "select"}
  BY TypesOfTable
<1>2. Uncrossed /\ f \in Fds \cap open /\ base \in [Events -> BOOLEAN] /\ e # NoEvent
  BY EventAssumption DEF Keeps, TypeOK, Bounded, Uncrossed, EventsFit
<1>3. Fits(f)
  BY <1>2 DEF Uncrossed, DescriptorsFit
<1> DEFINE Updated ==
  /\ Apart(f)
  /\ asked'[f] = flags'[e] \cap Dirs
  /\ evlist'[f] = e
  /\ backend = "epoll" => ptr'[f] = e /\ f \in watched'
  /\ backend = "poll" => f \in watched' /\ seen'[f] = {}
  /\ backend # "epoll" => ptr'[f] = NoEvent
  /\ backend = "select" => f \notin watched'
  /\ base' = base
<1>4. Updated
  BY <1>1, <1>2, <1>3, UpdateFits
<1>5. DescriptorsFit'
  <2> SUFFICES ASSUME NEW g \in Fds PROVE Fits(g)'
    BY DEF DescriptorsFit
  <2>1. CASE g = f
    BY <1>2, <1>4, <2>1 DEF Fits
  <2>2. CASE g # f
    <3>1. Fits(g)
      BY <1>2 DEF Uncrossed, DescriptorsFit
    <3>2. /\ evlist'[g] = evlist[g] /\ asked'[g] = asked[g] /\ ptr'[g] = ptr[g]
          /\ (g \in watched' <=> g \in watched)
          /\ seen'[g] = seen[g]
      BY <1>4, <2>2 DEF Apart
    <3> QED BY <1>4, <3>1, <3>2 DEF Fits
  <2> QED BY <2>1, <2>2
<1>6. EventsFit'
  <2> SUFFICES ASSUME NEW d \in Events, base[d]
               PROVE  /\ fd[d] \in open
                      /\ \A c \in Events : base[c] /\ fd[c] = fd[d] => c = d
                      /\ Unlocked(d)' => asked'[fd[d]] = flags'[d] \cap Dirs
    BY <1>4 DEF EventsFit
  <2>1. fd[d] \in open /\ \A c \in Events : base[c] /\ fd[c] = fd[d] => c = d
    BY <1>2 DEF Uncrossed, EventsFit
  <2>2. CASE d = e
    BY <1>4, <2>1, <2>2
  <2>3. CASE d # e
    <3>1. fd[d] # f /\ fd[d] \in Fds
      BY <1>2, <2>3 DEF Keeps, Bounded, Uncrossed, EventsFit
    <3>2. asked'[fd[d]] = asked[fd[d]]
      BY <1>4, <3>1 DEF Apart
    <3>3. Unlocked(d)' => Unlocked(d)
      BY <2>3 DEF Unlocked, Holds
    <3> QED BY <1>2, <2>1, <2>3, <3>2, <3>3 DEF Uncrossed, EventsFit
  <2> QED BY <2>2, <2>3
<1>7. CallsFit'
  <2> SUFFICES ASSUME NEW t \in Others, Holds(t)'
               PROVE  base'[other'[t].event]
                      /\ asked'[fd'[other'[t].event]] = other'[t].old \cap Dirs
    BY DEF CallsFit
  <2> DEFINE d == other[t].event
  <2>1. Holds(t) /\ other'[t] = other[t] /\ d # e
    OBVIOUS
  <2>2. base[d] /\ d \in Events /\ fd[d] \in Fds
        /\ asked[fd[d]] = other[t].old \cap Dirs
    BY <1>2, <2>1 DEF Uncrossed, CallsFit, Keeps, Bounded, Busy, Holds
  <2>3. fd[d] # f
    BY <1>2, <2>1, <2>2 DEF Uncrossed, EventsFit
  <2>4. asked'[fd[d]] = asked[fd[d]]
    BY <1>4, <2>2, <2>3 DEF Apart
  <2> QED BY <1>4, <2>1, <2>2, <2>4
<1> QED BY <1>5, <1>6, <1>7 DEF Uncrossed

(* event_add and event_del in the thread of the loop.                     *)
LEMMA ChangeKeeps ==
  ASSUME Keeps, NEW e \in Events, NEW dirs \in Changes, NEW adds \in BOOLEAN,
         Change(e, dirs, adds)
  PROVE  Keeps'
<1> USE DEF Change
<1>1. TableTypes /\ backend \in {"epoll", "poll", "select"}
  BY TypesOfTable
<1>2. flags' \in [Events -> SUBSET Flags] /\ flags'[e] = Changed(e, dirs, adds)
      /\ (\A d \in Events : d # e => flags'[d] = flags[d])
  <2>1. dirs \in SUBSET Flags /\ flags \in [Events -> SUBSET Flags]
    BY EventAssumption DEF Keeps, TypeOK, Flags
  <2>2. Changed(e, dirs, adds) \in SUBSET Flags
    BY <2>1 DEF Changed
  <2> QED BY <2>1, <2>2
<1>3. flags[e] \in SUBSET Flags /\ fd[e] \in Fds /\ base \in [Events -> BOOLEAN]
  BY DEF Keeps, TypeOK, Bounded
<1>4. /\ TableTypes'
      /\ base' \in [Events -> BOOLEAN]
      /\ \A d \in Events : base'[d] => base[d] \/ d = e
  BY <1>1, <1>2, <1>3, UpdateTypes
<1>5. TypeOK'
  <2>1. calls' \in 0 .. MaxCalls
    BY EventAssumption DEF Keeps, TypeOK, Counted
  <2> QED BY <1>2, <1>4, <2>1 DEF Keeps, TypeOK, TableTypes, loopVars
<1>6. Bounded'
  BY <1>3, <1>4 DEF Keeps, TypeOK, Bounded, TableTypes, Busy, Holds, loopVars
<1>7. ASSUME ~crossed' PROVE Uncrossed'
  <2>1. ~crossed /\ EventsFit
    BY <1>7 DEF Keeps, Uncrossed
  <2>2. asked[fd[e]] = flags[e] \cap Dirs
    BY <2>1 DEF EventsFit
  <2>3. Update(e, flags[e], flags'[e])
    BY <1>2
  <2>4. UNCHANGED <<backend, open, fd, who, gone, other>>
    BY DEF loopVars
  <2>5. \A t \in Others : Holds(t) => other[t].event # e
    BY DEF Unlocked, Holds
  <2>6. \A t \in Others : Holds(t)' => Holds(t)
    BY <2>4 DEF Holds
  <2> QED BY <1>2, <2>1, <2>2, <2>3, <2>4, <2>5, <2>6, UpdateKeepsFit
<1> QED BY <1>5, <1>6, <1>7 DEF Keeps

(* event_add and event_del in another thread, with the mutex held.        *)
LEMMA FinishChangeKeeps ==
  ASSUME Keeps, NEW t \in Others, FinishChange(t)
  PROVE  Keeps'
<1> DEFINE e == other[t].event
<1> USE DEF FinishChange
<1>1. TableTypes /\ backend \in {"epoll", "poll", "select"}
  BY TypesOfTable
<1>2. Holds(t) /\ e \in Events /\ fd[e] \in Fds /\ other[t].old \in SUBSET Flags
      /\ flags \in [Events -> SUBSET Flags] /\ base \in [Events -> BOOLEAN]
  BY DEF Keeps, TypeOK, Bounded, Busy, Holds
<1>3. /\ TableTypes'
      /\ base' \in [Events -> BOOLEAN]
      /\ \A d \in Events : base'[d] => base[d] \/ d = e
  BY <1>1, <1>2, UpdateTypes
<1>4. /\ other' = [other EXCEPT ![t] = NoCall]
      /\ other'[t] = NoCall /\ \A u \in Others : u # t => other'[u] = other[u]
  BY DEF Keeps, TypeOK
<1>5. TypeOK'
  <2>1. other' \in [Others -> [step : {"none", "tested", "changed"},
                           event : Events \cup {NoEvent},
                           dirs : SUBSET Dirs, adds : BOOLEAN,
                           old : SUBSET Flags]]
    BY <1>4 DEF Keeps, TypeOK, NoCall
  <2> QED BY <1>3, <2>1 DEF Keeps, TypeOK, TableTypes, loopVars
<1>6. ~Busy(t)' /\ ~Holds(t)'
      /\ \A u \in Others : u # t => (Busy(u)' <=> Busy(u)) /\ (Holds(u)' <=> Holds(u))
  BY <1>4 DEF Busy, Holds, NoCall
<1>7. Bounded'
  <2>1. /\ \A u \in Others : Busy(u)' => other'[u].event \in Events /\ fd'[other'[u].event] \in Fds
        /\ \A u, v \in Others :
             Holds(u)' /\ Holds(v)' /\ other'[u].event = other'[v].event => u = v
    BY <1>4, <1>6 DEF Keeps, Bounded
  <2> QED BY <1>2, <1>3, <2>1 DEF Keeps, Bounded, TableTypes, loopVars
<1>8. ASSUME ~crossed' PROVE Uncrossed'
  <2>1. ~crossed /\ CallsFit
    BY <1>8 DEF Keeps, Uncrossed
  <2>2. base[e] /\ asked[fd[e]] = other[t].old \cap Dirs
    BY <1>2, <2>1 DEF CallsFit
  <2>3. Update(e, other[t].old, flags'[e]) /\ flags' = flags
    OBVIOUS
  <2>4. UNCHANGED <<backend, open, fd, who, gone>>
    BY DEF loopVars
  <2>5. \A u \in Others : Holds(u)' => Holds(u) /\ other'[u] = other[u] /\ other[u].event # e
    BY <1>2, <1>4, <1>6 DEF Keeps, Bounded
  <2>6. \A u \in Others : Holds(u) /\ other[u].event # e => other'[u] = other[u]
    BY <1>4
  <2> QED BY <1>2, <2>1, <2>2, <2>3, <2>4, <2>5, <2>6, UpdateKeepsFit
<1> QED BY <1>5, <1>7, <1>8 DEF Keeps

(* An event is destroyed, wherever the loop is.                            *)
LEMMA DestroyedKeeps ==
  ASSUME Keeps, NEW e \in Events, Destroyed(e),
         UNCHANGED <<backend, open, ready, who, other, calls>>,
         at' \in {"idle", "pass", "handler"}, at' = "idle" <=> at = "idle",
         cur' \in Events \cup {NoEvent}, at' = "handler" => cur' \in Events,
         todo' \subseteq Fds, stale' \in {"no", "same", "other"}
  PROVE  Keeps'
<1> USE DEF Destroyed
<1>1. TableTypes /\ backend \in {"epoll", "poll", "select"}
  BY TypesOfTable
<1>2. /\ flags' \in [Events -> SUBSET Flags] /\ base' \in [Events -> BOOLEAN]
      /\ ~base'[e]
      /\ \A d \in Events : d # e => flags'[d] = flags[d] /\ base'[d] = base[d]
      /\ fd' = fd /\ crossed' \in BOOLEAN
  BY DEF Keeps, TypeOK
<1>3. TableTypes'
  <2>1. CASE base[e] /\ Del(fd[e])
    BY <1>1, <2>1, DelTypes DEF Keeps, Bounded
  <2>2. CASE UNCHANGED <<tableVars, seen>>
    BY <1>1, <2>2 DEF TableTypes, tableVars
  <2> QED BY <2>1, <2>2
<1>4. gone' \subseteq gone \cup {e} /\ (at = "idle" => gone' = gone)
  OBVIOUS
<1>5. TypeOK'
  BY <1>2, <1>3, <1>4 DEF Keeps, TypeOK, TableTypes
<1>6. Bounded'
  BY <1>2, <1>3, <1>4 DEF Keeps, TypeOK, Bounded, TableTypes, Busy, Holds
<1>7. ASSUME ~crossed' PROVE Uncrossed'
  <2>1. ~crossed /\ Uncrossed /\ Unlocked(e)
    BY <1>7 DEF Keeps
  <2>2. CASE base[e]
    <3> DEFINE f == fd[e]
    <3>1. Del(f) /\ f \in Fds
      BY <2>2 DEF Keeps, Bounded
    <3>2. Fits(f)
      BY <2>1, <3>1 DEF Uncrossed, DescriptorsFit
    <3> DEFINE Deleted ==
      /\ Apart(f)
      /\ evlist'[f] = NoEvent /\ asked'[f] = {} /\ f \notin watched'
      /\ ptr'[f] = NoEvent
      /\ backend = "poll" => seen'[f] = {}
    <3>3. Deleted
      BY <1>1, <3>1, <3>2, DelFits
    <3>4. DescriptorsFit'
      <4> SUFFICES ASSUME NEW g \in Fds PROVE Fits(g)'
        BY DEF DescriptorsFit
      <4>1. CASE g = f
        BY <3>3, <4>1 DEF Fits
      <4>2. CASE g # f
        <5>1. Fits(g)
          BY <2>1 DEF Uncrossed, DescriptorsFit
        <5>2. /\ evlist'[g] = evlist[g] /\ asked'[g] = asked[g] /\ ptr'[g] = ptr[g]
              /\ (g \in watched' <=> g \in watched)
              /\ seen'[g] = seen[g]
          BY <3>3, <4>2 DEF Apart
        <5>3. evlist[g] # NoEvent => evlist[g] \in Events /\ evlist[g] # e
          BY <4>2, <5>1 DEF Fits, Keeps, TypeOK
        <5> QED BY <1>2, <1>4, <5>1, <5>2, <5>3 DEF Fits
      <4> QED BY <4>1, <4>2
    <3>5. ASSUME NEW d \in Events, base[d], d # e
          PROVE  asked'[fd[d]] = asked[fd[d]]
      <4>1. fd[d] \in Fds /\ fd[d] # f
        BY <2>1, <2>2, <3>5 DEF Keeps, Bounded, Uncrossed, EventsFit
      <4> QED BY <3>3, <4>1 DEF Apart
    <3>6. EventsFit'
      <4> SUFFICES ASSUME NEW d \in Events, base'[d]
                   PROVE  /\ fd[d] \in open
                          /\ \A c \in Events : base'[c] /\ fd[c] = fd[d] => c = d
                          /\ Unlocked(d)' => asked'[fd[d]] = flags'[d] \cap Dirs
        BY <1>2 DEF EventsFit
      <4>1. base[d] /\ d # e /\ flags'[d] = flags[d]
        BY <1>2
      <4>2. asked'[fd[d]] = asked[fd[d]]
        BY <3>5, <4>1
      <4>3. Unlocked(d)' <=> Unlocked(d)
        BY DEF Unlocked
      <4> QED BY <1>2, <2>1, <4>1, <4>2, <4>3 DEF Uncrossed, EventsFit
    <3>7. CallsFit'
      <4> SUFFICES ASSUME NEW t \in Others, Holds(t)
                   PROVE  base'[other[t].event]
                          /\ asked'[fd[other[t].event]] = other[t].old \cap Dirs
        BY <1>2 DEF CallsFit, Holds
      <4>1. other[t].event \in Events /\ other[t].event # e /\ base[other[t].event]
            /\ asked[fd[other[t].event]] = other[t].old \cap Dirs
        BY <2>1 DEF Uncrossed, CallsFit, Keeps, Bounded, Busy, Holds, Unlocked
      <4> QED BY <1>2, <3>5, <4>1
    <3> QED BY <3>4, <3>6, <3>7 DEF Uncrossed
  <2>3. CASE ~base[e]
    <3>1. base' = base /\ UNCHANGED <<tableVars, seen>>
      <4>1. [base EXCEPT ![e] = FALSE] = base
        BY <2>3 DEF Keeps, TypeOK
      <4> QED BY <2>3, <4>1
    <3>2. DescriptorsFit'
      <4> SUFFICES ASSUME NEW g \in Fds PROVE Fits(g)'
        BY DEF DescriptorsFit
      <4>1. Fits(g) /\ (evlist[g] # NoEvent => evlist[g] # e)
        BY <2>1, <2>3 DEF Uncrossed, DescriptorsFit, Fits
      <4> QED BY <1>2, <1>4, <3>1, <4>1 DEF Fits, tableVars
    <3>3. EventsFit'
      BY <1>2, <2>1, <2>3, <3>1 DEF Uncrossed, EventsFit, tableVars, Unlocked
    <3>4. CallsFit'
      BY <1>2, <2>1, <3>1 DEF Uncrossed, CallsFit, tableVars, Holds
    <3> QED BY <3>2, <3>3, <3>4 DEF Uncrossed
  <2> QED BY <2>2, <2>3
<1> QED BY <1>5, <1>6, <1>7 DEF Keeps

(* Another thread tests ev_base.                                           *)
LEMMA BeginChangeKeeps ==
  ASSUME Keeps, NEW t \in Others, NEW e \in Events, NEW dirs \in Changes,
         NEW adds \in BOOLEAN, BeginChange(t, e, dirs, adds)
  PROVE  Keeps'
<1> USE DEF BeginChange
<1>1. /\ other'[t] = [step |-> "tested", event |-> e, dirs |-> dirs, adds |-> adds,
                      old |-> {}]
      /\ \A u \in Others : u # t => other'[u] = other[u]
      /\ ~Holds(t)
  BY DEF Keeps, TypeOK, Holds, NoCall
<1>2. TypeOK'
  <2>1. calls' \in 0 .. MaxCalls
    BY EventAssumption DEF Keeps, TypeOK, Counted
  <2>2. dirs \in SUBSET Dirs
    BY EventAssumption
  <2>3. other' \in [Others -> [step : {"none", "tested", "changed"},
                           event : Events \cup {NoEvent},
                           dirs : SUBSET Dirs, adds : BOOLEAN,
                           old : SUBSET Flags]]
    BY <2>2 DEF Keeps, TypeOK
  <2> QED BY <2>1, <2>3 DEF Keeps, TypeOK, eventVars, tableVars, loopVars
<1>3. \A u \in Others : (Holds(u)' <=> Holds(u)) /\ (Holds(u) => other'[u] = other[u])
  BY <1>1 DEF Holds
<1>4. Bounded'
  <2>1. \A u \in Others : Busy(u)' => other'[u].event \in Events /\ fd[other'[u].event] \in Fds
    BY <1>1 DEF Keeps, Bounded, Busy
  <2>2. \A u, v \in Others :
          Holds(u)' /\ Holds(v)' /\ other'[u].event = other'[v].event => u = v
    BY <1>3 DEF Keeps, Bounded
  <2> QED BY <2>1, <2>2 DEF Keeps, Bounded, eventVars, tableVars, loopVars
<1>5. ASSUME ~crossed' PROVE Uncrossed'
  <2>1. DescriptorsFit'
    BY <1>5 DEF Keeps, Uncrossed, DescriptorsFit, Fits, eventVars, tableVars, loopVars
  <2>2. \A d \in Events : Unlocked(d)' => Unlocked(d)
    BY <1>3 DEF Unlocked, Holds
  <2>3. EventsFit'
    BY <1>5, <2>2 DEF Keeps, Uncrossed, EventsFit, eventVars, tableVars
  <2>4. CallsFit'
    BY <1>3, <1>5 DEF Keeps, Uncrossed, CallsFit, eventVars, tableVars
  <2> QED BY <2>1, <2>3, <2>4 DEF Uncrossed
<1> QED BY <1>2, <1>4, <1>5 DEF Keeps

(* It changes the flags, with the mutex of the event.                      *)
LEMMA ChangeFlagsKeeps ==
  ASSUME Keeps, NEW t \in Others, ChangeFlags(t)
  PROVE  Keeps'
<1> DEFINE e == other[t].event
<1> USE DEF ChangeFlags
<1>1. e \in Events /\ fd[e] \in Fds /\ ~Holds(t) /\ Unlocked(e)
      /\ other[t].dirs \in SUBSET Dirs /\ other[t].adds \in BOOLEAN
      /\ flags \in [Events -> SUBSET Flags] /\ flags[e] \in SUBSET Flags
  BY DEF Keeps, TypeOK, Bounded, Busy, Holds
<1>2. Changed(e, other[t].dirs, other[t].adds) \in SUBSET Flags
  BY <1>1 DEF Changed, Flags
<1>3. /\ flags' \in [Events -> SUBSET Flags]
      /\ \A d \in Events : d # e => flags'[d] = flags[d]
  BY <1>1, <1>2
<1>4. /\ other'[t] = IF base[e] THEN [other[t] EXCEPT !.step = "changed", !.old = flags[e]]
                     ELSE NoCall
      /\ \A u \in Others : u # t => other'[u] = other[u]
  BY DEF Keeps, TypeOK
<1>5. TypeOK'
  <2>1. other' \in [Others -> [step : {"none", "tested", "changed"},
                           event : Events \cup {NoEvent},
                           dirs : SUBSET Dirs, adds : BOOLEAN,
                           old : SUBSET Flags]]
    <3> DEFINE Calls == [step : {"none", "tested", "changed"},
                         event : Events \cup {NoEvent},
                         dirs : SUBSET Dirs, adds : BOOLEAN,
                         old : SUBSET Flags]
    <3>1. other \in [Others -> Calls] /\ NoCall \in Calls
      BY DEF Keeps, TypeOK, NoCall
    <3>2. [other[t] EXCEPT !.step = "changed", !.old = flags[e]] \in Calls
      BY <1>1, <3>1
    <3>3. other' = [other EXCEPT ![t] =
                     IF base[e] THEN [other[t] EXCEPT !.step = "changed", !.old = flags[e]]
                                ELSE NoCall]
      OBVIOUS
    <3> HIDE DEF Calls
    <3>4. other' \in [Others -> Calls]
      BY <3>1, <3>2, <3>3
    <3> QED BY <3>4 DEF Calls
  <2> QED BY <1>3, <2>1 DEF Keeps, TypeOK, tableVars, loopVars
<1>6. /\ Holds(t)' => base[e] /\ other'[t].event = e /\ other'[t].old = flags[e]
      /\ Busy(t)' => other'[t].event = e
      /\ \A u \in Others : u # t =>
           (Busy(u)' <=> Busy(u)) /\ (Holds(u)' <=> Holds(u)) /\ (Holds(u) => other[u].event # e)
  <2>1. CASE base[e]
    <3>1. other'[t] = [other[t] EXCEPT !.step = "changed", !.old = flags[e]]
      BY <1>4, <2>1
    <3>2. other'[t].event = e /\ other'[t].old = flags[e]
      BY <3>1 DEF Keeps, TypeOK
    <3> QED BY <1>1, <1>4, <2>1, <3>2 DEF Busy, Holds, Unlocked
  <2>2. CASE ~base[e]
    BY <1>1, <1>4, <2>2 DEF Busy, Holds, Unlocked, NoCall
  <2> QED BY <2>1, <2>2
<1>7. Bounded'
  <2>1. \A u \in Others : Busy(u)' => other'[u].event \in Events /\ fd[other'[u].event] \in Fds
    BY <1>1, <1>4, <1>6 DEF Keeps, Bounded
  <2>2. \A u, v \in Others :
          Holds(u)' /\ Holds(v)' /\ other'[u].event = other'[v].event => u = v
    BY <1>4, <1>6 DEF Keeps, Bounded
  <2> QED BY <2>1, <2>2 DEF Keeps, Bounded, tableVars, loopVars
<1>8. ASSUME ~crossed' PROVE Uncrossed'
  <2>1. Uncrossed
    BY <1>8 DEF Keeps
  <2>2. DescriptorsFit'
    BY <2>1 DEF Uncrossed, DescriptorsFit, Fits, tableVars, loopVars
  <2>3. \A d \in Events : d # e /\ Unlocked(d)' => Unlocked(d)
    BY <1>1, <1>4 DEF Unlocked, Holds
  <2>4. base[e] => ~Unlocked(e)'
    <3> SUFFICES ASSUME base[e] PROVE other'[t].step = "changed" /\ other'[t].event = e
      BY DEF Unlocked
    <3> QED BY <1>4 DEF Keeps, TypeOK
  <2>5. EventsFit'
    BY <1>3, <2>1, <2>3, <2>4 DEF Uncrossed, EventsFit, tableVars
  <2>6. CallsFit'
    <3> SUFFICES ASSUME NEW u \in Others, Holds(u)'
                 PROVE  base[other'[u].event]
                        /\ asked[fd[other'[u].event]] = other'[u].old \cap Dirs
      BY DEF CallsFit, tableVars
    <3>1. CASE u = t
      BY <1>1, <1>6, <2>1, <3>1 DEF Uncrossed, EventsFit
    <3>2. CASE u # t
      BY <1>4, <1>6, <2>1, <3>2 DEF Uncrossed, CallsFit
    <3> QED BY <3>1, <3>2
  <2> QED BY <2>2, <2>5, <2>6 DEF Uncrossed
<1> QED BY <1>5, <1>7, <1>8 DEF Keeps

(* Steps that touch neither events nor the table nor the readings.         *)
LEMMA QuietKeeps ==
  ASSUME Keeps,
         UNCHANGED <<backend, open, eventVars, tableVars, seen, who, gone, other,
                     crossed, calls>>,
         ready' \in [Fds -> Readings],
         at' \in {"idle", "pass", "handler"}, at' = "idle" <=> at = "idle",
         cur' \in Events \cup {NoEvent}, at' = "handler" => cur' \in Events,
         todo' \subseteq Fds, stale' \in {"no", "same", "other"}
  PROVE  Keeps'
<1>1. TypeOK'
  BY DEF Keeps, TypeOK, eventVars, tableVars
<1>2. Bounded'
  BY DEF Keeps, Bounded, Busy, Holds, eventVars, tableVars
<1>3. Uncrossed => Uncrossed'
  BY DEF Uncrossed, DescriptorsFit, Fits, EventsFit, CallsFit, Holds, Unlocked,
         eventVars, tableVars
<1> QED BY <1>1, <1>2, <1>3 DEF Keeps

(* A descriptor is opened.                                                 *)
LEMMA OpenKeeps ==
  ASSUME Keeps, NEW f \in Fds, Open(f)
  PROVE  Keeps'
<1>1. TypeOK'
  BY EventAssumption DEF Open, Keeps, TypeOK, eventVars, tableVars, loopVars
<1>2. Bounded'
  BY DEF Open, Keeps, Bounded, Busy, Holds, eventVars, tableVars, loopVars
<1>3. Uncrossed => Uncrossed'
  BY DEF Open, Uncrossed, DescriptorsFit, Fits, EventsFit, CallsFit, Holds, Unlocked,
         eventVars, tableVars, loopVars
<1> QED BY <1>1, <1>2, <1>3 DEF Keeps, Open

(* A descriptor without an event is closed.                                *)
LEMMA CloseKeeps ==
  ASSUME Keeps, NEW f \in Fds, Close(f)
  PROVE  Keeps'
<1> USE DEF Close
<1>1. /\ asked' \in [Fds -> SUBSET Dirs] /\ watched' \subseteq Fds
      /\ ptr' \in [Fds -> Events \cup {NoEvent}]
      /\ \A g \in Fds : g # f =>
           asked'[g] = asked[g] /\ ptr'[g] = ptr[g] /\ (g \in watched' <=> g \in watched)
  BY DEF Keeps, TypeOK
<1>2. TypeOK'
  BY <1>1, EventAssumption DEF Keeps, TypeOK, eventVars, loopVars
<1>3. Bounded'
  BY DEF Keeps, Bounded, Busy, Holds, eventVars, loopVars
<1>4. ASSUME ~crossed' PROVE Uncrossed'
  <2>1. ~crossed /\ Uncrossed /\ evlist[f] = NoEvent
    BY <1>4, UnusedIsEmpty DEF Keeps
  <2>2. asked[f] = {} /\ f \notin watched /\ ptr[f] = NoEvent
    BY <2>1 DEF Uncrossed, DescriptorsFit, Fits
  <2>3. asked'[f] = {} /\ f \notin watched' /\ ptr'[f] = NoEvent
    BY <2>2 DEF Keeps, TypeOK
  <2>4. asked' = asked /\ ptr' = ptr /\ \A g \in Fds : g \in watched' <=> g \in watched
    <3>1. \A g \in Fds : asked'[g] = asked[g] /\ ptr'[g] = ptr[g]
      BY <1>1, <2>2, <2>3
    <3>2. asked' = asked /\ ptr' = ptr
      BY <1>1, <3>1 DEF Keeps, TypeOK
    <3> QED BY <1>1, <2>2, <2>3, <3>2
  <2>5. DescriptorsFit'
    BY <2>1, <2>4 DEF Uncrossed, DescriptorsFit, Fits, eventVars, loopVars
  <2>6. EventsFit'
    BY <2>1, <2>4 DEF Uncrossed, EventsFit, Unlocked, eventVars
  <2>7. CallsFit'
    BY <2>1, <2>4 DEF Uncrossed, CallsFit, Holds, eventVars
  <2> QED BY <2>5, <2>6, <2>7 DEF Uncrossed
<1> QED BY <1>2, <1>3, <1>4 DEF Keeps

(* The kernel answers: with poll, about descriptors that are watched.      *)
LEMMA WaitKeeps ==
  ASSUME Keeps, Wait
  PROVE  Keeps'
<1> USE DEF Wait
<1>1. ASSUME NEW f \in Fds
      PROVE  /\ Reading(f) \in SUBSET (Dirs \cup {"hup"})
             /\ backend = "poll" /\ Reading(f) # {} => f \in watched
  <2>1. backend \in {"epoll", "poll", "select"}
    BY TypesOfTable
  <2>2. asked[f] \in SUBSET Dirs /\ ready[f] \in SUBSET (Dirs \cup {"hup"})
    BY EventAssumption DEF Keeps, TypeOK
  <2>3. EpollReading(f) \in SUBSET (Dirs \cup {"hup"})
        /\ (EpollReading(f) # {} => f \in watched)
    BY <2>2 DEF EpollReading
  <2>4. PollReading(f) \in SUBSET (Dirs \cup {"hup"})
        /\ (PollReading(f) # {} => f \in watched)
    BY <2>3 DEF PollReading
  <2>5. SelectReading(f) \in SUBSET (Dirs \cup {"hup"})
    BY <2>2 DEF SelectReading
  <2> QED BY <2>1, <2>3, <2>4, <2>5 DEF Reading
<1>2. TypeOK'
  <2>1. seen' \in [Fds -> SUBSET (Dirs \cup {"hup"})]
    BY <1>1
  <2>2. todo' \subseteq Fds /\ who' \in [Fds -> Events \cup {NoEvent}]
    BY DEF Keeps, TypeOK
  <2> QED BY <2>1, <2>2 DEF Keeps, TypeOK, eventVars, tableVars
<1>3. Bounded'
  BY DEF Keeps, Bounded, Busy, Holds, eventVars, tableVars
<1>4. ASSUME ~crossed' PROVE Uncrossed'
  <2>1. Uncrossed /\ gone' = {}
    BY <1>4 DEF Keeps, Bounded
  <2>2. DescriptorsFit'
    <3> SUFFICES ASSUME NEW f \in Fds PROVE Fits(f)'
      BY DEF DescriptorsFit
    <3>1. Fits(f)
      BY <2>1 DEF Uncrossed, DescriptorsFit
    <3>2. seen'[f] = Reading(f) /\ (backend = "poll" => who' = evlist)
      OBVIOUS
    <3> QED BY <1>1, <2>1, <3>1, <3>2 DEF Fits, eventVars, tableVars
  <2>3. EventsFit' /\ CallsFit'
    BY <2>1 DEF Uncrossed, EventsFit, CallsFit, Holds, Unlocked, eventVars, tableVars
  <2> QED BY <2>2, <2>3 DEF Uncrossed
<1> QED BY <1>2, <1>3, <1>4 DEF Keeps

(* Readings are forgotten at the end of a pass.                            *)
LEMMA EndPassKeeps ==
  ASSUME Keeps, EndPass
  PROVE  Keeps'
<1>1. TypeOK'
  BY DEF EndPass, Keeps, TypeOK, eventVars, tableVars
<1>2. Bounded'
  BY DEF EndPass, Keeps, Bounded, Busy, Holds, eventVars, tableVars
<1>3. Uncrossed => Uncrossed'
  BY DEF EndPass, Uncrossed, DescriptorsFit, Fits, EventsFit, CallsFit, Holds, Unlocked,
         eventVars, tableVars
<1> QED BY <1>1, <1>2, <1>3 DEF Keeps, EndPass

(* Who is called is an event.                                             *)
LEMMA CalledIsEvent ==
  ASSUME Keeps, NEW f \in Fds, Called(f) # NoEvent
  PROVE  Called(f) \in Events
BY DEF Keeps, TypeOK, Called, Current, Listed

(* The pass looks at a descriptor, and may call a handler.                 *)
LEMMA LookKeeps ==
  ASSUME Keeps, NEW f \in Fds, Look(f)
  PROVE  Keeps'
<1> DEFINE e == Called(f)
<1>1. at = "pass" /\ todo' \subseteq Fds
      /\ UNCHANGED <<backend, open, ready, who, other, calls>>
  BY DEF Look, Keeps, TypeOK
<1>2. CASE e # NoEvent /\ Activate(e, f)
  <2>1. e \in Events
    BY <1>2, CalledIsEvent
  <2>2. CASE base[e] /\ flags[e] # {} /\ at' = "handler" /\ cur' = e
             /\ stale' = (CASE stale = "other" \/ who[f] # e -> "other"
                            [] e \in gone -> "same"
                            [] OTHER -> stale)
             /\ UNCHANGED <<eventVars, tableVars, seen, gone, crossed>>
    <3>1. stale' \in {"no", "same", "other"}
      BY <2>2 DEF Keeps, TypeOK
    <3> QED BY <1>1, <2>1, <2>2, <3>1, QuietKeeps DEF Keeps, TypeOK
  <2>3. CASE Destroyed(e) /\ UNCHANGED <<at, cur, stale>>
    BY <1>1, <2>1, <2>3, DestroyedKeeps DEF Keeps, TypeOK
  <2>4. CASE UNCHANGED <<at, cur, stale, eventVars, tableVars, seen, gone, crossed>>
    BY <1>1, <2>4, QuietKeeps DEF Keeps, TypeOK
  <2> QED BY <1>2, <2>2, <2>3, <2>4 DEF Activate
<1>3. CASE e = NoEvent /\ Skip
  BY <1>1, <1>3, QuietKeeps DEF Skip, Keeps, TypeOK
<1> QED BY <1>2, <1>3 DEF Look

(* A handler returns.                                                      *)
LEMMA ReturnKeeps ==
  ASSUME Keeps, Return
  PROVE  Keeps'
<1>1. cur \in Events /\ at' = "pass" /\ cur' = NoEvent /\ at = "handler"
      /\ UNCHANGED <<backend, open, ready, todo, who, stale, other, calls>>
  BY DEF Return, Keeps, Bounded
<1>2. CASE Destroyed(cur)
  BY <1>1, <1>2, DestroyedKeeps DEF Keeps, TypeOK
<1>3. CASE UNCHANGED <<eventVars, tableVars, seen, gone, crossed>>
  BY <1>1, <1>3, QuietKeeps DEF Keeps, TypeOK
<1> QED BY <1>2, <1>3 DEF Return

(* An empty base fits.                                                    *)
LEMMA InitKeeps == Init => Keeps
<1> SUFFICES ASSUME Init PROVE Keeps
  OBVIOUS
<1>1. TypeOK
  <2>1. {} \in Readings /\ 0 \in 0 .. MaxCalls
    BY EventAssumption
  <2>2. crossed \in BOOLEAN
    BY Zenon DEF Init
  <2>3. other \in [Others -> [step : {"none", "tested", "changed"},
                             event : Events \cup {NoEvent},
                             dirs : SUBSET Dirs, adds : BOOLEAN,
                             old : SUBSET Flags]]
    BY DEF Init, NoCall
  <2> QED BY <2>1, <2>2, <2>3 DEF Init, TypeOK
<1>2. Bounded /\ Uncrossed
  BY EventAssumption
     DEF Init, Bounded, Uncrossed, DescriptorsFit, Fits, EventsFit, CallsFit, Busy,
         Holds, NoCall
<1> QED BY <1>1, <1>2 DEF Keeps

(* Every step keeps the invariant.                                        *)
LEMMA NextKeeps ==
  ASSUME Keeps, [Next]_vars
  PROVE  Keeps'
<1>1. ASSUME NEW f \in Fds, NEW r \in Readings, Happen(f, r)  PROVE Keeps'
  <2>1. ready' \in [Fds -> Readings]
    BY <1>1 DEF Happen, Keeps, TypeOK
  <2> QED BY <1>1, <2>1, QuietKeeps DEF Happen, loopVars, Keeps, TypeOK, Bounded
<1>2. ASSUME NEW f \in Fds, Open(f) \/ Close(f)  PROVE Keeps'
  BY <1>2, OpenKeeps, CloseKeeps
<1>3. ASSUME NEW e \in Events, NEW f \in Fds, NEW dirs \in Masks, NEW options \in Options,
             Register(e, f, dirs, options)
      PROVE  Keeps'
  BY <1>3, RegisterKeeps
<1>4. ASSUME NEW e \in Events, NEW dirs \in Changes, NEW adds \in BOOLEAN,
             Change(e, dirs, adds)
      PROVE  Keeps'
  BY <1>4, ChangeKeeps
<1>5. ASSUME NEW e \in Events, Destroy(e)  PROVE Keeps'
  BY <1>5, DestroyedKeeps DEF Destroy, Keeps, TypeOK, Bounded
<1>6. ASSUME NEW t \in Others, Other(t)  PROVE Keeps'
  BY <1>6, BeginChangeKeeps, ChangeFlagsKeeps, FinishChangeKeeps DEF Other
<1>7. ASSUME Loop  PROVE Keeps'
  BY <1>7, WaitKeeps, LookKeeps, ReturnKeeps, EndPassKeeps DEF Loop
<1>8. ASSUME UNCHANGED vars  PROVE Keeps'
  BY <1>8, QuietKeeps DEF vars, loopVars, Keeps, TypeOK, Bounded
<1> QED BY <1>1, <1>2, <1>3, <1>4, <1>5, <1>6, <1>7, <1>8 DEF Next, World, Owner

(* What is crossed stays so.                                              *)
LEMMA DestroyedCrosses == ASSUME NEW e, Destroyed(e) PROVE crossed => crossed'
BY Zenon DEF Destroyed

(* Whom the loop calls: epoll the event of the reading, poll the one that  *)
(* is in evlist, of which Fits says that the revents are about it.         *)
LEMMA LookIsCurrent ==
  ASSUME Keeps, CallsAreCurrent, NEW f \in Fds, Look(f)
  PROVE  CallsAreCurrent'
<1> DEFINE e == Called(f)
<1>1. backend' = backend /\ backend \in {"epoll", "poll", "select"}
      /\ (crossed => crossed')
  <2>1. CASE Destroyed(e)
    BY <2>1, TypesOfTable, DestroyedCrosses DEF Look
  <2>2. CASE crossed' = crossed
    BY <2>2, TypesOfTable DEF Look
  <2> QED BY <2>1, <2>2 DEF Look, Activate, Skip
<1>2. CASE stale' = stale
  BY <1>1, <1>2 DEF CallsAreCurrent
<1>3. CASE /\ e # NoEvent
           /\ stale' = (CASE stale = "other" \/ who[f] # e -> "other"
                          [] e \in gone -> "same"
                          [] OTHER -> stale)
  <2> SUFFICES ASSUME ~crossed'
               PROVE  /\ stale' = "other" => backend = "select"
                      /\ stale' = "same" => backend # "poll"
    BY <1>1 DEF CallsAreCurrent
  <2>1. ~crossed /\ Fits(f)
    BY <1>1 DEF Keeps, Uncrossed, DescriptorsFit
  <2>2. backend = "epoll" => who[f] = e
    BY <1>3 DEF Called, Current
  <2>3. backend = "poll" => e = evlist[f] /\ seen[f] # {}
    BY <1>3 DEF Called, Listed, Told
  <2>4. backend = "poll" => who[f] = e /\ e \notin gone
    BY <2>1, <2>3 DEF Fits
  <2> QED BY <1>1, <1>3, <2>1, <2>2, <2>4 DEF CallsAreCurrent
<1> QED BY <1>2, <1>3 DEF Look, Activate, Skip

(* Only the look at a descriptor calls a handler.                         *)
LEMMA NextIsCurrent ==
  ASSUME Keeps, CallsAreCurrent, [Next]_vars
  PROVE  CallsAreCurrent'
<1>1. CASE \E f \in Fds : Look(f)
  BY <1>1, LookIsCurrent
<1>2. CASE UNCHANGED <<stale, backend>> /\ (crossed => crossed')
  BY <1>2 DEF CallsAreCurrent
<1>3. World \/ Wait \/ EndPass \/ UNCHANGED vars \/ (\E t \in Others : Other(t))
      => UNCHANGED <<stale, backend, crossed>>
  BY DEF World, Happen, Open, Close, Other, BeginChange, ChangeFlags, FinishChange,
         Wait, EndPass, vars, loopVars
<1>4. ASSUME NEW e \in Events, Destroy(e)
      PROVE  UNCHANGED <<stale, backend>> /\ (crossed => crossed')
  BY <1>4, DestroyedCrosses DEF Destroy
<1>5. Owner => UNCHANGED <<stale, backend>> /\ (crossed => crossed')
  BY <1>4 DEF Owner, Register, Change, loopVars
<1>6. Return => UNCHANGED <<stale, backend>> /\ (crossed => crossed')
  BY DestroyedCrosses DEF Return
<1> QED BY <1>1, <1>2, <1>3, <1>5, <1>6 DEF Next, Loop

(* Interest, evlist and maxfd follow from how descriptors and events fit.  *)
LEMMA KeepsIsCoherent == Keeps => Coherent
<1> SUFFICES ASSUME Keeps PROVE Coherent
  OBVIOUS
<1>1. TypeOK
  BY DEF Keeps
<1>2. ASSUME ~crossed, NEW e \in Events, Settled(e)
      PROVE  /\ asked[fd[e]] = flags[e] \cap Dirs
             /\ asked[fd[e]] # {} => evlist[fd[e]] = e /\ fd[e] <= maxfd
             /\ backend = "epoll" /\ asked[fd[e]] # {} => ptr[fd[e]] = e
             /\ backend # "select" /\ asked[fd[e]] # {} => fd[e] \in watched
  <2>1. base[e] /\ fd[e] \in Fds /\ Fits(fd[e]) /\ asked[fd[e]] = flags[e] \cap Dirs
    BY <1>2 DEF Settled, Keeps, Bounded, Uncrossed, DescriptorsFit, EventsFit
  <2>2. asked[fd[e]] # {} => evlist[fd[e]] = e
    BY <1>2, <2>1 DEF Fits, Keeps, TypeOK, Uncrossed, EventsFit
  <2>3. backend \in {"epoll", "poll", "select"} /\ e # NoEvent
    BY EventAssumption, TypesOfTable
  <2> QED BY <2>1, <2>2, <2>3 DEF Fits, Keeps, Bounded
<1>3. ASSUME ~crossed, NEW f \in Fds, asked[f] # {}
      PROVE  \E e \in Events : base[e] /\ fd[e] = f
  BY <1>3 DEF Keeps, TypeOK, Uncrossed, DescriptorsFit, Fits
<1> QED BY <1>1, <1>2, <1>3 DEF Coherent, InterestIsFlags

(* The inductive invariant, with whom the loop has called.                *)
LEMMA AlwaysKeeps == Spec => [](Keeps /\ CallsAreCurrent)
<1>1. Init => Keeps /\ CallsAreCurrent
  BY InitKeeps DEF Init, CallsAreCurrent
<1>2. Keeps /\ CallsAreCurrent /\ [Next]_vars => (Keeps /\ CallsAreCurrent)'
  BY NextKeeps, NextIsCurrent
<1> QED BY <1>1, <1>2, PTL DEF Spec

(* What the back ends ask the kernel for is what the flags of the          *)
(* registered events say, evlist and maxfd show all of them, in every      *)
(* back end and for any number of events, descriptors and threads, as long *)
(* as event_add does not meet event_destroy.                               *)
THEOREM InterestFollowsFlags == Spec => []Coherent
BY AlwaysKeeps, KeepsIsCoherent, PTL

(* Whatever handlers destroy and register in the middle of a pass, epoll   *)
(* and poll do not give the reading of one event to another one, and poll  *)
(* not even to a later registration of the same.                           *)
THEOREM ReadingsFindTheirEvent == Spec => []CallsAreCurrent
BY AlwaysKeeps, PTL
=============================================================================
