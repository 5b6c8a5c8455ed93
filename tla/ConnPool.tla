------------------------------- MODULE ConnPool -------------------------------
(***************************************************************************)
(* The connections a client service keeps ready (service.c): the groups    *)
(* and the pool.  The heartbeat creates connections until a count reaches  *)
(* a limit; service_pushconn offers a new connection in an array           *)
(* conns_free; service_getconn takes it out, conn_over_session gives it    *)
(* back through service_freeconn, and service_popconn withdraws it when it *)
(* is removed.  Group 0 stands for the pool, whose array, counter, total   *)
(* and limit are fields of the service itself (nconnections, conns_limit). *)
(*                                                                         *)
(* Everything but the counting of the heartbeat happens under              *)
(* service->mutex.  nconnected is left out: it only makes the heartbeat    *)
(* wait for its next turn before it creates more connections of a group.   *)
(***************************************************************************)
EXTENDS ConnTable, Sequences

CONSTANTS
  Groups,      (* groups that were added, numbers from 1                   *)
  GroupMax,    (* SB_GROUP_CONN_MAX, length of conns_free of a group       *)
  GroupLimit,  (* limit of a group                                         *)
  ConnsLimit,  (* conns_limit, length of conns_free that the pool uses     *)
  OwnConns,    (* does the application call newconn besides the heartbeat  *)
  MaxDrift     (* bound: how many connections a list may have more than    *)
               (* its total says when one more is created                  *)

Lists == Groups \cup {0}
Slots(g) == 0 .. (IF g = 0 THEN ConnsLimit ELSE GroupMax) - 1

ASSUME PoolAssumption ==
  /\ Groups \subseteq Nat \ {0}
  /\ GroupMax \in Nat /\ GroupLimit \in Nat /\ ConnsLimit \in Nat
  /\ MaxDrift \in Nat
  /\ OwnConns \in BOOLEAN

VARIABLES
  place,     (* idle (in qconns), new (NEW_SESSION is on its way), bound,  *)
             (* popped (no entry any more, not reset)                      *)
  closing,   (* conn->d_state is D_STATE_CLOSE                             *)
  status,    (* conn->status: FREE (connected) or READY (connecting)       *)
  using,     (* conn->c_state is C_STATE_USING                             *)
  group,     (* conn->groupid, 0 for none                                  *)
  slot,      (* conn->gindex of a connection in a group, else conn->xindex *)
  uses,      (* history: getconns of this life without their over_session  *)
  free,      (* conns_free[] of every list: an index of the table, or 0    *)
  nfree,     (* nconns_free                                                *)
  limit,     (* limit of a list; closegroup clears it                      *)
  total,     (* total of a group, nconnections of the pool                 *)
  beat       (* the heartbeat: the list of the connection it made and has  *)
             (* still to count, the total it read for that, and how many   *)
             (* connections the pool still wants                           *)

connVars == <<place, closing, status, using, group, slot, uses>>
freeVars == <<free, nfree>>
vars == <<tableVars, connVars, freeVars, limit, total, beat>>

None == -1

TypeOK ==
  /\ TableTypeOK
  /\ place \in [Conns -> {"idle", "new", "bound", "popped"}]
  /\ closing \in [Conns -> BOOLEAN]
  /\ status \in [Conns -> {"FREE", "READY"}]
  /\ using \in [Conns -> BOOLEAN]
  /\ group \in [Conns -> Lists]
  /\ slot \in [Conns -> (UNION {Slots(g) : g \in Lists}) \cup {None}]
  /\ uses \in [Conns -> Nat]
  /\ \A g \in Lists : free[g] \in [Slots(g) -> Indexes \cup {0}]
  /\ nfree \in [Lists -> Int] /\ limit \in [Lists -> Nat] /\ total \in [Lists -> Int]
  /\ beat \in [list : Lists \cup {None}, read : Int, want : Nat]

Init ==
  /\ TableInit
  /\ place = [c \in Conns |-> "idle"]
  /\ closing = [c \in Conns |-> FALSE]
  /\ status = [c \in Conns |-> "FREE"]
  /\ using = [c \in Conns |-> FALSE]
  /\ group = [c \in Conns |-> 0]
  /\ slot = [c \in Conns |-> None]
  /\ uses = [c \in Conns |-> 0]
  /\ free = [g \in Lists |-> [x \in Slots(g) |-> 0]]
  /\ nfree = [g \in Lists |-> 0]
  /\ limit = [g \in Lists |-> IF g = 0 THEN ConnsLimit ELSE GroupLimit]
  /\ total = [g \in Lists |-> 0]
  /\ beat = [list |-> None, read |-> 0, want |-> 0]

-----------------------------------------------------------------------------
(* The free lists.                                                         *)

FirstGap(g) == {x \in Slots(g) : free[g][x] = 0 /\ \A y \in 0 .. x - 1 : free[g][y] # 0}

(* Variant of Offer that forgets to count.                                 *)
OfferUncounted(c, g, i) ==
  \/ \E x \in FirstGap(g) :
       /\ free' = [free EXCEPT ![g][x] = i]
       /\ slot' = [slot EXCEPT ![c] = x]
       /\ UNCHANGED nfree
  \/ FirstGap(g) = {} /\ UNCHANGED <<free, nfree, slot>>

(* Index i goes into the first gap of list g; c remembers the slot.  A     *)
(* list without a gap is left alone.                                       *)
Offer(c, g, i) ==
  \/ \E x \in FirstGap(g) :
       /\ free' = [free EXCEPT ![g][x] = i]
       /\ nfree' = [nfree EXCEPT ![g] = @ + 1]
       /\ slot' = [slot EXCEPT ![c] = x]
  \/ FirstGap(g) = {} /\ UNCHANGED <<free, nfree, slot>>

Withdraw(g, x) ==
  /\ free' = [free EXCEPT ![g][x] = 0]
  /\ nfree' = [nfree EXCEPT ![g] = @ - 1]

-----------------------------------------------------------------------------
(* New connections.                                                        *)

(* service_pushconn: an entry of the table and a slot of its list.         *)
Register(c, g) ==
  /\ PushConn(c)
  /\ place' = [place EXCEPT ![c] = "bound"]
  /\ \/ FreeIndexes # {} /\ Offer(c, g, index'[c])
     \/ FreeIndexes = {} /\ UNCHANGED <<free, nfree, slot>>

(* service_newconn: a blocking connect registers at once, a non-blocking   *)
(* one announces the connection to its procthread.                         *)
NewConn(c, g) ==
  /\ place[c] = "idle"
  /\ Cardinality({d \in Conns : place[d] # "idle" /\ group[d] = g}) <= total[g] + MaxDrift
  /\ group' = [group EXCEPT ![c] = g]
  /\ \/ Register(c, g) /\ UNCHANGED status
     \/ /\ place' = [place EXCEPT ![c] = "new"]
        /\ status' = [status EXCEPT ![c] = "READY"]
        /\ UNCHANGED <<tableVars, freeVars, slot>>
  /\ UNCHANGED <<closing, using, uses, limit, total>>

(* The application calls newconn without a session.                        *)
NewOwnConn(c) == OwnConns /\ NewConn(c, 0) /\ UNCHANGED beat

(* procthread_add_connection, for NEW_SESSION.                             *)
AddConnection(c) ==
  /\ place[c] = "new"
  /\ Register(c, group[c])
  /\ UNCHANGED <<closing, status, using, group, uses, limit, total, beat>>

(* service_okconn, when the connect succeeded.                             *)
OkConn(c) ==
  /\ place[c] = "bound" /\ status[c] = "READY"
  /\ status' = [status EXCEPT ![c] = "FREE"]
  /\ UNCHANGED <<tableVars, place, closing, using, group, slot, uses,
                 freeVars, limit, total, beat>>

-----------------------------------------------------------------------------
(* The heartbeat: service_state and service_stategroup.                    *)

Beats == beat.list = None

heartVars == <<tableVars, connVars, freeVars, limit>>

(* n = conns_limit - nconnections.                                         *)
WantConns ==
  /\ Beats /\ beat.want = 0
  /\ total[0] < limit[0]
  /\ beat' = [beat EXCEPT !.want = limit[0] - total[0]]
  /\ UNCHANGED <<heartVars, total>>

(* A newconn for the pool, or for a group below its limit.                 *)
BeatNewConn(c, g) ==
  /\ Beats
  /\ IF g = 0 THEN beat.want > 0 ELSE total[g] < limit[g]
  /\ NewConn(c, g)
  /\ beat' = [beat EXCEPT !.list = g, !.read = total[g]]

(* newconn fails: the pool waits for the next heartbeat.                   *)
BeatFails ==
  /\ Beats /\ beat.want > 0
  /\ beat' = [beat EXCEPT !.want = 0]
  /\ UNCHANGED <<heartVars, total>>

(* What a popconn that overlaps with the increment leaves of the total.    *)
Overlapped(g) ==
  IF total[g] = beat.read THEN {} ELSE {beat.read + 1, total[g]}

(* total++ or nconnections++, without the mutex.  The total may have been  *)
(* read as early as newconn returned and written before or after the write *)
(* of a popconn that overlaps.                                             *)
CountConn ==
  LET g == beat.list IN
  /\ ~Beats
  /\ total' \in {[total EXCEPT ![g] = n] :
                  n \in {total[g] + 1} \cup Overlapped(g)}
  /\ beat' = [list |-> None, read |-> 0,
              want |-> IF g = 0 THEN beat.want - 1 ELSE beat.want]
  /\ UNCHANGED heartVars

-----------------------------------------------------------------------------
(* Using a connection.                                                     *)

(* The connection in slot x of list g may be used.                         *)
Usable(g, x) ==
  /\ nfree[g] > 0
  /\ free[g][x] > 0
  /\ LET c == connections[free[g][x]] IN
     c # NoConn /\ status[c] = "FREE" /\ ~closing[c] /\ ~using[c]

(* Variant of GetConn that leaves the connection in its slot.              *)
GetConnKeepsSlot(g) ==
  \E x \in Slots(g) :
    /\ Usable(g, x) /\ \A y \in 0 .. x - 1 : ~Usable(g, y)
    /\ LET c == connections[free[g][x]] IN
       /\ using' = [using EXCEPT ![c] = TRUE]
       /\ uses' = [uses EXCEPT ![c] = @ + 1]
       /\ UNCHANGED slot
    /\ UNCHANGED <<freeVars, tableVars, place, closing, status, group, limit,
                   total, beat>>

(* service_getconn with its start_cstate: the first usable connection.     *)
(* service_castgroup does the same for every group.                        *)
GetConn(g) ==
  \E x \in Slots(g) :
    /\ Usable(g, x) /\ \A y \in 0 .. x - 1 : ~Usable(g, y)
    /\ LET c == connections[free[g][x]] IN
       /\ using' = [using EXCEPT ![c] = TRUE]
       /\ uses' = [uses EXCEPT ![c] = @ + 1]
       /\ slot' = [slot EXCEPT ![c] = None]
    /\ Withdraw(g, x)
    /\ UNCHANGED <<tableVars, place, closing, status, group, limit, total, beat>>

(* conn_over_session in the procthread of the connection: CONN_CHECK, and  *)
(* service_freeconn with its over_cstate, which does nothing to a closing  *)
(* connection.  The connection may start to close after CONN_CHECK, but    *)
(* its removal has to pass through the queue of the same thread.  A        *)
(* connection that is not wanted any more is closed.                       *)
OverSession(c) ==
  LET g == group[c]
      wanted == IF g = 0 THEN nfree[g] < ConnsLimit ELSE limit[g] > 0
  IN
  /\ place[c] = "bound" /\ uses[c] > 0
  /\ uses' = [uses EXCEPT ![c] = @ - 1]
  /\ IF wanted THEN Offer(c, g, index[c]) ELSE UNCHANGED <<freeVars, slot>>
  /\ using' = [using EXCEPT ![c] = @ /\ ~(wanted /\ FirstGap(g) # {} /\ ~closing[c])]
  /\ closing' = [closing EXCEPT ![c] = @ \/ ~wanted]
  /\ UNCHANGED <<tableVars, place, status, group, limit, total, beat>>

-----------------------------------------------------------------------------
(* Removing connections.                                                   *)

(* conn_close, for any reason and from any thread.                         *)
Close(c) ==
  /\ place[c] = "bound" /\ ~closing[c]
  /\ closing' = [closing EXCEPT ![c] = TRUE]
  /\ UNCHANGED <<tableVars, place, status, using, group, slot, uses,
                 freeVars, limit, total, beat>>

(* service_closegroup walks the slots from nconns_free - 1 down, although  *)
(* the used ones need not be the first, and leaves nconns_free at -1.      *)
CloseGroup(g) ==
  /\ limit[g] > 0
  /\ limit' = [limit EXCEPT ![g] = 0]
  /\ nfree' = [nfree EXCEPT ![g] = -1]
  /\ closing' = [c \in Conns |->
       closing[c] \/ \E x \in Slots(g) : x < nfree[g] /\ free[g][x] > 0
                                          /\ connections[free[g][x]] = c]
  /\ UNCHANGED <<tableVars, place, status, using, group, slot, uses, free,
                 total, beat>>

InSlot(c) == slot[c] # None /\ free[group[c]][slot[c]] = index[c]

(* Variant of PopFromPool that leaves the slot as it is.                   *)
PopFromPoolKeepsSlot(c) ==
  LET g == group[c] IN
  /\ UNCHANGED freeVars
  /\ total' = [total EXCEPT ![g] = IF g = 0 /\ ~InSlot(c) THEN @ ELSE @ - 1]

(* What service_popconn does to the lists: a group counts every connection *)
(* it loses, the pool only those that are not in use.                      *)
PopFromPool(c) ==
  LET g == group[c] IN
  /\ IF InSlot(c) THEN Withdraw(g, slot[c]) ELSE UNCHANGED freeVars
  /\ total' = [total EXCEPT ![g] = IF g = 0 /\ ~InSlot(c) THEN @ ELSE @ - 1]

(* service_popconn, when the removal reaches procthread_terminate.         *)
Pop(c) ==
  /\ place[c] = "bound" /\ closing[c]
  /\ place' = [place EXCEPT ![c] = "popped"]
  /\ PopConn(c)
  /\ IF HoldsItsIndex(c) THEN PopFromPool(c) ELSE UNCHANGED <<freeVars, total>>
  /\ UNCHANGED <<closing, status, using, group, slot, uses, limit, beat>>

(* conn_reset.                                                             *)
Reset(c) ==
  /\ place[c] = "popped"
  /\ ForgetIndex(c)
  /\ place' = [place EXCEPT ![c] = "idle"]
  /\ closing' = [closing EXCEPT ![c] = FALSE]
  /\ status' = [status EXCEPT ![c] = "FREE"]
  /\ using' = [using EXCEPT ![c] = FALSE]
  /\ group' = [group EXCEPT ![c] = 0]
  /\ slot' = [slot EXCEPT ![c] = None]
  /\ uses' = [uses EXCEPT ![c] = 0]
  /\ UNCHANGED <<freeVars, limit, total, beat>>

Next ==
  \/ WantConns \/ BeatFails \/ CountConn
  \/ \E g \in Lists : GetConn(g)
  \/ \E g \in Groups : CloseGroup(g)
  \/ \E c \in Conns :
       \/ \E g \in Lists : BeatNewConn(c, g)
       \/ NewOwnConn(c)
       \/ AddConnection(c)
       \/ OkConn(c)
       \/ OverSession(c)
       \/ Close(c)
       \/ Pop(c)
       \/ Reset(c)

Spec == Init /\ [][Next]_vars

-----------------------------------------------------------------------------
(* Properties.                                                             *)

(* A slot and the connection whose index it holds name each other, though  *)
(* indexes are reused by connections of other lists: service_getconn never *)
(* finds a connection of another group, or none.                           *)
SlotsNameTheirConns ==
  /\ \A g \in Lists : \A x \in Slots(g) : free[g][x] # 0 =>
       LET c == connections[free[g][x]] IN c # NoConn /\ group[c] = g /\ slot[c] = x
  /\ \A c \in Conns : place[c] = "bound" /\ slot[c] # None => InSlot(c)

(* nconns_free counts the slots in use until the group is closed, so that  *)
(* service_getconn, which looks at it first, misses no free connection.    *)
FreeIsCounted ==
  \A g \in Lists : g = 0 \/ limit[g] > 0 =>
    nfree[g] = Cardinality({x \in Slots(g) : free[g][x] # 0})

(* A connection is used by one session at a time, and one that is used is  *)
(* not offered to others.                                                  *)
UsedByOne ==
  \A c \in Conns : uses[c] <= 1 /\ (uses[c] = 1 => slot[c] = None)
=============================================================================
