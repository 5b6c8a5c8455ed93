---------------------------- MODULE EvTimerProofs ----------------------------
(***************************************************************************)
(* Proofs about EvTimer, for every number of nodes and connections.        *)
(* First, no timer outlives its connection: an argument that never looks   *)
(* at the links of the list.  Then the list itself: the links always show  *)
(* a sequence of armed nodes, sorted and linked both ways, and a sequence  *)
(* of free ones; what Walk and Chain compute from them is derived from     *)
(* their equations by a least counterexample, and every operation of       *)
(* evtimer.c is an operation on these sequences.                           *)
(***************************************************************************)
EXTENDS EvTimer, SequenceTheorems, FiniteSetTheorems, WellFoundedInduction, TLAPS

(* The fields that decide who owns a timer.                                *)
OwnerTypes ==
  /\ ison \in [Ids -> BOOLEAN]
  /\ arg \in [Ids -> Owners \cup {NoConn}]
  /\ evid = [o \in Owners |-> evid[o]]
  /\ state \in [Conns -> {"idle", "open", "closing"}]
  /\ call = [c \in Conns |-> call[c]]

(* The thread of a connection that is inside set_timeout does not free it. *)
BusyInUse == \A c \in Conns : Busy(c) => state[c] # "idle"

(* The inductive invariant of the first theorem.                           *)
IInv == OwnerTypes /\ BusyInUse /\ TimersAreHeld

ownerVars == <<ison, arg, evid>>

-----------------------------------------------------------------------------
(* The operations on nodes.                                                *)

(* Who owns what: the part of TimersAreHeld without the states.            *)
Held == \A i \in Ids : ison[i] => arg[i] \in Owners /\ evid[arg[i]] = i

(* No timer that is on belongs to o.                                       *)
NoTimer(o) == \A i \in Ids : ison[i] => arg[i] # o

(* evtimer_add, for an owner without a timer.                              *)
LEMMA AddHolds ==
  ASSUME OwnerTypes, Held, NEW c \in Owners, NoTimer(c), NEW timeout, Add(c, timeout)
  PROVE  /\ ison' \in [Ids -> BOOLEAN] /\ arg' \in [Ids -> Owners \cup {NoConn}]
         /\ evid' = [o \in Owners |-> evid'[o]]
         /\ Held'
         /\ \A i \in Ids : ison'[i] => arg'[i] = c \/ (ison[i] /\ arg'[i] = arg[i])
<1>1. CASE left = 0 /\ UNCHANGED <<nodeVars, evid>>
  BY <1>1 DEF nodeVars, OwnerTypes, Held
<1>2. CASE /\ ison' = [ison EXCEPT ![left] = TRUE]
           /\ arg' = [arg EXCEPT ![left] = c]
           /\ evid' = [evid EXCEPT ![c] = left]
  <2>1. ison' \in [Ids -> BOOLEAN] /\ \A i \in Ids \ {left} : ison'[i] = ison[i]
    BY <1>2 DEF OwnerTypes
  <2>2. arg' \in [Ids -> Owners \cup {NoConn}]
    BY <1>2 DEF OwnerTypes
  <2>3. \A i \in Ids : arg'[i] = IF i = left THEN c ELSE arg[i]
    BY <1>2 DEF OwnerTypes
  <2>4. evid' = [o \in Owners |-> IF o = c THEN left ELSE evid[o]]
    BY <1>2 DEF OwnerTypes
  <2>5. Held'
    <3> SUFFICES ASSUME NEW i \in Ids, ison'[i]
                 PROVE  arg'[i] \in Owners /\ evid'[arg'[i]] = i
      BY DEF Held
    <3>1. CASE i = left
      BY <3>1, <2>3, <2>4
    <3>2. CASE i # left
      <4>1. ison[i] /\ arg'[i] = arg[i]
        BY <3>2, <2>1, <2>3
      <4>2. arg[i] \in Owners /\ evid[arg[i]] = i /\ arg[i] # c
        BY <4>1 DEF Held, NoTimer
      <4> QED  BY <4>1, <4>2, <2>4
    <3> QED  BY <3>1, <3>2
  <2> QED  BY <2>1, <2>2, <2>3, <2>4, <2>5
<1> QED  BY <1>1, <1>2 DEF Add

(* evtimer_update: the node passes to the owner that names it.             *)
LEMMA UpdateHolds ==
  ASSUME OwnerTypes, Held, NEW c \in Owners, NEW timeout, Update(c, timeout)
  PROVE  /\ ison' = ison /\ evid' = evid
         /\ arg' \in [Ids -> Owners \cup {NoConn}]
         /\ Held'
         /\ \A i \in Ids : ison'[i] => arg'[i] = c \/ (ison[i] /\ arg'[i] = arg[i])
<1>1. CASE UNCHANGED <<nodeVars, evid>>
  BY <1>1 DEF nodeVars, OwnerTypes, Held
<1>2. CASE arg' = [arg EXCEPT ![evid[c]] = c] /\ UNCHANGED <<left, ison, evid>>
  <2>1. arg' \in [Ids -> Owners \cup {NoConn}]
    BY <1>2 DEF OwnerTypes
  <2>2. \A i \in Ids : arg'[i] = IF i = evid[c] THEN c ELSE arg[i]
    BY <1>2 DEF OwnerTypes
  <2> QED  BY <1>2, <2>1, <2>2 DEF Held
<1> QED  BY <1>1, <1>2 DEF Update

(* evtimer_delete: the owner that names the node has no timer afterwards.  *)
LEMMA DeleteHolds ==
  ASSUME OwnerTypes, Held, NEW c \in Owners, Delete(evid[c])
  PROVE  /\ ison' \in [Ids -> BOOLEAN] /\ arg' \in [Ids -> Owners \cup {NoConn}]
         /\ \A i \in Ids : ison'[i] => ison[i] /\ arg'[i] = arg[i] /\ arg'[i] # c
<1> DEFINE i == evid[c]
<1>1. \A j \in Ids : ison[j] /\ arg[j] = c => j = i
  BY DEF Held
<1>2. \A j \in Ids : j > 0
  BY TimerAssumption DEF Ids
<1>3. CASE (i > 0 => ~ison[i]) /\ UNCHANGED nodeVars
  BY <1>1, <1>2, <1>3 DEF nodeVars, OwnerTypes
<1>4. CASE ison' = [ison EXCEPT ![i] = FALSE] /\ arg' = [arg EXCEPT ![i] = NoConn]
  <2>1. ison' \in [Ids -> BOOLEAN] /\ \A j \in Ids : ison'[j] => ison[j] /\ j # i
    BY <1>4 DEF OwnerTypes
  <2>2. arg' \in [Ids -> Owners \cup {NoConn}]
    BY <1>4 DEF OwnerTypes
  <2>3. \A j \in Ids \ {i} : arg'[j] = arg[j]
    BY <1>4 DEF OwnerTypes
  <2> QED  BY <1>1, <2>1, <2>2, <2>3
<1> QED  BY <1>3, <1>4 DEF Delete

-----------------------------------------------------------------------------
(* Steps.                                                                  *)

(* A timer that is on belongs to a connection in use.                      *)
InUse == \A i \in Ids : ison[i] /\ arg[i] # Service => state[arg[i]] # "idle"

(* The two halves of TimersAreHeld.                                        *)
LEMMA HeldAndInUse == TimersAreHeld <=> Held /\ InUse
  BY DEF TimersAreHeld, Held, InUse

(* evtimer_init and service_run.                                           *)
LEMMA InvInit == Init => IInv
<1> SUFFICES ASSUME Init  PROVE IInv
  OBVIOUS
<1>1. OwnerTypes
  <2>1. ison = [i \in Ids |-> i = Nodes]
    BY DEF Init
  <2>2. ison \in [Ids -> BOOLEAN]
    BY <2>1
  <2> QED  BY <2>2 DEF Init, OwnerTypes, Owners
<1>2. BusyInUse
  BY DEF Init, BusyInUse, Busy
<1>3. TimersAreHeld
  <2>1. \A i \in Ids : ison[i] <=> i = Nodes
    BY DEF Init
  <2>2. \A i \in Ids : ison[i] => arg[i] = Service
    BY <2>1 DEF Init
  <2>3. Service \in Owners /\ evid[Service] = Nodes
    BY DEF Init, Owners
  <2> QED  BY <2>1, <2>2, <2>3 DEF TimersAreHeld
<1> QED  BY <1>1, <1>2, <1>3 DEF IInv

(* A step that leaves the nodes alone and frees no connection.             *)
LEMMA FrameStep ==
  ASSUME IInv, UNCHANGED <<ownerVars, state, call>>
  PROVE  IInv'
BY DEF ownerVars, IInv, OwnerTypes, BusyInUse, Busy, TimersAreHeld

(* A set_timeout that has passed CONN_CHECK.                               *)
LEMMA BeginSetStep ==
  ASSUME IInv, NEW c \in Conns, NEW timeout \in Timeouts, BeginSet(c, timeout)
  PROVE  IInv'
<1>1. UNCHANGED <<ownerVars, state>> /\ state[c] = "open"
  BY DEF BeginSet, nodeVars, ownerVars
<1>2. call' = [call EXCEPT ![c] = timeout]
  BY DEF BeginSet
<1>3. call' = [d \in Conns |-> call'[d]] /\ \A d \in Conns \ {c} : call'[d] = call[d]
  BY <1>2 DEF IInv, OwnerTypes
<1> QED  BY <1>1, <1>3 DEF ownerVars, IInv, OwnerTypes, BusyInUse, Busy, TimersAreHeld

(* conn_set of an idle connection, which no timer belongs to.              *)
LEMMA OpenStep ==
  ASSUME IInv, NEW c \in Conns, Open(c)
  PROVE  IInv'
<1>1. state[c] = "idle" /\ state' = [state EXCEPT ![c] = "open"] /\ call' = call
  BY DEF Open
<1>2. state' \in [Conns -> {"idle", "open", "closing"}] /\ state'[c] = "open"
      /\ \A d \in Conns \ {c} : state'[d] = state[d]
  BY <1>1 DEF IInv, OwnerTypes
<1>3. c \in Owners /\ c # Service /\ NoTimer(c)
  BY <1>1, TimerAssumption DEF Owners, NoTimer, IInv, TimersAreHeld
<1>4. BusyInUse'
  BY <1>1, <1>2 DEF IInv, BusyInUse, Busy
<1>5. ASSUME NEW timeout \in Timeouts, Add(c, timeout)  PROVE IInv'
  <2>1. /\ ison' \in [Ids -> BOOLEAN] /\ arg' \in [Ids -> Owners \cup {NoConn}]
        /\ evid' = [o \in Owners |-> evid'[o]]
        /\ Held'
        /\ \A i \in Ids : ison'[i] => arg'[i] = c \/ (ison[i] /\ arg'[i] = arg[i])
    BY <1>3, <1>5, AddHolds, HeldAndInUse DEF IInv
  <2>2. InUse'
    BY <2>1, <1>2, HeldAndInUse DEF IInv, InUse, Held, Owners
  <2>3. TimersAreHeld'
    BY <2>1, <2>2 DEF TimersAreHeld, Held, InUse
  <2> QED  BY <1>1, <1>2, <1>4, <2>1, <2>3 DEF IInv, OwnerTypes
<1>6. CASE evid' = [evid EXCEPT ![c] = -1] /\ UNCHANGED nodeVars
  <2>1. evid' = [o \in Owners |-> evid'[o]] /\ \A o \in Owners \ {c} : evid'[o] = evid[o]
    BY <1>6 DEF IInv, OwnerTypes
  <2>2. TimersAreHeld'
    BY <1>2, <1>3, <1>6, <2>1 DEF nodeVars, NoTimer, IInv, TimersAreHeld, Owners
  <2> QED  BY <1>1, <1>2, <1>4, <1>6, <2>1, <2>2 DEF nodeVars, IInv, OwnerTypes
<1> QED  BY <1>5, <1>6 DEF Open

(* conn_shut may have come in between: the connection is not idle yet.     *)
LEMMA FinishSetStep ==
  ASSUME IInv, NEW c \in Conns, FinishSet(c)
  PROVE  IInv'
<1>1. /\ state' = state /\ state[c] # "idle" /\ c \in Owners
      /\ call' = [call EXCEPT ![c] = 0]
  BY DEF FinishSet, IInv, BusyInUse, Owners
<1>2. call' = [d \in Conns |-> call'[d]] /\ BusyInUse'
  BY <1>1 DEF IInv, OwnerTypes, BusyInUse, Busy
<1>3. /\ ison' \in [Ids -> BOOLEAN] /\ arg' \in [Ids -> Owners \cup {NoConn}]
      /\ evid' = [o \in Owners |-> evid'[o]]
      /\ Held'
      /\ \A i \in Ids : ison'[i] => arg'[i] = c \/ (ison[i] /\ arg'[i] = arg[i])
  <2>1. CASE Update(c, call[c])
    BY <1>1, <2>1, UpdateHolds, HeldAndInUse DEF IInv, OwnerTypes
  <2>2. CASE evid[c] < 0 /\ Add(c, call[c])
    <3>1. NoTimer(c)
      BY <2>2, TimerAssumption DEF NoTimer, IInv, TimersAreHeld, Ids
    <3> QED  BY <1>1, <2>2, <3>1, AddHolds, HeldAndInUse DEF IInv
  <2> QED  BY <2>1, <2>2 DEF FinishSet
<1>4. InUse'
  BY <1>1, <1>3, HeldAndInUse DEF IInv, InUse
<1>5. TimersAreHeld'
  BY <1>3, <1>4 DEF TimersAreHeld, Held, InUse
<1> QED  BY <1>1, <1>2, <1>3, <1>5 DEF IInv, OwnerTypes

(* A connection that deletes its timer may forget or keep its number, and  *)
(* may be freed.                                                           *)
LEMMA DeleteStep ==
  ASSUME IInv, NEW c \in Conns, Delete(evid[c]), call' = call,
         evid' = evid \/ evid' = [evid EXCEPT ![c] = -1],
         state' \in [Conns -> {"idle", "open", "closing"}],
         \A d \in Conns \ {c} : state'[d] = state[d],
         state'[c] = "idle" => ~Busy(c)
  PROVE  IInv'
<1>1. /\ ison' \in [Ids -> BOOLEAN] /\ arg' \in [Ids -> Owners \cup {NoConn}]
      /\ \A i \in Ids : ison'[i] => ison[i] /\ arg'[i] = arg[i] /\ arg'[i] # c
  BY DeleteHolds, HeldAndInUse DEF IInv, Owners
<1>2. /\ evid' = [o \in Owners |-> evid'[o]]
      /\ \A o \in Owners \ {c} : evid'[o] = evid[o]
  BY DEF IInv, OwnerTypes
<1>3. BusyInUse'
  BY DEF IInv, BusyInUse, Busy
<1>4. TimersAreHeld'
  BY <1>1, <1>2 DEF IInv, TimersAreHeld, Owners
<1> QED  BY <1>1, <1>2, <1>3, <1>4 DEF IInv, OwnerTypes

(* service_evtimer_handler renews the node that the service names.         *)
LEMMA BeatStep ==
  ASSUME IInv, Beat
  PROVE  IInv'
<1>1. Update(Service, Heartbeat) /\ UNCHANGED <<state, call>> /\ Service \in Owners
  BY DEF Beat, Owners
<1>2. /\ ison' = ison /\ evid' = evid
      /\ arg' \in [Ids -> Owners \cup {NoConn}]
      /\ Held'
      /\ \A i \in Ids : ison'[i] => arg'[i] = Service \/ (ison[i] /\ arg'[i] = arg[i])
  BY <1>1, UpdateHolds, HeldAndInUse DEF IInv
<1>3. InUse'
  BY <1>1, <1>2, HeldAndInUse DEF IInv, InUse
<1>4. TimersAreHeld'
  BY <1>2, <1>3 DEF TimersAreHeld, Held, InUse
<1> QED  BY <1>1, <1>2, <1>4 DEF IInv, OwnerTypes, BusyInUse, Busy

(* Every step keeps the inductive invariant.                               *)
LEMMA InvStep == IInv /\ [Next]_vars => IInv'
<1> SUFFICES ASSUME IInv, [Next]_vars  PROVE IInv'
  OBVIOUS
<1>1. CASE Tick \/ Collect \/ Look \/ Fire \/ UNCHANGED vars
  <2>1. UNCHANGED <<ownerVars, state, call>>
    BY <1>1 DEF Tick, Collect, Look, Fire, vars, nodeVars, connVars, ownerVars
  <2> QED  BY <2>1, FrameStep
<1>2. CASE Beat
  BY <1>2, BeatStep
<1>3. ASSUME NEW c \in Conns, Open(c)  PROVE IInv'
  BY <1>3, OpenStep
<1>4. ASSUME NEW c \in Conns, NEW timeout \in Timeouts, BeginSet(c, timeout)  PROVE IInv'
  BY <1>4, BeginSetStep
<1>5. ASSUME NEW c \in Conns, FinishSet(c)  PROVE IInv'
  BY <1>5, FinishSetStep
<1>6. ASSUME NEW c \in Conns, OverTimeout(c) \/ OverCstate(c)  PROVE IInv'
  <2>1. /\ Delete(evid[c]) /\ state[c] = "open" /\ UNCHANGED <<state, call>>
        /\ evid' = evid \/ evid' = [evid EXCEPT ![c] = -1]
    BY <1>6 DEF OverTimeout, OverCstate, DropTimer, connVars
  <2> QED  BY <2>1, DeleteStep DEF IInv, OwnerTypes
<1>7. ASSUME NEW c \in Conns, Shut(c)  PROVE IInv'
  <2>1. /\ Delete(evid[c]) /\ call' = call /\ evid' = [evid EXCEPT ![c] = -1]
        /\ state' = [state EXCEPT ![c] = "closing"]
    BY <1>7 DEF Shut, DropTimer
  <2>2. /\ state' \in [Conns -> {"idle", "open", "closing"}] /\ state'[c] = "closing"
        /\ \A d \in Conns \ {c} : state'[d] = state[d]
    BY <2>1 DEF IInv, OwnerTypes
  <2> QED  BY <2>1, <2>2, DeleteStep
<1>8. ASSUME NEW c \in Conns, Terminate(c)  PROVE IInv'
  <2>1. /\ Delete(evid[c]) /\ call' = call /\ evid' = [evid EXCEPT ![c] = -1]
        /\ state' = [state EXCEPT ![c] = "idle"] /\ ~Busy(c)
    BY <1>8 DEF Terminate
  <2>2. /\ state' \in [Conns -> {"idle", "open", "closing"}]
        /\ \A d \in Conns \ {c} : state'[d] = state[d]
    BY <2>1 DEF IInv, OwnerTypes
  <2> QED  BY <2>1, <2>2, DeleteStep
<1>9. ASSUME NEW c \in Conns, HandleTimeout(c)  PROVE IInv'
  <2>1. call' = call /\ ~Busy(c)
    BY <1>9 DEF HandleTimeout
  <2>2. CASE UNCHANGED <<nodeVars, state, evid>>
    BY <2>1, <2>2, FrameStep DEF nodeVars, ownerVars
  <2>3. CASE /\ DropTimer(c)
             /\ UNCHANGED state \/ state' = [state EXCEPT ![c] = "closing"]
    <3>1. /\ state' \in [Conns -> {"idle", "open", "closing"}]
          /\ \A d \in Conns \ {c} : state'[d] = state[d]
      BY <2>3 DEF IInv, OwnerTypes
    <3> QED  BY <2>1, <2>3, <3>1, DeleteStep DEF DropTimer
  <2> QED  BY <1>9, <2>2, <2>3 DEF HandleTimeout
<1> QED
  BY <1>1, <1>2, <1>3, <1>4, <1>5, <1>6, <1>7, <1>8, <1>9 DEF Next, Check

(* A timer that is on belongs to the service or to a connection in use,    *)
(* which knows its number: conn_terminate leaves no timer of a freed       *)
(* connection, even when a set_timeout overlapped the conn_shut before.    *)
THEOREM NoTimerOutlivesItsConn == Spec => []TimersAreHeld
<1>1. IInv => TimersAreHeld
  BY DEF IInv
<1> QED  BY <1>1, InvInit, InvStep, PTL DEF Spec

-----------------------------------------------------------------------------
(* Walks along the links.                                                  *)

(* A set of numbers that is not empty has a least element.                 *)
LEMMA LeastOf ==
  ASSUME NEW S, S \subseteq Nat, S # {}
  PROVE  \E x \in S : \A y \in S : x <= y
<1> DEFINE R == OpToRel(<, Nat)
<1>1. IsWellFoundedOn(R, Nat)
  BY NatLessThanWellFounded
<1>2. PICK x \in S : \A y \in S : <<y, x>> \notin R
  BY ONLY <1>1, WFMin, S \subseteq Nat, S # {}
<1>3. \A y \in S : ~(y < x)
  BY <1>2 DEF OpToRel
<1> QED  BY <1>3

(* W satisfies the equation of Walk.                                       *)
Walks(link, i, W) ==
  /\ W \in [0 .. Nodes -> 0 .. Nodes] /\ W[0] = i
  /\ \A k \in 1 .. Nodes : W[k] = IF W[k - 1] = 0 THEN 0 ELSE link[W[k - 1]]

(* A function that satisfies the equation of Walk is Walk: where another   *)
(* one differed first, its predecessor would be the same, so it could not  *)
(* differ.                                                                 *)
LEMMA WalkIs ==
  ASSUME NEW link, NEW i, NEW W, Walks(link, i, W)
  PROVE  Walk(link, i) = W
<1> DEFINE F(f) == [k \in 0 .. Nodes |->
                      IF k = 0 THEN i ELSE IF f[k - 1] = 0 THEN 0 ELSE link[f[k - 1]]]
           w == Walk(link, i)
<1>0. /\ W \in [0 .. Nodes -> 0 .. Nodes] /\ W[0] = i
      /\ \A k \in 1 .. Nodes : W[k] = IF W[k - 1] = 0 THEN 0 ELSE link[W[k - 1]]
  BY DEF Walks
<1>1. w = CHOOSE f : f = F(f)
  BY DEF Walk
<1>2. W = F(W)
  <2>1. \A k \in 0 .. Nodes : k # 0 => k \in 1 .. Nodes
    BY TimerAssumption
  <2>2. \A k \in 0 .. Nodes : W[k] = F(W)[k]
    BY <1>0, <2>1
  <2> QED  BY <1>0, <2>2
<1>3. w = F(w)
  <2> HIDE DEF F, w
  <2>1. \E f : f = F(f)
    BY <1>2
  <2>2. (CHOOSE f : f = F(f)) = F(CHOOSE f : f = F(f))
    BY <2>1, Zenon
  <2> QED  BY <1>1, <2>2, Zenon
<1> HIDE DEF w
<1>4. \A k \in 0 .. Nodes : w[k] = IF k = 0 THEN i ELSE IF w[k - 1] = 0 THEN 0 ELSE link[w[k - 1]]
  BY <1>3
<1> DEFINE D == {k \in 0 .. Nodes : w[k] # W[k]}
<1>5. D = {}
  <2> SUFFICES ASSUME D # {}  PROVE FALSE
    OBVIOUS
  <2>1. D \subseteq Nat
    OBVIOUS
  <2>2. PICK k \in D : \A m \in D : k <= m
    BY <2>1, LeastOf
  <2>3. k # 0 /\ k \in 1 .. Nodes /\ k - 1 \in 0 .. Nodes /\ ~(k <= k - 1)
    <3>1. Nodes \in Nat /\ 0 \in 0 .. Nodes /\ k \in 0 .. Nodes /\ w[k] # W[k]
      BY <2>2, TimerAssumption
    <3>2. w[0] = i /\ W[0] = i
      BY <1>0, <1>4, <3>1
    <3>3. k # 0
      BY <3>1, <3>2
    <3> QED  BY ONLY <3>1, <3>3
  <2>4. w[k - 1] = W[k - 1]
    BY <2>2, <2>3
  <2> QED  BY <1>0, <1>4, <2>2, <2>3, <2>4
<1>6. w = W
  <2>1. w = [k \in 0 .. Nodes |-> w[k]]
    BY <1>3
  <2>2. \A k \in 0 .. Nodes : w[k] = W[k]
    BY <1>5
  <2> QED  BY ONLY <1>0, <2>1, <2>2
<1> QED  BY <1>6 DEF w

(* The k-th node of a sequence, and 0 in front of it and behind it.        *)
At(s, k) == IF k \in 1 .. Len(s) THEN s[k] ELSE 0

(* A sequence of nodes without repetition.                                 *)
Distinct(s) == s \in Seq(Ids) /\ \A j, k \in 1 .. Len(s) : s[j] = s[k] => j = k

(* Following link from first gives the nodes of s and then 0.              *)
Path(link, first, s) ==
  Distinct(s) /\ first = At(s, 1) /\ \A k \in 1 .. Len(s) : link[s[k]] = At(s, k + 1)

(* There are no more different nodes than Nodes.                           *)
LEMMA DistinctFits ==
  ASSUME NEW s, Distinct(s)
  PROVE  /\ Len(s) \in 0 .. Nodes
         /\ Cardinality(Range(s)) = Len(s)
<1>1. /\ s \in Seq(Ids) /\ Len(s) \in Nat /\ DOMAIN s = 1 .. Len(s)
      /\ s \in [1 .. Len(s) -> Ids]
      /\ \A j, k \in 1 .. Len(s) : s[j] = s[k] => j = k
  BY DEF Distinct
<1>2. s \in Injection(1 .. Len(s), Ids)
  BY <1>1 DEF Injection, IsInjective
<1>3. IsFiniteSet(Ids) /\ Cardinality(Ids) = Nodes
  BY FS_Interval, TimerAssumption DEF Ids
<1>4. Cardinality(1 .. Len(s)) = Len(s) /\ IsFiniteSet(1 .. Len(s))
  BY <1>1, FS_Interval
<1>5. Len(s) <= Nodes
  BY <1>2, <1>3, <1>4, FS_Injection
<1>6. s \in Injection(1 .. Len(s), Range(s))
  BY <1>1, <1>2 DEF Injection, IsInjective, Range
<1>7. s \in Surjection(1 .. Len(s), Range(s))
  BY <1>1, <1>6 DEF Injection, Surjection, Range
<1>8. Cardinality(Range(s)) = Len(s)
  BY <1>4, <1>6, <1>7, FS_Surjection
<1> QED  BY <1>1, <1>5, <1>8, TimerAssumption

(* Walking along the links of a path.                                      *)
LEMMA WalkAlong ==
  ASSUME NEW link, NEW i, NEW s, Path(link, i, s)
  PROVE  Walk(link, i) = [k \in 0 .. Nodes |-> At(s, k + 1)]
<1> DEFINE W == [k \in 0 .. Nodes |-> At(s, k + 1)]
<1>1. /\ s \in Seq(Ids) /\ Len(s) \in Nat /\ i = At(s, 1)
      /\ \A k \in 1 .. Len(s) : s[k] \in Ids /\ s[k] # 0 /\ link[s[k]] = At(s, k + 1)
  BY TimerAssumption DEF Path, Distinct, Ids
<1>2. W[0] = i /\ W \in [0 .. Nodes -> 0 .. Nodes]
  BY <1>1, TimerAssumption DEF At, Ids
<1>3. ASSUME NEW k \in 1 .. Nodes
      PROVE  W[k] = IF W[k - 1] = 0 THEN 0 ELSE link[W[k - 1]]
  <2>1. k - 1 \in 0 .. Nodes /\ k \in 0 .. Nodes /\ (k - 1) + 1 = k /\ k \in Nat \ {0}
    BY TimerAssumption
  <2>2. W[k - 1] = At(s, k) /\ W[k] = At(s, k + 1)
    BY <2>1
  <2>3. CASE k <= Len(s)
    <3>1. At(s, k) = s[k] /\ k \in 1 .. Len(s)
      BY <2>1, <2>3, <1>1 DEF At
    <3> QED  BY <1>1, <2>2, <3>1
  <2>4. CASE ~(k <= Len(s))
    <3>1. At(s, k) = 0 /\ At(s, k + 1) = 0
      BY <2>1, <2>4, <1>1 DEF At
    <3> QED  BY <2>2, <3>1
  <2> QED  BY <2>3, <2>4
<1> HIDE DEF W
<1>4. Walk(link, i) = W
  <2>1. Walks(link, i, W)
    BY <1>2, <1>3 DEF Walks
  <2> QED  BY <2>1, WalkIs
<1> QED  BY <1>4 DEF W

(* What the recursive walk collects, given the path that is there.         *)
LEMMA ChainIs ==
  ASSUME NEW link, NEW i, NEW s, Path(link, i, s)
  PROVE  Chain(link, i) = s
<1> DEFINE W == [k \in 0 .. Nodes |-> At(s, k + 1)]
           L == {k \in 0 .. Nodes : W[k] # 0}
           Of(w) == [k \in 1 .. Cardinality({k \in 0 .. Nodes : w[k] # 0}) |-> w[k - 1]]
<1>1. /\ s \in Seq(Ids) /\ Len(s) \in Nat
      /\ \A k \in 1 .. Len(s) : s[k] \in Ids /\ s[k] # 0
      /\ Len(s) <= Nodes
  BY TimerAssumption, DistinctFits DEF Path, Distinct, Ids
<1>2. L = 0 .. Len(s) - 1
  <2>1. \A k \in 0 .. Nodes : W[k] # 0 <=> k + 1 \in 1 .. Len(s)
    BY <1>1 DEF At
  <2>2. \A k : k \in L <=> k \in 0 .. Len(s) - 1
    <3> HIDE DEF W
    <3> QED  BY <1>1, <2>1, TimerAssumption
  <2> QED  BY <2>2
<1>3. Cardinality(L) = Len(s)
  <2>1. Cardinality(0 .. Len(s) - 1) = Len(s)
    <3>1. 0 \in Int /\ Len(s) - 1 \in Int /\ (0 > Len(s) - 1 <=> Len(s) = 0)
          /\ (Len(s) - 1) - 0 + 1 = Len(s)
      BY <1>1
    <3> QED  BY <3>1, FS_Interval
  <2> QED  BY <1>2, <2>1
<1>4. \A k \in 1 .. Len(s) : W[k - 1] = s[k]
  BY <1>1, TimerAssumption DEF At
<1>5. Chain(link, i) = [k \in 1 .. Cardinality(L) |-> W[k - 1]]
  <2>1. Chain(link, i) = Of(Walk(link, i))
    BY DEF Chain
  <2>2. Walk(link, i) = W
    BY WalkAlong
  <2>3. Of(Walk(link, i)) = Of(W)
    <3> HIDE DEF Of, W
    <3> QED  BY <2>2
  <2> QED  BY <2>1, <2>3
<1> HIDE DEF L, W
<1>6. Chain(link, i) = [k \in 1 .. Len(s) |-> s[k]]
  BY <1>3, <1>4, <1>5
<1> QED  BY <1>1, <1>6

(* The doubly linked list l holds the nodes of s, in this order.           *)
IsList(l, s) ==
  /\ Distinct(s) /\ l.head = At(s, 1) /\ l.tail = At(s, Len(s))
  /\ \A k \in 1 .. Len(s) : l.next[s[k]] = At(s, k + 1) /\ l.prev[s[k]] = At(s, k - 1)

(* No node is due before one in front of it.                               *)
Sorted(s, due) == \A j, k \in 1 .. Len(s) : j <= k => due[s[j]] <= due[s[k]]

(* The nodes of a sequence.                                                *)
In(s) == {s[k] : k \in 1 .. Len(s)}

(* Node i put behind the p-th node.                                        *)
Insert(s, p, i) ==
  [k \in 1 .. Len(s) + 1 |-> IF k <= p THEN s[k] ELSE IF k = p + 1 THEN i ELSE s[k - 1]]

(* The p-th node taken out.                                                *)
Without(s, p) == [k \in 1 .. Len(s) - 1 |-> IF k < p THEN s[k] ELSE s[k + 1]]

(* Outside of the nodes S, the links are the same.                         *)
SameOutside(l, m, S) ==
  \A j \in Ids \ S : m.next[j] = l.next[j] /\ m.prev[j] = l.prev[j]

(* The neighbour of a node is a node or NULL.                              *)
LEMMA AtType ==
  ASSUME NEW s, Distinct(s), NEW k \in Int
  PROVE  At(s, k) \in 0 .. Nodes /\ (k \in 1 .. Len(s) => At(s, k) = s[k] /\ s[k] # 0)
         /\ (k \notin 1 .. Len(s) => At(s, k) = 0)
<1>1. \A j \in 1 .. Len(s) : s[j] \in Ids
  BY DEF Distinct
<1> QED  BY <1>1, TimerAssumption DEF At, Ids

(* Putting a new node in keeps the nodes different.                        *)
LEMMA InsertIs ==
  ASSUME NEW s, Distinct(s), NEW i \in Ids, i \notin In(s), NEW p \in 0 .. Len(s)
  PROVE  /\ Distinct(Insert(s, p, i)) /\ Len(Insert(s, p, i)) = Len(s) + 1
         /\ In(Insert(s, p, i)) = In(s) \cup {i}
         /\ \A k \in 1 .. p : Insert(s, p, i)[k] = s[k]
         /\ Insert(s, p, i)[p + 1] = i
         /\ \A k \in p + 1 .. Len(s) : Insert(s, p, i)[k + 1] = s[k]
<1> DEFINE t == Insert(s, p, i)
<1>1. /\ s \in Seq(Ids) /\ Len(s) \in Nat /\ p \in Nat /\ p <= Len(s)
      /\ \A k \in 1 .. Len(s) : s[k] \in Ids /\ s[k] # i
      /\ \A j, k \in 1 .. Len(s) : s[j] = s[k] => j = k
  BY DEF Distinct, In
<1>2. /\ t \in Seq(Ids) /\ Len(t) = Len(s) + 1
  <2>1. \A k \in 1 .. Len(s) + 1 :
          (IF k <= p THEN s[k] ELSE IF k = p + 1 THEN i ELSE s[k - 1]) \in Ids
    BY <1>1
  <2>2. t \in [1 .. Len(s) + 1 -> Ids]
    BY <2>1 DEF Insert
  <2> QED  BY <1>1, <2>2
<1>3. \A k \in 1 .. Len(s) + 1 :
        t[k] = IF k <= p THEN s[k] ELSE IF k = p + 1 THEN i ELSE s[k - 1]
  BY DEF Insert
<1> HIDE DEF t
<1>4. /\ \A k \in 1 .. p : t[k] = s[k] /\ k \in 1 .. Len(s) + 1
      /\ t[p + 1] = i /\ p + 1 \in 1 .. Len(s) + 1
      /\ \A k \in p + 1 .. Len(s) : t[k + 1] = s[k] /\ k + 1 \in 1 .. Len(s) + 1
  BY <1>1, <1>3
<1>5. \A j, k \in 1 .. Len(s) + 1 : t[j] = t[k] => j = k
  <2> SUFFICES ASSUME NEW j \in 1 .. Len(s) + 1, NEW k \in 1 .. Len(s) + 1, t[j] = t[k]
               PROVE  j = k
    OBVIOUS
  <2>1. j <= p => t[j] = s[j] /\ j \in 1 .. Len(s)
    BY <1>1, <1>3
  <2>2. j > p + 1 => t[j] = s[j - 1] /\ j - 1 \in 1 .. Len(s)
    BY <1>1, <1>3
  <2>3. k <= p => t[k] = s[k] /\ k \in 1 .. Len(s)
    BY <1>1, <1>3
  <2>4. k > p + 1 => t[k] = s[k - 1] /\ k - 1 \in 1 .. Len(s)
    BY <1>1, <1>3
  <2> QED  BY <1>1, <1>4, <2>1, <2>2, <2>3, <2>4
<1>6. In(t) = In(s) \cup {i}
  <2>1. ASSUME NEW k \in 1 .. Len(t)  PROVE t[k] \in In(s) \cup {i}
    <3>1. CASE k <= p
      BY <1>1, <1>2, <1>4, <3>1 DEF In
    <3>2. CASE k = p + 1
      BY <1>4, <3>2
    <3>3. CASE k > p + 1
      <4>1. k - 1 \in 1 .. Len(s) /\ t[k] = s[k - 1]
        BY <1>1, <1>2, <1>3, <3>3
      <4> QED  BY <4>1 DEF In
    <3> QED  BY <1>1, <3>1, <3>2, <3>3
  <2>2. ASSUME NEW k \in 1 .. Len(s)  PROVE s[k] \in In(t)
    <3>1. CASE k <= p
      BY <1>1, <1>2, <1>4, <3>1 DEF In
    <3>2. CASE k > p
      <4>1. k + 1 \in 1 .. Len(t) /\ t[k + 1] = s[k]
        BY <1>1, <1>2, <1>4, <3>2
      <4> QED  BY <4>1 DEF In
    <3> QED  BY <1>1, <3>1, <3>2
  <2>3. i \in In(t)
    BY <1>1, <1>2, <1>4 DEF In
  <2> QED  BY <2>1, <2>2, <2>3 DEF In
<1>7. Distinct(t)
  BY <1>2, <1>5 DEF Distinct
<1> QED  BY <1>2, <1>4, <1>6, <1>7 DEF t

(* Taking a node out keeps the nodes different.                            *)
LEMMA WithoutIs ==
  ASSUME NEW s, Distinct(s), NEW p \in 1 .. Len(s)
  PROVE  /\ Distinct(Without(s, p)) /\ Len(Without(s, p)) = Len(s) - 1
         /\ In(Without(s, p)) = In(s) \ {s[p]}
         /\ \A k \in 1 .. p - 1 : Without(s, p)[k] = s[k]
         /\ \A k \in p .. Len(s) - 1 : Without(s, p)[k] = s[k + 1]
<1> DEFINE t == Without(s, p)
<1>1. /\ s \in Seq(Ids) /\ Len(s) \in Nat /\ p \in Nat \ {0} /\ p <= Len(s)
      /\ \A k \in 1 .. Len(s) : s[k] \in Ids
      /\ \A j, k \in 1 .. Len(s) : s[j] = s[k] => j = k
  BY DEF Distinct
<1>2. /\ t \in Seq(Ids) /\ Len(t) = Len(s) - 1
  <2>1. \A k \in 1 .. Len(s) - 1 : (IF k < p THEN s[k] ELSE s[k + 1]) \in Ids
    BY <1>1
  <2>2. t \in [1 .. Len(s) - 1 -> Ids] /\ Len(s) - 1 \in Nat
    BY <1>1, <2>1 DEF Without
  <2> QED  BY <1>1, <2>2
<1>3. \A k \in 1 .. Len(s) - 1 : t[k] = IF k < p THEN s[k] ELSE s[k + 1]
  BY DEF Without
<1> HIDE DEF t
<1>4. /\ \A k \in 1 .. p - 1 : t[k] = s[k] /\ k \in 1 .. Len(s) - 1
      /\ \A k \in p .. Len(s) - 1 : t[k] = s[k + 1] /\ k \in 1 .. Len(s) - 1
  BY <1>1, <1>3
<1>5. \A j, k \in 1 .. Len(s) - 1 : t[j] = t[k] => j = k
  BY <1>1, <1>3
<1>6. In(t) = In(s) \ {s[p]}
  <2>1. ASSUME NEW k \in 1 .. Len(t)  PROVE t[k] \in In(s) /\ t[k] # s[p]
    <3>1. \E j \in 1 .. Len(s) : j # p /\ t[k] = s[j]
      <4>1. CASE k < p
        BY <1>1, <1>2, <1>4, <4>1
      <4>2. CASE k >= p
        <5>1. k + 1 \in 1 .. Len(s) /\ k + 1 # p /\ t[k] = s[k + 1]
          BY <1>1, <1>2, <1>4, <4>2
        <5> QED  BY <5>1
      <4> QED  BY <1>1, <4>1, <4>2
    <3> QED  BY <1>1, <3>1 DEF In
  <2>2. ASSUME NEW k \in 1 .. Len(s), k # p  PROVE s[k] \in In(t)
    <3>1. CASE k < p
      BY <1>1, <1>2, <1>4, <3>1 DEF In
    <3>2. CASE k > p
      <4>1. k - 1 \in 1 .. Len(t) /\ t[k - 1] = s[(k - 1) + 1] /\ (k - 1) + 1 = k
        BY <1>1, <1>2, <1>4, <3>2
      <4> QED  BY <4>1 DEF In
    <3> QED  BY <1>1, <2>2, <3>1, <3>2
  <2> QED  BY <2>1, <2>2 DEF In
<1>7. Distinct(t)
  BY <1>2, <1>5 DEF Distinct
<1> QED  BY <1>2, <1>4, <1>6, <1>7 DEF t

(* Linking a node between two neighbours puts it into the list.            *)
LEMMA LinkDoes ==
  ASSUME NEW l \in Lists, NEW s, IsList(l, s), NEW i \in Ids, i \notin In(s),
         NEW p \in 0 .. Len(s)
  PROVE  LET m == Link(l, At(s, p), i, At(s, p + 1))
         IN m \in Lists /\ IsList(m, Insert(s, p, i)) /\ SameOutside(l, m, In(s) \cup {i})
<1> DEFINE m == Link(l, At(s, p), i, At(s, p + 1))
           t == Insert(s, p, i)
<1>1. /\ Distinct(s) /\ s \in Seq(Ids) /\ Len(s) \in Nat /\ p \in Nat /\ p <= Len(s)
      /\ l.head = At(s, 1) /\ l.tail = At(s, Len(s))
      /\ \A k \in 1 .. Len(s) : /\ l.next[s[k]] = At(s, k + 1) /\ l.prev[s[k]] = At(s, k - 1)
                                /\ s[k] \in Ids /\ s[k] # i /\ s[k] # 0
      /\ \A j, k \in 1 .. Len(s) : s[j] = s[k] => j = k
      /\ i # 0 /\ i \in 0 .. Nodes
  BY TimerAssumption DEF IsList, Distinct, In, Ids
<1>2. /\ At(s, p) \in 0 .. Nodes /\ At(s, p + 1) \in 0 .. Nodes
      /\ At(s, p) = 0 <=> p = 0
      /\ At(s, p + 1) = 0 <=> p = Len(s)
      /\ p # 0 => At(s, p) = s[p] /\ p \in 1 .. Len(s)
      /\ p # Len(s) => At(s, p + 1) = s[p + 1] /\ p + 1 \in 1 .. Len(s)
  <2>1. /\ p \in Int /\ p + 1 \in Int /\ (p \in 1 .. Len(s) <=> p # 0)
        /\ (p + 1 \in 1 .. Len(s) <=> p # Len(s))
    BY <1>1
  <2>2. /\ At(s, p) \in 0 .. Nodes
        /\ IF p \in 1 .. Len(s) THEN At(s, p) = s[p] /\ s[p] # 0 ELSE At(s, p) = 0
    BY <1>1, <2>1, AtType
  <2>3. /\ At(s, p + 1) \in 0 .. Nodes
        /\ IF p + 1 \in 1 .. Len(s) THEN At(s, p + 1) = s[p + 1] /\ s[p + 1] # 0
           ELSE At(s, p + 1) = 0
    BY <1>1, <2>1, AtType
  <2> QED  BY <2>1, <2>2, <2>3
<1>3. /\ m.head = IF p = 0 THEN i ELSE l.head
      /\ m.tail = IF p = Len(s) THEN i ELSE l.tail
      /\ \A j \in Ids : m.next[j] = IF j = i THEN At(s, p + 1) ELSE IF j = At(s, p) THEN i ELSE l.next[j]
      /\ \A j \in Ids : m.prev[j] = IF j = i THEN At(s, p) ELSE IF j = At(s, p + 1) THEN i ELSE l.prev[j]
  BY <1>2 DEF Link
<1>4. m \in Lists
  BY <1>1, <1>2 DEF Link, Lists
<1>5. SameOutside(l, m, In(s) \cup {i})
  <2> SUFFICES ASSUME NEW j \in Ids \ (In(s) \cup {i})
               PROVE  m.next[j] = l.next[j] /\ m.prev[j] = l.prev[j]
    BY DEF SameOutside
  <2>1. j # i /\ j # At(s, p) /\ j # At(s, p + 1)
    BY <1>1, <1>2, TimerAssumption DEF In, Ids
  <2> QED  BY <1>3, <2>1
<1> HIDE DEF m, t
<1>6. /\ Distinct(t) /\ Len(t) = Len(s) + 1
      /\ \A k \in 1 .. p : t[k] = s[k]
      /\ t[p + 1] = i
      /\ \A k \in p + 1 .. Len(s) : t[k + 1] = s[k]
  BY <1>1, InsertIs DEF t
<1>7. \A k \in 0 .. p : At(t, k) = At(s, k)
  <2> SUFFICES ASSUME NEW k \in 0 .. p  PROVE At(t, k) = At(s, k)
    OBVIOUS
  <2>1. k = 0 => At(t, k) = 0 /\ At(s, k) = 0
    BY <1>1, <1>6 DEF At
  <2>2. k # 0 => At(t, k) = s[k] /\ At(s, k) = s[k]
    BY <1>1, <1>6 DEF At
  <2> QED  BY <2>1, <2>2
<1>8. At(t, p + 1) = i
  BY <1>1, <1>6 DEF At
<1>9. \A k \in p + 1 .. Len(s) + 1 : At(t, k + 1) = At(s, k)
  <2> SUFFICES ASSUME NEW k \in p + 1 .. Len(s) + 1  PROVE At(t, k + 1) = At(s, k)
    OBVIOUS
  <2>1. k = Len(s) + 1 => At(t, k + 1) = 0 /\ At(s, k) = 0
    BY <1>1, <1>6 DEF At
  <2>2. k # Len(s) + 1 => At(t, k + 1) = s[k] /\ At(s, k) = s[k]
    BY <1>1, <1>6 DEF At
  <2> QED  BY <2>1, <2>2
<1>10. m.head = At(t, 1)
  <2>1. CASE p = 0
    BY <1>3, <1>8, <2>1
  <2>2. CASE p # 0
    BY <1>1, <1>3, <1>7, <2>2
  <2> QED  BY <2>1, <2>2
<1>11. m.tail = At(t, Len(t))
  <2>1. CASE p = Len(s)
    BY <1>3, <1>6, <1>8, <2>1
  <2>2. CASE p # Len(s)
    <3>1. At(t, Len(s) + 1) = At(s, Len(s))
      BY <1>1, <1>9, <2>2
    <3> QED  BY <1>1, <1>3, <1>6, <2>2, <3>1
  <2> QED  BY <2>1, <2>2
<1>12. ASSUME NEW k \in 1 .. Len(t)
       PROVE  m.next[t[k]] = At(t, k + 1) /\ m.prev[t[k]] = At(t, k - 1)
  <2>1. CASE k <= p
    <3>1. /\ t[k] = s[k] /\ s[k] \in Ids /\ s[k] # i /\ k \in 1 .. Len(s)
          /\ l.next[s[k]] = At(s, k + 1) /\ l.prev[s[k]] = At(s, k - 1)
      BY <1>1, <1>6, <2>1
    <3>2. k # p => s[k] # At(s, p)
      BY <1>1, <1>2, <2>1, <3>1
    <3>3. s[k] # At(s, p + 1)
      BY <1>1, <1>2, <2>1, <3>1
    <3>4. m.prev[t[k]] = At(t, k - 1)
      <4>1. m.prev[t[k]] = l.prev[s[k]]
        BY <1>3, <3>1, <3>3
      <4>2. k - 1 \in 0 .. p
        BY <1>1, <2>1, <3>1
      <4> QED  BY <1>7, <3>1, <4>1, <4>2
    <3>5. m.next[t[k]] = At(t, k + 1)
      <4>1. CASE k = p
        BY <1>2, <1>3, <1>8, <3>1, <4>1, <1>1
      <4>2. CASE k # p
        <5>1. m.next[t[k]] = l.next[s[k]]
          BY <1>3, <3>1, <3>2, <4>2
        <5>2. k + 1 \in 0 .. p
          BY <1>1, <2>1, <3>1, <4>2
        <5> QED  BY <1>7, <3>1, <5>1, <5>2
      <4> QED  BY <4>1, <4>2
    <3> QED  BY <3>4, <3>5
  <2>2. CASE k = p + 1
    <3>1. t[k] = i /\ At(t, k - 1) = At(s, p) /\ At(t, k + 1) = At(s, p + 1)
      BY <1>1, <1>6, <1>7, <1>9, <2>2
    <3> QED  BY <1>3, <3>1
  <2>3. CASE k > p + 1
    <3>1. /\ k - 1 \in 1 .. Len(s) /\ t[k] = s[k - 1] /\ s[k - 1] \in Ids /\ s[k - 1] # i
          /\ l.next[s[k - 1]] = At(s, k) /\ l.prev[s[k - 1]] = At(s, k - 2)
      <4>1. k - 1 \in p + 1 .. Len(s) /\ (k - 1) + 1 = k /\ (k - 1) - 1 = k - 2 /\ k - 1 \in 1 .. Len(s)
        BY <1>1, <1>6, <2>3
      <4> QED  BY <1>1, <1>6, <4>1
    <3>2. k - 1 # p + 1 => s[k - 1] # At(s, p + 1)
      BY <1>1, <1>2, <2>3, <3>1
    <3>3. s[k - 1] # At(s, p)
      BY <1>1, <1>2, <2>3, <3>1
    <3>4. m.next[t[k]] = At(t, k + 1)
      <4>1. m.next[t[k]] = l.next[s[k - 1]]
        BY <1>3, <3>1, <3>3
      <4>2. k \in p + 1 .. Len(s) + 1
        BY <1>1, <1>6, <2>3
      <4> QED  BY <1>9, <3>1, <4>1, <4>2
    <3>5. m.prev[t[k]] = At(t, k - 1)
      <4>1. CASE k - 1 = p + 1
        <5>1. s[k - 1] = At(s, p + 1) /\ At(t, k - 1) = i
          BY <1>1, <1>2, <1>8, <3>1, <4>1
        <5> QED  BY <1>3, <3>1, <5>1
      <4>2. CASE k - 1 # p + 1
        <5>1. At(t, k - 1) = At(s, k - 2)
          <6>1. k - 2 \in p + 1 .. Len(s) + 1 /\ (k - 2) + 1 = k - 1
            BY <1>1, <2>3, <3>1, <4>2
          <6> QED  BY <1>9, <6>1
        <5> QED  BY <1>3, <3>1, <3>2, <4>2, <5>1
      <4> QED  BY <4>1, <4>2
    <3> QED  BY <3>4, <3>5
  <2> QED  BY <1>1, <1>6, <2>1, <2>2, <2>3
<1>13. IsList(m, t)
  BY <1>6, <1>10, <1>11, <1>12 DEF IsList
<1> QED  BY <1>4, <1>5, <1>13 DEF m, t

(* Unlinking the p-th node takes it out of the list.                       *)
LEMMA UnlinkDoes ==
  ASSUME NEW l \in Lists, NEW s, IsList(l, s), NEW p \in 1 .. Len(s)
  PROVE  LET m == Unlink(l, s[p])
         IN m \in Lists /\ IsList(m, Without(s, p)) /\ SameOutside(l, m, In(s))
<1> DEFINE m == Unlink(l, s[p])
           t == Without(s, p)
<1>1. /\ Distinct(s) /\ s \in Seq(Ids) /\ Len(s) \in Nat /\ p \in Nat \ {0} /\ p <= Len(s)
      /\ l.head = At(s, 1) /\ l.tail = At(s, Len(s))
      /\ \A k \in 1 .. Len(s) : /\ l.next[s[k]] = At(s, k + 1) /\ l.prev[s[k]] = At(s, k - 1)
                                /\ s[k] \in Ids /\ s[k] # 0
      /\ \A j, k \in 1 .. Len(s) : s[j] = s[k] => j = k
  BY TimerAssumption DEF IsList, Distinct, In, Ids
<1>2. /\ At(s, p - 1) \in 0 .. Nodes /\ At(s, p + 1) \in 0 .. Nodes
      /\ At(s, p - 1) = 0 <=> p = 1
      /\ At(s, p + 1) = 0 <=> p = Len(s)
      /\ p # 1 => At(s, p - 1) = s[p - 1] /\ p - 1 \in 1 .. Len(s)
      /\ p # Len(s) => At(s, p + 1) = s[p + 1] /\ p + 1 \in 1 .. Len(s)
  <2>1. /\ p - 1 \in Int /\ p + 1 \in Int /\ (p - 1 \in 1 .. Len(s) <=> p # 1)
        /\ (p + 1 \in 1 .. Len(s) <=> p # Len(s))
    BY <1>1
  <2>2. /\ At(s, p - 1) \in 0 .. Nodes
        /\ IF p - 1 \in 1 .. Len(s) THEN At(s, p - 1) = s[p - 1] /\ s[p - 1] # 0
           ELSE At(s, p - 1) = 0
    BY <1>1, <2>1, AtType
  <2>3. /\ At(s, p + 1) \in 0 .. Nodes
        /\ IF p + 1 \in 1 .. Len(s) THEN At(s, p + 1) = s[p + 1] /\ s[p + 1] # 0
           ELSE At(s, p + 1) = 0
    BY <1>1, <2>1, AtType
  <2> QED  BY <2>1, <2>2, <2>3
<1>3. /\ l.next[s[p]] = At(s, p + 1) /\ l.prev[s[p]] = At(s, p - 1)
      /\ s[p] = l.head <=> p = 1
      /\ s[p] = l.tail <=> p = Len(s)
  <2>1. 1 \in 1 .. Len(s) /\ Len(s) \in 1 .. Len(s) /\ At(s, 1) = s[1]
        /\ At(s, Len(s)) = s[Len(s)]
    BY <1>1 DEF At
  <2> QED  BY <1>1, <2>1
<1>4. /\ m.head = IF p = 1 THEN At(s, p + 1) ELSE l.head
      /\ m.tail = IF p = Len(s) THEN At(s, p - 1) ELSE l.tail
      /\ \A j \in Ids : m.next[j] = IF j = At(s, p - 1) THEN At(s, p + 1) ELSE l.next[j]
      /\ \A j \in Ids : m.prev[j] = IF j = At(s, p + 1) THEN At(s, p - 1) ELSE l.prev[j]
  BY <1>3 DEF Unlink
<1>5. m \in Lists
  BY <1>2, <1>3 DEF Unlink, Lists
<1>6. SameOutside(l, m, In(s))
  <2> SUFFICES ASSUME NEW j \in Ids \ In(s)
               PROVE  m.next[j] = l.next[j] /\ m.prev[j] = l.prev[j]
    BY DEF SameOutside
  <2>1. j # At(s, p - 1) /\ j # At(s, p + 1)
    BY <1>1, <1>2, TimerAssumption DEF In, Ids
  <2> QED  BY <1>4, <2>1
<1> HIDE DEF m, t
<1>7. /\ Distinct(t) /\ Len(t) = Len(s) - 1
      /\ \A k \in 1 .. p - 1 : t[k] = s[k]
      /\ \A k \in p .. Len(s) - 1 : t[k] = s[k + 1]
  BY <1>1, WithoutIs DEF t
<1>8. \A k \in 0 .. p - 1 : At(t, k) = At(s, k)
  <2> SUFFICES ASSUME NEW k \in 0 .. p - 1  PROVE At(t, k) = At(s, k)
    OBVIOUS
  <2>1. k = 0 => At(t, k) = 0 /\ At(s, k) = 0
    BY <1>1, <1>7 DEF At
  <2>2. k # 0 => At(t, k) = s[k] /\ At(s, k) = s[k]
    BY <1>1, <1>7 DEF At
  <2> QED  BY <2>1, <2>2
<1>9. \A k \in p .. Len(s) : At(t, k) = At(s, k + 1)
  <2> SUFFICES ASSUME NEW k \in p .. Len(s)  PROVE At(t, k) = At(s, k + 1)
    OBVIOUS
  <2>1. k = Len(s) => At(t, k) = 0 /\ At(s, k + 1) = 0
    BY <1>1, <1>7 DEF At
  <2>2. k # Len(s) => At(t, k) = s[k + 1] /\ At(s, k + 1) = s[k + 1]
    BY <1>1, <1>7 DEF At
  <2> QED  BY <2>1, <2>2
<1>10. m.head = At(t, 1)
  <2>1. CASE p = 1
    BY <1>1, <1>4, <1>9, <2>1
  <2>2. CASE p # 1
    BY <1>1, <1>4, <1>8, <2>2
  <2> QED  BY <2>1, <2>2
<1>11. m.tail = At(t, Len(t))
  <2>1. CASE p = Len(s)
    <3>1. Len(t) \in 0 .. p - 1 /\ Len(t) = p - 1
      BY <1>1, <1>7, <2>1
    <3> QED  BY <1>4, <1>8, <2>1, <3>1
  <2>2. CASE p # Len(s)
    <3>1. Len(t) \in p .. Len(s) /\ Len(t) + 1 = Len(s)
      BY <1>1, <1>7, <2>2
    <3> QED  BY <1>1, <1>4, <1>9, <2>2, <3>1
  <2> QED  BY <2>1, <2>2
<1>12. ASSUME NEW k \in 1 .. Len(t)
       PROVE  m.next[t[k]] = At(t, k + 1) /\ m.prev[t[k]] = At(t, k - 1)
  <2>1. CASE k < p
    <3>1. /\ t[k] = s[k] /\ s[k] \in Ids /\ k \in 1 .. Len(s)
          /\ l.next[s[k]] = At(s, k + 1) /\ l.prev[s[k]] = At(s, k - 1)
      BY <1>1, <1>7, <2>1
    <3>2. k # p - 1 => s[k] # At(s, p - 1)
      BY <1>1, <1>2, <2>1, <3>1
    <3>3. s[k] # At(s, p + 1)
      BY <1>1, <1>2, <2>1, <3>1
    <3>4. m.prev[t[k]] = At(t, k - 1)
      <4>1. m.prev[t[k]] = l.prev[s[k]]
        BY <1>4, <3>1, <3>3
      <4>2. k - 1 \in 0 .. p - 1
        BY <1>1, <2>1, <3>1
      <4> QED  BY <1>8, <3>1, <4>1, <4>2
    <3>5. m.next[t[k]] = At(t, k + 1)
      <4>1. CASE k = p - 1
        <5>1. s[k] = At(s, p - 1)
          BY <1>1, <1>2, <3>1, <4>1
        <5>2. p \in p .. Len(s) /\ k + 1 = p
          BY <1>1, <4>1
        <5> QED  BY <1>4, <1>9, <3>1, <5>1, <5>2
      <4>2. CASE k # p - 1
        <5>1. m.next[t[k]] = l.next[s[k]]
          BY <1>4, <3>1, <3>2, <4>2
        <5>2. k + 1 \in 0 .. p - 1
          BY <1>1, <2>1, <3>1, <4>2
        <5> QED  BY <1>8, <3>1, <5>1, <5>2
      <4> QED  BY <4>1, <4>2
    <3> QED  BY <3>4, <3>5
  <2>2. CASE k >= p
    <3>1. /\ t[k] = s[k + 1] /\ s[k + 1] \in Ids /\ k + 1 \in 1 .. Len(s)
          /\ l.next[s[k + 1]] = At(s, k + 2) /\ l.prev[s[k + 1]] = At(s, k)
      <4>1. k \in p .. Len(s) - 1 /\ k + 1 \in 1 .. Len(s) /\ (k + 1) + 1 = k + 2 /\ (k + 1) - 1 = k
        BY <1>1, <1>7, <2>2
      <4> QED  BY <1>1, <1>7, <4>1
    <3>2. k # p => s[k + 1] # At(s, p + 1)
      BY <1>1, <1>2, <2>2, <3>1
    <3>3. s[k + 1] # At(s, p - 1)
      BY <1>1, <1>2, <2>2, <3>1
    <3>4. m.next[t[k]] = At(t, k + 1)
      <4>1. m.next[t[k]] = l.next[s[k + 1]]
        BY <1>4, <3>1, <3>3
      <4>2. k + 1 \in p .. Len(s) /\ (k + 1) + 1 = k + 2
        BY <1>1, <1>7, <2>2
      <4> QED  BY <1>9, <3>1, <4>1, <4>2
    <3>5. m.prev[t[k]] = At(t, k - 1)
      <4>1. CASE k = p
        <5>1. s[k + 1] = At(s, p + 1)
          BY <1>1, <1>2, <3>1, <4>1
        <5>2. p - 1 \in 0 .. p - 1
          BY <1>1
        <5> QED  BY <1>4, <1>8, <3>1, <4>1, <5>1, <5>2
      <4>2. CASE k # p
        <5>1. m.prev[t[k]] = l.prev[s[k + 1]]
          BY <1>4, <3>1, <3>2, <4>2
        <5>2. k - 1 \in p .. Len(s) /\ (k - 1) + 1 = k
          BY <1>1, <2>2, <3>1, <4>2
        <5> QED  BY <1>9, <3>1, <5>1, <5>2
      <4> QED  BY <4>1, <4>2
    <3> QED  BY <3>4, <3>5
  <2> QED  BY <1>1, <1>7, <2>1, <2>2
<1>13. IsList(m, t)
  BY <1>7, <1>10, <1>11, <1>12 DEF IsList
<1> QED  BY <1>5, <1>6, <1>13 DEF m, t

(* A node that is linked to nothing.                                       *)
LEMMA UnlinkNothing ==
  ASSUME NEW l \in Lists, NEW i \in Ids, l.next[i] = 0, l.prev[i] = 0,
         l.head # i, l.tail # i
  PROVE  Unlink(l, i) = l
<1>1. \A j \in Ids : j # 0
  BY TimerAssumption DEF Ids
<1>2. /\ l = [head |-> l.head, tail |-> l.tail, next |-> l.next, prev |-> l.prev]
      /\ l.next = [j \in Ids |-> l.next[j]] /\ l.prev = [j \in Ids |-> l.prev[j]]
  BY DEF Lists
<1>3. /\ [j \in Ids |-> IF j = l.prev[i] THEN l.next[i] ELSE l.next[j]] = l.next
      /\ [j \in Ids |-> IF j = l.next[i] THEN l.prev[i] ELSE l.prev[j]] = l.prev
  BY <1>1, <1>2
<1>4. Unlink(l, i) = [head |-> l.head, tail |-> l.tail,
        next |-> [j \in Ids |-> IF j = l.prev[i] THEN l.next[i] ELSE l.next[j]],
        prev |-> [j \in Ids |-> IF j = l.next[i] THEN l.prev[i] ELSE l.prev[j]]]
  BY DEF Unlink
<1> QED  BY <1>2, <1>3, <1>4

(* The nodes from the tail on.                                             *)
LEMMA WalkBack ==
  ASSUME NEW l \in Lists, NEW s, IsList(l, s)
  PROVE  Walk(l.prev, l.tail) = [k \in 0 .. Nodes |-> At(s, Len(s) - k)]
<1> DEFINE W == [k \in 0 .. Nodes |-> At(s, Len(s) - k)]
<1>1. /\ Distinct(s) /\ s \in Seq(Ids) /\ Len(s) \in Nat /\ l.tail = At(s, Len(s))
      /\ \A k \in 1 .. Len(s) : s[k] \in Ids /\ s[k] # 0 /\ l.prev[s[k]] = At(s, k - 1)
  BY TimerAssumption DEF IsList, Distinct, Ids
<1>2. W[0] = l.tail /\ W \in [0 .. Nodes -> 0 .. Nodes]
  <2>1. \A k \in 0 .. Nodes : At(s, Len(s) - k) \in 0 .. Nodes
    BY <1>1, AtType
  <2> QED  BY <1>1, <2>1, TimerAssumption
<1>3. ASSUME NEW k \in 1 .. Nodes
      PROVE  W[k] = IF W[k - 1] = 0 THEN 0 ELSE l.prev[W[k - 1]]
  <2>1. k - 1 \in 0 .. Nodes /\ k \in 0 .. Nodes /\ k \in Nat \ {0}
        /\ Len(s) - (k - 1) = (Len(s) - k) + 1 /\ Len(s) - k \in Int
    BY <1>1, TimerAssumption
  <2>2. W[k - 1] = At(s, (Len(s) - k) + 1) /\ W[k] = At(s, Len(s) - k)
    BY <2>1
  <2>3. CASE k <= Len(s)
    <3>1. /\ (Len(s) - k) + 1 \in 1 .. Len(s)
          /\ At(s, (Len(s) - k) + 1) = s[(Len(s) - k) + 1]
          /\ ((Len(s) - k) + 1) - 1 = Len(s) - k
      BY <1>1, <2>1, <2>3 DEF At
    <3> QED  BY <1>1, <2>2, <3>1
  <2>4. CASE ~(k <= Len(s))
    <3>1. At(s, (Len(s) - k) + 1) = 0 /\ At(s, Len(s) - k) = 0
      BY <1>1, <2>1, <2>4 DEF At
    <3> QED  BY <2>2, <3>1
  <2> QED  BY <2>3, <2>4
<1> HIDE DEF W
<1>4. Walk(l.prev, l.tail) = W
  <2>1. Walks(l.prev, l.tail, W)
    BY <1>2, <1>3 DEF Walks
  <2> QED  BY <2>1, WalkIs
<1> QED  BY <1>4 DEF W

(* Where the walk of evtimer_push from the tail stops: behind the last     *)
(* node that is not due later than i.                                      *)
LEMMA PushPlace ==
  ASSUME NEW l \in Lists, NEW s, IsList(l, s), NEW i \in Ids,
         NEW due \in [Ids -> Nat], Sorted(s, due)
  PROVE  \E p \in 0 .. Len(s) :
           /\ Push(l, i, due) = Link(l, At(s, p), i, At(s, p + 1))
           /\ \A q \in 1 .. p : due[s[q]] <= due[i]
           /\ \A q \in p + 1 .. Len(s) : due[i] <= due[s[q]]
<1> DEFINE w == Walk(l.prev, l.tail)
           Fits(m) == w[m] = 0 \/ due[w[m]] <= due[i]
           k == CHOOSE m \in 0 .. Nodes :
                  /\ w[m] = 0 \/ due[w[m]] <= due[i]
                  /\ \A n \in 0 .. m - 1 : due[w[n]] > due[i]
<1>1. /\ Distinct(s) /\ s \in Seq(Ids) /\ Len(s) \in Nat /\ Len(s) <= Nodes
      /\ l.head = At(s, 1)
      /\ \A q \in 1 .. Len(s) : /\ s[q] \in Ids /\ s[q] # 0 /\ due[s[q]] \in Nat
                                /\ l.next[s[q]] = At(s, q + 1)
      /\ due[i] \in Nat
  <2>1. /\ Distinct(s) /\ l.head = At(s, 1)
        /\ \A q \in 1 .. Len(s) : l.next[s[q]] = At(s, q + 1)
    BY DEF IsList
  <2>2. s \in Seq(Ids) /\ Len(s) \in Nat /\ \A q \in 1 .. Len(s) : s[q] \in Ids
    BY <2>1 DEF Distinct
  <2>3. Len(s) <= Nodes
    BY <2>1, <2>2, DistinctFits, TimerAssumption
  <2>4. 0 \notin Ids /\ \A j \in Ids : due[j] \in Nat
    BY TimerAssumption DEF Ids
  <2> QED  BY <2>1, <2>2, <2>3, <2>4
<1>2. Push(l, i, due) = IF l.head = 0 THEN Link(l, 0, i, 0)
                        ELSE IF w[k] = 0 THEN Link(l, 0, i, l.head)
                        ELSE Link(l, w[k], i, l.next[w[k]])
  BY DEF Push
<1>3. \A m \in 0 .. Nodes : w[m] = At(s, Len(s) - m)
  BY WalkBack
<1> HIDE DEF w
<1>4. \A m \in 0 .. Nodes : /\ m < Len(s) => w[m] = s[Len(s) - m] /\ w[m] \in Ids /\ w[m] # 0
                            /\ m >= Len(s) => w[m] = 0
  <2> SUFFICES ASSUME NEW m \in 0 .. Nodes
               PROVE  /\ m < Len(s) => w[m] = s[Len(s) - m] /\ w[m] \in Ids /\ w[m] # 0
                      /\ m >= Len(s) => w[m] = 0
    OBVIOUS
  <2>1. m < Len(s) => Len(s) - m \in 1 .. Len(s)
    BY <1>1, TimerAssumption
  <2>2. m >= Len(s) => Len(s) - m \notin 1 .. Len(s)
    BY <1>1, TimerAssumption
  <2> QED  BY <1>1, <1>3, <2>1, <2>2 DEF At
<1>5. \E m \in 0 .. Nodes : Fits(m) /\ \A n \in 0 .. m - 1 : due[w[n]] > due[i]
  <2> DEFINE S == {m \in 0 .. Nodes : Fits(m)}
  <2>1. Len(s) \in S /\ S \subseteq Nat
    BY <1>1, <1>4, TimerAssumption
  <2>2. PICK m \in S : \A n \in S : m <= n
    <3> HIDE DEF S
    <3>1. S # {}
      BY <2>1
    <3> QED  BY <2>1, <3>1, LeastOf
  <2>3. ASSUME NEW n \in 0 .. m - 1  PROVE due[w[n]] > due[i]
    <3>1. n \in 0 .. Nodes /\ n \notin S
      BY <2>2, TimerAssumption
    <3>2. w[n] # 0 /\ ~(due[w[n]] <= due[i]) /\ w[n] \in Ids
      BY <1>1, <1>4, <3>1, TimerAssumption
    <3> QED  BY <1>1, <3>2
  <2> QED  BY <2>2, <2>3
<1>6. k \in 0 .. Nodes /\ Fits(k) /\ \A n \in 0 .. k - 1 : due[w[n]] > due[i]
  BY <1>5
<1> HIDE DEF k
<1>7. CASE k >= Len(s)
  <2>1. w[k] = 0
    BY <1>4, <1>6, <1>7
  <2>2. Push(l, i, due) = Link(l, At(s, 0), i, At(s, 0 + 1))
    BY <1>1, <1>2, <2>1 DEF At
  <2>3. ASSUME NEW q \in 0 + 1 .. Len(s)  PROVE due[i] <= due[s[q]]
    <3>1. Len(s) - q \in 0 .. k - 1 /\ Len(s) - q \in 0 .. Nodes /\ Len(s) - q < Len(s)
          /\ Len(s) - (Len(s) - q) = q /\ q \in 1 .. Len(s)
      BY <1>1, <1>6, <1>7, TimerAssumption
    <3>2. due[w[Len(s) - q]] > due[i] /\ w[Len(s) - q] = s[q]
      BY <1>4, <1>6, <3>1
    <3> QED  BY <1>1, <3>1, <3>2
  <2>4. 0 \in 0 .. Len(s) /\ \A q \in 1 .. 0 : FALSE
    BY <1>1
  <2> QED  BY <2>2, <2>3, <2>4
<1>8. CASE k < Len(s)
  <2> DEFINE p == Len(s) - k
  <2>1. p \in 1 .. Len(s) /\ w[k] = s[p] /\ w[k] # 0 /\ p \in Nat
    BY <1>1, <1>4, <1>6, <1>8, TimerAssumption
  <2>2. l.head # 0 /\ s[p] = At(s, p) /\ l.next[s[p]] = At(s, p + 1)
    <3>1. 1 \in 1 .. Len(s)
      BY <1>1, <1>8, <1>6, TimerAssumption
    <3> QED  BY <1>1, <2>1, <3>1 DEF At
  <2>3. Push(l, i, due) = Link(l, At(s, p), i, At(s, p + 1))
    BY <1>2, <2>1, <2>2
  <2>4. due[s[p]] <= due[i]
    BY <1>6, <2>1
  <2>5. ASSUME NEW q \in 1 .. p  PROVE due[s[q]] <= due[i]
    <3>1. q \in 1 .. Len(s) /\ q <= p
      BY <1>1, <2>1
    <3>2. due[s[q]] <= due[s[p]]
      BY <2>1, <3>1 DEF Sorted
    <3> QED  BY <1>1, <2>1, <2>4, <3>1, <3>2
  <2>6. ASSUME NEW q \in p + 1 .. Len(s)  PROVE due[i] <= due[s[q]]
    <3>1. Len(s) - q \in 0 .. k - 1 /\ Len(s) - q \in 0 .. Nodes /\ Len(s) - q < Len(s)
          /\ Len(s) - (Len(s) - q) = q /\ q \in 1 .. Len(s)
      BY <1>1, <1>6, <1>8, TimerAssumption
    <3>2. due[w[Len(s) - q]] > due[i] /\ w[Len(s) - q] = s[q]
      BY <1>4, <1>6, <3>1
    <3> QED  BY <1>1, <3>1, <3>2
  <2> HIDE DEF p
  <2>7. p \in 0 .. Len(s)
    BY <2>1, <1>1
  <2> QED  BY <2>3, <2>5, <2>6, <2>7
<1> QED  BY <1>1, <1>6, <1>7, <1>8, TimerAssumption

(* evtimer_push puts a node that is not in the list where it is due.       *)
LEMMA PushDoes ==
  ASSUME NEW l \in Lists, NEW s, IsList(l, s), NEW i \in Ids, i \notin In(s),
         NEW due \in [Ids -> Nat], Sorted(s, due)
  PROVE  \E t : /\ Push(l, i, due) \in Lists /\ IsList(Push(l, i, due), t)
                /\ Sorted(t, due) /\ In(t) = In(s) \cup {i}
                /\ SameOutside(l, Push(l, i, due), In(t))
<1>1. PICK p \in 0 .. Len(s) :
           /\ Push(l, i, due) = Link(l, At(s, p), i, At(s, p + 1))
           /\ \A q \in 1 .. p : due[s[q]] <= due[i]
           /\ \A q \in p + 1 .. Len(s) : due[i] <= due[s[q]]
  BY PushPlace
<1> DEFINE t == Insert(s, p, i)
<1>2. Distinct(s) /\ Len(s) \in Nat /\ p \in Nat /\ p <= Len(s) /\ due[i] \in Nat
      /\ \A q \in 1 .. Len(s) : due[s[q]] \in Nat
  BY DEF IsList, Distinct
<1>3. /\ Push(l, i, due) \in Lists /\ IsList(Push(l, i, due), t)
      /\ SameOutside(l, Push(l, i, due), In(s) \cup {i})
  BY <1>1, LinkDoes
<1>4. /\ Len(t) = Len(s) + 1 /\ In(t) = In(s) \cup {i}
      /\ \A q \in 1 .. p : t[q] = s[q]
      /\ t[p + 1] = i
      /\ \A q \in p + 1 .. Len(s) : t[q + 1] = s[q]
  BY <1>2, InsertIs
<1> HIDE DEF t
<1>5. Sorted(t, due)
  <2> SUFFICES ASSUME NEW j \in 1 .. Len(t), NEW k \in 1 .. Len(t), j <= k
               PROVE  due[t[j]] <= due[t[k]]
    BY DEF Sorted
  <2>1. \A q \in 1 .. Len(t) : \/ q <= p /\ t[q] = s[q] /\ q \in 1 .. Len(s) /\ q \in 1 .. p
                               \/ q = p + 1 /\ t[q] = i
                               \/ /\ q > p + 1 /\ t[q] = s[q - 1] /\ q - 1 \in 1 .. Len(s)
                                  /\ q - 1 \in p + 1 .. Len(s)
    <3> SUFFICES ASSUME NEW q \in 1 .. Len(t)
                 PROVE  \/ q <= p /\ t[q] = s[q] /\ q \in 1 .. Len(s) /\ q \in 1 .. p
                        \/ q = p + 1 /\ t[q] = i
                        \/ /\ q > p + 1 /\ t[q] = s[q - 1] /\ q - 1 \in 1 .. Len(s)
                           /\ q - 1 \in p + 1 .. Len(s)
      OBVIOUS
    <3>1. CASE q <= p
      BY <1>2, <1>4, <3>1
    <3>2. CASE q = p + 1
      BY <1>4, <3>2
    <3>3. CASE q > p + 1
      <4>1. q - 1 \in p + 1 .. Len(s) /\ q - 1 \in 1 .. Len(s) /\ (q - 1) + 1 = q
        BY <1>2, <1>4, <3>3
      <4> QED  BY <1>4, <3>3, <4>1
    <3> QED  BY <1>2, <3>1, <3>2, <3>3
  <2>2. CASE j <= p
    <3>1. t[j] = s[j] /\ j \in 1 .. Len(s) /\ j \in 1 .. p
      BY <1>2, <2>1, <2>2
    <3>2. CASE k = p + 1
      BY <1>1, <1>4, <3>1, <3>2
    <3>3. CASE k # p + 1
      <4>1. \E q \in 1 .. Len(s) : t[k] = s[q] /\ j <= q
        <5>1. CASE k <= p
          <6>1. t[k] = s[k] /\ k \in 1 .. Len(s)
            BY <1>2, <2>1, <5>1
          <6> QED  BY <6>1
        <5>2. CASE ~(k <= p)
          <6>1. t[k] = s[k - 1] /\ k - 1 \in 1 .. Len(s) /\ j <= k - 1
            BY <1>2, <2>1, <2>2, <3>3, <5>2
          <6> QED  BY <6>1
        <5> QED  BY <5>1, <5>2
      <4> QED  BY <3>1, <4>1 DEF Sorted
    <3> QED  BY <3>2, <3>3
  <2>3. CASE j = p + 1
    <3>1. CASE k = p + 1
      BY <1>2, <1>4, <2>3, <3>1
    <3>2. CASE k # p + 1
      <4>1. t[k] = s[k - 1] /\ k - 1 \in p + 1 .. Len(s)
        BY <1>2, <2>1, <2>3, <3>2
      <4> QED  BY <1>1, <1>4, <2>3, <4>1
    <3> QED  BY <3>1, <3>2
  <2>4. CASE j > p + 1
    <3>1. /\ t[j] = s[j - 1] /\ j - 1 \in 1 .. Len(s)
          /\ t[k] = s[k - 1] /\ k - 1 \in 1 .. Len(s) /\ j - 1 <= k - 1
      BY <1>2, <1>4, <2>1, <2>4
    <3> QED  BY <3>1 DEF Sorted
  <2> QED  BY <1>2, <1>4, <2>2, <2>3, <2>4
<1>6. SameOutside(l, Push(l, i, due), In(t))
  BY <1>3, <1>4
<1> QED  BY <1>3, <1>4, <1>5, <1>6

(* What is left of a sorted list is sorted.                                *)
LEMMA WithoutSorted ==
  ASSUME NEW s, Distinct(s), NEW p \in 1 .. Len(s), NEW due, Sorted(s, due)
  PROVE  Sorted(Without(s, p), due)
<1> DEFINE t == Without(s, p)
<1>1. /\ Len(t) = Len(s) - 1 /\ Len(s) \in Nat /\ p \in Nat
      /\ \A k \in 1 .. p - 1 : t[k] = s[k]
      /\ \A k \in p .. Len(s) - 1 : t[k] = s[k + 1]
  BY WithoutIs DEF Distinct
<1> HIDE DEF t
<1>2. \A j, k \in 1 .. Len(t) : j <= k => due[t[j]] <= due[t[k]]
  <2> SUFFICES ASSUME NEW j \in 1 .. Len(t), NEW k \in 1 .. Len(t), j <= k
               PROVE  due[t[j]] <= due[t[k]]
    OBVIOUS
  <2>1. CASE k < p
    <3>1. t[j] = s[j] /\ t[k] = s[k] /\ j \in 1 .. Len(s) /\ k \in 1 .. Len(s)
      BY <1>1, <2>1
    <3> QED  BY <3>1 DEF Sorted
  <2>2. CASE j < p /\ k >= p
    <3>1. t[j] = s[j] /\ t[k] = s[k + 1] /\ j \in 1 .. Len(s) /\ k + 1 \in 1 .. Len(s)
          /\ j <= k + 1
      BY <1>1, <2>2
    <3> QED  BY <3>1 DEF Sorted
  <2>3. CASE j >= p
    <3>1. t[j] = s[j + 1] /\ t[k] = s[k + 1] /\ j + 1 \in 1 .. Len(s) /\ k + 1 \in 1 .. Len(s)
          /\ j + 1 <= k + 1
      BY <1>1, <2>3
    <3> QED  BY <3>1 DEF Sorted
  <2> QED  BY <1>1, <2>1, <2>2, <2>3
<1> QED  BY <1>2 DEF Sorted, t

-----------------------------------------------------------------------------
(* The operations of evtimer.c.                                            *)

(* The armed nodes and the free ones, in the order of the links.           *)
Shape(armed, free) ==
  /\ IsList(list, armed) /\ Sorted(armed, evusec)
  /\ Path(list.next, left, free)
  /\ In(free) = {i \in Ids : ~ison[i]}
  /\ \A i \in In(armed) : ison[i]
  /\ \A i \in Ids \ In(armed) : ison[i] => Unlinked(i)

(* The types of what belongs to the nodes.                                 *)
NodeTypes ==
  /\ list \in Lists /\ left \in 0 .. Nodes /\ ison \in [Ids -> BOOLEAN]
  /\ arg \in [Ids -> Owners \cup {NoConn}] /\ evusec \in [Ids -> Nat]

(* The nodes of a sequence are nodes.                                      *)
LEMMA InIds ==
  ASSUME NEW s, Distinct(s)
  PROVE  In(s) \subseteq Ids /\ Len(s) \in Nat
BY DEF In, Distinct

(* The order of a list when other nodes are renewed.                       *)
LEMMA SortedAgain ==
  ASSUME NEW s, NEW due, NEW new, Sorted(s, due), \A i \in In(s) : new[i] = due[i]
  PROVE  Sorted(s, new)
BY DEF Sorted, In

(* Taking a node out that is on, be it in the list or expired.             *)
LEMMA UnlinkOn ==
  ASSUME NodeTypes, NEW armed, NEW free, Shape(armed, free), NEW i \in Ids, ison[i]
  PROVE  \E a : /\ Unlink(list, i) \in Lists /\ IsList(Unlink(list, i), a)
                /\ Sorted(a, evusec) /\ In(a) = In(armed) \ {i}
                /\ SameOutside(list, Unlink(list, i), In(armed))
<1>1. list \in Lists /\ IsList(list, armed) /\ Sorted(armed, evusec) /\ Distinct(armed)
  BY DEF NodeTypes, Shape, IsList
<1>2. CASE i \in In(armed)
  <2>1. PICK p \in 1 .. Len(armed) : i = armed[p]
    BY <1>2 DEF In
  <2>2. /\ Unlink(list, i) \in Lists /\ IsList(Unlink(list, i), Without(armed, p))
        /\ SameOutside(list, Unlink(list, i), In(armed))
    BY <1>1, <2>1, UnlinkDoes
  <2>3. In(Without(armed, p)) = In(armed) \ {i} /\ Sorted(Without(armed, p), evusec)
    BY <1>1, <2>1, WithoutIs, WithoutSorted
  <2> QED  BY <2>2, <2>3
<1>3. CASE i \notin In(armed)
  <2>1. list.next[i] = 0 /\ list.prev[i] = 0
    BY <1>3 DEF Shape, Unlinked
  <2>2. list.head # i /\ list.tail # i
    <3>1. \A k \in Int : At(armed, k) = 0 \/ At(armed, k) \in In(armed)
      BY DEF At, In
    <3>2. i # 0
      BY TimerAssumption DEF Ids
    <3>3. Len(armed) \in Nat
      BY <1>1, InIds
    <3> QED  BY <1>1, <1>3, <3>1, <3>2, <3>3 DEF IsList
  <2>3. Unlink(list, i) = list
    BY <1>1, <2>1, <2>2, UnlinkNothing
  <2>4. SameOutside(list, Unlink(list, i), In(armed)) /\ In(armed) = In(armed) \ {i}
    BY <1>3, <2>3 DEF SameOutside
  <2> QED  BY <1>1, <2>3, <2>4
<1> QED  BY <1>2, <1>3

(* The other nodes of a path whose links were not touched.                 *)
LEMMA PathAgain ==
  ASSUME NEW link, NEW new, NEW first, NEW s, Path(link, first, s),
         \A j \in In(s) : new[j] = link[j]
  PROVE  Path(new, first, s)
BY DEF Path, In

(* evtimer_update of a node that is on.                                    *)
LEMMA UpdateList ==
  ASSUME NodeTypes, now \in Nat, NEW armed, NEW free, Shape(armed, free), NEW c \in Owners,
         evid[c] \in Ids, NEW timeout \in Nat, Update(c, timeout)
  PROVE  /\ NodeTypes' /\ ison' = ison /\ evid' = evid
         /\ \A i \in Ids \ {evid[c]} : arg'[i] = arg[i]
         /\ ison[evid[c]] => arg'[evid[c]] = c
         /\ \E a : Shape(a, free)' /\ In(armed) \subseteq In(a)
                   /\ (ison[evid[c]] => evid[c] \in In(a))
<1> DEFINE i == evid[c]
<1>1. CASE ~ison[i] /\ UNCHANGED <<nodeVars, evid>>
  <2>1. NodeTypes' /\ Shape(armed, free)'
    BY <1>1 DEF NodeTypes, Shape, Unlinked, nodeVars
  <2> QED  BY <1>1, <2>1 DEF nodeVars
<1>2. CASE /\ ison[i]
           /\ evusec' = [evusec EXCEPT ![i] = now + timeout]
           /\ list' = Push(Unlink(list, i), i, evusec')
           /\ arg' = [arg EXCEPT ![i] = c]
           /\ UNCHANGED <<left, ison, evid>>
  <2>1. PICK b : /\ Unlink(list, i) \in Lists /\ IsList(Unlink(list, i), b)
                 /\ Sorted(b, evusec) /\ In(b) = In(armed) \ {i}
                 /\ SameOutside(list, Unlink(list, i), In(armed))
    BY <1>2, UnlinkOn
  <2>2. evusec' \in [Ids -> Nat] /\ \A j \in Ids \ {i} : evusec'[j] = evusec[j]
    BY <1>2 DEF NodeTypes
  <2>3. Sorted(b, evusec')
    <3>1. In(b) \subseteq Ids \ {i}
      BY <2>1, InIds DEF IsList
    <3> QED  BY <2>1, <2>2, <3>1, SortedAgain
  <2>4. PICK a : /\ list' \in Lists /\ IsList(list', a)
                 /\ Sorted(a, evusec') /\ In(a) = In(b) \cup {i}
                 /\ SameOutside(Unlink(list, i), list', In(a))
    BY <1>2, <2>1, <2>2, <2>3, PushDoes
  <2>5. In(a) = In(armed) \cup {i} /\ SameOutside(list, list', In(a))
    <3>1. In(a) = In(armed) \cup {i}
      BY <2>1, <2>4
    <3> QED  BY <2>1, <2>4, <3>1 DEF SameOutside
  <2>6. NodeTypes'
    BY <1>2, <2>2, <2>4 DEF NodeTypes
  <2>7. /\ \A j \in Ids \ {i} : arg'[j] = arg[j]
        /\ arg'[i] = c
    BY <1>2 DEF NodeTypes
  <2>8. In(free) \cap In(a) = {}
    BY <1>2, <2>5 DEF Shape
  <2>9. Path(list'.next, left', free)
    <3>1. Path(list.next, left, free) /\ In(free) \subseteq Ids
      BY DEF Shape
    <3>2. \A j \in In(free) : list'.next[j] = list.next[j]
      BY <2>5, <2>8, <3>1 DEF SameOutside
    <3>3. Path(list'.next, left, free)
      BY <3>1, <3>2, PathAgain
    <3> QED  BY <1>2, <3>3
  <2>10. /\ In(free) = {j \in Ids : ~ison'[j]}
         /\ \A j \in In(a) : ison'[j]
         /\ \A j \in Ids \ In(a) : ison'[j] => Unlinked(j)'
    BY <1>2, <2>5 DEF Shape, SameOutside, Unlinked
  <2>11. Shape(a, free)'
    BY <2>4, <2>9, <2>10 DEF Shape
  <2> QED  BY <1>2, <2>5, <2>6, <2>7, <2>11
<1> QED  BY <1>1, <1>2 DEF Update

(* Popping the first node of a path, and pushing one in front of it.       *)
LEMMA PathTail ==
  ASSUME NEW link, NEW first, NEW s, Path(link, first, s), first # 0
  PROVE  /\ first \in In(s) /\ Path(link, link[first], Without(s, 1))
         /\ In(Without(s, 1)) = In(s) \ {first}
<1>1. /\ Distinct(s) /\ Len(s) \in Nat /\ 1 \in 1 .. Len(s) /\ first = s[1]
      /\ \A k \in 1 .. Len(s) : link[s[k]] = At(s, k + 1)
  BY InIds DEF Path, At
<1> DEFINE t == Without(s, 1)
<1>2. /\ Distinct(t) /\ Len(t) = Len(s) - 1 /\ In(t) = In(s) \ {first}
      /\ \A k \in 1 .. Len(s) - 1 : t[k] = s[k + 1]
  BY <1>1, WithoutIs
<1> HIDE DEF t
<1>3. \A k \in 1 .. Len(s) : At(t, k) = At(s, k + 1)
  BY <1>1, <1>2 DEF At
<1>4. link[first] = At(t, 1)
  BY <1>1, <1>3
<1>5. ASSUME NEW k \in 1 .. Len(t)  PROVE link[t[k]] = At(t, k + 1)
  <2>1. k + 1 \in 1 .. Len(s) /\ t[k] = s[k + 1]
    BY <1>1, <1>2
  <2> QED  BY <1>1, <1>3, <2>1
<1>6. Path(link, link[first], t)
  BY <1>2, <1>4, <1>5 DEF Path
<1>7. first \in In(s)
  BY <1>1 DEF In
<1> QED  BY <1>2, <1>6, <1>7 DEF t

(* Pushing a node in front of a path.                                      *)
LEMMA PathCons ==
  ASSUME NEW link, NEW first, NEW s, Path(link, first, s), NEW i \in Ids, i \notin In(s),
         link[i] = first
  PROVE  Path(link, i, Insert(s, 0, i)) /\ In(Insert(s, 0, i)) = In(s) \cup {i}
<1>1. /\ Distinct(s) /\ Len(s) \in Nat /\ 0 \in 0 .. Len(s) /\ first = At(s, 1)
      /\ \A k \in 1 .. Len(s) : link[s[k]] = At(s, k + 1)
  BY InIds DEF Path
<1> DEFINE t == Insert(s, 0, i)
<1>2. /\ Distinct(t) /\ Len(t) = Len(s) + 1 /\ In(t) = In(s) \cup {i}
      /\ t[1] = i /\ \A k \in 1 .. Len(s) : t[k + 1] = s[k]
  <2>1. PICK p : p = 0
    OBVIOUS
  <2>2. p \in 0 .. Len(s) /\ p + 1 = 1
    BY <1>1, <2>1
  <2> DEFINE u == Insert(s, p, i)
  <2>3. /\ Distinct(u) /\ Len(u) = Len(s) + 1 /\ In(u) = In(s) \cup {i}
        /\ u[p + 1] = i /\ \A k \in p + 1 .. Len(s) : u[k + 1] = s[k]
    BY <1>1, <2>2, InsertIs
  <2>4. t = u
    BY <2>1
  <2> HIDE DEF t, u
  <2> QED  BY <2>2, <2>3, <2>4
<1> HIDE DEF t
<1>3. At(t, 1) = i /\ \A k \in 1 .. Len(s) + 1 : At(t, k + 1) = At(s, k)
  <2>1. 1 \in 1 .. Len(t) /\ \A k \in 1 .. Len(s) : k + 1 \in 1 .. Len(t)
    BY <1>1, <1>2
  <2>2. (Len(s) + 1) + 1 \notin 1 .. Len(t) /\ Len(s) + 1 \notin 1 .. Len(s)
    BY <1>1, <1>2
  <2>3. \A k \in 1 .. Len(s) + 1 : k \in 1 .. Len(s) \/ k = Len(s) + 1
    BY <1>1
  <2> QED  BY <1>2, <2>1, <2>2, <2>3 DEF At
<1>4. ASSUME NEW k \in 1 .. Len(t)  PROVE link[t[k]] = At(t, k + 1)
  <2>1. CASE k = 1
    BY <1>1, <1>2, <1>3, <2>1
  <2>2. CASE k # 1
    <3>1. k - 1 \in 1 .. Len(s) /\ (k - 1) + 1 = k /\ k \in 1 .. Len(s) + 1
      BY <1>1, <1>2, <2>2
    <3>2. t[k] = s[k - 1]
      BY <1>2, <3>1
    <3> QED  BY <1>1, <1>3, <3>1, <3>2
  <2> QED  BY <2>1, <2>2
<1>5. Path(link, i, t)
  BY <1>2, <1>3, <1>4 DEF Path
<1> QED  BY <1>2, <1>5 DEF t

(* evtimer_add.                                                            *)
LEMMA AddList ==
  ASSUME NodeTypes, now \in Nat, NEW armed, NEW free, Shape(armed, free), NEW c \in Owners,
         NEW timeout \in Nat, Add(c, timeout)
  PROVE  /\ NodeTypes'
         /\ \A i \in Ids : ison[i] => ison'[i] /\ arg'[i] = arg[i]
         /\ \/ evid' = evid
            \/ left \in Ids /\ ~ison[left] /\ evid' = [evid EXCEPT ![c] = left]
         /\ \E a, f : Shape(a, f)' /\ In(armed) \subseteq In(a)
<1>1. CASE left = 0 /\ UNCHANGED <<nodeVars, evid>>
  <2>1. NodeTypes' /\ Shape(armed, free)'
    BY <1>1 DEF NodeTypes, Shape, Unlinked, nodeVars
  <2> QED  BY <1>1, <2>1 DEF nodeVars
<1>2. CASE /\ left # 0
           /\ evusec' = [evusec EXCEPT ![left] = now + timeout]
           /\ list' = Push(list, left, evusec')
           /\ left' = list.next[left]
           /\ ison' = [ison EXCEPT ![left] = TRUE]
           /\ arg' = [arg EXCEPT ![left] = c]
           /\ evid' = [evid EXCEPT ![c] = left]
  <2> DEFINE f == Without(free, 1)
  <2>1. /\ left \in In(free) /\ Path(list.next, left', f) /\ In(f) = In(free) \ {left}
    BY <1>2, PathTail DEF Shape
  <2> HIDE DEF f
  <2>2. left \in Ids /\ ~ison[left] /\ left \notin In(armed)
    BY <2>1 DEF Shape
  <2>3. evusec' \in [Ids -> Nat] /\ \A j \in Ids \ {left} : evusec'[j] = evusec[j]
    BY <1>2, <2>2 DEF NodeTypes
  <2>4. /\ list \in Lists /\ IsList(list, armed) /\ Distinct(armed) /\ Sorted(armed, evusec)
    BY DEF NodeTypes, Shape, IsList
  <2>5. Sorted(armed, evusec')
    <3>1. In(armed) \subseteq Ids \ {left}
      BY <2>2, <2>4, InIds
    <3> QED  BY <2>3, <2>4, <3>1, SortedAgain
  <2>6. PICK a : /\ list' \in Lists /\ IsList(list', a)
                 /\ Sorted(a, evusec') /\ In(a) = In(armed) \cup {left}
                 /\ SameOutside(list, list', In(a))
    BY <1>2, <2>2, <2>3, <2>4, <2>5, PushDoes
  <2>7. /\ ison' \in [Ids -> BOOLEAN] /\ \A j \in Ids : ison'[j] <=> ison[j] \/ j = left
    BY <1>2, <2>2 DEF NodeTypes
  <2>8. arg' \in [Ids -> Owners \cup {NoConn}] /\ \A j \in Ids \ {left} : arg'[j] = arg[j]
    BY <1>2, <2>2 DEF NodeTypes
  <2>9. left' \in 0 .. Nodes
    BY <1>2, <2>2 DEF NodeTypes, Lists
  <2>10. NodeTypes'
    BY <2>3, <2>6, <2>7, <2>8, <2>9 DEF NodeTypes
  <2>11. In(f) \subseteq Ids /\ In(f) \cap In(a) = {} /\ In(f) = {j \in Ids : ~ison'[j]}
    BY <2>1, <2>2, <2>6, <2>7 DEF Shape
  <2>12. Path(list'.next, left', f)
    <3>1. \A j \in In(f) : list'.next[j] = list.next[j]
      BY <2>6, <2>11 DEF SameOutside
    <3> QED  BY <2>1, <3>1, PathAgain
  <2>13. /\ \A j \in In(a) : ison'[j]
         /\ \A j \in Ids \ In(a) : ison'[j] => Unlinked(j)'
    BY <2>2, <2>4, <2>6, <2>7, InIds DEF Shape, SameOutside, Unlinked
  <2>14. Shape(a, f)'
    BY <2>6, <2>11, <2>12, <2>13 DEF Shape
  <2> QED  BY <1>2, <2>2, <2>6, <2>7, <2>8, <2>10, <2>14
<1> QED  BY <1>1, <1>2 DEF Add

(* evtimer_delete.                                                         *)
LEMMA DeleteList ==
  ASSUME NodeTypes, NEW armed, NEW free, Shape(armed, free), NEW i \in Ids \cup {-1}, Delete(i)
  PROVE  /\ NodeTypes'
         /\ \A j \in Ids \ {i} : ison'[j] = ison[j] /\ arg'[j] = arg[j]
         /\ \E a, f : Shape(a, f)' /\ In(armed) \ {i} \subseteq In(a)
<1>1. CASE UNCHANGED nodeVars
  <2>1. NodeTypes' /\ Shape(armed, free)'
    BY <1>1 DEF NodeTypes, Shape, Unlinked, nodeVars
  <2> QED  BY <1>1, <2>1 DEF nodeVars
<1>2. CASE /\ i > 0 /\ ison[i]
           /\ ison' = [ison EXCEPT ![i] = FALSE]
           /\ arg' = [arg EXCEPT ![i] = NoConn]
           /\ evusec' = [evusec EXCEPT ![i] = 0]
           /\ list' = [Unlink(list, i) EXCEPT !.next[i] = left, !.prev[i] = 0]
           /\ left' = i
  <2>1. i \in Ids /\ i \in 0 .. Nodes
    BY <1>2 DEF Ids
  <2>2. PICK a : /\ Unlink(list, i) \in Lists /\ IsList(Unlink(list, i), a)
                 /\ Sorted(a, evusec) /\ In(a) = In(armed) \ {i}
                 /\ SameOutside(list, Unlink(list, i), In(armed))
    BY <1>2, <2>1, UnlinkOn
  <2> DEFINE u == Unlink(list, i)
  <2> HIDE DEF u
  <2>3. /\ list' \in Lists /\ list'.head = u.head /\ list'.tail = u.tail
        /\ \A j \in Ids : list'.next[j] = IF j = i THEN left ELSE u.next[j]
        /\ \A j \in Ids : list'.prev[j] = IF j = i THEN 0 ELSE u.prev[j]
    <3>1. u \in Lists /\ list' = [u EXCEPT !.next[i] = left, !.prev[i] = 0]
          /\ left \in 0 .. Nodes
      BY <1>2, <2>2 DEF u, NodeTypes
    <3>2. list' = [head |-> u.head, tail |-> u.tail,
                   next |-> [u.next EXCEPT ![i] = left], prev |-> [u.prev EXCEPT ![i] = 0]]
      BY <3>1 DEF Lists
    <3> DEFINE n == [u.next EXCEPT ![i] = left]
               q == [u.prev EXCEPT ![i] = 0]
    <3>3. u.next \in [Ids -> 0 .. Nodes] /\ u.prev \in [Ids -> 0 .. Nodes]
          /\ u.head \in 0 .. Nodes /\ u.tail \in 0 .. Nodes /\ 0 \in 0 .. Nodes
      BY <3>1, TimerAssumption DEF Lists
    <3>4. n \in [Ids -> 0 .. Nodes] /\ \A j \in Ids : n[j] = IF j = i THEN left ELSE u.next[j]
      BY <3>1, <3>3
    <3>5. q \in [Ids -> 0 .. Nodes] /\ \A j \in Ids : q[j] = IF j = i THEN 0 ELSE u.prev[j]
      BY <3>3
    <3>6. list' = [head |-> u.head, tail |-> u.tail, next |-> n, prev |-> q]
      BY <3>2
    <3> HIDE DEF n, q
    <3>7. list' \in Lists
      BY <3>3, <3>4, <3>5, <3>6 DEF Lists
    <3> QED  BY <3>4, <3>5, <3>6, <3>7
  <2>4. In(a) \subseteq Ids \ {i}
    BY <2>2, InIds DEF IsList
  <2>5. IsList(list', a)
    <3>1. IsList(u, a)
      BY <2>2 DEF u
    <3>2. \A k \in 1 .. Len(a) : a[k] \in Ids \ {i}
      BY <2>4 DEF In
    <3>3. \A k \in 1 .. Len(a) : list'.next[a[k]] = u.next[a[k]] /\ list'.prev[a[k]] = u.prev[a[k]]
      BY <2>3, <3>2
    <3> QED  BY <2>3, <3>1, <3>3 DEF IsList
  <2>6. evusec' \in [Ids -> Nat] /\ \A j \in Ids \ {i} : evusec'[j] = evusec[j]
    BY <1>2, <2>1 DEF NodeTypes
  <2>7. Sorted(a, evusec')
    BY <2>2, <2>4, <2>6, SortedAgain
  <2>8. /\ ison' \in [Ids -> BOOLEAN] /\ \A j \in Ids \ {i} : ison'[j] = ison[j]
        /\ ~ison'[i]
    BY <1>2, <2>1 DEF NodeTypes
  <2>9. arg' \in [Ids -> Owners \cup {NoConn}] /\ \A j \in Ids \ {i} : arg'[j] = arg[j]
    BY <1>2, <2>1 DEF NodeTypes
  <2>10. NodeTypes'
    BY <1>2, <2>1, <2>3, <2>6, <2>8, <2>9 DEF NodeTypes
  <2> DEFINE f == Insert(free, 0, i)
  <2>11. i \notin In(free) /\ In(free) \subseteq Ids /\ In(free) \cap In(armed) = {}
    BY <1>2, <2>1 DEF Shape
  <2>12. Path(list'.next, i, f) /\ In(f) = In(free) \cup {i}
    <3>1. Path(list.next, left, free)
      BY DEF Shape
    <3>2. \A j \in In(free) : list'.next[j] = list.next[j]
      BY <2>2, <2>3, <2>11 DEF SameOutside, u
    <3>3. Path(list'.next, left, free) /\ list'.next[i] = left
      BY <2>1, <2>3, <3>1, <3>2, PathAgain
    <3> QED  BY <2>1, <2>11, <3>3, PathCons
  <2> HIDE DEF f
  <2>13. In(f) = {j \in Ids : ~ison'[j]}
    BY <2>1, <2>8, <2>12 DEF Shape
  <2>14. \A j \in In(a) : ison'[j]
    BY <2>2, <2>4, <2>8 DEF Shape
  <2>15. ASSUME NEW j \in Ids \ In(a), ison'[j]  PROVE Unlinked(j)'
    <3>1. j # i /\ j \notin In(armed) /\ ison[j]
      BY <2>2, <2>8, <2>15
    <3>2. list'.next[j] = list.next[j] /\ list'.prev[j] = list.prev[j]
      BY <2>2, <2>3, <3>1 DEF SameOutside, u
    <3> QED  BY <3>1, <3>2 DEF Shape, Unlinked
  <2>16. Shape(a, f)'
    BY <1>2, <2>5, <2>7, <2>12, <2>13, <2>14, <2>15 DEF Shape
  <2> QED  BY <1>2, <2>2, <2>8, <2>9, <2>10, <2>16
<1> QED  BY <1>1, <1>2 DEF Delete

(* What is left of a sequence behind its first n nodes.                    *)
After(s, n) == [k \in 1 .. Len(s) - n |-> s[k + n]]

(* Dropping the first nodes keeps the others different.                    *)
LEMMA AfterIs ==
  ASSUME NEW s, Distinct(s), NEW n \in 0 .. Len(s)
  PROVE  /\ Distinct(After(s, n)) /\ Len(After(s, n)) = Len(s) - n
         /\ Len(After(s, n)) \in Nat
         /\ In(After(s, n)) = In(s) \ {s[k] : k \in 1 .. n}
         /\ \A k \in 1 .. Len(After(s, n)) : /\ After(s, n)[k] = s[k + n]
                                            /\ k + n \in 1 .. Len(s)
<1> DEFINE t == After(s, n)
<1>1. /\ s \in Seq(Ids) /\ Len(s) \in Nat /\ n \in Nat /\ n <= Len(s) /\ Len(s) - n \in Nat
      /\ \A k \in 1 .. Len(s) : s[k] \in Ids
      /\ \A j, k \in 1 .. Len(s) : s[j] = s[k] => j = k
  BY DEF Distinct
<1>2. \A k \in 1 .. Len(s) - n : k + n \in 1 .. Len(s) /\ k + n \notin 1 .. n
  BY <1>1
<1>3. t \in [1 .. Len(s) - n -> Ids] /\ \A k \in 1 .. Len(s) - n : t[k] = s[k + n]
  BY <1>1, <1>2 DEF After
<1> HIDE DEF t
<1>4. t \in Seq(Ids) /\ Len(t) = Len(s) - n
  BY <1>1, <1>3
<1>5. Distinct(t)
  <2> SUFFICES ASSUME NEW j \in 1 .. Len(t), NEW k \in 1 .. Len(t), t[j] = t[k]  PROVE j = k
    BY <1>4 DEF Distinct
  <2>1. s[j + n] = s[k + n] /\ j + n \in 1 .. Len(s) /\ k + n \in 1 .. Len(s)
    BY <1>2, <1>3, <1>4
  <2>2. j + n = k + n
    BY <1>1, <2>1
  <2> QED  BY <1>1, <1>4, <2>2
<1>6. In(t) = In(s) \ {s[k] : k \in 1 .. n}
  <2>1. ASSUME NEW k \in 1 .. Len(t)
        PROVE  t[k] \in In(s) /\ \A j \in 1 .. n : t[k] # s[j]
    <3>1. k + n \in 1 .. Len(s) /\ k + n \notin 1 .. n /\ t[k] = s[k + n]
      BY <1>2, <1>3, <1>4
    <3>2. 1 .. n \subseteq 1 .. Len(s)
      BY <1>1
    <3>3. t[k] \in In(s)
      BY <3>1 DEF In
    <3>4. \A j \in 1 .. n : s[k + n] # s[j]
      BY <1>1, <3>1, <3>2
    <3> QED  BY <3>1, <3>3, <3>4
  <2>2. ASSUME NEW k \in 1 .. Len(s), k \notin 1 .. n  PROVE s[k] \in In(t)
    <3>1. k - n \in 1 .. Len(t) /\ (k - n) + n = k
      BY <1>1, <1>4, <2>2
    <3>2. t[k - n] = s[k]
      BY <1>3, <1>4, <3>1
    <3> QED  BY <3>1, <3>2 DEF In
  <2> QED  BY <2>1, <2>2 DEF In
<1> QED  BY <1>1, <1>2, <1>3, <1>4, <1>5, <1>6 DEF t

(* evtimer_check takes no more nodes than the list has.                    *)
LEMMA DueFits ==
  ASSUME NEW s, Distinct(s), NEW due, NEW time
  PROVE  Cardinality({k \in 1 .. Len(s) : due[s[k]] < time}) \in 0 .. Len(s)
<1> DEFINE D == {k \in 1 .. Len(s) : due[s[k]] < time}
<1>1. Len(s) \in Nat /\ 1 \in Int /\ Len(s) \in Int /\ Len(s) - 1 + 1 = Len(s)
      /\ (1 > Len(s) => Len(s) = 0)
  BY InIds
<1>2. IsFiniteSet(1 .. Len(s)) /\ Cardinality(1 .. Len(s)) = Len(s)
  BY <1>1, FS_Interval
<1>3. D \subseteq 1 .. Len(s)
  OBVIOUS
<1> HIDE DEF D
<1>4. IsFiniteSet(D) /\ Cardinality(D) <= Len(s)
  BY <1>2, <1>3, FS_Subset
<1>5. Cardinality(D) \in Nat
  BY <1>4, FS_CardinalityType
<1>6. Cardinality(D) \in 0 .. Len(s)
  BY <1>1, <1>4, <1>5
<1> QED  BY <1>6 DEF D

(* The list behind the first n nodes, and the links evtimer_check clears.  *)
TakeFirst(l, s, n) ==
  LET out == {s[k] : k \in 1 .. n}
      head == IF n < Len(s) THEN s[n + 1] ELSE 0
  IN [head |-> head,
      tail |-> IF head = 0 THEN 0 ELSE l.tail,
      next |-> [i \in Ids |-> IF i \in out THEN 0 ELSE l.next[i]],
      prev |-> [i \in Ids |-> IF i \in out \cup {head} THEN 0 ELSE l.prev[i]]]

(* The list behind the first nodes is a list again, and they are linked to *)
(* nothing.                                                                *)
LEMMA TakeFirstDoes ==
  ASSUME NEW l \in Lists, NEW s, IsList(l, s), NEW n \in 1 .. Len(s)
  PROVE  LET m == TakeFirst(l, s, n)
             out == {s[k] : k \in 1 .. n}
         IN /\ m \in Lists /\ IsList(m, After(s, n))
            /\ \A i \in out : m.next[i] = 0 /\ m.prev[i] = 0
            /\ SameOutside(l, m, In(s))
<1> DEFINE out == {s[k] : k \in 1 .. n}
           a == After(s, n)
           head == IF n < Len(s) THEN s[n + 1] ELSE 0
           m == TakeFirst(l, s, n)
<1>1. /\ Distinct(s) /\ Len(s) \in Nat /\ n \in Nat /\ n \in 0 .. Len(s)
      /\ \A k \in 1 .. Len(s) : /\ s[k] \in Ids /\ s[k] # 0 /\ s[k] \in 0 .. Nodes
                                /\ l.next[s[k]] = At(s, k + 1)
                                /\ l.prev[s[k]] = At(s, k - 1)
      /\ \A j, k \in 1 .. Len(s) : s[j] = s[k] => j = k
      /\ l.tail = At(s, Len(s))
  BY TimerAssumption DEF IsList, Distinct, Ids
<1>2. /\ Distinct(a) /\ Len(a) = Len(s) - n /\ Len(a) \in Nat
      /\ In(a) = In(s) \ out
      /\ \A k \in 1 .. Len(a) : a[k] = s[k + n] /\ k + n \in 1 .. Len(s)
  BY <1>1, AfterIs
<1> HIDE DEF a
<1>3. \A k \in Int : k >= 1 => At(a, k) = At(s, k + n)
  <2> SUFFICES ASSUME NEW k \in Int, k >= 1  PROVE At(a, k) = At(s, k + n)
    OBVIOUS
  <2>1. k \in 1 .. Len(a) <=> k + n \in 1 .. Len(s)
    BY <1>1, <1>2
  <2> QED  BY <1>2, <2>1 DEF At
<1>4. head = At(a, 1) /\ head \in 0 .. Nodes /\ (head = 0 <=> n = Len(s))
  <2>1. n < Len(s) => n + 1 \in 1 .. Len(s) /\ 1 \in 1 .. Len(a) /\ a[1] = s[n + 1]
    BY <1>1, <1>2
  <2>2. ~(n < Len(s)) => n = Len(s) /\ 1 \notin 1 .. Len(a)
    BY <1>1, <1>2
  <2> QED  BY <1>1, <2>1, <2>2, TimerAssumption DEF At
<1>5. out \subseteq In(s)
  BY <1>1 DEF In
<1>6. /\ m = [head |-> head,
             tail |-> IF head = 0 THEN 0 ELSE l.tail,
             next |-> [i \in Ids |-> IF i \in out THEN 0 ELSE l.next[i]],
             prev |-> [i \in Ids |-> IF i \in out \cup {head} THEN 0 ELSE l.prev[i]]]
  BY DEF TakeFirst
<1> HIDE DEF m, head, out
<1>7. m \in Lists
  <2>1. l.tail \in 0 .. Nodes /\ 0 \in 0 .. Nodes
    BY TimerAssumption DEF Lists
  <2>2. \A i \in Ids : l.next[i] \in 0 .. Nodes /\ l.prev[i] \in 0 .. Nodes
    BY DEF Lists
  <2> QED  BY <1>4, <1>6, <2>1, <2>2 DEF Lists
<1>8. /\ m.head = head /\ m.tail = IF head = 0 THEN 0 ELSE l.tail
      /\ \A i \in Ids : m.next[i] = IF i \in out THEN 0 ELSE l.next[i]
      /\ \A i \in Ids : m.prev[i] = IF i \in out \/ i = head THEN 0 ELSE l.prev[i]
  BY <1>6
<1>9. m.tail = At(a, Len(a))
  <2>1. CASE n = Len(s)
    BY <1>2, <1>4, <1>8, <2>1 DEF At
  <2>2. CASE n # Len(s)
    <3>1. Len(a) >= 1 /\ Len(a) \in Int /\ Len(a) + n = Len(s)
      BY <1>1, <1>2, <2>2
    <3> QED  BY <1>1, <1>3, <1>4, <1>8, <2>2, <3>1
  <2> QED  BY <2>1, <2>2
<1>10. ASSUME NEW k \in 1 .. Len(a)
       PROVE  m.next[a[k]] = At(a, k + 1) /\ m.prev[a[k]] = At(a, k - 1)
  <2>1. /\ a[k] \in Ids /\ a[k] \notin out /\ a[k] = s[k + n]
        /\ k \in Int /\ k >= 1 /\ k + 1 \in Int /\ k + 1 >= 1 /\ (k + 1) + n = (k + n) + 1
    BY <1>1, <1>2 DEF In
  <2>2. /\ k + n \in 1 .. Len(s)
        /\ l.next[s[k + n]] = At(s, (k + n) + 1) /\ l.prev[s[k + n]] = At(s, (k + n) - 1)
    BY <1>1, <1>2
  <2>3. m.next[a[k]] = At(a, k + 1)
    <3>1. At(a, k + 1) = At(s, (k + n) + 1)
      BY <1>3, <2>1
    <3> QED  BY <1>8, <2>1, <2>2, <3>1
  <2>4. CASE k = 1
    <3>1. a[k] = head /\ At(a, k - 1) = 0
      BY <1>2, <1>4, <2>4 DEF At
    <3> QED  BY <1>8, <2>1, <2>3, <3>1
  <2>5. CASE k # 1
    <3>1. /\ k - 1 \in Int /\ k - 1 >= 1 /\ (k - 1) + n = (k + n) - 1
          /\ 1 \in 1 .. Len(a)
      <4>1. k \in Int /\ k >= 1 /\ n \in Int /\ Len(a) \in Int /\ k <= Len(a)
        BY <1>1, <1>2
      <4> QED  BY ONLY <4>1, <2>5
    <3>2. At(a, k - 1) = At(s, (k + n) - 1)
      BY <1>3, <3>1
    <3>3. head = a[1]
      BY <1>4, <3>1 DEF At
    <3>4. a[k] # head
      BY <1>2, <2>5, <3>1, <3>3 DEF Distinct
    <3> QED  BY <1>8, <2>1, <2>2, <2>3, <3>2, <3>4
  <2> QED  BY <2>4, <2>5
<1>11. IsList(m, a)
  BY <1>2, <1>4, <1>8, <1>9, <1>10 DEF IsList
<1>12. \A i \in out : m.next[i] = 0 /\ m.prev[i] = 0
  BY <1>1, <1>5, <1>8, InIds
<1>13. SameOutside(l, m, In(s))
  <2>1. head = 0 \/ head \in In(s)
    BY <1>1, <1>2, <1>4 DEF At, In
  <2>2. 0 \notin Ids
    BY TimerAssumption DEF Ids
  <2> QED  BY <1>5, <1>8, <2>1, <2>2 DEF SameOutside
<1> QED  BY <1>7, <1>11, <1>12, <1>13 DEF m, out, a

(* evtimer_check takes the first nodes out of the list.                    *)
LEMMA CollectList ==
  ASSUME NodeTypes, now \in Nat, NEW armed, NEW free, Shape(armed, free), Collect
  PROVE  /\ NodeTypes' /\ ison' = ison /\ arg' = arg
         /\ collected' \in Seq(Ids) /\ collected' # <<>>
         /\ \E a : Shape(a, free)' /\ In(armed) \subseteq In(a) \cup In(collected')
<1>1. /\ list \in Lists /\ IsList(list, armed) /\ Sorted(armed, evusec) /\ Distinct(armed)
      /\ Path(list.next, left, free)
      /\ In(free) = {i \in Ids : ~ison[i]}
      /\ \A i \in In(armed) : ison[i]
      /\ \A i \in Ids \ In(armed) : ison[i] => Unlinked(i)
  BY DEF NodeTypes, Shape, IsList
<1>2. Armed = armed
  <2>1. Path(list.next, list.head, armed)
    BY <1>1 DEF Path, IsList
  <2> QED  BY <2>1, ChainIs DEF Armed
<1>3. PICK n : n = Cardinality({k \in 1 .. Len(armed) : evusec[armed[k]] < now})
  OBVIOUS
<1>4. /\ n > 0 /\ collected' = SubSeq(armed, 1, n)
      /\ list' = TakeFirst(list, armed, n)
      /\ UNCHANGED <<left, ison, arg, evusec>>
  BY <1>2, <1>3 DEF Collect, TakeFirst
<1>5. n \in 1 .. Len(armed) /\ n \in 0 .. Len(armed) /\ n \in Nat /\ Len(armed) \in Nat
  <2>1. n \in 0 .. Len(armed) /\ Len(armed) \in Nat
    BY <1>1, <1>3, DueFits, InIds
  <2> QED  BY <1>4, <2>1
<1> DEFINE out == {armed[k] : k \in 1 .. n}
           a == After(armed, n)
<1>6. /\ list' \in Lists /\ IsList(list', a)
      /\ \A i \in out : list'.next[i] = 0 /\ list'.prev[i] = 0
      /\ SameOutside(list, list', In(armed))
  BY <1>1, <1>4, <1>5, TakeFirstDoes
<1>7. /\ Distinct(a) /\ Len(a) = Len(armed) - n /\ Len(a) \in Nat
      /\ In(a) = In(armed) \ out
      /\ \A k \in 1 .. Len(a) : a[k] = armed[k + n] /\ k + n \in 1 .. Len(armed)
  BY <1>1, <1>5, AfterIs
<1> HIDE DEF a, out
<1>8. Sorted(a, evusec')
  <2> SUFFICES ASSUME NEW j \in 1 .. Len(a), NEW k \in 1 .. Len(a), j <= k
               PROVE  evusec'[a[j]] <= evusec'[a[k]]
    BY DEF Sorted
  <2>1. j + n <= k + n
    BY <1>5, <1>7
  <2> QED  BY <1>1, <1>4, <1>7, <2>1 DEF Sorted
<1>9. Path(list'.next, left', free)
  <2>1. Distinct(free) /\ In(free) \subseteq Ids
    BY <1>1, InIds DEF Path
  <2>2. \A i \in In(free) : list'.next[i] = list.next[i]
    BY <1>1, <1>6, <2>1 DEF SameOutside
  <2> QED  BY <1>1, <1>4, <2>2, PathAgain
<1>10. \A i \in Ids \ In(a) : ison'[i] => Unlinked(i)'
  <2> SUFFICES ASSUME NEW i \in Ids, i \notin In(a), ison[i]
               PROVE  list'.next[i] = 0 /\ list'.prev[i] = 0
    BY <1>4 DEF Unlinked
  <2>1. CASE i \in In(armed)
    BY <1>6, <1>7, <2>1
  <2>2. CASE i \notin In(armed)
    BY <1>1, <1>6, <2>2 DEF Unlinked, SameOutside
  <2> QED  BY <2>1, <2>2
<1>11. In(free) = {i \in Ids : ~ison'[i]} /\ \A i \in In(a) : ison'[i]
  BY <1>1, <1>4, <1>7
<1>12. Shape(a, free)'
  <2>1. IsList(list', a) /\ Sorted(a, evusec')
    BY <1>6, <1>8
  <2> QED  BY <2>1, <1>9, <1>10, <1>11 DEF Shape, a
<1>13. /\ collected' \in Seq(Ids) /\ Len(collected') = n
       /\ \A k \in 1 .. n : collected'[k] = armed[k]
  <2>1. \A k \in 1 .. n : armed[k] \in Ids
    BY <1>1, <1>5 DEF Distinct
  <2>2. /\ SubSeq(armed, 1, n) \in Seq(Ids)
        /\ Len(SubSeq(armed, 1, n)) = IF 1 <= n THEN n - 1 + 1 ELSE 0
        /\ \A k \in 1 .. n - 1 + 1 : SubSeq(armed, 1, n)[k] = armed[1 + k - 1]
    BY <1>5, <2>1, SubSeqProperties
  <2> QED  BY <1>4, <1>5, <2>2
<1>14. collected' # <<>> /\ out \subseteq In(collected')
  BY <1>5, <1>13 DEF In, out
<1>15. NodeTypes'
  BY <1>4, <1>6 DEF NodeTypes
<1> QED  BY <1>4, <1>7, <1>12, <1>13, <1>14, <1>15

-----------------------------------------------------------------------------
(* The invariant and the steps.                                            *)

(* The types of what belongs to evtimer_check and to the connections.      *)
OtherTypes ==
  /\ collected \in Seq(Ids) /\ looked \in BOOLEAN /\ (looked => collected # <<>>)
  /\ now \in Nat
  /\ state \in [Conns -> {"idle", "open", "closing"}]
  /\ call \in [Conns -> Timeouts \cup {0}]
  /\ messages \in [Conns -> Nat]

(* evid is the number of a node or -1; the node of the heartbeat is on, and *)
(* no connection has its number.                                           *)
Beating ==
  /\ evid \in [Owners -> Ids \cup {-1}]
  /\ evid[Service] \in Ids /\ ison[evid[Service]] /\ arg[evid[Service]] = Service
  /\ \A c \in Conns : evid[c] # evid[Service]

(* The inductive invariant of the list: the links show two sequences of    *)
(* nodes, and the node of the heartbeat is in the list or in timeouts[].   *)
ListInv ==
  /\ NodeTypes /\ OtherTypes /\ Beating
  /\ Shape(Armed, Free)
  /\ evid[Service] \in In(Armed) \cup In(collected)

(* What the links of the next state show.                                  *)
LEMMA NextShape ==
  ASSUME NEW a, NEW f, Shape(a, f)'
  PROVE  Armed' = a /\ Free' = f
<1>1. IsList(list', a) /\ Path(list'.next, left', f)
  BY DEF Shape
<1>2. Path(list'.next, list'.head, a)
  BY <1>1 DEF IsList, Path
<1>3. Chain(list'.next, list'.head) = a /\ Chain(list'.next, left') = f
  BY <1>1, <1>2, ChainIs
<1> QED  BY <1>3 DEF Armed, Free

(* A step after which the links have a shape again.                        *)
LEMMA ShapeStep ==
  ASSUME NodeTypes', OtherTypes', Beating', NEW a, NEW f, Shape(a, f)',
         evid'[Service] \in In(a) \cup In(collected')
  PROVE  ListInv'
<1>1. Armed' = a /\ Free' = f
  BY NextShape
<1>2. Shape(Armed, Free)' <=> Shape(a, f)'
  BY <1>1 DEF Shape
<1>3. evid'[Service] \in In(Armed') \cup In(collected')
  BY <1>1
<1> QED  BY <1>2, <1>3 DEF ListInv, In

(* evtimer_init and service_run leave one node armed.                      *)
LEMMA ListInit == Init => ListInv
<1> SUFFICES ASSUME Init  PROVE ListInv
  OBVIOUS
<1> DEFINE a == <<Nodes>>
           f == [k \in 1 .. Nodes - 1 |-> Nodes - k]
<1>1. /\ list = [head |-> Nodes, tail |-> Nodes,
                 next |-> [i \in Ids |-> IF i = Nodes THEN 0 ELSE i - 1],
                 prev |-> [i \in Ids |-> 0]]
      /\ left = Nodes - 1
      /\ ison = [i \in Ids |-> i = Nodes]
      /\ arg = [i \in Ids |-> IF i = Nodes THEN Service ELSE NoConn]
      /\ evusec = [i \in Ids |-> IF i = Nodes THEN Heartbeat ELSE 0]
      /\ collected = <<>> /\ looked = FALSE /\ now = 0
      /\ state = [c \in Conns |-> "idle"]
      /\ evid = [o \in Owners |-> IF o = Service THEN Nodes ELSE -1]
      /\ call = [c \in Conns |-> 0]
      /\ messages = [c \in Conns |-> 0]
  BY DEF Init
<1>2. /\ Nodes \in Nat /\ Nodes >= 1 /\ Ids = 1 .. Nodes /\ Nodes \in Ids
      /\ Heartbeat \in Nat /\ Service \in Owners /\ Service \notin Conns
      /\ Conns \subseteq Owners
  BY TimerAssumption DEF Ids, Owners
<1>3. /\ list.head = Nodes /\ list.tail = Nodes
      /\ \A i \in Ids : list.next[i] = (IF i = Nodes THEN 0 ELSE i - 1) /\ list.prev[i] = 0
  BY <1>1
<1>4. NodeTypes
  <2>1. list \in Lists
    <3>1. Nodes \in 0 .. Nodes /\ 0 \in 0 .. Nodes
          /\ \A i \in Ids : (IF i = Nodes THEN 0 ELSE i - 1) \in 0 .. Nodes
      BY <1>2
    <3> QED  BY <1>1, <3>1 DEF Lists
  <2>2. left \in 0 .. Nodes
    BY <1>1, <1>2
  <2>3. ison \in [Ids -> BOOLEAN]
    BY <1>1
  <2>4. arg \in [Ids -> Owners \cup {NoConn}]
    BY <1>1, <1>2
  <2>5. evusec \in [Ids -> Nat]
    BY <1>1, <1>2
  <2> QED  BY <2>1, <2>2, <2>3, <2>4, <2>5 DEF NodeTypes
<1>5. OtherTypes
  <2>2. collected \in Seq(Ids) /\ looked \in BOOLEAN /\ (looked => collected # <<>>)
    <3>1. <<>> \in Seq(Ids)
      OBVIOUS
    <3>2. ~looked /\ looked \in BOOLEAN
      BY <1>1
    <3> QED  BY <1>1, <3>1, <3>2
  <2>3. call \in [Conns -> Timeouts \cup {0}]
    BY <1>1
  <2>4. messages \in [Conns -> Nat] /\ now \in Nat
    BY <1>1
  <2>5. state \in [Conns -> {"idle", "open", "closing"}]
    BY <1>1
  <2> QED  BY <2>2, <2>3, <2>4, <2>5 DEF OtherTypes
<1>6. evid[Service] = Nodes /\ Beating
  <2>1. evid[Service] = Nodes /\ \A c \in Conns : evid[c] = -1
    <3>1. Service \in Owners /\ \A c \in Conns : c \in Owners /\ c # Service
      BY <1>2
    <3> QED  BY <1>1, <3>1
  <2>2. ison[Nodes] /\ arg[Nodes] = Service
    BY <1>1, <1>2
  <2>3. Nodes # -1
    BY <1>2
  <2>4. evid \in [Owners -> Ids \cup {-1}]
    BY <1>1, <1>2
  <2> QED  BY <1>2, <2>1, <2>2, <2>3, <2>4 DEF Beating
<1>7. /\ a \in Seq(Ids) /\ Len(a) = 1 /\ a[1] = Nodes
      /\ f \in Seq(Ids) /\ Len(f) = Nodes - 1 /\ \A k \in 1 .. Nodes - 1 : f[k] = Nodes - k
  <2>1. a \in Seq(Ids) /\ Len(a) = 1 /\ a[1] = Nodes
    BY <1>2
  <2>2. \A k \in 1 .. Nodes - 1 : Nodes - k \in Ids
    BY <1>2
  <2>3. f \in [1 .. Nodes - 1 -> Ids] /\ Nodes - 1 \in Nat
    BY <1>2, <2>2
  <2>5. f \in Seq(Ids) /\ Len(f) = Nodes - 1
    <3> HIDE DEF f
    <3> QED  BY <2>3
  <2> QED  BY <2>1, <2>3, <2>5
<1> HIDE DEF a, f
<1>8. Distinct(a) /\ In(a) = {Nodes} /\ IsList(list, a) /\ Sorted(a, evusec)
  <2>1. \A k \in 1 .. Len(a) : k = 1 /\ a[k] = Nodes
    BY <1>7
  <2>2. 1 \in 1 .. Len(a)
    BY <1>7
  <2>3. Distinct(a)
    BY <1>7, <2>1 DEF Distinct
  <2>4. In(a) = {Nodes}
    BY <2>1, <2>2 DEF In
  <2>5. At(a, 1) = Nodes /\ At(a, Len(a)) = Nodes /\ At(a, 1 + 1) = 0 /\ At(a, 1 - 1) = 0
    BY <1>7, <2>1, <2>2 DEF At
  <2>6. \A k \in 1 .. Len(a) : list.next[a[k]] = At(a, k + 1) /\ list.prev[a[k]] = At(a, k - 1)
    BY <1>2, <1>3, <2>1, <2>5
  <2>7. Sorted(a, evusec)
    BY <1>1, <1>2, <2>1 DEF Sorted
  <2> QED  BY <1>3, <2>3, <2>4, <2>5, <2>6, <2>7 DEF IsList
<1>9. Path(list.next, left, f) /\ In(f) = {i \in Ids : ~ison[i]}
  <2>1. Distinct(f)
    <3> SUFFICES ASSUME NEW j \in 1 .. Len(f), NEW k \in 1 .. Len(f), f[j] = f[k]
                 PROVE  j = k
      BY <1>7 DEF Distinct
    <3> QED  BY <1>2, <1>7
  <2>2. left = At(f, 1)
    BY <1>1, <1>2, <1>7 DEF At
  <2>3. ASSUME NEW k \in 1 .. Len(f)  PROVE list.next[f[k]] = At(f, k + 1)
    <3>1. f[k] = Nodes - k /\ f[k] \in Ids /\ f[k] # Nodes
      BY <1>2, <1>7
    <3>2. list.next[f[k]] = (Nodes - k) - 1
      BY <1>3, <3>1
    <3>3. CASE k = Nodes - 1
      <4>1. k + 1 \notin 1 .. Len(f) /\ (Nodes - k) - 1 = 0
        BY <1>2, <1>7, <3>3
      <4> QED  BY <3>2, <4>1 DEF At
    <3>4. CASE k # Nodes - 1
      <4>1. k + 1 \in 1 .. Len(f) /\ f[k + 1] = (Nodes - k) - 1
        BY <1>2, <1>7, <3>4
      <4> QED  BY <3>2, <4>1 DEF At
    <3> QED  BY <3>3, <3>4
  <2>4. In(f) = {i \in Ids : ~ison[i]}
    <3>1. \A k \in 1 .. Len(f) : f[k] \in Ids /\ f[k] # Nodes
      BY <1>2, <1>7
    <3>2. \A i \in Ids : i # Nodes => Nodes - i \in 1 .. Len(f) /\ f[Nodes - i] = i
      BY <1>2, <1>7
    <3>3. \A i \in Ids : ~ison[i] <=> i # Nodes
      BY <1>1
    <3> QED  BY <3>1, <3>2, <3>3 DEF In
  <2> QED  BY <2>1, <2>2, <2>3, <2>4 DEF Path
<1>10. Shape(a, f)
  <2>1. \A i \in Ids : ison[i] <=> i = Nodes
    BY <1>1
  <2>2. /\ \A i \in In(a) : ison[i]
        /\ \A i \in Ids \ In(a) : ison[i] => Unlinked(i)
    BY <1>2, <1>8, <2>1
  <2> QED  BY <1>8, <1>9, <2>2 DEF Shape
<1>11. Armed = a /\ Free = f
  <2>1. Path(list.next, list.head, a)
    BY <1>8 DEF IsList, Path
  <2> QED  BY <1>9, <2>1, ChainIs DEF Armed, Free
<1> QED  BY <1>4, <1>5, <1>6, <1>8, <1>10, <1>11 DEF ListInv

(* A step of a thread that leaves the nodes alone.                         *)
LEMMA NodesKept ==
  ASSUME ListInv, UNCHANGED nodeVars, OtherTypes', Beating',
         evid'[Service] \in In(Armed) \cup In(collected')
  PROVE  ListInv'
<1>1. UNCHANGED <<list, left, ison, arg, evusec>>
  BY DEF nodeVars
<1>2. NodeTypes' /\ Armed' = Armed /\ Free' = Free
  BY <1>1 DEF ListInv, NodeTypes, Armed, Free
<1>3. Shape(Armed, Free)'
  BY <1>1, <1>2 DEF ListInv, Shape, Unlinked
<1> QED  BY <1>2, <1>3 DEF ListInv

(* evid is assigned: a new number, or none.                                *)
LEMMA NumberGiven ==
  ASSUME Beating, NEW c \in Conns, NEW i \in Ids \cup {-1}, i # evid[Service],
         evid' = [evid EXCEPT ![c] = i]
  PROVE  /\ evid' \in [Owners -> Ids \cup {-1}] /\ evid'[Service] = evid[Service]
         /\ \A d \in Conns : evid'[d] # evid'[Service]
<1>1. Service \in Owners /\ Service # c /\ Conns \subseteq Owners
  BY TimerAssumption DEF Owners
<1>2. \A o \in Owners : evid'[o] = IF o = c THEN i ELSE evid[o]
  BY DEF Beating
<1>3. evid' \in [Owners -> Ids \cup {-1}]
  BY DEF Beating
<1> QED  BY <1>1, <1>2, <1>3 DEF Beating

(* evtimer_add for a connection never takes the node of the heartbeat.     *)
LEMMA AddInv ==
  ASSUME ListInv, NEW c \in Conns, NEW timeout \in Timeouts, Add(c, timeout),
         collected' = collected, OtherTypes'
  PROVE  ListInv'
<1>1. /\ NodeTypes /\ now \in Nat /\ Shape(Armed, Free) /\ c \in Owners /\ timeout \in Nat
      /\ evid[Service] \in In(Armed) \cup In(collected)
      /\ evid[Service] \in Ids /\ ison[evid[Service]] /\ arg[evid[Service]] = Service
  BY TimerAssumption DEF ListInv, OtherTypes, Beating, Owners
<1>2. PICK armed, free : armed = Armed /\ free = Free
  OBVIOUS
<1>3. /\ NodeTypes'
      /\ \A i \in Ids : ison[i] => ison'[i] /\ arg'[i] = arg[i]
      /\ \/ evid' = evid
         \/ left \in Ids /\ ~ison[left] /\ evid' = [evid EXCEPT ![c] = left]
      /\ \E a, f : Shape(a, f)' /\ In(armed) \subseteq In(a)
  <2>1. Shape(armed, free)
    BY <1>1, <1>2
  <2> QED  BY <1>1, <2>1, AddList
<1>4. PICK a, f : Shape(a, f)' /\ In(armed) \subseteq In(a)
  BY <1>3
<1>5. /\ evid' \in [Owners -> Ids \cup {-1}] /\ evid'[Service] = evid[Service]
      /\ \A d \in Conns : evid'[d] # evid'[Service]
  <2>1. CASE evid' = evid
    BY <2>1 DEF ListInv, Beating
  <2>2. CASE left \in Ids /\ ~ison[left] /\ evid' = [evid EXCEPT ![c] = left]
    <3>1. left # evid[Service]
      BY <1>1, <2>2
    <3> QED  BY <2>2, <3>1, NumberGiven DEF ListInv
  <2> QED  BY <1>3, <2>1, <2>2
<1>6. Beating'
  BY <1>1, <1>3, <1>5 DEF Beating
<1>7. evid'[Service] \in In(a) \cup In(collected')
  BY <1>1, <1>2, <1>4, <1>5
<1> QED  BY <1>3, <1>4, <1>6, <1>7, ShapeStep

(* evtimer_delete with a number that a connection keeps, stale or not.     *)
LEMMA DeleteInv ==
  ASSUME ListInv, NEW c \in Conns, Delete(evid[c]),
         evid' = evid \/ evid' = [evid EXCEPT ![c] = -1],
         collected' = collected, OtherTypes'
  PROVE  ListInv'
<1>1. /\ NodeTypes /\ Shape(Armed, Free) /\ c \in Owners
      /\ evid[Service] \in In(Armed) \cup In(collected)
      /\ evid[Service] \in Ids /\ ison[evid[Service]] /\ arg[evid[Service]] = Service
      /\ evid[c] \in Ids \cup {-1} /\ evid[c] # evid[Service] /\ -1 # evid[Service]
  <2>1. -1 \notin Ids
    BY TimerAssumption DEF Ids
  <2> QED  BY <2>1 DEF ListInv, Beating, Owners
<1>2. PICK armed, free : armed = Armed /\ free = Free
  OBVIOUS
<1>3. /\ NodeTypes'
      /\ \A j \in Ids \ {evid[c]} : ison'[j] = ison[j] /\ arg'[j] = arg[j]
      /\ \E a, f : Shape(a, f)' /\ In(armed) \ {evid[c]} \subseteq In(a)
  <2>1. Shape(armed, free)
    BY <1>1, <1>2
  <2> QED  BY <1>1, <2>1, DeleteList
<1>4. PICK a, f : Shape(a, f)' /\ In(armed) \ {evid[c]} \subseteq In(a)
  BY <1>3
<1>5. /\ evid' \in [Owners -> Ids \cup {-1}] /\ evid'[Service] = evid[Service]
      /\ \A d \in Conns : evid'[d] # evid'[Service]
  <2>1. CASE evid' = evid
    BY <2>1 DEF ListInv, Beating
  <2>2. CASE evid' = [evid EXCEPT ![c] = -1]
    BY <1>1, <2>2, NumberGiven DEF ListInv
  <2> QED  BY <2>1, <2>2
<1>6. Beating'
  BY <1>1, <1>3, <1>5 DEF Beating
<1>7. evid'[Service] \in In(a) \cup In(collected')
  BY <1>1, <1>2, <1>4, <1>5
<1> QED  BY <1>3, <1>4, <1>6, <1>7, ShapeStep

(* evtimer_update by an owner with a number: the service renews its own    *)
(* node, and a connection never gets at it.                                *)
LEMMA UpdateInv ==
  ASSUME ListInv, NEW c \in Owners, evid[c] \in Ids, NEW timeout \in Nat, Update(c, timeout),
         collected' = collected \/ c = Service, OtherTypes'
  PROVE  ListInv'
<1>1. /\ NodeTypes /\ now \in Nat /\ Shape(Armed, Free)
      /\ evid[Service] \in In(Armed) \cup In(collected)
      /\ evid[Service] \in Ids /\ ison[evid[Service]] /\ arg[evid[Service]] = Service
      /\ c # Service => evid[c] # evid[Service]
  BY DEF ListInv, OtherTypes, Beating, Owners
<1>2. PICK armed, free : armed = Armed /\ free = Free
  OBVIOUS
<1>3. /\ NodeTypes' /\ ison' = ison /\ evid' = evid
      /\ \A i \in Ids \ {evid[c]} : arg'[i] = arg[i]
      /\ ison[evid[c]] => arg'[evid[c]] = c
      /\ \E a : /\ Shape(a, free)' /\ In(armed) \subseteq In(a)
                /\ (ison[evid[c]] => evid[c] \in In(a))
  <2>1. Shape(armed, free)
    BY <1>1, <1>2
  <2> QED  BY <1>1, <2>1, UpdateList
<1>4. PICK a : /\ Shape(a, free)' /\ In(armed) \subseteq In(a)
               /\ (ison[evid[c]] => evid[c] \in In(a))
  BY <1>3
<1>5. Beating'
  BY <1>1, <1>3 DEF ListInv, Beating
<1>6. evid'[Service] \in In(a) \cup In(collected')
  BY <1>1, <1>2, <1>3, <1>4
<1> QED  BY <1>3, <1>4, <1>5, <1>6, ShapeStep

(* evtimer_check.                                                          *)
LEMMA CollectStep ==
  ASSUME ListInv, Collect
  PROVE  ListInv'
<1>1. /\ NodeTypes /\ now \in Nat /\ Shape(Armed, Free) /\ collected = <<>>
      /\ evid[Service] \in In(Armed) \cup In(collected)
      /\ UNCHANGED <<looked, now, state, evid, call, messages>>
  BY DEF ListInv, OtherTypes, Collect, connVars
<1>2. evid[Service] \in In(Armed)
  BY <1>1 DEF In
<1>3. PICK armed, free : armed = Armed /\ free = Free
  OBVIOUS
<1>4. /\ NodeTypes' /\ ison' = ison /\ arg' = arg
      /\ collected' \in Seq(Ids) /\ collected' # <<>>
      /\ \E a : Shape(a, free)' /\ In(armed) \subseteq In(a) \cup In(collected')
  <2>1. Shape(armed, free)
    BY <1>1, <1>3
  <2> QED  BY <1>1, <2>1, CollectList
<1>5. PICK a : Shape(a, free)' /\ In(armed) \subseteq In(a) \cup In(collected')
  BY <1>4
<1>6. OtherTypes' /\ Beating'
  BY <1>1, <1>4 DEF ListInv, OtherTypes, Beating
<1>7. evid'[Service] \in In(a) \cup In(collected')
  BY <1>1, <1>2, <1>3, <1>5
<1> QED  BY <1>4, <1>5, <1>6, <1>7, ShapeStep

(* The rest of the nodes that were collected.                              *)
LEMMA RestOfCollected ==
  ASSUME OtherTypes, collected # <<>>
  PROVE  /\ Head(collected) \in Ids /\ Tail(collected) \in Seq(Ids)
         /\ In(collected) \subseteq In(Tail(collected)) \cup {Head(collected)}
<1>1. /\ collected \in Seq(Ids) /\ Len(collected) \in Nat
      /\ \A k \in 1 .. Len(collected) : collected[k] \in Ids
  BY DEF OtherTypes
<1>2. /\ Tail(collected) \in Seq(Ids) /\ Len(Tail(collected)) = Len(collected) - 1
      /\ \A k \in 1 .. Len(Tail(collected)) : Tail(collected)[k] = collected[k + 1]
      /\ Head(collected) \in Ids
  BY <1>1, HeadTailProperties
<1>3. Head(collected) = collected[1]
  BY <1>1
<1>4. ASSUME NEW k \in 1 .. Len(collected), k # 1  PROVE collected[k] \in In(Tail(collected))
  <2>1. k - 1 \in 1 .. Len(Tail(collected)) /\ (k - 1) + 1 = k
    BY <1>1, <1>2, <1>4
  <2>2. Tail(collected)[k - 1] = collected[k]
    BY <1>2, <2>1
  <2> QED  BY <2>1, <2>2 DEF In
<1> QED  BY <1>2, <1>3, <1>4 DEF In

(* The node of the heartbeat stays in timeouts[]: it is on, and when it is *)
(* in no list it is linked to nothing.                                     *)
LEMMA LookStep ==
  ASSUME ListInv, Look
  PROVE  ListInv'
<1>1. /\ collected # <<>> /\ OtherTypes /\ Beating /\ Shape(Armed, Free)
      /\ evid[Service] \in In(Armed) \cup In(collected)
      /\ UNCHANGED nodeVars /\ UNCHANGED <<now, state, evid, call, messages>>
      /\ evid[Service] \in Ids /\ ison[evid[Service]]
  BY DEF ListInv, Beating, Look, connVars
<1>2. Beating'
  BY <1>1 DEF Beating, nodeVars
<1>3. CASE looked' = TRUE /\ UNCHANGED collected
  BY <1>1, <1>2, <1>3, NodesKept DEF OtherTypes
<1>4. CASE /\ ~(Unlinked(Head(collected)) /\ ison[Head(collected)])
           /\ collected' = Tail(collected) /\ UNCHANGED looked /\ ~looked
  <2>1. OtherTypes'
    BY <1>1, <1>4, RestOfCollected DEF OtherTypes
  <2>2. evid[Service] \in In(Armed) \/ evid[Service] # Head(collected)
    BY <1>1, <1>4 DEF Shape
  <2>3. evid'[Service] \in In(Armed) \cup In(collected')
    BY <1>1, <1>4, <2>2, RestOfCollected
  <2> QED  BY <1>1, <1>2, <2>1, <2>3, NodesKept
<1> QED  BY <1>3, <1>4 DEF Look

(* The handler of a connection does not touch the nodes.                   *)
LEMMA FireStep ==
  ASSUME ListInv, Fire
  PROVE  ListInv'
<1>1. /\ looked /\ collected # <<>> /\ OtherTypes /\ Beating
      /\ arg[Head(collected)] # Service /\ arg[evid[Service]] = Service
      /\ looked' = FALSE /\ collected' = Tail(collected)
      /\ evid[Service] \in In(Armed) \cup In(collected)
      /\ UNCHANGED nodeVars /\ UNCHANGED <<now, state, evid, call>>
  BY DEF ListInv, OtherTypes, Beating, Fire
<1>2. Beating'
  BY <1>1 DEF Beating, nodeVars
<1>3. messages' \in [Conns -> Nat]
  <2>1. \A c \in Conns : messages[c] \in Nat /\ messages[c] + 1 \in Nat
    BY <1>1 DEF OtherTypes
  <2>2. messages' = [c \in Conns |-> IF c = arg[Head(collected)] /\ state[c] = "open"
                                     THEN messages[c] + 1 ELSE messages[c]]
    BY DEF Fire
  <2> QED  BY <2>1, <2>2
<1>4. OtherTypes'
  <2>1. Tail(collected) \in Seq(Ids)
    BY <1>1, RestOfCollected
  <2>2. ~looked' /\ looked' \in BOOLEAN
    BY <1>1
  <2> QED  BY <1>1, <1>3, <2>1, <2>2 DEF OtherTypes
<1>5. evid'[Service] \in In(Armed) \cup In(collected')
  BY <1>1, RestOfCollected
<1> QED  BY <1>1, <1>2, <1>4, <1>5, NodesKept

(* The handler of the heartbeat puts its node back into the list.          *)
LEMMA HeartbeatStep ==
  ASSUME ListInv, Beat
  PROVE  ListInv'
<1>1. /\ OtherTypes /\ collected # <<>> /\ collected' = Tail(collected)
      /\ Update(Service, Heartbeat)
      /\ UNCHANGED <<now, state, call, messages>>
      /\ Service \in Owners /\ Heartbeat \in Nat /\ evid[Service] \in Ids
  BY TimerAssumption DEF ListInv, OtherTypes, Beating, Beat, Owners
<1>2. OtherTypes'
  <2>1. Tail(collected) \in Seq(Ids)
    BY <1>1, RestOfCollected
  <2>2. ~looked' /\ looked' \in BOOLEAN
    BY DEF Beat
  <2> QED  BY <1>1, <2>1, <2>2 DEF OtherTypes
<1> QED  BY <1>1, <1>2, UpdateInv

(* A connection is opened or asks for a timeout.                           *)
LEMMA OpenKeepsList ==
  ASSUME ListInv, NEW c \in Conns, Open(c)
  PROVE  ListInv'
<1>1. /\ OtherTypes /\ Beating /\ c \in Conns
      /\ state' = [state EXCEPT ![c] = "open"]
      /\ UNCHANGED <<collected, looked, now, call, messages>>
  BY DEF ListInv, Open, checkVars
<1>2. OtherTypes'
  BY <1>1 DEF OtherTypes
<1>3. ASSUME NEW timeout \in Timeouts, Add(c, timeout)  PROVE ListInv'
  BY <1>1, <1>2, <1>3, AddInv
<1>4. CASE evid' = [evid EXCEPT ![c] = -1] /\ UNCHANGED nodeVars
  <2>1. -1 # evid[Service]
    BY <1>1, TimerAssumption DEF Beating, Ids
  <2>2. Beating'
    BY <1>1, <1>4, <2>1, NumberGiven DEF Beating, nodeVars
  <2>3. evid'[Service] \in In(Armed) \cup In(collected')
    BY <1>1, <1>4, <2>1, NumberGiven DEF ListInv
  <2> QED  BY <1>2, <1>4, <2>2, <2>3, NodesKept
<1> QED  BY <1>3, <1>4 DEF Open

(* A set_timeout before its effect.                                        *)
LEMMA BeginKeepsList ==
  ASSUME ListInv, NEW c \in Conns, NEW timeout \in Timeouts, BeginSet(c, timeout)
  PROVE  ListInv'
<1>1. /\ OtherTypes /\ Beating /\ call' = [call EXCEPT ![c] = timeout]
      /\ evid[Service] \in In(Armed) \cup In(collected)
      /\ UNCHANGED nodeVars /\ UNCHANGED <<collected, looked, now, state, evid, messages>>
  BY DEF ListInv, BeginSet, checkVars
<1>2. OtherTypes' /\ Beating'
  BY <1>1 DEF OtherTypes, Beating, nodeVars
<1> QED  BY <1>1, <1>2, NodesKept

(* The effect of a set_timeout: a new node, or the one that evid names,    *)
(* stale or not.                                                           *)
LEMMA FinishKeepsList ==
  ASSUME ListInv, NEW c \in Conns, FinishSet(c)
  PROVE  ListInv'
<1>1. /\ OtherTypes /\ Beating /\ call[c] \in Timeouts /\ call[c] \in Nat /\ c \in Owners
      /\ call' = [call EXCEPT ![c] = 0]
      /\ UNCHANGED <<collected, looked, now, state, messages>>
  BY TimerAssumption DEF ListInv, OtherTypes, FinishSet, Busy, checkVars, Owners
<1>2. OtherTypes'
  BY <1>1 DEF OtherTypes
<1>3. CASE evid[c] >= 0 /\ Update(c, call[c])
  <2>1. evid[c] \in Ids
    BY <1>1, <1>3 DEF Beating
  <2>2. PICK timeout \in Nat : timeout = call[c]
    BY <1>1
  <2>3. Update(c, timeout)
    BY <1>3, <2>2
  <2> QED  BY <1>1, <1>2, <2>1, <2>3, UpdateInv
<1>4. CASE evid[c] < 0 /\ Add(c, call[c])
  <2>1. PICK timeout \in Timeouts : timeout = call[c]
    BY <1>1
  <2>2. Add(c, timeout)
    BY <1>4, <2>1
  <2> QED  BY <1>1, <1>2, <2>2, AddInv
<1> QED  BY <1>3, <1>4 DEF FinishSet

(* A connection drops its timer, is shut or freed, or handles a timeout.   *)
LEMMA DropsKeepList ==
  ASSUME ListInv, NEW c \in Conns,
         OverTimeout(c) \/ OverCstate(c) \/ Shut(c) \/ Terminate(c) \/ HandleTimeout(c)
  PROVE  ListInv'
<1>1. /\ OtherTypes /\ Beating
      /\ evid[Service] \in In(Armed) \cup In(collected)
      /\ UNCHANGED <<collected, looked, now, call>>
  BY DEF ListInv, OverTimeout, OverCstate, Shut, Terminate, HandleTimeout, checkVars, connVars
<1>2. state' \in [Conns -> {"idle", "open", "closing"}]
  BY <1>1 DEF OtherTypes, OverTimeout, OverCstate, Shut, Terminate, HandleTimeout,
              DropTimer, connVars
<1>3. messages' \in [Conns -> Nat]
  <2>1. CASE HandleTimeout(c)
    <3>1. messages[c] \in Nat /\ messages[c] > 0 /\ messages[c] - 1 \in Nat
      BY <1>1, <2>1 DEF OtherTypes, HandleTimeout
    <3>2. messages' = [messages EXCEPT ![c] = messages[c] - 1]
      BY <2>1 DEF HandleTimeout
    <3> QED  BY <1>1, <3>1, <3>2 DEF OtherTypes
  <2>2. CASE ~HandleTimeout(c)
    <3>1. messages' = messages \/ messages' = [messages EXCEPT ![c] = 0]
      BY <2>2 DEF OverTimeout, OverCstate, Shut, Terminate, connVars
    <3> QED  BY <1>1, <3>1 DEF OtherTypes
  <2> QED  BY <2>1, <2>2
<1>4. OtherTypes'
  BY <1>1, <1>2, <1>3 DEF OtherTypes
<1>5. CASE UNCHANGED <<nodeVars, state, evid>>
  <2>1. Beating'
    BY <1>1, <1>5 DEF Beating, nodeVars
  <2> QED  BY <1>1, <1>4, <1>5, <2>1, NodesKept
<1>6. CASE Delete(evid[c]) /\ (evid' = evid \/ evid' = [evid EXCEPT ![c] = -1])
  BY <1>1, <1>4, <1>6, DeleteInv
<1> QED
  BY <1>5, <1>6 DEF OverTimeout, OverCstate, Shut, Terminate, HandleTimeout, DropTimer, connVars

(* Every step keeps the links in shape.                                    *)
LEMMA ListStep == ListInv /\ [Next]_vars => ListInv'
<1> SUFFICES ASSUME ListInv, [Next]_vars  PROVE ListInv'
  OBVIOUS
<1>1. CASE Tick \/ UNCHANGED vars
  <2>1. /\ now' = now + 1 \/ now' = now
        /\ UNCHANGED nodeVars
        /\ UNCHANGED <<collected, looked, state, evid, call, messages>>
    BY <1>1 DEF Tick, vars, checkVars, connVars
  <2>2. OtherTypes'
    BY <2>1 DEF ListInv, OtherTypes
  <2>3. Beating'
    BY <2>1 DEF ListInv, Beating, nodeVars
  <2>4. evid'[Service] \in In(Armed) \cup In(collected')
    BY <2>1 DEF ListInv
  <2> QED  BY <2>1, <2>2, <2>3, <2>4, NodesKept
<1>2. CASE Check
  BY <1>2, CollectStep, LookStep, HeartbeatStep, FireStep DEF Check
<1>3. ASSUME NEW c \in Conns, Open(c)  PROVE ListInv'
  BY <1>3, OpenKeepsList
<1>4. ASSUME NEW c \in Conns, NEW timeout \in Timeouts, BeginSet(c, timeout)  PROVE ListInv'
  BY <1>4, BeginKeepsList
<1>5. ASSUME NEW c \in Conns, FinishSet(c)  PROVE ListInv'
  BY <1>5, FinishKeepsList
<1>6. ASSUME NEW c \in Conns,
             OverTimeout(c) \/ OverCstate(c) \/ Shut(c) \/ Terminate(c) \/ HandleTimeout(c)
      PROVE  ListInv'
  BY <1>6, DropsKeepList
<1> QED  BY <1>1, <1>2, <1>3, <1>4, <1>5, <1>6 DEF Next

(* The links are always in shape.                                          *)
LEMMA ListAlways == Spec => []ListInv
BY ListInit, ListStep, PTL DEF Spec

(* Every variable keeps its type.                                          *)
THEOREM TimerTypes == Spec => []TypeOK
<1>1. ListInv => TypeOK
  BY DEF ListInv, NodeTypes, OtherTypes, Beating, TypeOK
<1> QED  BY <1>1, ListAlways, PTL

(* The armed nodes are linked both ways and sorted by evusec after every   *)
(* evtimer_add, update, delete and check, so that evtimer_check may stop   *)
(* at the first node that is not due.                                      *)
THEOREM ListStaysSorted == Spec => []ListIsSorted
<1>1. ListInv => ListIsSorted
  <2> SUFFICES ASSUME ListInv  PROVE ListIsSorted
    OBVIOUS
  <2> DEFINE a == Armed
  <2>1. /\ a \in Seq(Ids) /\ Len(a) \in Nat
        /\ \A k \in 1 .. Len(a) : a[k] \in Ids /\ a[k] # 0
                                  /\ list.prev[a[k]] = At(a, k - 1)
        /\ list.head = At(a, 1) /\ list.tail = At(a, Len(a))
        /\ Sorted(a, evusec)
    BY TimerAssumption DEF ListInv, Shape, IsList, Distinct, Ids
  <2> HIDE DEF a
  <2>2. a = <<>> <=> Len(a) = 0
    BY <2>1
  <2>3. a = <<>> <=> list.tail = 0
    BY <2>1, <2>2 DEF At
  <2>4. a # <<>> => list.tail = a[Len(a)] /\ list.prev[list.head] = 0
    <3> SUFFICES ASSUME a # <<>>  PROVE list.tail = a[Len(a)] /\ list.prev[list.head] = 0
      OBVIOUS
    <3>1. 1 \in 1 .. Len(a) /\ Len(a) \in 1 .. Len(a)
      BY <2>1, <2>2
    <3>2. list.tail = a[Len(a)] /\ list.head = a[1] /\ At(a, 1 - 1) = 0
      BY <2>1, <3>1 DEF At
    <3> QED  BY <2>1, <3>1, <3>2
  <2>5. ASSUME NEW k \in 2 .. Len(a)
        PROVE  list.prev[a[k]] = a[k - 1] /\ evusec[a[k - 1]] <= evusec[a[k]]
    <3>1. k \in 1 .. Len(a) /\ k - 1 \in 1 .. Len(a) /\ k - 1 <= k
      BY <2>1
    <3> QED  BY <2>1, <3>1 DEF At, Sorted
  <2> QED  BY <2>3, <2>4, <2>5 DEF ListIsSorted, a
<1> QED  BY <1>1, ListAlways, PTL

(* The nodes of a sequence, in the words of the properties.                *)
LEMMA RangeIsIn ==
  ASSUME NEW s \in Seq(Ids)
  PROVE  Range(s) = In(s)
BY DEF Range, In

(* A node is free, in the list, or expired and linked to nothing, whatever *)
(* the connections do with stale numbers: evtimer loses no node and hands  *)
(* none out twice.                                                         *)
THEOREM NoNodeIsLost == Spec => []NodesAccounted
<1>1. ListInv => NodesAccounted
  <2> SUFFICES ASSUME ListInv  PROVE NodesAccounted
    OBVIOUS
  <2>1. Shape(Armed, Free) /\ Distinct(Armed) /\ Distinct(Free)
    BY DEF ListInv, Shape, IsList, Path
  <2>2. Range(Armed) = In(Armed) /\ Range(Free) = In(Free)
    BY <2>1, RangeIsIn DEF Distinct
  <2>3. Len(Free) = Cardinality(Range(Free))
    BY <2>1, DistinctFits
  <2> QED  BY <2>1, <2>2, <2>3 DEF NodesAccounted, Shape
<1> QED  BY <1>1, ListAlways, PTL

(* The node of the service's heartbeat is in the list or waits for its     *)
(* handler: no connection that uses a stale evid can delete or take it.    *)
THEOREM HeartbeatNeverStops == Spec => []HeartbeatGoesOn
<1>1. ListInv => HeartbeatGoesOn
  <2> SUFFICES ASSUME ListInv  PROVE HeartbeatGoesOn
    OBVIOUS
  <2>1. Range(Armed) = In(Armed) /\ Range(collected) = In(collected)
    BY RangeIsIn DEF ListInv, Shape, IsList, Distinct, OtherTypes
  <2> QED  BY <2>1 DEF ListInv, Beating, HeartbeatGoesOn, InList
<1> QED  BY <1>1, ListAlways, PTL
=============================================================================
