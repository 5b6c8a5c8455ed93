--------------------------- MODULE ConnPoolProofs ---------------------------
(***************************************************************************)
(* Proofs about ConnPool, for every number of connections and groups, all  *)
(* limits and table sizes: slots and connections name each other, a        *)
(* connection is used by one session at a time, nconns_free counts.        *)
(***************************************************************************)
EXTENDS ConnPool, FiniteSetTheorems, TLAPS

-----------------------------------------------------------------------------
(* The connection table: what service_pushconn and service_popconn do to a *)
(* coherent one, for every table size.                                     *)

Occupied == {i \in Indexes : connections[i] # NoConn}

(* The table is finite, so its occupied entries can be counted.            *)
LEMMA OccupiedIsFinite ==
  /\ IsFiniteSet(Occupied) /\ Cardinality(Occupied) \in Nat
  /\ IsFiniteSet(Occupied') /\ Cardinality(Occupied') \in Nat
<1>1. IsFiniteSet(Indexes)
  BY LimitAssumption, FS_Interval DEF Indexes
<1>2. Occupied \in SUBSET Indexes /\ Occupied' \in SUBSET Indexes
  BY DEF Occupied, Indexes
<1> QED  BY <1>1, <1>2, FS_Subset, FS_CardinalityType

(* The initial table is coherent.                                          *)
LEMMA InitCoherent ==
  ASSUME TableInit
  PROVE  TableTypeOK /\ TableCoherent
<1>1. TableTypeOK /\ EntriesMatch /\ IndexMaxBounds
  BY DEF TableInit, TableTypeOK, EntriesMatch, IndexMaxBounds
<1>2. Occupied = {}
  BY DEF TableInit, Occupied
<1>3. RunningCounts
  BY <1>2, FS_EmptySet DEF RunningCounts, Occupied, TableInit
<1> QED  BY <1>1, <1>3 DEF TableCoherent

(* service_pushconn keeps the table coherent when the connection is not in *)
(* it yet, and touches nothing but a free entry and the connection.        *)
LEMMA PushCoherent ==
  ASSUME TableTypeOK, TableCoherent, NEW c \in Conns, ~InTable(c), PushConn(c)
  PROVE  /\ TableTypeOK' /\ TableCoherent'
         /\ \A d \in Conns \ {c} : index'[d] = index[d]
         /\ \A i \in Indexes : connections'[i] \in {connections[i], c}
<1>1. CASE FreeIndexes = {} /\ UNCHANGED tableVars
  BY <1>1 DEF tableVars, TableTypeOK, TableCoherent, EntriesMatch,
              IndexMaxBounds, RunningCounts
<1>2. ASSUME NEW i \in FreeIndexes,
             connections' = [connections EXCEPT ![i] = c],
             index' = [index EXCEPT ![c] = i],
             indexMax' = IF i > indexMax THEN i ELSE indexMax,
             running' = running + 1
      PROVE  /\ TableTypeOK' /\ TableCoherent'
             /\ \A d \in Conns \ {c} : index'[d] = index[d]
             /\ \A j \in Indexes : connections'[j] \in {connections[j], c}
  <2>1. i \in Indexes /\ connections[i] = NoConn
    BY DEF FreeIndexes
  <2>2. TableTypeOK'
    BY <1>2, <2>1 DEF TableTypeOK, Indexes
  <2>3. EntriesMatch'
    BY <1>2, <2>1 DEF TableTypeOK, TableCoherent, EntriesMatch, InTable
  <2>4. IndexMaxBounds'
    BY <1>2, <2>1, LimitAssumption
       DEF TableTypeOK, TableCoherent, IndexMaxBounds, Indexes
  <2>5. RunningCounts'
    <3>1. Occupied' = Occupied \cup {i} /\ i \notin Occupied
      BY <1>2, <2>1, ConnsAssumption DEF Occupied, TableTypeOK
    <3>2. Cardinality(Occupied') = Cardinality(Occupied) + 1
      BY <3>1, OccupiedIsFinite, FS_AddElement
    <3> QED  BY <1>2, <3>2 DEF TableCoherent, RunningCounts, Occupied
  <2>6. \A j \in Indexes : connections'[j] \in {connections[j], c}
    BY <1>2, <2>1 DEF TableTypeOK
  <2>7. \A d \in Conns \ {c} : index'[d] = index[d]
    BY <1>2 DEF TableTypeOK
  <2> QED  BY <2>2, <2>3, <2>4, <2>5, <2>6, <2>7 DEF TableCoherent
<1> QED  BY <1>1, <1>2 DEF PushConn

(* service_popconn keeps the table coherent, and afterwards the connection *)
(* is not in it.                                                           *)
LEMMA PopCoherent ==
  ASSUME TableTypeOK, TableCoherent, NEW c \in Conns, PopConn(c)
  PROVE  /\ TableTypeOK' /\ TableCoherent'
         /\ index' = index
         /\ \A i \in Indexes : connections'[i] # c
         /\ \A i \in Indexes : connections'[i] \in {connections[i], NoConn}
<1>1. c # NoConn
  BY ConnsAssumption
<1>2. CASE ~HoldsItsIndex(c) /\ UNCHANGED tableVars
  <2>1. \A i \in Indexes : connections[i] # c
    BY <1>1, <1>2
       DEF TableTypeOK, TableCoherent, EntriesMatch, IndexMaxBounds,
           HoldsItsIndex, Indexes
  <2> QED  BY <1>2, <2>1 DEF tableVars, TableTypeOK, TableCoherent,
                EntriesMatch, IndexMaxBounds, RunningCounts
<1>3. CASE /\ HoldsItsIndex(c)
           /\ connections' = [connections EXCEPT ![index[c]] = NoConn]
           /\ running' = running - 1
           /\ indexMax' = IF indexMax = index[c] THEN indexMax - 1 ELSE indexMax
           /\ UNCHANGED index
  <2>1. index[c] \in Indexes /\ connections[index[c]] = c
    BY <1>3 DEF HoldsItsIndex, TableTypeOK
  <2>2. TableTypeOK'
    BY <1>3, <2>1, LimitAssumption DEF TableTypeOK, Indexes
  <2>3. EntriesMatch' /\ \A i \in Indexes : connections'[i] # c
    BY <1>1, <1>3, <2>1 DEF TableTypeOK, TableCoherent, EntriesMatch
  <2>4. IndexMaxBounds'
    BY <1>3, <2>1, LimitAssumption
       DEF TableTypeOK, TableCoherent, IndexMaxBounds, Indexes
  <2>5. RunningCounts'
    <3>1. Occupied' = Occupied \ {index[c]} /\ index[c] \in Occupied
      BY <1>1, <1>3, <2>1 DEF Occupied, TableTypeOK
    <3>2. Cardinality(Occupied') = Cardinality(Occupied) - 1
      BY <3>1, OccupiedIsFinite, FS_RemoveElement
    <3> QED  BY <1>3, <3>2 DEF TableCoherent, RunningCounts, Occupied
  <2>6. \A i \in Indexes : connections'[i] \in {connections[i], NoConn}
    BY <1>3, <2>1 DEF TableTypeOK
  <2> QED  BY <1>3, <2>2, <2>3, <2>4, <2>5, <2>6 DEF TableCoherent
<1> QED  BY <1>2, <1>3 DEF PopConn

(* conn_reset may forget the index of a connection that is not in the      *)
(* table.                                                                  *)
LEMMA ForgetCoherent ==
  ASSUME TableTypeOK, TableCoherent, NEW c \in Conns, ~InTable(c), ForgetIndex(c)
  PROVE  /\ TableTypeOK' /\ TableCoherent'
         /\ connections' = connections
         /\ \A d \in Conns \ {c} : index'[d] = index[d]
BY DEF ForgetIndex, TableTypeOK, TableCoherent, EntriesMatch, IndexMaxBounds,
       RunningCounts, InTable

(* A step that leaves the table alone keeps it coherent.                   *)
LEMMA StillCoherent ==
  ASSUME TableTypeOK, TableCoherent, UNCHANGED tableVars
  PROVE  TableTypeOK' /\ TableCoherent'
BY DEF tableVars, TableTypeOK, TableCoherent, EntriesMatch, IndexMaxBounds,
       RunningCounts

-----------------------------------------------------------------------------
(* The inductive invariant.                                                *)

(* What the place of a connection says of its index, slot and use.  A      *)
(* bound connection without an index found the table full.                 *)
FieldsFitPlace ==
  \A c \in Conns :
    /\ slot[c] # None => slot[c] \in Slots(group[c])
    /\ place[c] \in {"idle", "new"} => index[c] = -1 /\ slot[c] = None /\ uses[c] = 0
    /\ place[c] # "bound" => ~InTable(c)
    /\ place[c] = "bound" =>
         \/ index[c] \in Indexes /\ connections[index[c]] = c
         \/ index[c] = -1 /\ slot[c] = None /\ uses[c] = 0

(* The heartbeat counts a connection of the pool only if it wanted one.    *)
BeatFits == beat.list = 0 => beat.want > 0

FreeIsFunction == free = [g \in Lists |-> free[g]]

Used(g) == {x \in Slots(g) : free[g][x] # 0}
Counted(g) == nfree[g] = Cardinality(Used(g))

IInv ==
  /\ TypeOK
  /\ TableCoherent
  /\ FieldsFitPlace
  /\ BeatFits
  /\ FreeIsFunction
  /\ SlotsNameTheirConns
  /\ FreeIsCounted
  /\ UsedByOne

-----------------------------------------------------------------------------
(* The free lists.                                                         *)

(* Slots are natural numbers, finitely many in a list.                     *)
LEMMA SlotsAreFinite ==
  ASSUME NEW g \in Lists
  PROVE  /\ Slots(g) \subseteq Nat /\ IsFiniteSet(Slots(g))
         /\ None \notin Slots(g)
<1>1. IsFiniteSet(0 .. ConnsLimit - 1) /\ IsFiniteSet(0 .. GroupMax - 1)
  BY PoolAssumption, FS_Interval
<1> QED  BY <1>1, PoolAssumption DEF Slots, None

LEMMA UsedIsFinite ==
  ASSUME NEW g \in Lists
  PROVE  IsFiniteSet(Used(g)) /\ IsFiniteSet(Used(g)')
<1>1. Used(g) \in SUBSET Slots(g) /\ Used(g)' \in SUBSET Slots(g)
  BY DEF Used
<1> QED  BY <1>1, SlotsAreFinite, FS_Subset

(* Offering an index fills one empty slot, or changes nothing.             *)
LEMMA OfferFillsGap ==
  ASSUME TypeOK, FreeIsFunction, NEW c \in Conns, NEW g \in Lists,
         NEW i \in Indexes, Offer(c, g, i)
  PROVE  /\ FreeIsFunction' /\ nfree' \in [Lists -> Int]
         /\ slot' \in [Conns -> (UNION {Slots(h) : h \in Lists}) \cup {None}]
         /\ \A h \in Lists : free'[h] \in [Slots(h) -> Indexes \cup {0}]
         /\ \A h \in Lists : Counted(h) => Counted(h)'
         /\ \/ /\ slot'[c] \in Slots(g)
               /\ free[g][slot'[c]] = 0 /\ free'[g][slot'[c]] = i
               /\ \A h \in Lists : \A y \in Slots(h) :
                    h # g \/ y # slot'[c] => free'[h][y] = free[h][y]
               /\ \A d \in Conns \ {c} : slot'[d] = slot[d]
            \/ free' = free /\ slot' = slot
<1>1. CASE FirstGap(g) = {} /\ UNCHANGED <<free, nfree, slot>>
  BY <1>1 DEF TypeOK, FreeIsFunction, Counted, Used
<1>2. ASSUME NEW x \in FirstGap(g),
             free' = [free EXCEPT ![g][x] = i],
             nfree' = [nfree EXCEPT ![g] = @ + 1],
             slot' = [slot EXCEPT ![c] = x]
      PROVE  /\ FreeIsFunction' /\ nfree' \in [Lists -> Int]
             /\ slot' \in [Conns -> (UNION {Slots(h) : h \in Lists}) \cup {None}]
             /\ \A h \in Lists : free'[h] \in [Slots(h) -> Indexes \cup {0}]
             /\ \A h \in Lists : Counted(h) => Counted(h)'
             /\ slot'[c] = x /\ x \in Slots(g)
             /\ free[g][x] = 0 /\ free'[g][x] = i
             /\ \A h \in Lists : \A y \in Slots(h) :
                    h # g \/ y # x => free'[h][y] = free[h][y]
             /\ \A d \in Conns \ {c} : slot'[d] = slot[d]
  <2>1. x \in Slots(g) /\ free[g][x] = 0
    BY DEF FirstGap
  <2>2. slot' \in [Conns -> (UNION {Slots(h) : h \in Lists}) \cup {None}]
        /\ slot'[c] = x /\ \A d \in Conns \ {c} : slot'[d] = slot[d]
    BY <1>2, <2>1 DEF TypeOK
  <2>3. nfree' \in [Lists -> Int]
    BY <1>2 DEF TypeOK
  <2>4. free' = [h \in Lists |-> IF h = g THEN [free[g] EXCEPT ![x] = i] ELSE free[h]]
    BY <1>2 DEF FreeIsFunction
  <2>5. FreeIsFunction'
    BY <2>4 DEF FreeIsFunction
  <2>6. free'[g] = [free[g] EXCEPT ![x] = i] /\ \A h \in Lists \ {g} : free'[h] = free[h]
    BY <2>4
  <2>7. \A h \in Lists : free[h] \in [Slots(h) -> Indexes \cup {0}]
    BY DEF TypeOK
  <2>8. free'[g] \in [Slots(g) -> Indexes \cup {0}] /\ free'[g][x] = i
        /\ \A y \in Slots(g) \ {x} : free'[g][y] = free[g][y]
    BY <2>1, <2>6, <2>7
  <2>9. \A h \in Lists : Counted(h) => Counted(h)'
    <3> SUFFICES ASSUME NEW h \in Lists, Counted(h)  PROVE Counted(h)'
      OBVIOUS
    <3>1. CASE h # g
      <4>1. Used(h)' = Used(h)
        BY <3>1, <2>6 DEF Used
      <4>2. nfree'[h] = nfree[h]
        BY <3>1, <1>2 DEF TypeOK
      <4> QED  BY <4>1, <4>2 DEF Counted
    <3>2. CASE h = g
      <4>1. Used(g)' = Used(g) \cup {x} /\ x \notin Used(g)
        BY <2>1, <2>8, LimitAssumption DEF Used, Indexes
      <4>2. Cardinality(Used(g)') = Cardinality(Used(g)) + 1
        BY <4>1, UsedIsFinite, FS_AddElement
      <4>3. nfree'[g] = nfree[g] + 1
        BY <1>2 DEF TypeOK
      <4> QED  BY <3>2, <4>2, <4>3 DEF Counted
    <3> QED  BY <3>1, <3>2
  <2>10. \A h \in Lists : free'[h] \in [Slots(h) -> Indexes \cup {0}]
    BY <2>6, <2>7, <2>8
  <2>11. \A h \in Lists : \A y \in Slots(h) : h # g \/ y # x => free'[h][y] = free[h][y]
    BY <2>6, <2>8
  <2> QED  BY <2>1, <2>2, <2>3, <2>5, <2>8, <2>9, <2>10, <2>11
<1> QED  BY <1>1, <1>2 DEF Offer

(* Withdrawing empties one slot.                                           *)
LEMMA WithdrawEmptiesSlot ==
  ASSUME TypeOK, FreeIsFunction, NEW g \in Lists, NEW x \in Slots(g),
         free[g][x] # 0, Withdraw(g, x)
  PROVE  /\ FreeIsFunction' /\ nfree' \in [Lists -> Int]
         /\ \A h \in Lists : free'[h] \in [Slots(h) -> Indexes \cup {0}]
         /\ \A h \in Lists : Counted(h) => Counted(h)'
         /\ free'[g][x] = 0
         /\ \A h \in Lists : \A y \in Slots(h) :
              h # g \/ y # x => free'[h][y] = free[h][y]
<1>1. free' = [h \in Lists |-> IF h = g THEN [free[g] EXCEPT ![x] = 0] ELSE free[h]]
  BY DEF FreeIsFunction, Withdraw
<1>2. FreeIsFunction'
  BY <1>1 DEF FreeIsFunction
<1>3. free'[g] = [free[g] EXCEPT ![x] = 0] /\ \A h \in Lists \ {g} : free'[h] = free[h]
  BY <1>1
<1>4. \A h \in Lists : free[h] \in [Slots(h) -> Indexes \cup {0}]
  BY DEF TypeOK
<1>5. free'[g] \in [Slots(g) -> Indexes \cup {0}] /\ free'[g][x] = 0
      /\ \A y \in Slots(g) \ {x} : free'[g][y] = free[g][y]
  BY <1>3, <1>4
<1>6. nfree' \in [Lists -> Int]
  BY DEF TypeOK, Withdraw
<1>7. \A h \in Lists : Counted(h) => Counted(h)'
  <2> SUFFICES ASSUME NEW h \in Lists, Counted(h)  PROVE Counted(h)'
    OBVIOUS
  <2>1. CASE h # g
    <3>1. Used(h)' = Used(h)
      BY <2>1, <1>3 DEF Used
    <3>2. nfree'[h] = nfree[h]
      BY <2>1 DEF TypeOK, Withdraw
    <3> QED  BY <3>1, <3>2 DEF Counted
  <2>2. CASE h = g
    <3>1. Used(g)' = Used(g) \ {x} /\ x \in Used(g)
      BY <1>5 DEF Used
    <3>2. Cardinality(Used(g)') = Cardinality(Used(g)) - 1
      BY <3>1, UsedIsFinite, FS_RemoveElement
    <3>3. nfree'[g] = nfree[g] - 1
      BY DEF TypeOK, Withdraw
    <3> QED  BY <2>2, <3>2, <3>3 DEF Counted
  <2> QED  BY <2>1, <2>2
<1>8. \A h \in Lists : free'[h] \in [Slots(h) -> Indexes \cup {0}]
  BY <1>3, <1>4, <1>5
<1>9. \A h \in Lists : \A y \in Slots(h) : h # g \/ y # x => free'[h][y] = free[h][y]
  BY <1>3, <1>5
<1> QED  BY <1>2, <1>5, <1>6, <1>7, <1>8, <1>9

-----------------------------------------------------------------------------
(* Steps.                                                                  *)

LEMMA InvInit == Init => IInv
<1> SUFFICES ASSUME Init  PROVE IInv
  OBVIOUS
<1>1. TableTypeOK /\ TableCoherent
  BY InitCoherent DEF Init
<1>2. \A g \in Lists : None \notin Slots(g)
  BY SlotsAreFinite
<1>3. TypeOK
  <2>1. free = [g \in Lists |-> [x \in Slots(g) |-> 0]]
    BY DEF Init
  <2>2. \A g \in Lists : free[g] \in [Slots(g) -> Indexes \cup {0}]
    BY <2>1
  <2>3. limit \in [Lists -> Nat]
    BY PoolAssumption DEF Init
  <2>4. /\ place \in [Conns -> {"idle", "new", "bound", "popped"}]
        /\ status \in [Conns -> {"FREE", "READY"}]
        /\ group \in [Conns -> Lists] /\ uses \in [Conns -> Nat]
    BY DEF Init, Lists
  <2>5. closing \in [Conns -> BOOLEAN] /\ using \in [Conns -> BOOLEAN]
    <3>1. closing = [c \in Conns |-> FALSE]
      BY DEF Init
    <3>2. using = [c \in Conns |-> FALSE]
      BY DEF Init
    <3> QED  BY <3>1, <3>2, Zenon
  <2>6. slot \in [Conns -> (UNION {Slots(g) : g \in Lists}) \cup {None}]
    BY Zenon DEF Init
  <2>7. nfree \in [Lists -> Int] /\ total \in [Lists -> Int]
    BY DEF Init
  <2>8. beat \in [list : Lists \cup {None}, read : Int, want : Nat]
    BY DEF Init
  <2> QED  BY <1>1, <2>2, <2>3, <2>4, <2>5, <2>6, <2>7, <2>8 DEF TypeOK
<1>4. FieldsFitPlace
  BY ConnsAssumption DEF Init, FieldsFitPlace, InTable, TableInit
<1>5. BeatFits
  BY DEF Init, BeatFits, None
<1>6. FreeIsFunction
  <2>1. free = [g \in Lists |-> [x \in Slots(g) |-> 0]]
    BY DEF Init
  <2> QED  BY <2>1 DEF FreeIsFunction
<1>7. SlotsNameTheirConns
  BY DEF Init, SlotsNameTheirConns
<1>8. FreeIsCounted
  <2> SUFFICES ASSUME NEW g \in Lists
               PROVE  nfree[g] = Cardinality({x \in Slots(g) : free[g][x] # 0})
    BY DEF FreeIsCounted
  <2>1. {x \in Slots(g) : free[g][x] # 0} = {}
    BY DEF Init
  <2> QED  BY <2>1, FS_EmptySet DEF Init
<1>9. UsedByOne
  BY DEF Init, UsedByOne
<1> QED  BY <1>3, <1>1, <1>4, <1>5, <1>6, <1>7, <1>8, <1>9 DEF IInv

(* Counting survives a step that keeps every list counted and opens no     *)
(* closed group.                                                           *)
LEMMA StillCounted ==
  ASSUME IInv, limit' = limit, \A h \in Lists : Counted(h) => Counted(h)'
  PROVE  FreeIsCounted'
BY DEF IInv, FreeIsCounted, Counted, Used

(* A step that leaves table, places, lists and uses alone.                 *)
LEMMA FrameStep ==
  ASSUME IInv, TypeOK', BeatFits',
         UNCHANGED <<tableVars, place, group, slot, uses, free, nfree>>,
         limit' = limit
  PROVE  IInv'
<1>1. TableTypeOK' /\ TableCoherent'
  BY StillCoherent DEF IInv, TypeOK
<1>2. FieldsFitPlace'
  BY DEF IInv, FieldsFitPlace, InTable, tableVars
<1>3. FreeIsFunction' /\ SlotsNameTheirConns' /\ UsedByOne'
  BY DEF IInv, FreeIsFunction, SlotsNameTheirConns, InSlot, UsedByOne, tableVars
<1>4. FreeIsCounted'
  BY DEF IInv, FreeIsCounted
<1> QED  BY <1>1, <1>2, <1>3, <1>4 DEF IInv

(* service_pushconn: an idle or new connection is entered and offered.     *)
LEMMA RegisterStep ==
  ASSUME IInv, TypeOK', BeatFits', NEW c \in Conns, NEW g \in Lists,
         place[c] \in {"idle", "new"}, Register(c, g), group'[c] = g,
         \A d \in Conns \ {c} : group'[d] = group[d],
         UNCHANGED <<uses, limit>>
  PROVE  IInv'
<1>1. ~InTable(c) /\ index[c] = -1 /\ slot[c] = None /\ uses[c] = 0
  BY DEF IInv, FieldsFitPlace
<1>2. PushConn(c)
  BY DEF Register
<1>3. /\ TableTypeOK' /\ TableCoherent'
      /\ \A d \in Conns \ {c} : index'[d] = index[d]
      /\ \A i \in Indexes : connections'[i] \in {connections[i], c}
  BY <1>1, <1>2, PushCoherent DEF IInv, TypeOK
<1>4. place'[c] = "bound" /\ \A d \in Conns \ {c} : place'[d] = place[d]
  BY DEF Register, IInv, TypeOK
<1>5. \A i \in Indexes : connections[i] # NoConn => connections'[i] = connections[i]
  <2>1. CASE FreeIndexes = {} /\ UNCHANGED tableVars
    BY <2>1 DEF tableVars
  <2>2. ASSUME NEW i \in FreeIndexes, connections' = [connections EXCEPT ![i] = c]
        PROVE  \A j \in Indexes : connections[j] # NoConn => connections'[j] = connections[j]
    BY <2>2 DEF FreeIndexes, IInv, TypeOK, TableTypeOK
  <2> QED  BY <1>2, <2>1, <2>2 DEF PushConn
<1>6. CASE FreeIndexes # {} /\ Offer(c, g, index'[c])
  <2>1. index'[c] \in Indexes /\ connections'[index'[c]] = c
    BY <1>2, <1>6 DEF PushConn, FreeIndexes, IInv, TypeOK, TableTypeOK
  <2>2. /\ FreeIsFunction'
        /\ \A h \in Lists : Counted(h) => Counted(h)'
        /\ \/ /\ slot'[c] \in Slots(g)
              /\ free[g][slot'[c]] = 0 /\ free'[g][slot'[c]] = index'[c]
              /\ \A h \in Lists : \A y \in Slots(h) :
                   h # g \/ y # slot'[c] => free'[h][y] = free[h][y]
              /\ \A d \in Conns \ {c} : slot'[d] = slot[d]
           \/ free' = free /\ slot' = slot
    BY <1>6, <2>1, OfferFillsGap DEF IInv
  <2>3. FieldsFitPlace'
    <3> SUFFICES ASSUME NEW d \in Conns
                 PROVE  /\ slot'[d] # None => slot'[d] \in Slots(group'[d])
                        /\ place'[d] \in {"idle", "new"} =>
                             index'[d] = -1 /\ slot'[d] = None /\ uses'[d] = 0
                        /\ place'[d] # "bound" => ~InTable(d)'
                        /\ place'[d] = "bound" =>
                             \/ index'[d] \in Indexes /\ connections'[index'[d]] = d
                             \/ index'[d] = -1 /\ slot'[d] = None /\ uses'[d] = 0
      BY DEF FieldsFitPlace
    <3>1. CASE d = c
      <4>1. slot'[c] # None => slot'[c] \in Slots(g)
        BY <1>1, <2>2
      <4> QED  BY <3>1, <2>1, <1>4, <4>1
    <3>2. CASE d # c
      <4>1. slot'[d] = slot[d] /\ index'[d] = index[d] /\ place'[d] = place[d]
        BY <3>2, <2>2, <1>3, <1>4
      <4>2. InTable(d)' => InTable(d)
        BY <3>2, <1>3 DEF InTable
      <4>3. index[d] \in Indexes /\ connections[index[d]] = d => connections'[index[d]] = d
        BY <1>5, ConnsAssumption
      <4> QED  BY <4>1, <4>2, <4>3 DEF IInv, FieldsFitPlace
    <3> QED  BY <3>1, <3>2
  <2>4. SlotsNameTheirConns'
    <3>1. ASSUME NEW h \in Lists, NEW y \in Slots(h), free'[h][y] # 0
          PROVE  LET d == connections'[free'[h][y]]
                 IN  d # NoConn /\ group'[d] = h /\ slot'[d] = y
      <4>1. CASE free'[h][y] = free[h][y]
        <5> DEFINE d == connections[free[h][y]]
        <5>1. d # NoConn /\ group[d] = h /\ slot[d] = y
          BY <3>1, <4>1 DEF IInv, SlotsNameTheirConns
        <5>2. free[h][y] \in Indexes
          BY <3>1, <4>1 DEF IInv, TypeOK
        <5>3. d \in Conns /\ d # c
          BY <5>1, <5>2, <1>1 DEF IInv, TypeOK, TableTypeOK, InTable
        <5>4. connections'[free[h][y]] = d
          BY <5>1, <5>2, <1>5
        <5>5. slot'[d] = slot[d]
          BY <5>3, <2>2
        <5> QED  BY <4>1, <5>1, <5>3, <5>4, <5>5
      <4>2. CASE free'[h][y] # free[h][y]
        <5>1. h = g /\ y = slot'[c] /\ free'[h][y] = index'[c]
          BY <4>2, <2>2
        <5> QED  BY <5>1, <2>1, ConnsAssumption
      <4> QED  BY <4>1, <4>2
    <3>2. ASSUME NEW d \in Conns, place'[d] = "bound", slot'[d] # None
          PROVE  free'[group'[d]][slot'[d]] = index'[d]
      <4>1. CASE d = c
        BY <4>1, <3>2, <2>2, <1>1
      <4>2. CASE d # c
        <5>1. slot'[d] = slot[d] /\ index'[d] = index[d] /\ place'[d] = place[d]
              /\ group'[d] = group[d]
          BY <4>2, <2>2, <1>3, <1>4
        <5>2. free[group[d]][slot[d]] = index[d] /\ index[d] \in Indexes
              /\ connections[index[d]] = d
          BY <3>2, <5>1 DEF IInv, SlotsNameTheirConns, InSlot, FieldsFitPlace
        <5>3. CASE free' = free
          BY <5>1, <5>2, <5>3
        <5>4. CASE group[d] # g \/ slot[d] # slot'[c]
          <6>1. group[d] \in Lists
            BY DEF IInv, TypeOK
          <6>2. slot[d] \in Slots(group[d])
            BY <3>2, <5>1 DEF IInv, FieldsFitPlace
          <6> QED  BY <5>1, <5>2, <5>3, <5>4, <6>1, <6>2, <2>2
        <5>5. CASE free' # free /\ group[d] = g /\ slot[d] = slot'[c]
          BY <5>2, <5>5, <2>2, LimitAssumption DEF Indexes
        <5> QED  BY <5>3, <5>4, <5>5
      <4> QED  BY <4>1, <4>2
    <3> QED  BY <3>1, <3>2 DEF SlotsNameTheirConns, InSlot
  <2>5. FreeIsCounted'
    BY <2>2, StillCounted
  <2>6. UsedByOne'
    BY <1>1, <2>2 DEF IInv, UsedByOne
  <2> QED  BY <1>3, <2>2, <2>3, <2>4, <2>5, <2>6 DEF IInv
<1>7. CASE FreeIndexes = {} /\ UNCHANGED <<free, nfree, slot>>
  <2>1. UNCHANGED tableVars
    BY <1>2, <1>7 DEF PushConn
  <2>2. FieldsFitPlace'
    <3>1. \A d \in Conns : place'[d] = "bound" =>
            \/ index'[d] \in Indexes /\ connections'[index'[d]] = d
            \/ index'[d] = -1 /\ slot'[d] = None /\ uses'[d] = 0
      BY <1>1, <1>4, <1>7, <2>1 DEF tableVars, IInv, FieldsFitPlace
    <3>2. \A d \in Conns : place'[d] # "bound" => ~InTable(d)'
      BY <1>4, <2>1 DEF tableVars, IInv, FieldsFitPlace, InTable
    <3>3. \A d \in Conns : place'[d] \in {"idle", "new"} =>
            index'[d] = -1 /\ slot'[d] = None /\ uses'[d] = 0
      BY <1>4, <1>7, <2>1 DEF tableVars, IInv, FieldsFitPlace
    <3>4. \A d \in Conns : slot'[d] # None => slot'[d] \in Slots(group'[d])
      BY <1>1, <1>7 DEF IInv, FieldsFitPlace
    <3> QED  BY <3>1, <3>2, <3>3, <3>4 DEF FieldsFitPlace
  <2>3. SlotsNameTheirConns'
    <3>1. ASSUME NEW h \in Lists, NEW y \in Slots(h), free[h][y] # 0
          PROVE  connections[free[h][y]] \in Conns \ {c}
      <4>1. free[h][y] \in Indexes
        BY <3>1 DEF IInv, TypeOK
      <4>2. connections[free[h][y]] # NoConn
        BY <3>1 DEF IInv, SlotsNameTheirConns
      <4> QED  BY <4>1, <4>2, <1>1 DEF IInv, TypeOK, TableTypeOK, InTable
    <3>2. \A h \in Lists : \A y \in Slots(h) : free'[h][y] # 0 =>
            LET d == connections'[free'[h][y]]
            IN  d # NoConn /\ group'[d] = h /\ slot'[d] = y
      BY <1>7, <2>1, <3>1 DEF tableVars, IInv, SlotsNameTheirConns
    <3>3. \A d \in Conns : place'[d] = "bound" /\ slot'[d] # None =>
            free'[group'[d]][slot'[d]] = index'[d]
      BY <1>1, <1>4, <1>7, <2>1 DEF tableVars, IInv, SlotsNameTheirConns, InSlot
    <3> QED  BY <3>2, <3>3 DEF SlotsNameTheirConns, InSlot
  <2>4. FreeIsFunction' /\ FreeIsCounted' /\ UsedByOne'
    BY <1>7 DEF IInv, FreeIsFunction, FreeIsCounted, UsedByOne
  <2> QED  BY <1>3, <2>2, <2>3, <2>4 DEF IInv
<1> QED  BY <1>6, <1>7 DEF Register

(* Creating a connection registers it at once or announces it.             *)
LEMMA NewConnStep ==
  ASSUME IInv, TypeOK', BeatFits', NEW c \in Conns, NEW g \in Lists, NewConn(c, g)
  PROVE  IInv'
<1>1. place[c] = "idle" /\ UNCHANGED <<uses, limit>>
  BY DEF NewConn
<1>2. group'[c] = g /\ \A d \in Conns \ {c} : group'[d] = group[d]
  BY DEF NewConn, IInv, TypeOK
<1>3. CASE Register(c, g)
  BY <1>1, <1>2, <1>3, RegisterStep
<1>4. CASE /\ place' = [place EXCEPT ![c] = "new"]
           /\ UNCHANGED <<tableVars, freeVars, slot>>
  <2>1. TableTypeOK' /\ TableCoherent'
    BY <1>4, StillCoherent DEF IInv, TypeOK
  <2>2. ~InTable(c) /\ index[c] = -1 /\ slot[c] = None /\ uses[c] = 0
    BY <1>1 DEF IInv, FieldsFitPlace
  <2>3. place'[c] = "new" /\ \A d \in Conns \ {c} : place'[d] = place[d]
    BY <1>4 DEF IInv, TypeOK
  <2>4. FieldsFitPlace'
    BY <1>1, <1>2, <1>4, <2>2, <2>3 DEF tableVars, IInv, FieldsFitPlace, InTable
  <2>5. SlotsNameTheirConns'
    <3>1. ASSUME NEW h \in Lists, NEW y \in Slots(h), free[h][y] # 0
          PROVE  connections[free[h][y]] \in Conns \ {c}
      <4>1. free[h][y] \in Indexes
        BY <3>1 DEF IInv, TypeOK
      <4>2. connections[free[h][y]] # NoConn
        BY <3>1 DEF IInv, SlotsNameTheirConns
      <4> QED  BY <4>1, <4>2, <2>2 DEF IInv, TypeOK, TableTypeOK, InTable
    <3>2. \A h \in Lists : \A y \in Slots(h) : free'[h][y] # 0 =>
            LET d == connections'[free'[h][y]]
            IN  d # NoConn /\ group'[d] = h /\ slot'[d] = y
      BY <1>2, <1>4, <3>1 DEF tableVars, freeVars, IInv, SlotsNameTheirConns
    <3>3. \A d \in Conns : place'[d] = "bound" /\ slot'[d] # None =>
            free'[group'[d]][slot'[d]] = index'[d]
      BY <1>2, <1>4, <2>3 DEF tableVars, freeVars, IInv, SlotsNameTheirConns, InSlot
    <3> QED  BY <3>2, <3>3 DEF SlotsNameTheirConns, InSlot
  <2>6. FreeIsFunction' /\ FreeIsCounted' /\ UsedByOne'
    BY <1>1, <1>4 DEF freeVars, IInv, FreeIsFunction, FreeIsCounted, UsedByOne
  <2> QED  BY <2>1, <2>4, <2>5, <2>6 DEF IInv
<1> QED  BY <1>3, <1>4 DEF NewConn

(* Registering keeps the types.                                            *)
LEMMA RegisterTypes ==
  ASSUME IInv, NEW c \in Conns, NEW g \in Lists,
         place[c] \in {"idle", "new"}, Register(c, g)
  PROVE  /\ TableTypeOK' /\ nfree' \in [Lists -> Int]
         /\ place' \in [Conns -> {"idle", "new", "bound", "popped"}]
         /\ slot' \in [Conns -> (UNION {Slots(h) : h \in Lists}) \cup {None}]
         /\ \A h \in Lists : free'[h] \in [Slots(h) -> Indexes \cup {0}]
<1>1. ~InTable(c) /\ PushConn(c)
  BY DEF IInv, FieldsFitPlace, Register
<1>2. TableTypeOK'
  BY <1>1, PushCoherent DEF IInv, TypeOK
<1>3. place' \in [Conns -> {"idle", "new", "bound", "popped"}]
  BY DEF Register, IInv, TypeOK
<1>4. CASE FreeIndexes # {} /\ Offer(c, g, index'[c])
  <2>1. index'[c] \in Indexes
    BY <1>1, <1>4 DEF PushConn, FreeIndexes, IInv, TypeOK, TableTypeOK
  <2> QED  BY <1>2, <1>3, <1>4, <2>1, OfferFillsGap DEF IInv
<1>5. CASE UNCHANGED <<free, nfree, slot>>
  BY <1>2, <1>3, <1>5 DEF IInv, TypeOK
<1> QED  BY <1>4, <1>5 DEF Register

LEMMA NewConnTypes ==
  ASSUME IInv, NEW c \in Conns, NEW g \in Lists, NewConn(c, g),
         beat' \in [list : Lists \cup {None}, read : Int, want : Nat]
  PROVE  TypeOK'
<1>1. place[c] = "idle" /\ UNCHANGED <<closing, using, uses, limit, total>>
  BY DEF NewConn
<1>2. group' \in [Conns -> Lists]
  BY DEF NewConn, IInv, TypeOK
<1>3. CASE Register(c, g) /\ UNCHANGED status
  BY <1>1, <1>2, <1>3, RegisterTypes DEF IInv, TypeOK
<1>4. CASE /\ place' = [place EXCEPT ![c] = "new"]
           /\ status' = [status EXCEPT ![c] = "READY"]
           /\ UNCHANGED <<tableVars, freeVars, slot>>
  BY <1>1, <1>2, <1>4 DEF tableVars, freeVars, IInv, TypeOK, TableTypeOK
<1> QED  BY <1>3, <1>4 DEF NewConn

(* The heartbeat and the application create connections.                   *)
LEMMA BeatNewConnStep ==
  ASSUME IInv, NEW c \in Conns, NEW g \in Lists, BeatNewConn(c, g)
  PROVE  IInv'
<1>1. beat' \in [list : Lists \cup {None}, read : Int, want : Nat]
  BY DEF BeatNewConn, IInv, TypeOK
<1>2. BeatFits'
  BY DEF BeatNewConn, BeatFits, IInv, TypeOK
<1>3. NewConn(c, g)
  BY DEF BeatNewConn
<1> QED  BY <1>1, <1>2, <1>3, NewConnTypes, NewConnStep

LEMMA NewOwnConnStep ==
  ASSUME IInv, NEW c \in Conns, NewOwnConn(c)
  PROVE  IInv'
<1>1. NewConn(c, 0) /\ 0 \in Lists /\ beat' = beat
  BY DEF NewOwnConn, Lists
<1>2. BeatFits' /\ beat' \in [list : Lists \cup {None}, read : Int, want : Nat]
  BY <1>1 DEF BeatFits, IInv, TypeOK
<1> QED  BY <1>1, <1>2, NewConnTypes, NewConnStep

(* NEW_SESSION arrives.                                                    *)
LEMMA AddConnectionStep ==
  ASSUME IInv, NEW c \in Conns, AddConnection(c)
  PROVE  IInv'
<1>1. /\ group[c] \in Lists /\ place[c] \in {"idle", "new"}
      /\ Register(c, group[c])
      /\ UNCHANGED <<closing, status, using, group, uses, limit, total, beat>>
  BY DEF AddConnection, IInv, TypeOK
<1>2. TypeOK'
  BY <1>1, RegisterTypes DEF IInv, TypeOK
<1>3. BeatFits'
  BY <1>1 DEF IInv, BeatFits
<1> QED  BY <1>1, <1>2, <1>3, RegisterStep

(* Steps that touch neither table nor lists.                               *)
LEMMA QuietStep ==
  ASSUME IInv, \/ WantConns \/ BeatFails \/ CountConn
               \/ \E c \in Conns : OkConn(c) \/ Close(c)
               \/ UNCHANGED vars
  PROVE  IInv'
<1>1. CASE WantConns \/ BeatFails
  <2>1. UNCHANGED <<heartVars, total>>
    BY <1>1 DEF WantConns, BeatFails
  <2>2. beat.list = None /\ limit[0] \in Nat /\ total[0] \in Int
    BY <1>1 DEF WantConns, BeatFails, Beats, IInv, TypeOK, Lists
  <2>3. beat' \in [list : Lists \cup {None}, read : Int, want : Nat] /\ beat'.list = None
    BY <1>1, <2>2 DEF WantConns, BeatFails, IInv, TypeOK
  <2>4. TypeOK' /\ BeatFits'
    BY <2>1, <2>3 DEF heartVars, tableVars, connVars, freeVars, IInv, TypeOK,
                      TableTypeOK, BeatFits, None
  <2> QED  BY <2>1, <2>4, FrameStep DEF heartVars, connVars, freeVars
<1>2. CASE CountConn
  <2> DEFINE g == beat.list
  <2>1. g \in Lists /\ total[g] \in Int /\ beat.read \in Int
        /\ (g = 0 => beat.want > 0)
    BY <1>2 DEF CountConn, Beats, IInv, TypeOK, BeatFits
  <2>2. PICK n \in {total[g] + 1} \cup Overlapped(g) : total' = [total EXCEPT ![g] = n]
    BY <1>2 DEF CountConn
  <2>3. n \in Int
    BY <2>1, <2>2 DEF Overlapped
  <2>4. total' \in [Lists -> Int]
    BY <2>2, <2>3 DEF IInv, TypeOK
  <2>5. beat' \in [list : Lists \cup {None}, read : Int, want : Nat] /\ beat'.list = None
    <3> DEFINE want == IF g = 0 THEN beat.want - 1 ELSE beat.want
    <3>1. want \in Nat
      BY <2>1 DEF IInv, TypeOK
    <3>2. beat' = [list |-> None, read |-> 0, want |-> want]
      BY <1>2 DEF CountConn
    <3> HIDE DEF want
    <3> QED  BY <3>1, <3>2 DEF IInv, TypeOK
  <2>6. UNCHANGED heartVars
    BY <1>2 DEF CountConn
  <2>7. TypeOK' /\ BeatFits'
    BY <2>4, <2>5, <2>6 DEF heartVars, tableVars, connVars, freeVars, IInv, TypeOK,
                            TableTypeOK, BeatFits, None
  <2> QED  BY <2>6, <2>7, FrameStep DEF heartVars, connVars, freeVars
<1>3. ASSUME NEW c \in Conns, OkConn(c)  PROVE IInv'
  <2>1. UNCHANGED <<tableVars, place, closing, using, group, slot, uses,
                    freeVars, limit, total, beat>>
    BY <1>3 DEF OkConn
  <2>2. status' \in [Conns -> {"FREE", "READY"}]
    BY <1>3 DEF OkConn, IInv, TypeOK
  <2>3. TypeOK' /\ BeatFits'
    BY <2>1, <2>2 DEF tableVars, freeVars, IInv, TypeOK, TableTypeOK, BeatFits
  <2> QED  BY <2>1, <2>3, FrameStep DEF freeVars
<1>4. ASSUME NEW c \in Conns, Close(c)  PROVE IInv'
  <2>1. UNCHANGED <<tableVars, place, status, using, group, slot, uses,
                    freeVars, limit, total, beat>>
    BY <1>4 DEF Close
  <2>2. closing' \in [Conns -> BOOLEAN]
    BY <1>4 DEF Close, IInv, TypeOK
  <2>3. TypeOK' /\ BeatFits'
    BY <2>1, <2>2 DEF tableVars, freeVars, IInv, TypeOK, TableTypeOK, BeatFits
  <2> QED  BY <2>1, <2>3, FrameStep DEF freeVars
<1>5. CASE UNCHANGED vars
  <2>1. TypeOK' /\ BeatFits'
    BY <1>5 DEF vars, connVars, tableVars, freeVars, IInv, TypeOK, TableTypeOK, BeatFits
  <2> QED  BY <1>5, <2>1, FrameStep DEF vars, connVars, freeVars
<1> QED  BY <1>1, <1>2, <1>3, <1>4, <1>5

(* service_closegroup empties no slot: it only gives up the counter.       *)
LEMMA CloseGroupStep ==
  ASSUME IInv, NEW g \in Groups, CloseGroup(g)
  PROVE  IInv'
<1>1. UNCHANGED <<tableVars, place, status, using, group, slot, uses, free, total, beat>>
  BY DEF CloseGroup
<1>2. g \in Lists /\ g # 0
  BY PoolAssumption DEF Lists
<1>3. limit' \in [Lists -> Nat] /\ limit'[g] = 0
      /\ \A h \in Lists \ {g} : limit'[h] = limit[h]
  BY <1>2 DEF CloseGroup, IInv, TypeOK
<1>4. nfree' \in [Lists -> Int] /\ \A h \in Lists \ {g} : nfree'[h] = nfree[h]
  BY <1>2 DEF CloseGroup, IInv, TypeOK
<1>5. closing' \in [Conns -> BOOLEAN]
  <2>1. closing \in [Conns -> BOOLEAN]
    BY DEF IInv, TypeOK
  <2>2. \A c \in Conns : closing'[c] \in BOOLEAN
    BY DEF CloseGroup
  <2>3. closing' = [c \in Conns |-> closing'[c]]
    BY DEF CloseGroup
  <2> QED  BY <2>2, <2>3
<1>6. TypeOK' /\ BeatFits'
  BY <1>1, <1>3, <1>4, <1>5 DEF tableVars, IInv, TypeOK, TableTypeOK, BeatFits
<1>7. TableTypeOK' /\ TableCoherent'
  BY <1>1, StillCoherent DEF IInv, TypeOK
<1>8. FieldsFitPlace'
  BY <1>1 DEF IInv, FieldsFitPlace, InTable, tableVars
<1>9. FreeIsFunction' /\ SlotsNameTheirConns' /\ UsedByOne'
  BY <1>1 DEF IInv, FreeIsFunction, SlotsNameTheirConns, InSlot, UsedByOne, tableVars
<1>10. FreeIsCounted'
  BY <1>1, <1>2, <1>3, <1>4 DEF IInv, FreeIsCounted
<1> QED  BY <1>6, <1>7, <1>8, <1>9, <1>10 DEF IInv

(* service_getconn takes the connection out of its slot.                   *)
LEMMA GetConnStep ==
  ASSUME IInv, NEW g \in Lists, GetConn(g)
  PROVE  IInv'
<1>1. PICK x \in Slots(g) :
        /\ Usable(g, x)
        /\ using' = [using EXCEPT ![connections[free[g][x]]] = TRUE]
        /\ uses' = [uses EXCEPT ![connections[free[g][x]]] = @ + 1]
        /\ slot' = [slot EXCEPT ![connections[free[g][x]]] = None]
        /\ Withdraw(g, x)
        /\ UNCHANGED <<tableVars, place, closing, status, group, limit, total, beat>>
  BY DEF GetConn
<1> DEFINE c == connections[free[g][x]]
<1>2. free[g][x] \in Indexes /\ free[g][x] # 0
  BY <1>1 DEF Usable, IInv, TypeOK
<1>3. c \in Conns /\ group[c] = g /\ slot[c] = x /\ InTable(c)
  BY <1>2, <1>1 DEF IInv, SlotsNameTheirConns, TypeOK, TableTypeOK, InTable
<1>4. x # None
  BY SlotsAreFinite
<1>5. uses[c] = 0
  <2> HIDE DEF c
  <2>1. uses[c] \in Nat /\ uses[c] <= 1 /\ (uses[c] = 1 => slot[c] = None)
    BY <1>3 DEF IInv, UsedByOne, TypeOK
  <2> QED  BY <1>3, <1>4, <2>1
<1>6. place[c] = "bound" /\ index[c] \in Indexes /\ connections[index[c]] = c
  BY <1>3, <1>4 DEF IInv, FieldsFitPlace
<1>7. uses'[c] = 1 /\ slot'[c] = None
      /\ \A d \in Conns \ {c} : uses'[d] = uses[d] /\ slot'[d] = slot[d]
  BY <1>1, <1>3, <1>5 DEF IInv, TypeOK
<1>8. /\ FreeIsFunction' /\ nfree' \in [Lists -> Int]
      /\ \A h \in Lists : free'[h] \in [Slots(h) -> Indexes \cup {0}]
      /\ \A h \in Lists : Counted(h) => Counted(h)'
      /\ free'[g][x] = 0
      /\ \A h \in Lists : \A y \in Slots(h) : h # g \/ y # x => free'[h][y] = free[h][y]
  BY <1>1, <1>2, WithdrawEmptiesSlot DEF IInv
<1>9. TypeOK' /\ BeatFits'
  <2>1. using' \in [Conns -> BOOLEAN]
    BY <1>1, <1>3 DEF IInv, TypeOK
  <2>2. uses' \in [Conns -> Nat]
        /\ slot' \in [Conns -> (UNION {Slots(h) : h \in Lists}) \cup {None}]
    BY <1>1, <1>3 DEF IInv, TypeOK
  <2> QED  BY <1>1, <1>8, <2>1, <2>2 DEF tableVars, IInv, TypeOK, TableTypeOK, BeatFits
<1>10. TableTypeOK' /\ TableCoherent'
  BY <1>1, StillCoherent DEF IInv, TypeOK
<1>11. FieldsFitPlace'
  <2> SUFFICES ASSUME NEW d \in Conns
               PROVE  /\ slot'[d] # None => slot'[d] \in Slots(group'[d])
                      /\ place'[d] \in {"idle", "new"} =>
                           index'[d] = -1 /\ slot'[d] = None /\ uses'[d] = 0
                      /\ place'[d] # "bound" => ~InTable(d)'
                      /\ place'[d] = "bound" =>
                           \/ index'[d] \in Indexes /\ connections'[index'[d]] = d
                           \/ index'[d] = -1 /\ slot'[d] = None /\ uses'[d] = 0
    BY DEF FieldsFitPlace
  <2>1. CASE d = c
    BY <2>1, <1>1, <1>6, <1>7 DEF tableVars
  <2>2. CASE d # c
    BY <2>2, <1>1, <1>7 DEF tableVars, IInv, FieldsFitPlace, InTable
  <2> QED  BY <2>1, <2>2
<1>12. SlotsNameTheirConns'
  <2>1. ASSUME NEW h \in Lists, NEW y \in Slots(h), free'[h][y] # 0
        PROVE  LET d == connections'[free'[h][y]]
               IN  d # NoConn /\ group'[d] = h /\ slot'[d] = y
    <3> DEFINE d == connections[free[h][y]]
    <3>1. (h # g \/ y # x) /\ free'[h][y] = free[h][y]
      BY <2>1, <1>8
    <3>2. d # NoConn /\ group[d] = h /\ slot[d] = y /\ free[h][y] \in Indexes
      BY <2>1, <3>1 DEF IInv, SlotsNameTheirConns, TypeOK
    <3>3. d \in Conns \ {c}
      BY <3>1, <3>2, <1>3 DEF IInv, TypeOK, TableTypeOK
    <3> QED  BY <1>1, <1>7, <3>1, <3>2, <3>3 DEF tableVars
  <2>2. ASSUME NEW d \in Conns, place'[d] = "bound", slot'[d] # None
        PROVE  free'[group'[d]][slot'[d]] = index'[d]
    <3>1. d # c /\ slot'[d] = slot[d] /\ place[d] = "bound"
      BY <2>2, <1>1, <1>7
    <3>2. free[group[d]][slot[d]] = index[d] /\ index[d] \in Indexes
          /\ connections[index[d]] = d
          /\ group[d] \in Lists /\ slot[d] \in Slots(group[d])
      BY <2>2, <3>1 DEF IInv, SlotsNameTheirConns, InSlot, FieldsFitPlace, TypeOK
    <3>3. group[d] # g \/ slot[d] # x
      BY <3>1, <3>2
    <3> QED  BY <1>1, <1>8, <3>1, <3>2, <3>3 DEF tableVars
  <2> QED  BY <2>1, <2>2 DEF SlotsNameTheirConns, InSlot
<1>13. FreeIsCounted'
  BY <1>1, <1>8, StillCounted
<1>14. UsedByOne'
  BY <1>7 DEF IInv, UsedByOne
<1> QED  BY <1>8, <1>9, <1>10, <1>11, <1>12, <1>13, <1>14 DEF IInv

(* conn_over_session offers the connection again, or closes it.            *)
LEMMA OverSessionStep ==
  ASSUME IInv, NEW c \in Conns, OverSession(c)
  PROVE  IInv'
<1> DEFINE g == group[c]
<1>1. place[c] = "bound" /\ uses[c] > 0 /\ g \in Lists
      /\ UNCHANGED <<tableVars, place, status, group, limit, total, beat>>
  BY DEF OverSession, IInv, TypeOK
<1>2. uses[c] = 1 /\ slot[c] = None
  BY <1>1 DEF IInv, UsedByOne, TypeOK
<1>3. index[c] \in Indexes /\ connections[index[c]] = c
  BY <1>1 DEF IInv, FieldsFitPlace
<1>4. uses' \in [Conns -> Nat] /\ uses'[c] = 0
      /\ \A d \in Conns \ {c} : uses'[d] = uses[d]
  BY <1>2 DEF OverSession, IInv, TypeOK
<1>5. Offer(c, g, index[c]) \/ UNCHANGED <<freeVars, slot>>
  BY DEF OverSession
<1>6. /\ FreeIsFunction' /\ nfree' \in [Lists -> Int]
      /\ slot' \in [Conns -> (UNION {Slots(h) : h \in Lists}) \cup {None}]
      /\ \A h \in Lists : free'[h] \in [Slots(h) -> Indexes \cup {0}]
      /\ \A h \in Lists : Counted(h) => Counted(h)'
      /\ \/ /\ slot'[c] \in Slots(g)
            /\ free[g][slot'[c]] = 0 /\ free'[g][slot'[c]] = index[c]
            /\ \A h \in Lists : \A y \in Slots(h) :
                 h # g \/ y # slot'[c] => free'[h][y] = free[h][y]
            /\ \A d \in Conns \ {c} : slot'[d] = slot[d]
         \/ free' = free /\ slot' = slot
  <2>1. CASE Offer(c, g, index[c])
    BY <1>1, <1>3, <2>1, OfferFillsGap DEF IInv
  <2>2. CASE UNCHANGED <<freeVars, slot>>
    BY <2>2 DEF freeVars, IInv, FreeIsFunction, TypeOK, Counted, Used
  <2> QED  BY <1>5, <2>1, <2>2
<1>7. TypeOK' /\ BeatFits'
  <2>1. closing' \in [Conns -> BOOLEAN]
    BY DEF OverSession, IInv, TypeOK
  <2>2. using' \in [Conns -> BOOLEAN]
    BY DEF OverSession, IInv, TypeOK
  <2> QED  BY <1>1, <1>4, <1>6, <2>1, <2>2 DEF tableVars, IInv, TypeOK, TableTypeOK, BeatFits
<1>8. TableTypeOK' /\ TableCoherent'
  BY <1>1, StillCoherent DEF IInv, TypeOK
<1>9. FieldsFitPlace'
  <2> SUFFICES ASSUME NEW d \in Conns
               PROVE  /\ slot'[d] # None => slot'[d] \in Slots(group'[d])
                      /\ place'[d] \in {"idle", "new"} =>
                           index'[d] = -1 /\ slot'[d] = None /\ uses'[d] = 0
                      /\ place'[d] # "bound" => ~InTable(d)'
                      /\ place'[d] = "bound" =>
                           \/ index'[d] \in Indexes /\ connections'[index'[d]] = d
                           \/ index'[d] = -1 /\ slot'[d] = None /\ uses'[d] = 0
    BY DEF FieldsFitPlace
  <2>1. CASE d = c
    BY <2>1, <1>1, <1>2, <1>3, <1>6 DEF tableVars
  <2>2. CASE d # c
    <3>1. slot'[d] = slot[d]
      BY <2>2, <1>6
    <3> QED  BY <2>2, <3>1, <1>1, <1>4 DEF tableVars, IInv, FieldsFitPlace, InTable
  <2> QED  BY <2>1, <2>2
<1>10. SlotsNameTheirConns'
  <2>1. ASSUME NEW h \in Lists, NEW y \in Slots(h), free'[h][y] # 0
        PROVE  LET d == connections'[free'[h][y]]
               IN  d # NoConn /\ group'[d] = h /\ slot'[d] = y
    <3>1. CASE free'[h][y] = free[h][y]
      <4> DEFINE d == connections[free[h][y]]
      <4>1. d # NoConn /\ group[d] = h /\ slot[d] = y /\ free[h][y] \in Indexes
        BY <2>1, <3>1 DEF IInv, SlotsNameTheirConns, TypeOK
      <4>2. d \in Conns \ {c}
        BY <4>1, <1>2, SlotsAreFinite DEF IInv, TypeOK, TableTypeOK
      <4>3. slot'[d] = slot[d]
        BY <4>2, <1>6
      <4> QED  BY <1>1, <3>1, <4>1, <4>3 DEF tableVars
    <3>2. CASE free'[h][y] # free[h][y]
      <4>1. h = g /\ y = slot'[c] /\ free'[h][y] = index[c]
        BY <3>2, <1>6
      <4> QED  BY <4>1, <1>1, <1>3, ConnsAssumption DEF tableVars
    <3> QED  BY <3>1, <3>2
  <2>2. ASSUME NEW d \in Conns, place'[d] = "bound", slot'[d] # None
        PROVE  free'[group'[d]][slot'[d]] = index'[d]
    <3>1. CASE d = c
      BY <3>1, <2>2, <1>1, <1>2, <1>6 DEF tableVars
    <3>2. CASE d # c
      <4>1. slot'[d] = slot[d] /\ place[d] = "bound"
        BY <3>2, <2>2, <1>1, <1>6
      <4>2. free[group[d]][slot[d]] = index[d] /\ index[d] \in Indexes
            /\ group[d] \in Lists /\ slot[d] \in Slots(group[d])
        BY <2>2, <4>1 DEF IInv, SlotsNameTheirConns, InSlot, FieldsFitPlace, TypeOK
      <4>3. index[d] # 0
        BY <4>2, LimitAssumption DEF Indexes
      <4>4. free'[group[d]][slot[d]] = free[group[d]][slot[d]]
        BY <4>2, <4>3, <1>6
      <4> QED  BY <1>1, <4>1, <4>2, <4>4 DEF tableVars
    <3> QED  BY <3>1, <3>2
  <2> QED  BY <2>1, <2>2 DEF SlotsNameTheirConns, InSlot
<1>11. FreeIsCounted'
  BY <1>1, <1>6, StillCounted
<1>12. UsedByOne'
  <2>1. \A d \in Conns \ {c} : slot'[d] = slot[d]
    BY <1>6
  <2> QED  BY <1>4, <2>1 DEF IInv, UsedByOne
<1> QED  BY <1>6, <1>7, <1>8, <1>9, <1>10, <1>11, <1>12 DEF IInv

(* service_popconn withdraws the connection from table and list.           *)
LEMMA PopStep ==
  ASSUME IInv, NEW c \in Conns, Pop(c)
  PROVE  IInv'
<1>1. place[c] = "bound" /\ PopConn(c)
      /\ UNCHANGED <<closing, status, using, group, slot, uses, limit, beat>>
  BY DEF Pop
<1>2. place' \in [Conns -> {"idle", "new", "bound", "popped"}]
      /\ place'[c] = "popped" /\ \A d \in Conns \ {c} : place'[d] = place[d]
  BY DEF Pop, IInv, TypeOK
<1>3. /\ TableTypeOK' /\ TableCoherent' /\ index' = index
      /\ \A i \in Indexes : connections'[i] # c
      /\ \A i \in Indexes : connections'[i] \in {connections[i], NoConn}
  BY <1>1, PopCoherent DEF IInv, TypeOK
<1>4. \A i \in Indexes : connections[i] # c => connections'[i] = connections[i]
  BY <1>1 DEF PopConn, HoldsItsIndex, tableVars, IInv, TypeOK, TableTypeOK
<1>5. total' \in [Lists -> Int]
  <2>1. group[c] \in Lists /\ total[group[c]] \in Int
    BY DEF IInv, TypeOK
  <2> QED  BY <2>1 DEF Pop, PopFromPool, IInv, TypeOK
<1>6. /\ FreeIsFunction' /\ nfree' \in [Lists -> Int]
      /\ \A h \in Lists : free'[h] \in [Slots(h) -> Indexes \cup {0}]
      /\ \A h \in Lists : Counted(h) => Counted(h)'
      /\ \A h \in Lists : \A y \in Slots(h) :
           \/ free'[h][y] = free[h][y]
           \/ free'[h][y] = 0 /\ h = group[c] /\ y = slot[c]
      /\ slot[c] # None => free'[group[c]][slot[c]] = 0
  <2>1. CASE HoldsItsIndex(c) /\ InSlot(c)
    <3>1. Withdraw(group[c], slot[c])
      BY <2>1 DEF Pop, PopFromPool
    <3>2. group[c] \in Lists /\ slot[c] \in Slots(group[c])
      BY <2>1 DEF InSlot, IInv, TypeOK, FieldsFitPlace
    <3>3. free[group[c]][slot[c]] # 0
      BY <2>1, LimitAssumption DEF InSlot, HoldsItsIndex
    <3> QED  BY <3>1, <3>2, <3>3, WithdrawEmptiesSlot DEF IInv
  <2>2. CASE HoldsItsIndex(c) /\ ~InSlot(c)
    <3>1. UNCHANGED freeVars
      BY <2>2 DEF Pop, PopFromPool
    <3>2. slot[c] = None
      BY <2>2, <1>1 DEF IInv, SlotsNameTheirConns
    <3> QED  BY <3>1, <3>2 DEF freeVars, IInv, FreeIsFunction, TypeOK, Counted, Used
  <2>3. CASE ~HoldsItsIndex(c)
    <3>1. UNCHANGED <<freeVars, tableVars>>
      BY <2>3, <1>1 DEF Pop, PopConn
    <3>2. slot[c] = None
      BY <1>1, <1>3, <3>1 DEF tableVars, IInv, FieldsFitPlace
    <3> QED  BY <3>1, <3>2 DEF freeVars, IInv, FreeIsFunction, TypeOK, Counted, Used
  <2> QED  BY <2>1, <2>2, <2>3
<1>7. TypeOK' /\ BeatFits'
  BY <1>1, <1>2, <1>3, <1>5, <1>6 DEF IInv, TypeOK, BeatFits
<1>8. FieldsFitPlace'
  <2> SUFFICES ASSUME NEW d \in Conns
               PROVE  /\ slot'[d] # None => slot'[d] \in Slots(group'[d])
                      /\ place'[d] \in {"idle", "new"} =>
                           index'[d] = -1 /\ slot'[d] = None /\ uses'[d] = 0
                      /\ place'[d] # "bound" => ~InTable(d)'
                      /\ place'[d] = "bound" =>
                           \/ index'[d] \in Indexes /\ connections'[index'[d]] = d
                           \/ index'[d] = -1 /\ slot'[d] = None /\ uses'[d] = 0
    BY DEF FieldsFitPlace
  <2>1. CASE d = c
    BY <2>1, <1>1, <1>2, <1>3 DEF IInv, FieldsFitPlace, InTable
  <2>2. CASE d # c
    <3>1. InTable(d)' => InTable(d)
      BY <1>3, ConnsAssumption DEF InTable
    <3> QED  BY <2>2, <3>1, <1>1, <1>2, <1>3, <1>4 DEF IInv, FieldsFitPlace
  <2> QED  BY <2>1, <2>2
<1>9. SlotsNameTheirConns'
  <2>1. ASSUME NEW h \in Lists, NEW y \in Slots(h), free'[h][y] # 0
        PROVE  LET d == connections'[free'[h][y]]
               IN  d # NoConn /\ group'[d] = h /\ slot'[d] = y
    <3> DEFINE d == connections[free[h][y]]
    <3>1. free'[h][y] = free[h][y]
      BY <2>1, <1>6
    <3>2. d # NoConn /\ group[d] = h /\ slot[d] = y /\ free[h][y] \in Indexes
      BY <2>1, <3>1 DEF IInv, SlotsNameTheirConns, TypeOK
    <3>3. d # c
      BY <2>1, <3>2, <1>6, SlotsAreFinite
    <3> QED  BY <1>1, <1>4, <3>1, <3>2, <3>3
  <2>2. ASSUME NEW d \in Conns, place'[d] = "bound", slot'[d] # None
        PROVE  free'[group'[d]][slot'[d]] = index'[d]
    <3>1. d # c /\ place[d] = "bound" /\ slot[d] # None
      BY <2>2, <1>1, <1>2
    <3>2. free[group[d]][slot[d]] = index[d] /\ index[d] \in Indexes
          /\ connections[index[d]] = d
          /\ group[d] \in Lists /\ slot[d] \in Slots(group[d])
      BY <3>1 DEF IInv, SlotsNameTheirConns, InSlot, FieldsFitPlace, TypeOK
    <3>3. ~(group[d] = group[c] /\ slot[d] = slot[c])
      <4> SUFFICES ASSUME group[d] = group[c], slot[d] = slot[c]  PROVE FALSE
        OBVIOUS
      <4>1. free[group[c]][slot[c]] = index[c]
        BY <1>1, <3>1 DEF IInv, SlotsNameTheirConns, InSlot
      <4>2. connections[index[c]] = c
        BY <1>1, <3>1 DEF IInv, FieldsFitPlace
      <4> QED  BY <3>1, <3>2, <4>1, <4>2
    <3> QED  BY <1>1, <1>3, <1>6, <3>2, <3>3
  <2> QED  BY <2>1, <2>2 DEF SlotsNameTheirConns, InSlot
<1>10. FreeIsCounted'
  BY <1>1, <1>6, StillCounted
<1>11. UsedByOne'
  BY <1>1 DEF IInv, UsedByOne
<1> QED  BY <1>3, <1>6, <1>7, <1>8, <1>9, <1>10, <1>11 DEF IInv

(* conn_reset prepares the connection for its next life.                   *)
LEMMA ResetStep ==
  ASSUME IInv, NEW c \in Conns, Reset(c)
  PROVE  IInv'
<1>1. ~InTable(c) /\ ForgetIndex(c) /\ UNCHANGED <<freeVars, limit, total, beat>>
  BY DEF Reset, IInv, FieldsFitPlace
<1>2. /\ TableTypeOK' /\ TableCoherent' /\ connections' = connections
      /\ index'[c] = -1 /\ \A d \in Conns \ {c} : index'[d] = index[d]
  BY <1>1, ForgetCoherent DEF IInv, TypeOK, TableTypeOK, ForgetIndex
<1>3. /\ place' = [place EXCEPT ![c] = "idle"] /\ status' = [status EXCEPT ![c] = "FREE"]
      /\ group' = [group EXCEPT ![c] = 0] /\ slot' = [slot EXCEPT ![c] = None]
      /\ uses' = [uses EXCEPT ![c] = 0]
  BY DEF Reset
<1>4. /\ place' \in [Conns -> {"idle", "new", "bound", "popped"}]
      /\ status' \in [Conns -> {"FREE", "READY"}]
      /\ group' \in [Conns -> Lists] /\ uses' \in [Conns -> Nat]
      /\ slot' \in [Conns -> (UNION {Slots(g) : g \in Lists}) \cup {None}]
  BY <1>3 DEF IInv, TypeOK, Lists
<1>5. closing' \in [Conns -> BOOLEAN] /\ using' \in [Conns -> BOOLEAN]
  <2>1. closing' \in [Conns -> BOOLEAN]
    BY DEF Reset, IInv, TypeOK
  <2>2. using' \in [Conns -> BOOLEAN]
    BY DEF Reset, IInv, TypeOK
  <2> QED  BY <2>1, <2>2
<1>6. TypeOK' /\ BeatFits'
  BY <1>1, <1>2, <1>4, <1>5 DEF freeVars, IInv, TypeOK, BeatFits
<1>7. /\ place'[c] = "idle" /\ slot'[c] = None /\ uses'[c] = 0
      /\ \A d \in Conns \ {c} : /\ place'[d] = place[d] /\ slot'[d] = slot[d]
                               /\ uses'[d] = uses[d] /\ group'[d] = group[d]
  BY <1>3 DEF IInv, TypeOK
<1>8. FieldsFitPlace'
  BY <1>1, <1>2, <1>7 DEF IInv, FieldsFitPlace, InTable
<1>9. SlotsNameTheirConns'
  <2>1. ASSUME NEW h \in Lists, NEW y \in Slots(h), free'[h][y] # 0
        PROVE  LET d == connections'[free'[h][y]]
               IN  d # NoConn /\ group'[d] = h /\ slot'[d] = y
    <3> DEFINE d == connections[free[h][y]]
    <3>1. free[h][y] # 0
      BY <1>1, <2>1 DEF freeVars
    <3>2. d # NoConn /\ group[d] = h /\ slot[d] = y /\ free[h][y] \in Indexes
      BY <3>1 DEF IInv, SlotsNameTheirConns, TypeOK
    <3>3. d \in Conns \ {c}
      BY <1>1, <3>2 DEF IInv, TypeOK, TableTypeOK, InTable
    <3> QED  BY <1>1, <1>2, <1>7, <3>2, <3>3 DEF freeVars
  <2>2. ASSUME NEW d \in Conns, place'[d] = "bound", slot'[d] # None
        PROVE  free'[group'[d]][slot'[d]] = index'[d]
    BY <1>1, <1>2, <1>7, <2>2 DEF freeVars, IInv, SlotsNameTheirConns, InSlot
  <2> QED  BY <2>1, <2>2 DEF SlotsNameTheirConns, InSlot
<1>10. FreeIsFunction' /\ FreeIsCounted'
  BY <1>1 DEF freeVars, IInv, FreeIsFunction, FreeIsCounted
<1>11. UsedByOne'
  BY <1>7 DEF IInv, UsedByOne
<1> QED  BY <1>2, <1>6, <1>8, <1>9, <1>10, <1>11 DEF IInv

-----------------------------------------------------------------------------
(* The invariant holds, and with it the properties.                        *)

LEMMA InvStep == IInv /\ [Next]_vars => IInv'
<1> SUFFICES ASSUME IInv, [Next]_vars  PROVE IInv'
  OBVIOUS
<1>1. CASE WantConns \/ BeatFails \/ CountConn \/ UNCHANGED vars
  BY <1>1, QuietStep
<1>2. ASSUME NEW g \in Lists, GetConn(g)  PROVE IInv'
  BY <1>2, GetConnStep
<1>3. ASSUME NEW g \in Groups, CloseGroup(g)  PROVE IInv'
  BY <1>3, CloseGroupStep
<1>4. ASSUME NEW c \in Conns, NEW g \in Lists, BeatNewConn(c, g)  PROVE IInv'
  BY <1>4, BeatNewConnStep
<1>5. ASSUME NEW c \in Conns, NewOwnConn(c)  PROVE IInv'
  BY <1>5, NewOwnConnStep
<1>6. ASSUME NEW c \in Conns, AddConnection(c)  PROVE IInv'
  BY <1>6, AddConnectionStep
<1>7. ASSUME NEW c \in Conns, OkConn(c) \/ Close(c)  PROVE IInv'
  BY <1>7, QuietStep
<1>8. ASSUME NEW c \in Conns, OverSession(c)  PROVE IInv'
  BY <1>8, OverSessionStep
<1>9. ASSUME NEW c \in Conns, Pop(c)  PROVE IInv'
  BY <1>9, PopStep
<1>10. ASSUME NEW c \in Conns, Reset(c)  PROVE IInv'
  BY <1>10, ResetStep
<1> QED
  BY <1>1, <1>2, <1>3, <1>4, <1>5, <1>6, <1>7, <1>8, <1>9, <1>10 DEF Next

THEOREM Invariant == Spec => []IInv
<1> QED  BY InvInit, InvStep, PTL DEF Spec

(* The fields of the groups, the pool and the connections keep their       *)
(* types; the slots of a list hold indexes of the table or nothing.        *)
THEOREM PoolTypeCorrect == Spec => []TypeOK
<1>1. IInv => TypeOK
  BY DEF IInv
<1> QED  BY <1>1, Invariant, PTL

(* A slot of conns_free and the connection whose index it holds name each  *)
(* other: service_getconn finds connections of its own group only, and     *)
(* service_popconn clears the slot of the connection it removes.           *)
THEOREM SlotsAreTheirs == Spec => []SlotsNameTheirConns
<1>1. IInv => SlotsNameTheirConns
  BY DEF IInv
<1> QED  BY <1>1, Invariant, PTL

(* nconns_free counts the slots in use until service_closegroup gives the  *)
(* counter up, so service_getconn, which looks at it first, misses no free *)
(* connection.                                                             *)
THEOREM FreeCountIsRight == Spec => []FreeIsCounted
<1>1. IInv => FreeIsCounted
  BY DEF IInv
<1> QED  BY <1>1, Invariant, PTL

(* service_getconn gives a connection to one session at a time, and        *)
(* service_freeconn offers it again only when that session is over.        *)
THEOREM UsedOnce == Spec => []UsedByOne
<1>1. IInv => UsedByOne
  BY DEF IInv
<1> QED  BY <1>1, Invariant, PTL

(* Connections of groups and of the pool keep the connection table         *)
(* coherent, which service_pushconn and service_popconn rely on.           *)
THEOREM PoolKeepsTable == Spec => []TableCoherent
<1>1. IInv => TableCoherent
  BY DEF IInv
<1> QED  BY <1>1, Invariant, PTL
=============================================================================
