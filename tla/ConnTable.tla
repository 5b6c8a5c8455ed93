------------------------------ MODULE ConnTable ------------------------------
(***************************************************************************)
(* The connection table of a service (service.c): connections[], the       *)
(* index a registered connection carries, index_max and                    *)
(* running_connections.  service_pushconn and service_popconn run with     *)
(* service->mutex held from their first access to the table to their last, *)
(* so each is one step.  Modules that need the table EXTEND this one and   *)
(* use PushConn, PopConn and ForgetIndex inside their own actions.         *)
(*                                                                         *)
(* The group and free lists that the same two functions maintain are in    *)
(* ConnPool; the life of a connection around the table is in ConnLife.     *)
(***************************************************************************)
EXTENDS Integers, FiniteSets

CONSTANTS
  Conns,    (* the CONN structures                                         *)
  NoConn,   (* the NULL pointer                                            *)
  Limit     (* connections_limit: the usable indexes are 1 .. Limit - 1    *)

ASSUME ConnsAssumption == IsFiniteSet(Conns) /\ NoConn \notin Conns
ASSUME LimitAssumption == Limit \in Nat

VARIABLES
  connections,   (* connections[i], NoConn for NULL                        *)
  index,         (* conn->index, -1 in a connection that is not registered *)
  indexMax,      (* index_max                                              *)
  running        (* running_connections                                    *)

tableVars == <<connections, index, indexMax, running>>

Indexes == 1 .. (Limit - 1)

TableTypeOK ==
  /\ connections \in [Indexes -> Conns \cup {NoConn}]
  /\ index \in [Conns -> Indexes \cup {-1}]
  /\ indexMax \in Indexes \cup {0}
  /\ running \in Int

TableInit ==
  /\ connections = [i \in Indexes |-> NoConn]
  /\ index = [c \in Conns |-> -1]
  /\ indexMax = 0
  /\ running = 0

FreeIndexes == {i \in Indexes : connections[i] = NoConn}

InTable(c) == \E i \in Indexes : connections[i] = c

(* service_pushconn: the loop stops at the first NULL entry, and a full     *)
(* table is left alone.                                                    *)
PushConn(c) ==
  \/ \E i \in FreeIndexes :
       /\ \A j \in FreeIndexes : i <= j
       /\ connections' = [connections EXCEPT ![i] = c]
       /\ index' = [index EXCEPT ![c] = i]
       /\ indexMax' = IF i > indexMax THEN i ELSE indexMax
       /\ running' = running + 1
  \/ FreeIndexes = {} /\ UNCHANGED tableVars

(* The test that service_popconn makes before it removes an entry.         *)
HoldsItsIndex(c) ==
  /\ index[c] > 0
  /\ index[c] <= indexMax
  /\ connections[index[c]] = c

(* Variant of PopConn that forgets to clear the entry.                     *)
PopConnKeepsEntry(c) ==
  \/ /\ HoldsItsIndex(c)
     /\ running' = running - 1
     /\ indexMax' = IF indexMax = index[c] THEN indexMax - 1 ELSE indexMax
     /\ UNCHANGED <<connections, index>>
  \/ ~HoldsItsIndex(c) /\ UNCHANGED tableVars

(* service_popconn: conn->index keeps its value until conn_reset.          *)
PopConn(c) ==
  \/ /\ HoldsItsIndex(c)
     /\ connections' = [connections EXCEPT ![index[c]] = NoConn]
     /\ running' = running - 1
     /\ indexMax' = IF indexMax = index[c] THEN indexMax - 1 ELSE indexMax
     /\ UNCHANGED index
  \/ ~HoldsItsIndex(c) /\ UNCHANGED tableVars

(* Variant of ForgetIndex that clears the index to zero.                   *)
ForgetIndexToZero(c) ==
  /\ index' = [index EXCEPT ![c] = 0]
  /\ UNCHANGED <<connections, indexMax, running>>

(* conn_reset forgets the index.                                           *)
ForgetIndex(c) ==
  /\ index' = [index EXCEPT ![c] = -1]
  /\ UNCHANGED <<connections, indexMax, running>>

-----------------------------------------------------------------------------
(* An entry and the index of the connection it holds name each other.      *)
EntriesMatch ==
  \A i \in Indexes : connections[i] # NoConn => index[connections[i]] = i

(* index_max bounds every occupied index from above, which is what         *)
(* service_popconn and service_findconn rely on when they compare with it. *)
IndexMaxBounds ==
  \A i \in Indexes : connections[i] # NoConn => i <= indexMax

(* running_connections counts the occupied entries.                        *)
RunningCounts ==
  running = Cardinality({i \in Indexes : connections[i] # NoConn})

(* The table is coherent: entries and indexes name each other, index_max   *)
(* bounds the entries, running_connections counts them.  It is what the    *)
(* index test of service_popconn, of service_findconn and of               *)
(* qmessage_handler take for granted.                                      *)
TableCoherent == EntriesMatch /\ IndexMaxBounds /\ RunningCounts
=============================================================================
