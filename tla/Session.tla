------------------------------- MODULE Session -------------------------------
(***************************************************************************)
(* The reading side of one connection (conn.c): the session state s_state  *)
(* passes between the thread that reads the descriptor into the buffer and *)
(* takes packets and chunks out of it, the procthread that runs the        *)
(* application's handlers on them, and a task.  Each tells the others to   *)
(* go on by a message: PACKET and DATA to the procthread, BUFFER and       *)
(* CHUNKIO to the reader.  In WORKING_THREAD mode the reader is the        *)
(* indaemon; in WORKING_PROC mode one daemon is reader, procthread and     *)
(* task, and conn->indaemon is NULL.                                       *)
(*                                                                         *)
(* The peer's data are the units 1, 2, ..., Total.  A packet has PacketLen *)
(* of them (PACKET_CERTAIN_LENGTH; a delimiter or a packet_reader of the   *)
(* application differ in how they find its length), and the application    *)
(* decides after every packet or chunk whether a chunk follows.            *)
(***************************************************************************)
EXTENDS Integers, FiniteSets, SequencesExt

CONSTANTS
  Modes,      (* WORKING_MODEs: "thread", "proc"                           *)
  Total,      (* bound: units the peer sends                               *)
  PacketLen,  (* session.packet_length                                     *)
  ChunkSizes, (* sizes of chunks the application asks for                  *)
  Timeouts    (* bound: TIMEOUT messages with a session.timeout_handler    *)

ASSUME SessionAssumption ==
  /\ Modes \subseteq {"thread", "proc"}
  /\ Total \in Nat /\ PacketLen \in Nat \ {0} /\ Timeouts \in Nat
  /\ ChunkSizes \subseteq Nat \ {0}

VARIABLES
  mode,
  sent,     (* units that arrived at the descriptor                        *)
  got,      (* units that were read from it                                *)
  taken,    (* units that left the buffer, which holds taken + 1 .. got    *)
  packet,   (* conn->packet: its first and last unit                       *)
  chunk,    (* conn->chunk: its first and last unit, and how many it lacks *)
  s_state,  (* ready, packet (PACKET_HANDLING), chunk (READ_CHUNK), data   *)
            (* (DATA_HANDLING), reading (CHUNK_READING), tasking           *)
  inq,      (* messages of the connection in the reader's queue            *)
  procq,    (* messages of the connection in the procthread's queue        *)
  read,     (* the reader has read to the buffer and not looked further    *)
  at,       (* what the procthread and the task are doing                  *)
  handling, (* s_state that the handler in progress is for                 *)
  timeouts, (* TIMEOUT messages so far                                     *)
  closed,   (* d_state: "no", "yes", or "read" when conn_read_handler      *)
            (* failed although the peer is there                           *)
  done,     (* history: the last unit that was handed to the application   *)
  skew,     (* history: a handler was not given the next units             *)
  moved,    (* history: the session went on while the handler was running  *)
  cut       (* history: a session was reset while others still counted on  *)
            (* its state                                                   *)

dataVars == <<got, taken, packet, chunk>>
threadVars == <<at, handling, moved>>
historyVars == <<done, skew, cut>>
vars == <<mode, sent, dataVars, s_state, inq, procq, read, threadVars,
          timeouts, closed, historyVars>>

Empty == [first |-> 0, last |-> 0]
NoChunk == [first |-> 0, last |-> 0, left |-> 0]
Threads == {"proc", "task"}
Buffered == got - taken

TypeOK ==
  /\ mode \in Modes
  /\ sent \in 0 .. Total /\ got \in 0 .. sent /\ taken \in 0 .. got
  /\ packet \in [first : 0 .. Total, last : 0 .. Total]
  /\ chunk \in [first : 0 .. Total, last : 0 .. Total, left : Nat]
  /\ s_state \in {"ready", "packet", "chunk", "data", "reading", "tasking"}
  /\ inq \in Seq({"BUFFER", "CHUNKIO"})
  /\ procq \in Seq({"PACKET", "DATA", "TIMEOUT"})
  /\ at \in [Threads -> {"idle", "handler", "over", "over_store", "over_test",
                         "after", "reset", "store", "test"}]
  /\ handling \in {"none", "packet", "data"}
  /\ timeouts \in 0 .. Timeouts
  /\ closed \in {"no", "yes", "read"}
  /\ done \in 0 .. Total
  /\ {read, skew, moved, cut} \subseteq BOOLEAN

Init ==
  /\ mode \in Modes
  /\ sent = 0 /\ got = 0 /\ taken = 0
  /\ packet = Empty /\ chunk = NoChunk
  /\ s_state = "ready"
  /\ inq = <<>> /\ procq = <<>>
  /\ read = FALSE
  /\ at = [t \in Threads |-> "idle"]
  /\ handling = "none"
  /\ timeouts = 0
  /\ closed = "no"
  /\ done = 0 /\ skew = FALSE /\ moved = FALSE /\ cut = FALSE

Open == closed = "no"

(* In WORKING_PROC mode one thread does everything.                        *)
ReaderIdle == ~read /\ (mode = "proc" => \A t \in Threads : at[t] = "idle")
ProcIdle == at["proc"] = "idle" /\ (mode = "proc" => ~read /\ at["task"] = "idle")

(* The peer sends.                                                         *)
Arrive ==
  /\ sent < Total
  /\ sent' = sent + 1
  /\ UNCHANGED <<mode, dataVars, s_state, inq, procq, read, threadVars,
                 timeouts, closed, historyVars>>

-----------------------------------------------------------------------------
(* The reader.                                                             *)

(* conn_push_message.                                                      *)
Tell(message) == procq' = IF Open THEN Append(procq, message) ELSE procq

(* Chunk c with the n units behind unit u.                                 *)
Filled(c, n, u) ==
  [first |-> IF c.first = 0 THEN u + 1 ELSE c.first, last |-> u + n, left |-> c.left - n]

Least(a, b) == IF a <= b THEN a ELSE b

(* Variant of FillChunk that does not look at how much the buffer has.     *)
FillChunkWhole(c, u) ==
  /\ chunk' = Filled(c, c.left, u)
  /\ taken' = u + c.left
  /\ s_state' = "data"
  /\ Tell("DATA")

(* Variant of FillChunk that forgets to change the state.                  *)
FillChunkSilently(c, u) ==
  LET n == Least(c.left, got - u) IN
  /\ chunk' = IF n > 0 THEN Filled(c, n, u) ELSE c
  /\ taken' = u + n
  /\ s_state' = "chunk"
  /\ IF n > 0 /\ n = c.left THEN Tell("DATA") ELSE UNCHANGED procq

(* conn__read__chunk of chunk c, from the buffer behind unit u.            *)
FillChunk(c, u) ==
  LET n == Least(c.left, got - u) IN
  /\ chunk' = IF n > 0 THEN Filled(c, n, u) ELSE c
  /\ taken' = u + n
  /\ s_state' = IF n > 0 /\ n = c.left THEN "data" ELSE "chunk"
  /\ IF n > 0 /\ n = c.left THEN Tell("DATA") ELSE UNCHANGED procq

(* Variant of ReadPacket that does not look at s_state.                    *)
ReadPacketAnytime ==
  \/ /\ Open /\ Buffered >= PacketLen
     /\ packet' = [first |-> taken + 1, last |-> taken + PacketLen]
     /\ taken' = taken + PacketLen
     /\ s_state' = "packet"
     /\ Tell("PACKET")
     /\ UNCHANGED chunk
  \/ /\ ~(Open /\ Buffered >= PacketLen)
     /\ UNCHANGED <<packet, taken, chunk, s_state, procq>>

(* conn_packet_reader.  The rest of the buffer may belong to the packet    *)
(* (quick_handler).                                                        *)
ReadPacket ==
  \/ /\ Open /\ s_state = "ready" /\ Buffered >= PacketLen
     /\ packet' = [first |-> taken + 1, last |-> taken + PacketLen]
     /\ \/ /\ taken' = taken + PacketLen
           /\ s_state' = "packet"
           /\ Tell("PACKET")
           /\ UNCHANGED chunk
        \/ /\ Buffered > PacketLen
           /\ \E n \in ChunkSizes :
                FillChunk([NoChunk EXCEPT !.left = n], taken + PacketLen)
  \/ /\ ~(Open /\ s_state = "ready" /\ Buffered >= PacketLen)
     /\ UNCHANGED <<packet, taken, chunk, s_state, procq>>

(* conn_chunk_reading: session.chunk_reader finds a chunk in the buffer.   *)
ChunkReading ==
  \/ /\ Buffered > 0
     /\ \E n \in ChunkSizes : FillChunk([NoChunk EXCEPT !.left = n], taken)
     /\ UNCHANGED packet
  \/ Buffered = 0 /\ UNCHANGED <<packet, taken, chunk, s_state, procq>>

(* conn_read_handler with s_state READ_CHUNK: what the buffer has, then    *)
(* what the descriptor has.  A chunk that the buffer completes leaves n at *)
(* -1, and the connection is shut.                                         *)
ReadToChunk ==
  LET n == Least(chunk.left, Buffered)
      lacks == chunk.left - n
      whole == IF n > 0 THEN Filled(chunk, n, taken) ELSE chunk
  IN \/ /\ Buffered > n
        /\ FillChunk(chunk, taken)
        /\ UNCHANGED <<got, closed>>
     \/ /\ Buffered = n /\ lacks = 0
        /\ FillChunk(chunk, taken)
        /\ closed' = "read"
        /\ UNCHANGED got
     \/ /\ Buffered = n
        /\ \E m \in 1 .. Least(lacks, sent - got) :
             /\ got' = got + m
             /\ taken' = got + m
             /\ chunk' = Filled(whole, m, got)
             /\ s_state' = IF m = lacks THEN "data" ELSE s_state
             /\ IF m = lacks THEN Tell("DATA") ELSE UNCHANGED procq
        /\ UNCHANGED closed

(* conn_event_handler with E_READ.                                         *)
ReadEvent ==
  /\ ReaderIdle /\ Open /\ sent > got
  /\ \/ /\ s_state = "chunk" /\ chunk.left > 0
        /\ ReadToChunk
        /\ UNCHANGED read
     \/ /\ ~(s_state = "chunk" /\ chunk.left > 0)
        /\ \E m \in 1 .. sent - got : got' = got + m
        /\ read' = TRUE
        /\ UNCHANGED <<taken, chunk, s_state, procq, closed>>
  /\ UNCHANGED <<mode, sent, packet, inq, threadVars, timeouts, historyVars>>

(* Its tests of s_state and of packet.ndata after the read.                *)
AfterRead ==
  /\ read
  /\ read' = FALSE
  /\ \/ s_state = "ready" /\ packet = Empty /\ ReadPacket
     \/ s_state = "reading" /\ ChunkReading
     \/ /\ ~(s_state = "ready" /\ packet = Empty) /\ s_state # "reading"
        /\ UNCHANGED <<packet, taken, chunk, s_state, procq>>
  /\ UNCHANGED <<mode, sent, got, inq, threadVars, timeouts, closed, historyVars>>

(* BUFFER (conn_buffer_handler) and CHUNKIO (conn_chunkio_handler).  The   *)
(* messages name conn->indaemon; qmessage_handler drops them when it is    *)
(* NULL.                                                                   *)
HandleIn ==
  /\ ReaderIdle /\ inq # <<>>
  /\ inq' = Tail(inq)
  /\ \/ /\ mode = "thread" /\ Open /\ Head(inq) = "BUFFER"
        /\ ReadPacket
     \/ /\ mode = "thread" /\ Open /\ Head(inq) = "CHUNKIO"
        /\ \/ s_state = "reading" /\ ChunkReading
           \/ s_state = "chunk" /\ FillChunk(chunk, taken) /\ UNCHANGED packet
           \/ s_state \notin {"reading", "chunk"}
              /\ UNCHANGED <<packet, taken, chunk, s_state, procq>>
     \/ /\ mode = "proc" \/ ~Open
        /\ UNCHANGED <<packet, taken, chunk, s_state, procq>>
  /\ UNCHANGED <<mode, sent, got, read, threadVars, timeouts, closed, historyVars>>

Reader == ReadEvent \/ AfterRead \/ HandleIn

-----------------------------------------------------------------------------
(* The procthread.                                                         *)

Goes(t, place) == at' = [at EXCEPT ![t] = place]

(* PUSH_INQMESSAGE.                                                        *)
Ask(message) == inq' = IF Open THEN Append(inq, message) ELSE inq

(* A handler of the application starts with the units first .. last.       *)
Hand(state, first, last) ==
  /\ handling' = state
  /\ moved' = FALSE
  /\ Goes("proc", "handler")
  /\ done' = Least(last, Total)
  /\ skew' = (skew \/ first # done + 1 \/ last < first)

(* PACKET: conn_packet_handler.                                            *)
HandlePacket ==
  /\ ProcIdle /\ procq # <<>> /\ Head(procq) = "PACKET"
  /\ procq' = Tail(procq)
  /\ \/ Open /\ Hand("packet", packet.first, packet.last)
     \/ ~Open /\ UNCHANGED <<threadVars, done, skew>>
  /\ UNCHANGED <<mode, sent, dataVars, s_state, inq, read, timeouts, closed, cut>>

(* DATA: conn_data_handler.  A packet that quick_handler kept comes along. *)
(* A chunk that was reset has no type and is given to no handler.          *)
HandleData ==
  LET first == IF packet.first = done + 1 /\ chunk.first = packet.last + 1
               THEN packet.first ELSE chunk.first
  IN
  /\ ProcIdle /\ procq # <<>> /\ Head(procq) = "DATA"
  /\ procq' = Tail(procq)
  /\ \/ Open /\ chunk # NoChunk /\ Hand("data", first, chunk.last)
     \/ /\ Open /\ chunk = NoChunk
        /\ handling' = "data" /\ Goes("proc", "after")
        /\ UNCHANGED <<moved, done, skew>>
     \/ ~Open /\ UNCHANGED <<threadVars, done, skew>>
  /\ UNCHANGED <<mode, sent, dataVars, s_state, inq, read, timeouts, closed, cut>>

(* TIMEOUT: conn_timeout_handler with a session.timeout_handler.           *)
HandleTimeout ==
  /\ ProcIdle /\ procq # <<>> /\ Head(procq) = "TIMEOUT"
  /\ procq' = Tail(procq)
  /\ s_state' = IF Open THEN "ready" ELSE s_state
  /\ cut' = (cut \/ (Open /\ s_state # "ready"))
  /\ UNCHANGED <<mode, sent, dataVars, inq, read, threadVars, timeouts, closed,
                 done, skew>>

InHandler == at["proc"] = "handler"

rest == <<mode, sent, got, taken, packet, procq, read, timeouts, closed, historyVars>>

(* The handler has returned, or does nothing to the session.               *)
Finish ==
  /\ InHandler
  /\ Goes("proc", "after")
  /\ UNCHANGED <<rest, chunk, s_state, inq, handling, moved>>

(* conn_recv_chunk, conn_recv2_chunk, conn_recv_file.  On a connection     *)
(* that was shut they read the buffer at once, which leads to no message.  *)
RecvChunk(n) ==
  /\ InHandler
  /\ chunk' = [NoChunk EXCEPT !.left = n]
  /\ s_state' = "chunk"
  /\ Ask("CHUNKIO")
  /\ Goes("proc", "after")
  /\ moved' = TRUE
  /\ UNCHANGED <<rest, handling>>

(* conn_read_chunk.                                                        *)
ReadChunk ==
  /\ InHandler
  /\ s_state' = "reading"
  /\ Ask("CHUNKIO")
  /\ Goes("proc", "after")
  /\ moved' = TRUE
  /\ UNCHANGED <<rest, chunk, handling>>

(* conn_newtask; the task calls over_session.                              *)
NewTask ==
  /\ InHandler /\ at["task"] = "idle"
  /\ s_state' = "tasking"
  /\ at' = [proc |-> "after", task |-> "reset"]
  /\ UNCHANGED <<rest, chunk, inq, handling, moved>>

(* conn_over_session.                                                      *)
OverSession ==
  /\ InHandler
  /\ Goes("proc", IF Open THEN "over" ELSE "after")
  /\ UNCHANGED <<rest, chunk, s_state, inq, handling, moved>>

(* The test behind the handler.                                            *)
AfterHandler ==
  /\ at["proc"] = "after"
  /\ Goes("proc", IF s_state = handling THEN "reset" ELSE "idle")
  /\ cut' = (cut \/ (moved /\ s_state = handling))
  /\ handling' = "none"
  /\ moved' = FALSE
  /\ UNCHANGED <<mode, sent, dataVars, s_state, inq, procq, read, timeouts,
                 closed, done, skew>>

-----------------------------------------------------------------------------
(* SESSION_RESET, by the procthread in over_session, or behind a handler,  *)
(* or by the task.                                                         *)

CanRun(t) == t = "task" /\ mode = "proc" => ~read /\ at["proc"] = "idle"

(* packet, cache and chunk are emptied and s_state becomes 0.              *)
Clear(t) ==
  /\ at[t] \in {"over", "reset"} /\ CanRun(t)
  /\ packet' = Empty /\ chunk' = NoChunk
  /\ s_state' = "ready"
  /\ Goes(t, IF at[t] = "over" THEN "over_test" ELSE "test")
  /\ moved' = (handling # "none")
  /\ UNCHANGED <<mode, sent, got, taken, inq, procq, read, handling, timeouts,
                 closed, historyVars>>

(* s_state and the buffer are read and written without a lock: the new     *)
(* s_state may become visible after the test of an empty buffer.           *)
ClearLate(t) ==
  /\ at[t] \in {"over", "reset"} /\ mode = "thread"
  /\ Buffered = 0
  /\ packet' = Empty /\ chunk' = NoChunk
  /\ Goes(t, IF at[t] = "over" THEN "over_store" ELSE "store")
  /\ UNCHANGED <<mode, sent, got, taken, s_state, inq, procq, read, handling,
                 moved, timeouts, closed, historyVars>>

Done(t) == Goes(t, IF at[t] \in {"over_store", "over_test"} THEN "after" ELSE "idle")

Store(t) ==
  /\ at[t] \in {"over_store", "store"}
  /\ s_state' = "ready"
  /\ Done(t)
  /\ moved' = (handling # "none")
  /\ cut' = (cut \/ (Buffered > 0 /\ ~read /\ "BUFFER" \notin ToSet(inq)))
  /\ UNCHANGED <<mode, sent, dataVars, inq, procq, read, handling, timeouts,
                 closed, done, skew>>

(* Variant of TestBuffer without the message.                              *)
TestBufferOnly(t) ==
  /\ at[t] \in {"over_test", "test"}
  /\ Done(t)
  /\ UNCHANGED <<mode, sent, dataVars, s_state, inq, procq, read, handling,
                 moved, timeouts, closed, historyVars>>

(* BUFFER if there is something in the buffer.                             *)
TestBuffer(t) ==
  /\ at[t] \in {"over_test", "test"}
  /\ IF Buffered > 0 THEN Ask("BUFFER") ELSE UNCHANGED inq
  /\ Done(t)
  /\ UNCHANGED <<mode, sent, dataVars, s_state, procq, read, handling,
                 moved, timeouts, closed, historyVars>>

Procthread ==
  \/ HandlePacket \/ HandleData \/ HandleTimeout
  \/ Finish \/ ReadChunk \/ NewTask \/ OverSession \/ AfterHandler
  \/ \E n \in ChunkSizes : RecvChunk(n)

Reset(t) == Clear(t) \/ ClearLate(t) \/ Store(t) \/ TestBuffer(t)

-----------------------------------------------------------------------------
(* The timer pushes TIMEOUT (conn_evtimer_handler), and any thread closes. *)
Timeout ==
  /\ timeouts < Timeouts
  /\ timeouts' = timeouts + 1
  /\ Tell("TIMEOUT")
  /\ UNCHANGED <<mode, sent, dataVars, s_state, inq, read, threadVars, closed,
                 historyVars>>

Close ==
  /\ Open
  /\ closed' = "yes"
  /\ UNCHANGED <<mode, sent, dataVars, s_state, inq, procq, read, threadVars,
                 timeouts, historyVars>>

Next ==
  \/ Arrive \/ Reader \/ Procthread \/ Timeout \/ Close
  \/ \E t \in Threads : Reset(t)

(* The loops go on, level-triggered events come moved, handlers return and *)
(* tasks end.                                                              *)
Spec ==
  /\ Init /\ [][Next]_vars
  /\ WF_vars(Reader) /\ WF_vars(Procthread)
  /\ \A t \in Threads : WF_vars(Reset(t))

-----------------------------------------------------------------------------
(* The handlers of the application get the units of the peer one after the *)
(* other, none twice and none left out, however the reader and the         *)
(* procthread take turns; unless a timeout resets a session whose message  *)
(* is queued, or the reader goes on, because the handler asked for it,     *)
(* before the test behind the handler, which then resets what the reader   *)
(* has just read.                                                          *)
InOrder == ~skew \/ cut

(* The same without the exceptions.                                        *)
InOrderAlways == ~skew

(* The positions of the PACKET and DATA messages.                          *)
News == {i \in DOMAIN procq : procq[i] # "TIMEOUT"}

(* One message at a time: PACKET or DATA is queued, or its handler has not *)
(* ended, exactly while s_state says so.                                   *)
MessageMatchesState ==
  cut \/ ~Open \/
  /\ \A i, j \in News : i = j
  /\ \A i \in News : s_state = IF procq[i] = "PACKET" THEN "packet" ELSE "data"
  /\ s_state \in {"packet", "data"} =>
       \/ News # {}
       \/ at["proc"] \in {"handler", "after", "over", "over_store", "reset", "store"}

(* A whole packet in the buffer is taken out of it: the reader looks after *)
(* every read, and whoever ends a session sends it to look moved.          *)
PacketIsTaken ==
  \A u \in 0 .. Total :
    mode = "thread" /\ taken = u /\ Buffered >= PacketLen ~> taken # u \/ ~Open \/ cut
=============================================================================
