---------------------------- MODULE SessionProofs ----------------------------
(***************************************************************************)
(* Proofs about Session, for any number of units, packet length and chunk  *)
(* sizes, in both working modes: while no session was reset under          *)
(* somebody's feet, PACKET and DATA agree with s_state, and the handlers   *)
(* of the application get the units of the peer in order.                  *)
(***************************************************************************)
EXTENDS Session, TLAPS

-----------------------------------------------------------------------------
(* The inductive invariant.                                                *)

(* The procthread has the session: it is in a handler, or behind one that  *)
(* has not let the session go on, or about to reset it.                    *)
Holding ==
  \/ at["proc"] \in {"handler", "over", "over_store", "reset", "store"}
  \/ at["proc"] = "after" /\ ~moved

(* Where the threads are, and what they do.                                *)
ThreadsFit ==
  /\ at["task"] \in {"idle", "reset", "store", "test"}
  /\ at["proc"] \in {"idle", "reset", "store", "test"} <=> handling = "none"
  /\ handling = "none" \/ at["proc"] = "handler" => ~moved
  /\ at["proc"] = "over_test" => moved

(* The state they found or left.                                           *)
StateFits ==
  /\ at["task"] \in {"reset", "store"} <=> s_state = "tasking"
  /\ at["proc"] \in {"handler", "over", "over_store"} => s_state = handling
  /\ at["proc"] \in {"reset", "store"} => s_state \in {"packet", "data"}
  /\ at["proc"] = "after" /\ ~moved => s_state \in {handling, "tasking"}
  /\ at["proc"] \in {"over_store", "store"} \/ at["task"] = "store" =>
       packet = Empty /\ chunk = NoChunk

(* PACKET and DATA are queued for a session nobody has, one at a time.     *)
NewsFit ==
  /\ \A i, j \in News : i = j
  /\ \A i \in News : s_state = IF procq[i] = "PACKET" THEN "packet" ELSE "data"
  /\ Holding => News = {}
  /\ s_state \in {"packet", "data"} /\ ~Holding => News # {}

(* What the application has, and what waits for it.                        *)
AllHanded == done = taken /\ packet.first <= done

PacketWaits ==
  packet.first = done + 1 /\ packet.last = taken /\ packet.first <= packet.last

ChunkWaits ==
  /\ chunk.first # 0 /\ chunk.first <= chunk.last /\ chunk.last = taken
  /\ \/ packet.first <= done /\ chunk.first = done + 1
     \/ /\ packet.first = done + 1 /\ packet.first <= packet.last
        /\ chunk.first = packet.last + 1

UnitsFit ==
  /\ s_state = "ready" => done = taken /\ packet = Empty /\ chunk = NoChunk
  /\ s_state \in {"reading", "tasking"} => AllHanded
  /\ s_state \in {"packet", "data"} /\ Holding => AllHanded
  /\ s_state = "packet" /\ ~Holding => PacketWaits
  /\ s_state = "data" /\ ~Holding => ChunkWaits
  /\ s_state = "chunk" =>
       chunk.left > 0 /\ (ChunkWaits \/ (chunk.first = 0 /\ AllHanded))

Good == ThreadsFit /\ StateFits /\ NewsFit /\ UnitsFit

(* A closed connection gets nothing any more, and where a session was cut  *)
(* nothing is promised.                                                    *)
IInv == TypeOK /\ (cut \/ (~skew /\ (Open => Good)))

-----------------------------------------------------------------------------
(* Types.                                                                  *)

Packets == [first : 0 .. Total, last : 0 .. Total]
Chunks == [first : 0 .. Total, last : 0 .. Total, left : Nat]
NewsTypes == {"PACKET", "DATA", "TIMEOUT"}

(* What the reader leaves behind has its type.                             *)
ReaderTypes ==
  /\ taken' \in taken .. got'
  /\ packet' \in Packets /\ chunk' \in Chunks
  /\ s_state' \in {"ready", "packet", "chunk", "data", "reading", "tasking"}
  /\ procq' \in Seq(NewsTypes)

(* conn_push_message appends to the queue of an open connection.           *)
LEMMA TellType ==
  ASSUME TypeOK, NEW m \in NewsTypes, Tell(m)
  PROVE  procq' \in Seq(NewsTypes)
BY DEF Tell, TypeOK, NewsTypes

(* A chunk that gets n units more is a chunk.                              *)
LEMMA FilledType ==
  ASSUME TypeOK, NEW c \in Chunks, NEW u \in Nat, NEW n \in Nat, n <= c.left,
         u + 1 <= Total, u + n <= Total
  PROVE  /\ Filled(c, n, u) \in Chunks
         /\ Filled(c, n, u).first = IF c.first = 0 THEN u + 1 ELSE c.first
         /\ Filled(c, n, u).last = u + n
         /\ Filled(c, n, u).left = c.left - n
<1>1. u + 1 \in 0 .. Total /\ u + n \in 0 .. Total /\ c.left - n \in Nat
      /\ c.first \in 0 .. Total
  BY SessionAssumption DEF Chunks
<1> QED  BY <1>1 DEF Filled, Chunks

(* A new chunk of n units, none of which is there.                         *)
LEMMA NewChunkType ==
  ASSUME NEW n \in Nat
  PROVE  /\ [NoChunk EXCEPT !.left = n] \in Chunks
         /\ [NoChunk EXCEPT !.left = n].first = 0
         /\ [NoChunk EXCEPT !.left = n].last = 0
         /\ [NoChunk EXCEPT !.left = n].left = n
BY SessionAssumption DEF NoChunk, Chunks

(* conn__read__chunk takes what the chunk lacks, or all there is.          *)
LEMMA FillChunkType ==
  ASSUME TypeOK, NEW c \in Chunks, NEW u \in Nat, u <= got, FillChunk(c, u)
  PROVE  /\ chunk' \in Chunks
         /\ taken' \in u .. got
         /\ s_state' \in {"chunk", "data"}
         /\ procq' \in Seq(NewsTypes)
<1> DEFINE n == Least(c.left, got - u)
<1>1. got \in Nat /\ got <= Total /\ c.left \in Nat /\ procq \in Seq(NewsTypes)
  BY SessionAssumption DEF TypeOK, Chunks, NewsTypes
<1>2. n \in Nat /\ n <= c.left /\ u + n <= got
  BY <1>1 DEF Least
<1>3. taken' = u + n /\ s_state' \in {"chunk", "data"}
  BY DEF FillChunk
<1>4. procq' \in Seq(NewsTypes)
  BY <1>1, TellType DEF FillChunk, NewsTypes
<1>5. chunk' = IF n > 0 THEN Filled(c, n, u) ELSE c
  BY DEF FillChunk
<1> HIDE DEF n
<1>6. chunk' \in Chunks
  <2>1. CASE n > 0
    <3>1. u + 1 <= Total /\ u + n <= Total
      BY <1>1, <1>2, <2>1, SessionAssumption
    <3> QED  BY <1>2, <1>5, <2>1, <3>1, FilledType
  <2>2. CASE ~(n > 0)
    BY <1>5, <2>2
  <2> QED  BY <2>1, <2>2
<1> QED  BY <1>1, <1>2, <1>3, <1>4, <1>6

-----------------------------------------------------------------------------
(* The queue of the procthread.                                            *)

(* PACKET or DATA appended to a queue without news is the only one.        *)
LEMMA AppendNews ==
  ASSUME TypeOK, News = {}, NEW m \in {"PACKET", "DATA"}, procq' = Append(procq, m)
  PROVE  /\ procq' \in Seq(NewsTypes)
         /\ News' = {Len(procq) + 1} /\ procq'[Len(procq) + 1] = m
<1>1. procq \in Seq(NewsTypes) /\ m \in NewsTypes /\ m # "TIMEOUT"
  BY DEF TypeOK, NewsTypes
<1>2. /\ procq' \in Seq(NewsTypes) /\ Len(procq') = Len(procq) + 1
      /\ \A i \in 1 .. Len(procq) : procq'[i] = procq[i]
      /\ procq'[Len(procq) + 1] = m
      /\ DOMAIN procq = 1 .. Len(procq) /\ DOMAIN procq' = 1 .. Len(procq')
      /\ Len(procq) \in Nat
  BY <1>1
<1>3. \A i \in 1 .. Len(procq) : procq'[i] = "TIMEOUT"
  BY <1>2 DEF News
<1>4. News' = {i \in 1 .. Len(procq) + 1 : procq'[i] # "TIMEOUT"}
  BY <1>2 DEF News
<1>5. \A i : i \in News' <=> i = Len(procq) + 1
  BY <1>1, <1>2, <1>3, <1>4
<1>6. News' = {Len(procq) + 1}
  BY <1>5
<1> QED  BY <1>2, <1>6

(* A TIMEOUT makes no difference.                                          *)
LEMMA AppendTimeout ==
  ASSUME TypeOK, procq' = Append(procq, "TIMEOUT")
  PROVE  /\ procq' \in Seq(NewsTypes)
         /\ News' = News /\ \A i \in News : procq'[i] = procq[i]
<1>1. procq \in Seq(NewsTypes)
  BY DEF TypeOK, NewsTypes
<1>2. /\ procq' \in Seq(NewsTypes) /\ Len(procq') = Len(procq) + 1
      /\ \A i \in 1 .. Len(procq) : procq'[i] = procq[i]
      /\ procq'[Len(procq) + 1] = "TIMEOUT"
      /\ DOMAIN procq = 1 .. Len(procq) /\ DOMAIN procq' = 1 .. Len(procq')
      /\ Len(procq) \in Nat
  BY <1>1 DEF NewsTypes
<1>3. \A i : i \in News' <=> i \in News
  BY <1>2 DEF News
<1> QED  BY <1>2, <1>3 DEF News

(* The only news leaves no news behind.                                    *)
LEMMA PopNews ==
  ASSUME TypeOK, procq # <<>>, procq' = Tail(procq)
  PROVE  /\ procq' \in Seq(NewsTypes)
         /\ \A i : i \in News' <=> i \in Nat \ {0} /\ i + 1 \in News
         /\ \A i \in News' : procq'[i] = procq[i + 1]
         /\ Head(procq) # "TIMEOUT" <=> 1 \in News
         /\ 1 \in News => procq[1] = Head(procq)
<1>1. procq \in Seq(NewsTypes)
  BY DEF TypeOK, NewsTypes
<1>2. /\ procq' \in Seq(NewsTypes) /\ Len(procq') = Len(procq) - 1
      /\ \A i \in 1 .. Len(procq') : procq'[i] = procq[i + 1]
      /\ DOMAIN procq = 1 .. Len(procq) /\ DOMAIN procq' = 1 .. Len(procq')
      /\ Len(procq) \in Nat /\ Len(procq) > 0 /\ Head(procq) = procq[1]
  BY <1>1
<1>3. \A i : i \in News <=> i \in 1 .. Len(procq) /\ procq[i] # "TIMEOUT"
  BY <1>2 DEF News
<1>4. \A i : i \in News' <=> i \in 1 .. Len(procq') /\ procq'[i] # "TIMEOUT"
  BY <1>2 DEF News
<1> QED  BY <1>2, <1>3, <1>4

-----------------------------------------------------------------------------
(* The reader.                                                             *)

(* In these states the session is nobody's but the reader's.               *)
LEMMA ReadersSession ==
  ASSUME TypeOK, Good, s_state \in {"ready", "chunk", "reading"}
  PROVE  /\ ~Holding /\ News = {}
         /\ at["task"] \in {"idle", "test"}
         /\ at["proc"] \in {"idle", "test", "over_test", "after"}
<1>1. handling \in {"none", "packet", "data"}
  BY DEF TypeOK
<1>2. at["proc"] \in {"idle", "handler", "over", "over_store", "over_test",
                      "after", "reset", "store", "test"}
  BY DEF TypeOK, Threads
<1>3. News = {}
  BY DEF Good, NewsFit
<1>4. handling = "none" => at["proc"] \in {"idle", "reset", "store", "test"}
  BY DEF Good, ThreadsFit
<1> QED  BY <1>1, <1>2, <1>3, <1>4 DEF Good, ThreadsFit, StateFits, Holding

(* The reader goes on with its session, and tells the procthread.          *)
LEMMA ReaderStep ==
  ASSUME TypeOK, Good, s_state \in {"ready", "chunk", "reading"},
         UNCHANGED <<threadVars, done>>,
         \/ s_state' = "packet" /\ PacketWaits' /\ procq' = Append(procq, "PACKET")
         \/ s_state' = "data" /\ ChunkWaits' /\ procq' = Append(procq, "DATA")
         \/ /\ s_state' = "chunk" /\ UNCHANGED procq
            /\ chunk'.left > 0 /\ (ChunkWaits' \/ (chunk'.first = 0 /\ AllHanded'))
  PROVE  Good'
<1>1. /\ ~Holding /\ News = {}
      /\ at["task"] \in {"idle", "test"}
      /\ at["proc"] \in {"idle", "test", "over_test", "after"}
  BY ReadersSession
<1>2. ThreadsFit' /\ ~Holding' /\ UNCHANGED <<at, handling, moved>>
  BY <1>1 DEF Good, ThreadsFit, Holding, threadVars
<1>3. StateFits'
  BY <1>1, <1>2 DEF StateFits, Holding
<1>4. NewsFit'
  <2>1. CASE s_state' = "packet" /\ procq' = Append(procq, "PACKET")
    BY <1>1, <1>2, <2>1, AppendNews DEF NewsFit
  <2>2. CASE s_state' = "data" /\ procq' = Append(procq, "DATA")
    BY <1>1, <1>2, <2>2, AppendNews DEF NewsFit
  <2>3. CASE s_state' = "chunk" /\ UNCHANGED procq
    BY <1>1, <1>2, <2>3 DEF NewsFit, News
  <2> QED  BY <2>1, <2>2, <2>3
<1>5. UnitsFit'
  BY <1>2 DEF UnitsFit
<1> QED  BY <1>2, <1>3, <1>4, <1>5 DEF Good

(* Chunk c goes on behind unit u: what it has and the packet that was kept *)
(* for it are the units behind the last one handed.                        *)
GoesOn(c, u) ==
  \/ /\ packet'.first <= done
     /\ c.first = 0 => u = done
     /\ c.first # 0 => c.first = done + 1 /\ c.first <= c.last /\ c.last = u
  \/ /\ packet'.first = done + 1 /\ packet'.first <= packet'.last
     /\ c.first = 0 => u = packet'.last /\ got > u
     /\ c.first # 0 => c.first = packet'.last + 1 /\ c.first <= c.last /\ c.last = u

(* conn__read__chunk completes the chunk and says so, or leaves it open.   *)
LEMMA FillChunkDoes ==
  ASSUME TypeOK, Open, NEW c \in Chunks, c.left > 0, NEW u \in Nat, u <= got,
         FillChunk(c, u), packet' \in Packets, GoesOn(c, u), UNCHANGED done
  PROVE  \/ s_state' = "data" /\ ChunkWaits' /\ procq' = Append(procq, "DATA")
         \/ /\ s_state' = "chunk" /\ UNCHANGED procq
            /\ chunk'.left > 0 /\ (ChunkWaits' \/ (chunk'.first = 0 /\ AllHanded'))
<1> DEFINE n == Least(c.left, got - u)
<1>1. /\ got \in Nat /\ got <= Total /\ c.left \in Nat /\ done \in Nat /\ Total \in Nat
      /\ c.first \in Nat /\ c.last \in Nat
      /\ packet'.first \in Nat /\ packet'.last \in Nat
  BY SessionAssumption DEF TypeOK, Chunks, Packets
<1>2. n \in Nat /\ n <= c.left /\ u + n <= got
  BY <1>1 DEF Least
<1>3. n = 0 => got = u
  BY <1>1 DEF Least
<1>4. /\ taken' = u + n
      /\ s_state' = IF n > 0 /\ n = c.left THEN "data" ELSE "chunk"
      /\ procq' = IF n > 0 /\ n = c.left THEN Append(procq, "DATA") ELSE procq
      /\ chunk' = IF n > 0 THEN Filled(c, n, u) ELSE c
  BY DEF FillChunk, Tell
<1> HIDE DEF n
<1>5. CASE n > 0
  <2>1. u + 1 <= Total /\ u + n <= Total
    BY <1>1, <1>2, <1>5
  <2>2. /\ chunk'.first = IF c.first = 0 THEN u + 1 ELSE c.first
        /\ chunk'.last = u + n /\ chunk'.left = c.left - n
    BY <1>2, <1>4, <1>5, <2>1, FilledType
  <2>3. ChunkWaits'
    BY <1>1, <1>2, <1>4, <1>5, <2>2 DEF ChunkWaits, GoesOn
  <2> QED  BY <1>1, <1>2, <1>4, <1>5, <2>2, <2>3
<1>6. CASE n = 0
  <2>1. chunk' = c /\ taken' = u /\ s_state' = "chunk" /\ procq' = procq
    BY <1>2, <1>4, <1>6
  <2>2. c.first = 0 => AllHanded'
    BY <1>1, <1>3, <1>6, <2>1 DEF AllHanded, GoesOn
  <2>3. c.first # 0 => ChunkWaits'
    BY <1>1, <2>1 DEF ChunkWaits, GoesOn
  <2> QED  BY <2>1, <2>2, <2>3
<1> QED  BY <1>2, <1>5, <1>6

(* Where nothing of this changes, nothing can go wrong.                    *)
LEMMA SameGood ==
  ASSUME Good, UNCHANGED <<taken, packet, chunk, s_state, procq, threadVars, done>>
  PROVE  Good'
BY DEF Good, ThreadsFit, StateFits, NewsFit, UnitsFit, Holding, News, AllHanded,
       PacketWaits, ChunkWaits, threadVars

(* A message to the procthread appends to its queue or, on a closed        *)
(* connection, does nothing.                                               *)
LEMMA ReadPacketTypes ==
  ASSUME TypeOK, ReadPacket, UNCHANGED got
  PROVE  ReaderTypes
<1>1. /\ got \in Nat /\ got <= Total /\ taken \in 0 .. got /\ packet \in Packets
      /\ chunk \in Chunks /\ procq \in Seq(NewsTypes)
      /\ s_state \in {"ready", "packet", "chunk", "data", "reading", "tasking"}
      /\ PacketLen \in Nat \ {0} /\ Total \in Nat
  BY SessionAssumption DEF TypeOK, Packets, Chunks, NewsTypes
<1>2. CASE ~(Open /\ s_state = "ready" /\ Buffered >= PacketLen)
  BY <1>1, <1>2 DEF ReadPacket, ReaderTypes
<1>3. CASE Open /\ s_state = "ready" /\ Buffered >= PacketLen
  <2>1. packet' = [first |-> taken + 1, last |-> taken + PacketLen]
    BY <1>3 DEF ReadPacket
  <2>2. taken + PacketLen \in taken .. got
    BY <1>1, <1>3 DEF Buffered
  <2>3. packet' \in Packets
    BY <1>1, <2>1, <2>2 DEF Packets
  <2>4. CASE taken' = taken + PacketLen /\ s_state' = "packet" /\ Tell("PACKET")
             /\ UNCHANGED chunk
    BY <1>1, <2>2, <2>3, <2>4, TellType DEF ReaderTypes, NewsTypes
  <2>5. CASE \E n \in ChunkSizes :
               FillChunk([NoChunk EXCEPT !.left = n], taken + PacketLen)
    <3>1. PICK n \in ChunkSizes : FillChunk([NoChunk EXCEPT !.left = n], taken + PacketLen)
      BY <2>5
    <3>2. [NoChunk EXCEPT !.left = n] \in Chunks
      BY NewChunkType, SessionAssumption
    <3>3. /\ chunk' \in Chunks /\ taken' \in taken + PacketLen .. got
          /\ s_state' \in {"chunk", "data"} /\ procq' \in Seq(NewsTypes)
      BY <1>1, <2>2, <3>1, <3>2, FillChunkType
    <3> QED  BY <1>1, <2>2, <2>3, <3>3 DEF ReaderTypes
  <2> QED  BY <1>3, <2>4, <2>5 DEF ReadPacket
<1> QED  BY <1>2, <1>3

(* A packet, or a packet and the beginning of its chunk, is taken out of   *)
(* the buffer of a session that is ready.                                  *)
LEMMA ReadPacketGood ==
  ASSUME TypeOK, Good, ReadPacket, UNCHANGED <<got, threadVars, done>>
  PROVE  Good'
<1>1. CASE ~(Open /\ s_state = "ready" /\ Buffered >= PacketLen)
  BY <1>1, SameGood DEF ReadPacket
<1>2. CASE Open /\ s_state = "ready" /\ Buffered >= PacketLen
  <2>1. /\ packet'.first = taken + 1 /\ packet'.last = taken + PacketLen
        /\ packet' \in Packets
    <3>1. packet' = [first |-> taken + 1, last |-> taken + PacketLen]
      BY <1>2 DEF ReadPacket
    <3> QED  BY <3>1, ReadPacketTypes DEF ReaderTypes
  <2>2. /\ taken \in Nat /\ got \in Nat /\ PacketLen \in Nat \ {0}
        /\ taken + PacketLen <= got /\ done = taken
    BY <1>2, SessionAssumption DEF TypeOK, Buffered, Good, UnitsFit
  <2>3. CASE taken' = taken + PacketLen /\ s_state' = "packet" /\ Tell("PACKET")
             /\ UNCHANGED chunk
    <3>1. PacketWaits' /\ procq' = Append(procq, "PACKET")
      BY <1>2, <2>1, <2>2, <2>3 DEF PacketWaits, Tell
    <3> QED  BY <1>2, <2>3, <3>1, ReaderStep
  <2>4. CASE Buffered > PacketLen /\ \E n \in ChunkSizes :
               FillChunk([NoChunk EXCEPT !.left = n], taken + PacketLen)
    <3>1. PICK n \in ChunkSizes : FillChunk([NoChunk EXCEPT !.left = n], taken + PacketLen)
      BY <2>4
    <3> DEFINE c == [NoChunk EXCEPT !.left = n]
    <3>2. c \in Chunks /\ c.left > 0 /\ c.first = 0
      BY NewChunkType, SessionAssumption
    <3>3. GoesOn(c, taken + PacketLen)
      BY <2>1, <2>2, <2>4, <3>2 DEF GoesOn, Buffered
    <3> HIDE DEF c
    <3>4. FillChunk(c, taken + PacketLen)
      BY <3>1 DEF c
    <3>5. \/ s_state' = "data" /\ ChunkWaits' /\ procq' = Append(procq, "DATA")
          \/ /\ s_state' = "chunk" /\ UNCHANGED procq
             /\ chunk'.left > 0 /\ (ChunkWaits' \/ (chunk'.first = 0 /\ AllHanded'))
      BY <1>2, <2>1, <2>2, <3>2, <3>3, <3>4, FillChunkDoes
    <3> QED  BY <1>2, <3>5, ReaderStep
  <2> QED  BY <1>2, <2>3, <2>4 DEF ReadPacket
<1> QED  BY <1>1, <1>2

(* A chunk reader starts a chunk with what the buffer has.                 *)
LEMMA ChunkReadingTypes ==
  ASSUME TypeOK, ChunkReading, UNCHANGED got
  PROVE  ReaderTypes
<1>1. /\ got \in Nat /\ taken \in 0 .. got /\ packet \in Packets
      /\ chunk \in Chunks /\ procq \in Seq(NewsTypes)
      /\ s_state \in {"ready", "packet", "chunk", "data", "reading", "tasking"}
  BY SessionAssumption DEF TypeOK, Packets, Chunks, NewsTypes
<1>2. CASE UNCHANGED <<packet, taken, chunk, s_state, procq>>
  BY <1>1, <1>2 DEF ReaderTypes
<1>3. CASE UNCHANGED packet /\ \E n \in ChunkSizes :
             FillChunk([NoChunk EXCEPT !.left = n], taken)
  <2>1. PICK n \in ChunkSizes : FillChunk([NoChunk EXCEPT !.left = n], taken)
    BY <1>3
  <2>2. [NoChunk EXCEPT !.left = n] \in Chunks
    BY NewChunkType, SessionAssumption
  <2>3. /\ chunk' \in Chunks /\ taken' \in taken .. got
        /\ s_state' \in {"chunk", "data"} /\ procq' \in Seq(NewsTypes)
    BY <1>1, <2>1, <2>2, FillChunkType
  <2> QED  BY <1>1, <1>3, <2>3 DEF ReaderTypes
<1> QED  BY <1>2, <1>3 DEF ChunkReading

LEMMA ChunkReadingGood ==
  ASSUME TypeOK, Good, Open, s_state = "reading", ChunkReading,
         UNCHANGED <<got, threadVars, done>>
  PROVE  Good'
<1>1. CASE UNCHANGED <<packet, taken, chunk, s_state, procq>>
  BY <1>1, SameGood
<1>2. CASE UNCHANGED packet /\ \E n \in ChunkSizes :
             FillChunk([NoChunk EXCEPT !.left = n], taken)
  <2>1. PICK n \in ChunkSizes : FillChunk([NoChunk EXCEPT !.left = n], taken)
    BY <1>2
  <2> DEFINE c == [NoChunk EXCEPT !.left = n]
  <2>2. c \in Chunks /\ c.left > 0 /\ c.first = 0
    BY NewChunkType, SessionAssumption
  <2>3. /\ done = taken /\ packet.first <= done
        /\ taken \in Nat /\ got \in Nat /\ taken <= got /\ packet' \in Packets
    BY <1>2 DEF Good, UnitsFit, AllHanded, TypeOK, Packets
  <2>4. GoesOn(c, taken)
    BY <1>2, <2>2, <2>3 DEF GoesOn
  <2> HIDE DEF c
  <2>5. FillChunk(c, taken)
    BY <2>1 DEF c
  <2>6. \/ s_state' = "data" /\ ChunkWaits' /\ procq' = Append(procq, "DATA")
        \/ /\ s_state' = "chunk" /\ UNCHANGED procq
           /\ chunk'.left > 0 /\ (ChunkWaits' \/ (chunk'.first = 0 /\ AllHanded'))
    BY <2>2, <2>3, <2>4, <2>5, FillChunkDoes
  <2> QED  BY <2>6, ReaderStep
<1> QED  BY <1>1, <1>2 DEF ChunkReading

(* What the descriptor has for an open chunk goes behind what the buffer   *)
(* had for it.                                                             *)
LEMMA FilledTwice ==
  ASSUME TypeOK, NEW n, n = Least(chunk.left, Buffered), Buffered = n,
         NEW m \in 1 .. Least(chunk.left - n, sent - got),
         chunk' = Filled(IF n > 0 THEN Filled(chunk, n, taken) ELSE chunk, m, got)
  PROVE  /\ n \in Nat /\ m \in Nat \ {0} /\ m <= chunk.left - n
         /\ got + m <= sent /\ got = taken + n
         /\ chunk' \in Chunks
         /\ chunk'.first = IF chunk.first = 0 THEN taken + 1 ELSE chunk.first
         /\ chunk'.last = got + m
         /\ chunk'.left = chunk.left - n - m
<1> DEFINE whole == IF n > 0 THEN Filled(chunk, n, taken) ELSE chunk
<1>1. /\ got \in Nat /\ taken \in 0 .. got /\ sent \in got .. Total /\ Total \in Nat
      /\ chunk \in Chunks /\ chunk.left \in Nat /\ chunk.first \in 0 .. Total
  BY SessionAssumption DEF TypeOK, Chunks
<1>2. n \in Nat /\ n <= chunk.left /\ got = taken + n
  BY <1>1 DEF Least, Buffered
<1>3. m \in Nat \ {0} /\ m <= chunk.left - n /\ got + m <= sent
  BY <1>1, <1>2 DEF Least
<1>4. /\ whole \in Chunks /\ whole.left = chunk.left - n
      /\ n > 0 => whole.first = IF chunk.first = 0 THEN taken + 1 ELSE chunk.first
      /\ n = 0 => whole.first = chunk.first
  <2>1. CASE n > 0
    <3>1. taken + 1 <= Total /\ taken + n <= Total
      BY <1>1, <1>2, <2>1
    <3>2. /\ Filled(chunk, n, taken) \in Chunks
          /\ Filled(chunk, n, taken).left = chunk.left - n
          /\ Filled(chunk, n, taken).first = IF chunk.first = 0 THEN taken + 1
                                                                ELSE chunk.first
      BY <1>1, <1>2, <3>1, FilledType
    <3> QED  BY <1>2, <2>1, <3>2
  <2>2. CASE n = 0
    BY <1>1, <2>2
  <2> QED  BY <1>2, <2>1, <2>2
<1> HIDE DEF whole
<1>5. chunk' = Filled(whole, m, got)
  BY DEF whole
<1>6. got + 1 <= Total /\ got + m <= Total /\ m <= whole.left
  BY <1>1, <1>2, <1>3, <1>4
<1>7. /\ chunk' \in Chunks /\ chunk'.last = got + m
      /\ chunk'.left = whole.left - m
      /\ chunk'.first = IF whole.first = 0 THEN got + 1 ELSE whole.first
  BY <1>1, <1>3, <1>4, <1>5, <1>6, FilledType
<1>8. chunk'.first = IF chunk.first = 0 THEN taken + 1 ELSE chunk.first
  BY <1>1, <1>2, <1>4, <1>7
<1> QED  BY <1>2, <1>3, <1>4, <1>7, <1>8

LEMMA ReadToChunkTypes ==
  ASSUME TypeOK, ReadToChunk, UNCHANGED packet
  PROVE  /\ got' \in got .. sent /\ closed' \in {"no", "yes", "read"}
         /\ ReaderTypes
<1> DEFINE n == Least(chunk.left, Buffered)
<1>1. /\ got \in Nat /\ taken \in 0 .. got /\ sent \in got .. Total /\ Total \in Nat
      /\ packet \in Packets /\ chunk \in Chunks /\ procq \in Seq(NewsTypes)
      /\ s_state \in {"ready", "packet", "chunk", "data", "reading", "tasking"}
      /\ closed \in {"no", "yes", "read"}
  BY SessionAssumption DEF TypeOK, Packets, Chunks, NewsTypes
<1>2. CASE FillChunk(chunk, taken) /\ UNCHANGED got /\ closed' \in {closed, "read"}
  <2>1. /\ chunk' \in Chunks /\ taken' \in taken .. got
        /\ s_state' \in {"chunk", "data"} /\ procq' \in Seq(NewsTypes)
    BY <1>1, <1>2, FillChunkType
  <2> QED  BY <1>1, <1>2, <2>1 DEF ReaderTypes
<1>3. CASE /\ Buffered = n /\ UNCHANGED closed
           /\ \E m \in 1 .. Least(chunk.left - n, sent - got) :
                /\ got' = got + m /\ taken' = got + m
                /\ chunk' = Filled(IF n > 0 THEN Filled(chunk, n, taken) ELSE chunk, m, got)
                /\ s_state' = IF m = chunk.left - n THEN "data" ELSE s_state
                /\ IF m = chunk.left - n THEN Tell("DATA") ELSE UNCHANGED procq
  <2>1. PICK m \in 1 .. Least(chunk.left - n, sent - got) :
                /\ got' = got + m /\ taken' = got + m
                /\ chunk' = Filled(IF n > 0 THEN Filled(chunk, n, taken) ELSE chunk, m, got)
                /\ s_state' = IF m = chunk.left - n THEN "data" ELSE s_state
                /\ IF m = chunk.left - n THEN Tell("DATA") ELSE UNCHANGED procq
    BY <1>3
  <2> HIDE DEF n
  <2>2. n = Least(chunk.left, Buffered)
    BY DEF n
  <2>3. m \in Nat /\ got + m <= sent /\ chunk' \in Chunks
    BY <1>3, <2>1, <2>2, FilledTwice
  <2>4. procq' \in Seq(NewsTypes)
    BY <1>1, <2>1, TellType DEF NewsTypes
  <2> QED  BY <1>1, <1>3, <2>1, <2>3, <2>4 DEF ReaderTypes
<1> QED  BY <1>2, <1>3 DEF ReadToChunk

(* An open chunk is filled from the buffer, or from the buffer and the     *)
(* descriptor, with the units that follow; or the connection is closed.    *)
LEMMA ReadToChunkGood ==
  ASSUME TypeOK, Good, Open, s_state = "chunk", ReadToChunk,
         UNCHANGED <<packet, threadVars, done>>, Open'
  PROVE  Good'
<1> DEFINE n == Least(chunk.left, Buffered)
<1>1. /\ got \in Nat /\ taken \in 0 .. got /\ sent \in got .. Total /\ Total \in Nat
      /\ packet' \in Packets /\ chunk \in Chunks /\ done \in Nat
      /\ chunk.left \in Nat /\ chunk.first \in Nat /\ chunk.last \in Nat
      /\ packet.first \in Nat /\ packet.last \in Nat
  BY SessionAssumption DEF TypeOK, Packets, Chunks
<1>2. chunk.left > 0 /\ (ChunkWaits \/ (chunk.first = 0 /\ AllHanded))
  BY DEF Good, UnitsFit
<1>3. CASE FillChunk(chunk, taken)
  <2>1. GoesOn(chunk, taken)
    BY <1>1, <1>2 DEF GoesOn, ChunkWaits, AllHanded
  <2>2. \/ s_state' = "data" /\ ChunkWaits' /\ procq' = Append(procq, "DATA")
        \/ /\ s_state' = "chunk" /\ UNCHANGED procq
           /\ chunk'.left > 0 /\ (ChunkWaits' \/ (chunk'.first = 0 /\ AllHanded'))
    BY <1>1, <1>2, <1>3, <2>1, FillChunkDoes
  <2> QED  BY <2>2, ReaderStep
<1>4. CASE /\ Buffered = n
           /\ \E m \in 1 .. Least(chunk.left - n, sent - got) :
                /\ got' = got + m /\ taken' = got + m
                /\ chunk' = Filled(IF n > 0 THEN Filled(chunk, n, taken) ELSE chunk, m, got)
                /\ s_state' = IF m = chunk.left - n THEN "data" ELSE s_state
                /\ IF m = chunk.left - n THEN Tell("DATA") ELSE UNCHANGED procq
  <2>1. PICK m \in 1 .. Least(chunk.left - n, sent - got) :
                /\ got' = got + m /\ taken' = got + m
                /\ chunk' = Filled(IF n > 0 THEN Filled(chunk, n, taken) ELSE chunk, m, got)
                /\ s_state' = IF m = chunk.left - n THEN "data" ELSE s_state
                /\ IF m = chunk.left - n THEN Tell("DATA") ELSE UNCHANGED procq
    BY <1>4
  <2> HIDE DEF n
  <2>2. n = Least(chunk.left, Buffered)
    BY DEF n
  <2>3. /\ n \in Nat /\ m \in Nat \ {0} /\ m <= chunk.left - n /\ got = taken + n
        /\ chunk'.first = IF chunk.first = 0 THEN taken + 1 ELSE chunk.first
        /\ chunk'.last = got + m /\ chunk'.left = chunk.left - n - m
    BY <1>4, <2>1, <2>2, FilledTwice
  <2>4. ChunkWaits'
    <3>1. packet' = packet /\ done' = done /\ taken' = got + m
      BY <2>1
    <3>2. CASE ChunkWaits
      BY <1>1, <2>3, <3>1, <3>2 DEF ChunkWaits
    <3>3. CASE chunk.first = 0 /\ AllHanded
      BY <1>1, <2>3, <3>1, <3>3 DEF ChunkWaits, AllHanded
    <3> QED  BY <1>2, <3>2, <3>3
  <2>5. CASE m = chunk.left - n
    <3>1. s_state' = "data" /\ procq' = Append(procq, "DATA")
      BY <2>1, <2>5 DEF Tell
    <3> QED  BY <2>4, <3>1, ReaderStep
  <2>6. CASE m # chunk.left - n
    <3>1. s_state' = "chunk" /\ UNCHANGED procq /\ chunk'.left > 0
      BY <1>1, <2>1, <2>3, <2>6
    <3> QED  BY <2>4, <3>1, ReaderStep
  <2> QED  BY <2>5, <2>6
<1> QED  BY <1>3, <1>4 DEF ReadToChunk, Open

(* A step that leaves all of this alone but what the reader may change     *)
(* keeps the types.                                                        *)
LEMMA ReaderTypeOK ==
  ASSUME TypeOK, ReaderTypes, got' \in got .. sent, read' \in BOOLEAN,
         inq' \in Seq({"BUFFER", "CHUNKIO"}), closed' \in {"no", "yes", "read"},
         UNCHANGED <<mode, sent, threadVars, timeouts, historyVars>>
  PROVE  TypeOK'
<1>1. UNCHANGED <<mode, sent, at, handling, moved, timeouts, done, skew, cut>>
  BY DEF threadVars, historyVars
<1>2. sent \in 0 .. Total /\ got' \in 0 .. sent /\ taken \in Nat
  BY SessionAssumption DEF TypeOK
<1>3. taken' \in 0 .. got'
  BY <1>2 DEF ReaderTypes
<1> QED  BY <1>1, <1>2, <1>3 DEF TypeOK, ReaderTypes, Packets, Chunks, NewsTypes

(* A reader that finds nothing to do changes no type.                      *)
LEMMA SameTypes ==
  ASSUME TypeOK, UNCHANGED <<packet, taken, chunk, s_state, procq>>, got' \in got .. sent
  PROVE  ReaderTypes
<1>1. got \in Nat /\ taken \in 0 .. got /\ sent \in Nat
  BY SessionAssumption DEF TypeOK
<1>2. taken' \in taken .. got'
  BY <1>1
<1> QED  BY <1>2 DEF TypeOK, ReaderTypes, Packets, Chunks, NewsTypes

LEMMA ReadEventKeeps ==
  ASSUME IInv, ReadEvent
  PROVE  IInv'
<1>1. /\ TypeOK /\ Open /\ sent > got
      /\ UNCHANGED <<mode, sent, packet, inq, threadVars, timeouts, historyVars>>
      /\ UNCHANGED <<done, skew, cut>>
  BY DEF IInv, ReadEvent, historyVars
<1>2. /\ got \in Nat /\ sent \in Nat /\ inq' \in Seq({"BUFFER", "CHUNKIO"})
      /\ read \in BOOLEAN /\ closed \in {"no", "yes", "read"}
  BY <1>1, SessionAssumption DEF TypeOK
<1>3. CASE s_state = "chunk" /\ chunk.left > 0 /\ ReadToChunk /\ UNCHANGED read
  <2>1. TypeOK'
    BY <1>1, <1>2, <1>3, ReadToChunkTypes, ReaderTypeOK
  <2>2. Good /\ Open' => Good'
    BY <1>1, <1>3, ReadToChunkGood
  <2> QED  BY <1>1, <2>1, <2>2 DEF IInv
<1>4. CASE /\ \E m \in 1 .. sent - got : got' = got + m
           /\ read' = TRUE
           /\ UNCHANGED <<taken, chunk, s_state, procq, closed>>
  <2>1. got' \in got .. sent
    BY <1>2, <1>4
  <2>2. TypeOK'
    BY <1>1, <1>2, <1>4, <2>1, SameTypes, ReaderTypeOK
  <2>3. Good => Good'
    BY <1>1, <1>4, SameGood
  <2>4. Open'
    BY <1>1, <1>4 DEF Open
  <2> QED  BY <1>1, <2>2, <2>3, <2>4 DEF IInv
<1> QED  BY <1>3, <1>4 DEF ReadEvent

LEMMA AfterReadKeeps ==
  ASSUME IInv, AfterRead
  PROVE  IInv'
<1>1. /\ TypeOK /\ read' = FALSE
      /\ UNCHANGED <<mode, sent, got, inq, threadVars, timeouts, closed, historyVars>>
      /\ UNCHANGED <<done, skew, cut>> /\ (Open' <=> Open)
  BY DEF IInv, AfterRead, historyVars, Open
<1>2. /\ got' \in got .. sent /\ inq' \in Seq({"BUFFER", "CHUNKIO"})
      /\ closed' \in {"no", "yes", "read"}
  BY <1>1, SessionAssumption DEF TypeOK
<1>3. ReaderTypes /\ (Good /\ Open => Good')
  <2>1. CASE ReadPacket
    BY <1>1, <2>1, ReadPacketTypes, ReadPacketGood
  <2>2. CASE s_state = "reading" /\ ChunkReading
    BY <1>1, <2>2, ChunkReadingTypes, ChunkReadingGood
  <2>3. CASE UNCHANGED <<packet, taken, chunk, s_state, procq>>
    BY <1>1, <1>2, <2>3, SameTypes, SameGood
  <2> QED  BY <2>1, <2>2, <2>3 DEF AfterRead
<1>4. TypeOK'
  BY <1>1, <1>2, <1>3, ReaderTypeOK
<1> QED  BY <1>1, <1>3, <1>4 DEF IInv

LEMMA HandleInKeeps ==
  ASSUME IInv, HandleIn
  PROVE  IInv'
<1>1. /\ TypeOK /\ inq # <<>> /\ inq' = Tail(inq)
      /\ UNCHANGED <<mode, sent, got, read, threadVars, timeouts, closed, historyVars>>
      /\ UNCHANGED <<done, skew, cut>> /\ (Open' <=> Open)
  BY DEF IInv, HandleIn, historyVars, Open
<1>2. /\ got' \in got .. sent /\ read' \in BOOLEAN /\ inq \in Seq({"BUFFER", "CHUNKIO"})
      /\ closed' \in {"no", "yes", "read"}
      /\ got \in Nat /\ taken \in Nat /\ taken <= got
      /\ packet \in Packets /\ chunk \in Chunks
      /\ chunk.left \in Nat /\ chunk.first \in Nat /\ chunk.last \in Nat
      /\ packet.first \in Nat /\ packet.last \in Nat /\ done \in Nat
  BY <1>1, SessionAssumption DEF TypeOK, Packets, Chunks
<1>3. inq' \in Seq({"BUFFER", "CHUNKIO"})
  BY <1>1, <1>2
<1>4. ReaderTypes /\ (Good /\ Open => Good')
  <2>1. CASE ReadPacket
    BY <1>1, <2>1, ReadPacketTypes, ReadPacketGood
  <2>2. CASE s_state = "reading" /\ ChunkReading
    BY <1>1, <2>2, ChunkReadingTypes, ChunkReadingGood
  <2>3. CASE UNCHANGED <<packet, taken, chunk, s_state, procq>>
    BY <1>1, <1>2, <2>3, SameTypes, SameGood
  <2>4. CASE s_state = "chunk" /\ FillChunk(chunk, taken) /\ UNCHANGED packet
    <3>1. ReaderTypes
      <4>1. /\ chunk' \in Chunks /\ taken' \in taken .. got
            /\ s_state' \in {"chunk", "data"} /\ procq' \in Seq(NewsTypes)
        BY <1>1, <1>2, <2>4, FillChunkType
      <4> QED  BY <1>1, <1>2, <2>4, <4>1 DEF ReaderTypes
    <3>2. ASSUME Good, Open  PROVE Good'
      <4>1. chunk.left > 0 /\ (ChunkWaits \/ (chunk.first = 0 /\ AllHanded))
        BY <2>4, <3>2 DEF Good, UnitsFit
      <4>2. GoesOn(chunk, taken)
        BY <1>2, <2>4, <4>1 DEF GoesOn, ChunkWaits, AllHanded
      <4>3. \/ s_state' = "data" /\ ChunkWaits' /\ procq' = Append(procq, "DATA")
            \/ /\ s_state' = "chunk" /\ UNCHANGED procq
               /\ chunk'.left > 0 /\ (ChunkWaits' \/ (chunk'.first = 0 /\ AllHanded'))
        BY <1>1, <1>2, <2>4, <3>1, <3>2, <4>1, <4>2, FillChunkDoes DEF ReaderTypes
      <4> QED  BY <1>1, <2>4, <3>2, <4>3, ReaderStep
    <3> QED  BY <3>1, <3>2
  <2> QED  BY <2>1, <2>2, <2>3, <2>4 DEF HandleIn
<1>5. TypeOK'
  BY <1>1, <1>2, <1>3, <1>4, ReaderTypeOK
<1> QED  BY <1>1, <1>4, <1>5 DEF IInv

LEMMA ReaderKeeps ==
  ASSUME IInv, Reader
  PROVE  IInv'
BY ReadEventKeeps, AfterReadKeeps, HandleInKeeps DEF Reader

-----------------------------------------------------------------------------
(* The procthread takes a message.                                         *)

Places == {"idle", "handler", "over", "over_store", "over_test",
           "after", "reset", "store", "test"}

(* A thread goes to a place, and the other one stays where it is.          *)
LEMMA GoesDoes ==
  ASSUME TypeOK, NEW t \in Threads, NEW place \in Places, Goes(t, place)
  PROVE  /\ at' \in [Threads -> Places]
         /\ at'[t] = place /\ \A o \in Threads : o # t => at'[o] = at[o]
<1>1. at \in [Threads -> Places]
  BY DEF TypeOK, Places
<1> QED  BY <1>1 DEF Goes

(* A handler is given units up to one that arrived.                        *)
LEMMA HandTypes ==
  ASSUME TypeOK, NEW state \in {"packet", "data"}, NEW first \in Nat, NEW last \in 0 .. Total,
         Hand(state, first, last)
  PROVE  /\ handling' = state /\ moved' = FALSE /\ done' = last
         /\ skew' \in BOOLEAN /\ at' \in [Threads -> Places]
         /\ at'["proc"] = "handler" /\ at'["task"] = at["task"]
         /\ ~skew /\ first = done + 1 /\ first <= last => ~skew'
<1>1. done' = last
  BY SessionAssumption DEF Hand, Least
<1>2. /\ at' \in [Threads -> Places]
      /\ at'["proc"] = "handler" /\ at'["task"] = at["task"]
  BY GoesDoes DEF Hand, Places, Threads
<1>3. handling' = state /\ moved' = FALSE
  BY DEF Hand
<1>4. skew' = (skew \/ first # done + 1 \/ last < first)
  BY DEF Hand
<1>5. skew' \in BOOLEAN
  BY <1>4
<1>6. first <= last => ~(last < first)
  BY SessionAssumption
<1>7. ~skew /\ first = done + 1 /\ first <= last => ~skew'
  BY <1>4, <1>6, Zenon
<1> QED  BY <1>1, <1>2, <1>3, <1>5, <1>7

(* The application has got what the only PACKET or DATA was about.         *)
LEMMA HandGood ==
  ASSUME TypeOK, Good, procq # <<>>, procq' = Tail(procq), Head(procq) # "TIMEOUT",
         UNCHANGED <<taken, packet, chunk, s_state>>,
         at["proc"] = "idle", at'["proc"] = "handler", at'["task"] = at["task"],
         handling' = s_state, moved' = FALSE, done' = taken, packet.first <= taken
  PROVE  Good'
<1>1. 1 \in News /\ s_state \in {"packet", "data"}
  BY PopNews DEF Good, NewsFit
<1>2. \A i \in News : i = 1
  BY <1>1 DEF Good, NewsFit
<1>3. \A i : i \notin News'
  BY <1>2, PopNews
<1>4. Holding'
  BY DEF Holding
<1>5. ThreadsFit'
  BY <1>1 DEF Good, ThreadsFit
<1>6. StateFits'
  BY <1>1 DEF Good, StateFits
<1>7. NewsFit'
  BY <1>3, <1>4 DEF NewsFit
<1>8. UnitsFit'
  BY <1>1, <1>4 DEF UnitsFit, AllHanded
<1> QED  BY <1>5, <1>6, <1>7, <1>8 DEF Good

LEMMA HandlePacketKeeps ==
  ASSUME IInv, HandlePacket
  PROVE  IInv'
<1>1. /\ TypeOK /\ at["proc"] = "idle" /\ procq # <<>> /\ procq' = Tail(procq)
      /\ Head(procq) = "PACKET"
      /\ UNCHANGED <<mode, sent, got, taken, packet, chunk, s_state, inq, read,
                     timeouts, closed, cut>>
      /\ (Open' <=> Open)
  BY DEF IInv, HandlePacket, ProcIdle, dataVars, Open
<1>2. /\ procq' \in Seq(NewsTypes) /\ packet.last \in 0 .. Total
      /\ packet.first \in Nat /\ taken \in Nat /\ done \in Nat
  BY <1>1, PopNews, SessionAssumption DEF TypeOK
<1>3. CASE Open /\ Hand("packet", packet.first, packet.last)
  <2>1. /\ handling' = "packet" /\ moved' = FALSE /\ done' = packet.last
        /\ skew' \in BOOLEAN /\ at' \in [Threads -> Places]
        /\ at'["proc"] = "handler" /\ at'["task"] = at["task"]
        /\ ~skew /\ packet.first = done + 1 /\ packet.first <= packet.last => ~skew'
    BY <1>1, <1>2, <1>3, HandTypes
  <2>2. TypeOK'
    BY <1>1, <1>2, <2>1 DEF TypeOK, NewsTypes, Places
  <2>3. ASSUME ~cut  PROVE ~skew' /\ Good'
    <3>1. Good /\ ~skew
      BY <1>3, <2>3 DEF IInv
    <3>2. s_state = "packet" /\ ~Holding
      BY <1>1, <3>1, PopNews DEF Good, NewsFit
    <3>3. PacketWaits
      BY <3>1, <3>2 DEF Good, UnitsFit
    <3>4. ~skew' /\ done' = taken /\ packet.first <= taken
      BY <1>2, <2>1, <3>1, <3>3 DEF PacketWaits
    <3>5. Good'
      BY <1>1, <2>1, <3>1, <3>2, <3>4, HandGood
    <3> QED  BY <3>4, <3>5
  <2> QED  BY <1>1, <2>2, <2>3 DEF IInv
<1>4. CASE ~Open /\ UNCHANGED <<threadVars, done, skew>>
  <2>1. TypeOK'
    BY <1>1, <1>2, <1>4 DEF TypeOK, NewsTypes, threadVars
  <2> QED  BY <1>1, <1>4, <2>1 DEF IInv
<1> QED  BY <1>3, <1>4 DEF HandlePacket

LEMMA HandleDataKeeps ==
  ASSUME IInv, HandleData
  PROVE  IInv'
<1> DEFINE first == IF packet.first = done + 1 /\ chunk.first = packet.last + 1
                    THEN packet.first ELSE chunk.first
<1>1. /\ TypeOK /\ at["proc"] = "idle" /\ procq # <<>> /\ procq' = Tail(procq)
      /\ Head(procq) = "DATA"
      /\ UNCHANGED <<mode, sent, got, taken, packet, chunk, s_state, inq, read,
                     timeouts, closed, cut>>
      /\ (Open' <=> Open)
  BY DEF IInv, HandleData, ProcIdle, dataVars, Open
<1>2. /\ procq' \in Seq(NewsTypes) /\ chunk.last \in 0 .. Total
      /\ packet.first \in Nat /\ packet.last \in Nat /\ chunk.first \in Nat
      /\ taken \in Nat /\ done \in Nat /\ first \in Nat
  BY <1>1, PopNews, SessionAssumption DEF TypeOK
<1>3. ASSUME Open, ~cut
      PROVE  /\ Good /\ ~skew /\ s_state = "data" /\ ChunkWaits
             /\ chunk # NoChunk /\ first = done + 1 /\ first <= chunk.last
             /\ chunk.last = taken /\ packet.first <= taken
  <2>1. Good /\ ~skew
    BY <1>3 DEF IInv
  <2>2. s_state = "data" /\ ~Holding
    BY <1>1, <2>1, PopNews DEF Good, NewsFit
  <2>3. ChunkWaits
    BY <2>1, <2>2 DEF Good, UnitsFit
  <2>4. chunk # NoChunk
    BY <2>3 DEF ChunkWaits, NoChunk
  <2>5. /\ first = done + 1 /\ first <= chunk.last
        /\ chunk.last = taken /\ packet.first <= taken
    BY <1>2, <2>3 DEF ChunkWaits
  <2> QED  BY <2>1, <2>2, <2>3, <2>4, <2>5
<1>4. CASE Open /\ chunk # NoChunk /\ Hand("data", first, chunk.last)
  <2> HIDE DEF first
  <2>1. /\ handling' = "data" /\ moved' = FALSE /\ done' = chunk.last
        /\ skew' \in BOOLEAN /\ at' \in [Threads -> Places]
        /\ at'["proc"] = "handler" /\ at'["task"] = at["task"]
        /\ ~skew /\ first = done + 1 /\ first <= chunk.last => ~skew'
    BY <1>1, <1>2, <1>4, HandTypes
  <2>2. TypeOK'
    BY <1>1, <1>2, <2>1 DEF TypeOK, NewsTypes, Places
  <2>3. ASSUME ~cut  PROVE ~skew' /\ Good'
    <3>1. ~skew'
      BY <1>3, <1>4, <2>1, <2>3
    <3>2. Good'
      BY <1>1, <1>3, <1>4, <2>1, <2>3, HandGood
    <3> QED  BY <3>1, <3>2
  <2> QED  BY <1>1, <2>2, <2>3 DEF IInv
<1>5. CASE /\ Open /\ chunk = NoChunk
           /\ handling' = "data" /\ Goes("proc", "after")
           /\ UNCHANGED <<moved, done, skew>>
  <2>1. at' \in [Threads -> Places]
    BY <1>1, <1>5, GoesDoes DEF Places, Threads
  <2>2. TypeOK'
    BY <1>1, <1>2, <1>5, <2>1 DEF TypeOK, NewsTypes, Places
  <2> QED  BY <1>1, <1>3, <1>5, <2>2 DEF IInv
<1>6. CASE ~Open /\ UNCHANGED <<threadVars, done, skew>>
  <2>1. TypeOK'
    BY <1>1, <1>2, <1>6 DEF TypeOK, NewsTypes, threadVars
  <2> QED  BY <1>1, <1>6, <2>1 DEF IInv
<1> QED  BY <1>4, <1>5, <1>6 DEF HandleData

(* A timeout resets a session; of one that others count on nothing is      *)
(* promised any more.                                                      *)
LEMMA HandleTimeoutKeeps ==
  ASSUME IInv, HandleTimeout
  PROVE  IInv'
<1>1. /\ TypeOK /\ procq # <<>> /\ procq' = Tail(procq) /\ Head(procq) = "TIMEOUT"
      /\ s_state' = IF Open THEN "ready" ELSE s_state
      /\ cut' = (cut \/ (Open /\ s_state # "ready"))
      /\ UNCHANGED <<mode, sent, got, taken, packet, chunk, inq, read,
                     at, handling, moved, timeouts, closed, done, skew>>
      /\ (Open' <=> Open)
  BY DEF IInv, HandleTimeout, dataVars, threadVars, Open
<1>2. procq' \in Seq(NewsTypes)
  BY <1>1, PopNews
<1>3. TypeOK'
  BY <1>1, <1>2 DEF TypeOK, NewsTypes
<1>4. ASSUME ~cut', Open'  PROVE Good'
  <2>1. Good /\ s_state = "ready" /\ s_state' = "ready"
    BY <1>1, <1>4 DEF IInv
  <2>2. News = {} /\ ~Holding
    BY <1>1, <2>1, ReadersSession
  <2>3. \A i : i \notin News'
    BY <1>1, <2>2, PopNews
  <2>4. ~Holding'
    BY <1>1, <2>2 DEF Holding
  <2>5. NewsFit'
    BY <2>1, <2>3, <2>4 DEF NewsFit
  <2>6. ThreadsFit' /\ StateFits' /\ UnitsFit'
    BY <1>1, <2>1 DEF Good, ThreadsFit, StateFits, UnitsFit
  <2> QED  BY <2>5, <2>6 DEF Good
<1> QED  BY <1>1, <1>3, <1>4 DEF IInv

-----------------------------------------------------------------------------
(* The handler of the application, and the test behind it.                 *)

(* Who has the session has been handed everything that was taken.          *)
LEMMA Holder ==
  ASSUME TypeOK, Good, Holding
  PROVE  News = {} /\ AllHanded /\ s_state \in {"packet", "data", "tasking"}
<1>1. handling \in {"none", "packet", "data"}
  BY DEF TypeOK
<1>2. at["proc"] \in {"handler", "over", "over_store", "after"} => handling # "none"
  BY DEF Good, ThreadsFit
<1>3. s_state \in {"packet", "data", "tasking"}
  BY <1>1, <1>2 DEF Good, StateFits, Holding
<1> QED  BY <1>3 DEF Good, NewsFit, UnitsFit

(* What holds in a handler.                                                *)
LEMMA InHandlerFacts ==
  ASSUME TypeOK, Good, InHandler
  PROVE  /\ handling \in {"packet", "data"} /\ s_state = handling /\ ~moved
         /\ Holding /\ News = {} /\ AllHanded
         /\ at["task"] \in {"idle", "test"}
<1>1. handling \in {"packet", "data"}
  BY DEF TypeOK, Good, ThreadsFit, InHandler
<1>2. Holding
  BY DEF Holding, InHandler
<1>3. s_state = handling /\ at["task"] \in {"idle", "test"} /\ ~moved
  BY <1>1 DEF Good, ThreadsFit, StateFits, InHandler
<1> QED  BY <1>1, <1>2, <1>3, Holder

(* A message to the reader appends to its queue or does nothing.           *)
LEMMA AskType ==
  ASSUME TypeOK, NEW m \in {"BUFFER", "CHUNKIO"}, Ask(m)
  PROVE  inq' \in Seq({"BUFFER", "CHUNKIO"})
BY DEF Ask, TypeOK

(* conn_recv_chunk and conn_read_chunk let the session go on while the     *)
(* handler runs.                                                           *)
LEMMA GoOnGood ==
  ASSUME TypeOK, Good, InHandler, moved' = TRUE,
         UNCHANGED <<taken, packet, procq, handling, done>>,
         at'["proc"] = "after", at'["task"] = at["task"],
         \/ s_state' = "chunk" /\ chunk'.left > 0 /\ chunk'.first = 0
         \/ s_state' = "reading"
  PROVE  Good'
<1>1. /\ handling \in {"packet", "data"} /\ News = {} /\ AllHanded
      /\ at["task"] \in {"idle", "test"}
  BY InHandlerFacts
<1>2. ~Holding' /\ News' = {} /\ AllHanded'
  BY <1>1 DEF Holding, News, AllHanded
<1>3. ThreadsFit' /\ StateFits'
  BY <1>1 DEF ThreadsFit, StateFits
<1>4. NewsFit'
  BY <1>2 DEF NewsFit
<1>5. UnitsFit'
  BY <1>2 DEF UnitsFit
<1> QED  BY <1>3, <1>4, <1>5 DEF Good

LEMMA RecvChunkKeeps ==
  ASSUME IInv, NEW n \in ChunkSizes, RecvChunk(n)
  PROVE  IInv'
<1>1. /\ TypeOK /\ InHandler /\ Ask("CHUNKIO") /\ Goes("proc", "after")
      /\ chunk' = [NoChunk EXCEPT !.left = n] /\ s_state' = "chunk" /\ moved' = TRUE
      /\ UNCHANGED <<mode, sent, got, taken, packet, procq, read, timeouts, closed,
                     handling, done, skew, cut>>
      /\ (Open' <=> Open)
  BY DEF IInv, RecvChunk, rest, historyVars, Open
<1>2. /\ chunk' \in Chunks /\ chunk'.left > 0 /\ chunk'.first = 0
      /\ inq' \in Seq({"BUFFER", "CHUNKIO"})
  BY <1>1, NewChunkType, AskType, SessionAssumption
<1>3. /\ at' \in [Threads -> Places] /\ at'["proc"] = "after"
      /\ at'["task"] = at["task"]
  BY <1>1, GoesDoes DEF Places, Threads
<1>4. TypeOK'
  BY <1>1, <1>2, <1>3 DEF TypeOK, Chunks, Places
<1>5. Good => Good'
  BY <1>1, <1>2, <1>3, GoOnGood
<1> QED  BY <1>1, <1>4, <1>5 DEF IInv

LEMMA ReadChunkKeeps ==
  ASSUME IInv, ReadChunk
  PROVE  IInv'
<1>1. /\ TypeOK /\ InHandler /\ Ask("CHUNKIO") /\ Goes("proc", "after")
      /\ s_state' = "reading" /\ moved' = TRUE
      /\ UNCHANGED <<mode, sent, got, taken, packet, chunk, procq, read, timeouts,
                     closed, handling, done, skew, cut>>
      /\ (Open' <=> Open)
  BY DEF IInv, ReadChunk, rest, historyVars, Open
<1>2. inq' \in Seq({"BUFFER", "CHUNKIO"})
  BY <1>1, AskType
<1>3. /\ at' \in [Threads -> Places] /\ at'["proc"] = "after"
      /\ at'["task"] = at["task"]
  BY <1>1, GoesDoes DEF Places, Threads
<1>4. TypeOK'
  BY <1>1, <1>2, <1>3 DEF TypeOK, Places
<1>5. Good => Good'
  BY <1>1, <1>3, GoOnGood
<1> QED  BY <1>1, <1>4, <1>5 DEF IInv

(* conn_over_session keeps the session for its reset, and so does the test *)
(* behind a handler that did nothing.                                      *)
LEMMA StayGood ==
  ASSUME TypeOK, Good, InHandler,
         UNCHANGED <<taken, packet, chunk, s_state, procq, handling, moved, done>>,
         at'["proc"] \in {"after", "over"}, at'["task"] = at["task"]
  PROVE  Good'
<1>1. /\ handling \in {"packet", "data"} /\ News = {} /\ AllHanded
      /\ s_state = handling /\ ~moved /\ at["task"] \in {"idle", "test"}
  BY InHandlerFacts
<1>2. Holding' /\ News' = {} /\ AllHanded'
  BY <1>1 DEF Holding, News, AllHanded
<1>3. ThreadsFit' /\ StateFits'
  BY <1>1 DEF ThreadsFit, StateFits
<1>4. NewsFit'
  BY <1>2 DEF NewsFit
<1>5. UnitsFit'
  BY <1>1, <1>2 DEF UnitsFit
<1> QED  BY <1>3, <1>4, <1>5 DEF Good

LEMMA FinishKeeps ==
  ASSUME IInv, Finish \/ OverSession
  PROVE  IInv'
<1>1. /\ TypeOK /\ InHandler
      /\ \E place \in {"after", "over"} : Goes("proc", place)
      /\ UNCHANGED <<mode, sent, got, taken, packet, chunk, s_state, inq, procq, read,
                     timeouts, closed, handling, moved, done, skew, cut>>
      /\ (Open' <=> Open)
  BY DEF IInv, Finish, OverSession, rest, historyVars, Open
<1>2. /\ at' \in [Threads -> Places] /\ at'["proc"] \in {"after", "over"}
      /\ at'["task"] = at["task"]
  BY <1>1, GoesDoes DEF Places, Threads
<1>3. TypeOK'
  BY <1>1, <1>2 DEF TypeOK, Places
<1>4. Good => Good'
  BY <1>1, <1>2, StayGood
<1> QED  BY <1>1, <1>3, <1>4 DEF IInv

LEMMA NewTaskKeeps ==
  ASSUME IInv, NewTask
  PROVE  IInv'
<1>1. /\ TypeOK /\ InHandler /\ at["task"] = "idle"
      /\ s_state' = "tasking" /\ at' = [proc |-> "after", task |-> "reset"]
      /\ UNCHANGED <<mode, sent, got, taken, packet, chunk, inq, procq, read,
                     timeouts, closed, handling, moved, done, skew, cut>>
      /\ (Open' <=> Open)
  BY DEF IInv, NewTask, rest, historyVars, Open
<1>2. /\ at' \in [Threads -> Places] /\ at'["proc"] = "after"
      /\ at'["task"] = "reset"
  BY <1>1 DEF Places, Threads
<1>3. TypeOK'
  BY <1>1, <1>2 DEF TypeOK, Places
<1>4. ASSUME Good  PROVE Good'
  <2>1. /\ handling \in {"packet", "data"} /\ News = {} /\ AllHanded /\ ~moved
    BY <1>1, <1>4, InHandlerFacts
  <2>2. Holding' /\ News' = {} /\ AllHanded'
    BY <1>1, <1>2, <2>1 DEF Holding, News, AllHanded
  <2>3. ThreadsFit' /\ StateFits'
    BY <1>1, <1>2, <2>1 DEF ThreadsFit, StateFits
  <2>4. NewsFit' /\ UnitsFit'
    BY <1>1, <2>2 DEF NewsFit, UnitsFit
  <2> QED  BY <2>3, <2>4 DEF Good
<1> QED  BY <1>1, <1>3, <1>4 DEF IInv

(* The test behind the handler finds the session as the handler found it   *)
(* and resets it, or leaves it to whom it belongs now.                     *)
LEMMA AfterHandlerKeeps ==
  ASSUME IInv, AfterHandler
  PROVE  IInv'
<1>1. /\ TypeOK /\ at["proc"] = "after"
      /\ Goes("proc", IF s_state = handling THEN "reset" ELSE "idle")
      /\ cut' = (cut \/ (moved /\ s_state = handling))
      /\ handling' = "none" /\ moved' = FALSE
      /\ UNCHANGED <<mode, sent, got, taken, packet, chunk, s_state, inq, procq, read,
                     timeouts, closed, done, skew>>
      /\ (Open' <=> Open)
  BY DEF IInv, AfterHandler, dataVars, Open
<1>2. /\ at' \in [Threads -> Places] /\ at'["task"] = at["task"]
      /\ at'["proc"] = IF s_state = handling THEN "reset" ELSE "idle"
  BY <1>1, GoesDoes DEF Places, Threads
<1>3. TypeOK'
  BY <1>1, <1>2 DEF TypeOK, Places
<1>4. ASSUME Good, ~cut'  PROVE Good'
  <2>1. handling \in {"packet", "data"}
    BY <1>1, <1>4 DEF TypeOK, Good, ThreadsFit
  <2>2. CASE s_state = handling
    <3>1. Holding
      BY <1>1, <1>4, <2>2 DEF Holding
    <3>2. News = {} /\ AllHanded
      BY <1>1, <1>4, <3>1, Holder
    <3>3. Holding' /\ News' = {} /\ AllHanded'
      BY <1>1, <1>2, <2>2, <3>2 DEF Holding, News, AllHanded
    <3>4. ThreadsFit' /\ StateFits'
      BY <1>1, <1>2, <1>4, <2>1, <2>2 DEF Good, ThreadsFit, StateFits
    <3>5. NewsFit' /\ UnitsFit'
      BY <1>1, <2>1, <2>2, <3>3 DEF NewsFit, UnitsFit
    <3> QED  BY <3>4, <3>5 DEF Good
  <2>3. CASE s_state # handling
    <3>1. ~Holding' /\ ThreadsFit'
      BY <1>1, <1>2, <1>4, <2>3 DEF Holding, Good, ThreadsFit
    <3>2. Holding => s_state = "tasking"
      BY <1>1, <1>4, <2>3 DEF Holding, Good, StateFits
    <3>3. StateFits'
      BY <1>1, <1>2, <1>4, <2>3 DEF Good, StateFits
    <3>4. NewsFit'
      BY <1>1, <1>4, <3>1, <3>2 DEF Good, NewsFit, News
    <3>5. UnitsFit'
      BY <1>1, <1>4, <3>1, <3>2 DEF Good, UnitsFit, AllHanded, PacketWaits, ChunkWaits
    <3> QED  BY <3>1, <3>3, <3>4, <3>5 DEF Good
  <2> QED  BY <2>2, <2>3
<1> QED  BY <1>1, <1>3, <1>4 DEF IInv

-----------------------------------------------------------------------------
(* The reset of a session.                                                 *)

(* Whoever resets the session has been handed everything, and nobody waits *)
(* for the session.                                                        *)
LEMMA Resetting ==
  ASSUME TypeOK, Good, NEW t \in Threads,
         at[t] \in {"over", "reset", "over_store", "store"}
  PROVE  /\ News = {} /\ AllHanded
         /\ t = "proc" => /\ s_state \in {"packet", "data"}
                          /\ at["task"] \in {"idle", "test"}
                          /\ handling # "none" <=> at["proc"] \in {"over", "over_store"}
                          /\ handling \in {"none", s_state}
         /\ t = "task" => /\ at["task"] \in {"reset", "store"}
                          /\ s_state = "tasking"
                          /\ at["proc"] \notin {"over", "over_store", "handler",
                                                "reset", "store"}
<1>1. /\ handling \in {"none", "packet", "data"}
      /\ s_state \in {"ready", "packet", "chunk", "data", "reading", "tasking"}
  BY DEF TypeOK
<1>2. CASE t = "proc"
  <2>1. Holding
    BY <1>2 DEF Holding
  <2>2. News = {} /\ AllHanded
    BY <2>1, Holder
  <2>3. s_state \in {"packet", "data"}
    BY <1>1, <1>2 DEF Good, StateFits, ThreadsFit
  <2>4. /\ handling # "none" <=> at["proc"] \in {"over", "over_store"}
        /\ at["task"] \in {"idle", "test"}
    BY <1>1, <1>2, <2>3 DEF Good, ThreadsFit, StateFits
  <2>5. handling \in {"none", s_state}
    BY <1>1, <1>2, <2>4 DEF Good, StateFits
  <2> QED  BY <1>2, <2>2, <2>3, <2>4, <2>5
<1>3. CASE t = "task"
  <2>1. at["task"] \in {"reset", "store"} /\ s_state = "tasking"
    BY <1>3 DEF Good, ThreadsFit, StateFits
  <2>2. at["proc"] \notin {"over", "over_store", "handler", "reset", "store"}
    BY <1>1, <2>1 DEF Good, StateFits, ThreadsFit
  <2>3. News = {} /\ AllHanded
    BY <2>1 DEF Good, NewsFit, UnitsFit
  <2> QED  BY <1>3, <2>1, <2>2, <2>3
<1> QED  BY <1>2, <1>3 DEF Threads

(* Once s_state is 0, the session is the reader's.                         *)
LEMMA ResetGood ==
  ASSUME TypeOK, Good, NEW t \in Threads, NEW o \in Threads, o # t,
         at[t] \in {"over", "reset", "over_store", "store"}, at'[o] = at[o],
         at'[t] = CASE at[t] = "over" -> "over_test" [] at[t] = "reset" -> "test"
                    [] at[t] = "over_store" -> "after" [] at[t] = "store" -> "idle",
         s_state' = "ready", packet' = Empty, chunk' = NoChunk,
         moved' = (handling # "none"), UNCHANGED <<taken, procq, handling, done>>
  PROVE  Good'
<1>1. News' = {} /\ done' = taken'
  BY Resetting DEF News, AllHanded
<1>2. handling \in {"none", "packet", "data"}
  BY DEF TypeOK
<1>3. CASE t = "proc"
  <2>1. /\ at["task"] \in {"idle", "test"} /\ at'["task"] = at["task"]
        /\ handling # "none" <=> at["proc"] \in {"over", "over_store"}
    BY <1>3, Resetting DEF Threads
  <2>2. CASE handling = "none"
    <3>1. at'["proc"] \in {"test", "idle"} /\ handling' = "none" /\ ~moved'
      BY <1>3, <2>1, <2>2
    <3>2. ThreadsFit' /\ StateFits' /\ ~Holding'
      BY <2>1, <3>1 DEF ThreadsFit, StateFits, Holding
    <3> QED  BY <1>1, <3>2 DEF Good, NewsFit, UnitsFit
  <2>3. CASE handling # "none"
    <3>1. at'["proc"] \in {"over_test", "after"} /\ handling' # "none" /\ moved'
      BY <1>3, <2>1, <2>3
    <3>2. ThreadsFit' /\ StateFits' /\ ~Holding'
      BY <2>1, <3>1 DEF ThreadsFit, StateFits, Holding
    <3> QED  BY <1>1, <3>2 DEF Good, NewsFit, UnitsFit
  <2> QED  BY <2>2, <2>3
<1>4. CASE t = "task"
  <2>1. /\ at["task"] \in {"reset", "store"} /\ at'["proc"] = at["proc"]
        /\ at["proc"] \notin {"over", "over_store", "handler", "reset", "store"}
    BY <1>4, Resetting DEF Threads
  <2>2. at'["task"] \in {"test", "idle"}
    BY <1>4, <2>1
  <2>3. ThreadsFit'
    BY <2>1, <2>2 DEF Good, ThreadsFit
  <2>4. ~Holding' /\ StateFits'
    BY <2>1, <2>2, <2>3 DEF Holding, StateFits, ThreadsFit
  <2> QED  BY <1>1, <2>3, <2>4 DEF Good, NewsFit, UnitsFit
<1> QED  BY <1>3, <1>4 DEF Threads

LEMMA ClearKeeps ==
  ASSUME IInv, NEW t \in Threads, Clear(t)
  PROVE  IInv'
<1>1. /\ TypeOK /\ at[t] \in {"over", "reset"}
      /\ packet' = Empty /\ chunk' = NoChunk /\ s_state' = "ready"
      /\ Goes(t, IF at[t] = "over" THEN "over_test" ELSE "test")
      /\ moved' = (handling # "none")
      /\ UNCHANGED <<mode, sent, got, taken, inq, procq, read, handling, timeouts,
                     closed, done, skew, cut>>
      /\ (Open' <=> Open)
  BY DEF IInv, Clear, historyVars, Open
<1>2. /\ at' \in [Threads -> Places]
      /\ at'[t] = IF at[t] = "over" THEN "over_test" ELSE "test"
      /\ \A o \in Threads : o # t => at'[o] = at[o]
  BY <1>1, GoesDoes DEF Places
<1>3. packet' \in Packets /\ chunk' \in Chunks
  BY <1>1, SessionAssumption DEF Empty, NoChunk, Packets, Chunks
<1>4. TypeOK'
  BY <1>1, <1>2, <1>3 DEF TypeOK, Places, Packets, Chunks
<1>5. ASSUME Good  PROVE Good'
  <2>1. PICK o \in Threads : o # t
    BY DEF Threads
  <2>2. at'[t] = CASE at[t] = "over" -> "over_test" [] at[t] = "reset" -> "test"
                    [] at[t] = "over_store" -> "after" [] at[t] = "store" -> "idle"
    BY <1>1, <1>2
  <2> QED  BY <1>1, <1>2, <1>5, <2>1, <2>2, ResetGood
<1> QED  BY <1>1, <1>4, <1>5 DEF IInv

LEMMA StoreKeeps ==
  ASSUME IInv, NEW t \in Threads, Store(t)
  PROVE  IInv'
<1>1. /\ TypeOK /\ at[t] \in {"over_store", "store"} /\ s_state' = "ready"
      /\ Goes(t, IF at[t] \in {"over_store", "over_test"} THEN "after" ELSE "idle")
      /\ moved' = (handling # "none")
      /\ cut' \in BOOLEAN /\ (cut => cut')
      /\ UNCHANGED <<mode, sent, got, taken, packet, chunk, inq, procq, read,
                     handling, timeouts, closed, done, skew>>
      /\ (Open' <=> Open)
  BY DEF IInv, Store, Done, dataVars, Open, TypeOK
<1>2. /\ at' \in [Threads -> Places]
      /\ at'[t] = IF at[t] \in {"over_store", "over_test"} THEN "after" ELSE "idle"
      /\ \A o \in Threads : o # t => at'[o] = at[o]
  BY <1>1, GoesDoes DEF Places
<1>3. TypeOK'
  BY <1>1, <1>2 DEF TypeOK, Places
<1>4. ASSUME Good  PROVE Good'
  <2>1. PICK o \in Threads : o # t
    BY DEF Threads
  <2>2. at'[t] = CASE at[t] = "over" -> "over_test" [] at[t] = "reset" -> "test"
                    [] at[t] = "over_store" -> "after" [] at[t] = "store" -> "idle"
    BY <1>1, <1>2
  <2>3. packet' = Empty /\ chunk' = NoChunk
    BY <1>1, <1>4 DEF Good, ThreadsFit, StateFits, Threads
  <2> QED  BY <1>1, <1>2, <1>4, <2>1, <2>2, <2>3, ResetGood
<1> QED  BY <1>1, <1>3, <1>4 DEF IInv

(* A reset whose s_state shows late still has the session.                 *)
LEMMA ClearLateKeeps ==
  ASSUME IInv, NEW t \in Threads, ClearLate(t)
  PROVE  IInv'
<1>1. /\ TypeOK /\ at[t] \in {"over", "reset"}
      /\ packet' = Empty /\ chunk' = NoChunk
      /\ Goes(t, IF at[t] = "over" THEN "over_store" ELSE "store")
      /\ UNCHANGED <<mode, sent, got, taken, s_state, inq, procq, read, handling,
                     moved, timeouts, closed, done, skew, cut>>
      /\ (Open' <=> Open)
  BY DEF IInv, ClearLate, historyVars, Open
<1>2. /\ at' \in [Threads -> Places]
      /\ at'[t] = IF at[t] = "over" THEN "over_store" ELSE "store"
      /\ \A o \in Threads : o # t => at'[o] = at[o]
  BY <1>1, GoesDoes DEF Places
<1>3. packet' \in Packets /\ chunk' \in Chunks /\ packet'.first = 0 /\ done \in Nat
  BY <1>1, SessionAssumption DEF Empty, NoChunk, Packets, Chunks, TypeOK
<1>4. TypeOK'
  BY <1>1, <1>2, <1>3 DEF TypeOK, Places, Packets, Chunks
<1>5. ASSUME Good  PROVE Good'
  <2>1. News = {} /\ AllHanded
    BY <1>1, <1>5, Resetting
  <2>2. News' = {} /\ AllHanded'
    BY <1>1, <1>3, <2>1 DEF News, AllHanded
  <2>3. NewsFit' /\ ThreadsFit' /\ StateFits' /\ UnitsFit'
    <3>1. CASE t = "proc"
      <4>1. /\ s_state \in {"packet", "data"} /\ at'["task"] \in {"idle", "test"}
            /\ handling # "none" <=> at["proc"] \in {"over", "over_store"}
            /\ handling \in {"none", s_state}
        BY <1>1, <1>2, <1>5, <3>1, Resetting DEF Threads
      <4>2. /\ at'["proc"] \in {"over_store", "store"}
            /\ handling # "none" <=> at'["proc"] = "over_store"
        BY <1>1, <1>2, <3>1, <4>1
      <4>3. Holding' /\ ThreadsFit' /\ StateFits'
        BY <1>1, <1>5, <4>1, <4>2 DEF Holding, Good, ThreadsFit, StateFits
      <4> QED  BY <1>1, <2>2, <4>1, <4>3 DEF NewsFit, UnitsFit
    <3>2. CASE t = "task"
      <4>1. at["task"] = "reset" /\ s_state = "tasking" /\ at'["proc"] = at["proc"]
        BY <1>1, <1>2, <1>5, <3>2, Resetting DEF Threads
      <4>2. at'["task"] = "store"
        BY <1>2, <3>2, <4>1
      <4>3. ThreadsFit' /\ StateFits'
        BY <1>1, <1>5, <4>1, <4>2 DEF Good, ThreadsFit, StateFits
      <4> QED  BY <1>1, <2>2, <4>1, <4>3 DEF NewsFit, UnitsFit
    <3> QED  BY <3>1, <3>2 DEF Threads
  <2> QED  BY <2>3 DEF Good
<1> QED  BY <1>1, <1>4, <1>5 DEF IInv

(* The session may have gone on since the reset; the test of the buffer    *)
(* sends one more message to the reader.                                   *)
LEMMA TestBufferKeeps ==
  ASSUME IInv, NEW t \in Threads, TestBuffer(t)
  PROVE  IInv'
<1>1. /\ TypeOK /\ at[t] \in {"over_test", "test"}
      /\ Ask("BUFFER") \/ UNCHANGED inq
      /\ Goes(t, IF at[t] \in {"over_store", "over_test"} THEN "after" ELSE "idle")
      /\ UNCHANGED <<mode, sent, got, taken, packet, chunk, s_state, procq, read,
                     handling, moved, timeouts, closed, done, skew, cut>>
      /\ (Open' <=> Open)
  BY DEF IInv, TestBuffer, Done, dataVars, historyVars, Open
<1>2. /\ at' \in [Threads -> Places]
      /\ at'[t] = IF at[t] \in {"over_store", "over_test"} THEN "after" ELSE "idle"
      /\ \A o \in Threads : o # t => at'[o] = at[o]
  BY <1>1, GoesDoes DEF Places
<1>3. inq' \in Seq({"BUFFER", "CHUNKIO"})
  BY <1>1, AskType DEF TypeOK
<1>4. TypeOK'
  BY <1>1, <1>2, <1>3 DEF TypeOK, Places
<1>5. ASSUME Good  PROVE Good'
  <2>1. /\ ThreadsFit' /\ StateFits' /\ (Holding' <=> Holding)
    <3>1. CASE t = "proc"
      <4>1. /\ at["proc"] = "over_test" /\ moved => at'["proc"] = "after"
            /\ at["proc"] = "test" => at'["proc"] = "idle"
            /\ at'["task"] = at["task"] /\ at["proc"] \in {"over_test", "test"}
            /\ at["proc"] = "over_test" => moved
        BY <1>1, <1>2, <1>5, <3>1 DEF Threads, Good, ThreadsFit
      <4> QED  BY <1>1, <1>5, <4>1 DEF Good, ThreadsFit, StateFits, Holding
    <3>2. CASE t = "task"
      <4>1. /\ at["task"] = "test" /\ at'["task"] = "idle" /\ at'["proc"] = at["proc"]
        BY <1>1, <1>2, <1>5, <3>2 DEF Threads, Good, ThreadsFit
      <4> QED  BY <1>1, <1>5, <4>1 DEF Good, ThreadsFit, StateFits, Holding
    <3> QED  BY <3>1, <3>2 DEF Threads
  <2>2. NewsFit'
    BY <1>1, <1>5, <2>1 DEF Good, NewsFit, News
  <2>3. UnitsFit'
    BY <1>1, <1>5, <2>1 DEF Good, UnitsFit, AllHanded, PacketWaits, ChunkWaits
  <2> QED  BY <2>1, <2>2, <2>3 DEF Good
<1> QED  BY <1>1, <1>4, <1>5 DEF IInv

-----------------------------------------------------------------------------
(* The timer, the peer, and the theorems.                                  *)

LEMMA TimeoutKeeps ==
  ASSUME IInv, Timeout
  PROVE  IInv'
<1>1. /\ TypeOK /\ timeouts < Timeouts /\ timeouts' = timeouts + 1
      /\ procq' = IF Open THEN Append(procq, "TIMEOUT") ELSE procq
      /\ UNCHANGED <<mode, sent, got, taken, packet, chunk, s_state, inq, read, at,
                     handling, moved, closed, done, skew, cut>>
      /\ (Open' <=> Open)
  BY DEF IInv, Timeout, Tell, dataVars, threadVars, historyVars, Open
<1>2. timeouts' \in 0 .. Timeouts /\ procq' \in Seq(NewsTypes)
  BY <1>1, AppendTimeout, SessionAssumption DEF TypeOK, NewsTypes
<1>3. TypeOK'
  BY <1>1, <1>2 DEF TypeOK, NewsTypes
<1>4. ASSUME Good, Open  PROVE Good'
  <2>1. News' = News /\ \A i \in News : procq'[i] = procq[i]
    BY <1>1, <1>4, AppendTimeout
  <2>2. ThreadsFit' /\ StateFits' /\ UnitsFit' /\ (Holding' <=> Holding)
    BY <1>1, <1>4 DEF Good, ThreadsFit, StateFits, UnitsFit, Holding, AllHanded,
                      PacketWaits, ChunkWaits
  <2>3. NewsFit'
    BY <1>1, <1>4, <2>1, <2>2 DEF Good, NewsFit
  <2> QED  BY <2>2, <2>3 DEF Good
<1> QED  BY <1>1, <1>3, <1>4 DEF IInv

(* The peer sends, the connection is shut, or nothing happens.             *)
LEMMA OutsideKeeps ==
  ASSUME IInv, Arrive \/ Close \/ UNCHANGED vars
  PROVE  IInv'
<1>1. /\ TypeOK /\ sent' \in sent .. Total /\ closed' \in {closed, "yes"}
      /\ UNCHANGED <<mode, got, taken, packet, chunk, s_state, inq, procq, read,
                     threadVars, timeouts, done, skew, cut>>
  <2>1. CASE Arrive
    BY <2>1, SessionAssumption DEF IInv, Arrive, TypeOK, dataVars, historyVars
  <2>2. CASE Close \/ UNCHANGED vars
    BY <2>2, SessionAssumption DEF IInv, Close, TypeOK, dataVars, historyVars, vars
  <2> QED  BY <2>1, <2>2
<1>2. Open' => Open
  BY <1>1 DEF Open
<1>3. sent \in 0 .. Total /\ got \in 0 .. sent /\ Total \in Nat
  BY <1>1, SessionAssumption DEF TypeOK
<1>4. sent' \in 0 .. Total /\ got' \in 0 .. sent'
  BY <1>1, <1>3
<1>5. TypeOK'
  BY <1>1, <1>4 DEF TypeOK, threadVars
<1>6. Good => Good'
  BY <1>1, SameGood
<1> QED  BY <1>1, <1>2, <1>5, <1>6 DEF IInv

LEMMA InvInit ==
  ASSUME Init
  PROVE  IInv
<1>1. News = {} /\ ~Holding
  BY DEF Init, News, Holding, Threads
<1>2. TypeOK
  <2>1. Total \in Nat /\ Timeouts \in Nat
    BY SessionAssumption
  <2>2. sent \in 0 .. Total /\ got \in 0 .. sent /\ taken \in 0 .. got
        /\ timeouts \in 0 .. Timeouts /\ done \in 0 .. Total
    BY <2>1 DEF Init
  <2>3. packet \in Packets /\ chunk \in Chunks
    BY <2>1 DEF Init, Empty, NoChunk, Packets, Chunks
  <2>4. at \in [Threads -> Places]
    BY DEF Init, Places
  <2>5. inq \in Seq({"BUFFER", "CHUNKIO"}) /\ procq \in Seq(NewsTypes)
    BY DEF Init
  <2> QED  BY <2>2, <2>3, <2>4, <2>5 DEF Init, TypeOK, Packets, Chunks, Places, NewsTypes
<1>3. ThreadsFit /\ StateFits
  BY DEF Init, ThreadsFit, StateFits, Threads
<1>4. NewsFit
  BY <1>1 DEF Init, NewsFit
<1>5. UnitsFit
  BY DEF Init, UnitsFit
<1> QED  BY <1>2, <1>3, <1>4, <1>5 DEF IInv, Good, Init

LEMMA InvNext ==
  ASSUME IInv, [Next]_vars
  PROVE  IInv'
<1>1. CASE Arrive \/ Close \/ UNCHANGED vars
  BY <1>1, OutsideKeeps
<1>2. CASE Reader
  BY <1>2, ReaderKeeps
<1>3. CASE Procthread
  BY <1>3, HandlePacketKeeps, HandleDataKeeps, HandleTimeoutKeeps, FinishKeeps,
     ReadChunkKeeps, NewTaskKeeps, AfterHandlerKeeps, RecvChunkKeeps
  DEF Procthread
<1>4. CASE Timeout
  BY <1>4, TimeoutKeeps
<1>5. ASSUME NEW t \in Threads, Reset(t)  PROVE IInv'
  BY <1>5, ClearKeeps, ClearLateKeeps, StoreKeeps, TestBufferKeeps DEF Reset
<1> QED  BY <1>1, <1>2, <1>3, <1>4, <1>5 DEF Next

THEOREM Invariance == Spec => []IInv
<1>1. Init => IInv
  BY InvInit
<1>2. IInv /\ [Next]_vars => IInv'
  BY InvNext
<1> QED  BY <1>1, <1>2, PTL DEF Spec

(* Every variable keeps its type: units are taken only after they were     *)
(* read and read only after they arrived, and the queues hold nothing but  *)
(* messages of the connection (conn_read_handler, conn__read__chunk).      *)
THEOREM SessionTypes == Spec => []TypeOK
<1>1. IInv => TypeOK
  BY DEF IInv
<1> QED  BY <1>1, Invariance, PTL

(* The handlers of the application are called with the units of the peer   *)
(* in order, none twice and none left out (conn_packet_handler,            *)
(* conn_data_handler), unless a session was cut.                           *)
THEOREM UnitsInOrder == Spec => []InOrder
<1>1. IInv => InOrder
  BY DEF IInv, InOrder
<1> QED  BY <1>1, Invariance, PTL

(* PACKET or DATA is queued once, and while s_state says so, for as long   *)
(* as nobody runs its handler (conn_packet_reader, conn__read__chunk and   *)
(* SESSION_RESET), unless a session was cut or the connection closed.      *)
THEOREM OneMessageAtATime == Spec => []MessageMatchesState
<1>1. ASSUME IInv, ~cut, Open
      PROVE  /\ \A i, j \in News : i = j
             /\ \A i \in News : s_state = IF procq[i] = "PACKET" THEN "packet" ELSE "data"
             /\ s_state \in {"packet", "data"} =>
                  \/ News # {}
                  \/ at["proc"] \in {"handler", "after", "over", "over_store",
                                     "reset", "store"}
  <2>1. NewsFit
    BY <1>1 DEF IInv, Good
  <2> QED  BY <2>1 DEF NewsFit, Holding
<1>2. IInv => MessageMatchesState
  BY <1>1 DEF MessageMatchesState
<1> QED  BY <1>2, Invariance, PTL
=============================================================================
