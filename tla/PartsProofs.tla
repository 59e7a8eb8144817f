----------------------------- MODULE PartsProofs -----------------------------
(***************************************************************************)
(* Proofs about six of the components of MCParts, each of its own          *)
(* specification: the output of a port, for any number of clients, streams *)
(* and pumps and any size of the queues; the logs, for any queue and any   *)
(* number of rotations; the keys of a session; the news of two servers,    *)
(* for any paths; the links to a peer, for any dialled and accepted paths; *)
(* a command port, for any children and calls.                             *)
(***************************************************************************)
EXTENDS MCParts, FiniteSetTheorems, SequenceTheorems, TLAPS

-----------------------------------------------------------------------------
(* The output of a port *)

(* A queue that takes one more chunk stays within its size, whatever it      *)
(* has to give up for it.                                                    *)
LEMMA PushType ==
  ASSUME NEW q \in Seq(Chunks), Len(q) <= QueueSize, NEW k \in Chunks
  PROVE  Push(q, k) \in Seq(Chunks) /\ Len(Push(q, k)) <= QueueSize
<1>1. CASE Full(q)
  <2>1. q # <<>> /\ Tail(q) \in Seq(Chunks) /\ Len(Tail(q)) = Len(q) - 1
    BY <1>1, PortOutputAssumption DEF Full
  <2> QED
    BY <1>1, <2>1, PortOutputAssumption DEF Push, Full
<1>2. CASE ~Full(q)
  BY <1>2, PortOutputAssumption DEF Push, Full
<1> QED
  BY <1>1, <1>2

LEMMA EvictionsType ==
  ASSUME TypeOK, NEW fed \in BOOLEAN
  PROVE  Evictions(fed) \in Nat
<1> DEFINE full == {c \in seats : Full(queue[c])}
<1>1. IsFiniteSet(Clients)
  BY PortOutputAssumption, FS_Union DEF Clients
<1>2. full \in SUBSET Clients
  BY DEF TypeOK
<1>3. Cardinality(full) \in Nat
  <2> HIDE DEF full
  <2> QED
    BY <1>1, <1>2, FS_Subset, FS_CardinalityType
<1> QED
  BY <1>3 DEF Evictions

LEMMA HeadAndTail ==
  ASSUME NEW q \in Seq(Chunks), q # <<>>
  PROVE  Head(q) \in Chunks /\ Tail(q) \in Seq(Chunks) /\ Len(Tail(q)) = Len(q) - 1
  OBVIOUS

LEMMA OffType ==
  Off \in [pc : Pcs, cancelled : BOOLEAN, seed : Seq(Chunks), slot : Streams \cup {None}]
  BY DEF Off, Pcs

LEMMA InitType == Init => TypeOK
<1> SUFFICES ASSUME Init PROVE TypeOK
  OBVIOUS
<1>1. <<>> \in Seq(Chunks) /\ Len(<<>>) = 0
  OBVIOUS
<1>2. /\ made \in 0..MaxChunks /\ holds \in Nat /\ dropped \in Nat
      /\ ring \in Seq(Chunks) /\ Len(ring) <= RingSize
      /\ shared \in Seq(Chunks) /\ Len(shared) <= QueueSize
      /\ seats \subseteq Clients /\ session \subseteq Streams /\ out \subseteq Chunks
  BY <1>1, PortOutputAssumption DEF Init
<1>3. /\ queue \in [Clients -> Seq(Chunks)]
      /\ \A c \in Clients : Len(queue[c]) <= QueueSize
      /\ joined \in [Clients -> 0..MaxChunks] /\ got \in [Clients -> SUBSET Chunks]
      /\ pump \in [Streams -> 0..MaxTasks]
      /\ since \in [Tasks -> 0..MaxChunks] /\ sent \in [Tasks -> SUBSET Chunks]
  BY <1>1, PortOutputAssumption DEF Init
<1>4. task \in [Tasks -> [pc : Pcs, cancelled : BOOLEAN, seed : Seq(Chunks),
                          slot : Streams \cup {None}]]
  BY OffType DEF Init
<1> QED
  BY <1>2, <1>3, <1>4 DEF TypeOK

(* The records pumps go through.                                             *)
PumpRecords == [pc : Pcs, cancelled : BOOLEAN, seed : Seq(Chunks), slot : Streams \cup {None}]

LEMMA TypeTask == TypeOK => task \in [Tasks -> PumpRecords]
  BY DEF TypeOK, PumpRecords

(* A client that sits down or stands up starts with nothing.                 *)
LEMMA SeatType ==
  ASSUME TypeOK, NEW c \in Clients, SitDown(c) \/ StandUp(c)
  PROVE  /\ seats' \subseteq Clients /\ queue' \in [Clients -> Seq(Chunks)]
         /\ \A d \in Clients : Len(queue'[d]) <= QueueSize
         /\ joined' \in [Clients -> 0..MaxChunks] /\ got' \in [Clients -> SUBSET Chunks]
<1>1. <<>> \in Seq(Chunks) /\ Len(<<>>) = 0 /\ 0 <= QueueSize
  BY PortOutputAssumption
<1>2. seats' \subseteq Clients
  BY DEF TypeOK, SitDown, StandUp
<1>3. queue' = [queue EXCEPT ![c] = <<>>]
  BY DEF SitDown, StandUp
<1>4. queue' \in [Clients -> Seq(Chunks)] /\ \A d \in Clients : Len(queue'[d]) <= QueueSize
  BY <1>1, <1>3 DEF TypeOK
<1>5. joined' \in [Clients -> 0..MaxChunks]
  <2>1. made \in 0..MaxChunks /\ 0 \in 0..MaxChunks
    BY PortOutputAssumption DEF TypeOK
  <2>2. joined' = [joined EXCEPT ![c] = made] \/ joined' = [joined EXCEPT ![c] = 0]
    BY DEF SitDown, StandUp
  <2> QED
    BY <2>1, <2>2 DEF TypeOK
<1>6. got' \in [Clients -> SUBSET Chunks]
  BY DEF TypeOK, SitDown, StandUp
<1> QED
  BY <1>2, <1>4, <1>5, <1>6

LEMMA ProduceType ==
  ASSUME TypeOK, NEW forced \in BOOLEAN, Produce(forced)
  PROVE  TypeOK'
<1> DEFINE k == made + 1
<1>1. k \in Chunks /\ made' = k /\ made' \in 0..MaxChunks
  BY PortOutputAssumption DEF TypeOK, Produce, Chunks
<1>2. ring' \in Seq(Chunks) /\ Len(ring') <= RingSize
  <2> DEFINE r == Append(ring, k)
  <2>1. r \in Seq(Chunks) /\ r # <<>> /\ Len(r) = Len(ring) + 1
    <3>1. ring \in Seq(Chunks) /\ k \in Chunks
      BY <1>1 DEF TypeOK
    <3> HIDE DEF k
    <3> QED
      BY <3>1
  <2>2. Tail(r) \in Seq(Chunks) /\ Len(Tail(r)) = Len(r) - 1
    BY <2>1, HeadAndTail
  <2>3. ring' = IF Len(r) > RingSize THEN Tail(r) ELSE r
    BY DEF Produce
  <2>4. Len(ring) \in Nat /\ Len(ring) <= RingSize
    BY DEF TypeOK
  <2> HIDE DEF r
  <2> QED
    BY <2>1, <2>2, <2>3, <2>4, PortOutputAssumption
<1>3. queue' \in [Clients -> Seq(Chunks)] /\ \A c \in Clients : Len(queue'[c]) <= QueueSize
  <2>1. \A c \in Clients : /\ queue[c] \in Seq(Chunks) /\ Len(queue[c]) <= QueueSize
                           /\ Push(queue[c], k) \in Seq(Chunks)
                           /\ Len(Push(queue[c], k)) <= QueueSize
    BY <1>1, PushType DEF TypeOK
  <2>2. queue' = [c \in Clients |-> IF c \in seats THEN Push(queue[c], k) ELSE queue[c]]
    BY DEF Produce
  <2> HIDE DEF k
  <2> QED
    BY <2>1, <2>2
<1>4. shared' \in Seq(Chunks) /\ Len(shared') <= QueueSize
  <2>1. /\ shared \in Seq(Chunks) /\ Len(shared) <= QueueSize
        /\ Push(shared, k) \in Seq(Chunks) /\ Len(Push(shared, k)) <= QueueSize
    BY <1>1, PushType DEF TypeOK
  <2>2. shared' = IF Feeds(forced) THEN Push(shared, k) ELSE shared
    BY DEF Produce
  <2> HIDE DEF k
  <2> QED
    BY <2>1, <2>2
<1>5. dropped' \in Nat
  <2>1. Feeds(forced) \in BOOLEAN
    BY DEF Feeds
  <2>2. Evictions(Feeds(forced)) \in Nat
    BY <2>1, EvictionsType
  <2> QED
    BY <2>2 DEF Produce, TypeOK
<1>6. UNCHANGED <<seats, holds, joined, got, session, pump, task, since, sent, out>>
  BY DEF Produce, relays
<1> QED
  BY <1>1, <1>2, <1>3, <1>4, <1>5, <1>6 DEF TypeOK

LEMMA ClientType ==
  ASSUME TypeOK, NEW c \in Locals, Attach(c) \/ Detach(c) \/ Forward(c)
  PROVE  TypeOK'
<1>1. c \in Clients
  BY DEF Clients
<1>2. CASE Attach(c) \/ Detach(c)
  <2>1. SitDown(c) \/ StandUp(c)
    BY <1>2 DEF Attach, Detach
  <2>2. UNCHANGED <<made, ring, shared, holds, dropped, session, pump, task, since, sent, out>>
    BY <1>2 DEF Attach, Detach, port, relays
  <2> QED
    BY <1>1, <2>1, <2>2, SeatType DEF TypeOK
<1>3. CASE Forward(c)
  <2>1. queue[c] \in Seq(Chunks) /\ queue[c] # <<>> /\ Len(queue[c]) <= QueueSize
    BY <1>1, <1>3 DEF Forward, TypeOK
  <2>2. /\ Head(queue[c]) \in Chunks /\ Tail(queue[c]) \in Seq(Chunks)
        /\ Len(Tail(queue[c])) <= QueueSize
    BY <2>1, HeadAndTail, PortOutputAssumption
  <2>3. queue' \in [Clients -> Seq(Chunks)] /\ \A d \in Clients : Len(queue'[d]) <= QueueSize
    BY <1>1, <1>3, <2>2 DEF Forward, TypeOK
  <2>4. got' \in [Clients -> SUBSET Chunks]
    BY <1>1, <1>3, <2>2 DEF Forward, TypeOK
  <2>5. UNCHANGED <<made, ring, shared, holds, dropped, seats, joined,
                    session, pump, task, since, sent, out>>
    BY <1>3 DEF Forward, port, relays
  <2> QED
    BY <2>3, <2>4, <2>5 DEF TypeOK
<1> QED
  BY <1>2, <1>3

(* A task taken up or left keeps its record a pump's record.                 *)
LEMMA PumpType ==
  ASSUME TypeOK, NEW t \in Tasks, PumpStep(t)
  PROVE  TypeOK'
<1>1. /\ task \in [Tasks -> PumpRecords] /\ task[t] \in PumpRecords
      /\ task[t].seed \in Seq(Chunks) /\ Off \in PumpRecords
  BY TypeTask, OffType DEF PumpRecords
<1>2. CASE Start(t)
  <2>1. task' = [task EXCEPT ![t].pc = IF ring = <<>> THEN "loop" ELSE "seed",
                             ![t].seed = IF ring = <<>> THEN <<>> ELSE Tail(ring)]
    BY <1>2 DEF Start
  <2>2. ring \in Seq(Chunks)
    BY DEF TypeOK
  <2>3. /\ (IF ring = <<>> THEN <<>> ELSE Tail(ring)) \in Seq(Chunks)
        /\ (IF ring = <<>> THEN {} ELSE {Head(ring)}) \in SUBSET Chunks
    BY <2>2, HeadAndTail
  <2>4. (IF ring = <<>> THEN "loop" ELSE "seed") \in Pcs
    BY DEF Pcs
  <2>5. task' \in [Tasks -> PumpRecords]
    BY <1>1, <2>1, <2>3, <2>4 DEF PumpRecords
  <2>6. since' \in [Tasks -> 0..MaxChunks] /\ sent' \in [Tasks -> SUBSET Chunks]
    BY <1>2, <2>3 DEF Start, TypeOK
  <2>7. holds' \in Nat
    BY <1>2 DEF Start, Hold, TypeOK
  <2>8. UNCHANGED <<made, ring, shared, dropped, seats, queue, joined, got, session, pump, out>>
    BY <1>2 DEF Start, viewers
  <2> QED
    BY <2>5, <2>6, <2>7, <2>8 DEF TypeOK, PumpRecords
<1>3. CASE Seed(t)
  <2>1. Head(task[t].seed) \in Chunks /\ Tail(task[t].seed) \in Seq(Chunks)
    BY <1>1, <1>3, HeadAndTail DEF Seed
  <2>2. task' \in [Tasks -> PumpRecords]
    BY <1>1, <1>3, <2>1 DEF Seed, PumpRecords
  <2>3. sent' \in [Tasks -> SUBSET Chunks]
    BY <1>3, <2>1 DEF Seed, TypeOK
  <2>4. UNCHANGED <<made, ring, shared, holds, dropped, seats, queue, joined, got,
                    session, pump, since, out>>
    BY <1>3 DEF Seed, port, viewers
  <2> QED
    BY <2>2, <2>3, <2>4 DEF TypeOK, PumpRecords
<1>4. CASE Resume(t)
  <2>1. task' \in [Tasks -> PumpRecords]
    BY <1>1, <1>4 DEF Resume, PumpRecords, Pcs
  <2>2. UNCHANGED <<made, ring, shared, holds, dropped, seats, queue, joined, got,
                    session, pump, since, sent, out>>
    BY <1>4 DEF Resume, port, viewers
  <2> QED
    BY <2>1, <2>2 DEF TypeOK, PumpRecords
<1>5. CASE Relay(t)
  <2>1. shared \in Seq(Chunks) /\ shared # <<>> /\ Len(shared) <= QueueSize
    BY <1>5 DEF Relay, TypeOK
  <2>2. /\ Head(shared) \in Chunks /\ Tail(shared) \in Seq(Chunks)
        /\ Len(Tail(shared)) <= QueueSize
    BY <2>1, HeadAndTail, PortOutputAssumption
  <2>3. task' \in [Tasks -> PumpRecords]
    BY <1>1, <1>5 DEF Relay, PumpRecords, Pcs
  <2>4. sent' \in [Tasks -> SUBSET Chunks] /\ out' \subseteq Chunks
    BY <1>5, <2>2 DEF Relay, TypeOK
  <2>5. shared' = Tail(shared)
        /\ UNCHANGED <<made, ring, holds, dropped, seats, queue, joined, got,
                       session, pump, since>>
    BY <1>5 DEF Relay, viewers
  <2> QED
    BY <2>2, <2>3, <2>4, <2>5 DEF TypeOK, PumpRecords
<1>6. CASE Vanish(t) \/ Finish(t)
  <2>1. Gone(t)
    BY <1>6 DEF Vanish, Finish
  <2>2. task' \in [Tasks -> PumpRecords]
    BY <1>1, <2>1 DEF Gone
  <2>3. since' \in [Tasks -> 0..MaxChunks] /\ sent' \in [Tasks -> SUBSET Chunks]
    BY <2>1, PortOutputAssumption DEF Gone, TypeOK
  <2>4. UNCHANGED <<made, ring, dropped, seats, queue, joined, got, out>>
    BY <1>6 DEF Vanish, Finish, port, viewers
  <2>5. session' \subseteq session
    BY <1>6 DEF Vanish, Finish
  <2>6. holds' \in Nat
    BY <1>6 DEF Vanish, Finish, Release, port, TypeOK
  <2>7. pump' \in [Streams -> 0..MaxTasks]
    <3>1. 0 \in 0..MaxTasks /\ pump \in [Streams -> 0..MaxTasks]
      BY PortOutputAssumption DEF TypeOK
    <3>2. pump' = pump \/ pump' = [pump EXCEPT ![task[t].slot] = 0]
      BY <1>6 DEF Vanish, Finish
    <3> QED
      BY <3>1, <3>2
  <2>8. shared' \in Seq(Chunks) /\ Len(shared') <= QueueSize
    <3>1. shared' = shared \/ shared' = <<>>
      BY <1>6 DEF Vanish, Finish, port
    <3>2. shared \in Seq(Chunks) /\ Len(shared) <= QueueSize
      BY DEF TypeOK
    <3>3. <<>> \in Seq(Chunks) /\ Len(<<>>) <= QueueSize
      BY PortOutputAssumption
    <3> QED
      BY <3>1, <3>2, <3>3
  <2> QED
    BY <2>2, <2>3, <2>4, <2>5, <2>6, <2>7, <2>8 DEF TypeOK, PumpRecords
<1> QED
  BY <1>2, <1>3, <1>4, <1>5, <1>6 DEF PumpStep

LEMMA StreamType ==
  ASSUME TypeOK, NEW s \in Streams, Open(s) \/ Close(s)
  PROVE  TypeOK'
<1>1. s \in Clients /\ task \in [Tasks -> PumpRecords] /\ Off \in PumpRecords
  BY TypeTask, OffType DEF Clients, PumpRecords
<1>2. SitDown(s) \/ StandUp(s)
  BY DEF Open, Close
<1>3. task' \in [Tasks -> PumpRecords]
  <2>1. CASE Open(s)
    <3>1. PICK t \in Tasks : NewTask(s, t)
      BY <2>1 DEF Open
    <3>2. [Off EXCEPT !.pc = "new", !.slot = s] \in PumpRecords
      BY <1>1 DEF PumpRecords, Pcs
    <3>3. task' = [task EXCEPT ![t] = [Off EXCEPT !.pc = "new", !.slot = s]]
      BY <3>1 DEF NewTask
    <3> QED
      BY <1>1, <3>2, <3>3
  <2>2. CASE Close(s)
    BY <1>1, <2>2 DEF Close, PumpRecords
  <2> QED
    BY <2>1, <2>2
<1>4. pump' \in [Streams -> 0..MaxTasks]
  <2>1. CASE Open(s)
    <3>1. PICK t \in Tasks : pump' = [pump EXCEPT ![s] = t]
      BY <2>1 DEF Open, NewTask
    <3>2. t \in 0..MaxTasks
      BY PortOutputAssumption DEF Tasks
    <3> QED
      BY <3>1, <3>2 DEF TypeOK
  <2>2. CASE Close(s)
    BY <2>2, PortOutputAssumption DEF Close, TypeOK
  <2> QED
    BY <2>1, <2>2
<1>5. session' \subseteq Streams
  BY DEF Open, Close, TypeOK
<1>6. UNCHANGED <<made, ring, shared, holds, dropped, since, sent, out>>
  BY DEF Open, Close, port
<1> QED
  BY <1>1, <1>2, <1>3, <1>4, <1>5, <1>6, SeatType DEF TypeOK, PumpRecords

LEMMA NextType == TypeOK /\ [Next]_vars => TypeOK'
<1> SUFFICES ASSUME TypeOK, [Next]_vars PROVE TypeOK'
  OBVIOUS
<1>1. CASE UNCHANGED vars
  BY <1>1 DEF TypeOK, vars, port, viewers, relays
<1>2. CASE Next
  BY <1>2, ProduceType, ClientType, StreamType, PumpType DEF Next
<1> QED
  BY <1>1, <1>2

(* Every queue and the scrollback ring stay within their sizes, and records  *)
(* and counters are well formed.                                             *)
THEOREM QueuesStayBounded == Spec => []TypeOK
<1> QED
  BY InitType, NextType, PTL DEF Spec

-----------------------------------------------------------------------------
(* A pump that is not off has a stream of its own.                           *)
SlotInv == \A t \in Tasks : task[t].pc # "off" => task[t].slot \in Streams
PumpInv == TypeOK /\ SlotInv /\ OnePumpPerStream

(* The pumps of a stream that are not on their way out.                      *)
Active(s) == {t \in Tasks : task[t].pc # "off" /\ task[t].slot = s /\ ~task[t].cancelled}

(* A step that moves pumps and leaves streams and registry alone.            *)
LEMMA PumpsKept ==
  ASSUME PumpInv, SlotInv',
         session' = session, pump' = pump,
         \A s \in Streams : Active(s)' = Active(s)
  PROVE  SlotInv' /\ OnePumpPerStream'
<1>1. \A s \in Streams : /\ s \in session <=> pump[s] # 0
                         /\ Active(s) = IF s \in session THEN {pump[s]} ELSE {}
  BY DEF PumpInv, OnePumpPerStream, Active
<1>2. \A s \in Streams : /\ s \in session' <=> pump'[s] # 0
                         /\ Active(s)' = IF s \in session' THEN {pump'[s]} ELSE {}
  BY <1>1
<1> QED
  BY <1>2 DEF OnePumpPerStream, Active

LEMMA PumpInvTask ==
  ASSUME PumpInv, NEW t \in Tasks, PumpStep(t)
  PROVE  SlotInv' /\ OnePumpPerStream'
<1>1. /\ task \in [Tasks -> PumpRecords] /\ Off \in PumpRecords
      /\ task[t].pc # "off" /\ task[t].slot \in Streams
  <2>1. task[t].pc # "off"
    BY DEF PumpStep, Start, Seed, Resume, Relay, Vanish, Finish, Running, Cancelled
  <2> QED
    BY <2>1, TypeTask, OffType DEF PumpInv, SlotInv, PumpRecords
<1>2. CASE Start(t) \/ Seed(t) \/ Resume(t) \/ Relay(t)
  <2>1. /\ task'[t].pc # "off" /\ task'[t].slot = task[t].slot
        /\ task'[t].cancelled = task[t].cancelled
        /\ \A u \in Tasks : u # t => task'[u] = task[u]
    BY <1>1, <1>2 DEF Start, Seed, Resume, Relay, PumpRecords
  <2>2. session' = session /\ pump' = pump
    BY <1>2 DEF Start, Seed, Resume, Relay
  <2>3. SlotInv'
    BY <1>1, <2>1 DEF PumpInv, SlotInv
  <2>4. \A s \in Streams : Active(s)' = Active(s)
    BY <1>1, <2>1 DEF Active
  <2> QED
    BY <2>2, <2>3, <2>4, PumpsKept
<1>3. CASE Vanish(t) \/ Finish(t)
  <2>1. task[t].cancelled /\ task' = [task EXCEPT ![t] = Off]
    BY <1>3 DEF Vanish, Finish, Cancelled, Gone
  <2>2. ~Owns(t)
    <3>1. \A s \in Streams : t \notin Active(s)
      BY <2>1 DEF Active
    <3>2. \A s \in Streams : pump[s] # 0 => pump[s] \in Active(s)
      BY DEF PumpInv, OnePumpPerStream, Active
    <3>3. t # 0
      BY PortOutputAssumption DEF Tasks
    <3> QED
      BY <1>1, <3>1, <3>2, <3>3 DEF Owns
  <2>3. session' = session /\ pump' = pump
    BY <1>3, <2>2 DEF Vanish, Finish
  <2>4. /\ task'[t].pc = "off"
        /\ \A u \in Tasks : u # t => task'[u] = task[u]
    BY <1>1, <2>1 DEF Off
  <2>5. SlotInv'
    BY <2>4 DEF PumpInv, SlotInv
  <2>6. \A s \in Streams : Active(s)' = Active(s)
    BY <2>1, <2>4 DEF Active
  <2> QED
    BY <2>3, <2>5, <2>6, PumpsKept
<1> QED
  BY <1>2, <1>3 DEF PumpStep

LEMMA PumpInvStream ==
  ASSUME PumpInv, NEW s \in Streams, Open(s) \/ Close(s)
  PROVE  SlotInv' /\ OnePumpPerStream'
<1>1. task \in [Tasks -> PumpRecords] /\ Off \in PumpRecords
  BY TypeTask, OffType DEF PumpInv, PumpRecords
<1>2. pump \in [Streams -> 0..MaxTasks] /\ session \subseteq Streams
  BY DEF PumpInv, TypeOK
<1>3. \A r \in Streams : /\ r \in session <=> pump[r] # 0
                         /\ Active(r) = IF r \in session THEN {pump[r]} ELSE {}
  BY DEF PumpInv, OnePumpPerStream, Active
<1>4. CASE Open(s)
  <2>1. PICK t \in Tasks : NewTask(s, t)
    BY <1>4 DEF Open
  <2>2. s \notin session /\ session' = session \cup {s}
    BY <1>4 DEF Open
  <2>3. /\ task[t].pc = "off" /\ pump' = [pump EXCEPT ![s] = t]
        /\ task' = [task EXCEPT ![t] = [Off EXCEPT !.pc = "new", !.slot = s]]
    BY <2>1 DEF NewTask
  <2>4. /\ task'[t].pc = "new" /\ task'[t].slot = s /\ task'[t].cancelled = FALSE
        /\ \A u \in Tasks : u # t => task'[u] = task[u]
    BY <1>1, <2>3 DEF Off
  <2>5. SlotInv'
    BY <2>4 DEF PumpInv, SlotInv
  <2>6. t # 0
    BY PortOutputAssumption DEF Tasks
  <2>7. Active(s)' = {t}
    BY <1>3, <2>2, <2>4 DEF Active
  <2>8. \A r \in Streams : r # s => Active(r)' = Active(r)
    BY <2>3, <2>4 DEF Active
  <2>9. pump'[s] = t /\ \A r \in Streams : r # s => pump'[r] = pump[r]
    BY <1>2, <2>3
  <2>10. \A r \in Streams : /\ r \in session' <=> pump'[r] # 0
                            /\ Active(r)' = IF r \in session' THEN {pump'[r]} ELSE {}
    BY <1>3, <2>2, <2>6, <2>7, <2>8, <2>9
  <2> QED
    BY <2>5, <2>10 DEF OnePumpPerStream, Active
<1>5. CASE Close(s)
  <2> DEFINE t == pump[s]
  <2>1. /\ s \in session /\ session' = session \ {s} /\ pump' = [pump EXCEPT ![s] = 0]
        /\ task' = [task EXCEPT ![t].cancelled = TRUE]
    BY <1>5 DEF Close
  <2>2. t \in Active(s) /\ t \in Tasks /\ task[t].slot = s
    BY <1>3, <2>1 DEF Active
  <2>3. /\ task'[t].pc = task[t].pc /\ task'[t].slot = task[t].slot /\ task'[t].cancelled = TRUE
        /\ \A u \in Tasks : u # t => task'[u] = task[u]
    BY <1>1, <2>1, <2>2 DEF PumpRecords
  <2>4. SlotInv'
    BY <2>2, <2>3 DEF PumpInv, SlotInv
  <2>5. Active(s)' = {}
    <3>1. \A u \in Tasks : u # t => u \notin Active(s)
      BY <1>3, <2>1
    <3> QED
      BY <2>3, <3>1 DEF Active
  <2>6. \A r \in Streams : r # s => Active(r)' = Active(r)
    BY <2>2, <2>3 DEF Active
  <2>7. pump'[s] = 0 /\ \A r \in Streams : r # s => pump'[r] = pump[r]
    BY <1>2, <2>1
  <2>8. \A r \in Streams : /\ r \in session' <=> pump'[r] # 0
                           /\ Active(r)' = IF r \in session' THEN {pump'[r]} ELSE {}
    BY <1>3, <2>1, <2>5, <2>6, <2>7
  <2> QED
    BY <2>4, <2>8 DEF OnePumpPerStream, Active
<1> QED
  BY <1>4, <1>5

LEMMA PumpInvNext == PumpInv /\ [Next]_vars => PumpInv'
<1> SUFFICES ASSUME PumpInv, [Next]_vars PROVE PumpInv'
  OBVIOUS
<1>1. TypeOK'
  BY NextType DEF PumpInv
<1>2. CASE UNCHANGED relays
  BY <1>1, <1>2 DEF PumpInv, SlotInv, OnePumpPerStream, relays
<1>3. CASE \E s \in Streams : Open(s) \/ Close(s)
  BY <1>1, <1>3, PumpInvStream DEF PumpInv
<1>4. CASE \E t \in Tasks : PumpStep(t)
  BY <1>1, <1>4, PumpInvTask DEF PumpInv
<1>5. UNCHANGED relays \/ (\E s \in Streams : Open(s) \/ Close(s)) \/ \E t \in Tasks : PumpStep(t)
  BY DEF Next, vars, Produce, Attach, Detach, Forward
<1> QED
  BY <1>2, <1>3, <1>4, <1>5

LEMMA PumpInvInit == Init => PumpInv
<1> SUFFICES ASSUME Init PROVE PumpInv
  OBVIOUS
<1>1. \A t \in Tasks : task[t].pc = "off"
  BY DEF Init, Off
<1>2. SlotInv
  BY <1>1 DEF SlotInv
<1>3. OnePumpPerStream
  BY <1>1 DEF Init, OnePumpPerStream
<1> QED
  BY <1>2, <1>3, InitType DEF PumpInv

(* A stream that is open has exactly one pump, the registered one, however   *)
(* CLOSE, OPEN and the cleanup of cancelled pumps interleave (issue #54).     *)
THEOREM StreamsKeepOnePump == Spec => []OnePumpPerStream
<1>1. PumpInv => OnePumpPerStream
  BY DEF PumpInv
<1> QED
  BY <1>1, PumpInvInit, PumpInvNext, PTL DEF Spec

-----------------------------------------------------------------------------
LEMMA HoldingFinite == IsFiniteSet(Holding) /\ Cardinality(Holding) \in Nat
<1>1. IsFiniteSet(Tasks)
  BY PortOutputAssumption, FS_Interval DEF Tasks
<1>2. Holding \subseteq Tasks
  BY DEF Holding
<1>3. IsFiniteSet(Holding)
  BY <1>1, <1>2, FS_Subset
<1> QED
  BY <1>3, FS_CardinalityType

LEMMA HoldsNext == TypeOK /\ HoldsCoverPumps /\ [Next]_vars => HoldsCoverPumps'
<1> SUFFICES ASSUME TypeOK, HoldsCoverPumps, [Next]_vars PROVE HoldsCoverPumps'
  OBVIOUS
<1>1. /\ IsFiniteSet(Holding) /\ Cardinality(Holding) \in Nat
      /\ holds \in Nat /\ Cardinality(Holding) <= holds
  BY HoldingFinite DEF TypeOK, HoldsCoverPumps
<1>2. task \in [Tasks -> PumpRecords]
  BY TypeTask
<1>3. CASE Holding' = Holding /\ holds' = holds
  BY <1>1, <1>3 DEF HoldsCoverPumps
<1>4. CASE UNCHANGED vars \/ (\E f \in BOOLEAN : Produce(f))
           \/ \E c \in Locals : Attach(c) \/ Detach(c) \/ Forward(c)
  <2>1. holds' = holds /\ task' = task
    BY <1>4 DEF vars, port, relays, Produce, Attach, Detach, Forward
  <2>2. Holding' = Holding
    BY <2>1 DEF Holding, Live
  <2> QED
    BY <1>3, <2>1, <2>2
<1>5. ASSUME NEW s \in Streams, Open(s) \/ Close(s) PROVE HoldsCoverPumps'
  <2>1. holds' = holds
    BY <1>5 DEF Open, Close, port
  <2>2. CASE Open(s)
    <3>1. PICK t \in Tasks : NewTask(s, t)
      BY <2>2 DEF Open
    <3>2. /\ task[t].pc = "off" /\ task'[t].pc = "new"
          /\ \A u \in Tasks : u # t => task'[u] = task[u]
      BY <1>2, <3>1 DEF NewTask, Off
    <3>3. Holding' = Holding
      BY <3>2 DEF Holding, Live
    <3> QED
      BY <1>3, <2>1, <3>3
  <2>3. CASE Close(s)
    <3>1. \A u \in Tasks : task'[u].pc = task[u].pc
      BY <1>2, <2>3 DEF Close, PumpRecords
    <3>2. Holding' = Holding
      BY <3>1 DEF Holding, Live
    <3> QED
      BY <1>3, <2>1, <3>2
  <2> QED
    BY <1>5, <2>2, <2>3
<1>6. ASSUME NEW t \in Tasks, PumpStep(t) PROVE HoldsCoverPumps'
  <2>1. \A u \in Tasks : u # t => task'[u] = task[u]
    BY <1>2, <1>6 DEF PumpStep, Start, Seed, Resume, Relay, Vanish, Finish, Gone
  <2>2. CASE Start(t)
    <3>1. task[t].pc = "new" /\ task'[t].pc \in {"loop", "seed"} /\ holds' = holds + 1
      BY <1>2, <2>2 DEF Start, Running, Hold, PumpRecords
    <3>2. t \notin Holding /\ Holding' = Holding \cup {t}
      BY <2>1, <3>1 DEF Holding, Live
    <3>3. Cardinality(Holding \cup {t}) = Cardinality(Holding) + 1
      BY <1>1, <3>2, FS_AddElement
    <3> QED
      BY <1>1, <3>1, <3>2, <3>3 DEF HoldsCoverPumps
  <2>3. CASE Seed(t) \/ Resume(t) \/ Relay(t)
    <3>1. task[t].pc \in {"seed", "loop", "send"} /\ task'[t].pc \in {"seed", "loop", "send"}
      BY <1>2, <2>3 DEF Seed, Resume, Relay, Running, PumpRecords
    <3>2. Holding' = Holding
      BY <2>1, <3>1 DEF Holding, Live
    <3>3. holds' = holds
      BY <2>3 DEF Seed, Resume, Relay, port
    <3> QED
      BY <1>3, <3>2, <3>3
  <2>4. CASE Vanish(t) \/ Finish(t)
    <3>1. task'[t].pc = "off"
      BY <1>2, <2>4 DEF Vanish, Finish, Gone, Off
    <3>2. Holding' = Holding \ {t}
      BY <2>1, <3>1 DEF Holding, Live
    <3>3. /\ Cardinality(Holding \ {t}) \in Nat
          /\ Cardinality(Holding \ {t}) = IF t \in Holding THEN Cardinality(Holding) - 1
                                          ELSE Cardinality(Holding)
      BY <1>1, FS_RemoveElement, FS_CardinalityType
    <3>4. CASE Vanish(t)
      <4>1. holds' = holds
        BY <3>4 DEF Vanish, port
      <4> QED
        BY <1>1, <3>2, <3>3, <4>1 DEF HoldsCoverPumps
    <3>5. CASE Finish(t)
      <4>1. t \in Holding
        BY <3>5 DEF Finish, Cancelled, Holding, Live
      <4>2. holds' = IF holds = 0 THEN 0 ELSE holds - 1
        BY <3>5 DEF Finish, Release
      <4> QED
        BY <1>1, <3>2, <3>3, <4>1, <4>2 DEF HoldsCoverPumps
    <3> QED
      BY <2>4, <3>4, <3>5
  <2> QED
    BY <1>6, <2>2, <2>3, <2>4 DEF PumpStep
<1> QED
  BY <1>4, <1>5, <1>6 DEF Next

(* Every pump that has taken its hold keeps it covered: a pump that ends     *)
(* releases no hold but one of its own (issue #83).                          *)
THEOREM HoldsAreCounted == Spec => []HoldsCoverPumps
<1>1. Init => HoldsCoverPumps
  <2> SUFFICES ASSUME Init PROVE HoldsCoverPumps
    OBVIOUS
  <2>1. Holding = {} /\ holds = 0
    BY DEF Init, Off, Holding, Live
  <2> QED
    BY <2>1, FS_EmptySet DEF HoldsCoverPumps
<1>2. TypeOK /\ HoldsCoverPumps /\ [Next]_vars => (TypeOK /\ HoldsCoverPumps)'
  BY NextType, HoldsNext
<1> QED
  BY <1>1, <1>2, InitType, PTL DEF Spec

-----------------------------------------------------------------------------
LEMMA PushKeeps ==
  ASSUME NEW q \in Seq(Chunks), Len(q) <= QueueSize, NEW k \in Chunks
  PROVE  k \in ToSet(Push(q, k))
<1>1. PICK r \in Seq(Chunks) : Push(q, k) = Append(r, k)
  <2>1. Full(q) => Tail(q) \in Seq(Chunks)
    <3> SUFFICES ASSUME Full(q) PROVE Tail(q) \in Seq(Chunks)
      OBVIOUS
    <3>1. q # <<>>
      BY PortOutputAssumption DEF Full
    <3> QED
      BY <3>1, HeadAndTail
  <2> QED
    BY <2>1 DEF Push
<1>2. Len(r) + 1 \in DOMAIN Append(r, k) /\ Append(r, k)[Len(r) + 1] = k
  OBVIOUS
<1> QED
  BY <1>1, <1>2 DEF ToSet

LEMMA HeadOrTail ==
  ASSUME NEW q \in Seq(Chunks), q # <<>>, NEW k \in ToSet(q), k # Head(q)
  PROVE  k \in ToSet(Tail(q))
<1>1. PICK i \in 1..Len(q) : q[i] = k
  BY DEF ToSet
<1>2. i # 1
  BY <1>1
<1> DEFINE t == Tail(q)
<1>3. t \in Seq(Chunks) /\ i - 1 \in 1..Len(t) /\ t[i - 1] = k
  BY <1>1, <1>2
<1>4. i - 1 \in DOMAIN t
  BY <1>3
<1> HIDE DEF t
<1>5. k \in ToSet(t)
  BY <1>3, <1>4 DEF ToSet
<1> QED
  BY <1>5 DEF t

LEMMA NewestNext == TypeOK /\ NewestKept /\ [Next]_vars => NewestKept'
<1> SUFFICES ASSUME TypeOK, NewestKept, [Next]_vars,
                    NEW c \in seats', made' > joined'[c]
             PROVE  made' \in got'[c] \cup ToSet(queue'[c])
  BY DEF NewestKept
<1>1. /\ queue \in [Clients -> Seq(Chunks)] /\ got \in [Clients -> SUBSET Chunks]
      /\ joined \in [Clients -> 0..MaxChunks] /\ made \in 0..MaxChunks /\ seats \subseteq Clients
      /\ c \in Clients
  BY NextType DEF TypeOK
<1>2. CASE UNCHANGED <<made, viewers>>
  BY <1>2 DEF NewestKept, viewers
<1>3. CASE \E f \in BOOLEAN : Produce(f)
  <2>1. /\ made' = made + 1 /\ made < MaxChunks /\ seats' = seats
        /\ queue' = [d \in Clients |-> IF d \in seats THEN Push(queue[d], made + 1) ELSE queue[d]]
    BY <1>3 DEF Produce
  <2>2. made + 1 \in Chunks
    BY <1>1, <2>1, PortOutputAssumption DEF Chunks
  <2>3. queue'[c] = Push(queue[c], made + 1)
    BY <1>1, <2>1
  <2>4. queue[c] \in Seq(Chunks) /\ Len(queue[c]) <= QueueSize
    BY <1>1 DEF TypeOK
  <2> QED
    BY <2>1, <2>2, <2>3, <2>4, PushKeeps
<1>4. CASE \E d \in Clients : (SitDown(d) \/ StandUp(d)) /\ made' = made
  <2>1. PICK d \in Clients : (SitDown(d) \/ StandUp(d)) /\ made' = made
    BY <1>4
  <2>2. CASE c = d
    <3>1. SitDown(c)
      BY <2>1, <2>2 DEF StandUp
    <3>2. joined'[c] = made
      BY <1>1, <3>1 DEF SitDown
    <3> QED
      BY <1>1, <2>1, <3>2
  <2>3. CASE c # d
    <3>1. /\ c \in seats /\ queue'[c] = queue[c] /\ joined'[c] = joined[c] /\ got'[c] = got[c]
      BY <1>1, <2>1, <2>3 DEF SitDown, StandUp
    <3> QED
      BY <2>1, <3>1 DEF NewestKept
  <2> QED
    BY <2>2, <2>3
<1>5. CASE \E d \in Locals : Forward(d)
  <2>1. PICK d \in Locals : Forward(d)
    BY <1>5
  <2>2. seats' = seats /\ joined' = joined /\ made' = made /\ d \in Clients
    BY <2>1 DEF Forward, port, Clients
  <2>3. made \in got[c] \cup ToSet(queue[c])
    BY <2>2 DEF NewestKept
  <2>4. CASE c # d
    BY <1>1, <2>1, <2>2, <2>3, <2>4 DEF Forward
  <2>5. CASE c = d
    <3>1. /\ queue[c] # <<>> /\ queue[c] \in Seq(Chunks)
          /\ got'[c] = got[c] \cup {Head(queue[c])} /\ queue'[c] = Tail(queue[c])
      BY <1>1, <2>1, <2>5 DEF Forward
    <3> QED
      BY <2>2, <2>3, <3>1, HeadOrTail
  <2> QED
    BY <2>4, <2>5
<1>6. CASE \E s \in Streams : Open(s) \/ Close(s)
  BY <1>4, <1>6 DEF Open, Close, port, Clients
<1>7. CASE \E d \in Locals : Attach(d) \/ Detach(d)
  BY <1>4, <1>7 DEF Attach, Detach, port, Clients
<1>8. CASE \E t \in Tasks : PumpStep(t)
  <2>1. UNCHANGED <<made, viewers>>
    BY <1>8 DEF PumpStep, Start, Seed, Resume, Relay, Vanish, Finish, port, viewers
  <2> QED
    BY <1>2, <2>1
<1>9. CASE UNCHANGED vars
  BY <1>2, <1>9 DEF vars, port
<1> QED
  BY <1>3, <1>5, <1>6, <1>7, <1>8, <1>9 DEF Next

(* An attached client, however slow, has the newest output in its queue or   *)
(* has already read it (put_bounded_nowait evicts the oldest chunk).         *)
THEOREM NewestOutputKept == Spec => []NewestKept
<1>1. Init => NewestKept
  BY DEF Init, NewestKept
<1>2. TypeOK /\ NewestKept /\ [Next]_vars => (TypeOK /\ NewestKept)'
  BY NextType, NewestNext
<1> QED
  BY <1>1, <1>2, InitType, PTL DEF Spec

-----------------------------------------------------------------------------
(* What a queue holds after a chunk more, and after a chunk less.            *)
LEMMA TailHolds ==
  ASSUME NEW q \in Seq(Chunks), q # <<>>
  PROVE  ToSet(q) = {Head(q)} \cup ToSet(Tail(q))
<1>1. Head(q) \in ToSet(q)
  BY DEF ToSet
<1>2. ASSUME NEW k \in ToSet(Tail(q)) PROVE k \in ToSet(q)
  <2> DEFINE t == Tail(q)
  <2>1. t \in Seq(Chunks) /\ Len(t) = Len(q) - 1 /\ \A i \in 1..Len(t) : t[i] = q[i + 1]
    OBVIOUS
  <2> HIDE DEF t
  <2>2. PICK i \in 1..Len(t) : t[i] = k
    BY <1>2, <2>1 DEF ToSet, t
  <2>3. i + 1 \in DOMAIN q /\ q[i + 1] = k
    BY <2>1, <2>2
  <2> QED
    BY <2>3 DEF ToSet
<1> QED
  BY <1>1, <1>2, HeadOrTail

LEMMA AppendHolds ==
  ASSUME NEW q \in Seq(Chunks), NEW k \in Chunks
  PROVE  ToSet(Append(q, k)) = ToSet(q) \cup {k}
<1> DEFINE r == Append(q, k)
<1>1. /\ r \in Seq(Chunks) /\ Len(r) = Len(q) + 1 /\ r[Len(q) + 1] = k
      /\ \A i \in 1..Len(q) : r[i] = q[i]
  OBVIOUS
<1> HIDE DEF r
<1>2. ToSet(r) = {r[i] : i \in 1..Len(r)} /\ ToSet(q) = {q[i] : i \in 1..Len(q)}
  BY <1>1 DEF ToSet
<1>3. ASSUME NEW x \in ToSet(r) PROVE x \in ToSet(q) \cup {k}
  <2>1. PICK i \in 1..Len(r) : r[i] = x
    BY <1>2, <1>3
  <2>2. CASE i \in 1..Len(q)
    BY <1>1, <1>2, <2>1, <2>2
  <2>3. CASE i = Len(q) + 1
    BY <1>1, <2>1, <2>3
  <2> QED
    BY <1>1, <2>1, <2>2, <2>3
<1>4. ASSUME NEW x \in ToSet(q) PROVE x \in ToSet(r)
  <2>1. PICK i \in 1..Len(q) : q[i] = x
    BY <1>2, <1>4
  <2>2. i \in 1..Len(r) /\ r[i] = x
    BY <1>1, <2>1
  <2> QED
    BY <1>2, <2>2
<1>5. k \in ToSet(r)
  BY <1>1, <1>2
<1>6. ToSet(r) = ToSet(q) \cup {k}
  BY <1>3, <1>4, <1>5
<1> QED
  BY <1>6 DEF r

LEMMA PushHolds ==
  ASSUME NEW q \in Seq(Chunks), Len(q) <= QueueSize, NEW k \in Chunks
  PROVE  /\ ToSet(Push(q, k)) \subseteq ToSet(q) \cup {k}
         /\ k \in ToSet(Push(q, k))
         /\ ~Full(q) => ToSet(q) \subseteq ToSet(Push(q, k))
         /\ Full(q) => ToSet(q) \ {Head(q)} \subseteq ToSet(Push(q, k))
<1>1. CASE ~Full(q)
  BY <1>1, AppendHolds DEF Push
<1>2. CASE Full(q)
  <2>1. q # <<>>
    BY <1>2, PortOutputAssumption DEF Full
  <2>2. Tail(q) \in Seq(Chunks)
    BY <2>1, HeadAndTail
  <2>3. ToSet(Push(q, k)) = ToSet(Tail(q)) \cup {k}
    BY <1>2, <2>2, AppendHolds DEF Push
  <2>4. ToSet(q) = {Head(q)} \cup ToSet(Tail(q))
    BY <2>1, TailHolds
  <2> QED
    BY <1>2, <2>3, <2>4
<1> QED
  BY <1>1, <1>2

LEMMA TailIncreases ==
  ASSUME NEW q \in Seq(Chunks), q # <<>>, Increasing(q)
  PROVE  Increasing(Tail(q)) /\ \A m \in ToSet(Tail(q)) : Head(q) < m
<1> DEFINE t == Tail(q)
<1>1. /\ t \in Seq(Chunks) /\ Len(t) = Len(q) - 1 /\ Len(q) \in Nat /\ Len(q) >= 1
      /\ \A i \in 1..Len(t) : t[i] = q[i + 1] /\ i + 1 \in 1..Len(q)
      /\ Head(q) = q[1] /\ DOMAIN q = 1..Len(q) /\ DOMAIN t = 1..Len(t)
  OBVIOUS
<1> HIDE DEF t
<1>2. Increasing(t)
  <2> SUFFICES ASSUME NEW i \in 1..Len(t), NEW j \in 1..Len(t), i < j
               PROVE  t[i] < t[j]
    BY <1>1 DEF Increasing
  <2>1. i + 1 \in 1..Len(q) /\ j + 1 \in 1..Len(q) /\ i + 1 < j + 1
    BY <1>1
  <2>2. q[i + 1] < q[j + 1]
    BY <1>1, <2>1 DEF Increasing
  <2> QED
    BY <1>1, <2>2
<1>3. ASSUME NEW m \in ToSet(t) PROVE Head(q) < m
  <2>1. PICK i \in 1..Len(t) : t[i] = m
    BY <1>1, <1>3 DEF ToSet
  <2>2. 1 \in 1..Len(q) /\ i + 1 \in 1..Len(q) /\ 1 < i + 1
    BY <1>1
  <2>3. q[1] < q[i + 1]
    BY <1>1, <2>2 DEF Increasing
  <2> QED
    BY <1>1, <2>1, <2>3
<1> QED
  BY <1>2, <1>3 DEF t

LEMMA AppendIncreases ==
  ASSUME NEW q \in Seq(Chunks), NEW k \in Chunks, Increasing(q),
         \A m \in ToSet(q) : m < k
  PROVE  Increasing(Append(q, k))
<1> DEFINE r == Append(q, k)
<1>1. /\ r \in Seq(Chunks) /\ Len(r) = Len(q) + 1 /\ r[Len(q) + 1] = k /\ Len(q) \in Nat
      /\ \A i \in 1..Len(q) : r[i] = q[i]
      /\ DOMAIN q = 1..Len(q) /\ DOMAIN r = 1..Len(r)
  OBVIOUS
<1> HIDE DEF r
<1>2. ASSUME NEW i \in 1..Len(r), NEW j \in 1..Len(r), i < j PROVE r[i] < r[j]
  <2>1. i \in 1..Len(q)
    BY <1>1, <1>2
  <2>2. CASE j \in 1..Len(q)
    BY <1>1, <1>2, <2>1, <2>2 DEF Increasing
  <2>3. CASE j = Len(q) + 1
    <3>1. q[i] \in ToSet(q)
      BY <1>1, <2>1 DEF ToSet
    <3> QED
      BY <1>1, <2>1, <2>3, <3>1
  <2> QED
    BY <1>1, <2>2, <2>3
<1>3. Increasing(r)
  BY <1>1, <1>2 DEF Increasing
<1> QED
  BY <1>3 DEF r

LEMMA PushIncreases ==
  ASSUME NEW q \in Seq(Chunks), Len(q) <= QueueSize, NEW k \in Chunks, Increasing(q),
         \A m \in ToSet(q) : m < k
  PROVE  Increasing(Push(q, k))
<1>1. CASE ~Full(q)
  BY <1>1, AppendIncreases DEF Push
<1>2. CASE Full(q)
  <2>1. q # <<>>
    BY <1>2, PortOutputAssumption DEF Full
  <2>2. Tail(q) \in Seq(Chunks) /\ Increasing(Tail(q)) /\ \A m \in ToSet(Tail(q)) : m < k
    BY <2>1, HeadAndTail, TailIncreases, TailHolds
  <2> QED
    BY <1>2, <2>2, AppendIncreases DEF Push
<1> QED
  BY <1>1, <1>2

-----------------------------------------------------------------------------
(* A chunk more loses at most the one that is evicted for it.                *)
LEMMA PushLoses ==
  ASSUME NEW q \in Seq(Chunks), Len(q) <= QueueSize, NEW lo \in Nat, NEW G,
         NEW top \in Nat, top + 1 \in Chunks, NEW d \in Nat, NEW e \in Nat,
         Cardinality((lo + 1 .. top) \ (G \cup ToSet(q))) <= d,
         Full(q) => e >= 1
  PROVE  Cardinality((lo + 1 .. top + 1) \ (G \cup ToSet(Push(q, top + 1)))) <= d + e
<1> DEFINE A == (lo + 1 .. top) \ (G \cup ToSet(q))
           B == (lo + 1 .. top + 1) \ (G \cup ToSet(Push(q, top + 1)))
<1>1. IsFiniteSet(A) /\ Cardinality(A) \in Nat
  <2>1. IsFiniteSet(lo + 1 .. top)
    BY FS_Interval
  <2>2. A \subseteq lo + 1 .. top
    OBVIOUS
  <2> HIDE DEF A
  <2> QED
    BY <2>1, <2>2, FS_Subset, FS_CardinalityType
<1>2. ASSUME NEW x \in B PROVE x \in lo + 1 .. top /\ x \notin G
  BY <1>2, PushHolds
<1>3. CASE ~Full(q)
  <2>1. B \subseteq A
    BY <1>2, <1>3, PushHolds
  <2>2. Cardinality(A) <= d
    OBVIOUS
  <2> HIDE DEF A, B
  <2>3. Cardinality(B) <= Cardinality(A) /\ Cardinality(B) \in Nat
    BY <1>1, <2>1, FS_Subset, FS_CardinalityType
  <2>4. Cardinality(B) <= d + e
    BY <1>1, <2>2, <2>3
  <2> QED
    BY <2>4 DEF B
<1>4. CASE Full(q)
  <2>1. B \subseteq A \cup {Head(q)}
    BY <1>2, <1>4, PushHolds
  <2>2. Cardinality(A) <= d
    OBVIOUS
  <2> HIDE DEF A, B
  <2>3. /\ IsFiniteSet(A \cup {Head(q)})
        /\ Cardinality(A \cup {Head(q)}) \in Nat
        /\ Cardinality(A \cup {Head(q)}) <= Cardinality(A) + 1
    <3>1. /\ IsFiniteSet(A \cup {Head(q)})
          /\ \/ Cardinality(A \cup {Head(q)}) = Cardinality(A)
             \/ Cardinality(A \cup {Head(q)}) = Cardinality(A) + 1
      BY <1>1, FS_AddElement, Zenon
    <3> QED
      BY <1>1, <3>1
  <2>4. Cardinality(B) <= Cardinality(A \cup {Head(q)}) /\ Cardinality(B) \in Nat
    BY <2>1, <2>3, FS_Subset, FS_CardinalityType
  <2>5. Cardinality(B) <= d + e
    BY <1>1, <1>4, <2>2, <2>3, <2>4
  <2> QED
    BY <2>5 DEF B
<1> QED
  BY <1>3, <1>4

(* Every queue that is full counts one.                                      *)
LEMMA FullCounts ==
  ASSUME TypeOK, NEW fed \in BOOLEAN
  PROVE  /\ Evictions(fed) \in Nat
         /\ \A c \in seats : Full(queue[c]) => Evictions(fed) >= 1
         /\ fed /\ Full(shared) => Evictions(fed) >= 1
<1> DEFINE full == {c \in seats : Full(queue[c])}
<1>1. IsFiniteSet(full) /\ Cardinality(full) \in Nat
  <2>1. IsFiniteSet(Clients)
    BY PortOutputAssumption, FS_Union DEF Clients
  <2>2. full \subseteq Clients
    BY DEF TypeOK
  <2> HIDE DEF full
  <2> QED
    BY <2>1, <2>2, FS_Subset, FS_CardinalityType
<1>2. Evictions(fed) = Cardinality(full) + (IF fed /\ Full(shared) THEN 1 ELSE 0)
  BY DEF Evictions
<1>3. ASSUME NEW c \in seats, Full(queue[c]) PROVE Cardinality(full) >= 1
  <2>1. c \in full
    BY <1>3
  <2> HIDE DEF full
  <2>2. Cardinality(full) # 0
    BY <1>1, <2>1, FS_EmptySet
  <2> QED
    BY <1>1, <2>2
<1> HIDE DEF full
<1> QED
  BY <1>1, <1>2, <1>3

Seen == \A c \in seats : \A k \in got[c] \cup ToSet(queue[c]) : k <= made
LossInv == TypeOK /\ Seen /\ LossIsCounted

(* The device's chunk goes behind everything a client has or had.            *)
LEMMA LossProduce ==
  ASSUME LossInv, NEW forced \in BOOLEAN, Produce(forced)
  PROVE  Seen' /\ LossIsCounted'
<1>1. /\ TypeOK /\ made \in Nat /\ made + 1 \in Chunks /\ dropped \in Nat
      /\ made' = made + 1 /\ seats' = seats /\ got' = got /\ joined' = joined
      /\ dropped' = dropped + Evictions(Feeds(forced))
  BY PortOutputAssumption, SMTT(30) DEF LossInv, TypeOK, Produce, Chunks
<1>2. Evictions(Feeds(forced)) \in Nat
  BY <1>1, FullCounts DEF Feeds
<1>3. ASSUME NEW c \in seats
      PROVE  /\ \A k \in got'[c] \cup ToSet(queue'[c]) : k <= made'
             /\ Increasing(queue'[c])
             /\ \A k \in got'[c], m \in ToSet(queue'[c]) : k < m
             /\ Cardinality((joined'[c] + 1 .. made') \ (got'[c] \cup ToSet(queue'[c])))
                  <= dropped'
  <2>1. /\ c \in Clients /\ queue[c] \in Seq(Chunks) /\ Len(queue[c]) <= QueueSize
        /\ joined[c] \in Nat /\ got[c] \subseteq Chunks
    BY <1>1, PortOutputAssumption DEF TypeOK
  <2>2. queue'[c] = Push(queue[c], made + 1)
    BY <2>1 DEF Produce
  <2>3. /\ \A k \in got[c] \cup ToSet(queue[c]) : k <= made
        /\ Increasing(queue[c])
        /\ \A k \in got[c], m \in ToSet(queue[c]) : k < m
        /\ Cardinality((joined[c] + 1 .. made) \ (got[c] \cup ToSet(queue[c]))) <= dropped
    BY DEF LossInv, Seen, LossIsCounted
  <2>4. ToSet(queue[c]) \subseteq Chunks
    BY <2>1 DEF ToSet
  <2>5. \A k \in got[c] \cup ToSet(queue[c]) : k < made + 1
    BY <1>1, <2>1, <2>3, <2>4 DEF Chunks
  <2>6. ToSet(queue'[c]) \subseteq ToSet(queue[c]) \cup {made + 1}
    BY <1>1, <2>1, <2>2, PushHolds
  <2>7. Increasing(queue'[c])
    BY <1>1, <2>1, <2>2, <2>3, <2>5, PushIncreases
  <2>8. \A k \in got'[c] \cup ToSet(queue'[c]) : k <= made'
    BY <1>1, <2>1, <2>4, <2>5, <2>6 DEF Chunks
  <2>9. \A k \in got'[c], m \in ToSet(queue'[c]) : k < m
    BY <1>1, <2>3, <2>5, <2>6
  <2>10. Full(queue[c]) => Evictions(Feeds(forced)) >= 1
    BY <1>1, FullCounts DEF Feeds
  <2>11. Cardinality((joined[c] + 1 .. made + 1) \ (got[c] \cup ToSet(Push(queue[c], made + 1))))
           <= dropped + Evictions(Feeds(forced))
    BY <1>1, <1>2, <2>1, <2>3, <2>10, PushLoses
  <2> QED
    BY <1>1, <2>2, <2>7, <2>8, <2>9, <2>11
<1> QED
  BY <1>1, <1>3 DEF Seen, LossIsCounted

(* What the client has read and what waits for it are the same set before    *)
(* and after it reads one more.                                              *)
LEMMA LossForward ==
  ASSUME LossInv, NEW d \in Clients, queue[d] # <<>>,
         got' = [got EXCEPT ![d] = @ \cup {Head(queue[d])}],
         queue' = [queue EXCEPT ![d] = Tail(@)],
         UNCHANGED <<made, seats, joined, dropped>>
  PROVE  Seen' /\ LossIsCounted'
<1>1. /\ TypeOK /\ queue \in [Clients -> Seq(Chunks)] /\ got \in [Clients -> SUBSET Chunks]
      /\ seats \subseteq Clients
  BY DEF LossInv, TypeOK
<1>2. ASSUME NEW c \in seats
      PROVE  /\ \A k \in got'[c] \cup ToSet(queue'[c]) : k <= made'
             /\ Increasing(queue'[c])
             /\ \A k \in got'[c], m \in ToSet(queue'[c]) : k < m
             /\ Cardinality((joined'[c] + 1 .. made') \ (got'[c] \cup ToSet(queue'[c])))
                  <= dropped'
  <2>1. /\ \A k \in got[c] \cup ToSet(queue[c]) : k <= made
        /\ Increasing(queue[c])
        /\ \A k \in got[c], m \in ToSet(queue[c]) : k < m
        /\ Cardinality((joined[c] + 1 .. made) \ (got[c] \cup ToSet(queue[c]))) <= dropped
    BY DEF LossInv, Seen, LossIsCounted
  <2>2. CASE c # d
    <3>1. queue'[c] = queue[c] /\ got'[c] = got[c]
      BY <1>1, <2>2
    <3> QED
      BY <2>1, <3>1
  <2>3. CASE c = d
    <3>1. queue'[c] = Tail(queue[c]) /\ got'[c] = got[c] \cup {Head(queue[c])}
      BY <1>1, <2>3
    <3>2. queue[c] \in Seq(Chunks) /\ queue[c] # <<>>
      BY <1>1, <2>3
    <3>3. ToSet(queue[c]) = {Head(queue[c])} \cup ToSet(Tail(queue[c]))
      BY <3>2, TailHolds
    <3>4. Increasing(Tail(queue[c])) /\ \A m \in ToSet(Tail(queue[c])) : Head(queue[c]) < m
      BY <2>1, <3>2, TailIncreases
    <3>5. got'[c] \cup ToSet(queue'[c]) = got[c] \cup ToSet(queue[c])
      BY <3>1, <3>3
    <3>6. \A k \in got'[c], m \in ToSet(queue'[c]) : k < m
      BY <2>1, <3>1, <3>3, <3>4
    <3> QED
      BY <2>1, <3>1, <3>4, <3>5, <3>6
  <2> QED
    BY <2>2, <2>3
<1> QED
  BY <1>2 DEF Seen, LossIsCounted

(* Who sits down has missed nothing yet; the others are not touched.         *)
LEMMA LossSeats ==
  ASSUME LossInv, NEW d \in Clients, SitDown(d) \/ StandUp(d), UNCHANGED <<made, dropped>>
  PROVE  Seen' /\ LossIsCounted'
<1>1. /\ TypeOK /\ queue \in [Clients -> Seq(Chunks)] /\ got \in [Clients -> SUBSET Chunks]
      /\ joined \in [Clients -> 0..MaxChunks] /\ seats \subseteq Clients
      /\ made \in Nat /\ dropped \in Nat
  BY PortOutputAssumption, SMTT(30) DEF LossInv, TypeOK
<1>2. ASSUME NEW c \in seats'
      PROVE  /\ \A k \in got'[c] \cup ToSet(queue'[c]) : k <= made'
             /\ Increasing(queue'[c])
             /\ \A k \in got'[c], m \in ToSet(queue'[c]) : k < m
             /\ Cardinality((joined'[c] + 1 .. made') \ (got'[c] \cup ToSet(queue'[c])))
                  <= dropped'
  <2>1. CASE c # d
    <3>1. c \in seats /\ queue'[c] = queue[c] /\ got'[c] = got[c] /\ joined'[c] = joined[c]
      BY <1>1, <1>2, <2>1 DEF SitDown, StandUp
    <3>2. /\ \A k \in got[c] \cup ToSet(queue[c]) : k <= made
          /\ Increasing(queue[c])
          /\ \A k \in got[c], m \in ToSet(queue[c]) : k < m
          /\ Cardinality((joined[c] + 1 .. made) \ (got[c] \cup ToSet(queue[c]))) <= dropped
      BY <3>1 DEF LossInv, Seen, LossIsCounted
    <3> QED
      BY <3>1, <3>2
  <2>2. CASE c = d
    <3>1. queue'[c] = <<>> /\ got'[c] = {} /\ joined'[c] = made
      BY <1>1, <1>2, <2>2 DEF SitDown, StandUp
    <3>2. ToSet(<<>>) = {} /\ Increasing(<<>>)
      BY DEF ToSet, Increasing
    <3>3. (made + 1 .. made) \ ({} \cup {}) = {}
      BY <1>1
    <3>4. Cardinality((joined'[c] + 1 .. made') \ (got'[c] \cup ToSet(queue'[c]))) = 0
      BY <3>1, <3>2, <3>3, FS_EmptySet
    <3> QED
      BY <1>1, <3>1, <3>2, <3>4
  <2> QED
    BY <2>1, <2>2
<1> QED
  BY <1>2 DEF Seen, LossIsCounted

LEMMA LossNext == LossInv /\ [Next]_vars => LossInv'
<1> SUFFICES ASSUME LossInv, [Next]_vars PROVE Seen' /\ LossIsCounted'
  BY NextType DEF LossInv
<1>1. CASE \E forced \in BOOLEAN : Produce(forced)
  BY <1>1, LossProduce
<1>2. CASE \E d \in Locals : Attach(d) \/ Detach(d)
  BY <1>2, LossSeats DEF Attach, Detach, port, Clients
<1>3. CASE \E s \in Streams : Open(s) \/ Close(s)
  BY <1>3, LossSeats DEF Open, Close, port, Clients
<1>4. CASE \E d \in Locals : Forward(d)
  BY <1>4, LossForward DEF Forward, port, Clients
<1>5. CASE UNCHANGED <<made, viewers, dropped>>
  BY <1>5 DEF LossInv, Seen, LossIsCounted, viewers
<1>6. CASE \E t \in Tasks : PumpStep(t)
  <2>1. UNCHANGED <<made, viewers, dropped>>
    BY <1>6 DEF PumpStep, Start, Seed, Resume, Relay, Vanish, Finish, port, viewers
  <2> QED
    BY <1>5, <2>1
<1>7. CASE UNCHANGED vars
  BY <1>5, <1>7 DEF vars, port
<1> QED
  BY <1>1, <1>2, <1>3, <1>4, <1>6, <1>7 DEF Next

(* An attached client misses no chunk that is not counted as dropped, and    *)
(* reads what it gets in the order the device produced it                    *)
(* (_fan_out_to_client_queues).  The invariant adds that nothing is queued   *)
(* or read before it is made.                                                *)
THEOREM OutputLossIsCounted == Spec => []LossIsCounted
<1>1. Init => LossInv
  BY InitType DEF Init, LossInv, Seen, LossIsCounted
<1>2. LossInv => LossIsCounted
  BY DEF LossInv
<1> QED
  BY <1>1, <1>2, LossNext, PTL DEF Spec

-----------------------------------------------------------------------------
(* The part of NothingStranded about one pump.                               *)
Kept(t) == Cardinality((since[t] + 1 .. made) \ (out \cup ToSet(shared))) <= dropped

(* As long as a pump runs, output is fed to the shared queue.                *)
LEMMA HolderFeeds ==
  ASSUME TypeOK, HoldsCoverPumps, NEW t \in Holding
  PROVE  holds \in Nat /\ holds > 0
<1>1. Cardinality(Holding) # 0
  BY HoldingFinite, FS_EmptySet
<1> QED
  BY <1>1, HoldingFinite DEF TypeOK, HoldsCoverPumps

(* A pump that ends leaves a hold to every other one.                        *)
LEMMA OtherHolderFeeds ==
  ASSUME TypeOK, HoldsCoverPumps, NEW t \in Holding, NEW u \in Holding, t # u
  PROVE  Release(holds) # 0
<1> DEFINE rest == Holding \ {u}
<1>1. IsFiniteSet(rest) /\ Cardinality(rest) = Cardinality(Holding) - 1
  BY HoldingFinite, FS_RemoveElement
<1>2. t \in rest
  OBVIOUS
<1> HIDE DEF rest
<1>3. Cardinality(rest) # 0 /\ Cardinality(rest) \in Nat
  BY <1>1, <1>2, FS_EmptySet, FS_CardinalityType
<1>4. holds \in Nat /\ Cardinality(Holding) <= holds
  BY DEF TypeOK, HoldsCoverPumps
<1> QED
  BY <1>1, <1>3, <1>4, HoldingFinite DEF Release

LEMMA StrandedProduce ==
  ASSUME TypeOK, HoldsCoverPumps, NothingStranded, NEW forced \in BOOLEAN, Produce(forced)
  PROVE  NothingStranded'
<1>1. /\ task' = task /\ since' = since /\ out' = out /\ made' = made + 1
      /\ dropped' = dropped + Evictions(Feeds(forced))
      /\ made \in Nat /\ made + 1 \in Chunks /\ dropped \in Nat
      /\ shared \in Seq(Chunks) /\ Len(shared) <= QueueSize
  BY PortOutputAssumption DEF TypeOK, Produce, Chunks, relays
<1> SUFFICES ASSUME NEW t \in Tasks, t \in Holding, ~task[t].cancelled
             PROVE  Kept(t)'
  BY <1>1 DEF NothingStranded, Holding, Live, Kept
<1>2. Feeds(forced) = TRUE
  <2>1. holds > 0
    BY HolderFeeds
  <2> QED
    BY <2>1 DEF Feeds
<1>3. shared' = Push(shared, made + 1)
  BY <1>2 DEF Produce
<1>4. Evictions(TRUE) \in Nat /\ (Full(shared) => Evictions(TRUE) >= 1)
  BY FullCounts
<1>5. Cardinality((since[t] + 1 .. made) \ (out \cup ToSet(shared))) <= dropped
  BY DEF NothingStranded
<1>6. since[t] \in Nat
  BY PortOutputAssumption DEF TypeOK
<1>7. Cardinality((since[t] + 1 .. made + 1) \ (out \cup ToSet(Push(shared, made + 1))))
        <= dropped + Evictions(TRUE)
  BY <1>1, <1>4, <1>5, <1>6, PushLoses
<1> QED
  BY <1>1, <1>2, <1>3, <1>7 DEF Kept

(* A relayed chunk is out instead of in the queue.                           *)
LEMMA StrandedRelay ==
  ASSUME TypeOK, NothingStranded, NEW u \in Tasks, Relay(u)
  PROVE  NothingStranded'
<1>1. /\ since' = since /\ made' = made /\ dropped' = dropped
      /\ shared \in Seq(Chunks) /\ shared # <<>>
      /\ shared' = Tail(shared) /\ out' = out \cup {Head(shared)}
  BY DEF Relay, TypeOK
<1>2. out' \cup ToSet(shared') = out \cup ToSet(shared)
  BY <1>1, TailHolds
<1>3. ASSUME NEW t \in Tasks, t \in Holding', ~task'[t].cancelled
      PROVE  t \in Holding /\ ~task[t].cancelled
  BY <1>3, TypeTask DEF Relay, Running, Holding, Live, PumpRecords
<1> QED
  BY <1>1, <1>2, <1>3 DEF NothingStranded, Holding

(* A pump that starts has missed nothing; the others are not touched.        *)
LEMMA StrandedStart ==
  ASSUME TypeOK, NothingStranded, NEW u \in Tasks, Start(u)
  PROVE  NothingStranded'
<1>1. /\ since' = [since EXCEPT ![u] = made] /\ since \in [Tasks -> 0..MaxChunks]
      /\ UNCHANGED <<made, dropped, out, shared>> /\ made \in Nat /\ dropped \in Nat
  BY PortOutputAssumption DEF Start, TypeOK
<1> SUFFICES ASSUME NEW t \in Tasks, t \in Holding', ~task'[t].cancelled
             PROVE  Cardinality((since'[t] + 1 .. made') \ (out' \cup ToSet(shared'))) <= dropped'
  BY DEF NothingStranded, Holding
<1>2. CASE t = u
  <2>1. (since'[t] + 1 .. made') \ (out' \cup ToSet(shared')) = {}
    BY <1>1, <1>2
  <2> QED
    BY <1>1, <2>1, FS_EmptySet
<1>3. CASE t # u
  <2>1. t \in Holding /\ ~task[t].cancelled /\ since'[t] = since[t]
    BY <1>1, <1>3, TypeTask DEF Start, Holding, Live
  <2> QED
    BY <1>1, <2>1 DEF NothingStranded
<1> QED
  BY <1>2, <1>3

(* A pump that ends clears the queue only when no other one runs.            *)
LEMMA StrandedEnd ==
  ASSUME TypeOK, HoldsCoverPumps, NothingStranded, NEW u \in Tasks, Vanish(u) \/ Finish(u)
  PROVE  NothingStranded'
<1>1. /\ since' = [since EXCEPT ![u] = 0] /\ task' = [task EXCEPT ![u] = Off]
      /\ since \in [Tasks -> 0..MaxChunks] /\ task \in [Tasks -> PumpRecords]
      /\ UNCHANGED <<made, dropped, out>>
  BY TypeTask DEF Vanish, Finish, Gone, TypeOK, port
<1> SUFFICES ASSUME NEW t \in Tasks, t \in Holding', ~task'[t].cancelled
             PROVE  Cardinality((since'[t] + 1 .. made') \ (out' \cup ToSet(shared'))) <= dropped'
  BY DEF NothingStranded, Holding
<1>2. t # u
  BY <1>1 DEF Holding, Live, Off
<1>3. t \in Holding /\ ~task[t].cancelled /\ since'[t] = since[t]
  BY <1>1, <1>2 DEF Holding, Live
<1>4. shared' = shared
  <2>1. CASE Vanish(u)
    BY <2>1 DEF Vanish, port
  <2>2. CASE Finish(u)
    <3>1. u \in Holding
      BY <2>2 DEF Finish, Cancelled, Holding, Live
    <3>2. Release(holds) # 0
      BY <1>2, <1>3, <3>1, OtherHolderFeeds
    <3> QED
      BY <2>2, <3>2 DEF Finish
  <2> QED
    BY <2>1, <2>2
<1> QED
  BY <1>1, <1>3, <1>4 DEF NothingStranded

(* Steps that leave the queue alone and start no pump.                       *)
LEMMA StrandedAside ==
  ASSUME NothingStranded, UNCHANGED <<made, dropped, out, shared, since>>,
         \A t \in Tasks : t \in Holding' /\ ~task'[t].cancelled
                            => t \in Holding /\ ~task[t].cancelled
  PROVE  NothingStranded'
  BY DEF NothingStranded, Holding

LEMMA StrandedNext ==
  TypeOK /\ HoldsCoverPumps /\ NothingStranded /\ [Next]_vars => NothingStranded'
<1> SUFFICES ASSUME TypeOK, HoldsCoverPumps, NothingStranded, [Next]_vars
             PROVE  NothingStranded'
  OBVIOUS
<1>1. task \in [Tasks -> PumpRecords]
  BY TypeTask
<1>2. CASE \E forced \in BOOLEAN : Produce(forced)
  BY <1>2, StrandedProduce
<1>3. CASE \E d \in Locals : Attach(d) \/ Detach(d) \/ Forward(d)
  <2>1. UNCHANGED <<made, dropped, out, shared, since, task>>
    BY <1>3 DEF Attach, Detach, Forward, port, relays
  <2> QED
    BY <2>1, StrandedAside DEF Holding, Live
<1>4. ASSUME NEW s \in Streams, Open(s) PROVE NothingStranded'
  <2>1. PICK u \in Tasks : NewTask(s, u)
    BY <1>4 DEF Open
  <2>2. UNCHANGED <<made, dropped, out, shared, since>>
    BY <1>4 DEF Open, port
  <2>3. ASSUME NEW t \in Tasks, t \in Holding', ~task'[t].cancelled
        PROVE  t \in Holding /\ ~task[t].cancelled
    BY <1>1, <2>1, <2>3 DEF NewTask, Off, Holding, Live
  <2> QED
    BY <2>2, <2>3, StrandedAside
<1>5. ASSUME NEW s \in Streams, Close(s) PROVE NothingStranded'
  <2>1. UNCHANGED <<made, dropped, out, shared, since>>
    BY <1>5 DEF Close, port
  <2>2. ASSUME NEW t \in Tasks, t \in Holding', ~task'[t].cancelled
        PROVE  t \in Holding /\ ~task[t].cancelled
    BY <1>1, <1>5, <2>2 DEF Close, Holding, Live, PumpRecords
  <2> QED
    BY <2>1, <2>2, StrandedAside
<1>6. ASSUME NEW u \in Tasks, PumpStep(u) PROVE NothingStranded'
  <2>1. CASE Seed(u) \/ Resume(u)
    <3>1. UNCHANGED <<made, dropped, out, shared, since>>
      BY <2>1 DEF Seed, Resume, port
    <3>2. ASSUME NEW t \in Tasks, t \in Holding', ~task'[t].cancelled
          PROVE  t \in Holding /\ ~task[t].cancelled
      BY <1>1, <2>1, <3>2 DEF Seed, Resume, Running, Holding, Live, PumpRecords
    <3> QED
      BY <3>1, <3>2, StrandedAside
  <2> QED
    BY <1>6, <2>1, StrandedStart, StrandedRelay, StrandedEnd DEF PumpStep
<1>7. CASE UNCHANGED vars
  <2>1. UNCHANGED <<made, dropped, out, shared, since, task>>
    BY <1>7 DEF vars, port, relays
  <2> QED
    BY <2>1, StrandedAside DEF Holding, Live
<1> QED
  BY <1>2, <1>3, <1>4, <1>5, <1>6, <1>7 DEF Next

(* While a pump runs, every chunk made since it took its hold is relayed,    *)
(* waits in the shared queue or is counted as dropped: the last hold to go   *)
(* clears the queue, so the count of the holds carries the argument.         *)
THEOREM RelaysStrandNothing == Spec => []NothingStranded
<1>1. Init => HoldsCoverPumps /\ NothingStranded
  <2> SUFFICES ASSUME Init PROVE HoldsCoverPumps /\ NothingStranded
    OBVIOUS
  <2>1. Holding = {} /\ holds = 0
    BY DEF Init, Off, Holding, Live
  <2> QED
    BY <2>1, FS_EmptySet DEF HoldsCoverPumps, NothingStranded
<1>2. TypeOK /\ HoldsCoverPumps /\ NothingStranded /\ [Next]_vars
        => (TypeOK /\ HoldsCoverPumps /\ NothingStranded)'
  BY NextType, HoldsNext, StrandedNext
<1> QED
  BY <1>1, <1>2, InitType, PTL DEF Spec
-----------------------------------------------------------------------------
(* The logs of the ports *)

LogEvents == [log : Log!Logs, kind : Log!Kinds, n : Nat \ {0}]

\* What a log holds, on disk and of the line that has no end yet.
Out(d, l) == files[d][l] \o buffers[d][l]

\* The piece p waits in the queue q for the log l.
Pending(q, l, p) == \E i \in 1..Len(q) : q[i].log = l /\ p \in Log!ToSet(Log!PiecesOf(q[i]))

LogShape ==
  /\ events \in Seq(LogEvents) /\ Len(events) <= LogQueue
  /\ dir \in Dirs
  /\ files \in [Dirs -> [Log!Logs -> Seq(Nat)]] /\ buffers \in [Dirs -> [Log!Logs -> Seq(Nat)]]
  /\ begun \in 0..MaxRuns /\ runs \subseteq 1..begun /\ chunks \in Nat
  /\ due \in [Log!Logs -> SUBSET Nat] /\ lost \in [Log!Logs -> SUBSET Nat]

\* The copy goes to the latest run, while it lasts.
MirrorIsLatest == mirror = IF begun \in runs THEN begun ELSE 0

\* The chunks of a log wait in their order, behind all it holds.
QueueRises ==
  /\ \A i \in 1..Len(events) : events[i].n <= chunks
  /\ \A i, j \in 1..Len(events) :
        i < j /\ events[i].log = events[j].log => events[i].n < events[j].n
  /\ \A i \in 1..Len(events), d \in Dirs : \A p \in Log!ToSet(Out(d, events[i].log)) :
        p < 2 * events[i].n - 1

LogsRise ==
  /\ \A d \in Dirs, l \in Log!Logs : Log!Rising(Out(d, l))
  /\ \A d \in Dirs, l \in Log!Logs : \A p \in Log!ToSet(Out(d, l)) : p <= 2 * chunks
  /\ \A l \in Log!Logs : \A d, e \in Dirs : \A p \in Log!ToSet(Out(d, l)) :
        d # e => p \notin Log!ToSet(Out(e, l))

DueIsThere ==
  \A l \in Log!Logs, p \in Nat :
     p \in due[l] <=> \/ \E d \in Dirs : p \in Log!ToSet(Out(d, l))
                      \/ Pending(events, l, p)
                      \/ p \in lost[l]

LogInv == LogShape /\ MirrorIsLatest /\ QueueRises /\ LogsRise /\ DueIsThere

LEMMA SetOfConcat ==
  ASSUME NEW S, NEW s \in Seq(S), NEW t \in Seq(S)
  PROVE  /\ Log!ToSet(s \o t) = Log!ToSet(s) \cup Log!ToSet(t)
         /\ s \o t \in Seq(S)
<1>1. /\ Len(s \o t) = Len(s) + Len(t) /\ s \o t \in Seq(S)
      /\ \A i \in 1..Len(s) : i \in 1..Len(s \o t) /\ (s \o t)[i] = s[i]
      /\ \A i \in 1..Len(t) : Len(s) + i \in 1..Len(s \o t) /\ (s \o t)[Len(s) + i] = t[i]
      /\ \A i \in 1..Len(s \o t) : i \notin 1..Len(s) => /\ i - Len(s) \in 1..Len(t)
                                                       /\ (s \o t)[i] = t[i - Len(s)]
  OBVIOUS
<1>2. Log!ToSet(s \o t) \subseteq Log!ToSet(s) \cup Log!ToSet(t)
  <2> SUFFICES ASSUME NEW i \in 1..Len(s \o t)
               PROVE  (s \o t)[i] \in Log!ToSet(s) \cup Log!ToSet(t)
    BY <1>1 DEF Log!ToSet
  <2> QED
    BY <1>1 DEF Log!ToSet
<1>3. Log!ToSet(s) \subseteq Log!ToSet(s \o t)
  BY <1>1 DEF Log!ToSet
<1>4. Log!ToSet(t) \subseteq Log!ToSet(s \o t)
  <2> SUFFICES ASSUME NEW i \in 1..Len(t) PROVE t[i] \in Log!ToSet(s \o t)
    BY SMTT(30) DEF Log!ToSet
  <2>1. PICK j \in 1..Len(s \o t) : (s \o t)[j] = t[i]
    BY <1>1
  <2> QED
    BY <1>1, <2>1, SMTT(30) DEF Log!ToSet
<1> QED
  BY <1>1, <1>2, <1>3, <1>4

LEMMA RisingConcat ==
  ASSUME NEW s \in Seq(Nat), NEW t \in Seq(Nat), Log!Rising(s), Log!Rising(t),
         \A a \in Log!ToSet(s) : \A b \in Log!ToSet(t) : a < b
  PROVE  Log!Rising(s \o t)
<1>1. /\ Len(s \o t) = Len(s) + Len(t) /\ Len(s) \in Nat /\ Len(t) \in Nat
      /\ \A i \in 1..Len(s) : (s \o t)[i] = s[i] /\ s[i] \in Log!ToSet(s)
      /\ \A i \in 1..Len(t) : t[i] \in Log!ToSet(t)
      /\ \A i \in 1..Len(s \o t) : i > Len(s) => (s \o t)[i] = t[i - Len(s)]
  BY DEF Log!ToSet
<1>2. SUFFICES ASSUME NEW i \in 1..Len(s \o t) - 1 PROVE (s \o t)[i] < (s \o t)[i + 1]
  BY DEF Log!Rising
<1>3. i \in Nat /\ i + 1 \in 1..Len(s \o t) /\ i \in 1..Len(s \o t)
  BY <1>1
<1>4. CASE i + 1 <= Len(s)
  BY <1>1, <1>3, <1>4 DEF Log!Rising
<1>5. CASE i = Len(s)
  <2>1. i \in 1..Len(s) /\ 1 \in 1..Len(t) /\ (s \o t)[i + 1] = t[1]
    BY <1>1, <1>3, <1>5
  <2> QED
    BY <1>1, <2>1
<1>6. CASE i > Len(s)
  <2>1. i - Len(s) \in 1..Len(t) - 1 /\ (i + 1) - Len(s) = (i - Len(s)) + 1
    BY <1>1, <1>3, <1>6
  <2>2. (s \o t)[i] = t[i - Len(s)] /\ (s \o t)[i + 1] = t[(i - Len(s)) + 1]
    BY <1>1, <1>3, <1>6, <2>1
  <2> QED
    BY <2>1, <2>2 DEF Log!Rising
<1> QED
  BY <1>1, <1>3, <1>4, <1>5, <1>6

LEMMA RisingPrefix ==
  ASSUME NEW s \in Seq(Nat), NEW t \in Seq(Nat), Log!Rising(s \o t)
  PROVE  Log!Rising(s)
<1>1. Len(s \o t) = Len(s) + Len(t) /\ \A i \in 1..Len(s) : (s \o t)[i] = s[i]
  OBVIOUS
<1>2. SUFFICES ASSUME NEW i \in 1..Len(s) - 1 PROVE s[i] < s[i + 1]
  BY DEF Log!Rising
<1>3. i \in 1..Len(s \o t) - 1 /\ i \in 1..Len(s) /\ i + 1 \in 1..Len(s)
  BY <1>1
<1> QED
  BY <1>1, <1>3 DEF Log!Rising

LEMMA PiecesRise ==
  ASSUME NEW ev \in LogEvents
  PROVE  /\ Log!PiecesOf(ev) \in Seq(Nat) /\ Log!Rising(Log!PiecesOf(ev))
         /\ \A p \in Log!ToSet(Log!PiecesOf(ev)) :
               p \in Nat /\ 2 * ev.n - 1 <= p /\ p <= 2 * ev.n
<1>1. ev.n \in Nat \ {0} /\ 2 * ev.n - 1 \in Nat /\ 2 * ev.n \in Nat
  BY DEF LogEvents
<1>2. PICK n \in Nat \ {0} : n = ev.n
  BY <1>1
<1>3. CASE ev.kind = "split"
  <2>1. Log!PiecesOf(ev) = <<2 * n - 1, 2 * n>>
    BY <1>2, <1>3 DEF Log!PiecesOf
  <2> QED
    BY <1>2, <2>1 DEF Log!Rising, Log!ToSet
<1>4. CASE ev.kind # "split"
  <2>1. Log!PiecesOf(ev) = <<2 * n - 1>>
    BY <1>2, <1>4 DEF Log!PiecesOf
  <2> QED
    BY <1>2, <2>1 DEF Log!Rising, Log!ToSet
<1> QED
  BY <1>3, <1>4

LEMMA PendingIs ==
  ASSUME NEW q, NEW S, q \in Seq(S), NEW l, NEW p
  PROVE  p \in UNION {Log!ToSet(Log!PiecesOf(ev)) : ev \in {e \in Log!ToSet(q) : e.log = l}}
            <=> Pending(q, l, p)
<1> DEFINE here == {e \in Log!ToSet(q) : e.log = l}
           there == {Log!ToSet(Log!PiecesOf(ev)) : ev \in here}
<1>1. p \in UNION there <=> \E ev \in here : p \in Log!ToSet(Log!PiecesOf(ev))
  OBVIOUS
<1>2. Log!ToSet(q) = {q[i] : i \in 1..Len(q)}
  BY DEF Log!ToSet
<1>3. (\E ev \in here : p \in Log!ToSet(Log!PiecesOf(ev))) <=> Pending(q, l, p)
  BY <1>2 DEF Pending
<1> QED
  BY <1>1, <1>3

LEMMA LogBegins == Log!Init => LogInv
<1> SUFFICES ASSUME Log!Init PROVE LogInv
  OBVIOUS
<1>1. /\ events = <<>> /\ dir \in Dirs /\ mirror = 0 /\ runs = {} /\ begun = 0 /\ chunks = 0
      /\ files = [d \in Dirs |-> [l \in Log!Logs |-> <<>>]]
      /\ buffers = [d \in Dirs |-> [l \in Log!Logs |-> <<>>]]
      /\ due = [l \in Log!Logs |-> {}] /\ lost = [l \in Log!Logs |-> {}]
  BY DEF Log!Init, Log!Empty
<1>2. <<>> \in Seq(Nat) /\ <<>> \in Seq(LogEvents) /\ Len(<<>>) = 0
  OBVIOUS
<1>3. \A d \in Dirs, l \in Log!Logs : Out(d, l) = <<>> /\ Log!ToSet(Out(d, l)) = {}
  <2> SUFFICES ASSUME NEW d \in Dirs, NEW l \in Log!Logs
               PROVE  Out(d, l) = <<>> /\ Log!ToSet(Out(d, l)) = {}
    OBVIOUS
  <2>1. Out(d, l) = <<>>
    BY <1>1 DEF Out
  <2> QED
    BY <2>1 DEF Log!ToSet
<1>4. LogShape
  BY <1>1, <1>2, PartsAssumption DEF LogShape
<1>5. MirrorIsLatest
  BY <1>1 DEF MirrorIsLatest
<1>6. QueueRises
  BY <1>1, <1>2 DEF QueueRises
<1>7. LogsRise
  BY <1>3 DEF LogsRise, Log!Rising
<1>8. DueIsThere
  BY <1>1, <1>2, <1>3 DEF DueIsThere, Pending
<1> QED
  BY <1>4, <1>5, <1>6, <1>7, <1>8 DEF LogInv

(* A piece that ends the buffered line goes behind what the file holds.    *)
LEMMA LinesJoin ==
  ASSUME NEW f \in Seq(Nat), NEW b \in Seq(Nat), NEW x \in Nat, NEW y \in Nat
  PROVE  /\ <<>> \in Seq(Nat) /\ <<y>> \in Seq(Nat)
         /\ Append(b, x) \in Seq(Nat) /\ f \o Append(b, x) \in Seq(Nat)
         /\ f \o Append(b, x) = (f \o b) \o <<x>>
         /\ (f \o Append(b, x)) \o <<>> = (f \o b) \o <<x>>
         /\ (f \o Append(b, x)) \o <<y>> = (f \o b) \o <<x, y>>
<1>1. /\ <<>> \in Seq(Nat) /\ <<x>> \in Seq(Nat) /\ <<y>> \in Seq(Nat) /\ f \o b \in Seq(Nat)
      /\ Append(b, x) \in Seq(Nat) /\ f \o Append(b, x) \in Seq(Nat)
  OBVIOUS
<1>2. Append(b, x) = b \o <<x>>
  BY AppendIsConcat
<1>3. f \o (b \o <<x>>) = (f \o b) \o <<x>>
  BY <1>1, ConcatAssociative
<1>4. ((f \o b) \o <<x>>) \o <<y>> = (f \o b) \o (<<x>> \o <<y>>)
  BY <1>1, ConcatAssociative
<1>5. <<x>> \o <<y>> = <<x, y>>
  <2>1. Append(<<x>>, y) = <<x>> \o <<y>>
    BY <1>1, AppendIsConcat
  <2>2. Append(<<x>>, y) = <<x, y>>
    <3>1. <<x>> \in Seq(Nat) /\ Len(<<x>>) = 1 /\ <<x>>[1] = x
      OBVIOUS
    <3>2. Append(<<x>>, y) \in Seq(Nat) /\ Len(Append(<<x>>, y)) = 2
      BY <3>1
    <3>3. Append(<<x>>, y)[1] = x /\ Append(<<x>>, y)[2] = y
      BY <3>1
    <3>4. <<x, y>> \in Seq(Nat) /\ Len(<<x, y>>) = 2
      OBVIOUS
    <3>5. \A i \in 1..2 : i = 1 \/ i = 2
      OBVIOUS
    <3>6. \A i \in 1..Len(Append(<<x>>, y)) : Append(<<x>>, y)[i] = <<x, y>>[i]
      BY <3>2, <3>3, <3>5
    <3> QED
      BY <3>2, <3>4, <3>6, SeqEqual
  <2> QED
    BY <2>1, <2>2
<1>6. (f \o Append(b, x)) \o <<>> = f \o Append(b, x)
  BY <1>1, ConcatEmptySeq
<1> QED
  BY <1>1, <1>2, <1>3, <1>4, <1>5, <1>6

(* A line that ends, or does not, makes its log longer by the pieces of    *)
(* the chunk.                                                              *)
LEMMA WriteAdds ==
  ASSUME LogInv, Log!Write
  PROVE  LET ev == Head(events)
         IN  /\ files' \in [Dirs -> [Log!Logs -> Seq(Nat)]]
             /\ buffers' \in [Dirs -> [Log!Logs -> Seq(Nat)]]
             /\ \A d \in Dirs, l \in Log!Logs :
                   Out(d, l)' = IF d = dir /\ l = ev.log THEN Out(d, l) \o Log!PiecesOf(ev)
                                ELSE Out(d, l)
<1> DEFINE ev == Head(events)
           l0 == ev.log
           b == buffers[dir][l0]
           f == files[dir][l0]
           buf == Append(b, 2 * ev.n - 1)
<1>1. events # <<>> /\ ev = events[1] /\ ev \in LogEvents
  BY DEF LogInv, LogShape, Log!Write
<1>2. /\ l0 \in Log!Logs /\ dir \in Dirs /\ 2 * ev.n - 1 \in Nat /\ 2 * ev.n \in Nat
      /\ b \in Seq(Nat) /\ f \in Seq(Nat) /\ ev.kind \in Log!Kinds
  BY <1>1 DEF LogInv, LogShape, LogEvents
<1>3. PICK x \in Nat, y \in Nat : x = 2 * ev.n - 1 /\ y = 2 * ev.n
  BY <1>2
<1>9. /\ <<>> \in Seq(Nat) /\ <<y>> \in Seq(Nat)
      /\ Append(b, x) \in Seq(Nat) /\ f \o Append(b, x) \in Seq(Nat)
      /\ f \o Append(b, x) = (f \o b) \o <<x>>
      /\ (f \o Append(b, x)) \o <<>> = (f \o b) \o <<x>>
      /\ (f \o Append(b, x)) \o <<y>> = (f \o b) \o <<x, y>>
  <2>1. b \in Seq(Nat) /\ f \in Seq(Nat) /\ x \in Nat /\ y \in Nat
    BY <1>2, <1>3
  <2> HIDE DEF f, b
  <2> QED
    BY <2>1, LinesJoin, ZenonT(40)
<1>4. \/ /\ ev.kind = "part" /\ files' = files
         /\ buffers' = [buffers EXCEPT ![dir][l0] = Append(b, x)]
      \/ /\ ev.kind = "end" /\ files' = [files EXCEPT ![dir][l0] = f \o Append(b, x)]
         /\ buffers' = [buffers EXCEPT ![dir][l0] = <<>>]
      \/ /\ ev.kind = "split" /\ files' = [files EXCEPT ![dir][l0] = f \o Append(b, x)]
         /\ buffers' = [buffers EXCEPT ![dir][l0] = <<y>>]
  <2>1. Log!PiecesOf(ev) = IF ev.kind = "split" THEN <<x, y>> ELSE <<x>>
    BY <1>3 DEF Log!PiecesOf
  <2>2. Tail(<<x>>) = <<>> /\ Tail(<<x, y>>) = <<y>>
    OBVIOUS
  <2>3. IF ev.kind = "part"
        THEN buffers' = [buffers EXCEPT ![dir][l0] = buf] /\ UNCHANGED files
        ELSE /\ files' = [files EXCEPT ![dir][l0] = f \o buf]
             /\ buffers' = [buffers EXCEPT ![dir][l0] = Tail(Log!PiecesOf(ev))]
    BY DEF Log!Write
  <2> QED
    BY <1>2, <1>3, <2>1, <2>2, <2>3 DEF Log!Kinds
<1>5. PICK g \in Seq(Nat), c \in Seq(Nat) :
         /\ files' = [files EXCEPT ![dir][l0] = g]
         /\ buffers' = [buffers EXCEPT ![dir][l0] = c]
         /\ g \o c = (f \o b) \o Log!PiecesOf(ev)
  <2>1. CASE ev.kind = "part"
    <3>1. Log!PiecesOf(ev) = <<x>>
      BY <1>3, <2>1 DEF Log!PiecesOf
    <3>2. f \o Append(b, x) = (f \o b) \o <<x>> /\ Append(b, x) \in Seq(Nat)
      BY <1>9
    <3>3. files = [files EXCEPT ![dir][l0] = f]
      BY <1>2 DEF LogInv, LogShape
    <3> HIDE DEF ev, l0, b, f, buf
    <3> QED
      BY <1>2, <1>4, <2>1, <3>1, <3>2, <3>3
  <2>2. CASE ev.kind = "end"
    <3>1. Log!PiecesOf(ev) = <<x>>
      BY <1>3, <2>2 DEF Log!PiecesOf
    <3>2. /\ f \o Append(b, x) \in Seq(Nat) /\ <<>> \in Seq(Nat)
          /\ (f \o Append(b, x)) \o <<>> = (f \o b) \o <<x>>
      BY <1>9
    <3> HIDE DEF ev, l0, b, f, buf
    <3> QED
      BY <1>2, <1>4, <2>2, <3>1, <3>2
  <2>3. CASE ev.kind = "split"
    <3>1. Log!PiecesOf(ev) = <<x, y>>
      BY <1>3, <2>3 DEF Log!PiecesOf
    <3>2. /\ f \o Append(b, x) \in Seq(Nat) /\ <<y>> \in Seq(Nat)
          /\ (f \o Append(b, x)) \o <<y>> = (f \o b) \o <<x, y>>
      BY <1>9
    <3> HIDE DEF ev, l0, b, f, buf
    <3> QED
      BY <1>2, <1>4, <2>3, <3>1, <3>2
  <2> QED
    BY <1>2, <2>1, <2>2, <2>3 DEF Log!Kinds
<1>6. /\ files' \in [Dirs -> [Log!Logs -> Seq(Nat)]]
      /\ buffers' \in [Dirs -> [Log!Logs -> Seq(Nat)]]
  <2> HIDE DEF l0
  <2> QED
    BY <1>2, <1>5 DEF LogInv, LogShape
<1>7. \A d \in Dirs, l \in Log!Logs :
         /\ files'[d][l] = IF d = dir /\ l = l0 THEN g ELSE files[d][l]
         /\ buffers'[d][l] = IF d = dir /\ l = l0 THEN c ELSE buffers[d][l]
  <2> HIDE DEF l0
  <2> QED
    BY <1>2, <1>5 DEF LogInv, LogShape
<1>8. \A d \in Dirs, l \in Log!Logs :
         Out(d, l)' = IF d = dir /\ l = l0 THEN Out(d, l) \o Log!PiecesOf(ev) ELSE Out(d, l)
  <2> SUFFICES ASSUME NEW d \in Dirs, NEW l \in Log!Logs
               PROVE  Out(d, l)' = IF d = dir /\ l = l0 THEN Out(d, l) \o Log!PiecesOf(ev)
                                   ELSE Out(d, l)
    OBVIOUS
  <2>1. CASE d = dir /\ l = l0
    <3>1. Out(d, l)' = g \o c /\ Out(d, l) = f \o b
      BY <1>7, <2>1 DEF Out
    <3> HIDE DEF ev, f, b, l0
    <3> QED
      BY <1>5, <2>1, <3>1
  <2>2. CASE ~(d = dir /\ l = l0)
    <3> HIDE DEF ev, f, b, l0
    <3> QED
      BY <1>7, <2>2 DEF Out
  <2> QED
    BY <2>1, <2>2
<1> QED
  BY <1>6, <1>8

LEMMA WriteKeeps ==
  ASSUME LogInv, Log!Write
  PROVE  LogInv'
<1> DEFINE P(ev) == Log!ToSet(Log!PiecesOf(ev))
<1>1. /\ events # <<>> /\ events' = Tail(events)
      /\ UNCHANGED <<dir, mirror, runs, begun, chunks, due, lost>>
  BY DEF Log!Write, Log!bounds, Log!ghosts
<1>2. PICK ev \in LogEvents : ev = Head(events) /\ ev = events[1]
  BY <1>1 DEF LogInv, LogShape
<1>3. /\ events' \in Seq(LogEvents) /\ Len(events') = Len(events) - 1 /\ 1 \in 1..Len(events)
      /\ Len(events) \in Nat
      /\ \A i \in 1..Len(events') : i + 1 \in 1..Len(events) /\ events'[i] = events[i + 1]
      /\ \A i \in 1..Len(events) : i # 1 => i - 1 \in 1..Len(events') /\ events'[i - 1] = events[i]
  BY <1>1 DEF LogInv, LogShape
<1>4. /\ ev.log \in Log!Logs /\ ev.n \in Nat \ {0} /\ ev.n <= chunks /\ dir \in Dirs
      /\ chunks \in Nat
  BY <1>2, <1>3 DEF LogEvents, LogInv, LogShape, QueueRises
<1>5. /\ Log!PiecesOf(ev) \in Seq(Nat) /\ Log!Rising(Log!PiecesOf(ev))
      /\ \A p \in P(ev) : p \in Nat /\ 2 * ev.n - 1 <= p /\ p <= 2 * ev.n
  BY PiecesRise
<1>6. /\ files' \in [Dirs -> [Log!Logs -> Seq(Nat)]]
      /\ buffers' \in [Dirs -> [Log!Logs -> Seq(Nat)]]
      /\ \A d \in Dirs, l \in Log!Logs :
            Out(d, l)' = IF d = dir /\ l = ev.log THEN Out(d, l) \o Log!PiecesOf(ev) ELSE Out(d, l)
  BY <1>2, WriteAdds
<1>7. \A d \in Dirs, l \in Log!Logs : Out(d, l) \in Seq(Nat)
  BY SetOfConcat DEF LogInv, LogShape, Out
<1>8. \A d \in Dirs, l \in Log!Logs :
         /\ Log!ToSet(Out(d, l)) \in SUBSET Nat
         /\ Log!ToSet(Out(d, l)') = IF d = dir /\ l = ev.log THEN Log!ToSet(Out(d, l)) \cup P(ev)
                                     ELSE Log!ToSet(Out(d, l))
  <2> SUFFICES ASSUME NEW d \in Dirs, NEW l \in Log!Logs
               PROVE  /\ Log!ToSet(Out(d, l)) \in SUBSET Nat
                      /\ Log!ToSet(Out(d, l)') =
                            IF d = dir /\ l = ev.log THEN Log!ToSet(Out(d, l)) \cup P(ev)
                            ELSE Log!ToSet(Out(d, l))
    OBVIOUS
  <2>1. Log!ToSet(Out(d, l)) \in SUBSET Nat
    BY <1>7 DEF Log!ToSet
  <2>2. Log!ToSet(Out(d, l) \o Log!PiecesOf(ev)) = Log!ToSet(Out(d, l)) \cup P(ev)
    BY <1>5, <1>7, SetOfConcat
  <2> HIDE DEF P
  <2> QED
    BY <1>6, <2>1, <2>2
<1> HIDE DEF P
<1>9. \A d \in Dirs : \A a \in Log!ToSet(Out(d, ev.log)) : a < 2 * ev.n - 1
  BY <1>2, <1>3 DEF LogInv, QueueRises
<1>10. LogShape'
  BY <1>1, <1>3, <1>6, PartsAssumption DEF LogInv, LogShape
<1>11. MirrorIsLatest'
  BY <1>1 DEF LogInv, MirrorIsLatest
<1>12. QueueRises'
  <2>1. \A i \in 1..Len(events') : events'[i].n <= chunks
    BY <1>3 DEF LogInv, QueueRises
  <2>2. \A i, j \in 1..Len(events') :
           i < j /\ events'[i].log = events'[j].log => events'[i].n < events'[j].n
    BY <1>3 DEF LogInv, QueueRises
  <2>3. \A i \in 1..Len(events'), d \in Dirs : \A p \in Log!ToSet(Out(d, events[i].log)') :
           p < 2 * events'[i].n - 1
    <3> SUFFICES ASSUME NEW i \in 1..Len(events'), NEW d \in Dirs,
                        NEW p \in Log!ToSet(Out(d, events[i].log)')
                 PROVE  p < 2 * events'[i].n - 1
      OBVIOUS
    <3>1. PICK e \in LogEvents : e = events'[i] /\ e = events[i + 1] /\ i + 1 \in 1..Len(events)
      BY <1>3
    <3>2. e.n \in Nat \ {0} /\ e.log \in Log!Logs
      BY DEF LogEvents
    <3>3. \A a \in Log!ToSet(Out(d, e.log)) : a < 2 * e.n - 1
      BY <3>1 DEF LogInv, QueueRises
    <3>4. CASE p \in Log!ToSet(Out(d, e.log))
      BY <3>1, <3>3, <3>4
    <3>5. CASE p \in P(ev) /\ e.log = ev.log
      <4>1. ev.n < e.n
        BY <1>2, <1>3, <3>1, <3>5 DEF LogInv, QueueRises
      <4> QED
        BY <1>4, <1>5, <3>1, <3>2, <3>5, <4>1
    <3>6. p \in Log!ToSet(Out(d, e.log)')
      BY <3>1 DEF Out
    <3> QED
      BY <1>8, <3>2, <3>4, <3>5, <3>6
  <2> QED
    BY <1>1, <2>1, <2>2, <2>3 DEF QueueRises
<1>13. LogsRise'
  <2>1. \A d \in Dirs, l \in Log!Logs : Log!Rising(Out(d, l)')
    <3> SUFFICES ASSUME NEW d \in Dirs, NEW l \in Log!Logs PROVE Log!Rising(Out(d, l)')
      OBVIOUS
    <3>1. Log!Rising(Out(d, l))
      BY DEF LogInv, LogsRise
    <3>2. l = ev.log => \A a \in Log!ToSet(Out(d, l)) : \A b \in P(ev) : a < b
      BY <1>4, <1>5, <1>8, <1>9
    <3>3. l = ev.log => Log!Rising(Out(d, l) \o Log!PiecesOf(ev))
      BY <1>5, <1>7, <3>1, <3>2, RisingConcat DEF P
    <3> QED
      BY <1>6, <3>1, <3>3
  <2>2. \A d \in Dirs, l \in Log!Logs : \A p \in Log!ToSet(Out(d, l)') : p <= 2 * chunks
    <3> SUFFICES ASSUME NEW d \in Dirs, NEW l \in Log!Logs, NEW p \in Log!ToSet(Out(d, l)')
                 PROVE  p <= 2 * chunks
      OBVIOUS
    <3>1. CASE p \in Log!ToSet(Out(d, l))
      BY <3>1 DEF LogInv, LogsRise
    <3>2. CASE p \in P(ev)
      BY <1>4, <1>5, <3>2
    <3> QED
      BY <1>8, <3>1, <3>2
  <2>3. \A l \in Log!Logs : \A d, e \in Dirs : \A p \in Log!ToSet(Out(d, l)') :
           d # e => p \notin Log!ToSet(Out(e, l)')
    <3> SUFFICES ASSUME NEW l \in Log!Logs, NEW d \in Dirs, NEW e \in Dirs, d # e,
                        NEW p \in Log!ToSet(Out(d, l)'), p \in Log!ToSet(Out(e, l)')
                 PROVE  FALSE
      OBVIOUS
    <3>1. CASE p \in Log!ToSet(Out(d, l)) /\ p \in Log!ToSet(Out(e, l))
      BY <3>1 DEF LogInv, LogsRise
    <3>2. CASE p \in P(ev) /\ l = ev.log
      <4>1. p \in Log!ToSet(Out(d, l)) \/ p \in Log!ToSet(Out(e, l))
        BY <1>8
      <4> QED
        BY <1>4, <1>5, <1>8, <1>9, <3>2, <4>1
    <3> QED
      BY <1>8, <3>1, <3>2
  <2> QED
    BY <1>1, <2>1, <2>2, <2>3 DEF LogsRise
<1>14. DueIsThere'
  <2> SUFFICES ASSUME NEW l \in Log!Logs, NEW p \in Nat
               PROVE  p \in due[l] <=> \/ \E d \in Dirs : p \in Log!ToSet(Out(d, l)')
                                       \/ Pending(events', l, p)
                                       \/ p \in lost[l]
    BY <1>1 DEF DueIsThere, Pending
  <2>1. Pending(events, l, p) <=> (l = ev.log /\ p \in P(ev)) \/ Pending(events', l, p)
    <3>1. Pending(events, l, p) => (l = ev.log /\ p \in P(ev)) \/ Pending(events', l, p)
      <4> SUFFICES ASSUME NEW i \in 1..Len(events), events[i].log = l,
                          p \in Log!ToSet(Log!PiecesOf(events[i]))
                   PROVE  (l = ev.log /\ p \in P(ev)) \/ Pending(events', l, p)
        BY DEF Pending
      <4> QED
        BY <1>2, <1>3 DEF Pending, P
    <3>2. l = ev.log /\ p \in P(ev) => Pending(events, l, p)
      BY <1>2, <1>3 DEF Pending, P
    <3>3. Pending(events', l, p) => Pending(events, l, p)
      BY <1>3 DEF Pending
    <3> QED
      BY <3>1, <3>2, <3>3
  <2>2. (\E d \in Dirs : p \in Log!ToSet(Out(d, l)')) <=>
           (\E d \in Dirs : p \in Log!ToSet(Out(d, l))) \/ (l = ev.log /\ p \in P(ev))
    BY <1>4, <1>8
  <2> QED
    BY <2>1, <2>2 DEF LogInv, DueIsThere
<1> QED
  BY <1>10, <1>11, <1>12, <1>13, <1>14 DEF LogInv

(* What finds room in the queue goes into it, and the rest is lost.        *)
LEMMA QueuedSplits ==
  ASSUME LogShape, NEW evs \in Seq(LogEvents), Log!Queued(evs)
  PROVE  \E k \in 0..Len(evs) :
            /\ events' \in Seq(LogEvents) /\ Len(events') = Len(events) + k
            /\ Len(events') <= LogQueue
            /\ \A i \in 1..Len(events) : events'[i] = events[i]
            /\ \A i \in 1..k : events'[Len(events) + i] = evs[i]
            /\ lost' \in [Log!Logs -> SUBSET Nat]
            /\ \A l \in Log!Logs, p \in Nat :
                  p \in lost'[l] <=> \/ p \in lost[l]
                                     \/ \E i \in k + 1..Len(evs) :
                                           /\ evs[i].log = l
                                           /\ p \in Log!ToSet(Log!PiecesOf(evs[i]))
<1> DEFINE room == LogQueue - Len(events)
           in == SubSeq(evs, 1, IF Len(evs) < room THEN Len(evs) ELSE room)
<1>1. /\ Len(events) \in Nat /\ room \in Nat /\ Len(evs) \in Nat /\ events \in Seq(LogEvents)
  BY PartsAssumption DEF LogShape
<1>2. PICK k \in 0..Len(evs) : k = (IF Len(evs) < room THEN Len(evs) ELSE room) /\ k <= room
  BY <1>1
<1>3. /\ SubSeq(evs, 1, k) \in Seq(LogEvents) /\ Len(SubSeq(evs, 1, k)) = k
      /\ \A i \in 1..k : SubSeq(evs, 1, k)[i] = evs[i]
  BY <1>1
<1>4. PICK rest \in Seq(LogEvents) : rest = SubSeq(evs, k + 1, Len(evs))
  <2>1. /\ k + 1 \in Int /\ Len(evs) \in Int
        /\ \A i \in k + 1..Len(evs) : evs[i] \in LogEvents
    BY <1>1
  <2>2. SubSeq(evs, k + 1, Len(evs)) \in Seq(LogEvents)
    BY <2>1, SubSeqProperties
  <2> QED
    BY <2>2
<1>10. Len(rest) = Len(evs) - k /\ \A i \in 1..Len(rest) : rest[i] = evs[k + i]
  <2>1. k + 1 \in Int /\ Len(evs) \in Int /\ k + 1 <= Len(evs) + 1
        /\ \A i \in k + 1..Len(evs) : evs[i] \in LogEvents
    BY <1>1
  <2> HIDE DEF room, in
  <2>2. /\ Len(rest) = Len(evs) - k
        /\ \A i \in 1..Len(evs) - k : rest[i] = evs[k + 1 + i - 1]
    BY <1>1, <1>4, <2>1, SubSeqProperties
  <2> QED
    BY <1>1, <2>2
<1>5. /\ events' = events \o SubSeq(evs, 1, k)
      /\ lost' = [l \in Log!Logs |-> lost[l] \cup UNION {Log!ToSet(Log!PiecesOf(ev)) :
                                         ev \in {e \in Log!ToSet(rest) : e.log = l}}]
  BY <1>2, <1>3, <1>4 DEF Log!Queued
<1>6. /\ events' \in Seq(LogEvents) /\ Len(events') = Len(events) + k
      /\ Len(events') <= LogQueue
      /\ \A i \in 1..Len(events) : events'[i] = events[i]
      /\ \A i \in 1..k : events'[Len(events) + i] = evs[i]
  <2>1. PICK s \in Seq(LogEvents) : s = SubSeq(evs, 1, k)
    BY <1>3
  <2>2. /\ events' = events \o s /\ Len(s) = k /\ \A i \in 1..k : s[i] = evs[i]
        /\ k \in Nat /\ Len(events) + k <= LogQueue
    BY <1>1, <1>2, <1>3, <1>5, <2>1, PartsAssumption
  <2> HIDE DEF in, room
  <2> QED
    BY <1>1, <2>1, <2>2
<1>7. \A l \in Log!Logs, p \in Nat :
         p \in lost'[l] <=> p \in lost[l] \/ Pending(rest, l, p)
  <2> SUFFICES ASSUME NEW l \in Log!Logs, NEW p \in Nat
               PROVE  p \in lost'[l] <=> p \in lost[l] \/ Pending(rest, l, p)
    OBVIOUS
  <2>1. p \in UNION {Log!ToSet(Log!PiecesOf(ev)) : ev \in {e \in Log!ToSet(rest) : e.log = l}}
           <=> Pending(rest, l, p)
    BY PendingIs
  <2> QED
    BY <1>5, <2>1
<1>8. \A l \in Log!Logs, p \in Nat :
         Pending(rest, l, p) <=> \E i \in k + 1..Len(evs) :
                                   evs[i].log = l /\ p \in Log!ToSet(Log!PiecesOf(evs[i]))
  <2> SUFFICES ASSUME NEW l \in Log!Logs, NEW p \in Nat
               PROVE  Pending(rest, l, p) <=>
                         \E i \in k + 1..Len(evs) :
                            evs[i].log = l /\ p \in Log!ToSet(Log!PiecesOf(evs[i]))
    OBVIOUS
  <2>1. \A i \in k + 1..Len(evs) : i - k \in 1..Len(rest) /\ rest[i - k] = evs[i]
    <3> SUFFICES ASSUME NEW i \in k + 1..Len(evs)
                 PROVE  i - k \in 1..Len(rest) /\ rest[i - k] = evs[i]
      OBVIOUS
    <3>1. i - k \in 1..Len(rest) /\ k + (i - k) = i
      BY <1>1, <1>2, <1>4, <1>10, SMTT(30)
    <3> QED
      BY <1>10, <3>1
  <2>2. \A i \in 1..Len(rest) : k + i \in k + 1..Len(evs)
    BY <1>1, <1>2, <1>4, <1>10
  <2> QED
    BY <1>10, <2>1, <2>2 DEF Pending
<1>9. lost' \in [Log!Logs -> SUBSET Nat]
  <2> SUFFICES ASSUME NEW l \in Log!Logs
               PROVE  lost[l] \cup UNION {Log!ToSet(Log!PiecesOf(ev)) :
                                  ev \in {e \in Log!ToSet(rest) : e.log = l}} \in SUBSET Nat
    BY <1>5
  <2>1. \A e \in Log!ToSet(rest) : e \in LogEvents
    BY <1>4 DEF Log!ToSet
  <2>2. \A e \in Log!ToSet(rest) : Log!ToSet(Log!PiecesOf(e)) \in SUBSET Nat
    BY <2>1, PiecesRise
  <2> QED
    BY <2>2 DEF LogShape
<1>11. \A l \in Log!Logs, p \in Nat :
          p \in lost'[l] <=> \/ p \in lost[l]
                             \/ \E i \in k + 1..Len(evs) :
                                   /\ evs[i].log = l
                                   /\ p \in Log!ToSet(Log!PiecesOf(evs[i]))
  BY <1>7, <1>8
<1> QED
  <2> HIDE DEF in, room
  <2> WITNESS k \in 0..Len(evs)
  <2> QED
    BY <1>6, <1>9, <1>11

LEMMA RecordKeeps ==
  ASSUME LogInv, NEW kind \in Log!Kinds, Log!Record(kind)
  PROVE  LogInv'
<1> DEFINE P(ev) == Log!ToSet(Log!PiecesOf(ev))
           e0 == [log |-> 0, kind |-> kind, n |-> chunks + 1]
           e1 == [log |-> mirror, kind |-> kind, n |-> chunks + 1]
<1>1. /\ chunks' = chunks + 1 /\ UNCHANGED <<dir, files, buffers, mirror, runs, begun>>
      /\ Log!Queued(IF mirror = 0 THEN <<e0>> ELSE <<e0, e1>>)
      /\ due' = [l \in Log!Logs |-> IF l \in Log!Wanted THEN due[l] \cup P(e0) ELSE due[l]]
  BY DEF Log!Record, Log!Port
<1>2. /\ chunks \in Nat /\ mirror \in Log!Logs /\ 0 \in Log!Logs /\ chunks + 1 \in Nat \ {0}
      /\ Len(events) \in Nat
  BY PartsAssumption DEF LogInv, LogShape, MirrorIsLatest, Log!Logs
<1>3. e0 \in LogEvents /\ e1 \in LogEvents
  BY <1>2 DEF LogEvents
<1>4. P(e1) = P(e0)
  BY DEF Log!PiecesOf
<1>5. PICK evs \in Seq(LogEvents) :
         /\ Log!Queued(evs)
         /\ \A i \in 1..Len(evs) : evs[i].n = chunks + 1 /\ P(evs[i]) = P(e0)
         /\ \A i, j \in 1..Len(evs) : evs[i].log = evs[j].log => i = j
         /\ \A l \in Log!Logs : l \in Log!Wanted <=> \E i \in 1..Len(evs) : evs[i].log = l
  <2>1. Log!Wanted = {0, mirror}
    BY DEF LogInv, MirrorIsLatest, LogShape, Log!Wanted, Log!Port
  <2>2. CASE mirror = 0
    <3>1. <<e0>> \in Seq(LogEvents) /\ Len(<<e0>>) = 1 /\ <<e0>>[1] = e0
      BY <1>3
    <3>2. \A i \in 1..1 : i = 1
      OBVIOUS
    <3>3. e0.n = chunks + 1 /\ e0.log = 0
      OBVIOUS
    <3>4. Log!Queued(<<e0>>)
      BY <1>1, <2>2
    <3> HIDE DEF P, e0, e1
    <3> USE <3>1
    <3> WITNESS <<e0>> \in Seq(LogEvents)
    <3> QED
      BY <2>1, <2>2, <3>1, <3>2, <3>3, <3>4
  <2>3. CASE mirror # 0
    <3>1. /\ <<e0, e1>> \in Seq(LogEvents) /\ Len(<<e0, e1>>) = 2
          /\ <<e0, e1>>[1] = e0 /\ <<e0, e1>>[2] = e1
      BY <1>3
    <3>2. \A i \in 1..2 : i = 1 \/ i = 2
      OBVIOUS
    <3>3. 1 \in 1..2 /\ 2 \in 1..2
      OBVIOUS
    <3>4. e0.n = chunks + 1 /\ e0.log = 0 /\ e1.n = chunks + 1 /\ e1.log = mirror
      OBVIOUS
    <3>5. Log!Queued(<<e0, e1>>)
      BY <1>1, <2>3
    <3> HIDE DEF P, e0, e1
    <3> USE <3>1
    <3> WITNESS <<e0, e1>> \in Seq(LogEvents)
    <3> QED
      BY <1>4, <2>1, <2>3, <3>1, <3>2, <3>3, <3>4, <3>5
  <2> QED
    BY <2>2, <2>3
<1>6. PICK k \in 0..Len(evs) :
         /\ events' \in Seq(LogEvents) /\ Len(events') = Len(events) + k
         /\ Len(events') <= LogQueue
         /\ \A i \in 1..Len(events) : events'[i] = events[i]
         /\ \A i \in 1..k : events'[Len(events) + i] = evs[i]
         /\ lost' \in [Log!Logs -> SUBSET Nat]
         /\ \A l \in Log!Logs, p \in Nat :
               p \in lost'[l] <=> \/ p \in lost[l]
                                  \/ \E i \in k + 1..Len(evs) : evs[i].log = l /\ p \in P(evs[i])
  BY <1>5, QueuedSplits DEF LogInv
<1>7. P(e0) \in SUBSET Nat /\ \A p \in P(e0) : 2 * (chunks + 1) - 1 <= p
  <2>1. e0.n = chunks + 1
    OBVIOUS
  <2> HIDE DEF e0
  <2> QED
    BY <1>3, <2>1, PiecesRise
<1> HIDE DEF P, e0, e1
<1>15. \A i \in 1..Len(events) : events[i].n \in Nat /\ events[i].n <= chunks
  <2> SUFFICES ASSUME NEW i \in 1..Len(events)
               PROVE  events[i].n \in Nat /\ events[i].n <= chunks
    OBVIOUS
  <2>1. events[i] \in LogEvents
    BY DEF LogInv, LogShape
  <2> QED
    BY <2>1 DEF LogEvents, LogInv, QueueRises
<1>8. \A i \in 1..Len(events') :
         \/ i \in 1..Len(events) /\ events'[i] = events[i]
         \/ i > Len(events) /\ i - Len(events) \in 1..Len(evs)
               /\ events'[i] = evs[i - Len(events)]
  <2> SUFFICES ASSUME NEW i \in 1..Len(events'), ~(i \in 1..Len(events))
               PROVE  i > Len(events) /\ i - Len(events) \in 1..Len(evs)
                        /\ events'[i] = evs[i - Len(events)]
    BY <1>6
  <2>1. i > Len(events) /\ i - Len(events) \in 1..k /\ Len(events) + (i - Len(events)) = i
        /\ i - Len(events) \in 1..Len(evs)
    BY <1>2, <1>6
  <2> QED
    BY <1>6, <2>1
<1>9. \A d \in Dirs, l \in Log!Logs : Out(d, l)' = Out(d, l)
  BY <1>1 DEF Out
<1>10. LogShape'
  BY <1>1, <1>2, <1>6, <1>7 DEF LogInv, LogShape
<1>11. MirrorIsLatest'
  BY <1>1 DEF LogInv, MirrorIsLatest
<1>12. QueueRises'
  <2>1. \A i \in 1..Len(events') : events'[i].n <= chunks + 1
    <3> SUFFICES ASSUME NEW i \in 1..Len(events') PROVE events'[i].n <= chunks + 1
      OBVIOUS
    <3>1. CASE i \in 1..Len(events) /\ events'[i] = events[i]
      BY <1>2, <1>15, <3>1
    <3>2. CASE i - Len(events) \in 1..Len(evs) /\ events'[i] = evs[i - Len(events)]
      BY <1>2, <1>5, <3>2
    <3> QED
      BY <1>8, <3>1, <3>2
  <2>2. \A i, j \in 1..Len(events') :
           i < j /\ events'[i].log = events'[j].log => events'[i].n < events'[j].n
    <3> SUFFICES ASSUME NEW i \in 1..Len(events'), NEW j \in 1..Len(events'),
                        i < j, events'[i].log = events'[j].log
                 PROVE  events'[i].n < events'[j].n
      OBVIOUS
    <3>2. CASE j \in 1..Len(events) /\ events'[j] = events[j]
      <4>1. i \in 1..Len(events) /\ events'[i] = events[i]
        BY <1>2, <1>6, <3>2
      <4> QED
        BY <3>2, <4>1 DEF LogInv, QueueRises
    <3>3. CASE j > Len(events) /\ j - Len(events) \in 1..Len(evs)
                 /\ events'[j] = evs[j - Len(events)]
      <4>1. CASE i \in 1..Len(events) /\ events'[i] = events[i]
        BY <1>2, <1>5, <1>15, <3>3, <4>1
      <4>2. CASE i > Len(events) /\ i - Len(events) \in 1..Len(evs)
                   /\ events'[i] = evs[i - Len(events)]
        BY <1>2, <1>5, <3>3, <4>2
      <4> QED
        BY <1>8, <4>1, <4>2
    <3> QED
      BY <1>8, <3>2, <3>3
  <2>3. \A i \in 1..Len(events'), d \in Dirs : \A p \in Log!ToSet(Out(d, events[i].log)') :
           p < 2 * events'[i].n - 1
    <3> SUFFICES ASSUME NEW i \in 1..Len(events'), NEW d \in Dirs,
                        NEW p \in Log!ToSet(Out(d, events[i].log)')
                 PROVE  p < 2 * events'[i].n - 1
      OBVIOUS
    <3>1. PICK e \in LogEvents : e = events'[i]
      BY <1>6
    <3>2. e.log \in Log!Logs /\ e.n \in Nat
      BY DEF LogEvents
    <3>3. p \in Log!ToSet(Out(d, e.log))
      BY <1>1, <3>1 DEF Out
    <3>4. CASE i \in 1..Len(events) /\ events'[i] = events[i]
      BY <3>1, <3>3, <3>4 DEF LogInv, QueueRises
    <3>5. CASE i > Len(events) /\ i - Len(events) \in 1..Len(evs)
                 /\ events'[i] = evs[i - Len(events)]
      <4>1. e.n = chunks + 1
        BY <1>5, <3>1, <3>5
      <4>2. p <= 2 * chunks /\ p \in Nat
        <5>1. Out(d, e.log) \in Seq(Nat)
          BY <3>2, SetOfConcat DEF LogInv, LogShape, Out
        <5>2. p \in Nat
          BY <3>3, <5>1 DEF Log!ToSet
        <5> QED
          BY <3>2, <3>3, <5>2 DEF LogInv, LogsRise
      <4> QED
        BY <1>2, <3>1, <4>1, <4>2
    <3> QED
      BY <1>8, <3>4, <3>5
  <2> QED
    BY <1>1, <2>1, <2>2, <2>3 DEF QueueRises
<1>13. LogsRise'
  <2>1. \A d \in Dirs, l \in Log!Logs : \A p \in Log!ToSet(Out(d, l)) :
           p \in Nat /\ p <= 2 * chunks
    <3>1. \A d \in Dirs, l \in Log!Logs : Out(d, l) \in Seq(Nat)
      BY SetOfConcat DEF LogInv, LogShape, Out
    <3>2. \A d \in Dirs, l \in Log!Logs : \A p \in Log!ToSet(Out(d, l)) : p \in Nat
      BY <3>1 DEF Log!ToSet
    <3> QED
      BY <3>2 DEF LogInv, LogsRise
  <2>2. \A d \in Dirs, l \in Log!Logs : \A p \in Log!ToSet(Out(d, l)) : p <= 2 * (chunks + 1)
    BY <1>2, <2>1
  <2> QED
    BY <1>1, <1>9, <2>2 DEF LogInv, LogsRise
<1>14. DueIsThere'
  <2> SUFFICES ASSUME NEW l \in Log!Logs, NEW p \in Nat
               PROVE  p \in due'[l] <=> \/ \E d \in Dirs : p \in Log!ToSet(Out(d, l))
                                        \/ Pending(events', l, p)
                                        \/ p \in lost'[l]
    BY <1>9 DEF DueIsThere, Pending
  <2>1. p \in due'[l] <=> p \in due[l] \/ \E i \in 1..Len(evs) : evs[i].log = l /\ p \in P(e0)
    <3>1. p \in due'[l] <=> p \in due[l] \/ (l \in Log!Wanted /\ p \in P(e0))
      BY <1>1
    <3> QED
      BY <1>5, <3>1
  <2>2. Pending(events', l, p) <=> \/ Pending(events, l, p)
                                   \/ \E i \in 1..k : evs[i].log = l /\ p \in P(evs[i])
    <3>1. \A i \in 1..k : Len(events) + i \in 1..Len(events')
      BY <1>2, <1>6
    <3>2. \A i \in 1..Len(events) : i \in 1..Len(events')
      BY <1>2, <1>6
    <3>3. \A i \in 1..Len(events') :
             \/ i \in 1..Len(events) /\ events'[i] = events[i]
             \/ \E j \in 1..k : events'[i] = evs[j]
      <4> SUFFICES ASSUME NEW i \in 1..Len(events'), ~(i \in 1..Len(events))
                   PROVE  \E j \in 1..k : events'[i] = evs[j]
        BY <1>6
      <4>1. i - Len(events) \in 1..k /\ Len(events) + (i - Len(events)) = i
        BY <1>2, <1>6
      <4> QED
        BY <1>6, <4>1
    <3>4. ASSUME Pending(events', l, p)
          PROVE  \/ Pending(events, l, p)
                 \/ \E i \in 1..k : evs[i].log = l /\ p \in P(evs[i])
      <4>1. PICK i \in 1..Len(events') :
               events'[i].log = l /\ p \in Log!ToSet(Log!PiecesOf(events'[i]))
        BY <3>4 DEF Pending
      <4>2. CASE i \in 1..Len(events) /\ events'[i] = events[i]
        BY <4>1, <4>2 DEF Pending
      <4>3. CASE \E j \in 1..k : events'[i] = evs[j]
        BY <4>1, <4>3 DEF P
      <4> QED
        BY <3>3, <4>2, <4>3
    <3>5. Pending(events, l, p) => Pending(events', l, p)
      BY <1>6, <3>2 DEF Pending
    <3>6. ASSUME NEW i \in 1..k, evs[i].log = l, p \in P(evs[i])
          PROVE  Pending(events', l, p)
      BY <1>6, <3>1, <3>6 DEF Pending, P
    <3> QED
      BY <3>4, <3>5, <3>6
  <2>3. \A i \in 1..Len(evs) : i \in 1..k \/ i \in k + 1..Len(evs)
    BY <1>6
  <2>4. \A i \in 1..k : i \in 1..Len(evs)
    BY <1>6
  <2>5. \A i \in k + 1..Len(evs) : i \in 1..Len(evs)
    BY <1>6
  <2>6. (\E i \in 1..Len(evs) : evs[i].log = l /\ p \in P(e0)) <=>
           \/ \E i \in 1..k : evs[i].log = l /\ p \in P(evs[i])
           \/ \E i \in k + 1..Len(evs) : evs[i].log = l /\ p \in P(evs[i])
    BY <1>5, <2>3, <2>4, <2>5
  <2>7. p \in due[l] <=> \/ \E d \in Dirs : p \in Log!ToSet(Out(d, l))
                         \/ Pending(events, l, p)
                         \/ p \in lost[l]
    BY DEF LogInv, DueIsThere
  <2> QED
    BY <1>6, <2>1, <2>2, <2>6, <2>7
<1> QED
  BY <1>10, <1>11, <1>12, <1>13, <1>14 DEF LogInv

(* Partial lines that are dropped are lost, with the queue or without it.  *)
LEMMA DroppingKeeps ==
  ASSUME LogInv, NEW gone \in SUBSET Dirs, dir' \in Dirs,
         UNCHANGED <<files, mirror, runs, begun, chunks, due>>,
         buffers' = [d \in Dirs |-> IF d \in gone THEN [l \in Log!Logs |-> <<>>] ELSE buffers[d]],
         events' = events \/ events' = <<>>,
         lost' \in [Log!Logs -> SUBSET Nat],
         \A l \in Log!Logs, p \in Nat :
            p \in lost'[l] <=> \/ p \in lost[l]
                               \/ \E d \in gone : p \in Log!ToSet(buffers[d][l])
                               \/ events' # events /\ Pending(events, l, p)
  PROVE  LogInv'
<1>1. <<>> \in Seq(Nat) /\ <<>> \in Seq(LogEvents) /\ Len(<<>>) = 0 /\ Log!ToSet(<<>>) = {}
  BY DEF Log!ToSet
<1>2. \A d \in Dirs, l \in Log!Logs :
         files[d][l] \in Seq(Nat) /\ buffers[d][l] \in Seq(Nat)
  BY DEF LogInv, LogShape
<1>3. \A d \in Dirs, l \in Log!Logs :
         /\ Out(d, l) \in Seq(Nat)
         /\ Log!ToSet(Out(d, l)) = Log!ToSet(files[d][l]) \cup Log!ToSet(buffers[d][l])
         /\ Out(d, l)' = IF d \in gone THEN files[d][l] ELSE Out(d, l)
  <2> SUFFICES ASSUME NEW d \in Dirs, NEW l \in Log!Logs
               PROVE  /\ Out(d, l) \in Seq(Nat)
                      /\ Log!ToSet(Out(d, l)) = Log!ToSet(files[d][l]) \cup Log!ToSet(buffers[d][l])
                      /\ Out(d, l)' = IF d \in gone THEN files[d][l] ELSE Out(d, l)
    OBVIOUS
  <2>1. files[d][l] \in Seq(Nat) /\ buffers[d][l] \in Seq(Nat)
    BY <1>2
  <2>2. files[d][l] \o <<>> = files[d][l]
    BY <2>1, ConcatEmptySeq
  <2>3. buffers'[d][l] = IF d \in gone THEN <<>> ELSE buffers[d][l]
    OBVIOUS
  <2>4. Out(d, l)' = IF d \in gone THEN files[d][l] \o <<>> ELSE Out(d, l)
    BY <2>3 DEF Out
  <2>5. /\ Out(d, l) \in Seq(Nat)
        /\ Log!ToSet(Out(d, l)) = Log!ToSet(files[d][l]) \cup Log!ToSet(buffers[d][l])
    BY <2>1, SetOfConcat DEF Out
  <2> QED
    BY <2>2, <2>4, <2>5
<1>4. \A d \in Dirs, l \in Log!Logs :
         Log!ToSet(Out(d, l)') = IF d \in gone THEN Log!ToSet(files[d][l])
                                  ELSE Log!ToSet(Out(d, l))
  BY <1>3
<1>5. \A d \in Dirs, l \in Log!Logs : Log!ToSet(Out(d, l)') \subseteq Log!ToSet(Out(d, l))
  BY <1>3, <1>4
<1>6. LogShape'
  <2>1. buffers' \in [Dirs -> [Log!Logs -> Seq(Nat)]]
    BY <1>1 DEF LogInv, LogShape
  <2>2. events' \in Seq(LogEvents) /\ Len(events') <= LogQueue
    <3>1. events \in Seq(LogEvents) /\ Len(events) <= LogQueue
      BY DEF LogInv, LogShape
    <3>2. Len(<<>>) <= LogQueue
      BY <1>1, PartsAssumption
    <3> QED
      BY <1>1, <3>1, <3>2
  <2> QED
    BY <2>1, <2>2 DEF LogInv, LogShape
<1>7. MirrorIsLatest'
  BY DEF LogInv, MirrorIsLatest
<1>8. QueueRises'
  <2>1. CASE events' = <<>>
    <3>1. 1..Len(events') = {}
      BY <1>1, <2>1
    <3> QED
      BY <3>1 DEF QueueRises
  <2>2. CASE events' = events
    <3>1. \A i \in 1..Len(events), d \in Dirs : \A p \in Log!ToSet(Out(d, events[i].log)') :
             p < 2 * events[i].n - 1
      <4> SUFFICES ASSUME NEW i \in 1..Len(events), NEW d \in Dirs,
                          NEW p \in Log!ToSet(Out(d, events[i].log)')
                   PROVE  p < 2 * events[i].n - 1
        OBVIOUS
      <4>1. PICK l \in Log!Logs : l = events[i].log
        <5>1. events[i] \in LogEvents
          BY DEF LogInv, LogShape
        <5> QED
          BY <5>1 DEF LogEvents
      <4>2. p \in Log!ToSet(Out(d, l)')
        BY <2>2, <4>1 DEF Out
      <4>3. p \in Log!ToSet(Out(d, events[i].log))
        BY <1>5, <4>1, <4>2
      <4> QED
        BY <4>3 DEF LogInv, QueueRises
    <3>2. \A i \in 1..Len(events), d \in Dirs : \A p \in Log!ToSet(Out(d, events[i].log)') :
             p < 2 * events'[i].n - 1
      BY <2>2, <3>1
    <3> QED
      BY <2>2, <3>2 DEF LogInv, QueueRises
  <2> QED
    BY <2>1, <2>2
<1>9. LogsRise'
  <2>1. \A d \in Dirs, l \in Log!Logs : Log!Rising(Out(d, l)')
    <3> SUFFICES ASSUME NEW d \in Dirs, NEW l \in Log!Logs PROVE Log!Rising(Out(d, l)')
      OBVIOUS
    <3>1. Log!Rising(Out(d, l))
      BY DEF LogInv, LogsRise
    <3>2. Log!Rising(files[d][l])
      BY <1>2, <3>1, RisingPrefix DEF Out
    <3> QED
      BY <1>3, <3>1, <3>2
  <2>2. \A d \in Dirs, l \in Log!Logs : \A p \in Log!ToSet(Out(d, l)') : p <= 2 * chunks
    BY <1>5 DEF LogInv, LogsRise
  <2>3. \A l \in Log!Logs : \A d, e \in Dirs : \A p \in Log!ToSet(Out(d, l)') :
           d # e => p \notin Log!ToSet(Out(e, l)')
    BY <1>5 DEF LogInv, LogsRise
  <2> QED
    BY <2>1, <2>2, <2>3 DEF LogsRise
<1>10. DueIsThere'
  <2> SUFFICES ASSUME NEW l \in Log!Logs, NEW p \in Nat
               PROVE  p \in due[l] <=> \/ \E d \in Dirs : p \in Log!ToSet(Out(d, l)')
                                       \/ Pending(events', l, p)
                                       \/ p \in lost'[l]
    BY DEF DueIsThere, Pending
  <2>1. Pending(<<>>, l, p) = FALSE
    BY DEF Pending
  <2>2. (\E d \in Dirs : p \in Log!ToSet(Out(d, l))) <=>
           \/ \E d \in Dirs : p \in Log!ToSet(Out(d, l)')
           \/ \E d \in gone : p \in Log!ToSet(buffers[d][l])
    BY <1>3, <1>4
  <2>3. p \in due[l] <=> \/ \E d \in Dirs : p \in Log!ToSet(Out(d, l))
                         \/ Pending(events, l, p)
                         \/ p \in lost[l]
    BY DEF LogInv, DueIsThere
  <2>4. Pending(events', l, p) \/ (events' # events /\ Pending(events, l, p))
           <=> Pending(events, l, p)
    <3>1. CASE events' = events
      BY <3>1
    <3>2. CASE events' = <<>> /\ events' # events
      BY <2>1, <3>2
    <3> QED
      BY <3>1, <3>2
  <2> QED
    BY <2>2, <2>3, <2>4
<1> QED
  BY <1>6, <1>7, <1>8, <1>9, <1>10 DEF LogInv

LEMMA MoveKeeps ==
  ASSUME LogInv, Log!Move
  PROVE  LogInv'
<1>1. /\ UNCHANGED <<files, mirror, runs, begun, chunks, due>> /\ events' = events
      /\ dir \in Dirs /\ dir' \in Dirs
      /\ buffers \in [Dirs -> [Log!Logs -> Seq(Nat)]] /\ lost \in [Log!Logs -> SUBSET Nat]
  BY DEF Log!Move, LogInv, LogShape
<1>2. CASE Log!Forgets(dir)
  <2>1. PICK gone \in SUBSET Dirs : gone = {dir}
    BY <1>1
  <2>2. /\ buffers' = [buffers EXCEPT ![dir] = [l \in Log!Logs |-> <<>>]]
        /\ lost' = [l \in Log!Logs |-> lost[l] \cup Log!ToSet(buffers[dir][l])]
    BY <1>2 DEF Log!Forgets
  <2>3. buffers' = [d \in Dirs |-> IF d \in gone THEN [l \in Log!Logs |-> <<>>] ELSE buffers[d]]
    BY <1>1, <2>1, <2>2
  <2>4. \A l \in Log!Logs : Log!ToSet(buffers[dir][l]) \in SUBSET Nat
    BY <1>1 DEF Log!ToSet
  <2>5. lost' \in [Log!Logs -> SUBSET Nat]
    BY <1>1, <2>2, <2>4
  <2>6. \A l \in Log!Logs, p \in Nat :
            p \in lost'[l] <=> \/ p \in lost[l]
                               \/ \E d \in gone : p \in Log!ToSet(buffers[d][l])
                               \/ events' # events /\ Pending(events, l, p)
    BY <1>1, <2>1, <2>2
  <2> QED
    BY <1>1, <2>3, <2>5, <2>6, DroppingKeeps
<1>3. CASE UNCHANGED <<buffers, lost>>
  <2>1. PICK gone \in SUBSET Dirs : gone = {}
    OBVIOUS
  <2>2. buffers' = [d \in Dirs |-> IF d \in gone THEN [l \in Log!Logs |-> <<>>] ELSE buffers[d]]
    BY <1>1, <1>3, <2>1
  <2>3. \A l \in Log!Logs, p \in Nat :
            p \in lost'[l] <=> \/ p \in lost[l]
                               \/ \E d \in gone : p \in Log!ToSet(buffers[d][l])
                               \/ events' # events /\ Pending(events, l, p)
    BY <1>1, <1>3, <2>1
  <2> QED
    BY <1>1, <1>3, <2>2, <2>3, DroppingKeeps
<1> QED
  BY <1>2, <1>3 DEF Log!Move

LEMMA CloseKeeps ==
  ASSUME LogInv, Log!Close
  PROVE  LogInv'
<1>1. /\ UNCHANGED <<dir, files, mirror, runs, begun, chunks, due>> /\ events' = <<>>
      /\ dir' \in Dirs /\ buffers' = [d \in Dirs |-> [l \in Log!Logs |-> <<>>]]
      /\ events \in Seq(LogEvents)
      /\ buffers \in [Dirs -> [Log!Logs -> Seq(Nat)]] /\ lost \in [Log!Logs -> SUBSET Nat]
  BY DEF Log!Close, LogInv, LogShape, Log!Empty
<1> DEFINE Dropped(l) == UNION {Log!ToSet(buffers[d][l]) : d \in Dirs}
           Unwritten(l) == UNION {Log!ToSet(Log!PiecesOf(ev)) :
                                     ev \in {e \in Log!ToSet(events) : e.log = l}}
<1>2. lost' = [l \in Log!Logs |-> lost[l] \cup Dropped(l) \cup Unwritten(l)]
  BY DEF Log!Close, Log!InQueue
<1>3. \A l \in Log!Logs, p \in Nat : p \in Unwritten(l) <=> Pending(events, l, p)
  BY <1>1, PendingIs
<1>4. \A l \in Log!Logs : Dropped(l) \in SUBSET Nat /\ Unwritten(l) \in SUBSET Nat
  <2> SUFFICES ASSUME NEW l \in Log!Logs
               PROVE  Dropped(l) \in SUBSET Nat /\ Unwritten(l) \in SUBSET Nat
    OBVIOUS
  <2>1. \A d \in Dirs : Log!ToSet(buffers[d][l]) \in SUBSET Nat
    BY <1>1 DEF Log!ToSet
  <2>2. \A e \in Log!ToSet(events) : e \in LogEvents
    BY <1>1 DEF Log!ToSet
  <2>3. \A e \in Log!ToSet(events) : Log!ToSet(Log!PiecesOf(e)) \in SUBSET Nat
    BY <2>2, PiecesRise
  <2> QED
    BY <2>1, <2>3
<1>5. \A l \in Log!Logs : \A p : p \in Dropped(l) <=> \E d \in Dirs : p \in Log!ToSet(buffers[d][l])
  OBVIOUS
<1> HIDE DEF Dropped, Unwritten
<1>6. lost' \in [Log!Logs -> SUBSET Nat]
  BY <1>1, <1>2, <1>4
<1>7. PICK gone \in SUBSET Dirs : gone = Dirs
  OBVIOUS
<1>8. \A l \in Log!Logs, p \in Nat : Pending(events, l, p) => events' # events
  BY <1>1 DEF Pending
<1>9. \A l \in Log!Logs, p \in Nat :
          p \in lost'[l] <=> \/ p \in lost[l]
                             \/ \E d \in gone : p \in Log!ToSet(buffers[d][l])
                             \/ events' # events /\ Pending(events, l, p)
  BY <1>2, <1>3, <1>5, <1>7, <1>8
<1>10. buffers' = [d \in Dirs |-> IF d \in gone THEN [l \in Log!Logs |-> <<>>] ELSE buffers[d]]
  BY <1>1, <1>7
<1> QED
  BY <1>1, <1>6, <1>9, <1>10, DroppingKeeps

LEMMA RunsKeep ==
  ASSUME LogInv, Log!Begin \/ \E r \in 1..MaxRuns : Log!End(r)
  PROVE  LogInv'
<1>1. UNCHANGED <<events, dir, files, buffers, chunks, due, lost>>
  BY DEF Log!Begin, Log!End, Log!ghosts, Log!bounds
<1>2. /\ begun' \in 0..MaxRuns /\ runs' \subseteq 1..begun'
      /\ mirror' = IF begun' \in runs' THEN begun' ELSE 0
  <2>1. begun \in 0..MaxRuns /\ runs \subseteq 1..begun
        /\ mirror = IF begun \in runs THEN begun ELSE 0
    BY DEF LogInv, LogShape, MirrorIsLatest
  <2>2. CASE Log!Begin
    BY <2>1, <2>2, PartsAssumption DEF Log!Begin
  <2>3. CASE \E r \in 1..MaxRuns : Log!End(r)
    BY <2>1, <2>3, PartsAssumption DEF Log!End, Log!bounds
  <2> QED
    BY <2>2, <2>3
<1>3. LogShape' /\ MirrorIsLatest'
  BY <1>1, <1>2 DEF LogInv, LogShape, MirrorIsLatest
<1>4. QueueRises' /\ LogsRise' /\ DueIsThere'
  BY <1>1 DEF LogInv, QueueRises, LogsRise, DueIsThere, Out, Pending
<1> QED
  BY <1>3, <1>4 DEF LogInv

LEMMA LogStep == LogInv /\ [Log!Next]_(Log!vars) => LogInv'
<1> SUFFICES ASSUME LogInv, [Log!Next]_(Log!vars) PROVE LogInv'
  OBVIOUS
<1>1. CASE Log!Write
  BY <1>1, WriteKeeps
<1>2. CASE Log!Begin \/ \E r \in 1..MaxRuns : Log!End(r)
  BY <1>2, RunsKeep
<1>3. CASE Log!Move
  BY <1>3, MoveKeeps
<1>4. CASE Log!Close
  BY <1>4, CloseKeeps
<1>5. CASE \E k \in Log!Kinds : Log!Record(k)
  BY <1>5, RecordKeeps
<1>6. CASE UNCHANGED Log!vars
  <2>1. UNCHANGED <<events, dir, files, buffers, mirror, runs, begun, chunks, due, lost>>
    BY <1>6 DEF Log!vars, Log!bounds, Log!ghosts
  <2> QED
    BY <2>1 DEF LogInv, LogShape, MirrorIsLatest, QueueRises, LogsRise, DueIsThere, Out, Pending
<1> QED
  BY <1>1, <1>2, <1>3, <1>4, <1>5, <1>6 DEF Log!Next

LEMMA LogGives == LogInv => LogsAreFaithful
<1> SUFFICES ASSUME LogInv, NEW l \in Log!Logs
             PROVE  /\ \A d \in Dirs : Log!Rising(files[d][l] \o buffers[d][l])
                    /\ \A d, e \in Dirs : d # e => Log!Held(d, l) \cap Log!Held(e, l) = {}
                    /\ due[l] = (UNION {Log!Held(d, l) : d \in Dirs})
                                   \cup Log!InQueue(l) \cup lost[l]
  BY DEF LogsAreFaithful, Log!LogsAreFaithful
<1>1. \A d \in Dirs : files[d][l] \in Seq(Nat) /\ buffers[d][l] \in Seq(Nat)
  BY DEF LogInv, LogShape
<1>2. \A d \in Dirs : Log!Held(d, l) = Log!ToSet(Out(d, l)) /\ Log!Held(d, l) \in SUBSET Nat
  <2> SUFFICES ASSUME NEW d \in Dirs
               PROVE  Log!Held(d, l) = Log!ToSet(Out(d, l)) /\ Log!Held(d, l) \in SUBSET Nat
    OBVIOUS
  <2>1. Log!Held(d, l) = Log!ToSet(Out(d, l))
    BY <1>1, SetOfConcat DEF Log!Held, Out
  <2>2. Out(d, l) \in Seq(Nat)
    BY <1>1, SetOfConcat DEF Out
  <2>3. Log!ToSet(Out(d, l)) \in SUBSET Nat
    BY <2>2 DEF Log!ToSet
  <2> QED
    BY <2>1, <2>3
<1>3. \A d \in Dirs : Log!Rising(files[d][l] \o buffers[d][l])
  BY DEF LogInv, LogsRise, Out
<1>4. \A d, e \in Dirs : d # e => Log!Held(d, l) \cap Log!Held(e, l) = {}
  BY <1>2 DEF LogInv, LogsRise
<1>5. events \in Seq(LogEvents) /\ \A p : p \in Log!InQueue(l) <=> Pending(events, l, p)
  <2>1. events \in Seq(LogEvents)
    BY DEF LogInv, LogShape
  <2> QED
    BY <2>1, PendingIs DEF Log!InQueue
<1>6. Log!InQueue(l) \in SUBSET Nat
  <2> SUFFICES ASSUME NEW p \in Log!InQueue(l) PROVE p \in Nat
    OBVIOUS
  <2>1. PICK i \in 1..Len(events) : p \in Log!ToSet(Log!PiecesOf(events[i]))
    BY <1>5 DEF Pending
  <2>2. events[i] \in LogEvents
    BY <1>5
  <2> QED
    BY <2>1, <2>2, PiecesRise
<1>7. \A p \in Nat : p \in due[l] <=> \/ \E d \in Dirs : p \in Log!Held(d, l)
                                      \/ p \in Log!InQueue(l)
                                      \/ p \in lost[l]
  BY <1>2, <1>5 DEF LogInv, DueIsThere
<1>8. due[l] \in SUBSET Nat /\ lost[l] \in SUBSET Nat
  BY DEF LogInv, LogShape
<1>9. due[l] = (UNION {Log!Held(d, l) : d \in Dirs}) \cup Log!InQueue(l) \cup lost[l]
  BY <1>2, <1>6, <1>7, <1>8
<1> QED
  BY <1>3, <1>4, <1>9

(* DataLogger and set_mirror, for any directories, size of the queue and   *)
(* number of runs, chunks and moves: however chunks, the writer, runs that *)
(* overlap, moves and closes interleave, every piece due in a log is there *)
(* once and in its order, waits in the queue, or was dropped on purpose.   *)
THEOREM LogsStayFaithful == Log!Spec => []LogsAreFaithful
<1>1. Log!Init => LogInv
  BY LogBegins
<1>2. LogInv /\ [Log!Next]_(Log!vars) => LogInv'
  BY LogStep
<1>3. LogInv => LogsAreFaithful
  BY LogGives
<1> QED
  BY <1>1, <1>2, <1>3, PTL DEF Log!Spec
-----------------------------------------------------------------------------
(* The keys of a session *)

Fates == [as : {"port", "gate", "menu", "sequence"}, key : Keys!Keys]
KeysOf(f) == [i \in 1..Len(f) |-> f[i].key]

Texts == Seq(Keys!Keys)
J(s, t) == s \o t

KeyShape ==
  /\ keys \in Texts /\ wire \in Texts /\ chunk \in Texts
  /\ payload \in Texts /\ seen \in Texts /\ kept \in Seq(Fates)
  /\ state \in {"plain", "one", "two", "change"} /\ esc \in Keys!Keys \X Keys!Keys

\* The keys a state stands for, and that a command finds no payload.
SeenFits ==
  /\ state = "plain" => seen = <<>>
  /\ state = "one" => seen = <<esc[1]>>
  /\ state = "change" => payload = <<>>

Flow == J(KeysOf(kept), J(payload, J(seen, J(chunk, wire))))

KeyInv == KeyShape /\ SeenFits /\ (Keys!NoShortRead => Flow = keys)

LEMMA JoinAssociates ==
  ASSUME NEW S, NEW s \in Seq(S), NEW t \in Seq(S), NEW u \in Seq(S)
  PROVE  J(J(s, t), u) = J(s, J(t, u))
<1>1. (s \o t) \o u = s \o (t \o u)
  BY ConcatAssociative
<1> QED
  BY <1>1 DEF J
LEMMA JoinCloses == \A S : \A s, t \in Seq(S) : s \o t \in Seq(S)
  OBVIOUS
LEMMA JoinAdjacent ==
  ASSUME NEW S, NEW s \in Seq(S), NEW n \in 0..Len(s)
  PROVE  SubSeq(s, 1, n) \o SubSeq(s, n + 1, Len(s)) = SubSeq(s, 1, Len(s))
<1>1. Len(s) \in Nat /\ n \in Nat /\ n <= Len(s)
  OBVIOUS
<1>2. 1 \in 1..Len(s) + 1 /\ n \in 1 - 1..Len(s) /\ Len(s) \in n..Len(s)
  BY <1>1
<1> QED
  BY <1>2, ConcatAdjacentSubSeq
LEMMA JoinEmpty == \A S : \A s \in Seq(S) : s \o <<>> = s /\ <<>> \o s = s
  BY ConcatEmptySeq

(* Texts are joined by J, of which the proofs below know only this.        *)
LEMMA Joins ==
  /\ <<>> \in Texts
  /\ \A s, t \in Texts : J(s, t) \in Texts
  /\ \A s, t, u \in Texts : J(J(s, t), u) = J(s, J(t, u))
  /\ \A s \in Texts : J(s, <<>>) = s /\ J(<<>>, s) = s
<1>1. <<>> \in Texts
  BY DEF Texts
<1>2. \A s, t \in Texts : J(s, t) \in Texts
  BY JoinCloses, Zenon DEF J, Texts
<1>3. \A s, t, u \in Texts : J(J(s, t), u) = J(s, J(t, u))
  <2> SUFFICES ASSUME NEW s \in Texts, NEW t \in Texts, NEW u \in Texts
               PROVE  J(J(s, t), u) = J(s, J(t, u))
    OBVIOUS
  <2> QED
    BY JoinAssociates DEF Texts
<1>4. \A s \in Texts : J(s, <<>>) = s /\ J(<<>>, s) = s
  BY JoinEmpty, Zenon DEF J, Texts
<1> QED
  BY <1>1, <1>2, <1>3, <1>4

LEMMA JoinsKey ==
  ASSUME NEW s \in Texts, NEW k \in Keys!Keys
  PROVE  /\ <<k>> \in Texts
         /\ Append(s, k) = J(s, <<k>>)
<1>1. <<k>> \in Texts
  BY DEF Texts
<1>2. Append(s, k) = J(s, <<k>>)
  BY AppendIsConcat DEF Texts, J
<1> QED
  BY <1>1, <1>2

LEMMA JoinsPair ==
  ASSUME NEW x \in Keys!Keys, NEW y \in Keys!Keys
  PROVE  <<x, y>> \in Texts /\ <<x, y>> = J(<<x>>, <<y>>)
<1>1. <<x>> \in Texts /\ <<x, y>> \in Seq(Keys!Keys) /\ Len(<<x, y>>) = 2
  BY DEF Texts
<1>2. PICK a \in Seq(Keys!Keys) : a = Append(<<x>>, y)
  BY <1>1, AppendProperties DEF Texts
<1>3. Len(a) = 2 /\ a[1] = x /\ a[2] = y
  <2>1. PICK o \in Seq(Keys!Keys) : o = <<x>> /\ Len(o) = 1 /\ o[1] = x
    BY <1>1 DEF Texts
  <2> QED
    BY <1>2, <2>1
<1>4. \A i \in 1..2 : i = 1 \/ i = 2
  OBVIOUS
<1>5. \A i \in 1..Len(a) : a[i] = <<x, y>>[i]
  BY <1>3, <1>4
<1>6. a = <<x, y>>
  BY <1>1, <1>3, <1>5, SeqEqual
<1>7. a = J(<<x>>, <<y>>)
  BY <1>1, <1>2, JoinsKey
<1> QED
  BY <1>1, <1>6, <1>7 DEF Texts

LEMMA SplitsFirst ==
  ASSUME NEW s \in Texts, s # <<>>
  PROVE  Head(s) \in Keys!Keys /\ Tail(s) \in Texts /\ s = J(<<Head(s)>>, Tail(s))
<1>1. Head(s) \in Keys!Keys /\ Tail(s) \in Texts
  BY DEF Texts
<1>2. Len(s) >= 1 /\ 1 \in 1..Len(s) /\ Len(s) \in 1..Len(s)
  BY DEF Texts
<1>3. SubSeq(s, 1, Len(s)) = s
  BY SubSeqFull DEF Texts
<1>4. SubSeq(s, 1, Len(s)) = <<s[1]>> \o SubSeq(s, 2, Len(s))
  BY <1>2, SubSeqRecursiveFirst DEF Texts
<1>5. Tail(s) = SubSeq(s, 2, Len(s)) /\ Head(s) = s[1]
  BY TailIsSubSeq DEF Texts
<1> QED
  BY <1>1, <1>3, <1>4, <1>5 DEF J

LEMMA SplitsAt ==
  ASSUME NEW s \in Texts, NEW n \in 0..Len(s)
  PROVE  /\ SubSeq(s, 1, n) \in Texts /\ SubSeq(s, n + 1, Len(s)) \in Texts
         /\ Len(SubSeq(s, 1, n)) = n
         /\ s = J(SubSeq(s, 1, n), SubSeq(s, n + 1, Len(s)))
<1>1. /\ SubSeq(s, 1, n) \in Texts /\ SubSeq(s, n + 1, Len(s)) \in Texts
      /\ Len(SubSeq(s, 1, n)) = n
  BY DEF Texts
<1>3. SubSeq(s, 1, n) \o SubSeq(s, n + 1, Len(s)) = SubSeq(s, 1, Len(s))
  BY JoinAdjacent DEF Texts
<1>4. SubSeq(s, 1, Len(s)) = s
  BY SubSeqFull DEF Texts
<1> QED
  BY <1>1, <1>3, <1>4 DEF J

LEMMA KeysOfSeq ==
  ASSUME NEW f \in Seq(Fates)
  PROVE  KeysOf(f) \in Seq(Keys!Keys) /\ Len(KeysOf(f)) = Len(f)
<1>1. \A i \in 1..Len(f) : f[i].key \in Keys!Keys
  <2> SUFFICES ASSUME NEW i \in 1..Len(f) PROVE f[i].key \in Keys!Keys
    OBVIOUS
  <2>1. f[i] \in Fates
    OBVIOUS
  <2> QED
    BY <2>1 DEF Fates
<1> QED
  BY <1>1 DEF KeysOf

(* What becomes of keys is added behind what became of the earlier ones.   *)
(* What becomes of keys is added behind what became of the earlier ones.   *)
LEMMA KeptAdds ==
  ASSUME kept \in Seq(Fates), NEW as \in {"port", "gate", "menu", "sequence"}, NEW p \in Texts,
         Keys!Kept(as, p)
  PROVE  kept' \in Seq(Fates) /\ KeysOf(kept') = J(KeysOf(kept), p)
<1> DEFINE new == [i \in 1..Len(p) |-> [as |-> as, key |-> p[i]]]
<1>1. Len(p) \in Nat /\ \A i \in 1..Len(p) : p[i] \in Keys!Keys
  BY DEF Texts
<1>2. \A i \in 1..Len(p) : new[i] \in Fates /\ new[i].key = p[i]
  BY <1>1 DEF Fates
<1>3. PICK m \in Seq(Fates) :
         m = new /\ Len(m) = Len(p) /\ \A i \in 1..Len(p) : m[i].key = p[i]
  <2>1. new \in [1..Len(p) -> Fates]
    BY <1>2
  <2>2. new \in Seq(Fates) /\ Len(new) = Len(p)
    <3> HIDE DEF new
    <3> QED
      BY <1>1, <2>1
  <2> QED
    BY <1>2, <2>2
<1>4. kept' = kept \o m
  BY <1>3 DEF Keys!Kept
<1> HIDE DEF new
<1>5. PICK k \in Seq(Fates) : k = kept
  OBVIOUS
<1>6. PICK l \in Seq(Fates) :
         /\ l = kept' /\ Len(l) = Len(k) + Len(m)
         /\ \A i \in 1..Len(k) : l[i] = k[i]
         /\ \A i \in 1..Len(l) : i > Len(k) => l[i] = m[i - Len(k)]
  <2>1. kept' = k \o m /\ Len(k) \in Nat /\ Len(m) \in Nat
    BY <1>4, <1>5
  <2>2. PICK l \in Seq(Fates) : l = k \o m
    BY JoinCloses
  <2>3. Len(l) = Len(k) + Len(m) /\ \A i \in 1..Len(l) : l[i] = IF i <= Len(k) THEN k[i]
                                                               ELSE m[i - Len(k)]
    BY <2>2, ConcatProperties
  <2>4. \A i \in 1..Len(k) : i \in 1..Len(l) /\ i <= Len(k)
    BY <2>1, <2>3
  <2>5. \A i \in 1..Len(k) : l[i] = k[i]
    BY <2>3, <2>4
  <2>6. \A i \in 1..Len(l) : i > Len(k) => ~(i <= Len(k))
    BY <2>1
  <2>7. \A i \in 1..Len(l) : i > Len(k) => l[i] = m[i - Len(k)]
    BY <2>3, <2>6
  <2>8. l = kept'
    BY <2>1, <2>2
  <2> QED
    BY <2>3, <2>5, <2>7, <2>8
<1>7. PICK ks \in Seq(Keys!Keys), ls \in Seq(Keys!Keys), q \in Seq(Keys!Keys) :
         ks = KeysOf(k) /\ Len(ks) = Len(k) /\ ls = KeysOf(l) /\ Len(ls) = Len(l) /\ q = p
  BY KeysOfSeq DEF Texts
<1>8. PICK kq \in Seq(Keys!Keys) : kq = ks \o q
  BY JoinCloses
<1>9. /\ Len(kq) = Len(ks) + Len(q) /\ Len(ks) \in Nat /\ Len(q) \in Nat
      /\ \A i \in 1..Len(kq) : kq[i] = IF i <= Len(ks) THEN ks[i] ELSE q[i - Len(ks)]
  BY <1>8, ConcatProperties
<1>10. \A i \in 1..Len(ls) : ls[i] = kq[i]
  <2> SUFFICES ASSUME NEW i \in 1..Len(ls) PROVE ls[i] = kq[i]
    OBVIOUS
  <2>1. ls[i] = l[i].key /\ i \in 1..Len(kq) /\ i \in Nat /\ i >= 1
    BY <1>3, <1>6, <1>7, <1>9 DEF KeysOf
  <2>2. CASE i <= Len(k)
    <3>1. i \in 1..Len(k) /\ kq[i] = ks[i] /\ l[i] = k[i]
      BY <1>6, <1>7, <1>9, <2>1, <2>2
    <3> QED
      BY <1>7, <2>1, <3>1 DEF KeysOf
  <2>3. CASE i > Len(k)
    <3>1. i - Len(k) \in 1..Len(p)
      BY <1>3, <1>6, <1>7, <1>9, <2>3
    <3>2. l[i] = m[i - Len(k)] /\ kq[i] = p[i - Len(k)]
      BY <1>6, <1>7, <1>9, <2>1, <2>3
    <3> QED
      BY <1>3, <2>1, <3>1, <3>2
  <2> QED
    BY <1>7, <1>9, <2>1, <2>2, <2>3
<1>11. ls = kq
  BY <1>3, <1>6, <1>7, <1>9, <1>10, SeqEqual
<1> QED
  BY <1>5, <1>6, <1>7, <1>8, <1>11 DEF J

LEMMA KeysBegin == Keys!Init => KeyInv
<1> SUFFICES ASSUME Keys!Init PROVE KeyInv
  OBVIOUS
<1>1. /\ keys = <<>> /\ wire = <<>> /\ chunk = <<>> /\ payload = <<>> /\ seen = <<>>
      /\ kept = <<>> /\ state = "plain" /\ esc = <<"E", "c">>
  BY DEF Keys!Init
<1>2. KeysOf(<<>>) = <<>>
  BY DEF KeysOf
<1>3. <<>> \in Seq(Fates)
  OBVIOUS
<1>4. esc \in Keys!Keys \X Keys!Keys
  BY <1>1 DEF Keys!Keys
<1>5. KeyShape /\ SeenFits
  BY <1>1, <1>3, <1>4, Joins DEF KeyShape, SeenFits
<1>6. Flow = keys
  BY <1>1, <1>2, Joins DEF Flow
<1> QED
  BY <1>5, <1>6 DEF KeyInv

LEMMA KeysFacts ==
  ASSUME KeyInv
  PROVE  /\ KeysOf(kept) \in Texts /\ payload \in Texts
         /\ seen \in Texts /\ chunk \in Texts /\ wire \in Texts /\ keys \in Texts
         /\ kept \in Seq(Fates) /\ esc \in Keys!Keys \X Keys!Keys
         /\ esc[1] \in Keys!Keys /\ esc[2] \in Keys!Keys
         /\ state \in {"plain", "one", "two", "change"}
         /\ Keys!NoShortRead => keys = Flow
  BY KeysOfSeq DEF KeyInv, KeyShape, Texts

LEMMA TypeKeeps ==
  ASSUME KeyInv, NEW k \in Keys!Keys, Keys!Type(k)
  PROVE  KeyInv'
<1>1. /\ keys' = Append(keys, k) /\ wire' = Append(wire, k)
      /\ UNCHANGED <<over, chunk, state, esc, seen, payload, kept>>
  BY DEF Keys!Type
<1>2. <<k>> \in Texts /\ keys' = J(keys, <<k>>) /\ wire' = J(wire, <<k>>)
  BY <1>1, KeysFacts, JoinsKey
<1>3. KeyShape' /\ SeenFits'
  BY <1>1, <1>2, Joins DEF KeyInv, KeyShape, SeenFits
<1>4. Keys!NoShortRead' => Flow' = keys'
  <2> SUFFICES ASSUME Keys!NoShortRead' PROVE Flow' = keys'
    OBVIOUS
  <2>1. keys = Flow
    BY <1>1, KeysFacts DEF Keys!NoShortRead
  <2>2. Flow' = J(KeysOf(kept), J(payload, J(seen, J(chunk, J(wire, <<k>>)))))
    BY <1>1, <1>2 DEF Flow
  <2> QED
    BY <1>2, <2>1, <2>2, KeysFacts, Joins DEF Flow
<1> QED
  BY <1>3, <1>4 DEF KeyInv

(* The next chunk is cut from the wire.                                    *)
LEMMA ReadKeeps ==
  ASSUME KeyInv, Keys!Read
  PROVE  KeyInv'
<1>1. /\ chunk = <<>> /\ UNCHANGED <<over, keys, state, esc, seen, payload, kept>>
      /\ \E n \in 1..Len(wire) : /\ chunk' = SubSeq(wire, 1, n)
                                 /\ wire' = SubSeq(wire, n + 1, Len(wire))
  BY DEF Keys!Read, Keys!Take
<1>2. chunk' \in Texts /\ wire' \in Texts /\ wire = J(chunk', wire')
  <2>1. PICK n \in 1..Len(wire) :
           chunk' = SubSeq(wire, 1, n) /\ wire' = SubSeq(wire, n + 1, Len(wire))
    BY <1>1
  <2>2. n \in 0..Len(wire)
    OBVIOUS
  <2> QED
    BY <2>1, <2>2, KeysFacts, SplitsAt
<1>3. KeyShape' /\ SeenFits'
  BY <1>1, <1>2 DEF KeyInv, KeyShape, SeenFits
<1>4. Flow' = Flow
  BY <1>1, <1>2, KeysFacts, Joins DEF Flow
<1> QED
  BY <1>1, <1>3, <1>4 DEF KeyInv, Keys!NoShortRead

(* A key moves to the left over what divides it from the payload.          *)
LEMMA Shifts ==
  ASSUME NEW s \in Texts, NEW x \in Texts, NEW c \in Texts, NEW w \in Texts
  PROVE  J(s, J(J(x, c), w)) = J(J(s, x), J(c, w))
<1>1. J(J(x, c), w) = J(x, J(c, w)) /\ J(c, w) \in Texts
  BY Joins
<1> QED
  BY <1>1, Joins

LEMMA ShiftsBack ==
  ASSUME NEW p \in Texts, NEW s \in Texts, NEW x \in Texts, NEW c \in Texts, NEW w \in Texts
  PROVE  J(p, J(s, J(J(x, c), w))) = J(J(p, J(s, x)), J(<<>>, J(c, w)))
<1>1. J(s, J(J(x, c), w)) = J(J(s, x), J(c, w))
  BY Shifts
<1>2. PICK a \in Texts, b \in Texts : a = J(s, x) /\ b = J(c, w)
  BY Joins
<1>3. J(p, J(a, b)) = J(J(p, a), b) /\ J(<<>>, b) = b
  BY Joins
<1> QED
  BY <1>1, <1>2, <1>3

LEMMA ScanKeeps ==
  ASSUME KeyInv, Keys!Scan
  PROVE  KeyInv'
<1>1. /\ chunk # <<>> /\ chunk' = Tail(chunk) /\ state \in {"plain", "one"}
      /\ UNCHANGED <<over, keys, wire, esc, kept>>
      /\ Keys!Byte(Head(chunk))
      /\ seen' = IF state' = "plain" THEN <<>> ELSE Append(seen, Head(chunk))
  BY DEF Keys!Scan, Keys!input
<1>2. PICK k \in Keys!Keys : k = Head(chunk)
  BY <1>1, KeysFacts, SplitsFirst
<1>3. chunk' \in Texts /\ chunk = J(<<k>>, chunk') /\ <<k>> \in Texts
  BY <1>1, <1>2, KeysFacts, SplitsFirst, JoinsKey
<1>4. Append(seen, k) = J(seen, <<k>>) /\ Append(payload, k) = J(payload, <<k>>)
  BY KeysFacts, JoinsKey
<1>5. /\ <<esc[1]>> \in Texts /\ <<esc[1], k>> \in Texts
      /\ <<esc[1], k>> = J(<<esc[1]>>, <<k>>)
      /\ payload \o <<esc[1], k>> = J(payload, <<esc[1], k>>)
  BY KeysFacts, JoinsKey, JoinsPair DEF J
<1>6. CASE state = "plain" /\ k = esc[1] /\ state' = "one" /\ UNCHANGED payload
  <2>1. seen = <<>> /\ seen' = <<k>>
    BY <1>1, <1>2, <1>3, <1>4, <1>6, Joins DEF KeyInv, SeenFits
  <2>2. KeyShape' /\ SeenFits'
    BY <1>1, <1>3, <1>6, <2>1 DEF KeyInv, KeyShape, SeenFits
  <2>4. J(seen, <<k>>) = seen'
    BY <1>3, <2>1, Joins
  <2>5. J(seen, J(chunk, wire)) = J(seen', J(chunk', wire))
    BY <1>3, <2>4, KeysFacts, Shifts
  <2>3. Flow' = Flow
    BY <1>1, <1>6, <2>5 DEF Flow
  <2> QED
    BY <1>1, <2>2, <2>3 DEF KeyInv, Keys!NoShortRead
<1>7. CASE state = "plain" /\ payload' = Append(payload, k) /\ UNCHANGED state
  <2>1. seen = <<>> /\ seen' = <<>> /\ payload' = J(payload, <<k>>)
    BY <1>1, <1>4, <1>7 DEF KeyInv, SeenFits
  <2>2. KeyShape' /\ SeenFits'
    BY <1>1, <1>3, <1>7, <2>1, Joins DEF KeyInv, KeyShape, SeenFits
  <2>3. Flow' = Flow
    BY <1>1, <1>3, <1>7, <2>1, KeysFacts, Joins DEF Flow
  <2> QED
    BY <1>1, <2>2, <2>3 DEF KeyInv, Keys!NoShortRead
<1>8. CASE state = "one" /\ k = esc[2] /\ state' = "two" /\ UNCHANGED payload
  <2>1. seen' = J(seen, <<k>>)
    BY <1>1, <1>2, <1>4, <1>8
  <2>4. seen' \in Texts
    BY <1>3, <2>1, KeysFacts, Joins
  <2>2. KeyShape' /\ SeenFits'
    BY <1>1, <1>3, <1>8, <2>4 DEF KeyInv, KeyShape, SeenFits
  <2>5. J(seen, J(chunk, wire)) = J(seen', J(chunk', wire))
    BY <1>3, <2>1, KeysFacts, Shifts
  <2>3. Flow' = Flow
    BY <1>1, <1>8, <2>5 DEF Flow
  <2> QED
    BY <1>1, <2>2, <2>3 DEF KeyInv, Keys!NoShortRead
<1>9. CASE state = "one" /\ state' = "plain" /\ payload' = payload \o <<esc[1], k>>
  <2>1. seen = <<esc[1]>> /\ seen' = <<>> /\ payload' = J(payload, J(seen, <<k>>))
    BY <1>1, <1>5, <1>9 DEF KeyInv, SeenFits
  <2>4. payload' \in Texts
    BY <1>3, <2>1, KeysFacts, Joins
  <2>2. KeyShape' /\ SeenFits'
    BY <1>1, <1>3, <1>9, <2>1, <2>4, Joins DEF KeyInv, KeyShape, SeenFits
  <2>5. J(payload, J(seen, J(chunk, wire))) = J(payload', J(<<>>, J(chunk', wire)))
    <3>1. PICK x \in Texts, c \in Texts : x = <<k>> /\ c = chunk'
      BY <1>3
    <3>2. J(payload, J(seen, J(J(x, c), wire))) = J(J(payload, J(seen, x)), J(<<>>, J(c, wire)))
      <4>1. payload \in Texts /\ seen \in Texts /\ wire \in Texts
        BY KeysFacts
      <4> QED
        BY <4>1, ShiftsBack
    <3> QED
      BY <1>3, <2>1, <3>1, <3>2
  <2>3. Flow' = Flow
    BY <1>1, <1>9, <2>1, <2>5 DEF Flow
  <2> QED
    BY <1>1, <2>2, <2>3 DEF KeyInv, Keys!NoShortRead
<1> QED
  BY <1>1, <1>2, <1>6, <1>7, <1>8, <1>9 DEF Keys!Byte

LEMMA ForwardKeeps ==
  ASSUME KeyInv, Keys!ForwardFirst
  PROVE  KeyInv'
<1>1. /\ payload # <<>> /\ payload' = <<>>
      /\ UNCHANGED <<over, keys, wire, chunk, state, esc, seen>>
      /\ Keys!Kept(IF drives THEN "port" ELSE "gate", payload)
  BY DEF Keys!ForwardFirst, Keys!Forward, Keys!input
<1>2. kept' \in Seq(Fates) /\ KeysOf(kept') = J(KeysOf(kept), payload)
  <2>1. PICK as \in {"port", "gate", "menu", "sequence"} : Keys!Kept(as, payload)
    BY <1>1
  <2> QED
    BY <2>1, KeysFacts, KeptAdds
<1>3. KeyShape' /\ SeenFits'
  BY <1>1, <1>2, Joins DEF KeyInv, KeyShape, SeenFits
<1>4. Flow' = Flow
  BY <1>1, <1>2, KeysFacts, Joins DEF Flow
<1> QED
  BY <1>1, <1>3, <1>4 DEF KeyInv, Keys!NoShortRead

LEMMA CommandKeeps ==
  ASSUME KeyInv, Keys!Command
  PROVE  KeyInv'
<1>1. /\ chunk # <<>> /\ payload = <<>> /\ state = "two" /\ chunk' = Tail(chunk)
      /\ UNCHANGED <<over, keys, wire, esc, payload>>
      /\ \/ /\ state' = "change" /\ seen' = Append(seen, Head(chunk)) /\ UNCHANGED kept
         \/ /\ state' = "plain" /\ seen' = <<>>
            /\ Keys!Kept("menu", Append(seen, Head(chunk)))
  BY DEF Keys!Command, Keys!input
<1>2. PICK k \in Keys!Keys : k = Head(chunk)
  BY <1>1, KeysFacts, SplitsFirst
<1>3. chunk' \in Texts /\ chunk = J(<<k>>, chunk') /\ <<k>> \in Texts
  BY <1>1, <1>2, KeysFacts, SplitsFirst, JoinsKey
<1>4. PICK s \in Texts : s = Append(seen, k) /\ s = J(seen, <<k>>)
  BY <1>3, KeysFacts, Joins, JoinsKey
<1>5. CASE state' = "change" /\ seen' = s /\ UNCHANGED kept
  <2>1. KeyShape' /\ SeenFits'
    BY <1>1, <1>3, <1>5 DEF KeyInv, KeyShape, SeenFits
  <2>2. Flow' = Flow
    BY <1>1, <1>3, <1>4, <1>5, KeysFacts, Joins DEF Flow
  <2> QED
    BY <1>1, <2>1, <2>2 DEF KeyInv, Keys!NoShortRead
<1>6. CASE state' = "plain" /\ seen' = <<>> /\ Keys!Kept("menu", s)
  <2>1. kept' \in Seq(Fates) /\ KeysOf(kept') = J(KeysOf(kept), s)
    BY <1>6, KeysFacts, KeptAdds
  <2>2. KeyShape' /\ SeenFits'
    BY <1>1, <1>3, <1>6, <2>1, Joins DEF KeyInv, KeyShape, SeenFits
  <2>3. Flow' = Flow
    BY <1>1, <1>3, <1>4, <1>6, <2>1, KeysFacts, Joins DEF Flow
  <2> QED
    BY <1>1, <2>2, <2>3 DEF KeyInv, Keys!NoShortRead
<1> QED
  BY <1>1, <1>2, <1>4, <1>5, <1>6

(* The keys that _change_escape_sequence takes are settled with the ones   *)
(* that called it.                                                         *)
LEMMA SequenceKeeps ==
  ASSUME KeyInv, payload = <<>>, NEW k \in Texts, Len(k) = 2, Keys!NewSequence(k),
         chunk' \in Texts, wire' \in Texts, J(k, J(chunk', wire')) = J(chunk, wire),
         UNCHANGED <<over, keys, payload>>
  PROVE  KeyInv'
<1>1. /\ esc' = <<k[1], k[2]>> /\ state' = "plain" /\ seen' = <<>>
      /\ Keys!Kept("sequence", seen \o k)
  BY DEF Keys!NewSequence
<1>2. PICK s \in Texts : s = seen \o k /\ s = J(seen, k)
  BY KeysFacts, Joins DEF J
<1>3. esc' \in Keys!Keys \X Keys!Keys
  <2>1. k[1] \in Keys!Keys /\ k[2] \in Keys!Keys
    <3>1. k \in Seq(Keys!Keys) /\ 1 \in 1..Len(k) /\ 2 \in 1..Len(k)
      BY DEF Texts
    <3> QED
      BY <3>1, ElementOfSeq
  <2> QED
    BY <1>1, <2>1
<1>4. kept' \in Seq(Fates) /\ KeysOf(kept') = J(KeysOf(kept), s)
  BY <1>1, <1>2, KeysFacts, KeptAdds
<1>5. KeyShape' /\ SeenFits'
  BY <1>1, <1>3, <1>4, Joins DEF KeyInv, KeyShape, SeenFits
<1>6. Flow' = Flow
  <2>1. PICK r \in Texts : r = J(chunk', wire')
    BY Joins
  <2>2. Flow' = J(J(KeysOf(kept), J(seen, k)), J(<<>>, J(<<>>, r)))
    BY <1>1, <1>2, <1>4, <2>1 DEF Flow
  <2>3. Flow = J(KeysOf(kept), J(<<>>, J(seen, J(k, r))))
    BY <2>1 DEF Flow
  <2>4. J(<<>>, J(<<>>, r)) = r
    BY Joins
  <2>5. J(<<>>, J(seen, J(k, r))) = J(J(seen, k), r)
    BY KeysFacts, Joins
  <2>6. J(J(KeysOf(kept), s), r) = J(KeysOf(kept), J(s, r))
    BY KeysFacts, Joins
  <2> QED
    BY <1>2, <2>2, <2>3, <2>4, <2>5, <2>6
<1> QED
  BY <1>5, <1>6 DEF KeyInv, Keys!NoShortRead

LEMMA ChangeKeeps ==
  ASSUME KeyInv, Keys!Change
  PROVE  KeyInv'
<1> DEFINE short == 2 - Len(chunk)
<1>1. /\ state = "change" /\ payload = <<>> /\ UNCHANGED payload /\ UNCHANGED <<over, keys>>
      /\ Len(chunk) \in Nat /\ Len(wire) \in Nat /\ chunk \in Texts /\ wire \in Texts
  BY KeysFacts DEF Keys!Change, Keys!Take, Keys!input, KeyInv, SeenFits, Texts
<1>2. CASE /\ Len(chunk) >= 2 /\ Keys!NewSequence(SubSeq(chunk, 1, 2))
           /\ chunk' = SubSeq(chunk, 3, Len(chunk)) /\ wire' = wire
  <2>1. 2 \in 0..Len(chunk) /\ 2 + 1 = 3
    BY <1>1, <1>2
  <2>2. PICK k \in Texts : /\ k = SubSeq(chunk, 1, 2) /\ Len(k) = 2 /\ chunk' \in Texts
                           /\ chunk = J(k, chunk')
    BY <1>1, <1>2, <2>1, SplitsAt
  <2>3. J(k, J(chunk', wire')) = J(chunk, wire)
    BY <1>1, <1>2, <2>2, Joins
  <2> QED
    BY <1>1, <1>2, <2>2, <2>3, SequenceKeeps
<1>3. CASE /\ Len(chunk) < 2 /\ \E n \in 1..short :
                 /\ n <= Len(wire) /\ chunk' = <<>> /\ wire' = SubSeq(wire, n + 1, Len(wire))
                 /\ n = short /\ Keys!NewSequence(chunk \o SubSeq(wire, 1, n))
  <2>1. PICK n \in 1..short :
                 /\ n <= Len(wire) /\ chunk' = <<>> /\ wire' = SubSeq(wire, n + 1, Len(wire))
                 /\ n = short /\ Keys!NewSequence(chunk \o SubSeq(wire, 1, n))
    BY <1>3
  <2>2. n \in 0..Len(wire)
    BY <1>1, <2>1
  <2>3. PICK t \in Texts : t = SubSeq(wire, 1, n) /\ Len(t) = n
    BY <1>1, <2>2, SplitsAt
  <2>4. wire' \in Texts /\ wire = J(t, wire')
    BY <1>1, <2>1, <2>2, <2>3, SplitsAt
  <2>5. PICK k \in Texts : k = chunk \o t /\ k = J(chunk, t) /\ Len(k) = 2
    <3>1. chunk \o t \in Texts /\ Len(chunk \o t) = Len(chunk) + Len(t)
      BY <1>1, ConcatProperties DEF Texts
    <3>2. Len(chunk) + Len(t) = 2
      BY <1>1, <2>1, <2>3
    <3> QED
      BY <3>1, <3>2 DEF J
  <2>6. J(k, J(chunk', wire')) = J(chunk, wire)
    <3>1. J(<<>>, wire') = wire' /\ J(J(chunk, t), wire') = J(chunk, J(t, wire'))
      BY <1>1, <2>4, Joins
    <3> QED
      BY <2>1, <2>4, <2>5, <3>1
  <2>7. Keys!NewSequence(k)
    BY <2>1, <2>3, <2>5
  <2>8. chunk' \in Texts
    BY <2>1, Joins
  <2> HIDE DEF short
  <2> QED
    BY <1>1, <2>4, <2>5, <2>6, <2>7, <2>8, SequenceKeeps
<1>4. CASE /\ over = "ssh" /\ chunk' = <<>> /\ wire' \in Texts
           /\ state' = "plain" /\ seen' = <<>> /\ UNCHANGED <<esc, kept>>
  <2>1. KeyShape' /\ SeenFits'
    BY <1>1, <1>4, Joins DEF KeyInv, KeyShape, SeenFits
  <2>2. ~Keys!NoShortRead'
    BY <1>1, <1>4 DEF Keys!NoShortRead
  <2> QED
    BY <2>1, <2>2 DEF KeyInv
<1>5. CASE /\ Len(chunk) >= 2 /\ Keys!NewSequence(SubSeq(chunk, 1, 2))
           /\ chunk' = SubSeq(chunk, 3, Len(chunk)) /\ UNCHANGED Keys!input
  BY <1>2, <1>5 DEF Keys!input
<1>6. CASE /\ Len(chunk) < 2 /\ over = "telnet" /\ Len(wire) >= short
           /\ Keys!NewSequence(chunk \o SubSeq(wire, 1, short))
           /\ chunk' = <<>> /\ Keys!Take(short)
  <2>1. short \in 1..short /\ short <= Len(wire)
    BY <1>1, <1>6
  <2> HIDE DEF short
  <2> QED
    BY <1>3, <1>6, <2>1 DEF Keys!Take
<1>7. CASE /\ Len(chunk) < 2 /\ over = "ssh" /\ wire # <<>>
           /\ \E n \in 1..short :
                 /\ n <= Len(wire) /\ Keys!Take(n) /\ chunk' = <<>>
                 /\ IF n = short THEN Keys!NewSequence(chunk \o SubSeq(wire, 1, n))
                    ELSE state' = "plain" /\ seen' = <<>> /\ UNCHANGED <<esc, kept>>
  <2>1. PICK n \in 1..short :
                 /\ n <= Len(wire) /\ Keys!Take(n) /\ chunk' = <<>>
                 /\ IF n = short THEN Keys!NewSequence(chunk \o SubSeq(wire, 1, n))
                    ELSE state' = "plain" /\ seen' = <<>> /\ UNCHANGED <<esc, kept>>
    BY <1>7
  <2>2. wire' = SubSeq(wire, n + 1, Len(wire)) /\ n \in 0..Len(wire)
    BY <1>1, <2>1 DEF Keys!Take
  <2>3. wire' \in Texts
    BY <1>1, <2>2, SplitsAt
  <2> HIDE DEF short
  <2>4. CASE n = short
    BY <1>3, <1>7, <2>1, <2>2, <2>4
  <2>5. CASE n # short
    BY <1>4, <1>7, <2>1, <2>3, <2>5
  <2> QED
    BY <2>4, <2>5
<1> QED
  BY <1>5, <1>6, <1>7 DEF Keys!Change

LEMMA KeysStep == KeyInv /\ [Keys!Next]_(Keys!vars) => KeyInv'
<1> SUFFICES ASSUME KeyInv, [Keys!Next]_(Keys!vars) PROVE KeyInv'
  OBVIOUS
<1>1. CASE Keys!Read
  BY <1>1, ReadKeeps
<1>2. CASE Keys!Scan
  BY <1>2, ScanKeeps
<1>3. CASE Keys!ForwardFirst
  BY <1>3, ForwardKeeps
<1>4. CASE Keys!Command
  BY <1>4, CommandKeeps
<1>5. CASE Keys!Change
  BY <1>5, ChangeKeeps
<1>6. CASE Keys!ModeChanges \/ UNCHANGED Keys!vars
  <2>1. UNCHANGED <<over, keys, wire, chunk, state, esc, seen, payload, kept>>
    BY <1>6 DEF Keys!ModeChanges, Keys!input, Keys!vars
  <2> QED
    BY <2>1 DEF KeyInv, KeyShape, SeenFits, Flow, Keys!NoShortRead
<1>7. CASE \E k \in Keys!Keys : Keys!Type(k)
  BY <1>7, TypeKeeps
<1> QED
  BY <1>1, <1>2, <1>3, <1>4, <1>5, <1>6, <1>7 DEF Keys!Next

LEMMA KeysGive == KeyInv => EveryKeyOnce
<1> SUFFICES ASSUME KeyInv, Keys!NoShortRead PROVE Keys!Accounted = keys
  BY DEF EveryKeyOnce, Keys!EveryKeyOnce
<1>1. KeysOf(kept) \o payload \o seen \o chunk \o wire
         = J(J(J(J(KeysOf(kept), payload), seen), chunk), wire)
  BY DEF J
<1>2. J(J(J(J(KeysOf(kept), payload), seen), chunk), wire) = Flow
  <2>1. PICK kp \in Texts, cw \in Texts : kp = J(KeysOf(kept), payload) /\ cw = J(chunk, wire)
    BY KeysFacts, Joins
  <2>2. PICK kps \in Texts, scw \in Texts : kps = J(kp, seen) /\ scw = J(seen, cw)
    BY KeysFacts, Joins
  <2>3. J(J(kps, chunk), wire) = J(kps, cw)
    BY <2>1, KeysFacts, Joins
  <2>4. J(J(kp, seen), cw) = J(kp, scw)
    BY <2>2, KeysFacts, Joins
  <2>5. J(J(KeysOf(kept), payload), scw) = J(KeysOf(kept), J(payload, scw))
    BY KeysFacts, Joins
  <2> QED
    BY <2>1, <2>2, <2>3, <2>4, <2>5 DEF Flow
<1>3. Keys!Accounted = KeysOf(kept) \o payload \o seen \o chunk \o wire
  BY DEF Keys!Accounted, KeysOf
<1> QED
  BY <1>1, <1>2, <1>3, KeysFacts

(* _process_input_chunk and _change_escape_sequence, for any keys, chunks  *)
(* and changes of the mode: whatever a Telnet user typed so far was        *)
(* forwarded, shut out by the gate, a command or a new sequence, or is     *)
(* still to be looked at, once and in the order typed.                     *)
THEOREM EveryKeyIsTakenOnce == Keys!Spec => []EveryKeyOnce
<1>1. Keys!Init => KeyInv
  BY KeysBegin
<1>2. KeyInv /\ [Keys!Next]_(Keys!vars) => KeyInv'
  BY KeysStep
<1>3. KeyInv => EveryKeyOnce
  BY KeysGive
<1> QED
  BY <1>1, <1>2, <1>3, PTL DEF Keys!Spec
(* What two servers tell one another *)

NewsKinds == {"list", "state", "viewers", "switch", "result"}
NewsFrames == [kind : NewsKinds, body : Nat]

\* A frame of one of the kinds with this body is in the queue q.
Has(q, kinds, b) == \E i \in 1..Len(q) : q[i].kind \in kinds /\ q[i].body = b
Within(q, kinds, lo, hi) == \A i \in 1..Len(q) : q[i].kind \in kinds => q[i].body \in lo..hi

NewsShape ==
  /\ feed \in Nat \ {0} /\ watching \in Nat /\ shown \in 0..feed /\ counted \in 0..watching
  /\ linked \subseteq Lanes /\ listed \in [Lanes -> 0..feed] /\ told = shown
  /\ news \in [Lanes -> Seq(NewsFrames)] /\ back \in [Lanes -> Seq(NewsFrames)]
  /\ casts \in [Lanes -> Seq(NewsFrames)]
  /\ crossed \in BOOLEAN /\ missed \in BOOLEAN

\* Nobody is told of a state or a count before it is there.
NotBeforehand ==
  \A p \in Lanes :
     /\ Within(news[p], {"list", "state"}, 1, feed)
     /\ Within(casts[p], {"list", "state"}, 1, feed)
     /\ Within(casts[p], {"viewers"}, 0, watching)
     /\ Within(back[p], {"viewers"}, 0, watching)

\* A path says nothing to a proxy that is not there before its advertisement.
ListFirst ==
  shown = 0 => \A p \in linked : \/ listed[p] # 0
                                 \/ news[p] # <<>> /\ Head(news[p]).kind = "list"

StateComing(p) == \/ listed[p] = feed
                  \/ Has(news[p], {"list", "state"}, feed)
                  \/ Has(casts[p], {"list", "state"}, feed)
CountComing(p) == Has(back[p], {"viewers"}, watching) \/ Has(casts[p], {"viewers"}, watching)

\* Every path brings the state, some path brings the count.
StateOnItsWay == ~crossed => shown = feed \/ \A p \in linked : StateComing(p)
CountOnItsWay == ~crossed /\ ~missed => counted = watching \/ \E p \in linked : CountComing(p)

NewsInv == NewsShape /\ NotBeforehand /\ ListFirst /\ StateOnItsWay /\ CountOnItsWay

LEMMA HasAppend ==
  ASSUME NEW q \in Seq(NewsFrames), NEW f \in NewsFrames, NEW kinds, NEW b
  PROVE  /\ Append(q, f) \in Seq(NewsFrames) /\ Append(q, f) # <<>>
         /\ q # <<>> => Head(Append(q, f)) = Head(q)
         /\ Has(Append(q, f), kinds, b) <=> Has(q, kinds, b) \/ (f.kind \in kinds /\ f.body = b)
<1>1. PICK a \in Seq(NewsFrames) : a = Append(q, f)
  BY AppendProperties
<1>2. /\ Len(a) = Len(q) + 1 /\ Len(q) \in Nat /\ a[Len(q) + 1] = f
      /\ \A i \in 1..Len(q) : i \in 1..Len(a) /\ a[i] = q[i]
  BY <1>1
<1>3. \A i \in 1..Len(a) : i \in 1..Len(q) \/ i = Len(q) + 1
  BY <1>2
<1>4. Has(a, kinds, b) => Has(q, kinds, b) \/ (f.kind \in kinds /\ f.body = b)
  BY <1>2, <1>3 DEF Has
<1>5. Has(q, kinds, b) => Has(a, kinds, b)
  BY <1>2 DEF Has
<1>6. f.kind \in kinds /\ f.body = b => Has(a, kinds, b)
  <2>1. Len(q) + 1 \in 1..Len(a)
    BY <1>2
  <2> QED
    BY <1>2, <2>1 DEF Has
<1>7. a # <<>> /\ (q # <<>> => Head(a) = Head(q))
  BY <1>1
<1> QED
  BY <1>1, <1>4, <1>5, <1>6, <1>7

LEMMA WithinAppend ==
  ASSUME NEW q \in Seq(NewsFrames), NEW f \in NewsFrames, NEW kinds, NEW lo \in Nat,
         NEW hi \in Nat, Within(q, kinds, lo, hi), f.kind \in kinds => f.body \in lo..hi
  PROVE  Within(Append(q, f), kinds, lo, hi)
<1>1. PICK a \in Seq(NewsFrames) : a = Append(q, f)
  BY AppendProperties
<1>2. /\ Len(a) = Len(q) + 1 /\ Len(q) \in Nat /\ a[Len(q) + 1] = f
      /\ \A i \in 1..Len(q) : a[i] = q[i]
  BY <1>1
<1>3. \A i \in 1..Len(a) : i \in 1..Len(q) \/ i = Len(q) + 1
  BY <1>2
<1>4. Within(a, kinds, lo, hi)
  BY <1>2, <1>3 DEF Within
<1> QED
  BY <1>1, <1>4

LEMMA HasTail ==
  ASSUME NEW q \in Seq(NewsFrames), q # <<>>, NEW kinds, NEW b
  PROVE  /\ Tail(q) \in Seq(NewsFrames) /\ Head(q) \in NewsFrames
         /\ Has(q, kinds, b) <=> \/ Head(q).kind \in kinds /\ Head(q).body = b
                                 \/ Has(Tail(q), kinds, b)
<1>1. PICK t \in Seq(NewsFrames), h \in NewsFrames : t = Tail(q) /\ h = Head(q)
  BY HeadTailProperties
<1>2. /\ Len(t) = Len(q) - 1 /\ Len(q) \in Nat /\ 1 \in 1..Len(q) /\ q[1] = h
      /\ \A i \in 1..Len(t) : i + 1 \in 1..Len(q) /\ t[i] = q[i + 1]
      /\ \A i \in 1..Len(q) : i = 1 \/ (i - 1 \in 1..Len(t) /\ t[i - 1] = q[i])
  BY <1>1
<1>3. Has(q, kinds, b) => (h.kind \in kinds /\ h.body = b) \/ Has(t, kinds, b)
  <2> SUFFICES ASSUME NEW i \in 1..Len(q), q[i].kind \in kinds, q[i].body = b
               PROVE  (h.kind \in kinds /\ h.body = b) \/ Has(t, kinds, b)
    BY DEF Has
  <2> QED
    BY <1>2 DEF Has
<1>4. h.kind \in kinds /\ h.body = b => Has(q, kinds, b)
  BY <1>2 DEF Has
<1>5. Has(t, kinds, b) => Has(q, kinds, b)
  BY <1>2 DEF Has
<1> QED
  BY <1>1, <1>3, <1>4, <1>5

LEMMA WithinTail ==
  ASSUME NEW q \in Seq(NewsFrames), q # <<>>, NEW kinds, NEW lo \in Nat, NEW hi \in Nat,
         Within(q, kinds, lo, hi)
  PROVE  /\ Within(Tail(q), kinds, lo, hi)
         /\ Head(q).kind \in kinds => Head(q).body \in lo..hi
<1>1. PICK t \in Seq(NewsFrames), h \in NewsFrames : t = Tail(q) /\ h = Head(q)
  BY HeadTailProperties
<1>2. /\ 1 \in 1..Len(q) /\ q[1] = h
      /\ \A i \in 1..Len(t) : i + 1 \in 1..Len(q) /\ t[i] = q[i + 1]
  BY <1>1
<1>3. Within(t, kinds, lo, hi) /\ (h.kind \in kinds => h.body \in lo..hi)
  BY <1>2 DEF Within
<1> QED
  BY <1>1, <1>3

LEMMA WithinWider ==
  ASSUME NEW q \in Seq(NewsFrames), NEW kinds, NEW lo \in Nat, NEW hi \in Nat, NEW hj \in Nat,
         hi <= hj, Within(q, kinds, lo, hi)
  PROVE  Within(q, kinds, lo, hj)
<1> SUFFICES ASSUME NEW i \in 1..Len(q), q[i].kind \in kinds PROVE q[i].body \in lo..hj
  BY DEF Within
<1>1. q[i].body \in lo..hi
  BY DEF Within
<1> QED
  BY <1>1

LEMMA NewsBegins == News!Init => NewsInv
<1> SUFFICES ASSUME News!Init PROVE NewsInv
  OBVIOUS
<1>1. /\ feed = 1 /\ watching = 0 /\ counted = 0 /\ linked = {} /\ shown = 0 /\ told = 0
      /\ news = [p \in Lanes |-> <<>>] /\ back = [p \in Lanes |-> <<>>]
      /\ casts = [p \in Lanes |-> <<>>] /\ listed = [p \in Lanes |-> 0]
      /\ crossed = FALSE /\ missed = FALSE
  BY DEF News!Init, News!None
<1>2. <<>> \in Seq(NewsFrames) /\ Len(<<>>) = 0
  OBVIOUS
<1>3. NewsShape
  <2>1. /\ news \in [Lanes -> Seq(NewsFrames)] /\ back \in [Lanes -> Seq(NewsFrames)]
        /\ casts \in [Lanes -> Seq(NewsFrames)]
    BY <1>1, <1>2
  <2>2. /\ feed \in Nat \ {0} /\ watching \in Nat /\ shown \in 0..feed
        /\ counted \in 0..watching /\ listed \in [Lanes -> 0..feed]
    BY <1>1
  <2> QED
    BY <1>1, <2>1, <2>2 DEF NewsShape
<1>4. \A kinds, lo, hi : Within(<<>>, kinds, lo, hi)
  BY <1>2 DEF Within
<1>5. NotBeforehand
  BY <1>1, <1>4 DEF NotBeforehand
<1>6. ListFirst /\ StateOnItsWay /\ CountOnItsWay
  BY <1>1 DEF ListFirst, StateOnItsWay, CountOnItsWay
<1> QED
  BY <1>3, <1>5, <1>6 DEF NewsInv

LEMMA FrameIs ==
  ASSUME NEW k \in NewsKinds, NEW b \in Nat
  PROVE  News!Frame(k, b) \in NewsFrames /\ News!Frame(k, b).kind = k /\ News!Frame(k, b).body = b
BY DEF News!Frame, NewsFrames

\* The states and the counts on their way stay as they were.
SameNews ==
  /\ news' \in [Lanes -> Seq(NewsFrames)]
  /\ \A q \in Lanes : /\ \A n \in Nat : Within(news[q], {"list", "state"}, 1, n)
                                           => Within(news'[q], {"list", "state"}, 1, n)
                      /\ \A b \in Nat : Has(news[q], {"list", "state"}, b)
                                           => Has(news'[q], {"list", "state"}, b)
SameBack ==
  /\ back' \in [Lanes -> Seq(NewsFrames)]
  /\ \A q \in Lanes : /\ \A n \in Nat : Within(back[q], {"viewers"}, 0, n)
                                           => Within(back'[q], {"viewers"}, 0, n)
                      /\ \A b \in Nat : Has(back[q], {"viewers"}, b)
                                           => Has(back'[q], {"viewers"}, b)

LEMMA SameIfUnchanged ==
  /\ NewsShape /\ UNCHANGED news => SameNews
  /\ NewsShape /\ UNCHANGED back => SameBack
BY DEF NewsShape, SameNews, SameBack

\* A result that is added is neither, and does not come to the front.
LEMMA ResultAdds ==
  ASSUME NewsShape, ListFirst, NEW p, NEW r \in Nat,
         news' = [news EXCEPT ![p] = Append(@, News!Frame("result", r))],
         UNCHANGED <<shown, linked, listed>>
  PROVE  SameNews /\ ListFirst'
<1>1. PICK f \in NewsFrames : f = News!Frame("result", r) /\ f.kind = "result"
  BY FrameIs DEF NewsKinds
<1>2. \A q \in Lanes : news'[q] = news[q] \/ news'[q] = Append(news[q], f)
  BY <1>1 DEF NewsShape
<1>3. \A q \in Lanes : news[q] \in Seq(NewsFrames) /\ Append(news[q], f) \in Seq(NewsFrames)
  BY AppendProperties DEF NewsShape
<1>4. news' \in [Lanes -> Seq(NewsFrames)]
  BY <1>2, <1>3 DEF NewsShape
<1>5. \A q \in Lanes, n \in Nat : Within(news[q], {"list", "state"}, 1, n)
                                     => Within(news'[q], {"list", "state"}, 1, n)
  <2> SUFFICES ASSUME NEW q \in Lanes, NEW n \in Nat, Within(news[q], {"list", "state"}, 1, n)
               PROVE  Within(news'[q], {"list", "state"}, 1, n)
    OBVIOUS
  <2>1. 1 \in Nat /\ f.kind \notin {"list", "state"}
    BY <1>1
  <2>2. Within(Append(news[q], f), {"list", "state"}, 1, n)
    BY <1>3, <2>1, WithinAppend
  <2> QED
    BY <1>2, <2>2
<1>6. \A q \in Lanes, b \in Nat : Has(news[q], {"list", "state"}, b)
                                     => Has(news'[q], {"list", "state"}, b)
  BY <1>1, <1>2, <1>3, HasAppend
<1>7. \A q \in Lanes : news[q] # <<>> => news'[q] # <<>> /\ Head(news'[q]) = Head(news[q])
  BY <1>1, <1>2, <1>3, HasAppend
<1>8. ListFirst'
  BY <1>7 DEF ListFirst, NewsShape
<1> QED
  BY <1>4, <1>5, <1>6, <1>8 DEF SameNews

LEMMA QuietKeeps ==
  ASSUME NewsInv, SameNews, SameBack, ListFirst',
         UNCHANGED <<feed, watching, linked, casts, listed, shown, told, counted, crossed, missed>>
  PROVE  NewsInv'
<1>1. NewsShape'
  BY DEF NewsInv, NewsShape, SameNews, SameBack
<1>2. feed \in Nat /\ watching \in Nat /\ linked \subseteq Lanes
  BY DEF NewsInv, NewsShape
<1>3. NotBeforehand'
  BY <1>2 DEF NewsInv, NotBeforehand, SameNews, SameBack
<1>4. \A p \in linked : StateComing(p) => StateComing(p)'
  BY <1>2 DEF StateComing, SameNews
<1>5. \A p \in linked : CountComing(p) => CountComing(p)'
  BY <1>2 DEF CountComing, SameBack
<1>6. StateOnItsWay' /\ CountOnItsWay'
  BY <1>4, <1>5 DEF NewsInv, StateOnItsWay, CountOnItsWay
<1> QED
  BY <1>1, <1>3, <1>6 DEF NewsInv

LEMMA ToldAdds ==
  ASSUME NewsShape, NEW f \in NewsFrames, News!Told(f)
  PROVE  /\ casts' \in [Lanes -> Seq(NewsFrames)]
         /\ \A p \in Lanes : \A kinds, b :
               Has(casts'[p], kinds, b) <=> \/ Has(casts[p], kinds, b)
                                            \/ p \in linked /\ f.kind \in kinds /\ f.body = b
         /\ \A p \in Lanes : \A kinds : \A lo, hi \in Nat :
               Within(casts[p], kinds, lo, hi) /\ (f.kind \in kinds => f.body \in lo..hi)
                  => Within(casts'[p], kinds, lo, hi)
<1>1. casts' = [p \in Lanes |-> IF p \in linked THEN Append(casts[p], f) ELSE casts[p]]
  BY DEF News!Told
<1>2. \A p \in Lanes : casts[p] \in Seq(NewsFrames) /\ Append(casts[p], f) \in Seq(NewsFrames)
  BY AppendProperties DEF NewsShape
<1>3. casts' \in [Lanes -> Seq(NewsFrames)]
  BY <1>1, <1>2
<1>4. \A p \in Lanes : \A kinds, b :
         Has(casts'[p], kinds, b) <=> \/ Has(casts[p], kinds, b)
                                      \/ p \in linked /\ f.kind \in kinds /\ f.body = b
  BY <1>1, <1>2, HasAppend
<1>5. \A p \in Lanes : \A kinds : \A lo, hi \in Nat :
         Within(casts[p], kinds, lo, hi) /\ (f.kind \in kinds => f.body \in lo..hi)
            => Within(casts'[p], kinds, lo, hi)
  BY <1>1, <1>2, WithinAppend
<1> QED
  BY <1>3, <1>4, <1>5

(* A new state is on its way on every path.                                *)
LEMMA FeedMoves ==
  ASSUME NewsInv, SameNews, ListFirst', feed' = feed + 1, News!Told(News!Frame("state", feed')),
         UNCHANGED <<watching, linked, back, listed, shown, told, counted, crossed, missed>>
  PROVE  NewsInv'
<1>0. feed' \in Nat
  BY DEF NewsInv, NewsShape
<1>1. PICK f \in NewsFrames : f = News!Frame("state", feed') /\ f.kind = "state" /\ f.body = feed'
  BY <1>0, FrameIs DEF NewsKinds
<1>2. News!Told(f)
  BY <1>1
<1>3. /\ casts' \in [Lanes -> Seq(NewsFrames)]
      /\ \A p \in Lanes : \A kinds, b :
            Has(casts'[p], kinds, b) <=> \/ Has(casts[p], kinds, b)
                                         \/ p \in linked /\ f.kind \in kinds /\ f.body = b
      /\ \A p \in Lanes : \A kinds : \A lo, hi \in Nat :
            Within(casts[p], kinds, lo, hi) /\ (f.kind \in kinds => f.body \in lo..hi)
               => Within(casts'[p], kinds, lo, hi)
  BY <1>2, ToldAdds DEF NewsInv
<1>4. /\ feed \in Nat \ {0} /\ feed' \in Nat \ {0} /\ feed <= feed' /\ watching \in Nat
      /\ linked \subseteq Lanes
  BY DEF NewsInv, NewsShape
<1>5. NewsShape'
  <2>1. shown \in 0..feed' /\ listed \in [Lanes -> 0..feed']
    BY <1>4 DEF NewsInv, NewsShape
  <2> QED
    BY <1>3, <1>4, <2>1 DEF NewsInv, NewsShape, SameNews
<1>6. NotBeforehand'
  <2> SUFFICES ASSUME NEW p \in Lanes
               PROVE  /\ Within(news'[p], {"list", "state"}, 1, feed')
                      /\ Within(casts'[p], {"list", "state"}, 1, feed')
                      /\ Within(casts'[p], {"viewers"}, 0, watching)
                      /\ Within(back[p], {"viewers"}, 0, watching)
    BY DEF NotBeforehand
  <2>1. /\ Within(news[p], {"list", "state"}, 1, feed)
        /\ Within(casts[p], {"list", "state"}, 1, feed)
        /\ Within(casts[p], {"viewers"}, 0, watching) /\ Within(back[p], {"viewers"}, 0, watching)
    BY DEF NewsInv, NotBeforehand
  <2>2. /\ Within(news[p], {"list", "state"}, 1, feed')
        /\ Within(casts[p], {"list", "state"}, 1, feed')
    BY <1>4, <2>1, WithinWider DEF NewsInv, NewsShape
  <2>3. Within(news'[p], {"list", "state"}, 1, feed')
    BY <1>4, <2>2 DEF SameNews
  <2>4. Within(casts'[p], {"list", "state"}, 1, feed')
    <3>1. f.body \in 1..feed' /\ 1 \in Nat /\ feed' \in Nat
      BY <1>1, <1>4
    <3> QED
      BY <1>3, <2>2, <3>1
  <2>5. Within(casts'[p], {"viewers"}, 0, watching)
    BY <1>1, <1>3, <1>4, <2>1
  <2> QED
    BY <2>1, <2>3, <2>4, <2>5
<1>7. StateOnItsWay'
  BY <1>1, <1>3, <1>4 DEF StateOnItsWay, StateComing
<1>8. CountOnItsWay'
  BY <1>1, <1>3, <1>4 DEF NewsInv, CountOnItsWay, CountComing
<1> QED
  BY <1>5, <1>6, <1>7, <1>8 DEF NewsInv

LEMMA ViewersChangeKeeps ==
  ASSUME NewsInv, News!ViewersChange
  PROVE  NewsInv'
<1>1. /\ watching' = watching + 1 /\ missed' = (missed \/ linked = {})
      /\ News!Told(News!Frame("viewers", watching'))
      /\ UNCHANGED <<feed, linked, news, back, listed, shown, told, counted, crossed>>
  BY DEF News!ViewersChange, News!here
<1>2. PICK f \in NewsFrames :
         f = News!Frame("viewers", watching') /\ f.kind = "viewers" /\ f.body = watching'
  <2>1. watching' \in Nat
    BY <1>1 DEF NewsInv, NewsShape
  <2> QED
    BY <2>1, FrameIs DEF NewsKinds
<1>3. News!Told(f)
  BY <1>1, <1>2
<1>4. /\ casts' \in [Lanes -> Seq(NewsFrames)]
      /\ \A p \in Lanes : \A kinds, b :
            Has(casts'[p], kinds, b) <=> \/ Has(casts[p], kinds, b)
                                         \/ p \in linked /\ f.kind \in kinds /\ f.body = b
      /\ \A p \in Lanes : \A kinds : \A lo, hi \in Nat :
            Within(casts[p], kinds, lo, hi) /\ (f.kind \in kinds => f.body \in lo..hi)
               => Within(casts'[p], kinds, lo, hi)
  BY <1>3, ToldAdds DEF NewsInv
<1>5. /\ feed \in Nat /\ watching \in Nat /\ watching' \in Nat /\ watching <= watching'
      /\ linked \subseteq Lanes /\ missed' \in BOOLEAN
  BY <1>1 DEF NewsInv, NewsShape
<1>6. NewsShape'
  BY <1>1, <1>4, <1>5 DEF NewsInv, NewsShape
<1>7. NotBeforehand'
  <2> SUFFICES ASSUME NEW p \in Lanes
               PROVE  /\ Within(news[p], {"list", "state"}, 1, feed)
                      /\ Within(casts'[p], {"list", "state"}, 1, feed)
                      /\ Within(casts'[p], {"viewers"}, 0, watching')
                      /\ Within(back[p], {"viewers"}, 0, watching')
    BY <1>1 DEF NotBeforehand
  <2>1. /\ Within(news[p], {"list", "state"}, 1, feed)
        /\ Within(casts[p], {"list", "state"}, 1, feed)
        /\ Within(casts[p], {"viewers"}, 0, watching) /\ Within(back[p], {"viewers"}, 0, watching)
    BY DEF NewsInv, NotBeforehand
  <2>2. Within(casts[p], {"viewers"}, 0, watching') /\ Within(back[p], {"viewers"}, 0, watching')
    BY <1>5, <2>1, WithinWider DEF NewsInv, NewsShape
  <2>3. Within(casts'[p], {"list", "state"}, 1, feed)
    BY <1>2, <1>4, <1>5, <2>1
  <2>4. Within(casts'[p], {"viewers"}, 0, watching')
    BY <1>2, <1>4, <1>5, <2>2
  <2> QED
    BY <2>1, <2>2, <2>3, <2>4
<1>8. ListFirst'
  BY <1>1 DEF NewsInv, ListFirst
<1>9. StateOnItsWay'
  BY <1>1, <1>4, <1>5 DEF NewsInv, StateOnItsWay, StateComing
<1>10. CountOnItsWay'
  <2>1. CASE linked = {}
    BY <1>1, <2>1 DEF CountOnItsWay
  <2>2. CASE linked # {}
    <3>1. PICK p \in linked : p \in Lanes
      BY <1>5, <2>2
    <3>2. CountComing(p)'
      BY <1>2, <1>4, <3>1 DEF CountComing
    <3> QED
      BY <1>1, <3>1, <3>2 DEF CountOnItsWay
  <2> QED
    BY <2>1, <2>2
<1> QED
  BY <1>6, <1>7, <1>8, <1>9, <1>10 DEF NewsInv

LEMMA OutletKeeps ==
  ASSUME NewsInv, News!OutletChanges \/ \E r \in News!Requests : News!SwitchEnds(r)
  PROVE  NewsInv'
<1>1. CASE News!OutletChanges
  <2>1. SameNews /\ ListFirst'
    BY <1>1, SameIfUnchanged DEF NewsInv, News!OutletChanges, News!here, ListFirst
  <2> QED
    BY <1>1, <2>1, FeedMoves DEF News!OutletChanges, News!here, News!ghosts
<1>2. CASE \E r \in News!Requests : News!SwitchEnds(r)
  <2>1. PICK r \in News!Requests : News!SwitchEnds(r)
    BY <1>2
  <2>2. /\ UNCHANGED <<watching, linked, back, listed, shown, told, counted, crossed, missed>>
        /\ \/ feed' = feed + 1 /\ News!Told(News!Frame("state", feed'))
           \/ UNCHANGED <<feed, casts>>
        /\ \/ UNCHANGED news
           \/ news' = [news EXCEPT ![work[r]] = Append(@, News!Frame("result", r))]
    BY <2>1 DEF News!SwitchEnds, News!here, News!ghosts
  <2>3. SameNews /\ ListFirst'
    <3>1. r \in Nat
      BY DEF News!Requests
    <3> QED
      BY <2>2, <3>1, ResultAdds, SameIfUnchanged DEF NewsInv, ListFirst
  <2>4. SameBack
    BY <2>2, SameIfUnchanged DEF NewsInv
  <2> QED
    BY <2>2, <2>3, <2>4, FeedMoves, QuietKeeps
<1> QED
  BY <1>1, <1>2

LEMMA ConnectKeeps ==
  ASSUME NewsInv, NEW p \in Lanes, News!Connect(p)
  PROVE  NewsInv'
<1>1. /\ linked' = linked \cup {p} /\ news' = [news EXCEPT ![p] = <<News!Advertised>>]
      /\ UNCHANGED <<feed, watching, back, casts, listed, shown, told, counted, crossed, missed>>
  BY DEF News!Connect, News!here, News!ghosts
<1>2. /\ feed \in Nat \ {0} /\ linked \subseteq Lanes /\ news \in [Lanes -> Seq(NewsFrames)]
  BY DEF NewsInv, NewsShape
<1>3. PICK f \in NewsFrames : f = News!Advertised /\ f.kind = "list" /\ f.body = feed
  BY <1>2, FrameIs DEF NewsKinds, News!Advertised
<1>4. PICK q : q = <<f>> /\ q \in Seq(NewsFrames)
  <2>1. <<f>> \in Seq(NewsFrames)
    OBVIOUS
  <2> QED
    BY <2>1
<1>41. Len(q) = 1 /\ q[1] = f /\ q # <<>> /\ Head(q) = f
  BY <1>4
<1>5. \A i \in 1..1 : i = 1
  OBVIOUS
<1>6. Has(q, {"list", "state"}, feed) /\ Within(q, {"list", "state"}, 1, feed)
  BY <1>2, <1>3, <1>41, <1>5 DEF Has, Within
<1>7. /\ news' \in [Lanes -> Seq(NewsFrames)] /\ news'[p] = q
      /\ \A x \in Lanes : x # p => news'[x] = news[x]
  BY <1>1, <1>2, <1>3, <1>4
<1>8. NewsShape'
  BY <1>1, <1>2, <1>7 DEF NewsInv, NewsShape
<1>9. NotBeforehand'
  BY <1>1, <1>6, <1>7 DEF NewsInv, NotBeforehand
<1>10. ListFirst'
  BY <1>1, <1>2, <1>3, <1>41, <1>7 DEF NewsInv, ListFirst
<1>11. StateOnItsWay'
  <2>1. StateComing(p)'
    BY <1>1, <1>6, <1>7 DEF StateComing
  <2>2. \A x \in linked : x # p /\ StateComing(x) => StateComing(x)'
    BY <1>1, <1>2, <1>7 DEF StateComing
  <2> QED
    BY <1>1, <2>1, <2>2 DEF NewsInv, StateOnItsWay
<1>12. CountOnItsWay'
  BY <1>1 DEF NewsInv, CountOnItsWay, CountComing
<1> QED
  BY <1>8, <1>9, <1>10, <1>11, <1>12 DEF NewsInv

LEMMA DropKeeps ==
  ASSUME NewsInv, NEW p \in Lanes, News!Drop(p)
  PROVE  NewsInv'
<1>1. /\ linked' = linked \ {p} /\ missed' = (missed \/ counted # watching)
      /\ news' = [news EXCEPT ![p] = <<>>] /\ back' = [back EXCEPT ![p] = <<>>]
      /\ casts' = [casts EXCEPT ![p] = <<>>] /\ listed' = [listed EXCEPT ![p] = 0]
      /\ UNCHANGED <<feed, watching, shown, told, counted, crossed>>
  BY DEF News!Drop, News!None
<1>2. <<>> \in Seq(NewsFrames) /\ \A kinds, lo, hi : Within(<<>>, kinds, lo, hi)
  BY DEF Within
<1>3. feed \in Nat \ {0} /\ linked \subseteq Lanes
  BY DEF NewsInv, NewsShape
<1>4. \A q \in Lanes : /\ news'[q] = news[q] \/ news'[q] = <<>>
                       /\ back'[q] = back[q] \/ back'[q] = <<>>
                       /\ casts'[q] = casts[q] \/ casts'[q] = <<>>
  BY <1>1 DEF NewsInv, NewsShape
<1>5. \A q \in linked' : /\ q \in linked /\ q \in Lanes /\ news'[q] = news[q]
                         /\ casts'[q] = casts[q] /\ listed'[q] = listed[q]
  BY <1>1, <1>3 DEF NewsInv, NewsShape
<1>6. NewsShape'
  <2>1. /\ news' \in [Lanes -> Seq(NewsFrames)] /\ back' \in [Lanes -> Seq(NewsFrames)]
        /\ casts' \in [Lanes -> Seq(NewsFrames)]
    BY <1>1, <1>2 DEF NewsInv, NewsShape
  <2>2. listed' \in [Lanes -> 0..feed] /\ missed' \in BOOLEAN /\ linked' \subseteq Lanes
    BY <1>1, <1>3 DEF NewsInv, NewsShape
  <2> QED
    BY <1>1, <2>1, <2>2 DEF NewsInv, NewsShape
<1>7. NotBeforehand'
  BY <1>1, <1>2, <1>4 DEF NewsInv, NotBeforehand
<1>8. ListFirst'
  BY <1>1, <1>5 DEF NewsInv, ListFirst
<1>9. StateOnItsWay'
  BY <1>1, <1>5 DEF NewsInv, StateOnItsWay, StateComing
<1>10. CountOnItsWay'
  BY <1>1 DEF CountOnItsWay
<1> QED
  BY <1>6, <1>7, <1>8, <1>9, <1>10 DEF NewsInv

(* A frame that is written is no longer to be written, but on its way.     *)
LEMMA WriteKeepsNews ==
  ASSUME NewsInv, NEW p \in Lanes, News!Write(p)
  PROVE  NewsInv'
<1>1. /\ casts[p] # <<>> /\ casts' = [casts EXCEPT ![p] = Tail(@)]
      /\ UNCHANGED <<feed, watching, linked, listed, shown, told, counted, crossed, missed>>
  BY DEF News!Write, News!here, News!ghosts
<1>2. PICK c : c = casts[p] /\ c \in Seq(NewsFrames) /\ c # <<>>
  BY <1>1 DEF NewsInv, NewsShape
<1>3. PICK f \in NewsFrames, t \in Seq(NewsFrames) : f = Head(c) /\ t = Tail(c)
  BY <1>2, HeadTailProperties
<1>4. \/ f.kind = "viewers" /\ back' = [back EXCEPT ![p] = Append(@, f)] /\ UNCHANGED news
      \/ f.kind # "viewers" /\ news' = [news EXCEPT ![p] = Append(@, f)] /\ UNCHANGED back
  BY <1>2, <1>3 DEF News!Write
<1>5. casts'[p] = t /\ \A q \in Lanes : q # p => casts'[q] = casts[q]
  BY <1>1, <1>2, <1>3 DEF NewsInv, NewsShape
<1>6. /\ feed \in Nat /\ watching \in Nat /\ 0 \in Nat /\ 1 \in Nat /\ linked \subseteq Lanes
      /\ news[p] \in Seq(NewsFrames) /\ back[p] \in Seq(NewsFrames)
  BY DEF NewsInv, NewsShape
<1>7. \A kinds, b : Has(c, kinds, b) <=> (f.kind \in kinds /\ f.body = b) \/ Has(t, kinds, b)
  BY <1>2, <1>3, HasTail
<1>8. /\ Within(t, {"list", "state"}, 1, feed) /\ Within(t, {"viewers"}, 0, watching)
      /\ f.kind \in {"list", "state"} => f.body \in 1..feed
      /\ f.kind = "viewers" => f.body \in 0..watching
  <2>1. Within(c, {"list", "state"}, 1, feed) /\ Within(c, {"viewers"}, 0, watching)
    BY <1>2 DEF NewsInv, NotBeforehand
  <2>2. /\ Within(t, {"list", "state"}, 1, feed)
        /\ f.kind \in {"list", "state"} => f.body \in 1..feed
    BY <1>2, <1>3, <1>6, <2>1, WithinTail
  <2>3. Within(t, {"viewers"}, 0, watching) /\ (f.kind \in {"viewers"} => f.body \in 0..watching)
    BY <1>2, <1>3, <1>6, <2>1, WithinTail
  <2> QED
    BY <2>2, <2>3
<1>9. CASE f.kind = "viewers"
  <2>1. /\ back'[p] = Append(back[p], f) /\ UNCHANGED news
        /\ \A q \in Lanes : q # p => back'[q] = back[q]
    BY <1>4, <1>9 DEF NewsInv, NewsShape
  <2>2. /\ Append(back[p], f) \in Seq(NewsFrames)
        /\ \A kinds, b : Has(Append(back[p], f), kinds, b)
                           <=> Has(back[p], kinds, b) \/ (f.kind \in kinds /\ f.body = b)
    BY <1>6, HasAppend
  <2>3. Within(Append(back[p], f), {"viewers"}, 0, watching)
    <3>1. Within(back[p], {"viewers"}, 0, watching)
      BY DEF NewsInv, NotBeforehand
    <3> QED
      BY <1>6, <1>8, <3>1, WithinAppend
  <2>4. NewsShape'
    <3>1. casts' \in [Lanes -> Seq(NewsFrames)] /\ back' \in [Lanes -> Seq(NewsFrames)]
      BY <1>1, <1>2, <1>3, <1>4, <1>9, <2>2 DEF NewsInv, NewsShape
    <3> QED
      BY <1>1, <2>1, <3>1 DEF NewsInv, NewsShape
  <2>5. NotBeforehand'
    BY <1>1, <1>5, <1>8, <2>1, <2>3 DEF NewsInv, NotBeforehand
  <2>6. ListFirst'
    BY <1>1, <2>1 DEF NewsInv, ListFirst
  <2>7. \A q \in linked : StateComing(q) => StateComing(q)'
    BY <1>1, <1>2, <1>5, <1>6, <1>7, <1>9, <2>1 DEF StateComing
  <2>8. \A q \in linked : CountComing(q) => CountComing(q)'
    <3> SUFFICES ASSUME NEW q \in linked, CountComing(q) PROVE CountComing(q)'
      OBVIOUS
    <3>1. CASE q = p
      <4>1. /\ Has(c, {"viewers"}, watching)
                  => f.body = watching \/ Has(t, {"viewers"}, watching)
            /\ Has(back'[p], {"viewers"}, watching)
                  <=> Has(back[p], {"viewers"}, watching) \/ f.body = watching
        BY <1>7, <1>9, <2>1, <2>2
      <4> QED
        BY <1>1, <1>2, <1>5, <3>1, <4>1 DEF CountComing
    <3>2. CASE q # p
      BY <1>1, <1>5, <1>6, <2>1, <3>2 DEF CountComing
    <3> QED
      BY <3>1, <3>2
  <2> QED
    BY <1>1, <2>4, <2>5, <2>6, <2>7, <2>8 DEF NewsInv, StateOnItsWay, CountOnItsWay
<1>10. CASE f.kind # "viewers"
  <2>1. /\ news'[p] = Append(news[p], f) /\ UNCHANGED back
        /\ \A q \in Lanes : q # p => news'[q] = news[q]
    BY <1>4, <1>10 DEF NewsInv, NewsShape
  <2>2. /\ Append(news[p], f) \in Seq(NewsFrames) /\ Append(news[p], f) # <<>>
        /\ news[p] # <<>> => Head(Append(news[p], f)) = Head(news[p])
        /\ \A kinds, b : Has(Append(news[p], f), kinds, b)
                           <=> Has(news[p], kinds, b) \/ (f.kind \in kinds /\ f.body = b)
    BY <1>6, HasAppend
  <2>4. NewsShape'
    <3>1. casts' \in [Lanes -> Seq(NewsFrames)] /\ news' \in [Lanes -> Seq(NewsFrames)]
      BY <1>1, <1>2, <1>3, <1>4, <1>10, <2>2 DEF NewsInv, NewsShape
    <3> QED
      BY <1>1, <2>1, <3>1 DEF NewsInv, NewsShape
  <2>6. ListFirst'
    BY <1>1, <1>6, <2>1, <2>2 DEF NewsInv, ListFirst
  <2>7. \A q \in linked : StateComing(q) => StateComing(q)'
    <3> SUFFICES ASSUME NEW q \in linked, StateComing(q) PROVE StateComing(q)'
      OBVIOUS
    <3>1. CASE q = p
      BY <1>1, <1>2, <1>5, <1>6, <1>7, <2>1, <2>2, <3>1, ZenonT(40) DEF StateComing
    <3>2. CASE q # p
      BY <1>1, <1>5, <1>6, <2>1, <3>2 DEF StateComing
    <3> QED
      BY <3>1, <3>2
  <2>8. \A q \in linked : CountComing(q) => CountComing(q)'
    BY <1>1, <1>2, <1>5, <1>6, <1>7, <1>10, <2>1 DEF CountComing
  <2>3. Within(Append(news[p], f), {"list", "state"}, 1, feed)
    <3>1. Within(news[p], {"list", "state"}, 1, feed)
      BY DEF NewsInv, NotBeforehand
    <3> QED
      BY <1>6, <1>8, <3>1, WithinAppend
  <2>5. NotBeforehand'
    BY <1>1, <1>5, <1>8, <2>1, <2>3 DEF NewsInv, NotBeforehand
  <2> QED
    BY <1>1, <2>4, <2>5, <2>6, <2>7, <2>8 DEF NewsInv, StateOnItsWay, CountOnItsWay
<1> QED
  BY <1>9, <1>10

\* Of the queues s the one at p has lost its head.
Taken(s, z, p) ==
  /\ z \in [Lanes -> Seq(NewsFrames)]
  /\ \A q \in Lanes : q # p => z[q] = s[q]
  /\ \A q \in Lanes : \A kinds : \A lo, hi \in Nat :
        Within(s[q], kinds, lo, hi) => Within(z[q], kinds, lo, hi)
  /\ \A q \in Lanes : \A kinds, b :
        Has(s[q], kinds, b) => \/ q = p /\ Head(s[p]).kind \in kinds /\ Head(s[p]).body = b
                               \/ Has(z[q], kinds, b)

LEMMA TakenAway ==
  ASSUME NEW s \in [Lanes -> Seq(NewsFrames)], NEW p \in Lanes, s[p] # <<>>
  PROVE  Taken(s, [s EXCEPT ![p] = Tail(@)], p)
<1> DEFINE z == [s EXCEPT ![p] = Tail(@)]
<1>1. Tail(s[p]) \in Seq(NewsFrames)
  BY HeadTailProperties
<1>2. z[p] = Tail(s[p]) /\ \A q \in Lanes : q # p => z[q] = s[q]
  OBVIOUS
<1>3. z \in [Lanes -> Seq(NewsFrames)]
  BY <1>1
<1>4. \A kinds : \A lo, hi \in Nat : Within(s[p], kinds, lo, hi) => Within(z[p], kinds, lo, hi)
  BY <1>2, WithinTail
<1>5. \A kinds, b : Has(s[p], kinds, b)
                      <=> (Head(s[p]).kind \in kinds /\ Head(s[p]).body = b) \/ Has(z[p], kinds, b)
  BY <1>2, HasTail
<1> HIDE DEF z
<1> QED
  BY <1>2, <1>3, <1>4, <1>5 DEF Taken, z

(* The count that is taken is the one there is, or the witness stays.      *)
LEMMA ViewersArriveKeeps ==
  ASSUME NewsInv, NEW p \in Lanes, News!ViewersArrive(p)
  PROVE  NewsInv'
<1>1. /\ p \in linked /\ back[p] # <<>> /\ Head(back[p]).kind = "viewers"
      /\ back' = [back EXCEPT ![p] = Tail(@)] /\ counted' = Head(back[p]).body
      /\ crossed' = IF counted' = watching THEN crossed ELSE crossed \/ counted' < counted
      /\ missed' = (missed /\ counted' # watching)
      /\ UNCHANGED <<feed, watching, linked, news, casts, listed, shown, told>>
  BY DEF News!ViewersArrive, News!Free, News!TakesFrame, News!here
<1>2. /\ feed \in Nat /\ watching \in Nat /\ 0 \in Nat /\ linked \subseteq Lanes
      /\ back \in [Lanes -> Seq(NewsFrames)] /\ counted \in 0..watching
  BY DEF NewsInv, NewsShape
<1>3. Taken(back, back', p)
  BY <1>1, <1>2, TakenAway
<1>4. counted' \in 0..watching
  <2>1. Within(back[p], {"viewers"}, 0, watching)
    BY DEF NewsInv, NotBeforehand
  <2>2. Head(back[p]).kind \in {"viewers"} => Head(back[p]).body \in 0..watching
    BY <1>1, <1>2, <2>1, WithinTail
  <2> QED
    BY <1>1, <2>2
<1>5. NewsShape'
  <2>1. crossed' \in BOOLEAN /\ missed' \in BOOLEAN
    BY <1>1 DEF NewsInv, NewsShape
  <2> QED
    BY <1>1, <1>3, <1>4, <2>1 DEF NewsInv, NewsShape, Taken
<1>6. NotBeforehand'
  BY <1>1, <1>2, <1>3 DEF NewsInv, NotBeforehand, Taken
<1>7. ListFirst' /\ StateOnItsWay'
  BY <1>1 DEF NewsInv, ListFirst, StateOnItsWay, StateComing
<1>8. CountOnItsWay'
  <2> SUFFICES ASSUME ~crossed', ~missed', counted' # watching
               PROVE  \E q \in linked : CountComing(q)'
    BY <1>1 DEF CountOnItsWay
  <2>1. ~crossed /\ ~missed /\ counted' >= counted
    <3>1. crossed' = (crossed \/ counted' < counted) /\ missed' = missed
      BY <1>1 DEF NewsInv, NewsShape
    <3>2. ~crossed /\ ~missed /\ ~(counted' < counted)
      BY <3>1
    <3> QED
      BY <1>2, <1>4, <3>2
  <2>2. counted # watching
    BY <1>2, <1>4, <2>1
  <2>3. PICK q \in linked : CountComing(q)
    BY <2>1, <2>2 DEF NewsInv, CountOnItsWay
  <2>4. CountComing(q)'
    BY <1>1, <1>2, <1>3, <2>3 DEF CountComing, Taken
  <2> QED
    BY <2>4
<1> QED
  BY <1>5, <1>6, <1>7, <1>8 DEF NewsInv

\* A frame other than these that is taken from the origin's end.
LEMMA SwitchTaken ==
  ASSUME NewsInv, NEW p \in Lanes, back[p] # <<>>, Head(back[p]).kind = "switch",
         back' = [back EXCEPT ![p] = Tail(@)]
  PROVE  SameBack /\ Head(back[p]).body \in Nat
<1>1. back \in [Lanes -> Seq(NewsFrames)] /\ 0 \in Nat
  BY DEF NewsInv, NewsShape
<1>2. Head(back[p]) \in NewsFrames
  BY <1>1, HeadTailProperties
<1>3. Taken(back, back', p)
  BY <1>1, TakenAway
<1>4. SameBack
  BY <1>1, <1>3 DEF SameBack, Taken
<1> QED
  BY <1>2, <1>4 DEF NewsFrames

LEMMA SwitchArriveKeeps ==
  ASSUME NewsInv, NEW p \in Lanes, News!SwitchArrives(p)
  PROVE  NewsInv'
<1>1. /\ back[p] # <<>> /\ Head(back[p]).kind = "switch" /\ back' = [back EXCEPT ![p] = Tail(@)]
      /\ \/ UNCHANGED news
         \/ news' = [news EXCEPT ![p] = Append(@, News!Frame("result", Head(back[p]).body))]
      /\ UNCHANGED <<feed, watching, linked, casts, listed, shown, told, counted, crossed, missed>>
  BY DEF News!SwitchArrives, News!Free, News!TakesFrame, News!here, News!ghosts
<1>2. SameBack /\ Head(back[p]).body \in Nat
  BY <1>1, SwitchTaken
<1>3. SameNews /\ ListFirst'
  <2>1. CASE UNCHANGED news
    BY <1>1, <2>1, SameIfUnchanged DEF NewsInv, ListFirst
  <2>2. CASE news' = [news EXCEPT ![p] = Append(@, News!Frame("result", Head(back[p]).body))]
    BY <1>1, <1>2, <2>2, ResultAdds DEF NewsInv
  <2> QED
    BY <1>1, <2>1, <2>2
<1> QED
  BY <1>1, <1>2, <1>3, QuietKeeps

LEMMA AskKeeps ==
  ASSUME NewsInv, asks \in Nat, News!Ask
  PROVE  NewsInv'
<1>1. PICK p \in linked : back' = [back EXCEPT ![p] = Append(@, News!Frame("switch", asks'))]
  BY DEF News!Ask
<1>2. /\ asks' = asks + 1
      /\ UNCHANGED <<feed, watching, linked, news, casts, listed, shown, told, counted,
                     crossed, missed>>
  BY DEF News!Ask, News!ghosts
<1>3. PICK f \in NewsFrames : f = News!Frame("switch", asks') /\ f.kind = "switch"
  <2>1. asks' \in Nat
    BY <1>2
  <2> QED
    BY <2>1, FrameIs DEF NewsKinds
<1>4. \A q \in Lanes : back'[q] = back[q] \/ back'[q] = Append(back[q], f)
  BY <1>1, <1>3 DEF NewsInv, NewsShape
<1>5. \A q \in Lanes : back[q] \in Seq(NewsFrames) /\ Append(back[q], f) \in Seq(NewsFrames)
  BY AppendProperties DEF NewsInv, NewsShape
<1>6. back' \in [Lanes -> Seq(NewsFrames)]
  BY <1>1, <1>4, <1>5 DEF NewsInv, NewsShape
<1>7. \A q \in Lanes, n \in Nat : Within(back[q], {"viewers"}, 0, n)
                                     => Within(back'[q], {"viewers"}, 0, n)
  <2> SUFFICES ASSUME NEW q \in Lanes, NEW n \in Nat, Within(back[q], {"viewers"}, 0, n)
               PROVE  Within(back'[q], {"viewers"}, 0, n)
    OBVIOUS
  <2>1. 0 \in Nat /\ f.kind \notin {"viewers"}
    BY <1>3
  <2>2. Within(Append(back[q], f), {"viewers"}, 0, n)
    BY <1>5, <2>1, WithinAppend
  <2> QED
    BY <1>4, <2>2
<1>8. \A q \in Lanes, b \in Nat : Has(back[q], {"viewers"}, b) => Has(back'[q], {"viewers"}, b)
  <2> SUFFICES ASSUME NEW q \in Lanes, NEW b \in Nat, Has(back[q], {"viewers"}, b)
               PROVE  Has(back'[q], {"viewers"}, b)
    OBVIOUS
  <2>1. Has(Append(back[q], f), {"viewers"}, b)
    BY <1>5, HasAppend
  <2> QED
    BY <1>4, <2>1
<1>9. SameBack /\ SameNews
  BY <1>2, <1>6, <1>7, <1>8, SameIfUnchanged DEF NewsInv, SameBack
<1> QED
  BY <1>2, <1>9, QuietKeeps DEF NewsInv, ListFirst

\* A frame is taken from a path that is up and registers nothing.
NewsTaken(p) ==
  /\ p \in linked /\ listed[p] = 0 /\ news[p] # <<>>
  /\ news' = [news EXCEPT ![p] = Tail(@)]

LEMMA TakenNews ==
  ASSUME NewsInv, NEW p \in Lanes, NewsTaken(p)
  PROVE  /\ news' \in [Lanes -> Seq(NewsFrames)]
         /\ \A q \in Lanes : q # p => news'[q] = news[q]
         /\ \A q \in Lanes : Within(news'[q], {"list", "state"}, 1, feed)
         /\ Head(news[p]) \in NewsFrames
         /\ Head(news[p]).kind \in {"list", "state"} => Head(news[p]).body \in 1..feed
         /\ \A q \in Lanes : Has(news[q], {"list", "state"}, feed)
               => \/ q = p /\ Head(news[p]).kind \in {"list", "state"} /\ Head(news[p]).body = feed
                  \/ Has(news'[q], {"list", "state"}, feed)
         /\ shown = 0 => Head(news[p]).kind = "list"
<1>1. /\ news \in [Lanes -> Seq(NewsFrames)] /\ feed \in Nat /\ 1 \in Nat
      /\ news[p] # <<>> /\ news' = [news EXCEPT ![p] = Tail(@)]
  BY DEF NewsInv, NewsShape, NewsTaken
<1>2. Taken(news, news', p)
  BY <1>1, TakenAway
<1>3. \A q \in Lanes : Within(news[q], {"list", "state"}, 1, feed)
  BY DEF NewsInv, NotBeforehand
<1>4. \A q \in Lanes : Within(news'[q], {"list", "state"}, 1, feed)
  BY <1>1, <1>2, <1>3 DEF Taken
<1>5. Head(news[p]) \in NewsFrames
  BY <1>1, HeadTailProperties
<1>6. Head(news[p]).kind \in {"list", "state"} => Head(news[p]).body \in 1..feed
  BY <1>1, <1>3, WithinTail
<1>7. shown = 0 => Head(news[p]).kind = "list"
  BY DEF NewsInv, ListFirst, NewsTaken
<1> QED
  BY <1>2, <1>4, <1>5, <1>6, <1>7 DEF Taken

LEMMA ResultArriveKeeps ==
  ASSUME NewsInv, NEW p \in Lanes, News!ResultArrives(p)
  PROVE  NewsInv'
<1>1. /\ NewsTaken(p) /\ Head(news[p]).kind = "result"
      /\ UNCHANGED <<feed, watching, linked, back, casts, listed, shown, told, counted, crossed,
                     missed>>
  BY DEF News!ResultArrives, News!Ready, News!None, News!ghosts, NewsTaken
<1>2. /\ news' \in [Lanes -> Seq(NewsFrames)]
      /\ \A q \in Lanes : Within(news'[q], {"list", "state"}, 1, feed)
      /\ \A q \in Lanes : Has(news[q], {"list", "state"}, feed)
                             => Has(news'[q], {"list", "state"}, feed)
      /\ shown # 0
  BY <1>1, TakenNews
<1>3. NewsShape'
  BY <1>1, <1>2 DEF NewsInv, NewsShape
<1>4. NotBeforehand'
  BY <1>1, <1>2 DEF NewsInv, NotBeforehand
<1>5. ListFirst'
  BY <1>1, <1>2 DEF ListFirst
<1>6. StateOnItsWay'
  <2>1. \A q \in linked : StateComing(q) => StateComing(q)'
    BY <1>1, <1>2 DEF StateComing, NewsInv, NewsShape
  <2> QED
    BY <1>1, <2>1 DEF NewsInv, StateOnItsWay
<1>7. CountOnItsWay'
  BY <1>1 DEF NewsInv, CountOnItsWay, CountComing
<1> QED
  BY <1>3, <1>4, <1>5, <1>6, <1>7 DEF NewsInv

LEMMA ListArriveKeeps ==
  ASSUME NewsInv, NEW p \in Lanes, News!ListArrives(p)
  PROVE  NewsInv'
<1>1. /\ NewsTaken(p) /\ Head(news[p]).kind = "list"
      /\ listed' = [listed EXCEPT ![p] = Head(news[p]).body]
      /\ UNCHANGED <<feed, watching, linked, back, casts, shown, told, counted, crossed, missed>>
  BY DEF News!ListArrives, News!Ready, News!None, News!ghosts, NewsTaken
<1>2. /\ news' \in [Lanes -> Seq(NewsFrames)]
      /\ \A q \in Lanes : q # p => news'[q] = news[q]
      /\ \A q \in Lanes : Within(news'[q], {"list", "state"}, 1, feed)
      /\ Head(news[p]).body \in 1..feed
      /\ \A q \in Lanes : Has(news[q], {"list", "state"}, feed)
            => (q = p /\ Head(news[p]).body = feed) \/ Has(news'[q], {"list", "state"}, feed)
  BY <1>1, TakenNews
<1>3. /\ listed'[p] = Head(news[p]).body /\ listed[p] = 0 /\ feed \in Nat \ {0}
      /\ linked \subseteq Lanes /\ \A q \in Lanes : q # p => listed'[q] = listed[q]
  BY <1>1 DEF NewsInv, NewsShape, NewsTaken
<1>4. NewsShape'
  <2>1. listed' \in [Lanes -> 0..feed]
    BY <1>1, <1>2, <1>3 DEF NewsInv, NewsShape
  <2> QED
    BY <1>1, <1>2, <2>1 DEF NewsInv, NewsShape
<1>5. NotBeforehand'
  BY <1>1, <1>2 DEF NewsInv, NotBeforehand
<1>6. ListFirst'
  <2>1. listed'[p] # 0
    BY <1>2, <1>3
  <2> QED
    BY <1>1, <1>2, <1>3, <2>1 DEF NewsInv, ListFirst
<1>7. StateOnItsWay'
  <2>1. \A q \in linked : StateComing(q) => StateComing(q)'
    BY <1>1, <1>2, <1>3 DEF StateComing
  <2> QED
    BY <1>1, <2>1 DEF NewsInv, StateOnItsWay
<1>8. CountOnItsWay'
  BY <1>1 DEF NewsInv, CountOnItsWay, CountComing
<1> QED
  BY <1>4, <1>5, <1>6, <1>7, <1>8 DEF NewsInv

\* A state that is applied is the one there is, or is still on its way, or
\* a newer one was shown.
LEMMA AppliedKeeps ==
  ASSUME NewsInv, NEW v \in 1..feed, News!Applied(v), UNCHANGED <<feed, linked>>,
         v # feed => \A q \in linked : StateComing(q) => StateComing(q)'
  PROVE  /\ shown' = v /\ told' = v /\ crossed' \in BOOLEAN
         /\ ListFirst' /\ StateOnItsWay'
         /\ crossed => crossed'
<1>1. /\ shown' = v /\ told' = v
      /\ crossed' = IF v = feed THEN crossed ELSE crossed \/ (shown # 0 /\ v < shown)
  BY DEF News!Applied, News!None
<1>2. /\ feed \in Nat \ {0} /\ shown \in 0..feed /\ crossed \in BOOLEAN
  BY DEF NewsInv, NewsShape
<1>3. ListFirst'
  BY <1>1 DEF ListFirst
<1>4. crossed' \in BOOLEAN /\ (crossed => crossed')
  BY <1>1, <1>2
<1>5. StateOnItsWay'
  <2> SUFFICES ASSUME ~crossed', v # feed
               PROVE  \A q \in linked : StateComing(q)'
    BY <1>1 DEF StateOnItsWay
  <2>1. crossed' = (crossed \/ (shown # 0 /\ v < shown))
    BY <1>1
  <2>2. ~crossed /\ ~(shown # 0 /\ v < shown)
    BY <2>1
  <2>3. shown # feed
    BY <1>2, <2>2
  <2> QED
    BY <2>2, <2>3 DEF NewsInv, StateOnItsWay
<1> QED
  BY <1>1, <1>3, <1>4, <1>5

LEMMA StateArriveKeeps ==
  ASSUME NewsInv, NEW p \in Lanes, News!StateArrives(p)
  PROVE  NewsInv'
<1>1. /\ NewsTaken(p) /\ Head(news[p]).kind = "state"
      /\ shown # 0 => News!Applied(Head(news[p]).body)
      /\ UNCHANGED <<feed, watching, linked, back, casts, listed, counted, missed>>
  BY DEF News!StateArrives, News!Ready, News!None, NewsTaken
<1>2. /\ news' \in [Lanes -> Seq(NewsFrames)]
      /\ \A q \in Lanes : Within(news'[q], {"list", "state"}, 1, feed)
      /\ Head(news[p]).body \in 1..feed
      /\ \A q \in Lanes : Has(news[q], {"list", "state"}, feed)
            => (q = p /\ Head(news[p]).body = feed) \/ Has(news'[q], {"list", "state"}, feed)
      /\ shown # 0
  BY <1>1, TakenNews
<1>3. PICK v \in 1..feed : v = Head(news[p]).body /\ News!Applied(v)
  BY <1>1, <1>2
<1>4. v # feed => \A q \in linked : StateComing(q) => StateComing(q)'
  BY <1>1, <1>2, <1>3 DEF StateComing, NewsInv, NewsShape
<1>5. /\ shown' = v /\ told' = v /\ crossed' \in BOOLEAN /\ ListFirst' /\ StateOnItsWay'
      /\ crossed => crossed'
  BY <1>1, <1>3, <1>4, AppliedKeeps
<1>6. NewsShape'
  BY <1>1, <1>2, <1>5 DEF NewsInv, NewsShape
<1>7. NotBeforehand'
  BY <1>1, <1>2 DEF NewsInv, NotBeforehand
<1>8. CountOnItsWay'
  BY <1>1, <1>5 DEF NewsInv, CountOnItsWay, CountComing
<1> QED
  BY <1>5, <1>6, <1>7, <1>8 DEF NewsInv

LEMMA RegistersKeeps ==
  ASSUME NewsInv, NEW p \in Lanes, News!Registers(p)
  PROVE  NewsInv'
<1>1. /\ listed[p] # 0 /\ listed' = [listed EXCEPT ![p] = 0] /\ News!Applied(listed[p])
      /\ UNCHANGED <<feed, watching, linked, news, back, casts, counted, missed>>
  BY DEF News!Registers, News!None, News!wires
<1>2. PICK v \in 1..feed : v = listed[p] /\ News!Applied(v)
  BY <1>1 DEF NewsInv, NewsShape
<1>3. /\ listed' \in [Lanes -> 0..feed] /\ linked \subseteq Lanes
      /\ \A q \in Lanes : q # p => listed'[q] = listed[q]
  BY <1>1 DEF NewsInv, NewsShape
<1>4. v # feed => \A q \in linked : StateComing(q) => StateComing(q)'
  BY <1>1, <1>2, <1>3 DEF StateComing
<1>5. /\ shown' = v /\ told' = v /\ crossed' \in BOOLEAN /\ ListFirst' /\ StateOnItsWay'
      /\ crossed => crossed'
  BY <1>1, <1>2, <1>4, AppliedKeeps
<1>6. NewsShape'
  BY <1>1, <1>3, <1>5 DEF NewsInv, NewsShape
<1>7. NotBeforehand'
  BY <1>1 DEF NewsInv, NotBeforehand
<1>8. CountOnItsWay'
  BY <1>1, <1>5 DEF NewsInv, CountOnItsWay, CountComing
<1> QED
  BY <1>5, <1>6, <1>7, <1>8 DEF NewsInv

LEMMA NewsStep ==
  ASSUME NewsInv, asks \in Nat, [News!Next]_(News!vars)
  PROVE  NewsInv' /\ asks' \in Nat
<1>1. asks' \in Nat
  BY DEF News!Next, News!OutletChanges, News!ViewersChange, News!Ask, News!AskTimesOut,
         News!Connect, News!Drop, News!Write, News!Arrives, News!ViewersArrive,
         News!SwitchArrives, News!StateArrives, News!ListArrives, News!Registers,
         News!ResultArrives, News!SwitchEnds, News!vars
<1> SUFFICES NewsInv'
  BY <1>1
<1>2. CASE UNCHANGED News!vars
  <2>1. /\ SameNews /\ SameBack /\ ListFirst'
        /\ UNCHANGED <<feed, watching, linked, casts, listed, shown, told, counted, crossed,
                       missed>>
    BY <1>2, SameIfUnchanged DEF NewsInv, ListFirst, News!vars, News!wires, News!here,
                                 News!ghosts
  <2> QED
    BY <2>1, QuietKeeps
<1>3. CASE News!AskTimesOut
  <2>1. /\ SameNews /\ SameBack /\ ListFirst'
        /\ UNCHANGED <<feed, watching, linked, casts, listed, shown, told, counted, crossed,
                       missed>>
    BY <1>3, SameIfUnchanged DEF NewsInv, ListFirst, News!AskTimesOut, News!wires, News!ghosts
  <2> QED
    BY <2>1, QuietKeeps
<1>4. CASE News!OutletChanges \/ \E r \in News!Requests : News!SwitchEnds(r)
  BY <1>4, OutletKeeps
<1>5. CASE News!ViewersChange
  BY <1>5, ViewersChangeKeeps
<1>6. CASE News!Ask
  BY <1>6, AskKeeps
<1>7. CASE \E p \in Lanes : News!Connect(p) \/ News!Drop(p) \/ News!Write(p)
  <2>1. PICK p \in Lanes : News!Connect(p) \/ News!Drop(p) \/ News!Write(p)
    BY <1>7
  <2> QED
    BY <2>1, ConnectKeeps, DropKeeps, WriteKeepsNews
<1>8. CASE \E p \in Lanes : News!Arrives(p)
  <2>1. PICK p \in Lanes : News!Arrives(p)
    BY <1>8
  <2> QED
    BY <2>1, ViewersArriveKeeps, SwitchArriveKeeps, StateArriveKeeps, ListArriveKeeps,
       RegistersKeeps, ResultArriveKeeps DEF News!Arrives
<1> QED
  BY <1>2, <1>3, <1>4, <1>5, <1>6, <1>7, <1>8 DEF News!Next

\* With nothing on its way, what is on its way is nothing.
LEMMA NewsGives ==
  ASSUME NewsInv PROVE NewsCatchesUp
<1>1. \A kinds, b : ~Has(<<>>, kinds, b)
  BY DEF Has
<1>2. linked \subseteq Lanes /\ feed # 0 /\ told = shown
  BY DEF NewsInv, NewsShape
<1>3. News!FeedsCatchUp
  <2> SUFFICES ASSUME linked # {}, News!StillFor(casts), News!StillFor(news),
                      \A p \in Lanes : listed[p] = 0, ~crossed
               PROVE  shown = feed /\ told = feed
    BY DEF News!FeedsCatchUp, News!Unsaid, News!None
  <2>1. PICK p \in linked : p \in Lanes
    BY <1>2
  <2>2. ~StateComing(p)
    BY <1>1, <1>2, <2>1 DEF StateComing, News!StillFor
  <2> QED
    BY <1>2, <2>1, <2>2 DEF NewsInv, StateOnItsWay
<1>4. News!ViewersCatchUp
  <2> SUFFICES ASSUME News!StillFor(casts), News!StillFor(back), ~crossed, ~missed
               PROVE  counted = watching
    BY DEF News!ViewersCatchUp, News!Unsaid
  <2>1. \A p \in linked : ~CountComing(p)
    BY <1>1, <1>2 DEF CountComing, News!StillFor
  <2> QED
    BY <2>1 DEF NewsInv, CountOnItsWay
<1> QED
  BY <1>3, <1>4 DEF NewsCatchesUp, News!NewsCatchesUp

(* _broadcast_power_state, _slpl_feed_states and _broadcast_viewer_presence: *)
(* with a path up and nothing on its way the other server's proxy and its    *)
(* sessions have the outlet as it is, and the origin has the viewers there   *)
(* are, unless a slower path overtook or the viewers changed in an outage;   *)
(* for any paths, changes, switches and losses.                              *)
THEOREM NewsReachesBothEnds == News!Spec => []NewsCatchesUp
<1>1. News!Init => NewsInv /\ asks \in Nat
  BY NewsBegins DEF News!Init
<1>2. NewsInv /\ asks \in Nat /\ [News!Next]_(News!vars) => (NewsInv /\ asks \in Nat)'
  BY NewsStep
<1>3. NewsInv => NewsCatchesUp
  BY NewsGives
<1> QED
  BY <1>1, <1>2, <1>3, PTL DEF News!Spec

-----------------------------------------------------------------------------
(* The links to a peer *)

LinkShape == /\ conn \in [Links!Paths -> {"none", "auth", "open"}]
             /\ gen \in [Links!Paths -> Nat]
             /\ instance \in Nat
NoneFromTheFuture == \A p \in Links!Paths : gen[p] <= instance
LinkInv == LinkShape /\ NoneFromTheFuture /\ Links!OneGeneration

(* The connections that are kept, who greeted them, and what is closed:    *)
(* most steps only authenticate one, or schedule one more close.           *)
LinkSettled == /\ conn' \in [Links!Paths -> {"none", "auth", "open"}]
               /\ \A p \in Links!Paths : conn'[p] # "none" => conn[p] # "none"
               /\ UNCHANGED <<gen, instance>>
               /\ closing \subseteq closing'

LEMMA LinksBegin == Links!Init => LinkInv
  BY DEF Links!Init, LinkInv, LinkShape, NoneFromTheFuture, Links!OneGeneration

LEMMA LinkSettledKeeps == LinkInv /\ LinkSettled => LinkInv'
  BY DEF LinkInv, LinkShape, NoneFromTheFuture, Links!OneGeneration, LinkSettled

(* A handshake brings in the latest instance and retires the others.       *)
LEMMA GreetedKeeps ==
  ASSUME LinkInv, NEW p \in Links!Paths, Links!Greeted(p)
  PROVE  LinkInv'
<1>1. /\ conn' = [conn EXCEPT ![p] = IF opt.auth THEN "auth" ELSE "open"]
      /\ gen' = [gen EXCEPT ![p] = instance]
      /\ closing' = closing \cup Links!Retired(p)
      /\ instance' = instance
  BY DEF Links!Greeted
<1>2. LinkShape' /\ NoneFromTheFuture'
  BY <1>1 DEF LinkInv, LinkShape, NoneFromTheFuture
<1>3. ASSUME NEW a \in Links!Paths, NEW b \in Links!Paths,
             conn'[a] # "none", conn'[b] # "none", gen'[a] < gen'[b]
      PROVE  a \in closing'
  <2>1. CASE b = p
    <3>1. a # p /\ conn[a] # "none" /\ gen[a] # instance
      BY <1>1, <1>3, <2>1 DEF LinkInv, LinkShape
    <3>2. QED
      BY <1>1, <3>1 DEF Links!Retired
  <2>2. CASE b # p
    BY <1>1, <1>3, <2>2 DEF LinkInv, LinkShape, NoneFromTheFuture, Links!OneGeneration
  <2>3. QED
    BY <2>1, <2>2
<1>4. QED
  BY <1>2, <1>3 DEF LinkInv, Links!OneGeneration

(* _close_connection takes the record out before its close task is done.   *)
LEMMA LinkCloseKeeps ==
  ASSUME LinkInv, NEW p \in Links!Paths, Links!StartClose(p)
  PROVE  LinkInv'
<1>1. /\ conn' = [conn EXCEPT ![p] = "none"]
      /\ gen' = [gen EXCEPT ![p] = 0]
      /\ closing' = closing \ {p}
      /\ instance' = instance
  BY DEF Links!StartClose
<1>2. QED
  BY <1>1 DEF LinkInv, LinkShape, NoneFromTheFuture, Links!OneGeneration

LEMMA LinkLoopKeeps ==
  ASSUME LinkInv, NEW p \in Links!Paths, Links!Loop(p)
  PROVE  LinkInv'
<1>1. CASE Links!DialDone(p)
  BY <1>1, GreetedKeeps DEF Links!DialDone
<1>2. CASE Links!Scheduled(p)
  BY <1>2, LinkCloseKeeps DEF Links!Scheduled
<1>3. CASE Links!ReadEnds(p)
  BY <1>3, LinkCloseKeeps, LinkSettledKeeps DEF Links!ReadEnds, LinkSettled, LinkInv, LinkShape
<1>4. CASE \/ Links!DialFails(p) \/ Links!BackoffEnds(p) \/ Links!Drained(p)
           \/ Links!Marked(p) \/ Links!Left(p) \/ Links!SessionOver(p)
  <2>1. LinkSettled
    BY <1>4 DEF Links!DialFails, Links!BackoffEnds, Links!Drained, Links!Marked,
                Links!Left, Links!SessionOver, LinkSettled, LinkInv, LinkShape
  <2>2. QED
    BY <2>1, LinkSettledKeeps
<1>5. CASE Links!Answer(p)
  <2>1. LinkSettled
    BY <1>5 DEF Links!Answer, Links!Frame, Links!linkVars, LinkSettled, LinkInv, LinkShape
  <2>2. QED
    BY <2>1, LinkSettledKeeps
<1>6. QED
  BY <1>1, <1>2, <1>3, <1>4, <1>5 DEF Links!Loop

(* Everything else that happens to one path.                               *)
LEMMA LinkPathKeeps ==
  ASSUME LinkInv, NEW p \in Links!Paths,
         \/ Links!Accept(p) \/ Links!AuthOk(p) \/ Links!Told(p) \/ Links!Frame(p)
         \/ Links!Reconcile(p) \/ Links!Cut(p) \/ Links!Reset(p)
  PROVE  LinkInv'
<1>1. CASE Links!Accept(p)
  BY <1>1, GreetedKeeps DEF Links!Accept
<1>2. CASE Links!AuthOk(p)
  <2>1. LinkSettled
    BY <1>2 DEF Links!AuthOk, LinkSettled, LinkInv, LinkShape
  <2>2. QED
    BY <2>1, LinkSettledKeeps
<1>3. CASE Links!Told(p)
  BY <1>3, LinkCloseKeeps DEF Links!Told
<1>4. CASE Links!Frame(p) \/ Links!Cut(p) \/ Links!Reset(p)
  <2>1. LinkSettled
    BY <1>4 DEF Links!Frame, Links!Cut, Links!Reset, Links!Becomes, Links!linkVars,
                LinkSettled, LinkInv, LinkShape
  <2>2. QED
    BY <2>1, LinkSettledKeeps
<1>5. CASE Links!Reconcile(p)
  <2>1. Links!StartClose(p) \/ LinkSettled
    BY <1>5 DEF Links!Reconcile, Links!Cancel, LinkSettled, LinkInv, LinkShape
  <2>2. QED
    BY <2>1, LinkCloseKeeps, LinkSettledKeeps
<1>6. QED
  BY <1>1, <1>2, <1>3, <1>4, <1>5

LEMMA LinkClocksKeep ==
  ASSUME LinkInv,
         Links!StopsWaiting \/ Links!Heartbeat \/ Links!Send \/ Links!Sweep \/ Links!Tick
  PROVE  LinkInv'
<1>1. LinkSettled
  BY DEF Links!StopsWaiting, Links!Heartbeat, Links!Send, Links!Sweep, Links!Tick,
         Links!linkVars, LinkSettled, LinkInv, LinkShape
<1>2. QED
  BY <1>1, LinkSettledKeeps

LEMMA LinkRestartKeeps == LinkInv /\ Links!PeerRestarts => LinkInv'
  BY DEF Links!PeerRestarts, LinkInv, LinkShape, NoneFromTheFuture, Links!OneGeneration

(* _retire_old_generation: of two connections that were greeted by         *)
(* different instances of the peer the older has its close scheduled,      *)
(* whatever the order of handshakes, restarts, closes and reconciles.      *)
THEOREM GenerationsDoNotMix == Links!Spec => []OneGeneration
<1>1. LinkInv /\ [Links!Next]_(Links!vars) => LinkInv'
  <2> SUFFICES ASSUME LinkInv, [Links!Next]_(Links!vars) PROVE LinkInv'
    OBVIOUS
  <2>1. CASE UNCHANGED Links!vars
    BY <2>1 DEF Links!vars, LinkInv, LinkShape, NoneFromTheFuture, Links!OneGeneration
  <2>2. CASE Links!Next
    BY <2>2, LinkLoopKeeps, LinkPathKeeps, LinkClocksKeep, LinkRestartKeeps DEF Links!Next
  <2>3. QED
    BY <2>1, <2>2
<1>2. LinkInv => OneGeneration
  BY DEF LinkInv, OneGeneration
<1>3. QED
  BY LinksBegin, <1>1, <1>2, PTL DEF Links!Spec
-----------------------------------------------------------------------------
(***************************************************************************)
(* A command port.  A spawn that none has overtaken finds no living child, *)
(* no open master and no recorded one, whatever attempts failed before it. *)
(* A stop that is under way finds no monitor, and one that has sent its    *)
(* signal finds nothing alive.  That is what lets SpawnDone hand the only  *)
(* living child to a new monitor, and a stop forget the process.           *)
(***************************************************************************)

Shape == /\ child \in [Cmd!Children -> {"unborn", "alive", "told", "exited", "reaped"}]
         /\ proc \in Cmd!Children \cup {0}
         /\ monitor \in [at : {"none", "waiting", "draining"}, of : Cmd!Children \cup {0}]
         /\ monitor.at # "none" => monitor.of \in Cmd!Children
         /\ spawns \in [Callers -> {"none", "pty", "pipe"}]

Tended == running => ~Cmd!MonitorDone \/ Cmd!Stopping

Watched(i) == \/ monitor = [at |-> "waiting", of |-> i]
              \/ stopper = "closing" \/ idle = "stopping"

ChildKept == \A i \in Cmd!Alive : i = proc /\ running /\ active /\ Watched(i)

OneMaster == masters \subseteq {fd} /\ fd \in {0, proc}

(* A call since whose begin no other one has come back.                    *)
Fresh == \A c \in Cmd!Spawning \ overtaken : Cmd!Alive = {} /\ masters = {} /\ fd = 0

Stopped == /\ Cmd!Stopping => Cmd!MonitorDone /\ fd = 0
           /\ stopper = "reaping" => Cmd!Alive = {}

Calm == ChildKept /\ OneMaster /\ Fresh /\ Stopped

CommandInv == Shape /\ Tended /\ (races = {} => Calm)

LEMMA CommandBegins == Cmd!Init => CommandInv
<1> SUFFICES ASSUME Cmd!Init PROVE CommandInv
  OBVIOUS
<1>1. PICK starter \in Callers :
        spawns = [c \in Callers |-> IF onDemand \/ c # starter THEN "none"
                                    ELSE IF pty THEN "pty" ELSE "pipe"]
  BY DEF Cmd!Init
<1>2. Cmd!Alive = {} /\ monitor.at = "none" /\ monitor.of = 0
  BY DEF Cmd!Init, Cmd!Alive, Cmd!NoMonitor
<1>3. Shape
  BY <1>1, <1>2 DEF Cmd!Init, Shape, Cmd!NoMonitor
<1>4. Calm
  BY <1>2 DEF Cmd!Init, Calm, ChildKept, OneMaster, Fresh, Stopped, Cmd!Stopping,
              Cmd!MonitorDone
<1>5. QED
  BY <1>3, <1>4 DEF CommandInv, Cmd!Init, Tended

(* What leaves the children, their keepers and the spawns alone.           *)
LEMMA CommandUntouched ==
    ASSUME CommandInv,
           UNCHANGED <<child, proc, running, active, spawns, monitor, idle, stopper,
                       masters, fd, overtaken, races>>
    PROVE  CommandInv'
  BY DEF CommandInv, Shape, Tended, Calm, ChildKept, Watched, OneMaster, Fresh, Stopped,
         Cmd!Stopping, Cmd!MonitorDone, Cmd!Alive, Cmd!Spawning

(* The idle timer is armed or called off, and a port whose process is not  *)
(* active, so that nothing lives, may begin a spawn.                       *)
LEMMA UsersKeep ==
    ASSUME CommandInv,
           \/ UNCHANGED <<spawns, masters, fd>>
           \/ ~active /\ \E c \in Callers : Cmd!BeginSpawn(c),
           idle' = idle \/ (idle # "stopping" /\ idle' # "stopping"),
           UNCHANGED <<child, proc, running, active, monitor, stopper, overtaken, races>>
    PROVE  CommandInv'
<1>1. /\ Cmd!Stopping' = Cmd!Stopping /\ Cmd!Alive' = Cmd!Alive
      /\ Cmd!MonitorDone' = Cmd!MonitorDone
      /\ \A i : Watched(i)' = Watched(i)
  BY DEF Cmd!Stopping, Cmd!Alive, Cmd!MonitorDone, Watched
<1>2. CASE UNCHANGED <<spawns, masters, fd>>
  BY <1>1, <1>2 DEF CommandInv, Shape, Tended, Calm, ChildKept, OneMaster, Fresh, Stopped,
                    Cmd!Spawning
<1>3. ASSUME NEW c \in Callers, ~active, Cmd!BeginSpawn(c) PROVE CommandInv'
  <2>1. Shape' /\ Tended'
    BY <1>1, <1>3 DEF CommandInv, Shape, Tended, Cmd!BeginSpawn
  <2>2. ASSUME races = {} PROVE Calm'
    <3>1. Cmd!Alive = {} /\ masters' = {} /\ fd' = 0
      BY <1>3, <2>2 DEF CommandInv, Calm, ChildKept, OneMaster, Cmd!BeginSpawn,
                        Cmd!ResetPrevious
    <3>2. QED
      BY <1>1, <2>2, <3>1 DEF CommandInv, Calm, ChildKept, OneMaster, Fresh, Stopped
  <2>3. QED
    BY <2>1, <2>2 DEF CommandInv
<1>4. QED
  BY <1>2, <1>3

LEMMA UsersPreserve ==
    ASSUME CommandInv, Cmd!ClientArrives \/ Cmd!ClientLeaves \/ Cmd!Enter
    PROVE  CommandInv'
<1>1. CASE Cmd!ClientArrives
  BY <1>1, UsersKeep DEF Cmd!ClientArrives, Cmd!files
<1>2. CASE Cmd!ClientLeaves
  BY <1>2, UsersKeep DEF Cmd!ClientLeaves, Cmd!files
<1>3. CASE Cmd!Enter
  BY <1>3, UsersKeep DEF Cmd!Enter
<1>4. QED
  BY <1>1, <1>2, <1>3

(* A spawn comes back: where nothing overlapped, its child is the only one *)
(* that lives and is handed to a new monitor.                              *)
LEMMA SpawnDonePreserves ==
    ASSUME CommandInv, NEW c \in Callers, Cmd!SpawnDone(c)
    PROVE  CommandInv'
<1>1. PICK i \in Cmd!Children :
        /\ Cmd!Born(i)
        /\ IF spawns[c] = "pty" THEN Cmd!NewMaster(i) ELSE UNCHANGED Cmd!files
        /\ monitor' = IF Cmd!MonitorDone THEN [at |-> "waiting", of |-> i] ELSE monitor
  BY DEF Cmd!SpawnDone
<1>2. /\ spawns[c] # "none" /\ spawns' = [spawns EXCEPT ![c] = "none"]
      /\ running' /\ active' /\ overtaken' = Cmd!Spawning \ {c}
      /\ races' = races \cup Cmd!Met(c) /\ UNCHANGED <<idle, stopper>>
  BY DEF Cmd!SpawnDone
<1>3. child' = [child EXCEPT ![i] = "alive"] /\ proc' = i
  BY <1>1 DEF Cmd!Born
<1>4. Shape'
  BY <1>1, <1>2, <1>3 DEF CommandInv, Shape
<1>5. ~Cmd!MonitorDone'
  BY <1>1 DEF Cmd!MonitorDone
<1>6. ASSUME races' = {} PROVE Calm'
  <2>1. /\ races = {} /\ c \notin overtaken /\ Cmd!MonitorDone
        /\ ~Cmd!Stopping /\ stopper = "none"
    BY <1>2, <1>6 DEF Cmd!Met
  <2>2. Cmd!Alive = {} /\ masters = {} /\ fd = 0
    BY <1>2, <2>1 DEF CommandInv, Calm, Fresh, Cmd!Spawning
  <2>3. Cmd!Alive' \subseteq {i} /\ monitor' = [at |-> "waiting", of |-> i]
    BY <1>1, <1>3, <2>1, <2>2 DEF Cmd!Alive, CommandInv, Shape
  <2>4. masters' \subseteq {fd'} /\ fd' \in {0, proc'}
    BY <1>1, <1>3, <2>2 DEF Cmd!NewMaster, Cmd!files
  <2>5. Cmd!Spawning' \subseteq overtaken'
    BY <1>2 DEF Cmd!Spawning, CommandInv, Shape
  <2>6. ~Cmd!Stopping' /\ stopper' = "none"
    BY <1>2, <2>1 DEF Cmd!Stopping
  <2>7. QED
    BY <1>2, <1>3, <2>3, <2>4, <2>5, <2>6 DEF Calm, ChildKept, Watched, OneMaster, Fresh,
       Stopped
<1>7. QED
  BY <1>4, <1>5, <1>6 DEF CommandInv, Tended

LEMMA SpawnStepPreserves ==
    ASSUME CommandInv, NEW c \in Callers, Cmd!SpawnStep(c)
    PROVE  CommandInv'
<1>1. CASE Cmd!PtyFails(c)
  <2>1. spawns' = [spawns EXCEPT ![c] = "pipe"] /\ spawns[c] = "pty"
    BY <1>1 DEF Cmd!PtyFails
  <2>2. Shape' /\ Cmd!Spawning' = Cmd!Spawning
    BY <1>1, <2>1 DEF Cmd!PtyFails, CommandInv, Shape, Cmd!Spawning
  <2>3. QED
    BY <1>1, <2>2 DEF Cmd!PtyFails, CommandInv, Tended, Calm, ChildKept, Watched, OneMaster,
                      Fresh, Stopped, Cmd!Stopping, Cmd!MonitorDone, Cmd!Alive
<1>2. CASE Cmd!SpawnFails(c)
  <2>1. spawns' = [spawns EXCEPT ![c] = "none"] /\ overtaken' = overtaken \ {c}
    BY <1>2 DEF Cmd!SpawnFails
  <2>2. Shape' /\ Cmd!Spawning' \ overtaken' \subseteq Cmd!Spawning \ overtaken
    BY <1>2, <2>1 DEF Cmd!SpawnFails, CommandInv, Shape, Cmd!Spawning
  <2>3. QED
    BY <1>2, <2>2 DEF Cmd!SpawnFails, CommandInv, Tended, Calm, ChildKept, Watched,
                      OneMaster, Fresh, Stopped, Cmd!Stopping, Cmd!MonitorDone, Cmd!Alive,
                      Cmd!files
<1>3. CASE Cmd!PtyTooLate(c)
  <2>1. Shape'
    BY <1>3 DEF Cmd!PtyTooLate, Cmd!Born, CommandInv, Shape
  <2>2. races' # {} /\ UNCHANGED <<running, monitor, idle, stopper>>
    BY <1>3 DEF Cmd!PtyTooLate
  <2>3. QED
    BY <2>1, <2>2 DEF CommandInv, Tended, Cmd!Stopping, Cmd!MonitorDone
<1>4. QED
  BY <1>1, <1>2, <1>3, SpawnDonePreserves DEF Cmd!SpawnStep

(* A child's end, as the reader of its output and its monitor see it.      *)
LEMMA ExitPreserves ==
    ASSUME CommandInv,
           \/ \E i \in Cmd!Children : Cmd!Exits(i)
           \/ Cmd!OutputEnds \/ Cmd!MonitorSeesExit \/ Cmd!MonitorEnds
    PROVE  CommandInv'
<1> USE DEF CommandInv
<1>1. ASSUME NEW i \in Cmd!Children, Cmd!Exits(i) PROVE CommandInv'
  <2>1. Shape' /\ Cmd!Alive' \subseteq Cmd!Alive
    BY <1>1 DEF Cmd!Exits, Shape, Cmd!Alive
  <2>2. QED
    BY <1>1, <2>1 DEF Cmd!Exits, Tended, Calm, ChildKept, Watched, OneMaster, Fresh,
                      Stopped, Cmd!Stopping, Cmd!MonitorDone, Cmd!Spawning, Cmd!files
<1>2. CASE Cmd!OutputEnds
  <2>1. Cmd!Ended(fd) \/ Cmd!Ended(proc)
    BY <1>2 DEF Cmd!OutputEnds
  <2>2. races = {} => Cmd!Alive = {}
    BY <2>1 DEF Calm, ChildKept, OneMaster, Cmd!Ended, Cmd!Alive
  <2>3. Cmd!Alive' = Cmd!Alive /\ Shape'
    BY <1>2 DEF Cmd!OutputEnds, Cmd!Alive, Shape
  <2>4. QED
    BY <1>2, <2>2, <2>3 DEF Cmd!OutputEnds, Tended, Calm, ChildKept, OneMaster, Fresh,
                            Stopped, Cmd!Stopping, Cmd!MonitorDone, Cmd!Spawning, Cmd!files
<1>3. CASE Cmd!MonitorSeesExit
  <2>1. /\ monitor.at = "waiting" /\ Cmd!Ended(monitor.of)
        /\ child' = [child EXCEPT ![monitor.of] = "reaped"]
        /\ monitor' = [monitor EXCEPT !.at = "draining"]
    BY <1>3 DEF Cmd!MonitorSeesExit
  <2>2. Shape' /\ Cmd!Alive' \subseteq Cmd!Alive /\ ~Cmd!MonitorDone /\ ~Cmd!MonitorDone'
    BY <1>3, <2>1 DEF Cmd!MonitorSeesExit, Shape, Cmd!Alive, Cmd!MonitorDone
  <2>3. races = {} => ~Cmd!Stopping /\ Cmd!Alive = {}
    BY <2>1, <2>2 DEF Calm, Stopped, ChildKept, Watched, Cmd!Ended, Cmd!Stopping, Cmd!Alive
  <2>4. QED
    BY <1>3, <2>2, <2>3 DEF Cmd!MonitorSeesExit, Tended, Calm, ChildKept, OneMaster, Fresh,
                            Stopped, Cmd!Stopping, Cmd!Spawning, Cmd!files
<1>4. CASE Cmd!MonitorEnds
  <2>1. Shape' /\ Cmd!MonitorDone' /\ Cmd!Alive' = Cmd!Alive /\ ~running'
    BY <1>4 DEF Cmd!MonitorEnds, Shape, Cmd!MonitorDone, Cmd!NoMonitor, Cmd!Alive
  <2>2. races = {} => ~Cmd!Stopping /\ Cmd!Alive = {}
    BY <1>4 DEF Cmd!MonitorEnds, Calm, Stopped, ChildKept, Watched, Cmd!Stopping,
                Cmd!MonitorDone
  <2>3. QED
    BY <1>4, <2>1, <2>2 DEF Cmd!MonitorEnds, Tended, Calm, ChildKept, OneMaster, Fresh,
                            Stopped, Cmd!Stopping, Cmd!Spawning, Cmd!files
<1>5. QED
  BY <1>1, <1>2, <1>3, <1>4

\* A stop signals the port's process or leaves the children as they are.
LEMMA Telling ==
    ASSUME CommandInv, child' = child \/ child' = Cmd!Told(proc)
    PROVE  /\ child' \in [Cmd!Children -> {"unborn", "alive", "told", "exited", "reaped"}]
           /\ Cmd!Alive' \subseteq Cmd!Alive
           /\ child' = Cmd!Told(proc) /\ races = {} => Cmd!Alive' = {}
<1>1. CASE child' = child
  BY <1>1 DEF CommandInv, Shape, Calm, ChildKept, Cmd!Told, Cmd!Alive
<1>2. CASE proc \in Cmd!Alive /\ child' = [child EXCEPT ![proc] = "told"]
  BY <1>2 DEF CommandInv, Shape, Calm, ChildKept, Cmd!Alive
<1>3. QED
  BY <1>1, <1>2 DEF Cmd!Told

(* stop() up to its first await: the monitor and the master go, and what   *)
(* lives on is kept by the stop.                                           *)
LEMMA StopsKeep ==
    ASSUME CommandInv, Cmd!StopBegins, Cmd!Stopping',
           Cmd!Suspends => Cmd!Stopping' /\ (idle' = "stopping" \/ stopper' = "closing"),
           stopper' = "reaping" => stopper = "reaping" \/ ~Cmd!Suspends,
           UNCHANGED <<proc, running, active, spawns, overtaken, races>>
    PROVE  CommandInv'
<1>1. /\ monitor' = Cmd!NoMonitor /\ fd' = 0 /\ masters' = masters \ {fd}
      /\ child' = child \/ child' = Cmd!Told(proc)
      /\ ~Cmd!Suspends => child' = Cmd!Told(proc)
  BY DEF Cmd!StopBegins, Cmd!ResetPrevious
<1>2. Shape' /\ Cmd!MonitorDone' /\ Tended'
  BY <1>1, Telling DEF CommandInv, Shape, Cmd!NoMonitor, Cmd!MonitorDone, Tended
<1>3. ASSUME races = {} PROVE Calm'
  <2>1. Cmd!Alive' \subseteq Cmd!Alive /\ (~Cmd!Suspends => Cmd!Alive' = {})
    BY <1>1, <1>3, Telling
  <2>2. masters' = {} /\ fd' = 0
    BY <1>1, <1>3 DEF CommandInv, Calm, OneMaster
  <2>3. ChildKept'
    BY <1>3, <2>1 DEF CommandInv, Calm, ChildKept, Watched
  <2>4. Fresh' /\ OneMaster'
    BY <1>3, <2>1, <2>2 DEF CommandInv, Calm, Fresh, OneMaster, Cmd!Spawning
  <2>5. Stopped'
    BY <1>2, <1>3, <2>1, <2>2 DEF CommandInv, Calm, Stopped
  <2>6. QED
    BY <2>3, <2>4, <2>5 DEF Calm
<1>4. QED
  BY <1>2, <1>3 DEF CommandInv

\* A stop is over: the port has let go of a process that is dead.
LEMMA ResetKeeps ==
    ASSUME CommandInv, Cmd!Stopping, Cmd!Reset,
           UNCHANGED <<spawns, monitor, fd, masters, overtaken>>,
           child' \in [Cmd!Children -> {"unborn", "alive", "told", "exited", "reaped"}],
           Cmd!Alive' \subseteq Cmd!Alive,
           races' = {} => races = {} /\ Cmd!Alive = {},
           stopper' = "reaping" => stopper = "reaping", Cmd!Stopping' => Cmd!Stopping
    PROVE  CommandInv'
<1>1. Shape' /\ ~running' /\ proc' = 0
  BY DEF CommandInv, Shape, Cmd!Reset
<1>2. races' = {} => Calm'
  BY <1>1 DEF CommandInv, Calm, ChildKept, OneMaster, Fresh, Stopped, Cmd!MonitorDone,
              Cmd!Spawning
<1>3. QED
  BY <1>1, <1>2 DEF CommandInv, Tended

LEMMA StopPreserves ==
    ASSUME CommandInv, Cmd!Destroy \/ Cmd!IdleFires \/ Cmd!StopStep
    PROVE  CommandInv'
<1>1. CASE Cmd!Destroy /\ ~running /\ proc = 0
  <2>1. /\ stopper = "none" /\ stopper' = "destroyed"
        /\ UNCHANGED <<child, proc, running, active, spawns, monitor, idle, masters, fd,
                       overtaken, races>>
    BY <1>1 DEF Cmd!Destroy, Cmd!Listed, Cmd!files
  <2>2. races = {} => Cmd!Alive = {}
    BY <1>1 DEF CommandInv, Calm, ChildKept, Cmd!Alive, Cmd!Children
  <2>3. QED
    BY <1>1, <2>1, <2>2 DEF CommandInv, Shape, Tended, Calm, ChildKept, OneMaster, Fresh,
                            Stopped, Cmd!Stopping, Cmd!MonitorDone, Cmd!Alive, Cmd!Spawning
<1>2. CASE Cmd!Destroy /\ ~(~running /\ proc = 0)
  <2>1. Cmd!StopBegins /\ stopper' = IF Cmd!Suspends THEN "closing" ELSE "reaping"
    BY <1>2 DEF Cmd!Destroy
  <2>2. UNCHANGED <<proc, running, active, spawns, overtaken, races>>
    BY <1>2 DEF Cmd!Destroy
  <2>3. QED
    BY <2>1, <2>2, StopsKeep DEF Cmd!Stopping
<1>3. CASE Cmd!IdleFires /\ clients = 0 /\ running
  BY <1>3, StopsKeep DEF Cmd!IdleFires, Cmd!Stopping
<1>4. CASE Cmd!IdleFires /\ ~(clients = 0 /\ running)
  BY <1>4, UsersKeep DEF Cmd!IdleFires, Cmd!files
<1>5. CASE Cmd!StdinClosed
  <2>1. /\ stopper = "closing" /\ stopper' = "reaping" /\ child' = Cmd!Told(proc)
        /\ UNCHANGED <<proc, running, active, spawns, monitor, idle, masters, fd,
                       overtaken, races>>
    BY <1>5 DEF Cmd!StdinClosed, Cmd!files
  <2>2. Shape' /\ Cmd!Stopping /\ Cmd!Stopping'
    BY <2>1, Telling DEF CommandInv, Shape, Cmd!Stopping
  <2>3. races = {} => Cmd!Alive' = {}
    BY <2>1, Telling
  <2>4. QED
    BY <2>1, <2>2, <2>3 DEF CommandInv, Tended, Calm, ChildKept, OneMaster, Fresh, Stopped,
                            Cmd!MonitorDone, Cmd!Spawning
<1>6. CASE Cmd!Destroyed
  <2>1. child' = child \/ child' = [child EXCEPT ![doomed] = "reaped"]
    BY <1>6 DEF Cmd!Destroyed
  <2>2. /\ child' \in [Cmd!Children -> {"unborn", "alive", "told", "exited", "reaped"}]
        /\ Cmd!Alive' \subseteq Cmd!Alive
    BY <2>1 DEF CommandInv, Shape, Cmd!Alive
  <2>3. races' = {} => races = {} /\ Cmd!Alive = {}
    BY <1>6 DEF Cmd!Destroyed, CommandInv, Calm, Stopped
  <2>4. QED
    BY <1>6, <2>2, <2>3, ResetKeeps DEF Cmd!Destroyed, Cmd!Stopping, Cmd!files
<1>7. CASE Cmd!IdleStopCut
  <2>1. races' = {} => races = {} /\ Cmd!Alive = {}
    BY <1>7 DEF Cmd!IdleStopCut, CommandInv, Calm, ChildKept
  <2>2. child' = child /\ Cmd!Alive' = Cmd!Alive
    BY <1>7 DEF Cmd!IdleStopCut, Cmd!Alive
  <2>3. QED
    BY <1>7, <2>1, <2>2, ResetKeeps DEF Cmd!IdleStopCut, Cmd!Stopping, Cmd!files,
       CommandInv, Shape
<1>8. QED
  BY <1>1, <1>2, <1>3, <1>4, <1>5, <1>6, <1>7 DEF Cmd!StopStep

(* CommandPort: the flag of a running port does not outlive the monitor    *)
(* and the stops that clear it, in any interleaving.  As long as no two    *)
(* overlapping spawns both came back, none came back under a monitor or a  *)
(* stop, and no idle stop left a child on pipes unsignalled, every living  *)
(* child is the port's own, is watched by its monitor or about to be told  *)
(* by a stop, and no master is open but its own; whatever spawns fail, on  *)
(* a terminal or on pipes, and whatever else overlaps.                     *)
THEOREM ChildrenHaveKeepers == Cmd!Spec => []ChildHasKeeper
<1>1. CommandInv /\ [Cmd!Next]_(Cmd!vars) => CommandInv'
  <2> SUFFICES ASSUME CommandInv, [Cmd!Next]_(Cmd!vars) PROVE CommandInv'
    OBVIOUS
  <2>1. CASE UNCHANGED Cmd!vars
    BY <2>1, CommandUntouched DEF Cmd!vars
  <2>2. CASE Cmd!Next
    BY <2>2, UsersPreserve, SpawnStepPreserves, ExitPreserves, StopPreserves DEF Cmd!Next
  <2>3. QED
    BY <2>1, <2>2
<1>2. CommandInv => ChildHasKeeper
  BY DEF CommandInv, Tended, Calm, ChildKept, Watched, OneMaster, ChildHasKeeper,
         Cmd!ChildHasKeeper
<1>3. QED
  BY CommandBegins, <1>1, <1>2, PTL DEF Cmd!Spec
=============================================================================
