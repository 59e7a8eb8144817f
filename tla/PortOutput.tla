----------------------------- MODULE PortOutput -----------------------------
(***************************************************************************)
(* The output of one local port: the scrollback ring, a delivery queue per *)
(* attached client and the one shared queue that every federation relay of *)
(* the port reads.  A relay (pump) is a task: it takes a hold on the port,  *)
(* sends the scrollback as a seed, then relays what the shared queue gives *)
(* it.  Its tasks are cancelled when a stream closes and may be replaced    *)
(* before they have noticed.                                               *)
(***************************************************************************)
EXTENDS Naturals, Sequences, FiniteSets, SequencesExt

CONSTANTS Locals,     \* clients of this server
          Streams,    \* (peer, stream id) slots of federation streams
          QueueSize,  \* chunks a queue holds (100 in the code)
          RingSize,   \* chunks the scrollback ring holds
          MaxChunks,  \* bound: chunks the device produces
          MaxTasks,   \* bound: pump tasks at a time
          MaxHolds    \* bound: holds at which no further stream is opened

ASSUME PortOutputAssumption ==
         /\ Locals \cap Streams = {}
         /\ IsFiniteSet(Locals) /\ IsFiniteSet(Streams)
         /\ QueueSize \in Nat \ {0}
         /\ {RingSize, MaxChunks, MaxTasks, MaxHolds} \subseteq Nat

None == "none"
Clients == Locals \cup Streams
Tasks == 1..MaxTasks

VARIABLES
  made,     \* chunks produced so far: chunk k is the k-th
  ring,     \* _scrollback
  seats,    \* connected_clients
  queue,    \* client_queues; <<>> for who has no seat
  shared,   \* data_queue
  holds,    \* _federation_viewer_count
  dropped,  \* dropped_chunks
  session,  \* slots in _local_session_map
  pump,     \* pump[s]: the task in _pump_tasks, 0 for none
  task,     \* the pump tasks
  joined,   \* history: chunks made when the client took its seat
  got,      \* history: chunks forwarded to the client since
  since,    \* history: chunks made when the pump took its hold
  sent,     \* history: chunks the pump has sent, seed included
  out       \* history: chunks any pump has taken from the shared queue

port == <<made, ring, shared, holds, dropped>>
viewers == <<seats, queue, joined, got>>
relays == <<session, pump, task, since, sent, out>>
vars == <<port, viewers, relays>>

-----------------------------------------------------------------------------
Off == [pc |-> "off", cancelled |-> FALSE, seed |-> <<>>, slot |-> None]

Init == /\ made = 0 /\ ring = <<>> /\ shared = <<>> /\ holds = 0 /\ dropped = 0
        /\ seats = {} /\ queue = [c \in Clients |-> <<>>]
        /\ session = {} /\ pump = [s \in Streams |-> 0]
        /\ task = [t \in Tasks |-> Off]
        /\ joined = [c \in Clients |-> 0] /\ got = [c \in Clients |-> {}]
        /\ since = [t \in Tasks |-> 0] /\ sent = [t \in Tasks |-> {}]
        /\ out = {}

-----------------------------------------------------------------------------
(* handle_incoming_port_data *)

Full(q) == Len(q) = QueueSize
(* A full queue loses its oldest chunk, never the new one.                   *)
Push(q, x) == Append(IF Full(q) THEN Tail(q) ELSE q, x)

(* A variant for comparison: only the shared queue's evictions count.        *)
EvictionsShared(fed) == IF fed /\ Full(shared) THEN 1 ELSE 0
(* Every eviction counts, also those from the queue of a federated client,   *)
(* which nothing reads.                                                      *)
Evictions(fed) == Cardinality({c \in seats : Full(queue[c])})
                    + (IF fed /\ Full(shared) THEN 1 ELSE 0)

Feeds(forced) == forced \/ seats # {} \/ holds > 0

(* A chunk of output, or a notice that is queued whoever watches.            *)
Produce(forced) ==
    LET k == made + 1 IN
    /\ made < MaxChunks
    /\ made' = k
    /\ ring' = LET r == Append(ring, k)
               IN  IF Len(r) > RingSize THEN Tail(r) ELSE r
    /\ queue' = [c \in Clients |-> IF c \in seats THEN Push(queue[c], k) ELSE queue[c]]
    /\ shared' = IF Feeds(forced) THEN Push(shared, k) ELSE shared
    /\ dropped' = dropped + Evictions(Feeds(forced))
    /\ UNCHANGED <<seats, holds, joined, got, relays>>

-----------------------------------------------------------------------------
(* Seats and the forwarding tasks of local clients *)

SitDown(c) == /\ seats' = seats \cup {c}
              /\ queue' = [queue EXCEPT ![c] = <<>>]
              /\ joined' = [joined EXCEPT ![c] = made]
              /\ got' = [got EXCEPT ![c] = {}]

(* The client's queue goes with its seat; the shared queue is left as it is. *)
StandUp(c) == /\ seats' = seats \ {c}
              /\ queue' = [queue EXCEPT ![c] = <<>>]
              /\ joined' = [joined EXCEPT ![c] = 0]
              /\ got' = [got EXCEPT ![c] = {}]

Attach(c) == c \notin seats /\ SitDown(c) /\ UNCHANGED <<port, relays>>
Detach(c) == c \in seats /\ StandUp(c) /\ UNCHANGED <<port, relays>>

Forward(c) == /\ queue[c] # <<>>
              /\ got' = [got EXCEPT ![c] = @ \cup {Head(queue[c])}]
              /\ queue' = [queue EXCEPT ![c] = Tail(@)]
              /\ UNCHANGED <<seats, joined, port, relays>>

-----------------------------------------------------------------------------
(* Federation streams *)

NewTask(s, t) == /\ task[t].pc = "off" /\ \A u \in 1..(t - 1) : task[u].pc # "off"
                 /\ task' = [task EXCEPT ![t] = [Off EXCEPT !.pc = "new", !.slot = s]]
                 /\ pump' = [pump EXCEPT ![s] = t]

(* An OPEN for a slot with a pump keeps it: a second one would share the     *)
(* queue with it.                                                            *)
Open(s) == /\ s \notin session /\ holds < MaxHolds
           /\ session' = session \cup {s}
           /\ SitDown(s)
           /\ \E t \in Tasks : NewTask(s, t)
           /\ UNCHANGED <<port, since, sent, out>>

(* CLOSE, or the peer's last path is gone (_stop_local_session): the slot is *)
(* claimed before its pump is cancelled.                                     *)
Close(s) == /\ s \in session
            /\ session' = session \ {s}
            /\ pump' = [pump EXCEPT ![s] = 0]
            /\ task' = [task EXCEPT ![pump[s]].cancelled = TRUE]
            /\ StandUp(s)
            /\ UNCHANGED <<port, since, sent, out>>

Running(t, pcs) == task[t].pc \in pcs /\ ~task[t].cancelled

Hold(n) == n + 1

(* The hold and the snapshot of the ring are taken in one go; the first      *)
(* frame of the seed is written before the task first suspends.              *)
Start(t) == /\ Running(t, {"new"})
            /\ holds' = Hold(holds)
            /\ since' = [since EXCEPT ![t] = made]
            /\ sent' = [sent EXCEPT ![t] = IF ring = <<>> THEN {} ELSE {Head(ring)}]
            /\ task' = [task EXCEPT ![t].pc = IF ring = <<>> THEN "loop" ELSE "seed",
                                    ![t].seed = IF ring = <<>> THEN <<>> ELSE Tail(ring)]
            /\ UNCHANGED <<made, ring, shared, dropped, viewers, session, pump, out>>

Seed(t) == /\ Running(t, {"seed"}) /\ task[t].seed # <<>>
           /\ sent' = [sent EXCEPT ![t] = @ \cup {Head(task[t].seed)}]
           /\ task' = [task EXCEPT ![t].seed = Tail(@)]
           /\ UNCHANGED <<port, viewers, session, pump, since, out>>

(* The frame is drained.                                                     *)
Resume(t) == /\ Running(t, {"seed", "send"}) /\ task[t].seed = <<>>
             /\ task' = [task EXCEPT ![t].pc = "loop"]
             /\ UNCHANGED <<port, viewers, session, pump, since, sent, out>>

Relay(t) == /\ Running(t, {"loop"}) /\ shared # <<>>
            /\ sent' = [sent EXCEPT ![t] = @ \cup {Head(shared)}]
            /\ shared' = Tail(shared)
            /\ out' = out \cup {Head(shared)}
            /\ task' = [task EXCEPT ![t].pc = "send"]
            /\ UNCHANGED <<made, ring, holds, dropped, viewers, session, pump, since>>

-----------------------------------------------------------------------------
(* The cancelled task runs once more *)

Gone(t) == /\ task' = [task EXCEPT ![t] = Off]
           /\ since' = [since EXCEPT ![t] = 0]
           /\ sent' = [sent EXCEPT ![t] = {}]

Cancelled(t, pcs) == task[t].pc \in pcs /\ task[t].cancelled

(* Before its first step nothing of it runs; while it seeds, the             *)
(* cancellation passes the handler that ends in the cleanup.                 *)
Vanish(t) == /\ Cancelled(t, {"new", "seed"})
             /\ Gone(t)
             /\ UNCHANGED <<port, viewers, session, pump, out>>

(* A variant for comparison: the slot is cleared whoever owns it now.        *)
OwnsAlways(t) == TRUE
Owns(t) == pump[task[t].slot] = t

(* A variant for comparison: the first stream to end ends every hold.        *)
ReleaseAll(n) == 0
Release(n) == IF n = 0 THEN 0 ELSE n - 1

(* _end_local_pump_cleanup.  The last hold to go takes the queue with it.    *)
Finish(t) == /\ Cancelled(t, {"loop", "send"})
             /\ holds' = Release(holds)
             /\ shared' = IF Release(holds) = 0 THEN <<>> ELSE shared
             /\ session' = IF Owns(t) THEN session \ {task[t].slot} ELSE session
             /\ pump' = IF Owns(t) THEN [pump EXCEPT ![task[t].slot] = 0] ELSE pump
             /\ Gone(t)
             /\ UNCHANGED <<made, ring, dropped, viewers, out>>

-----------------------------------------------------------------------------
PumpStep(t) == Start(t) \/ Seed(t) \/ Resume(t) \/ Relay(t) \/ Vanish(t) \/ Finish(t)

Next == \/ \E forced \in BOOLEAN : Produce(forced)
        \/ \E c \in Locals : Attach(c) \/ Detach(c) \/ Forward(c)
        \/ \E s \in Streams : Open(s) \/ Close(s)
        \/ \E t \in Tasks : PumpStep(t)

Spec == Init /\ [][Next]_vars

-----------------------------------------------------------------------------
(* Properties *)

Pcs == {"off", "new", "seed", "loop", "send"}
Chunks == 1..MaxChunks

(* Well-formed state; no queue and not the ring outgrows its size.           *)
TypeOK ==
    /\ made \in 0..MaxChunks /\ holds \in Nat /\ dropped \in Nat
    /\ ring \in Seq(Chunks) /\ Len(ring) <= RingSize
    /\ shared \in Seq(Chunks) /\ Len(shared) <= QueueSize
    /\ seats \subseteq Clients /\ session \subseteq Streams
    /\ queue \in [Clients -> Seq(Chunks)]
    /\ \A c \in Clients : Len(queue[c]) <= QueueSize
    /\ joined \in [Clients -> 0..MaxChunks] /\ got \in [Clients -> SUBSET Chunks]
    /\ pump \in [Streams -> 0..MaxTasks]
    /\ task \in [Tasks -> [pc : Pcs, cancelled : BOOLEAN, seed : Seq(Chunks), slot : Streams \cup {None}]]
    /\ since \in [Tasks -> 0..MaxChunks] /\ sent \in [Tasks -> SUBSET Chunks]
    /\ out \subseteq Chunks

Live(t) == task[t].pc \in {"seed", "loop", "send"}
Holding == {t \in Tasks : Live(t)}
Increasing(q) == \A i, j \in DOMAIN q : i < j => q[i] < q[j]

(* An attached client misses no chunk that is not counted as dropped, and    *)
(* reads them in order (_fan_out_to_client_queues).                          *)
LossIsCounted ==
    \A c \in seats :
      /\ Increasing(queue[c]) /\ \A k \in got[c], m \in ToSet(queue[c]) : k < m
      /\ Cardinality((joined[c] + 1 .. made) \ (got[c] \cup ToSet(queue[c]))) <= dropped

(* However far behind a client is, the newest output reaches it: a full      *)
(* queue gives up its oldest chunk.                                          *)
NewestKept == \A c \in seats : made > joined[c] => made \in got[c] \cup ToSet(queue[c])

(* The holds are counted: no pump loses its hold because another one ends    *)
(* (add_federation_buffering_hold, issue #83).                               *)
HoldsCoverPumps == Cardinality(Holding) <= holds

(* A stream has exactly one pump that is not on its way out, the one in the  *)
(* registry (issue #54): a replaced pump takes nothing of its successor's.   *)
OnePumpPerStream ==
    \A s \in Streams :
      /\ s \in session <=> pump[s] # 0
      /\ {t \in Tasks : task[t].pc # "off" /\ task[t].slot = s /\ ~task[t].cancelled}
           = IF s \in session THEN {pump[s]} ELSE {}

(* While a pump runs, every chunk made after it took its hold is relayed to  *)
(* some peer, waits in the shared queue, or was evicted and counted: another *)
(* relay that ends does not clear the queue under it.                        *)
NothingStranded ==
    \A t \in Holding : ~task[t].cancelled =>
      Cardinality((since[t] + 1 .. made) \ (out \cup ToSet(shared))) <= dropped

(* Each relay sends every byte of the port ("so the relay ... receives every *)
(* byte", add_federation_buffering_hold).                                    *)
EveryRelayGetsAll ==
    \A t \in Tasks :
      Running(t, {"loop"}) /\ shared = <<>> /\ dropped = 0 =>
        (since[t] + 1 .. made) \subseteq sent[t]

(* A relay that ends releases its hold (_end_local_pump_cleanup).            *)
HoldsReleased == holds = Cardinality(Holding)
=============================================================================
