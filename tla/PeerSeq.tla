------------------------------ MODULE PeerSeq ------------------------------
(***************************************************************************)
(* DATA frames between two MuxCon peers.  They are numbered per peer, not  *)
(* per connection, and may travel over several connections at once: the    *)
(* receiver buffers what is out of order, acknowledges every frame it has  *)
(* handled, and starts over when the sender presents a new instance id.    *)
(*                                                                         *)
(* Each end of each connection has one read loop.  It handles a DATA frame *)
(* to its end, and the write to a local port inside it may suspend, so that *)
(* the loops of two connections interleave over the same counters.  Output *)
(* for a federated port is only put in queues, which never suspends.       *)
(***************************************************************************)
EXTENDS Naturals, Sequences, FiniteSets

CONSTANTS Nodes,      \* the two peers
          Slow,       \* peers whose streams lead to local ports
          MaxLive,    \* connections the configuration dials
          MaxConns,   \* bound: connections ever opened
          MaxSends,   \* bound, per peer: payloads sent in one life
          MaxLives,   \* bound, per peer: restarts
          MaxLost,    \* bound: connections that fail under both peers
          MaxCut,     \* bound: sends cancelled half-way
          MaxCopies   \* bound: copies of a frame on the wire

Peer(n) == CHOOSE m \in Nodes : m # n

ASSUME PeerSeqAssumption ==
         /\ IsFiniteSet(Nodes) /\ Cardinality(Nodes) = 2
         /\ Slow \subseteq Nodes
         /\ {MaxLive, MaxConns, MaxLost, MaxCut, MaxCopies} \subseteq Nat
         /\ MaxLive <= MaxConns
         /\ MaxSends \in [Nodes -> Nat] /\ MaxLives \in [Nodes -> Nat]

Conns == 1..MaxConns

VARIABLES
  life,       \* life[n]: n's instance id
  born,       \* born[c]: both instance ids in c's handshake; <<>> before
  open,       \* the ends <<n, c>> still held
  wire,       \* wire[c][n]: frames on their way to n
  made,       \* made[n]: payloads of this life
  tx,         \* tx[n]: _peer_tx_seq
  sendbuf,    \* sendbuf[n]: frames not acknowledged yet
  rx,         \* rx[n]: _peer_rx_state, but for its buffer
  buffers,    \* buffers[n][e]: n's reorder buffer of resync e
  loop,       \* loop[n][c]: the delivery c's read loop is suspended in
  delivered,  \* history: frames handed to n's streams, in order
  acked,      \* history: frames of this life whose ack n has read
  gone,       \* history: frames n gave up with an ERROR, or in a crash
  lost, cut     \* counters for MaxLost, MaxCut

sender == <<made, tx, sendbuf, acked, cut>>
receiver == <<rx, buffers, loop, delivered, gone>>
links == <<born, open, lost>>
vars == <<life, links, wire, sender, receiver>>

-----------------------------------------------------------------------------
Data(f) == [kind |-> "data", f |-> f]
Ack(s) == [kind |-> "ack", seq |-> s]
FrameOf(n, s, k) == [from |-> n, life |-> life[n], k |-> k, seq |-> s]

NoState == [inst |-> 0, since |-> 0, epoch |-> 0, expected |-> 1, gap |-> "none"]
Idle == [next |-> 0, ack |-> 0, epoch |-> 0, flush |-> FALSE]

Init == /\ life = [n \in Nodes |-> 1]
        /\ born = [c \in Conns |-> IF c <= MaxLive THEN life ELSE <<>>]
        /\ open = Nodes \X (1..MaxLive)
        /\ lost = 0 /\ cut = 0
        /\ wire = [c \in Conns |-> [n \in Nodes |-> <<>>]]
        /\ made = [n \in Nodes |-> 0]
        /\ tx = [n \in Nodes |-> 1]
        /\ sendbuf = [n \in Nodes |-> {}]
        /\ rx = [n \in Nodes |-> NoState]
        /\ buffers = [n \in Nodes |-> <<{}>>]
        /\ loop = [n \in Nodes |-> [c \in Conns |-> Idle]]
        /\ delivered = [n \in Nodes |-> <<>>]
        /\ acked = [n \in Nodes |-> {}]
        /\ gone = [n \in Nodes |-> {}]

(* Everything n does runs on its one event loop: while a delivery that       *)
(* cannot suspend is under way, n does nothing else.                         *)
Busy(n) == {c \in Conns : loop[n][c] # Idle}
Free(n) == n \in Slow \/ Busy(n) = {}

Ends(n) == {c \in Conns : <<n, c>> \in open}
Whole(c) == {<<n, c>> : n \in Nodes} \subseteq open

(* A frame to a peer that has let go of the connection goes nowhere.         *)
Put(w, c, n, x) == IF <<n, c>> \in open THEN [w EXCEPT ![c][n] = Append(@, x)] ELSE w

-----------------------------------------------------------------------------
(* Connections *)

Dialled == {c \in Conns : born[c] # <<>>}

Connect == /\ Cardinality({c \in Conns : Whole(c)}) < MaxLive
           /\ \A n \in Nodes : Free(n)
           /\ \E c \in Conns : /\ c = Cardinality(Dialled) + 1
                               /\ born' = [born EXCEPT ![c] = life]
                               /\ open' = open \cup {<<n, c>> : n \in Nodes}
           /\ UNCHANGED <<life, lost, wire, sender, receiver>>

(* A connection fails.  What a peer writes before it notices is lost with    *)
(* it; a suspended delivery goes on.                                         *)
Fail(c) == /\ Whole(c) /\ lost < MaxLost /\ \A n \in Nodes : Free(n)
           /\ lost' = lost + 1
           /\ open' = open \ {<<n, c>> : n \in Nodes}
           /\ wire' = [wire EXCEPT ![c] = [n \in Nodes |-> <<>>]]
           /\ UNCHANGED <<life, born, sender, receiver>>

(* The end a restarted peer left behind: its stream ends, or the newer       *)
(* generation's handshake retires it, with or without what is still unread.  *)
CloseEnd(n, c) == /\ <<n, c>> \in open /\ <<Peer(n), c>> \notin open /\ Free(n)
                  /\ open' = open \ {<<n, c>>}
                  /\ wire' = [wire EXCEPT ![c][n] = <<>>]
                  /\ UNCHANGED <<life, born, lost, sender, receiver>>

(* The process, or its MuxCon adapter in a full reload, starts over.         *)
Restart(n) ==
    /\ life[n] <= MaxLives[n]
    /\ life' = [life EXCEPT ![n] = @ + 1]
    /\ open' = open \ {<<n, c>> : c \in Conns}
    /\ wire' = [c \in Conns |-> [wire[c] EXCEPT ![n] = <<>>]]
    /\ made' = [made EXCEPT ![n] = 0]
    /\ tx' = [tx EXCEPT ![n] = 1]
    /\ sendbuf' = [sendbuf EXCEPT ![n] = {}]
    /\ acked' = [acked EXCEPT ![n] = {}]
    /\ rx' = [rx EXCEPT ![n] = NoState]
    /\ gone' = [gone EXCEPT ![n] = @ \cup UNION {buffers[n][e] : e \in DOMAIN buffers[n]}]
    /\ buffers' = [buffers EXCEPT ![n] = <<{}>>]
    /\ loop' = [loop EXCEPT ![n] = [c \in Conns |-> Idle]]
    /\ UNCHANGED <<born, lost, delivered, cut>>

-----------------------------------------------------------------------------
(* Sending: _send_data_mpath, _retx_loop, _rl_handle_ack *)

NextFrame(n) == FrameOf(n, tx[n], made[n] + 1)
Count(n) == /\ Free(n) /\ made[n] < MaxSends[n]
            /\ made' = [made EXCEPT ![n] = @ + 1]
            /\ tx' = [tx EXCEPT ![n] = @ + 1]

Send(n, c) == /\ c \in Ends(n)
              /\ Count(n)
              /\ wire' = Put(wire, c, Peer(n), Data(NextFrame(n)))
              /\ sendbuf' = [sendbuf EXCEPT ![n] = @ \cup {NextFrame(n)}]
              /\ UNCHANGED <<life, links, receiver, acked, cut>>

(* The task is cancelled in its drain (a pump whose stream closes): the frame *)
(* is written but never kept for retransmission.                             *)
SendCut(n, c) == /\ c \in Ends(n) /\ cut < MaxCut
                 /\ Count(n)
                 /\ cut' = cut + 1
                 /\ wire' = Put(wire, c, Peer(n), Data(NextFrame(n)))
                 /\ UNCHANGED <<life, links, receiver, sendbuf, acked>>

At(c, n, x) == {<<c, n, i>> : i \in {j \in DOMAIN wire[c][n] : wire[c][n][j] = x}}
OnWire(n, f) == UNION {At(c, Peer(n), Data(f)) \cup At(c, n, Ack(f.seq)) : c \in Conns}

(* Older than the retransmission timeout, on whatever path is primary now.   *)
Retransmit(n, c, f) == /\ c \in Ends(n) /\ f \in sendbuf[n] /\ Free(n)
                       /\ Cardinality(OnWire(n, f)) < MaxCopies
                       /\ wire' = Put(wire, c, Peer(n), Data(f))
                       /\ UNCHANGED <<life, links, sender, receiver>>

(* c's read loop at n takes the frame at the head of its stream.             *)
Reads(n, c, kind) == /\ <<n, c>> \in open /\ loop[n][c] = Idle /\ Free(n)
                     /\ wire[c][n] # <<>>
                     /\ Head(wire[c][n]).kind = kind
Rest(n, c) == [wire EXCEPT ![c][n] = Tail(@)]

TakeAck(n, c) ==
    /\ Reads(n, c, "ack")
    /\ LET done == {f \in sendbuf[n] : f.seq = Head(wire[c][n]).seq}
       IN  /\ sendbuf' = [sendbuf EXCEPT ![n] = @ \ done]
           /\ acked' = [acked EXCEPT ![n] = @ \cup done]
    /\ wire' = Rest(n, c)
    /\ UNCHANGED <<life, links, receiver, made, tx, cut>>

-----------------------------------------------------------------------------
(* Receiving: _handle_inbound_data, then the ack *)

Instance(n, c) == born[c][Peer(n)]

(* A variant for comparison: any new instance id is adopted.                 *)
NeverStale(n, c) == FALSE
(* The frame of a connection older than the generation adopted last.         *)
Stale(n, c) == /\ rx[n].inst \notin {0, Instance(n, c)}
               /\ c <= rx[n].since

(* A variant for comparison: a resync forgets the expected number.           *)
ResyncedTxOnly(n, c) == [rx[n] EXCEPT !.inst = Instance(n, c), !.since = c,
                                      !.epoch = @ + 1, !.gap = "none"]
Resynced(n, c) ==
    [rx[n] EXCEPT !.inst = Instance(n, c), !.since = c, !.epoch = @ + 1,
                  !.expected = 1, !.gap = "none"]

(* _maybe_resync_peer_generation: the state the frame is handled with, and   *)
(* what else it resets.                                                      *)
Restarted(n, c) == rx[n].inst # 0 /\ rx[n].inst # Instance(n, c)
Adopted(n, c) == CASE Restarted(n, c) -> Resynced(n, c)
                   [] rx[n].inst = 0  -> [rx[n] EXCEPT !.inst = Instance(n, c), !.since = c]
                   [] OTHER           -> rx[n]
Bufs(n, c) == IF Restarted(n, c) THEN Append(buffers[n], {}) ELSE buffers[n]
ResetSender(n, c) == IF Restarted(n, c)
                     THEN /\ tx' = [tx EXCEPT ![n] = 1]
                          /\ sendbuf' = [sendbuf EXCEPT ![n] = {}]
                     ELSE UNCHANGED <<tx, sendbuf>>

(* The frame in turn is handed over; what follows it is up to LoopStep.      *)
HandOver(n, c, f, ack, st, flush) ==
    /\ delivered' = [delivered EXCEPT ![n] = Append(@, f)]
    /\ loop' = [loop EXCEPT ![n][c] = [next |-> f.seq + 1, ack |-> ack,
                                       epoch |-> st.epoch, flush |-> flush]]

Deliver(n, c, f, st) ==
    /\ f.seq = st.expected
    /\ HandOver(n, c, f, f.seq, st, FALSE)
    /\ rx' = [rx EXCEPT ![n] = st]
    /\ buffers' = [buffers EXCEPT ![n] = Bufs(n, c)]
    /\ wire' = Rest(n, c)
    /\ UNCHANGED gone

(* A variant for comparison: a frame dropped is not acknowledged.            *)
DropUnacked(n, c, f, st) ==
    /\ f.seq < st.expected
    /\ rx' = [rx EXCEPT ![n] = st]
    /\ buffers' = [buffers EXCEPT ![n] = Bufs(n, c)]
    /\ wire' = Rest(n, c)
    /\ UNCHANGED <<delivered, loop, gone>>

(* Received already, or given up: dropped.                                   *)
Drop(n, c, f, st) ==
    /\ f.seq < st.expected
    /\ rx' = [rx EXCEPT ![n] = st]
    /\ buffers' = [buffers EXCEPT ![n] = Bufs(n, c)]
    /\ wire' = Put(Rest(n, c), c, Peer(n), Ack(f.seq))
    /\ UNCHANGED <<delivered, loop, gone>>

With(n, c, f, st) == [Bufs(n, c) EXCEPT ![st.epoch + 1] =
                        {g \in @ : g.seq # f.seq} \cup {f}]

Keep(n, c, f, st) ==
    /\ f.seq > st.expected /\ st.gap # "stuck"
    /\ rx' = [rx EXCEPT ![n] = [st EXCEPT !.gap = "fresh"]]
    /\ buffers' = [buffers EXCEPT ![n] = With(n, c, f, st)]
    /\ wire' = Put(Rest(n, c), c, Peer(n), Ack(f.seq))
    /\ UNCHANGED <<delivered, loop, gone>>

(* _flush_stuck_gap: the missing numbers are given up.                       *)
Flush(n, c, f, st) ==
    /\ f.seq > st.expected /\ st.gap = "stuck"
    /\ LET buf == With(n, c, f, st)[st.epoch + 1]
           low == CHOOSE g \in buf : \A h \in buf : g.seq <= h.seq
       IN  /\ HandOver(n, c, low, f.seq, st, TRUE)
           /\ buffers' = [buffers EXCEPT ![n] =
                            [With(n, c, f, st) EXCEPT ![st.epoch + 1] = buf \ {low}]]
           /\ gone' = [gone EXCEPT ![n] = @ \cup {g \in sendbuf[Peer(n)] :
                                          g.seq \in st.expected..(low.seq - 1)}]
    /\ rx' = [rx EXCEPT ![n] = [st EXCEPT !.gap = "none"]]
    /\ wire' = Rest(n, c)

DropStale(n, c) ==
    /\ Reads(n, c, "data") /\ Stale(n, c)
    /\ wire' = Put(Rest(n, c), c, Peer(n), Ack(Head(wire[c][n]).f.seq))
    /\ UNCHANGED <<life, links, sender, receiver>>

Receive(n, c) ==
    /\ Reads(n, c, "data") /\ ~Stale(n, c)
    /\ LET f == Head(wire[c][n]).f
           st == Adopted(n, c)
       IN  Deliver(n, c, f, st) \/ Drop(n, c, f, st) \/ Keep(n, c, f, st)
             \/ Flush(n, c, f, st)
    /\ ResetSender(n, c)
    /\ UNCHANGED <<life, links, made, acked, cut>>

(* The write is done: what the buffer holds next follows, then the counter   *)
(* is stored and the frame acknowledged.                                     *)
DrainNext(n, c) ==
    /\ loop[n][c] # Idle
    /\ \E f \in buffers[n][loop[n][c].epoch + 1] :
         /\ f.seq = loop[n][c].next
         /\ delivered' = [delivered EXCEPT ![n] = Append(@, f)]
         /\ buffers' = [buffers EXCEPT ![n][loop[n][c].epoch + 1] = @ \ {f}]
    /\ loop' = [loop EXCEPT ![n][c].next = @ + 1]
    /\ UNCHANGED <<life, links, wire, sender, rx, gone>>

DrainDone(n, c) ==
    /\ loop[n][c] # Idle
    /\ \A f \in buffers[n][loop[n][c].epoch + 1] : f.seq # loop[n][c].next
    /\ rx' = [rx EXCEPT ![n].expected = loop[n][c].next,
                        ![n].gap = IF loop[n][c].flush THEN @ ELSE "none"]
    /\ loop' = [loop EXCEPT ![n][c] = Idle]
    /\ wire' = IF <<n, c>> \in open
               THEN Put(wire, c, Peer(n), Ack(loop[n][c].ack)) ELSE wire
    /\ UNCHANGED <<life, links, sender, buffers, delivered, gone>>

(* gap_stuck_sec have passed since the gap was noticed.                      *)
GapAges(n) == /\ rx[n].gap = "fresh"
              /\ rx' = [rx EXCEPT ![n].gap = "stuck"]
              /\ UNCHANGED <<life, links, wire, sender, buffers, loop, delivered, gone>>

-----------------------------------------------------------------------------
ReadLoop(n, c) == \/ Receive(n, c) \/ DropStale(n, c) \/ TakeAck(n, c)
                  \/ DrainNext(n, c) \/ DrainDone(n, c)

RetxLoop(n) == \E c \in Ends(n), f \in sendbuf[n] : Retransmit(n, c, f)

Next == \/ Connect
        \/ \E c \in Conns : Fail(c)
        \/ \E n \in Nodes :
             \/ Restart(n) \/ RetxLoop(n) \/ GapAges(n)
             \/ \E c \in Conns : \/ CloseEnd(n, c) \/ ReadLoop(n, c)
                                \/ Send(n, c) \/ SendCut(n, c)

Spec == Init /\ [][Next]_vars

(* Read loops and the retransmission loop keep running, lost connections are *)
(* dialled again and a half-closed one is noticed.                           *)
Fairness ==
    /\ WF_vars(Connect)
    /\ \A n \in Nodes :
         /\ WF_vars(RetxLoop(n))
         /\ \A c \in Conns : /\ WF_vars(ReadLoop(n, c))
                              /\ WF_vars(CloseEnd(n, c))

FairSpec == Spec /\ Fairness

-----------------------------------------------------------------------------
(* Properties *)

Frames(n) == [from : {n}, life : Nat \ {0}, k : Nat \ {0}, seq : Nat \ {0}]

(* Well-formed state; a frame in a reorder buffer or a send buffer carries a *)
(* number from 1 on (_next_peer_seq).                                        *)
TypeOK ==
    /\ life \in [Nodes -> Nat \ {0}]
    /\ born \in [Conns -> [Nodes -> Nat \ {0}] \cup {<<>>}]
    /\ open \subseteq Nodes \X Conns
    /\ \A n \in Nodes : /\ tx[n] \in Nat \ {0} /\ made[n] \in Nat
                        /\ sendbuf[n] \subseteq Frames(n)
                        /\ rx[n].epoch + 1 = Len(buffers[n])
                        /\ \A e \in DOMAIN buffers[n] : buffers[n][e] \subseteq Frames(Peer(n))

Given(n) == {delivered[n][i] : i \in 1..Len(delivered[n])}
Held(n) == UNION {buffers[n][e] : e \in 1..Len(buffers[n])}

Before(f, g) == f.life < g.life \/ (f.life = g.life /\ f.k < g.k)
InOrder(n) == \A i, j \in 1..Len(delivered[n]) :
                i < j => Before(delivered[n][i], delivered[n][j])
Taken(n) == acked[Peer(n)] \subseteq Given(n) \cup Held(n) \cup gone[n]

(* Output reaches the viewers in the order it was produced and nothing of it *)
(* twice, over two paths, losses, retransmissions and restarts of its origin *)
(* (_handle_inbound_data; muxcon.md section 6).                              *)
InOrderOnce == \A n \in Nodes \ Slow : life[n] = 1 => InOrder(n)

(* A frame is acknowledged only once it is delivered, held for delivery, or  *)
(* given up with an error in the log.                                        *)
AckedMeansTaken ==
    \A n \in Nodes : life[n] = 1 /\ (n \in Slow => life[Peer(n)] = 1) => Taken(n)

(* Every frame the sender keeps is acknowledged in the end, or forgotten in  *)
(* a restart: no payload is retransmitted for ever.                          *)
SendBufferDrains == \A n \in Nodes : []<>(sendbuf[n] = {})

(* Keystrokes too reach their port in order and once ("enforce in-order      *)
(* delivery per peer", _handle_inbound_data).                                *)
KeystrokesOnce == \A n \in Slow : life[n] = 1 /\ life[Peer(n)] = 1 => InOrder(n)

(* A restart on either side loses nothing silently (muxcon.md section 6.1).  *)
NoSilentLoss == \A n \in Nodes : Taken(n)
=============================================================================
