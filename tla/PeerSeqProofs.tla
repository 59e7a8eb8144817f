---------------------------- MODULE PeerSeqProofs ----------------------------
(***************************************************************************)
(* InOrderOnce and AckedMeansTaken of PeerSeq, for any number of           *)
(* connections, payloads, restarts, losses, cancelled sends and copies.    *)
(* A receiver that has not restarted is judged against its peer: the peer  *)
(* then never resyncs, so that a frame's number says which payload it      *)
(* carries, and a life of the peer can be told by the connection.          *)
(***************************************************************************)
EXTENDS PeerSeq, SequenceTheorems, FiniteSetTheorems, WellFoundedInduction, TLAPS

AnyFrame == [from : Nodes, life : Nat \ {0}, k : Nat \ {0}, seq : Nat \ {0}]
Items == [kind : {"data"}, f : AnyFrame] \cup [kind : {"ack"}, seq : Nat]
Gaps == {"none", "fresh", "stuck"}
RxStates == [inst : Nat, since : Nat, epoch : Nat, expected : Nat, gap : Gaps]
Deliveries == [next : Nat, ack : Nat, epoch : Nat, flush : BOOLEAN]

Types ==
  /\ life \in [Nodes -> Nat \ {0}]
  /\ born \in [Conns -> [Nodes -> Nat \ {0}] \cup {<<>>}]
  /\ open \subseteq Nodes \X Conns
  /\ wire \in [Conns -> [Nodes -> Seq(Items)]]
  /\ made \in [Nodes -> Nat] /\ tx \in [Nodes -> Nat \ {0}]
  /\ sendbuf \in [Nodes -> SUBSET AnyFrame] /\ acked \in [Nodes -> SUBSET AnyFrame]
  /\ rx \in [Nodes -> RxStates]
  /\ buffers \in [Nodes -> Seq(SUBSET AnyFrame)]
  /\ loop \in [Nodes -> [Conns -> Deliveries]]
  /\ delivered \in [Nodes -> Seq(AnyFrame)] /\ gone \in [Nodes -> SUBSET AnyFrame]
  /\ \A n \in Nodes : /\ Len(buffers[n]) = rx[n].epoch + 1
                      /\ \A c \in Conns : loop[n][c].epoch <= rx[n].epoch

On(c, n) == {wire[c][n][i] : i \in 1..Len(wire[c][n])}

DialledInTurn ==
  /\ \E d \in 0..MaxConns : Dialled = 1..d
  /\ \A m \in Nodes, c \in Dialled :
        /\ born[c][m] <= life[m]
        /\ \A b \in Dialled : b <= c => born[b][m] <= born[c][m]
  /\ \A m \in Nodes, c \in Conns :
        /\ <<m, c>> \in open => c \in Dialled /\ born[c][m] = life[m]
        /\ wire[c][m] # <<>> => <<m, c>> \in open

Of(n, f, l) == /\ f.from = Peer(n) /\ f.life = l /\ f.k = f.seq
               /\ l = life[Peer(n)] => f.seq < tx[Peer(n)]

Numbered(n) ==
  life[n] = 1 =>
    /\ tx[Peer(n)] = made[Peer(n)] + 1
    /\ rx[Peer(n)].inst \in {0, 1}
    /\ \A f \in sendbuf[Peer(n)] : Of(n, f, life[Peer(n)])
    /\ \A c \in Conns : \A x \in On(c, n) :
          x.kind = "data" => Of(n, x.f, born[c][Peer(n)])

Calm(n) == life[n] = 1 /\ (n \in Slow => life[Peer(n)] = 1)
Buf(n) == buffers[n][rx[n].epoch + 1]

Receiving(n) ==
  Calm(n) =>
    /\ rx[n].inst = 0 => /\ rx[n].expected = 1 /\ rx[n].epoch = 0
                         /\ delivered[n] = <<>> /\ Buf(n) = {} /\ Busy(n) = {}
    /\ rx[n].inst # 0 => /\ rx[n].since \in Dialled
                         /\ born[rx[n].since][Peer(n)] = rx[n].inst
    /\ \A c \in Busy(n) : loop[n][c].epoch = rx[n].epoch
    /\ \A f \in Buf(n) : Of(n, f, rx[n].inst)

Ahead(n, x) == /\ \A g \in Given(n) : Before(g, [life |-> rx[n].inst, k |-> x])
               /\ \A f \in Buf(n) : x <= f.seq

Ordered(n) ==
  life[n] = 1 /\ n \notin Slow =>
    /\ InOrder(n)
    /\ \A c, d \in Busy(n) : c = d
    /\ \A c \in Busy(n) : Ahead(n, loop[n][c].next)
    /\ Busy(n) = {} => /\ Ahead(n, rx[n].expected)
                       /\ \A f \in Buf(n) : f.seq # rx[n].expected

Has(n) == Given(n) \cup Held(n) \cup gone[n]
Cursors(n) == {rx[n].expected} \cup {loop[n][c].next : c \in Busy(n)}
Passed(n, x) == /\ x <= tx[Peer(n)]
                /\ \A f \in sendbuf[Peer(n)] : f.seq < x => f \in Has(n)
Settled(n, s) == /\ s < tx[Peer(n)]
                 /\ \A f \in sendbuf[Peer(n)] : f.seq = s => f \in Has(n)

Accounted(n) ==
  Calm(n) =>
    /\ rx[n].inst = life[Peer(n)] => \A x \in Cursors(n) : Passed(n, x)
    /\ \A c \in Conns : <<Peer(n), c>> \in open =>
          /\ \A y \in On(c, Peer(n)) : y.kind = "ack" => Settled(n, y.seq)
          /\ c \in Busy(n) => Settled(n, loop[n][c].ack)
    /\ Busy(n) \subseteq Dialled
    /\ Taken(n)

-----------------------------------------------------------------------------
(* The peers, and what may travel between them *)

LEMMA Peers ==
  /\ \A n \in Nodes : Peer(n) \in Nodes /\ Peer(n) # n /\ Peer(Peer(n)) = n
  /\ \A m, n \in Nodes : m = n \/ m = Peer(n)
<1>1. ASSUME NEW n \in Nodes PROVE \E m : Nodes \ {n} = {m}
  <2>1. IsFiniteSet(Nodes \ {n}) /\ Cardinality(Nodes \ {n}) = 1
    BY FS_RemoveElement, PeerSeqAssumption
  <2> QED
    BY <2>1, FS_Singleton
<1>2. ASSUME NEW n \in Nodes
      PROVE  Peer(n) \in Nodes /\ Peer(n) # n /\ \A m \in Nodes : m = n \/ m = Peer(n)
  <2>1. PICK m : Nodes \ {n} = {m}
    BY <1>1
  <2>2. m \in Nodes /\ m # n /\ \A x \in Nodes : x # n => x = m
    BY <2>1
  <2>3. Peer(n) \in Nodes /\ Peer(n) # n
    BY <2>2 DEF Peer
  <2> QED
    BY <2>2, <2>3
<1> QED
  BY <1>2

(* What is appended to a wire is on it, and what is read was.                *)
LEMMA WireOps ==
  ASSUME NEW S, NEW s \in Seq(S), NEW x \in S
  PROVE  /\ Append(s, x) \in Seq(S) /\ Append(s, x) # <<>>
         /\ \A i \in 1..Len(Append(s, x)) :
               Append(s, x)[i] = x \/ \E j \in 1..Len(s) : Append(s, x)[i] = s[j]
         /\ \A j \in 1..Len(s) : \E i \in 1..Len(Append(s, x)) : Append(s, x)[i] = s[j]
         /\ \E i \in 1..Len(Append(s, x)) : Append(s, x)[i] = x
         /\ s # <<>> => /\ Head(s) \in S /\ Tail(s) \in Seq(S)
                        /\ \E i \in 1..Len(s) : s[i] = Head(s)
                        /\ \A i \in 1..Len(Tail(s)) : \E j \in 1..Len(s) : Tail(s)[i] = s[j]
<1>1. /\ Len(Append(s, x)) = Len(s) + 1 /\ Append(s, x) \in Seq(S)
      /\ \A i \in 1..Len(s) : Append(s, x)[i] = s[i]
      /\ Append(s, x)[Len(s) + 1] = x /\ Len(s) \in Nat
  OBVIOUS
<1>2. ASSUME s # <<>>
      PROVE  /\ Head(s) \in S /\ Tail(s) \in Seq(S)
             /\ \E i \in 1..Len(s) : s[i] = Head(s)
             /\ \A i \in 1..Len(Tail(s)) : \E j \in 1..Len(s) : Tail(s)[i] = s[j]
  <2>1. /\ Head(s) \in S /\ Tail(s) \in Seq(S) /\ Len(Tail(s)) = Len(s) - 1
        /\ \A i \in 1..Len(Tail(s)) : Tail(s)[i] = s[i + 1]
    BY <1>2, HeadTailProperties
  <2>2. Len(s) >= 1 /\ Head(s) = s[1]
    BY <1>2
  <2>3. ASSUME NEW i \in 1..Len(Tail(s)) PROVE \E j \in 1..Len(s) : Tail(s)[i] = s[j]
    <3>1. i + 1 \in 1..Len(s)
      BY <2>1, <2>2
    <3> QED
      BY <2>1, <3>1
  <2> QED
    BY <2>1, <2>2, <2>3
<1>3. Append(s, x) # <<>>
  BY <1>1
<1> QED
  BY <1>1, <1>2, <1>3

Wires == [Conns -> [Nodes -> Seq(Items)]]
On2(w, c, n) == {w[c][n][i] : i \in 1..Len(w[c][n])}

LEMMA ItemTypes ==
  /\ \A f \in AnyFrame : Data(f) \in Items /\ Data(f).kind = "data" /\ Data(f).f = f
  /\ \A s \in Nat : Ack(s) \in Items /\ Ack(s).kind = "ack" /\ Ack(s).seq = s
  /\ \A x \in Items : /\ x.kind \in {"data", "ack"}
                      /\ x.kind = "data" => x.f \in AnyFrame
                      /\ x.kind = "ack" => x.seq \in Nat
  BY DEF Items, Data, Ack

LEMMA PutOn ==
  ASSUME NEW w \in Wires, NEW c \in Conns, NEW n \in Nodes, NEW x \in Items
  PROVE  /\ Put(w, c, n, x) \in Wires
         /\ \A d \in Conns, m \in Nodes :
              /\ Put(w, c, n, x)[d][m] # w[d][m] => d = c /\ m = n /\ <<n, c>> \in open
              /\ \A y \in On2(Put(w, c, n, x), d, m) :
                    \/ y \in On2(w, d, m)
                    \/ y = x /\ d = c /\ m = n /\ <<n, c>> \in open
<1>1. w[c] \in [Nodes -> Seq(Items)] /\ w[c][n] \in Seq(Items)
  BY DEF Wires
<1>2. CASE <<n, c>> \in open
  <2> DEFINE p == Append(w[c][n], x)
  <2>1. p \in Seq(Items) /\ \A i \in 1..Len(p) : p[i] = x \/ \E j \in 1..Len(w[c][n]) : p[i] = w[c][n][j]
    <3> DEFINE q == w[c][n]
    <3>1. q \in Seq(Items)
      BY <1>1
    <3>2. \A r \in Seq(Items) :
             /\ Append(r, x) \in Seq(Items)
             /\ \A i \in 1..Len(Append(r, x)) :
                   Append(r, x)[i] = x \/ \E j \in 1..Len(r) : Append(r, x)[i] = r[j]
      BY WireOps
    <3> HIDE DEF q
    <3>3. /\ Append(q, x) \in Seq(Items)
          /\ \A i \in 1..Len(Append(q, x)) :
                Append(q, x)[i] = x \/ \E j \in 1..Len(q) : Append(q, x)[i] = q[j]
      BY <3>1, <3>2
    <3> QED
      BY <3>3 DEF q
  <2>2. Put(w, c, n, x) = [w EXCEPT ![c][n] = p]
    BY <1>2 DEF Put
  <2>3. Put(w, c, n, x) \in Wires
    <3> HIDE DEF p
    <3> QED
      BY <2>1, <2>2 DEF Wires
  <2>4. \A d \in Conns, m \in Nodes :
           Put(w, c, n, x)[d][m] = IF d = c /\ m = n THEN p ELSE w[d][m]
    <3> HIDE DEF p
    <3> QED
      BY <2>2 DEF Wires
  <2> HIDE DEF p
  <2>5. ASSUME NEW d \in Conns, NEW m \in Nodes, NEW y \in On2(Put(w, c, n, x), d, m),
               ~(d = c /\ m = n)
        PROVE  y \in On2(w, d, m)
    BY <2>4, <2>5 DEF On2
  <2>6. ASSUME NEW y \in On2(Put(w, c, n, x), c, n)
        PROVE  y = x \/ y \in On2(w, c, n)
    BY <2>1, <2>4 DEF On2
  <2> QED
    BY <1>2, <2>3, <2>4, <2>5, <2>6
<1>3. CASE <<n, c>> \notin open
  BY <1>3 DEF Put
<1> QED
  BY <1>2, <1>3

LEMMA RestOn ==
  ASSUME Types, NEW c \in Conns, NEW n \in Nodes, wire[c][n] # <<>>
  PROVE  /\ Rest(n, c) \in Wires
         /\ Head(wire[c][n]) \in On(c, n) /\ Head(wire[c][n]) \in Items
         /\ \A d \in Conns, m \in Nodes :
              /\ Rest(n, c)[d][m] # wire[d][m] => d = c /\ m = n
              /\ \A y \in On2(Rest(n, c), d, m) : y \in On(d, m)
<1>1. wire \in Wires /\ wire[c][n] \in Seq(Items)
  BY DEF Types, Wires
<1> DEFINE p == Tail(wire[c][n])
<1>2. \A x \in Items : /\ Head(wire[c][n]) \in Items /\ p \in Seq(Items)
                       /\ \E i \in 1..Len(wire[c][n]) : wire[c][n][i] = Head(wire[c][n])
                       /\ \A i \in 1..Len(p) : \E j \in 1..Len(wire[c][n]) : p[i] = wire[c][n][j]
  BY <1>1, WireOps
<1>3. \E x : x \in Items
  BY ItemTypes, 0 \in Nat
<1>4. \A d \in Conns, m \in Nodes :
         Rest(n, c)[d][m] = IF d = c /\ m = n THEN p ELSE wire[d][m]
  BY <1>1 DEF Rest, Wires
<1>5. Rest(n, c) \in Wires
  <2>1. Rest(n, c) = [wire EXCEPT ![c][n] = p]
    BY DEF Rest
  <2> HIDE DEF p
  <2> QED
    BY <1>1, <1>2, <1>3, <2>1 DEF Wires
<1>6. /\ Head(wire[c][n]) \in Items
      /\ \E i \in 1..Len(wire[c][n]) : wire[c][n][i] = Head(wire[c][n])
      /\ \A i \in 1..Len(p) : \E j \in 1..Len(wire[c][n]) : p[i] = wire[c][n][j]
  BY <1>2, <1>3
<1> HIDE DEF p
<1>7. Head(wire[c][n]) \in On(c, n)
  BY <1>6 DEF On
<1>8. ASSUME NEW d \in Conns, NEW m \in Nodes
      PROVE  \A y \in On2(Rest(n, c), d, m) : y \in On(d, m)
  <2>1. CASE d = c /\ m = n
    <3>1. Rest(n, c)[d][m] = p
      BY <1>4, <2>1
    <3> SUFFICES ASSUME NEW i \in 1..Len(p) PROVE p[i] \in On(d, m)
      BY <3>1 DEF On2
    <3>2. PICK j \in 1..Len(wire[c][n]) : p[i] = wire[c][n][j]
      BY <1>6
    <3> QED
      BY <2>1, <3>2 DEF On
  <2>2. CASE ~(d = c /\ m = n)
    BY <1>4, <2>2 DEF On, On2
  <2> QED
    BY <2>1, <2>2
<1>9. \A d \in Conns, m \in Nodes : Rest(n, c)[d][m] # wire[d][m] => d = c /\ m = n
  BY <1>4
<1> QED
  BY <1>5, <1>6, <1>7, <1>8, <1>9

-----------------------------------------------------------------------------
(* Types *)

LEMMA Dial ==
  ASSUME Types, DialledInTurn, NEW n \in Nodes, NEW c \in Conns, <<n, c>> \in open
  PROVE  /\ c \in Dialled /\ born[c] \in [Nodes -> Nat \ {0}]
         /\ born[c][n] = life[n] /\ Instance(n, c) \in Nat \ {0}
<1>1. c \in Dialled /\ born[c][n] = life[n]
  BY DEF DialledInTurn
<1>2. born[c] \in [Nodes -> Nat \ {0}]
  BY <1>1 DEF Types, Dialled
<1> QED
  BY <1>1, <1>2, Peers DEF Instance

LEMMA ReadFrame ==
  ASSUME Types, NEW n \in Nodes, NEW c \in Conns, Reads(n, c, "data")
  PROVE  /\ <<n, c>> \in open /\ wire[c][n] # <<>>
         /\ Head(wire[c][n]) \in On(c, n) /\ Head(wire[c][n]) \in Items
         /\ Head(wire[c][n]).kind = "data" /\ Head(wire[c][n]).f \in AnyFrame
         /\ loop[n][c] = Idle /\ Free(n)
  BY RestOn, ItemTypes DEF Reads

LEMMA AdoptedType ==
  ASSUME Types, DialledInTurn, NEW n \in Nodes, NEW c \in Conns, <<n, c>> \in open
  PROVE  /\ Adopted(n, c) \in RxStates /\ Adopted(n, c).epoch >= rx[n].epoch
         /\ Adopted(n, c).inst = Instance(n, c)
         /\ Bufs(n, c) \in Seq(SUBSET AnyFrame)
         /\ Len(Bufs(n, c)) = Adopted(n, c).epoch + 1
         /\ \A d \in Conns : loop[n][d].epoch <= Adopted(n, c).epoch
<1>1. Instance(n, c) \in Nat /\ c \in Nat
  BY Dial, PeerSeqAssumption DEF Conns
<1>2. rx[n] \in RxStates /\ buffers[n] \in Seq(SUBSET AnyFrame)
      /\ Len(buffers[n]) = rx[n].epoch + 1
      /\ \A d \in Conns : loop[n][d] \in Deliveries /\ loop[n][d].epoch <= rx[n].epoch
  BY DEF Types
<1>3. CASE Restarted(n, c)
  <2>1. Adopted(n, c) = [rx[n] EXCEPT !.inst = Instance(n, c), !.since = c,
                                      !.epoch = @ + 1, !.expected = 1, !.gap = "none"]
    BY <1>3 DEF Adopted, Resynced, Restarted
  <2>2. /\ Adopted(n, c) \in RxStates /\ Adopted(n, c).epoch = rx[n].epoch + 1
        /\ Adopted(n, c).inst = Instance(n, c)
    <3>1. Adopted(n, c) = [inst |-> Instance(n, c), since |-> c, epoch |-> rx[n].epoch + 1,
                           expected |-> 1, gap |-> "none"]
      BY <1>2, <2>1 DEF RxStates
    <3>2. rx[n].epoch \in Nat
      BY <1>2 DEF RxStates
    <3> QED
      BY <1>1, <3>1, <3>2 DEF RxStates, Gaps
  <2>3. Bufs(n, c) = Append(buffers[n], {})
    BY <1>3 DEF Bufs
  <2>4. Bufs(n, c) \in Seq(SUBSET AnyFrame) /\ Len(Bufs(n, c)) = Len(buffers[n]) + 1
    BY <1>2, <2>3
  <2>5. \A d \in Conns : loop[n][d].epoch <= Adopted(n, c).epoch
    <3>1. rx[n].epoch \in Nat /\ \A d \in Conns : loop[n][d].epoch \in Nat
      BY <1>2 DEF RxStates, Deliveries
    <3> QED
      BY <1>2, <2>2, <3>1
  <2>6. rx[n].epoch \in Nat
    BY <1>2 DEF RxStates
  <2> QED
    BY <1>2, <2>2, <2>4, <2>5, <2>6
<1>4. CASE ~Restarted(n, c)
  <2>1. Bufs(n, c) = buffers[n]
    BY <1>4 DEF Bufs
  <2>2. CASE rx[n].inst = 0
    <3>1. Adopted(n, c) = [rx[n] EXCEPT !.inst = Instance(n, c), !.since = c]
      BY <1>4, <2>2 DEF Adopted
    <3>2. Adopted(n, c) = [inst |-> Instance(n, c), since |-> c, epoch |-> rx[n].epoch,
                           expected |-> rx[n].expected, gap |-> rx[n].gap]
      BY <1>2, <3>1 DEF RxStates
    <3>3. rx[n].epoch \in Nat /\ rx[n].expected \in Nat /\ rx[n].gap \in Gaps
      BY <1>2 DEF RxStates
    <3> QED
      BY <1>1, <1>2, <2>1, <3>2, <3>3 DEF RxStates
  <2>3. CASE rx[n].inst # 0
    <3>1. Adopted(n, c) = rx[n] /\ rx[n].inst = Instance(n, c)
      BY <1>4, <2>3 DEF Adopted, Restarted
    <3> QED
      BY <1>2, <2>1, <3>1 DEF RxStates
  <2> QED
    BY <2>2, <2>3
<1> QED
  BY <1>3, <1>4

(* A buffer with f in it, in place of what had its number.                   *)
Joined(buf, f) == {g \in buf : g.seq # f.seq} \cup {f}

LEMMA WithType ==
  ASSUME NEW n \in Nodes, NEW c \in Conns, NEW f \in AnyFrame, NEW st \in RxStates,
         Bufs(n, c) \in Seq(SUBSET AnyFrame), Len(Bufs(n, c)) = st.epoch + 1
  PROVE  /\ With(n, c, f, st) \in Seq(SUBSET AnyFrame)
         /\ Len(With(n, c, f, st)) = st.epoch + 1
         /\ With(n, c, f, st)[st.epoch + 1] = Joined(Bufs(n, c)[st.epoch + 1], f)
         /\ Bufs(n, c)[st.epoch + 1] \subseteq AnyFrame
         /\ \A e \in 1..st.epoch : With(n, c, f, st)[e] = Bufs(n, c)[e]
<1> DEFINE new == {g \in Bufs(n, c)[st.epoch + 1] : g.seq # f.seq} \cup {f}
<1>1. st.epoch \in Nat /\ st.epoch + 1 \in 1..Len(Bufs(n, c))
  BY DEF RxStates
<1>2. Bufs(n, c)[st.epoch + 1] \subseteq AnyFrame
  BY <1>1
<1>3. new \in SUBSET AnyFrame
  BY <1>2
<1>4. With(n, c, f, st) = [Bufs(n, c) EXCEPT ![st.epoch + 1] = new]
  BY DEF With
<1>5. \A e \in 1..st.epoch : e # st.epoch + 1 /\ e \in 1..Len(Bufs(n, c))
  BY <1>1
<1> HIDE DEF new
<1>6. /\ With(n, c, f, st) \in Seq(SUBSET AnyFrame)
      /\ Len(With(n, c, f, st)) = st.epoch + 1
      /\ \A j \in 1..Len(Bufs(n, c)) :
           With(n, c, f, st)[j] = IF j = st.epoch + 1 THEN new ELSE Bufs(n, c)[j]
  BY <1>1, <1>3, <1>4, ExceptSeq
<1> QED
  BY <1>1, <1>2, <1>5, <1>6 DEF new, Joined

(* The frame a flush starts with has the least number.                       *)
LEMMA LowestFrame ==
  ASSUME NEW buf \in SUBSET AnyFrame, buf # {}
  PROVE  LET low == CHOOSE g \in buf : \A h \in buf : g.seq <= h.seq
         IN  low \in buf /\ low \in AnyFrame /\ \A h \in buf : low.seq <= h.seq
<1> DEFINE seqs == {g.seq : g \in buf}
<1>1. seqs \in SUBSET Nat /\ seqs # {} /\ \A g \in buf : g.seq \in Nat
  BY DEF AnyFrame
<1>2. PICK s \in seqs : \A t \in seqs : s <= t
  <2>1. IsWellFoundedOn(OpToRel(<, Nat), Nat)
    BY NatLessThanWellFounded
  <2>2. PICK s \in seqs : \A t \in seqs : ~(<<t, s>> \in OpToRel(<, Nat))
    <3> HIDE DEF seqs
    <3> QED
      BY <1>1, <2>1, WFMin
  <2>3. ASSUME NEW t \in seqs PROVE s <= t
    <3>1. s \in Nat /\ t \in Nat
      BY <1>1
    <3>2. ~(t < s)
      <4> HIDE DEF seqs
      <4>1. t < s => <<t, s>> \in OpToRel(<, Nat)
        BY <3>1 DEF OpToRel
      <4> QED
        BY <2>2, <4>1
    <3> QED
      BY <3>1, <3>2
  <2> QED
    BY <2>3
<1>3. \E g \in buf : \A h \in buf : g.seq <= h.seq
  BY <1>2
<1> QED
  BY <1>3

(* A frame is read and another sent back, or one is sent.                    *)
LEMMA Answered ==
  ASSUME Types, NEW n \in Nodes, NEW c \in Conns, NEW x \in Items,
         <<n, c>> \in open, wire[c][n] # <<>>
  PROVE  /\ Put(Rest(n, c), c, Peer(n), x) \in Wires
         /\ \A d \in Conns, m \in Nodes :
              /\ Put(Rest(n, c), c, Peer(n), x)[d][m] # wire[d][m] => <<m, d>> \in open
              /\ \A y \in On2(Put(Rest(n, c), c, Peer(n), x), d, m) :
                    \/ y \in On(d, m)
                    \/ y = x /\ d = c /\ m = Peer(n) /\ <<m, d>> \in open
<1>1. /\ Rest(n, c) \in Wires
      /\ \A d \in Conns, m \in Nodes :
              /\ Rest(n, c)[d][m] # wire[d][m] => d = c /\ m = n
              /\ \A y \in On2(Rest(n, c), d, m) : y \in On(d, m)
  BY RestOn
<1> DEFINE r == Rest(n, c)
<1>2. Peer(n) \in Nodes
  BY Peers
<1> HIDE DEF r
<1>3. /\ Put(r, c, Peer(n), x) \in Wires
      /\ \A d \in Conns, m \in Nodes :
              /\ Put(r, c, Peer(n), x)[d][m] # r[d][m] =>
                    d = c /\ m = Peer(n) /\ <<Peer(n), c>> \in open
              /\ \A y \in On2(Put(r, c, Peer(n), x), d, m) :
                    \/ y \in On2(r, d, m)
                    \/ y = x /\ d = c /\ m = Peer(n) /\ <<Peer(n), c>> \in open
  BY <1>1, <1>2, PutOn DEF r
<1> QED
  BY <1>1, <1>3 DEF r

LEMMA Sent ==
  ASSUME Types, NEW n \in Nodes, NEW c \in Conns, NEW x \in Items
  PROVE  /\ Put(wire, c, Peer(n), x) \in Wires
         /\ \A d \in Conns, m \in Nodes :
              /\ Put(wire, c, Peer(n), x)[d][m] # wire[d][m] => <<m, d>> \in open
              /\ \A y \in On2(Put(wire, c, Peer(n), x), d, m) :
                    \/ y \in On(d, m)
                    \/ y = x /\ d = c /\ m = Peer(n) /\ <<m, d>> \in open
<1>1. wire \in Wires /\ Peer(n) \in Nodes
  BY Peers DEF Types, Wires
<1>2. /\ Put(wire, c, Peer(n), x) \in Wires
      /\ \A d \in Conns, m \in Nodes :
              /\ Put(wire, c, Peer(n), x)[d][m] # wire[d][m] =>
                    d = c /\ m = Peer(n) /\ <<Peer(n), c>> \in open
              /\ \A y \in On2(Put(wire, c, Peer(n), x), d, m) :
                    \/ y \in On2(wire, d, m)
                    \/ y = x /\ d = c /\ m = Peer(n) /\ <<Peer(n), c>> \in open
  BY <1>1, PutOn
<1>3. \A d \in Conns, m \in Nodes : On2(wire, d, m) = On(d, m)
  BY DEF On, On2
<1> QED
  BY <1>2, <1>3

LEMMA StillInTurn ==
  ASSUME DialledInTurn, UNCHANGED <<life, born, open>>,
         \A d \in Conns, m \in Nodes : wire'[d][m] # wire[d][m] => <<m, d>> \in open
  PROVE  DialledInTurn'
<1>1. Dialled' = Dialled
  BY DEF Dialled
<1> QED
  BY <1>1 DEF DialledInTurn

LEMMA FrameTypes ==
  ASSUME Types, NEW n \in Nodes
  PROVE  NextFrame(n) \in AnyFrame
  BY DEF Types, NextFrame, FrameOf, AnyFrame

LEMMA Blanks == NoState \in RxStates /\ Idle \in Deliveries /\ Idle.epoch = 0 /\ Idle.next = 0
  BY DEF NoState, RxStates, Gaps, Idle, Deliveries

LEMMA PeerExists == Nodes # {}
<1>1. Cardinality({}) = 0
  BY FS_EmptySet
<1>2. Cardinality(Nodes) = 2
  BY PeerSeqAssumption
<1> QED
  BY <1>1, <1>2

LEMMA InitTypes == Init => Types /\ DialledInTurn
<1> SUFFICES ASSUME Init PROVE Types /\ DialledInTurn
  OBVIOUS
<1>1. /\ life \in [Nodes -> Nat \ {0}] /\ born \in [Conns -> [Nodes -> Nat \ {0}] \cup {<<>>}]
      /\ open \subseteq Nodes \X Conns /\ wire \in [Conns -> [Nodes -> Seq(Items)]]
  BY PeerSeqAssumption DEF Init, Conns
<1>2. /\ buffers \in [Nodes -> Seq(SUBSET AnyFrame)]
      /\ \A n \in Nodes : buffers[n] = <<{}>> /\ Len(buffers[n]) = 1
  <2>1. <<{}>> \in Seq(SUBSET AnyFrame) /\ Len(<<{}>>) = 1
    OBVIOUS
  <2> QED
    BY <2>1 DEF Init
<1>3. /\ made \in [Nodes -> Nat] /\ tx \in [Nodes -> Nat \ {0}]
      /\ sendbuf \in [Nodes -> SUBSET AnyFrame] /\ acked \in [Nodes -> SUBSET AnyFrame]
      /\ delivered \in [Nodes -> Seq(AnyFrame)] /\ gone \in [Nodes -> SUBSET AnyFrame]
  BY DEF Init
<1>4. /\ rx \in [Nodes -> RxStates] /\ loop \in [Nodes -> [Conns -> Deliveries]]
      /\ \A n \in Nodes : rx[n].epoch = 0 /\ \A c \in Conns : loop[n][c].epoch = 0
  BY Blanks DEF Init, NoState
<1>5. Types
  <2>1. \A n \in Nodes : /\ Len(buffers[n]) = rx[n].epoch + 1
                         /\ \A c \in Conns : loop[n][c].epoch <= rx[n].epoch
    <3> SUFFICES ASSUME NEW n \in Nodes
                 PROVE  /\ Len(buffers[n]) = rx[n].epoch + 1
                        /\ \A c \in Conns : loop[n][c].epoch <= rx[n].epoch
      OBVIOUS
    <3>1. Len(buffers[n]) = 1 /\ rx[n].epoch = 0
      BY <1>2, <1>4
    <3>2. \A c \in Conns : loop[n][c].epoch = 0
      BY <1>4
    <3> QED
      BY <3>1, <3>2
  <2> QED
    BY <1>1, <1>2, <1>3, <1>4, <2>1 DEF Types
<1>6. DialledInTurn
  <2>1. Dialled = 1..MaxLive
    <3>1. life # <<>>
      <4>1. DOMAIN life = Nodes
        BY DEF Init
      <4>2. DOMAIN <<>> = {}
        OBVIOUS
      <4> QED
        BY <4>1, <4>2, PeerExists
    <3>2. \A c \in Conns : born[c] = IF c <= MaxLive THEN life ELSE <<>>
      BY DEF Init
    <3> QED
      BY <3>1, <3>2, PeerSeqAssumption DEF Dialled, Conns
  <2>2. MaxLive \in 0..MaxConns /\ 1..MaxLive \subseteq Conns
    BY PeerSeqAssumption DEF Conns
  <2>3. \A c \in 1..MaxLive : born[c] = life
    BY <2>2, PeerSeqAssumption DEF Init, Conns
  <2>4. \A m \in Nodes, c \in Conns : wire[c][m] = <<>>
    BY DEF Init
  <2>5. \A m \in Nodes : life[m] \in Nat
    BY <1>1
  <2>6. \A m \in Nodes, c \in Conns : <<m, c>> \in open => c \in 1..MaxLive
    BY DEF Init
  <2> QED
    BY <2>1, <2>2, <2>3, <2>4, <2>5, <2>6 DEF DialledInTurn
<1> QED
  BY <1>5, <1>6

(* What a step may leave alone: one peer's receiver, or its sender.          *)
Same(n) == /\ rx'[n] = rx[n] /\ buffers'[n] = buffers[n] /\ loop'[n] = loop[n]
           /\ delivered'[n] = delivered[n] /\ gone'[n] = gone[n]
Quiet(m) == /\ tx'[m] = tx[m] /\ made'[m] = made[m]
            /\ sendbuf'[m] = sendbuf[m] /\ acked'[m] = acked[m]

LEMMA Shorter ==
  ASSUME NEW c \in Conns, NEW n \in Nodes, wire'[c][n] \in {wire[c][n], <<>>}
  PROVE  On(c, n)' \subseteq On(c, n)
<1>1. CASE wire'[c][n] = wire[c][n]
  BY <1>1 DEF On
<1>2. CASE wire'[c][n] = <<>>
  BY <1>2 DEF On
<1> QED
  BY <1>1, <1>2

LEMMA ConnectGives ==
  ASSUME Types, DialledInTurn, Connect
  PROVE  /\ Types' /\ DialledInTurn' /\ life' = life
         /\ \A m \in Nodes : Quiet(m) /\ Same(m) /\ Free(m)
         /\ \A c \in Dialled : c \in Dialled' /\ born'[c] = born[c]
         /\ \A c \in Conns, m \in Nodes : On(c, m)' = On(c, m)
         /\ \A c \in Conns, m \in Nodes :
               <<m, c>> \in open' => <<m, c>> \in open \/ (wire'[c][m] = <<>> /\ c \notin Dialled)
<1>1. PICK d \in 0..MaxConns : Dialled = 1..d
  BY DEF DialledInTurn
<1>2. Cardinality(1..d) = d
  <2>1. Cardinality(1..d) = IF 1 <= d THEN d - 1 + 1 ELSE 0
    BY <1>1, FS_Interval
  <2> QED
    BY <1>1, <2>1
<1>3. /\ d + 1 \in Conns /\ born' = [born EXCEPT ![d + 1] = life]
      /\ open' = open \cup {<<n, d + 1>> : n \in Nodes}
      /\ UNCHANGED <<life, wire, made, tx, sendbuf, acked, rx, buffers, loop, delivered, gone>>
  BY <1>1, <1>2 DEF Connect, sender, receiver
<1>4. /\ life \in [Nodes -> Nat \ {0}] /\ life # <<>>
      /\ born' \in [Conns -> [Nodes -> Nat \ {0}] \cup {<<>>}]
      /\ \A c \in Conns : born'[c] = IF c = d + 1 THEN life ELSE born[c]
  <2>1. DOMAIN life = Nodes /\ DOMAIN <<>> = {}
    BY DEF Types
  <2> QED
    BY <1>3, <2>1, PeerExists DEF Types
<1>5. Types'
  <2>1. open' \subseteq Nodes \X Conns
    BY <1>3 DEF Types
  <2> QED
    BY <1>3, <1>4, <2>1 DEF Types
<1>6. Dialled' = 1..(d + 1)
  <2>1. Dialled' = {c \in Conns : c = d + 1 \/ c \in Dialled}
    BY <1>3, <1>4 DEF Dialled
  <2> QED
    BY <1>1, <1>3, <2>1, PeerSeqAssumption DEF Conns
<1>7. \A m \in Nodes, c \in Dialled' :
        /\ born'[c][m] <= life'[m]
        /\ \A b \in Dialled' : b <= c => born'[b][m] <= born'[c][m]
  <2> SUFFICES ASSUME NEW m \in Nodes, NEW c \in Dialled'
               PROVE  /\ born'[c][m] <= life'[m]
                      /\ \A b \in Dialled' : b <= c => born'[b][m] <= born'[c][m]
    OBVIOUS
  <2>1. \A x \in Dialled' : \/ x = d + 1 /\ born'[x][m] = life[m]
                            \/ x \in Dialled /\ x <= d /\ born'[x][m] = born[x][m]
    BY <1>1, <1>3, <1>4, <1>6, PeerSeqAssumption DEF Conns
  <2>2. \A x \in Dialled : born[x][m] <= life[m]
                           /\ \A b \in Dialled : b <= x => born[b][m] <= born[x][m]
    BY DEF DialledInTurn
  <2>3. life[m] \in Nat /\ life'[m] = life[m] /\ d \in Nat /\ \A b \in Dialled' : b \in Nat
    BY <1>1, <1>3, <1>4, <1>6, PeerSeqAssumption
  <2> QED
    BY <2>1, <2>2, <2>3
<1>8. \A m \in Nodes, c \in Conns :
        /\ <<m, c>> \in open' => c \in Dialled' /\ born'[c][m] = life'[m]
        /\ wire'[c][m] # <<>> => <<m, c>> \in open'
  <2> SUFFICES ASSUME NEW m \in Nodes, NEW c \in Conns
               PROVE  /\ <<m, c>> \in open' => c \in Dialled' /\ born'[c][m] = life'[m]
                      /\ wire'[c][m] # <<>> => <<m, c>> \in open'
    OBVIOUS
  <2>1. /\ <<m, c>> \in open => c \in Dialled /\ born[c][m] = life[m]
        /\ wire[c][m] # <<>> => <<m, c>> \in open
    BY DEF DialledInTurn
  <2>2. <<m, c>> \in open' <=> <<m, c>> \in open \/ c = d + 1
    BY <1>3
  <2>3. c \in Dialled => c \in Dialled' /\ c # d + 1
    BY <1>1, <1>6, PeerSeqAssumption
  <2>4. d + 1 \in Dialled'
    BY <1>1, <1>6, PeerSeqAssumption
  <2> QED
    BY <1>3, <1>4, <2>1, <2>2, <2>3, <2>4
<1>9. d + 1 \in 0..MaxConns
  BY <1>3, PeerSeqAssumption DEF Conns
<1>10. DialledInTurn'
  BY <1>3, <1>6, <1>7, <1>8, <1>9 DEF DialledInTurn
<1>11. \A c \in Dialled : c \in Dialled' /\ born'[c] = born[c]
  <2>1. \A c \in Dialled : c \in Conns /\ c # d + 1 /\ c \in 1..(d + 1)
    BY <1>1, PeerSeqAssumption DEF Dialled
  <2> QED
    BY <1>4, <1>6, <2>1
<1>12. \A c \in Conns, m \in Nodes :
          <<m, c>> \in open' => <<m, c>> \in open \/ (wire'[c][m] = <<>> /\ c \notin Dialled)
  <2> SUFFICES ASSUME NEW c \in Conns, NEW m \in Nodes
               PROVE  <<m, c>> \in open' =>
                        <<m, c>> \in open \/ (wire'[c][m] = <<>> /\ c \notin Dialled)
    OBVIOUS
  <2> HAVE <<m, c>> \in open'
  <2> SUFFICES ASSUME <<m, c>> \notin open PROVE wire'[c][m] = <<>> /\ c \notin Dialled
    OBVIOUS
  <2>1. c = d + 1 /\ wire'[c][m] = wire[c][m]
    BY <1>3
  <2>2. c \notin Dialled
    BY <1>1, <2>1, PeerSeqAssumption
  <2> QED
    BY <2>1, <2>2 DEF DialledInTurn
<1>13. /\ \A m \in Nodes : Quiet(m) /\ Same(m)
       /\ \A c \in Conns, m \in Nodes : On(c, m)' = On(c, m)
  BY <1>3 DEF Quiet, Same, On
<1>14. \A m \in Nodes : Free(m)
  BY DEF Connect
<1> QED
  BY <1>3, <1>5, <1>10, <1>11, <1>12, <1>13, <1>14

(* What ends a connection only shortens the wires and the ends.              *)
LEMMA LosesEnds ==
  ASSUME Types, DialledInTurn, NEW n \in Nodes,
         \/ life' = life
         \/ life' = [life EXCEPT ![n] = @ + 1] /\ \A c \in Conns : <<n, c>> \notin open',
         born' = born, open' \subseteq open, wire' \in Wires,
         \A c \in Conns, m \in Nodes :
            /\ wire'[c][m] \in {wire[c][m], <<>>}
            /\ <<m, c>> \notin open' => wire'[c][m] = <<>> \/ <<m, c>> \notin open
  PROVE  /\ DialledInTurn' /\ life' \in [Nodes -> Nat \ {0}]
<1>1. \A m \in Nodes : /\ life'[m] \in Nat \ {0} /\ life[m] <= life'[m]
                       /\ \A c \in Conns : <<m, c>> \in open' => life'[m] = life[m]
  <2> SUFFICES ASSUME NEW m \in Nodes
               PROVE  /\ life'[m] \in Nat \ {0} /\ life[m] <= life'[m]
                      /\ \A c \in Conns : <<m, c>> \in open' => life'[m] = life[m]
    OBVIOUS
  <2>1. life \in [Nodes -> Nat \ {0}] /\ life[m] \in Nat \ {0}
    BY DEF Types
  <2>2. CASE life' = life
    BY <2>1, <2>2
  <2>3. CASE life' = [life EXCEPT ![n] = @ + 1] /\ \A c \in Conns : <<n, c>> \notin open'
    <3>1. life'[m] = IF m = n THEN life[m] + 1 ELSE life[m]
      BY <2>1, <2>3
    <3> QED
      BY <2>1, <2>3, <3>1
  <2> QED
    BY <2>2, <2>3
<1>2. Dialled' = Dialled /\ \A c \in Dialled : c \in Conns /\ born[c] \in [Nodes -> Nat \ {0}]
  BY DEF Dialled, Types
<1>3. \A m \in Nodes, c \in Dialled : born[c][m] <= life'[m]
  <2> SUFFICES ASSUME NEW m \in Nodes, NEW c \in Dialled PROVE born[c][m] <= life'[m]
    OBVIOUS
  <2>1. born[c][m] <= life[m] /\ born[c][m] \in Nat /\ life[m] \in Nat
    BY <1>2 DEF DialledInTurn, Types
  <2> QED
    BY <1>1, <2>1
<1>4. \A m \in Nodes, c \in Conns :
        /\ <<m, c>> \in open' => c \in Dialled /\ born[c][m] = life'[m]
        /\ wire'[c][m] # <<>> => <<m, c>> \in open'
  <2> SUFFICES ASSUME NEW m \in Nodes, NEW c \in Conns
               PROVE  /\ <<m, c>> \in open' => c \in Dialled /\ born[c][m] = life'[m]
                      /\ wire'[c][m] # <<>> => <<m, c>> \in open'
    OBVIOUS
  <2>1. <<m, c>> \in open => c \in Dialled /\ born[c][m] = life[m]
    BY DEF DialledInTurn
  <2>2. wire[c][m] # <<>> => <<m, c>> \in open
    BY DEF DialledInTurn
  <2> QED
    BY <1>1, <2>1, <2>2
<1>5. life' \in [Nodes -> Nat \ {0}]
  BY DEF Types
<1> QED
  BY <1>2, <1>3, <1>4, <1>5 DEF DialledInTurn

LEMMA FailGives ==
  ASSUME Types, DialledInTurn, NEW c \in Conns, Fail(c)
  PROVE  /\ Types' /\ DialledInTurn' /\ life' = life /\ born' = born /\ open' \subseteq open
         /\ \A m \in Nodes : Quiet(m) /\ Same(m)
         /\ \A d \in Conns, m \in Nodes : On(d, m)' \subseteq On(d, m)
<1>1. /\ open' = open \ {<<n, c>> : n \in Nodes} /\ wire' = [wire EXCEPT ![c] = [n \in Nodes |-> <<>>]]
      /\ UNCHANGED <<life, born, made, tx, sendbuf, acked, rx, buffers, loop, delivered, gone>>
  BY DEF Fail, sender, receiver
<1>2. wire' \in Wires
  BY <1>1 DEF Types, Wires
<1>3. \A d \in Conns, m \in Nodes :
            /\ wire'[d][m] \in {wire[d][m], <<>>}
            /\ <<m, d>> \notin open' => wire'[d][m] = <<>> \/ <<m, d>> \notin open
  BY <1>1 DEF Types
<1>4. PICK n \in Nodes : TRUE
  BY PeerExists
<1>5. DialledInTurn'
  BY <1>1, <1>2, <1>3, <1>4, LosesEnds
<1>6. Types'
  BY <1>1, <1>2, <1>5 DEF Types, Wires
<1>7. \A d \in Conns, m \in Nodes : On(d, m)' \subseteq On(d, m)
  BY <1>3, Shorter
<1> QED
  BY <1>1, <1>5, <1>6, <1>7 DEF Quiet, Same

LEMMA CloseEndGives ==
  ASSUME Types, DialledInTurn, NEW n \in Nodes, NEW c \in Conns, CloseEnd(n, c)
  PROVE  /\ Types' /\ DialledInTurn' /\ life' = life /\ born' = born /\ open' \subseteq open
         /\ \A m \in Nodes : Quiet(m) /\ Same(m)
         /\ \A d \in Conns, m \in Nodes : On(d, m)' \subseteq On(d, m)
<1>1. /\ open' = open \ {<<n, c>>} /\ wire' = [wire EXCEPT ![c][n] = <<>>]
      /\ UNCHANGED <<life, born, made, tx, sendbuf, acked, rx, buffers, loop, delivered, gone>>
  BY DEF CloseEnd, sender, receiver
<1>2. wire' \in Wires
  BY <1>1 DEF Types, Wires
<1>3. \A d \in Conns, m \in Nodes :
            /\ wire'[d][m] \in {wire[d][m], <<>>}
            /\ <<m, d>> \notin open' => wire'[d][m] = <<>> \/ <<m, d>> \notin open
  BY <1>1 DEF Types
<1>4. DialledInTurn'
  BY <1>1, <1>2, <1>3, LosesEnds
<1>6. Types'
  BY <1>1, <1>2, <1>4 DEF Types, Wires
<1>7. \A d \in Conns, m \in Nodes : On(d, m)' \subseteq On(d, m)
  BY <1>3, Shorter
<1> QED
  BY <1>1, <1>4, <1>6, <1>7 DEF Quiet, Same

LEMMA RestartGives ==
  ASSUME Types, DialledInTurn, NEW n \in Nodes, Restart(n)
  PROVE  /\ Types' /\ DialledInTurn' /\ born' = born /\ open' \subseteq open
         /\ \A m \in Nodes \ {n} : Quiet(m) /\ Same(m) /\ life'[m] = life[m]
         /\ life'[n] = life[n] + 1 /\ tx'[n] = 1 /\ made'[n] = 0
         /\ sendbuf'[n] = {} /\ acked'[n] = {} /\ rx'[n] = NoState
         /\ \A d \in Conns, m \in Nodes : On(d, m)' \subseteq On(d, m)
         /\ \A d \in Conns : <<n, d>> \notin open'
<1>1. /\ life' = [life EXCEPT ![n] = @ + 1] /\ open' = open \ {<<n, c>> : c \in Conns}
      /\ wire' = [c \in Conns |-> [wire[c] EXCEPT ![n] = <<>>]]
      /\ UNCHANGED <<born, delivered>>
  BY DEF Restart
<1>2. wire' \in Wires
  BY <1>1 DEF Types, Wires
<1>3. \A d \in Conns, m \in Nodes :
            /\ wire'[d][m] \in {wire[d][m], <<>>}
            /\ <<m, d>> \notin open' => wire'[d][m] = <<>> \/ <<m, d>> \notin open
  BY <1>1 DEF Types
<1>4. DialledInTurn' /\ life' \in [Nodes -> Nat \ {0}]
  BY <1>1, <1>2, <1>3, LosesEnds
<1>5. /\ made' \in [Nodes -> Nat] /\ tx' \in [Nodes -> Nat \ {0}]
      /\ sendbuf' \in [Nodes -> SUBSET AnyFrame] /\ acked' \in [Nodes -> SUBSET AnyFrame]
  BY DEF Restart, Types
<1>6. gone' \in [Nodes -> SUBSET AnyFrame]
  <2>1. UNION {buffers[n][e] : e \in DOMAIN buffers[n]} \subseteq AnyFrame
    <3>1. buffers[n] \in Seq(SUBSET AnyFrame)
      BY DEF Types
    <3>2. \A e \in DOMAIN buffers[n] : buffers[n][e] \subseteq AnyFrame
      BY <3>1
    <3> QED
      BY <3>2
  <2> DEFINE held == UNION {buffers[n][e] : e \in DOMAIN buffers[n]}
  <2>2. gone' = [gone EXCEPT ![n] = @ \cup held]
    BY DEF Restart
  <2> HIDE DEF held
  <2>3. held \subseteq AnyFrame
    BY <2>1 DEF held
  <2> QED
    BY <2>2, <2>3 DEF Types
<1>7. rx' \in [Nodes -> RxStates] /\ \A m \in Nodes : rx'[m] = IF m = n THEN NoState ELSE rx[m]
  BY Blanks DEF Restart, Types
<1>8. /\ loop' \in [Nodes -> [Conns -> Deliveries]]
      /\ \A m \in Nodes : m # n => loop'[m] = loop[m]
      /\ \A c \in Conns : loop'[n][c] = Idle
  BY Blanks DEF Restart, Types
<1>9. /\ buffers' \in [Nodes -> Seq(SUBSET AnyFrame)]
      /\ \A m \in Nodes : m # n => buffers'[m] = buffers[m]
      /\ Len(buffers'[n]) = 1
  <2> DEFINE one == <<{}>>
  <2>1. one \in Seq(SUBSET AnyFrame) /\ Len(one) = 1
    OBVIOUS
  <2>2. buffers' = [buffers EXCEPT ![n] = one]
    BY DEF Restart
  <2> HIDE DEF one
  <2> QED
    BY <2>1, <2>2 DEF Types
<1>10. \A m \in Nodes : /\ Len(buffers'[m]) = rx'[m].epoch + 1
                        /\ \A c \in Conns : loop'[m][c].epoch <= rx'[m].epoch
  <2> SUFFICES ASSUME NEW m \in Nodes
               PROVE  /\ Len(buffers'[m]) = rx'[m].epoch + 1
                      /\ \A c \in Conns : loop'[m][c].epoch <= rx'[m].epoch
    OBVIOUS
  <2>1. CASE m = n
    <3>1. rx'[m].epoch = 0
      BY <1>7, <2>1 DEF NoState
    <3> QED
      BY <1>8, <1>9, <2>1, <3>1, Blanks
  <2>2. CASE m # n
    BY <1>7, <1>8, <1>9, <2>2 DEF Types
  <2> QED
    BY <2>1, <2>2
<1>11. open' \subseteq Nodes \X Conns /\ wire' \in [Conns -> [Nodes -> Seq(Items)]]
       /\ born' \in [Conns -> [Nodes -> Nat \ {0}] \cup {<<>>}]
       /\ delivered' \in [Nodes -> Seq(AnyFrame)]
  BY <1>1, <1>2 DEF Types, Wires
<1>12. Types'
  BY <1>4, <1>5, <1>6, <1>7, <1>8, <1>9, <1>10, <1>11 DEF Types
<1>13. \A d \in Conns, m \in Nodes : On(d, m)' \subseteq On(d, m)
  BY <1>3, Shorter
<1>14. \A m \in Nodes \ {n} : Quiet(m) /\ Same(m) /\ life'[m] = life[m]
  <2>1. \A m \in Nodes \ {n} : gone'[m] = gone[m]
    <3> DEFINE held == UNION {buffers[n][e] : e \in DOMAIN buffers[n]}
    <3>1. gone' = [gone EXCEPT ![n] = @ \cup held]
      BY DEF Restart
    <3> HIDE DEF held
    <3> QED
      BY <3>1 DEF Types
  <2>2. \A m \in Nodes \ {n} : Quiet(m) /\ life'[m] = life[m]
    BY DEF Restart, Types, Quiet
  <2> QED
    BY <1>1, <1>7, <1>8, <1>9, <2>1, <2>2 DEF Same
<1>15. /\ life'[n] = life[n] + 1 /\ tx'[n] = 1 /\ made'[n] = 0
       /\ sendbuf'[n] = {} /\ acked'[n] = {} /\ rx'[n] = NoState
  BY DEF Restart, Types
<1> QED
  BY <1>1, <1>4, <1>12, <1>13, <1>14, <1>15

-----------------------------------------------------------------------------
(* A frame received: what each of the four outcomes leaves behind *)

Handed(n, c, f, ack, st, flush) ==
  /\ delivered'[n] = Append(delivered[n], f)
  /\ loop'[n][c] = [next |-> f.seq + 1, ack |-> ack, epoch |-> st.epoch, flush |-> flush]
  /\ \A d \in Conns \ {c} : loop'[n][d] = loop[n][d]

Delivered(n, c, f, st) ==
  /\ f.seq = st.expected /\ Handed(n, c, f, f.seq, st, FALSE)
  /\ rx'[n] = st /\ buffers'[n] = Bufs(n, c) /\ gone'[n] = gone[n]

Dropped(n, c, f, st) ==
  /\ f.seq < st.expected
  /\ rx'[n] = st /\ buffers'[n] = Bufs(n, c) /\ gone'[n] = gone[n]
  /\ delivered'[n] = delivered[n] /\ loop'[n] = loop[n]

Kept(n, c, f, st) ==
  /\ f.seq > st.expected
  /\ rx'[n] = [st EXCEPT !.gap = "fresh"] /\ buffers'[n] = With(n, c, f, st)
  /\ gone'[n] = gone[n] /\ delivered'[n] = delivered[n] /\ loop'[n] = loop[n]

Least(buf) == CHOOSE g \in buf : \A h \in buf : g.seq <= h.seq

Flushed(n, c, f, st) ==
  LET buf == With(n, c, f, st)[st.epoch + 1]
  IN  /\ f.seq > st.expected /\ Handed(n, c, Least(buf), f.seq, st, TRUE)
      /\ buffers'[n] = [With(n, c, f, st) EXCEPT ![st.epoch + 1] = buf \ {Least(buf)}]
      /\ gone'[n] = gone[n] \cup {g \in sendbuf[Peer(n)] :
                                    g.seq \in st.expected..(Least(buf).seq - 1)}
      /\ rx'[n] = [st EXCEPT !.gap = "none"]

LEMMA HandOverGives ==
  ASSUME Types, NEW n \in Nodes, NEW c \in Conns, NEW f \in AnyFrame, NEW ack \in Nat,
         NEW st \in RxStates, NEW flush \in BOOLEAN, HandOver(n, c, f, ack, st, flush)
  PROVE  /\ Handed(n, c, f, ack, st, flush)
         /\ \A m \in Nodes \ {n} : delivered'[m] = delivered[m] /\ loop'[m] = loop[m]
         /\ delivered' \in [Nodes -> Seq(AnyFrame)] /\ loop' \in [Nodes -> [Conns -> Deliveries]]
<1> DEFINE rec == [next |-> f.seq + 1, ack |-> ack, epoch |-> st.epoch, flush |-> flush]
           s == Append(delivered[n], f)
<1>1. rec \in Deliveries
  <2>1. f.seq \in Nat /\ st.epoch \in Nat
    BY DEF AnyFrame, RxStates
  <2> QED
    BY <2>1 DEF Deliveries
<1>2. s \in Seq(AnyFrame)
  BY DEF Types
<1>3. delivered' = [delivered EXCEPT ![n] = s] /\ loop' = [loop EXCEPT ![n][c] = rec]
  BY DEF HandOver
<1> HIDE DEF rec, s
<1>4. delivered'[n] = s /\ loop'[n][c] = rec /\ \A d \in Conns \ {c} : loop'[n][d] = loop[n][d]
  BY <1>3 DEF Types
<1>5. \A m \in Nodes \ {n} : delivered'[m] = delivered[m] /\ loop'[m] = loop[m]
  BY <1>3 DEF Types
<1>6. delivered' \in [Nodes -> Seq(AnyFrame)] /\ loop' \in [Nodes -> [Conns -> Deliveries]]
  BY <1>1, <1>2, <1>3 DEF Types
<1> QED
  BY <1>4, <1>5, <1>6 DEF Handed, rec, s

LEMMA ReceivedFrame ==
  ASSUME Types, DialledInTurn, NEW n \in Nodes, NEW c \in Conns, Receive(n, c),
         NEW f, f = Head(wire[c][n]).f, NEW st, st = Adopted(n, c)
  PROVE  /\ <<n, c>> \in open /\ c \in Dialled /\ Free(n) /\ loop[n][c] = Idle
         /\ f \in AnyFrame /\ Head(wire[c][n]) \in On(c, n) /\ Head(wire[c][n]).kind = "data"
         /\ st \in RxStates /\ st.inst = Instance(n, c) /\ st.inst \in Nat \ {0}
         /\ ~Stale(n, c)
         /\ With(n, c, f, st)[st.epoch + 1] = Joined(Bufs(n, c)[st.epoch + 1], f)
         /\ Bufs(n, c)[st.epoch + 1] \subseteq AnyFrame
         /\ LET low == Least(With(n, c, f, st)[st.epoch + 1])
            IN  /\ low \in With(n, c, f, st)[st.epoch + 1] /\ low \in AnyFrame
                /\ \A h \in With(n, c, f, st)[st.epoch + 1] : low.seq <= h.seq
<1>1. /\ <<n, c>> \in open /\ wire[c][n] # <<>> /\ loop[n][c] = Idle /\ Free(n)
      /\ f \in AnyFrame /\ Head(wire[c][n]) \in On(c, n) /\ Head(wire[c][n]).kind = "data"
      /\ ~Stale(n, c)
  BY ReadFrame DEF Receive
<1>2. /\ st \in RxStates /\ st.inst = Instance(n, c) /\ st.inst \in Nat \ {0} /\ c \in Dialled
      /\ Bufs(n, c) \in Seq(SUBSET AnyFrame) /\ Len(Bufs(n, c)) = st.epoch + 1
  BY <1>1, AdoptedType, Dial
<1>3. /\ With(n, c, f, st)[st.epoch + 1] = Joined(Bufs(n, c)[st.epoch + 1], f)
      /\ Bufs(n, c)[st.epoch + 1] \subseteq AnyFrame
  <2>1. \A g \in AnyFrame, r \in RxStates :
          Len(Bufs(n, c)) = r.epoch + 1 =>
            /\ With(n, c, g, r)[r.epoch + 1] = Joined(Bufs(n, c)[r.epoch + 1], g)
            /\ Bufs(n, c)[r.epoch + 1] \subseteq AnyFrame
    BY <1>2, WithType
  <2> QED
    BY <1>1, <1>2, <2>1
<1> DEFINE buf == With(n, c, f, st)[st.epoch + 1]
<1>4. buf \in SUBSET AnyFrame /\ buf # {}
  BY <1>1, <1>3 DEF Joined
<1> HIDE DEF buf
<1>5. /\ Least(buf) \in buf /\ Least(buf) \in AnyFrame
      /\ \A h \in buf : Least(buf).seq <= h.seq
  BY <1>4, LowestFrame DEF Least
<1> QED
  BY <1>1, <1>2, <1>3, <1>5 DEF buf

(* What is sent back is the frame's acknowledgement, if anything.            *)
LEMMA ReceivedAnswer ==
  ASSUME Types, DialledInTurn, NEW n \in Nodes, NEW c \in Conns, Receive(n, c)
  PROVE  \A d \in Conns, m \in Nodes : \A y \in On(d, m)' :
            \/ y \in On(d, m)
            \/ y = Ack(Head(wire[c][n]).f.seq) /\ d = c /\ m = Peer(n) /\ <<m, d>> \in open
<1> DEFINE f == Head(wire[c][n]).f
<1>1. /\ <<n, c>> \in open /\ f \in AnyFrame /\ f.seq \in Nat /\ wire[c][n] # <<>>
  BY ReadFrame DEF AnyFrame, Receive
<1>2. /\ Ack(f.seq) \in Items
      /\ \A d \in Conns, m \in Nodes : \A y \in On2(Rest(n, c), d, m) : y \in On(d, m)
  BY <1>1, RestOn, ItemTypes
<1>3. \A d \in Conns, m \in Nodes :
         \A y \in On2(Put(Rest(n, c), c, Peer(n), Ack(f.seq)), d, m) :
            \/ y \in On(d, m)
            \/ y = Ack(f.seq) /\ d = c /\ m = Peer(n) /\ <<m, d>> \in open
  <2> DEFINE x == Ack(f.seq)
  <2>1. x \in Items
    BY <1>2
  <2> HIDE DEF x
  <2>2. \A d \in Conns, m \in Nodes : \A y \in On2(Put(Rest(n, c), c, Peer(n), x), d, m) :
            \/ y \in On(d, m)
            \/ y = x /\ d = c /\ m = Peer(n) /\ <<m, d>> \in open
    BY <1>1, <2>1, Answered
  <2> QED
    BY <2>2 DEF x
<1>4. wire' = Rest(n, c) \/ wire' = Put(Rest(n, c), c, Peer(n), Ack(f.seq))
  BY DEF Receive, Deliver, Drop, Keep, Flush
<1>5. \A d \in Conns, m \in Nodes : On(d, m)' = On2(wire', d, m)
  BY DEF On, On2
<1> QED
  BY <1>2, <1>3, <1>4, <1>5

(* The part of the state a frame received may change.                        *)
LEMMA Received ==
  ASSUME Types, DialledInTurn, NEW n \in Nodes, NEW c \in Conns, Receive(n, c),
         NEW f, f = Head(wire[c][n]).f, NEW st, st = Adopted(n, c)
  PROVE  /\ \/ Delivered(n, c, f, st) /\ \A d \in Conns, m \in Nodes : \A y \in On(d, m)' : y \in On(d, m)
            \/ Dropped(n, c, f, st)
            \/ Kept(n, c, f, st)
            \/ Flushed(n, c, f, st) /\ \A d \in Conns, m \in Nodes : \A y \in On(d, m)' : y \in On(d, m)
         /\ \A m \in Nodes \ {n} : Same(m)
         /\ Types' /\ DialledInTurn'
         /\ UNCHANGED <<life, born, open, made, acked>>
         /\ \A m \in Nodes : \/ tx'[m] = tx[m] /\ sendbuf'[m] = sendbuf[m]
                             \/ /\ m = n /\ Restarted(n, c)
                                /\ tx'[m] = 1 /\ sendbuf'[m] = {}
<1>1. /\ <<n, c>> \in open /\ f \in AnyFrame /\ st \in RxStates /\ f.seq \in Nat
      /\ st.expected \in Nat /\ st.epoch \in Nat /\ st.gap \in Gaps /\ wire[c][n] # <<>>
  <2>1. <<n, c>> \in open /\ f \in AnyFrame /\ st \in RxStates
    BY ReceivedFrame
  <2> QED
    BY <2>1 DEF AnyFrame, RxStates, Receive, Reads
<1>2. /\ Adopted(n, c) \in RxStates /\ st.epoch >= rx[n].epoch
      /\ Bufs(n, c) \in Seq(SUBSET AnyFrame) /\ Len(Bufs(n, c)) = st.epoch + 1
      /\ \A d \in Conns : loop[n][d].epoch <= st.epoch
  BY <1>1, AdoptedType
<1>3. /\ With(n, c, f, st) \in Seq(SUBSET AnyFrame) /\ Len(With(n, c, f, st)) = st.epoch + 1
  BY <1>1, <1>2, WithType
<1>4. /\ UNCHANGED <<life, born, open, made, acked>>
      /\ \A m \in Nodes : \/ tx'[m] = tx[m] /\ sendbuf'[m] = sendbuf[m]
                          \/ /\ m = n /\ Restarted(n, c)
                             /\ tx'[m] = 1 /\ sendbuf'[m] = {}
      /\ tx' \in [Nodes -> Nat \ {0}] /\ sendbuf' \in [Nodes -> SUBSET AnyFrame]
  <2>1. UNCHANGED <<life, born, open, made, acked>> /\ ResetSender(n, c)
    BY DEF Receive, links
  <2>2. CASE Restarted(n, c)
    <3>1. tx' = [tx EXCEPT ![n] = 1] /\ sendbuf' = [sendbuf EXCEPT ![n] = {}]
      BY <2>1, <2>2 DEF ResetSender
    <3> QED
      BY <2>1, <2>2, <3>1 DEF Types
  <2>3. CASE ~Restarted(n, c)
    BY <2>1, <2>3 DEF ResetSender, Types
  <2> QED
    BY <2>2, <2>3
<1>5. /\ Rest(n, c) \in Wires /\ Ack(f.seq) \in Items
      /\ \A d \in Conns, m \in Nodes :
              /\ Rest(n, c)[d][m] # wire[d][m] => d = c /\ m = n
              /\ \A y \in On2(Rest(n, c), d, m) : y \in On(d, m)
  BY <1>1, RestOn, ItemTypes
<1>6. /\ Put(Rest(n, c), c, Peer(n), Ack(f.seq)) \in Wires
      /\ \A d \in Conns, m \in Nodes :
              /\ Put(Rest(n, c), c, Peer(n), Ack(f.seq))[d][m] # wire[d][m] => <<m, d>> \in open
              /\ \A y \in On2(Put(Rest(n, c), c, Peer(n), Ack(f.seq)), d, m) :
                    \/ y \in On(d, m)
                    \/ y = Ack(f.seq) /\ d = c /\ m = Peer(n) /\ <<m, d>> \in open
  BY <1>1, <1>5, Answered
<1>7. \A d \in Conns, m \in Nodes : On(d, m)' = On2(wire', d, m)
  BY DEF On, On2
<1> DEFINE Back == /\ wire' \in Wires
                   /\ \A d \in Conns, m \in Nodes :
                        /\ wire'[d][m] # wire[d][m] => <<m, d>> \in open
                        /\ \A y \in On2(wire', d, m) :
                              \/ y \in On(d, m)
                              \/ y = Ack(f.seq) /\ d = c /\ m = Peer(n) /\ <<m, d>> \in open
           Silent == \A d \in Conns, m \in Nodes : \A y \in On2(wire', d, m) : y \in On(d, m)
           Typed == /\ rx' \in [Nodes -> RxStates] /\ buffers' \in [Nodes -> Seq(SUBSET AnyFrame)]
                    /\ loop' \in [Nodes -> [Conns -> Deliveries]]
                    /\ delivered' \in [Nodes -> Seq(AnyFrame)] /\ gone' \in [Nodes -> SUBSET AnyFrame]
                    /\ Len(buffers'[n]) = st.epoch + 1 /\ rx'[n].epoch = st.epoch
                    /\ \A d \in Conns : loop'[n][d].epoch <= st.epoch
           Others == \A m \in Nodes \ {n} : Same(m)
<1>8. CASE Deliver(n, c, f, st)
  <2>1. Delivered(n, c, f, st) /\ Typed /\ Others
    <3>1. HandOver(n, c, f, f.seq, st, FALSE) /\ f.seq = st.expected
          /\ rx' = [rx EXCEPT ![n] = st] /\ buffers' = [buffers EXCEPT ![n] = Bufs(n, c)]
          /\ gone' = gone
      BY <1>8 DEF Deliver
    <3>2. /\ Handed(n, c, f, f.seq, st, FALSE)
          /\ \A m \in Nodes \ {n} : delivered'[m] = delivered[m] /\ loop'[m] = loop[m]
          /\ delivered' \in [Nodes -> Seq(AnyFrame)] /\ loop' \in [Nodes -> [Conns -> Deliveries]]
      BY <1>1, <3>1, HandOverGives
    <3>3. \A d \in Conns : loop'[n][d].epoch <= st.epoch
      <4>1. loop'[n][c].epoch = st.epoch /\ \A d \in Conns \ {c} : loop'[n][d] = loop[n][d]
        BY <3>2 DEF Handed
      <4>2. st.epoch <= st.epoch /\ \A d \in Conns : loop[n][d].epoch <= st.epoch
        BY <1>1, <1>2
      <4> QED
        BY <4>1, <4>2
    <3>4. /\ rx' \in [Nodes -> RxStates] /\ buffers' \in [Nodes -> Seq(SUBSET AnyFrame)]
          /\ gone' \in [Nodes -> SUBSET AnyFrame] /\ rx'[n] = st /\ buffers'[n] = Bufs(n, c)
          /\ gone'[n] = gone[n]
          /\ \A m \in Nodes \ {n} : rx'[m] = rx[m] /\ buffers'[m] = buffers[m]
      BY <1>1, <1>2, <3>1 DEF Types
    <3> QED
      BY <1>2, <3>1, <3>2, <3>3, <3>4 DEF Delivered, Same
  <2>2. wire' = Rest(n, c)
    BY <1>8 DEF Deliver
  <2>3. Back /\ Silent
    BY <1>1, <1>5, <2>2
  <2> QED
    BY <2>1, <2>3, <1>4, <1>7, StillInTurn DEF Types, Same, Wires
<1>9. CASE Drop(n, c, f, st)
  <2>1. Dropped(n, c, f, st) /\ Typed /\ Others
    <3>1. f.seq < st.expected
          /\ rx' = [rx EXCEPT ![n] = st] /\ buffers' = [buffers EXCEPT ![n] = Bufs(n, c)]
          /\ UNCHANGED <<delivered, loop, gone>>
      BY <1>9 DEF Drop
    <3>2. /\ rx' \in [Nodes -> RxStates] /\ buffers' \in [Nodes -> Seq(SUBSET AnyFrame)]
          /\ rx'[n] = st /\ buffers'[n] = Bufs(n, c)
          /\ \A m \in Nodes \ {n} : rx'[m] = rx[m] /\ buffers'[m] = buffers[m]
      BY <1>1, <1>2, <3>1 DEF Types
    <3> QED
      BY <1>2, <3>1, <3>2 DEF Dropped, Same, Types
  <2>2. wire' = Put(Rest(n, c), c, Peer(n), Ack(f.seq))
    BY <1>9 DEF Drop
  <2>3. Back
    BY <1>6, <2>2
  <2> QED
    BY <2>1, <2>3, <1>4, <1>7, StillInTurn DEF Types, Same, Wires
<1>10. CASE Keep(n, c, f, st)
  <2>1. Kept(n, c, f, st) /\ Typed /\ Others
    <3>1. f.seq > st.expected
          /\ rx' = [rx EXCEPT ![n] = [st EXCEPT !.gap = "fresh"]]
          /\ buffers' = [buffers EXCEPT ![n] = With(n, c, f, st)]
          /\ UNCHANGED <<delivered, loop, gone>>
      BY <1>10 DEF Keep
    <3>2. [st EXCEPT !.gap = "fresh"] \in RxStates /\ [st EXCEPT !.gap = "fresh"].epoch = st.epoch
      BY <1>1 DEF RxStates, Gaps
    <3>3. /\ rx' \in [Nodes -> RxStates] /\ buffers' \in [Nodes -> Seq(SUBSET AnyFrame)]
          /\ rx'[n] = [st EXCEPT !.gap = "fresh"] /\ buffers'[n] = With(n, c, f, st)
          /\ \A m \in Nodes \ {n} : rx'[m] = rx[m] /\ buffers'[m] = buffers[m]
      BY <1>3, <3>1, <3>2 DEF Types
    <3> QED
      BY <1>2, <1>3, <3>1, <3>2, <3>3 DEF Kept, Same, Types
  <2>2. wire' = Put(Rest(n, c), c, Peer(n), Ack(f.seq))
    BY <1>10 DEF Keep
  <2>3. Back
    BY <1>6, <2>2
  <2> QED
    BY <2>1, <2>3, <1>4, <1>7, StillInTurn DEF Types, Same, Wires
<1>11. CASE Flush(n, c, f, st)
  <2> DEFINE buf == With(n, c, f, st)[st.epoch + 1]
             low == Least(buf)
             missing == {g \in sendbuf[Peer(n)] : g.seq \in st.expected..(low.seq - 1)}
             left == [With(n, c, f, st) EXCEPT ![st.epoch + 1] = buf \ {low}]
             ended == [st EXCEPT !.gap = "none"]
  <2>1. Flushed(n, c, f, st) /\ Typed /\ Others
    <3>1. f.seq > st.expected /\ HandOver(n, c, low, f.seq, st, TRUE)
          /\ rx' = [rx EXCEPT ![n] = ended] /\ buffers' = [buffers EXCEPT ![n] = left]
          /\ gone' = [gone EXCEPT ![n] = @ \cup missing]
      BY <1>11 DEF Flush, Least
    <3>2. low \in AnyFrame /\ buf \subseteq AnyFrame
      BY <1>1, ReceivedFrame DEF Joined
    <3>3. left \in Seq(SUBSET AnyFrame) /\ Len(left) = st.epoch + 1
      <4>1. buf \ {low} \in SUBSET AnyFrame
        BY <3>2
      <4> HIDE DEF buf, low
      <4> QED
        BY <1>1, <1>3, <4>1, ExceptSeq
    <3>4. ended \in RxStates /\ ended.epoch = st.epoch
      BY <1>1 DEF RxStates, Gaps
    <3>5. missing \in SUBSET AnyFrame
      <4>1. sendbuf[Peer(n)] \subseteq AnyFrame
        BY Peers DEF Types
      <4> QED
        BY <4>1
    <3>6. /\ Handed(n, c, low, f.seq, st, TRUE)
          /\ \A m \in Nodes \ {n} : delivered'[m] = delivered[m] /\ loop'[m] = loop[m]
          /\ delivered' \in [Nodes -> Seq(AnyFrame)] /\ loop' \in [Nodes -> [Conns -> Deliveries]]
      <4> HIDE DEF low
      <4> QED
        BY <1>1, <3>1, <3>2, HandOverGives
    <3>7. \A d \in Conns : loop'[n][d].epoch <= st.epoch
      <4>1. loop'[n][c].epoch = st.epoch /\ \A d \in Conns \ {c} : loop'[n][d] = loop[n][d]
        BY <3>6 DEF Handed
      <4>2. st.epoch <= st.epoch /\ \A d \in Conns : loop[n][d].epoch <= st.epoch
        BY <1>1, <1>2
      <4> QED
        BY <4>1, <4>2
    <3>8. /\ rx' \in [Nodes -> RxStates] /\ buffers' \in [Nodes -> Seq(SUBSET AnyFrame)]
          /\ gone' \in [Nodes -> SUBSET AnyFrame] /\ rx'[n] = ended /\ buffers'[n] = left
          /\ gone'[n] = gone[n] \cup missing
          /\ \A m \in Nodes \ {n} : rx'[m] = rx[m] /\ buffers'[m] = buffers[m] /\ gone'[m] = gone[m]
      <4> HIDE DEF left, ended, missing
      <4> QED
        BY <3>1, <3>3, <3>4, <3>5 DEF Types
    <3>9. Others
      BY <3>6, <3>8 DEF Same
    <3>10. Typed
      <4> HIDE DEF left, ended, missing
      <4> QED
        BY <3>3, <3>4, <3>6, <3>7, <3>8
    <3>11. Flushed(n, c, f, st)
      BY <3>1, <3>6, <3>8 DEF Flushed
    <3> QED
      BY <3>9, <3>10, <3>11
  <2>2. wire' = Rest(n, c)
    BY <1>11 DEF Flush
  <2>3. Back /\ Silent
    BY <1>1, <1>5, <2>2
  <2> QED
    BY <2>1, <2>3, <1>4, <1>7, StillInTurn DEF Types, Same, Wires
<1> QED
  BY <1>8, <1>9, <1>10, <1>11 DEF Receive

-----------------------------------------------------------------------------
(* The other steps: what each of them leaves behind *)

Adds(c, m, x) == \A d \in Conns, k \in Nodes : \A y \in On(d, k)' :
                 \/ y \in On(d, k)
                 \/ y = x /\ d = c /\ k = m /\ <<k, d>> \in open
EndsStay == UNCHANGED <<life, born, open>>

LEMMA CountGives ==
  ASSUME Types, NEW n \in Nodes, Count(n)
  PROVE  /\ made' \in [Nodes -> Nat] /\ tx' \in [Nodes -> Nat \ {0}]
         /\ made'[n] = made[n] + 1 /\ tx'[n] = tx[n] + 1
         /\ \A m \in Nodes \ {n} : made'[m] = made[m] /\ tx'[m] = tx[m]
  BY DEF Count, Types

LEMMA SendGives ==
  ASSUME Types, DialledInTurn, NEW n \in Nodes, NEW c \in Conns, Send(n, c) \/ SendCut(n, c)
  PROVE  /\ Types' /\ DialledInTurn' /\ EndsStay
         /\ made'[n] = made[n] + 1 /\ tx'[n] = tx[n] + 1
         /\ sendbuf'[n] \in {sendbuf[n], sendbuf[n] \cup {NextFrame(n)}}
         /\ acked'[n] = acked[n] /\ NextFrame(n) \in AnyFrame
         /\ \A m \in Nodes \ {n} : Quiet(m)
         /\ \A m \in Nodes : Same(m)
         /\ Adds(c, Peer(n), Data(NextFrame(n))) /\ <<n, c>> \in open
<1>1. /\ Count(n) /\ <<n, c>> \in open /\ EndsStay /\ UNCHANGED <<rx, buffers, loop, delivered, gone, acked>>
      /\ wire' = Put(wire, c, Peer(n), Data(NextFrame(n)))
      /\ sendbuf' = sendbuf \/ sendbuf' = [sendbuf EXCEPT ![n] = @ \cup {NextFrame(n)}]
  BY DEF Send, SendCut, EndsStay, links, receiver, Ends
<1>2. NextFrame(n) \in AnyFrame /\ Data(NextFrame(n)) \in Items
  BY FrameTypes, ItemTypes
<1>3. /\ wire' \in Wires
      /\ \A d \in Conns, m \in Nodes : wire'[d][m] # wire[d][m] => <<m, d>> \in open
      /\ \A d \in Conns, m \in Nodes : \A y \in On2(wire', d, m) :
            \/ y \in On(d, m)
            \/ y = Data(NextFrame(n)) /\ d = c /\ m = Peer(n) /\ <<m, d>> \in open
  <2> DEFINE x == Data(NextFrame(n))
  <2>1. x \in Items /\ wire' = Put(wire, c, Peer(n), x)
    BY <1>1, <1>2
  <2> HIDE DEF x
  <2>2. /\ wire' \in Wires
        /\ \A d \in Conns, m \in Nodes : wire'[d][m] # wire[d][m] => <<m, d>> \in open
        /\ \A d \in Conns, m \in Nodes : \A y \in On2(wire', d, m) :
              \/ y \in On(d, m)
              \/ y = x /\ d = c /\ m = Peer(n) /\ <<m, d>> \in open
    BY <2>1, Sent
  <2> QED
    BY <2>2 DEF x
<1>4. DialledInTurn'
  BY <1>1, <1>3, StillInTurn DEF EndsStay
<1>5. /\ made' \in [Nodes -> Nat] /\ tx' \in [Nodes -> Nat \ {0}]
      /\ made'[n] = made[n] + 1 /\ tx'[n] = tx[n] + 1
      /\ \A m \in Nodes \ {n} : made'[m] = made[m] /\ tx'[m] = tx[m]
  BY <1>1, CountGives
<1>6. /\ sendbuf' \in [Nodes -> SUBSET AnyFrame]
      /\ sendbuf'[n] \in {sendbuf[n], sendbuf[n] \cup {NextFrame(n)}}
      /\ \A m \in Nodes \ {n} : sendbuf'[m] = sendbuf[m]
  <2> DEFINE x == NextFrame(n)
  <2>1. x \in AnyFrame /\ (sendbuf' = sendbuf \/ sendbuf' = [sendbuf EXCEPT ![n] = @ \cup {x}])
    BY <1>1, <1>2
  <2> HIDE DEF x
  <2>2. /\ sendbuf' \in [Nodes -> SUBSET AnyFrame]
        /\ sendbuf'[n] \in {sendbuf[n], sendbuf[n] \cup {x}}
        /\ \A m \in Nodes \ {n} : sendbuf'[m] = sendbuf[m]
    <3>1. sendbuf \in [Nodes -> SUBSET AnyFrame]
      BY DEF Types
    <3>2. CASE sendbuf' = sendbuf
      BY <3>1, <3>2
    <3>3. CASE sendbuf' = [sendbuf EXCEPT ![n] = @ \cup {x}]
      BY <2>1, <3>1, <3>3
    <3> QED
      BY <2>1, <3>2, <3>3
  <2> QED
    BY <2>2 DEF x
<1>7. Types'
  BY <1>1, <1>3, <1>5, <1>6 DEF Types, EndsStay, Wires
<1>8. Adds(c, Peer(n), Data(NextFrame(n)))
  BY <1>3 DEF Adds, On, On2
<1> QED
  BY <1>1, <1>2, <1>4, <1>5, <1>6, <1>7, <1>8 DEF Quiet, Same

LEMMA RetransmitGives ==
  ASSUME Types, DialledInTurn, NEW n \in Nodes, NEW c \in Conns, NEW f \in sendbuf[n],
         Retransmit(n, c, f)
  PROVE  /\ Types' /\ DialledInTurn' /\ EndsStay
         /\ \A m \in Nodes : Quiet(m) /\ Same(m)
         /\ Adds(c, Peer(n), Data(f)) /\ f \in AnyFrame /\ <<n, c>> \in open
<1>1. /\ <<n, c>> \in open /\ EndsStay
      /\ UNCHANGED <<made, tx, sendbuf, acked, rx, buffers, loop, delivered, gone>>
      /\ wire' = Put(wire, c, Peer(n), Data(f))
  BY DEF Retransmit, EndsStay, links, receiver, sender, Ends
<1>2. f \in AnyFrame /\ Data(f) \in Items
  BY ItemTypes DEF Types
<1>3. /\ wire' \in Wires
      /\ \A d \in Conns, m \in Nodes : wire'[d][m] # wire[d][m] => <<m, d>> \in open
      /\ \A d \in Conns, m \in Nodes : \A y \in On2(wire', d, m) :
            \/ y \in On(d, m)
            \/ y = Data(f) /\ d = c /\ m = Peer(n) /\ <<m, d>> \in open
  BY <1>1, <1>2, Sent
<1>4. DialledInTurn'
  BY <1>1, <1>3, StillInTurn DEF EndsStay
<1>5. Types'
  BY <1>1, <1>3 DEF Types, EndsStay, Wires
<1>6. Adds(c, Peer(n), Data(f))
  BY <1>3 DEF Adds, On, On2
<1> QED
  BY <1>1, <1>2, <1>4, <1>5, <1>6 DEF Quiet, Same

LEMMA DropStaleGives ==
  ASSUME Types, DialledInTurn, NEW n \in Nodes, NEW c \in Conns, DropStale(n, c)
  PROVE  /\ Types' /\ DialledInTurn' /\ EndsStay
         /\ \A m \in Nodes : Quiet(m) /\ Same(m)
         /\ <<n, c>> \in open /\ Stale(n, c)
         /\ Head(wire[c][n]).kind = "data" /\ Head(wire[c][n]).f \in AnyFrame
         /\ Head(wire[c][n]) \in On(c, n)
         /\ \A d \in Conns, m \in Nodes : \A y \in On(d, m)' :
              \/ y \in On(d, m)
              \/ y = Ack(Head(wire[c][n]).f.seq) /\ d = c /\ m = Peer(n) /\ <<m, d>> \in open
<1> DEFINE s == Head(wire[c][n]).f.seq
<1>1. /\ EndsStay /\ UNCHANGED <<made, tx, sendbuf, acked, rx, buffers, loop, delivered, gone>>
      /\ wire' = Put(Rest(n, c), c, Peer(n), Ack(s))
      /\ Reads(n, c, "data") /\ Stale(n, c)
  BY DEF DropStale, EndsStay, links, receiver, sender
<1>2. /\ <<n, c>> \in open /\ wire[c][n] # <<>>
      /\ Head(wire[c][n]).kind = "data" /\ Head(wire[c][n]).f \in AnyFrame
      /\ Head(wire[c][n]) \in On(c, n)
  BY <1>1, ReadFrame
<1>3. Ack(s) \in Items
  BY <1>2, ItemTypes DEF AnyFrame
<1> HIDE DEF s
<1>4. /\ wire' \in Wires
      /\ \A d \in Conns, m \in Nodes : wire'[d][m] # wire[d][m] => <<m, d>> \in open
      /\ \A d \in Conns, m \in Nodes : \A y \in On2(wire', d, m) :
            \/ y \in On(d, m)
            \/ y = Ack(s) /\ d = c /\ m = Peer(n) /\ <<m, d>> \in open
  BY <1>1, <1>2, <1>3, Answered
<1>5. DialledInTurn'
  BY <1>1, <1>4, StillInTurn DEF EndsStay
<1>6. Types'
  BY <1>1, <1>4 DEF Types, EndsStay, Wires
<1>7. \A d \in Conns, m \in Nodes : \A y \in On(d, m)' :
              \/ y \in On(d, m)
              \/ y = Ack(s) /\ d = c /\ m = Peer(n) /\ <<m, d>> \in open
  BY <1>4 DEF On, On2
<1>8. \A m \in Nodes : Quiet(m) /\ Same(m)
  BY <1>1 DEF Quiet, Same
<1> QED
  BY <1>1, <1>2, <1>5, <1>6, <1>7, <1>8 DEF s

LEMMA TakeAckGives ==
  ASSUME Types, DialledInTurn, NEW n \in Nodes, NEW c \in Conns, TakeAck(n, c)
  PROVE  /\ Types' /\ DialledInTurn' /\ EndsStay
         /\ \A m \in Nodes : Same(m)
         /\ \A m \in Nodes \ {n} : Quiet(m)
         /\ <<n, c>> \in open
         /\ \E y \in On(c, n) :
              /\ y.kind = "ack"
              /\ acked'[n] = acked[n] \cup {f \in sendbuf[n] : f.seq = y.seq}
         /\ tx'[n] = tx[n] /\ made'[n] = made[n] /\ sendbuf'[n] \subseteq sendbuf[n]
         /\ \A d \in Conns, m \in Nodes : On(d, m)' \subseteq On(d, m)
<1> DEFINE y == Head(wire[c][n])
           done == {f \in sendbuf[n] : f.seq = y.seq}
<1>1. /\ EndsStay /\ UNCHANGED <<made, tx, rx, buffers, loop, delivered, gone>>
      /\ wire' = Rest(n, c) /\ Reads(n, c, "ack")
      /\ sendbuf' = [sendbuf EXCEPT ![n] = @ \ done]
      /\ acked' = [acked EXCEPT ![n] = @ \cup done]
  BY DEF TakeAck, EndsStay, links, receiver
<1>2. /\ <<n, c>> \in open /\ wire[c][n] # <<>> /\ y.kind = "ack"
  BY <1>1 DEF Reads
<1>3. /\ y \in On(c, n) /\ Rest(n, c) \in Wires
      /\ \A d \in Conns, m \in Nodes :
           /\ Rest(n, c)[d][m] # wire[d][m] => d = c /\ m = n
           /\ \A z \in On2(Rest(n, c), d, m) : z \in On(d, m)
  BY <1>2, RestOn
<1>4. DialledInTurn'
  BY <1>1, <1>2, <1>3, StillInTurn DEF EndsStay
<1>5. done \subseteq sendbuf[n]
  OBVIOUS
<1>6. /\ sendbuf' \in [Nodes -> SUBSET AnyFrame] /\ acked' \in [Nodes -> SUBSET AnyFrame]
      /\ acked'[n] = acked[n] \cup done /\ sendbuf'[n] \subseteq sendbuf[n]
      /\ \A m \in Nodes \ {n} : acked'[m] = acked[m] /\ sendbuf'[m] = sendbuf[m]
  <2> HIDE DEF done
  <2> QED
    BY <1>1, <1>5 DEF Types
<1>7. Types'
  BY <1>1, <1>3, <1>6 DEF Types, EndsStay, Wires
<1>8. \A d \in Conns, m \in Nodes : On(d, m)' \subseteq On(d, m)
  <2>1. \A d \in Conns, m \in Nodes : On(d, m)' = On2(Rest(n, c), d, m)
    BY <1>1 DEF On, On2
  <2> QED
    BY <1>3, <2>1
<1>9. /\ \A m \in Nodes : Same(m)
      /\ \A m \in Nodes \ {n} : Quiet(m)
  BY <1>1, <1>6 DEF Quiet, Same
<1> QED
  BY <1>1, <1>2, <1>3, <1>4, <1>6, <1>7, <1>8, <1>9

LEMMA DrainNextGives ==
  ASSUME Types, DialledInTurn, NEW n \in Nodes, NEW c \in Conns, DrainNext(n, c)
  PROVE  /\ Types' /\ DialledInTurn' /\ EndsStay
         /\ \A m \in Nodes : Quiet(m)
         /\ \A m \in Nodes \ {n} : Same(m)
         /\ c \in Busy(n)
         /\ \E f \in buffers[n][loop[n][c].epoch + 1] :
              /\ f.seq = loop[n][c].next /\ f \in AnyFrame
              /\ delivered'[n] = Append(delivered[n], f)
              /\ buffers'[n] = [buffers[n] EXCEPT ![loop[n][c].epoch + 1] = @ \ {f}]
         /\ loop'[n][c] = [loop[n][c] EXCEPT !.next = @ + 1]
         /\ \A d \in Conns \ {c} : loop'[n][d] = loop[n][d]
         /\ rx'[n] = rx[n] /\ gone'[n] = gone[n]
         /\ \A d \in Conns, m \in Nodes : On(d, m)' = On(d, m)
<1> DEFINE e == loop[n][c].epoch + 1
<1>1. PICK f \in buffers[n][e] :
        /\ f.seq = loop[n][c].next
        /\ delivered' = [delivered EXCEPT ![n] = Append(@, f)]
        /\ buffers' = [buffers EXCEPT ![n][e] = @ \ {f}]
  BY DEF DrainNext
<1>2. /\ EndsStay /\ UNCHANGED <<wire, made, tx, sendbuf, acked, rx, gone>>
      /\ loop' = [loop EXCEPT ![n][c].next = @ + 1] /\ c \in Busy(n)
  BY DEF DrainNext, EndsStay, links, sender, Busy
<1>3. /\ loop[n][c] \in Deliveries /\ loop[n][c].epoch \in Nat /\ rx[n].epoch \in Nat
      /\ buffers[n] \in Seq(SUBSET AnyFrame) /\ Len(buffers[n]) = rx[n].epoch + 1
      /\ loop[n][c].epoch <= rx[n].epoch
  BY DEF Types, Deliveries, RxStates
<1>4. e \in 1..Len(buffers[n]) /\ buffers[n][e] \in SUBSET AnyFrame
  <2>1. e \in 1..Len(buffers[n])
    BY <1>3
  <2> QED
    BY <1>3, <2>1, ElementOfSeq
<1>5. f \in AnyFrame
  BY <1>1, <1>4
<1> DEFINE rec == [loop[n][c] EXCEPT !.next = @ + 1]
           row == [buffers[n] EXCEPT ![e] = @ \ {f}]
           s == Append(delivered[n], f)
<1>6. rec \in Deliveries /\ rec.epoch = loop[n][c].epoch
  BY <1>3 DEF Deliveries
<1>7. row \in Seq(SUBSET AnyFrame) /\ Len(row) = Len(buffers[n])
  <2>1. buffers[n][e] \ {f} \in SUBSET AnyFrame
    BY <1>4
  <2> HIDE DEF e
  <2> QED
    BY <1>3, <1>4, <2>1, ExceptSeq
<1>8. s \in Seq(AnyFrame)
  BY <1>5 DEF Types
<1>9. /\ loop' = [loop EXCEPT ![n] = [loop[n] EXCEPT ![c] = rec]]
      /\ buffers' = [buffers EXCEPT ![n] = row] /\ delivered' = [delivered EXCEPT ![n] = s]
  BY <1>1, <1>2
<1> HIDE DEF rec, row, s, e
<1>10. /\ loop' \in [Nodes -> [Conns -> Deliveries]] /\ buffers' \in [Nodes -> Seq(SUBSET AnyFrame)]
       /\ delivered' \in [Nodes -> Seq(AnyFrame)]
       /\ loop'[n][c] = rec /\ buffers'[n] = row /\ delivered'[n] = s
       /\ \A d \in Conns \ {c} : loop'[n][d] = loop[n][d]
       /\ \A m \in Nodes \ {n} : loop'[m] = loop[m] /\ buffers'[m] = buffers[m]
                                 /\ delivered'[m] = delivered[m]
  BY <1>6, <1>7, <1>8, <1>9 DEF Types
<1>11. \A d \in Conns : loop'[n][d].epoch <= rx[n].epoch
  BY <1>3, <1>6, <1>10 DEF Types
<1>12. Types'
  <2>1. /\ Len(buffers'[n]) = rx'[n].epoch + 1
        /\ \A d \in Conns : loop'[n][d].epoch <= rx'[n].epoch
    BY <1>2, <1>3, <1>7, <1>10, <1>11
  <2>2. \A m \in Nodes \ {n} : /\ Len(buffers'[m]) = rx'[m].epoch + 1
                               /\ \A d \in Conns : loop'[m][d].epoch <= rx'[m].epoch
    BY <1>2, <1>10 DEF Types
  <2> QED
    BY <1>2, <1>10, <2>1, <2>2 DEF Types, EndsStay
<1>13. DialledInTurn'
  BY <1>2, StillInTurn DEF EndsStay
<1>14. \A m \in Nodes \ {n} : Same(m)
  BY <1>2, <1>10 DEF Same
<1>15. \A d \in Conns, m \in Nodes : On(d, m)' = On(d, m)
  BY <1>2 DEF On
<1> QED
  BY <1>1, <1>2, <1>5, <1>10, <1>12, <1>13, <1>14, <1>15 DEF Quiet, rec, row, s, e

LEMMA DrainDoneGives ==
  ASSUME Types, DialledInTurn, NEW n \in Nodes, NEW c \in Conns, DrainDone(n, c)
  PROVE  /\ Types' /\ DialledInTurn' /\ EndsStay
         /\ \A m \in Nodes : Quiet(m)
         /\ \A m \in Nodes \ {n} : Same(m)
         /\ c \in Busy(n)
         /\ \A f \in buffers[n][loop[n][c].epoch + 1] : f.seq # loop[n][c].next
         /\ rx'[n].inst = rx[n].inst /\ rx'[n].since = rx[n].since /\ rx'[n].epoch = rx[n].epoch
         /\ rx'[n].expected = loop[n][c].next
         /\ loop'[n][c] = Idle /\ \A d \in Conns \ {c} : loop'[n][d] = loop[n][d]
         /\ buffers'[n] = buffers[n] /\ delivered'[n] = delivered[n] /\ gone'[n] = gone[n]
         /\ \A d \in Conns, m \in Nodes : \A y \in On(d, m)' :
              \/ y \in On(d, m)
              \/ y = Ack(loop[n][c].ack) /\ d = c /\ m = Peer(n) /\ <<m, d>> \in open
<1> DEFINE new == [rx[n] EXCEPT !.expected = loop[n][c].next,
                                !.gap = IF loop[n][c].flush THEN @ ELSE "none"]
           s == loop[n][c].ack
<1>1. /\ EndsStay /\ UNCHANGED <<made, tx, sendbuf, acked, buffers, delivered, gone>>
      /\ loop' = [loop EXCEPT ![n][c] = Idle] /\ c \in Busy(n)
      /\ \A f \in buffers[n][loop[n][c].epoch + 1] : f.seq # loop[n][c].next
      /\ wire' = IF <<n, c>> \in open THEN Put(wire, c, Peer(n), Ack(s)) ELSE wire
  BY DEF DrainDone, EndsStay, links, sender, Busy
<1>2. rx' = [rx EXCEPT ![n] = new]
  <2>1. rx' = [rx EXCEPT ![n].expected = loop[n][c].next,
                         ![n].gap = IF loop[n][c].flush THEN @ ELSE "none"]
    BY DEF DrainDone
  <2>2. rx \in [Nodes -> RxStates] /\ rx[n] \in RxStates
    BY DEF Types
  <2> QED
    BY <2>1, <2>2 DEF RxStates
<1>3. /\ loop[n][c] \in Deliveries /\ s \in Nat /\ rx[n] \in RxStates /\ rx[n].epoch \in Nat
      /\ loop[n][c].next \in Nat
  BY DEF Types, Deliveries, RxStates
<1>4. /\ new \in RxStates /\ new.epoch = rx[n].epoch /\ new.inst = rx[n].inst
      /\ new.since = rx[n].since /\ new.expected = loop[n][c].next
  <2>1. new = [inst |-> rx[n].inst, since |-> rx[n].since, epoch |-> rx[n].epoch,
               expected |-> loop[n][c].next,
               gap |-> IF loop[n][c].flush THEN rx[n].gap ELSE "none"]
    <3> DEFINE g == IF loop[n][c].flush THEN rx[n].gap ELSE "none"
    <3>1. new = [rx[n] EXCEPT !.expected = loop[n][c].next, !.gap = g]
      OBVIOUS
    <3> HIDE DEF g, new
    <3>2. new = [inst |-> rx[n].inst, since |-> rx[n].since, epoch |-> rx[n].epoch,
                 expected |-> loop[n][c].next, gap |-> g]
      BY <1>3, <3>1 DEF RxStates
    <3> QED
      BY <3>2 DEF g
  <2>2. rx[n].gap \in Gaps /\ rx[n].inst \in Nat /\ rx[n].since \in Nat
    BY <1>3 DEF RxStates
  <2> QED
    BY <1>3, <2>1, <2>2 DEF RxStates, Gaps
<1>5. Ack(s) \in Items
  BY <1>3, ItemTypes
<1> HIDE DEF new, s
<1>6. /\ rx' \in [Nodes -> RxStates] /\ rx'[n] = new /\ \A m \in Nodes \ {n} : rx'[m] = rx[m]
      /\ loop' \in [Nodes -> [Conns -> Deliveries]] /\ loop'[n][c] = Idle
      /\ \A d \in Conns \ {c} : loop'[n][d] = loop[n][d]
      /\ \A m \in Nodes \ {n} : loop'[m] = loop[m]
  BY <1>1, <1>2, <1>4, Blanks DEF Types
<1>7. /\ wire' \in Wires
      /\ \A d \in Conns, m \in Nodes : wire'[d][m] # wire[d][m] => <<m, d>> \in open
      /\ \A d \in Conns, m \in Nodes : \A y \in On2(wire', d, m) :
            \/ y \in On(d, m)
            \/ y = Ack(s) /\ d = c /\ m = Peer(n) /\ <<m, d>> \in open
  <2>1. CASE <<n, c>> \in open
    <3>1. wire' = Put(wire, c, Peer(n), Ack(s))
      BY <1>1, <2>1
    <3> QED
      BY <1>5, <3>1, Sent
  <2>2. CASE <<n, c>> \notin open
    BY <1>1, <2>2 DEF Types, Wires, On, On2
  <2> QED
    BY <2>1, <2>2
<1>8. DialledInTurn'
  BY <1>1, <1>7, StillInTurn DEF EndsStay
<1>9. Types'
  <2>1. /\ Len(buffers'[n]) = rx'[n].epoch + 1
        /\ \A d \in Conns : loop'[n][d].epoch <= rx'[n].epoch
    <3>1. \A d \in Conns : loop'[n][d].epoch <= rx[n].epoch
      <4>1. \A d \in Conns : loop[n][d].epoch <= rx[n].epoch
        BY DEF Types
      <4>2. 0 <= rx[n].epoch
        BY <1>3
      <4> QED
        BY <1>6, <4>1, <4>2, Blanks
    <3> QED
      BY <1>1, <1>4, <1>6, <3>1 DEF Types
  <2>2. \A m \in Nodes \ {n} : /\ Len(buffers'[m]) = rx'[m].epoch + 1
                               /\ \A d \in Conns : loop'[m][d].epoch <= rx'[m].epoch
    BY <1>1, <1>6 DEF Types
  <2> QED
    BY <1>1, <1>6, <1>7, <2>1, <2>2 DEF Types, EndsStay, Wires
<1>10. \A m \in Nodes : Quiet(m) /\ (m # n => Same(m))
  BY <1>1, <1>6 DEF Quiet, Same
<1>11. \A d \in Conns, m \in Nodes : \A y \in On(d, m)' :
              \/ y \in On(d, m)
              \/ y = Ack(s) /\ d = c /\ m = Peer(n) /\ <<m, d>> \in open
  BY <1>7 DEF On, On2
<1> QED
  BY <1>1, <1>4, <1>6, <1>8, <1>9, <1>10, <1>11 DEF s

LEMMA GapAgesGives ==
  ASSUME Types, DialledInTurn, NEW n \in Nodes, GapAges(n)
  PROVE  /\ Types' /\ DialledInTurn' /\ EndsStay
         /\ \A m \in Nodes : Quiet(m)
         /\ \A m \in Nodes \ {n} : Same(m)
         /\ rx'[n].inst = rx[n].inst /\ rx'[n].since = rx[n].since /\ rx'[n].epoch = rx[n].epoch
         /\ rx'[n].expected = rx[n].expected
         /\ buffers'[n] = buffers[n] /\ loop'[n] = loop[n]
         /\ delivered'[n] = delivered[n] /\ gone'[n] = gone[n]
         /\ \A d \in Conns, m \in Nodes : On(d, m)' = On(d, m)
<1> DEFINE new == [rx[n] EXCEPT !.gap = "stuck"]
<1>1. /\ EndsStay /\ UNCHANGED <<wire, made, tx, sendbuf, acked, buffers, loop, delivered, gone>>
      /\ rx' = [rx EXCEPT ![n] = new]
  BY DEF GapAges, EndsStay, links, sender
<1>2. /\ new \in RxStates /\ new.inst = rx[n].inst /\ new.since = rx[n].since
      /\ new.epoch = rx[n].epoch /\ new.expected = rx[n].expected
  BY DEF Types, RxStates, Gaps
<1> HIDE DEF new
<1>3. rx' \in [Nodes -> RxStates] /\ rx'[n] = new /\ \A m \in Nodes \ {n} : rx'[m] = rx[m]
  BY <1>1, <1>2 DEF Types
<1>4. DialledInTurn'
  BY <1>1, StillInTurn DEF EndsStay
<1>5. Types'
  <2>1. \A m \in Nodes : rx'[m].epoch = rx[m].epoch
    BY <1>2, <1>3
  <2> QED
    BY <1>1, <1>3, <2>1 DEF Types, EndsStay
<1>6. /\ \A m \in Nodes : Quiet(m) /\ (m # n => Same(m))
      /\ \A d \in Conns, m \in Nodes : On(d, m)' = On(d, m)
  BY <1>1, <1>3 DEF Quiet, Same, On
<1> QED
  BY <1>1, <1>2, <1>3, <1>4, <1>5, <1>6

-----------------------------------------------------------------------------
(* What every step keeps *)

LEMMA TypeStep == Types /\ DialledInTurn /\ [Next]_vars => Types' /\ DialledInTurn'
<1> SUFFICES ASSUME Types, DialledInTurn, [Next]_vars PROVE Types' /\ DialledInTurn'
  OBVIOUS
<1>1. CASE Connect
  BY <1>1, ConnectGives
<1>2. ASSUME NEW c \in Conns, Fail(c) PROVE Types' /\ DialledInTurn'
  BY <1>2, FailGives
<1>3. ASSUME NEW n \in Nodes, Restart(n) PROVE Types' /\ DialledInTurn'
  BY <1>3, RestartGives
<1>4. ASSUME NEW n \in Nodes, RetxLoop(n) PROVE Types' /\ DialledInTurn'
  BY <1>4, RetransmitGives DEF RetxLoop, Ends
<1>5. ASSUME NEW n \in Nodes, GapAges(n) PROVE Types' /\ DialledInTurn'
  BY <1>5, GapAgesGives
<1>6. ASSUME NEW n \in Nodes, NEW c \in Conns, CloseEnd(n, c) PROVE Types' /\ DialledInTurn'
  BY <1>6, CloseEndGives
<1>7. ASSUME NEW n \in Nodes, NEW c \in Conns, Send(n, c) \/ SendCut(n, c)
      PROVE  Types' /\ DialledInTurn'
  BY <1>7, SendGives
<1>8. ASSUME NEW n \in Nodes, NEW c \in Conns, ReadLoop(n, c) PROVE Types' /\ DialledInTurn'
  BY <1>8, Received, DropStaleGives, TakeAckGives, DrainNextGives, DrainDoneGives DEF ReadLoop
<1>9. CASE UNCHANGED vars
  <2>1. DialledInTurn'
    BY <1>9, StillInTurn DEF vars, links
  <2> QED
    BY <1>9, <2>1 DEF vars, links, sender, receiver, Types
<1> QED
  BY <1>1, <1>2, <1>3, <1>4, <1>5, <1>6, <1>7, <1>8, <1>9 DEF Next

(* Every value keeps its type, and connections are dialled in the order of   *)
(* their numbers, under the ids their ends then have (_next_generation).     *)
THEOREM DialsInTurn == Spec => [](Types /\ DialledInTurn)
<1>1. Init => Types /\ DialledInTurn
  BY InitTypes
<1>2. Types /\ DialledInTurn /\ [Next]_vars => (Types /\ DialledInTurn)'
  BY TypeStep
<1> QED
  BY <1>1, <1>2, PTL DEF Spec

-----------------------------------------------------------------------------
(* A frame's number says which payload it carries: the peer of a receiver    *)
(* that has not restarted never resyncs.                                     *)

LEMMA OneLife ==
  ASSUME Types, DialledInTurn, NEW n \in Nodes, life[n] = 1, NEW c \in Dialled
  PROVE  born[c][n] = 1
<1>1. born[c] \in [Nodes -> Nat \ {0}]
  BY DEF Dialled, Types
<1>2. born[c][n] \in Nat \ {0} /\ born[c][n] <= 1
  BY <1>1 DEF DialledInTurn
<1> QED
  BY <1>2

LEMMA OnDialled ==
  ASSUME DialledInTurn, NEW c \in Conns, NEW n \in Nodes, On(c, n) # {}
  PROVE  <<n, c>> \in open /\ c \in Dialled
<1>1. wire[c][n] # <<>>
  BY DEF On
<1> QED
  BY <1>1 DEF DialledInTurn

(* What was numbered stays so, in the same life of the peer or after it.     *)
LEMMA OfStays ==
  ASSUME Types, NEW n \in Nodes, NEW f \in AnyFrame, NEW l \in Nat, Of(n, f, l),
         Types',
         \/ life'[Peer(n)] = life[Peer(n)] /\ tx'[Peer(n)] >= tx[Peer(n)]
         \/ life'[Peer(n)] = life[Peer(n)] + 1 /\ l <= life[Peer(n)]
  PROVE  Of(n, f, l)'
<1>1. Peer(n) \in Nodes
  BY Peers
<1>2. /\ life[Peer(n)] \in Nat /\ tx[Peer(n)] \in Nat /\ tx'[Peer(n)] \in Nat /\ f.seq \in Nat
  BY <1>1 DEF Types, AnyFrame
<1> QED
  BY <1>2 DEF Of

LEMMA NeverResyncs ==
  ASSUME Types, DialledInTurn, NEW n \in Nodes, life[n] = 1, rx[Peer(n)].inst \in {0, 1},
         NEW c \in Conns, <<Peer(n), c>> \in open
  PROVE  ~Restarted(Peer(n), c) /\ Adopted(Peer(n), c).inst = 1
<1>1. c \in Dialled /\ Peer(n) \in Nodes /\ Peer(Peer(n)) = n
  BY Peers DEF DialledInTurn
<1>2. Instance(Peer(n), c) = 1
  BY <1>1, OneLife DEF Instance
<1>3. Adopted(Peer(n), c).inst = Instance(Peer(n), c)
  BY <1>1, AdoptedType
<1> QED
  BY <1>2, <1>3 DEF Restarted

(* What the peer may add to Numbered without breaking it.                    *)
LEMMA NumberedKept ==
  ASSUME Types, DialledInTurn, NEW n \in Nodes, life[n] = 1, Numbered(n), Types',
         \/ life'[Peer(n)] = life[Peer(n)] /\ tx'[Peer(n)] >= tx[Peer(n)]
         \/ life'[Peer(n)] = life[Peer(n)] + 1 /\ sendbuf'[Peer(n)] = {},
         tx'[Peer(n)] = made'[Peer(n)] + 1, rx'[Peer(n)].inst \in {0, 1},
         \A f \in sendbuf'[Peer(n)] : f \in sendbuf[Peer(n)] \/ Of(n, f, life[Peer(n)])',
         \A c \in Dialled : born'[c] = born[c],
         \A c \in Conns : \A y \in On(c, n)' :
            \/ y \in On(c, n) \/ y.kind = "ack"
            \/ Of(n, y.f, born[c][Peer(n)])' /\ c \in Dialled
  PROVE  Numbered(n)'
<1>1. Peer(n) \in Nodes /\ life[Peer(n)] \in Nat
  BY Peers DEF Types
<1>2. ASSUME NEW f \in sendbuf'[Peer(n)] PROVE Of(n, f, life[Peer(n)])'
  <2>1. CASE f \in sendbuf[Peer(n)]
    <3>1. f \in AnyFrame /\ Of(n, f, life[Peer(n)]) /\ life'[Peer(n)] = life[Peer(n)]
      BY <1>1, <1>2, <2>1 DEF Types, Numbered
    <3>2. \A l \in Nat : l = life[Peer(n)] => Of(n, f, l)'
      BY <3>1, OfStays
    <3> QED
      BY <1>1, <3>1, <3>2 DEF Of
  <2> QED
    BY <1>2, <2>1
<1>3. ASSUME NEW c \in Conns, NEW y \in On(c, n)', y.kind = "data"
      PROVE  Of(n, y.f, born[c][Peer(n)])'
  <2>1. CASE y \in On(c, n)
    <3>1. c \in Dialled
      BY <2>1, OnDialled
    <3>2. born[c] \in [Nodes -> Nat \ {0}] /\ born[c][Peer(n)] <= life[Peer(n)]
      BY <1>1, <3>1 DEF Dialled, Types, DialledInTurn
    <3>3. y.f \in AnyFrame
      <4>1. wire[c][n] \in Seq(Items)
        BY DEF Types
      <4>2. y \in Items
        BY <2>1, <4>1 DEF On
      <4> QED
        BY <1>3, <4>2, ItemTypes
    <3>4. Of(n, y.f, born[c][Peer(n)])
      BY <1>3, <2>1 DEF Numbered
    <3>5. \A l \in Nat : l = born[c][Peer(n)] => Of(n, y.f, l)'
      BY <3>2, <3>3, <3>4, OfStays
    <3>6. born'[c] = born[c] /\ born[c][Peer(n)] \in Nat
      BY <1>1, <3>1, <3>2
    <3> QED
      BY <3>5, <3>6
  <2> QED
    BY <1>3, <2>1
<1>4. \A c \in Conns : \A y \in On(c, n)' : c \in Dialled => born'[c] = born[c]
  OBVIOUS
<1> QED
  BY <1>2, <1>3 DEF Numbered

LEMMA NumberedStep ==
  ASSUME Types, DialledInTurn, NEW n \in Nodes, Numbered(n), [Next]_vars
  PROVE  Numbered(n)'
<1>1. Types' /\ DialledInTurn'
  BY TypeStep
<1>2. Peer(n) \in Nodes /\ n # Peer(n) /\ Peer(Peer(n)) = n /\ \A m \in Nodes : m = n \/ m = Peer(n)
  BY Peers
<1> SUFFICES ASSUME life'[n] = 1 PROVE Numbered(n)'
  BY DEF Numbered
<1>3. /\ life[n] \in Nat \ {0} /\ life'[n] \in Nat \ {0} /\ life[Peer(n)] \in Nat \ {0}
      /\ tx[Peer(n)] \in Nat \ {0} /\ made[Peer(n)] \in Nat
  BY <1>1, <1>2 DEF Types
(* Most steps take nothing from the peer's numbers and put nothing new on    *)
(* the way to n.                                                             *)
<1>4. ASSUME life' = life, tx'[Peer(n)] = tx[Peer(n)], made'[Peer(n)] = made[Peer(n)], sendbuf'[Peer(n)] \subseteq sendbuf[Peer(n)],
             rx'[Peer(n)].inst \in {0, 1}, \A c \in Dialled : born'[c] = born[c],
             \A c \in Conns : \A y \in On(c, n)' : y \in On(c, n) \/ y.kind = "ack"
      PROVE  Numbered(n)'
  <2>1. life[n] = 1 /\ tx'[Peer(n)] = made'[Peer(n)] + 1
    BY <1>2, <1>4 DEF Numbered
  <2>2. life'[Peer(n)] = life[Peer(n)] /\ tx'[Peer(n)] >= tx[Peer(n)]
    BY <1>3, <1>4
  <2>3. \A f \in sendbuf'[Peer(n)] : f \in sendbuf[Peer(n)] \/ Of(n, f, life[Peer(n)])'
    BY <1>4
  <2>4. \A c \in Conns : \A y \in On(c, n)' :
            \/ y \in On(c, n) \/ y.kind = "ack"
            \/ Of(n, y.f, born[c][Peer(n)])' /\ c \in Dialled
    BY <1>4
  <2> QED
    BY <1>1, <1>4, <2>1, <2>2, <2>3, <2>4, NumberedKept
<1>5. life[n] = 1 => /\ tx[Peer(n)] = made[Peer(n)] + 1 /\ rx[Peer(n)].inst \in {0, 1}
  BY DEF Numbered
<1>6. CASE Connect
  BY <1>2, <1>4, <1>5, <1>6, ConnectGives DEF Quiet, Same
<1>7. ASSUME NEW c \in Conns, Fail(c) PROVE Numbered(n)'
  BY <1>2, <1>4, <1>5, <1>7, FailGives DEF Quiet, Same
<1>8. ASSUME NEW m \in Nodes, NEW c \in Conns, CloseEnd(m, c) PROVE Numbered(n)'
  BY <1>2, <1>4, <1>5, <1>8, CloseEndGives DEF Quiet, Same
<1>9. ASSUME NEW m \in Nodes, Restart(m) PROVE Numbered(n)'
  <2>1. CASE m = n
    <3>1. life'[n] = life[n] + 1
      BY <1>9, <2>1, RestartGives
    <3> QED
      BY <1>3, <3>1
  <2>2. CASE m = Peer(n)
    <3>1. /\ life'[n] = life[n] /\ life'[Peer(n)] = life[Peer(n)] + 1 /\ tx'[Peer(n)] = 1 /\ made'[Peer(n)] = 0
          /\ sendbuf'[Peer(n)] = {} /\ rx'[Peer(n)] = NoState /\ born' = born
          /\ \A d \in Conns : On(d, n)' \subseteq On(d, n)
      BY <1>2, <1>9, <2>2, RestartGives
    <3>2. NoState.inst = 0
      BY DEF NoState
    <3> QED
      BY <1>1, <1>2, <3>1, <3>2, NumberedKept
  <2> QED
    BY <1>2, <2>1, <2>2
<1>10. ASSUME NEW m \in Nodes, RetxLoop(m) PROVE Numbered(n)'
  <2>1. PICK c \in Conns, f \in sendbuf[m] : Retransmit(m, c, f)
    BY <1>10 DEF RetxLoop, Ends
  <2>2. /\ EndsStay /\ \A k \in Nodes : Quiet(k) /\ Same(k)
        /\ Adds(c, Peer(m), Data(f)) /\ f \in AnyFrame /\ <<m, c>> \in open
    BY <2>1, RetransmitGives
  <2>3. CASE m = n
    <3>1. \A d \in Conns : \A y \in On(d, n)' : y \in On(d, n)
      BY <1>2, <2>2, <2>3 DEF Adds
    <3> QED
      BY <1>2, <1>4, <1>5, <2>2, <3>1 DEF Quiet, Same, EndsStay
  <2>4. CASE m = Peer(n)
    <3>1. life[n] = 1 /\ Of(n, f, life[Peer(n)]) /\ born[c][Peer(n)] = life[Peer(n)] /\ c \in Dialled
      BY <2>1, <2>2, <2>4 DEF Numbered, EndsStay, DialledInTurn
    <3>2. tx'[Peer(n)] = tx[Peer(n)] /\ life' = life /\ born' = born
      BY <1>2, <2>2 DEF Quiet, EndsStay
    <3>3. Of(n, f, born[c][Peer(n)])'
      BY <3>1, <3>2 DEF Of
    <3>4. \A d \in Conns : \A y \in On(d, n)' :
             \/ y \in On(d, n) \/ y.kind = "ack"
             \/ Of(n, y.f, born[d][Peer(n)])' /\ d \in Dialled
      <4>1. \A d \in Conns : \A y \in On(d, n)' : y \in On(d, n) \/ (y = Data(f) /\ d = c)
        BY <1>2, <2>2, <2>4 DEF Adds
      <4>2. Data(f).f = f
        BY <2>2, ItemTypes
      <4> QED
        BY <3>1, <3>3, <4>1, <4>2
    <3>5. /\ tx'[Peer(n)] = made'[Peer(n)] + 1 /\ tx'[Peer(n)] >= tx[Peer(n)]
          /\ rx'[Peer(n)].inst \in {0, 1} /\ life'[Peer(n)] = life[Peer(n)]
          /\ \A h \in sendbuf'[Peer(n)] : h \in sendbuf[Peer(n)]
      BY <1>2, <1>3, <1>5, <2>2, <3>1, <3>2 DEF Quiet, Same
    <3>6. \A h \in sendbuf'[Peer(n)] : h \in sendbuf[Peer(n)] \/ Of(n, h, life[Peer(n)])'
      BY <3>5
    <3> QED
      BY <1>1, <3>1, <3>2, <3>4, <3>5, <3>6, NumberedKept
  <2> QED
    BY <1>2, <2>3, <2>4
<1>11. ASSUME NEW m \in Nodes, GapAges(m) PROVE Numbered(n)'
  <2>1. rx'[Peer(n)].inst = rx[Peer(n)].inst
    BY <1>2, <1>11, GapAgesGives DEF Same
  <2> QED
    BY <1>2, <1>4, <1>5, <1>11, <2>1, GapAgesGives DEF Quiet, EndsStay
<1>12. ASSUME NEW m \in Nodes, NEW c \in Conns, Send(m, c) \/ SendCut(m, c) PROVE Numbered(n)'
  <2>1. /\ EndsStay /\ made'[m] = made[m] + 1 /\ tx'[m] = tx[m] + 1
        /\ sendbuf'[m] \in {sendbuf[m], sendbuf[m] \cup {NextFrame(m)}}
        /\ NextFrame(m) \in AnyFrame
        /\ \A k \in Nodes \ {m} : Quiet(k)
        /\ \A k \in Nodes : Same(k)
        /\ Adds(c, Peer(m), Data(NextFrame(m))) /\ <<m, c>> \in open
    BY <1>12, SendGives
  <2>2. CASE m = n
    <3>1. \A d \in Conns : \A y \in On(d, n)' : y \in On(d, n)
      BY <1>2, <2>1, <2>2 DEF Adds
    <3> QED
      BY <1>2, <1>4, <1>5, <2>1, <2>2, <3>1 DEF Quiet, Same, EndsStay
  <2>3. CASE m = Peer(n)
    <3>1. /\ life[n] = 1 /\ tx[Peer(n)] = made[Peer(n)] + 1 /\ born[c][Peer(n)] = life[Peer(n)] /\ c \in Dialled
          /\ rx[Peer(n)].inst \in {0, 1}
      BY <1>5, <2>1, <2>3 DEF EndsStay, DialledInTurn
    <3>2. tx'[Peer(n)] = tx[Peer(n)] + 1 /\ life' = life /\ born' = born
      BY <2>1, <2>3 DEF EndsStay
    <3> DEFINE h == NextFrame(Peer(n))
    <3>a. PICK g \in AnyFrame : g = h
      BY <2>1, <2>3
    <3>3. Of(n, g, life[Peer(n)])'
      <4>2. /\ g.from = Peer(n) /\ g.life = life[Peer(n)]
            /\ g.k = made[Peer(n)] + 1 /\ g.seq = tx[Peer(n)]
        BY <3>a DEF NextFrame, FrameOf
      <4> QED
        BY <1>3, <3>1, <3>2, <4>2 DEF Of
    <3>4. \A d \in Conns : \A y \in On(d, n)' :
             \/ y \in On(d, n) \/ y.kind = "ack"
             \/ Of(n, y.f, born[d][Peer(n)])' /\ d \in Dialled
      <4>1. \A d \in Conns : \A y \in On(d, n)' : y \in On(d, n) \/ (y = Data(g) /\ d = c)
        BY <1>2, <2>1, <2>3, <3>a DEF Adds
      <4>2. Data(g).f = g
        BY ItemTypes
      <4>3. Of(n, g, born[c][Peer(n)])'
        BY <3>1, <3>2, <3>3 DEF Of
      <4> QED
        BY <3>1, <4>1, <4>2, <4>3
    <3>5. /\ tx'[Peer(n)] = made'[Peer(n)] + 1 /\ tx'[Peer(n)] >= tx[Peer(n)]
          /\ rx'[Peer(n)].inst \in {0, 1} /\ life'[Peer(n)] = life[Peer(n)]
          /\ \A f \in sendbuf'[Peer(n)] : f \in sendbuf[Peer(n)] \/ f = g
      BY <1>2, <1>3, <2>1, <2>3, <3>1, <3>2, <3>a DEF Same
    <3>6. \A f \in sendbuf'[Peer(n)] : f \in sendbuf[Peer(n)] \/ Of(n, f, life[Peer(n)])'
      BY <3>3, <3>5
    <3> HIDE DEF h
    <3> QED
      BY <1>1, <1>2, <3>1, <3>2, <3>4, <3>5, <3>6, NumberedKept
  <2> QED
    BY <1>2, <2>2, <2>3
<1>13. ASSUME NEW m \in Nodes, NEW c \in Conns, Receive(m, c) PROVE Numbered(n)'
  <2>1. PICK g : g = Head(wire[c][m]).f
    OBVIOUS
  <2>2. PICK st : st = Adopted(m, c)
    OBVIOUS
  <2>3. /\ <<m, c>> \in open /\ g \in AnyFrame /\ st \in RxStates
    BY <1>13, <2>1, <2>2, ReceivedFrame
  <2>4. /\ \/ Delivered(m, c, g, st) \/ Dropped(m, c, g, st)
           \/ Kept(m, c, g, st) \/ Flushed(m, c, g, st)
        /\ \A k \in Nodes \ {m} : Same(k)
        /\ UNCHANGED <<life, born, open, made, acked>>
        /\ \A k \in Nodes : \/ tx'[k] = tx[k] /\ sendbuf'[k] = sendbuf[k]
                            \/ /\ k = m /\ Restarted(m, c)
                               /\ tx'[k] = 1 /\ sendbuf'[k] = {}
    BY <1>13, <2>1, <2>2, Received
  <2>5. \A d \in Conns : \A y \in On(d, n)' : y \in On(d, n) \/ y.kind = "ack"
    <3>1. \A d \in Conns, k \in Nodes : \A y \in On(d, k)' :
              \/ y \in On(d, k)
              \/ y = Ack(Head(wire[c][m]).f.seq) /\ d = c /\ k = Peer(m) /\ <<k, d>> \in open
      BY <1>13, ReceivedAnswer
    <3>2. \A s : Ack(s).kind = "ack"
      BY DEF Ack
    <3> QED
      BY <3>1, <3>2
  <2>6. CASE m = n
    BY <1>2, <1>4, <1>5, <2>4, <2>5, <2>6 DEF Same
  <2>7. CASE m = Peer(n)
    <3>1. life[n] = 1 /\ rx[Peer(n)].inst \in {0, 1}
      BY <1>5, <2>4
    <3>2. ~Restarted(m, c) /\ st.inst = 1
      BY <2>2, <2>3, <2>7, <3>1, NeverResyncs
    <3>3. rx'[m].inst = st.inst
      BY <2>3, <2>4 DEF Delivered, Dropped, Kept, Flushed, RxStates
    <3> QED
      BY <1>2, <1>4, <2>4, <2>5, <2>7, <3>2, <3>3
  <2> QED
    BY <1>2, <2>6, <2>7
<1>14. ASSUME NEW m \in Nodes, NEW c \in Conns, DropStale(m, c) PROVE Numbered(n)'
  <2>1. /\ EndsStay /\ \A k \in Nodes : Quiet(k) /\ Same(k)
        /\ \A d \in Conns, k \in Nodes : \A y \in On(d, k)' :
              y \in On(d, k) \/ y = Ack(Head(wire[c][m]).f.seq)
    <3>1. /\ EndsStay /\ \A k \in Nodes : Quiet(k) /\ Same(k)
          /\ \A d \in Conns, k \in Nodes : \A y \in On(d, k)' :
                \/ y \in On(d, k)
                \/ y = Ack(Head(wire[c][m]).f.seq) /\ d = c /\ k = Peer(m) /\ <<k, d>> \in open
      BY <1>14, DropStaleGives
    <3> QED
      BY <3>1
  <2>2. \A d \in Conns : \A y \in On(d, n)' : y \in On(d, n) \/ y.kind = "ack"
    BY <2>1 DEF Ack
  <2> QED
    BY <1>2, <1>4, <1>5, <2>1, <2>2 DEF Quiet, Same, EndsStay
<1>15. ASSUME NEW m \in Nodes, NEW c \in Conns, TakeAck(m, c) PROVE Numbered(n)'
  <2>1. /\ EndsStay /\ \A k \in Nodes : Same(k) /\ tx'[k] = tx[k] /\ made'[k] = made[k]
        /\ \A k \in Nodes : sendbuf'[k] \subseteq sendbuf[k]
        /\ \A d \in Conns, k \in Nodes : On(d, k)' \subseteq On(d, k)
    BY <1>15, TakeAckGives DEF Quiet
  <2> QED
    BY <1>2, <1>4, <1>5, <2>1 DEF Same, EndsStay
<1>16. ASSUME NEW m \in Nodes, NEW c \in Conns, DrainNext(m, c) PROVE Numbered(n)'
  <2>1. /\ EndsStay /\ \A k \in Nodes : Quiet(k) /\ rx'[k] = rx[k]
        /\ \A d \in Conns, k \in Nodes : On(d, k)' = On(d, k)
    BY <1>16, DrainNextGives DEF Same
  <2> QED
    BY <1>2, <1>4, <1>5, <2>1 DEF Quiet, EndsStay
<1>17. ASSUME NEW m \in Nodes, NEW c \in Conns, DrainDone(m, c) PROVE Numbered(n)'
  <2>1. /\ EndsStay /\ \A k \in Nodes : Quiet(k) /\ rx'[k].inst = rx[k].inst
    BY <1>17, DrainDoneGives DEF Same
  <2>2. \A d \in Conns : \A y \in On(d, n)' : y \in On(d, n) \/ y.kind = "ack"
    <3>1. \A d \in Conns, k \in Nodes : \A y \in On(d, k)' :
              \/ y \in On(d, k)
              \/ y = Ack(loop[m][c].ack) /\ d = c /\ k = Peer(m) /\ <<k, d>> \in open
      BY <1>17, DrainDoneGives
    <3>2. \A s : Ack(s).kind = "ack"
      BY DEF Ack
    <3> QED
      BY <3>1, <3>2
  <2> QED
    BY <1>2, <1>4, <1>5, <2>1, <2>2 DEF Quiet, EndsStay
<1>18. CASE UNCHANGED vars
  BY <1>18 DEF vars, links, sender, receiver, Numbered, Of, On
<1> QED
  BY <1>6, <1>7, <1>8, <1>9, <1>10, <1>11, <1>12, <1>13, <1>14, <1>15, <1>16, <1>17, <1>18
  DEF Next, ReadLoop

-----------------------------------------------------------------------------
(* What happens to a receiver that has not restarted: it acts itself, or its *)
(* peer moves on, in the same life or to the next one.                       *)

Moves(n) == \/ life'[Peer(n)] = life[Peer(n)] /\ tx'[Peer(n)] >= tx[Peer(n)]
            \/ life'[Peer(n)] = life[Peer(n)] + 1

LEMMA StepKinds ==
  ASSUME Types, DialledInTurn, NEW n \in Nodes, Numbered(n), [Next]_vars, life'[n] = 1
  PROVE  /\ life[n] = 1 /\ Moves(n)
         /\ \A c \in Dialled : c \in Dialled' /\ born'[c] = born[c]
         /\ \/ Same(n) \/ GapAges(n)
            \/ \E c \in Conns : Receive(n, c) \/ DrainNext(n, c) \/ DrainDone(n, c)
<1>1. Peer(n) \in Nodes /\ n # Peer(n) /\ \A m \in Nodes : m = n \/ m = Peer(n)
  BY Peers
<1>2. /\ life[n] \in Nat \ {0} /\ life[Peer(n)] \in Nat /\ tx[Peer(n)] \in Nat \ {0}
      /\ made[Peer(n)] \in Nat
  BY <1>1 DEF Types
<1> DEFINE Acts == \E c \in Conns : Receive(n, c) \/ DrainNext(n, c) \/ DrainDone(n, c)
           Kept0 == \A c \in Dialled : c \in Dialled' /\ born'[c] = born[c]
           Goal == life[n] = 1 /\ Moves(n) /\ Kept0 /\ (Same(n) \/ GapAges(n) \/ Acts)
<1>3. born' = born => Kept0
  BY DEF Dialled
<1>4. life' = life /\ Quiet(Peer(n)) => life[n] = 1 /\ Moves(n)
  BY <1>2 DEF Moves, Quiet
<1>5. CASE Connect
  <2>1. life' = life /\ Kept0 /\ Quiet(Peer(n)) /\ Same(n)
    BY <1>1, <1>5, ConnectGives
  <2> QED
    BY <1>4, <2>1
<1>6. ASSUME NEW c \in Conns, Fail(c) PROVE Goal
  <2>1. life' = life /\ born' = born /\ Quiet(Peer(n)) /\ Same(n)
    BY <1>1, <1>6, FailGives
  <2> QED
    BY <1>3, <1>4, <2>1
<1>7. ASSUME NEW m \in Nodes, NEW c \in Conns, CloseEnd(m, c) PROVE Goal
  <2>1. life' = life /\ born' = born /\ Quiet(Peer(n)) /\ Same(n)
    BY <1>1, <1>7, CloseEndGives
  <2> QED
    BY <1>3, <1>4, <2>1
<1>8. ASSUME NEW m \in Nodes, Restart(m) PROVE Goal
  <2>1. CASE m = n
    <3>1. life'[n] = life[n] + 1
      BY <1>8, <2>1, RestartGives
    <3> QED
      BY <1>2, <3>1
  <2>2. CASE m = Peer(n)
    <3>1. /\ life'[n] = life[n] /\ Same(n) /\ life'[Peer(n)] = life[Peer(n)] + 1
          /\ born' = born
      BY <1>1, <1>8, <2>2, RestartGives
    <3> QED
      BY <1>3, <3>1 DEF Moves
  <2> QED
    BY <1>1, <2>1, <2>2
<1>9. ASSUME NEW m \in Nodes, RetxLoop(m) PROVE Goal
  <2>1. life' = life /\ born' = born /\ Quiet(Peer(n)) /\ Same(n)
    BY <1>1, <1>9, RetransmitGives DEF RetxLoop, Ends, EndsStay
  <2> QED
    BY <1>3, <1>4, <2>1
<1>10. ASSUME NEW m \in Nodes, GapAges(m) PROVE Goal
  <2>1. life' = life /\ born' = born /\ Quiet(Peer(n)) /\ (Same(n) \/ m = n)
    BY <1>1, <1>10, GapAgesGives DEF EndsStay
  <2> QED
    BY <1>3, <1>4, <1>10, <2>1
<1>11. ASSUME NEW m \in Nodes, NEW c \in Conns, Send(m, c) \/ SendCut(m, c) PROVE Goal
  <2>1. /\ life' = life /\ born' = born /\ Same(n)
        /\ tx'[Peer(n)] = tx[Peer(n)] \/ tx'[Peer(n)] = tx[Peer(n)] + 1
    BY <1>1, <1>11, SendGives DEF EndsStay, Quiet
  <2> QED
    BY <1>2, <1>3, <2>1 DEF Moves
<1>12. ASSUME NEW m \in Nodes, NEW c \in Conns, Receive(m, c) PROVE Goal
  <2>1. PICK g : g = Head(wire[c][m]).f
    OBVIOUS
  <2>2. PICK st : st = Adopted(m, c)
    OBVIOUS
  <2>3. /\ \A k \in Nodes \ {m} : Same(k)
        /\ UNCHANGED <<life, born, open, made, acked>>
        /\ \A k \in Nodes : \/ tx'[k] = tx[k] /\ sendbuf'[k] = sendbuf[k]
                            \/ /\ k = m /\ Restarted(m, c)
                               /\ tx'[k] = 1 /\ sendbuf'[k] = {}
    BY <1>12, <2>1, <2>2, Received
  <2>4. m = n \/ Same(n)
    BY <2>3
  <2>5. tx'[Peer(n)] = tx[Peer(n)]
    <3>1. CASE m = n
      BY <1>1, <2>3, <3>1
    <3>2. CASE m = Peer(n)
      <4>1. life[n] = 1 /\ rx[Peer(n)].inst \in {0, 1} /\ <<m, c>> \in open
        BY <1>12, <2>3 DEF Numbered, Receive, Reads
      <4>2. ~Restarted(m, c)
        BY <3>2, <4>1, NeverResyncs
      <4> QED
        BY <1>1, <2>3, <4>2
    <3> QED
      BY <1>1, <3>1, <3>2
  <2> QED
    BY <1>2, <1>3, <1>12, <2>3, <2>4, <2>5 DEF Moves
<1>13. ASSUME NEW m \in Nodes, NEW c \in Conns, DropStale(m, c) PROVE Goal
  <2>1. life' = life /\ born' = born /\ Quiet(Peer(n)) /\ Same(n)
    BY <1>1, <1>13, DropStaleGives DEF EndsStay
  <2> QED
    BY <1>3, <1>4, <2>1
<1>14. ASSUME NEW m \in Nodes, NEW c \in Conns, TakeAck(m, c) PROVE Goal
  <2>1. life' = life /\ born' = born /\ tx'[Peer(n)] = tx[Peer(n)] /\ Same(n)
    BY <1>1, <1>14, TakeAckGives DEF EndsStay, Quiet
  <2> QED
    BY <1>2, <1>3, <2>1 DEF Moves
<1>15. ASSUME NEW m \in Nodes, NEW c \in Conns, DrainNext(m, c) PROVE Goal
  <2>1. life' = life /\ born' = born /\ Quiet(Peer(n)) /\ (Same(n) \/ m = n)
    BY <1>1, <1>15, DrainNextGives DEF EndsStay
  <2> QED
    BY <1>3, <1>4, <1>15, <2>1
<1>16. ASSUME NEW m \in Nodes, NEW c \in Conns, DrainDone(m, c) PROVE Goal
  <2>1. life' = life /\ born' = born /\ Quiet(Peer(n)) /\ (Same(n) \/ m = n)
    BY <1>1, <1>16, DrainDoneGives DEF EndsStay
  <2> QED
    BY <1>3, <1>4, <1>16, <2>1
<1>17. CASE UNCHANGED vars
  <2>1. life' = life /\ born' = born /\ Quiet(Peer(n)) /\ Same(n)
    BY <1>17 DEF vars, links, sender, receiver, Quiet, Same
  <2> QED
    BY <1>3, <1>4, <2>1
<1> QED
  BY <1>5, <1>6, <1>7, <1>8, <1>9, <1>10, <1>11, <1>12, <1>13, <1>14, <1>15, <1>16, <1>17
  DEF Next, ReadLoop

LEMMA CalmBefore ==
  ASSUME Types, DialledInTurn, NEW n \in Nodes, Numbered(n), [Next]_vars, Calm(n)'
  PROVE  Calm(n) /\ life'[n] = 1
<1>1. life'[n] = 1 /\ (n \in Slow => life'[Peer(n)] = 1)
  BY DEF Calm
<1>2. life[n] = 1 /\ Moves(n)
  BY <1>1, StepKinds
<1>3. life[Peer(n)] \in Nat \ {0}
  BY Peers DEF Types
<1> QED
  BY <1>1, <1>2, <1>3 DEF Calm, Moves

(* A frame of the instance under way, or the first of a later one: then      *)
(* nothing of the earlier instance is held or under way any more.            *)
Going(n, c, st) ==
  /\ rx[n].inst # 0 /\ st.inst = rx[n].inst /\ st.epoch = rx[n].epoch
  /\ st.expected = rx[n].expected /\ st.since = rx[n].since /\ Bufs(n, c) = buffers[n]
Fresh(n, c, st) ==
  /\ rx[n].inst < st.inst /\ (rx[n].inst = 0 => delivered[n] = <<>>)
  /\ st.expected = 1 /\ st.since = c /\ Bufs(n, c)[st.epoch + 1] = {} /\ Busy(n) = {}

LEMMA Adopts ==
  ASSUME Types, DialledInTurn, NEW n \in Nodes, Numbered(n), Receiving(n), Calm(n),
         NEW c \in Conns, Receive(n, c),
         NEW f, f = Head(wire[c][n]).f, NEW st, st = Adopted(n, c)
  PROVE  /\ Going(n, c, st) \/ Fresh(n, c, st)
         /\ Of(n, f, st.inst) /\ st.inst # 0
         /\ st.since \in Dialled /\ born[st.since][Peer(n)] = st.inst
<1>1. /\ <<n, c>> \in open /\ c \in Dialled /\ Free(n) /\ f \in AnyFrame
      /\ Head(wire[c][n]) \in On(c, n) /\ Head(wire[c][n]).kind = "data"
      /\ st \in RxStates /\ st.inst = Instance(n, c) /\ st.inst \in Nat \ {0} /\ ~Stale(n, c)
  BY ReceivedFrame
<1>2. st.inst = born[c][Peer(n)] /\ c \in Nat
  BY <1>1 DEF Instance, Conns
<1>3. Of(n, f, st.inst)
  BY <1>1, <1>2 DEF Numbered, Calm
<1>4. /\ rx[n] \in RxStates /\ buffers[n] \in Seq(SUBSET AnyFrame)
      /\ Len(buffers[n]) = rx[n].epoch + 1
  BY DEF Types
<1>5. Peer(n) \in Nodes /\ rx[n].inst \in Nat /\ rx[n].since \in Nat /\ rx[n].epoch \in Nat
  BY <1>4, Peers DEF RxStates
<1>6. CASE Restarted(n, c)
  <2>1. rx[n].inst # 0 /\ rx[n].inst # st.inst /\ c > rx[n].since
    BY <1>1, <1>2, <1>5, <1>6 DEF Restarted, Stale
  <2>2. rx[n].since \in Dialled /\ born[rx[n].since][Peer(n)] = rx[n].inst
    BY <2>1 DEF Receiving
  <2>3. rx[n].inst < st.inst
    <3>1. rx[n].inst <= st.inst
      BY <1>1, <1>2, <1>5, <2>1, <2>2 DEF DialledInTurn
    <3> QED
      BY <1>1, <1>5, <2>1, <3>1
  <2>4. n \notin Slow
    <3> SUFFICES ASSUME n \in Slow PROVE FALSE
      OBVIOUS
    <3>1. life[Peer(n)] = 1
      BY DEF Calm
    <3> QED
      BY <1>1, <1>2, <1>5, <2>1, <2>2, <3>1, OneLife
  <2>5. Busy(n) = {}
    BY <1>1, <2>4 DEF Free
  <2>6. st = Resynced(n, c)
    BY <1>6 DEF Adopted, Restarted
  <2>7. st.expected = 1 /\ st.since = c /\ st.epoch = rx[n].epoch + 1
    BY <1>4, <2>6 DEF Resynced, RxStates
  <2>8. Bufs(n, c)[st.epoch + 1] = {}
    <3>1. Bufs(n, c) = Append(buffers[n], {})
      BY <1>6 DEF Bufs
    <3> QED
      BY <1>4, <1>5, <2>7, <3>1
  <2>9. Fresh(n, c, st)
    BY <2>1, <2>3, <2>5, <2>7, <2>8 DEF Fresh
  <2> QED
    BY <1>1, <1>2, <1>3, <2>7, <2>9
<1>7. CASE rx[n].inst = 0
  <2>1. ~Restarted(n, c) /\ Bufs(n, c) = buffers[n]
    BY <1>7 DEF Restarted, Bufs
  <2>2. st = [rx[n] EXCEPT !.inst = Instance(n, c), !.since = c]
    BY <1>7, <2>1 DEF Adopted
  <2>3. st.expected = rx[n].expected /\ st.since = c /\ st.epoch = rx[n].epoch
    BY <1>4, <2>2 DEF RxStates
  <2>4. rx[n].expected = 1 /\ delivered[n] = <<>> /\ Buf(n) = {} /\ Busy(n) = {}
    BY <1>7 DEF Receiving
  <2>5. Fresh(n, c, st)
    BY <1>1, <1>7, <2>1, <2>3, <2>4 DEF Fresh, Buf
  <2> QED
    BY <1>1, <1>2, <1>3, <2>3, <2>5
<1>8. CASE ~Restarted(n, c) /\ rx[n].inst # 0
  <2>1. Bufs(n, c) = buffers[n] /\ st = rx[n]
    BY <1>8 DEF Bufs, Adopted
  <2> QED
    BY <1>1, <1>3, <1>8, <2>1 DEF Going, Receiving
<1> QED
  BY <1>6, <1>7, <1>8

(* The buffer a step of n itself leaves, and the numbers it is ordered by.   *)
LEMMA BufAfter ==
  ASSUME Types, DialledInTurn, NEW n \in Nodes, Numbered(n), Receiving(n), Calm(n),
         NEW c \in Conns, Receive(n, c),
         NEW f, f = Head(wire[c][n]).f, NEW st, st = Adopted(n, c)
  PROVE  /\ \A h \in Bufs(n, c)[st.epoch + 1] : h \in AnyFrame /\ h \in Buf(n) /\ Of(n, h, st.inst)
         /\ Delivered(n, c, f, st) \/ Dropped(n, c, f, st) => Buf(n)' = Bufs(n, c)[st.epoch + 1]
         /\ Kept(n, c, f, st) => Buf(n)' = Joined(Bufs(n, c)[st.epoch + 1], f)
         /\ Flushed(n, c, f, st) =>
              LET buf == With(n, c, f, st)[st.epoch + 1]
              IN  /\ Buf(n)' = buf \ {Least(buf)} /\ Least(buf) \in buf
                  /\ \A h \in buf : Least(buf).seq <= h.seq
         /\ With(n, c, f, st)[st.epoch + 1] = Joined(Bufs(n, c)[st.epoch + 1], f)
<1>1. /\ st \in RxStates /\ f \in AnyFrame /\ st.epoch \in Nat
      /\ <<n, c>> \in open
      /\ With(n, c, f, st)[st.epoch + 1] = Joined(Bufs(n, c)[st.epoch + 1], f)
      /\ Bufs(n, c)[st.epoch + 1] \subseteq AnyFrame
  BY ReceivedFrame DEF RxStates
<1> DEFINE buf == With(n, c, f, st)[st.epoch + 1]
<1>2. Least(buf) \in buf /\ \A h \in buf : Least(buf).seq <= h.seq
  BY ReceivedFrame
<1>3. /\ Bufs(n, c) \in Seq(SUBSET AnyFrame) /\ Len(Bufs(n, c)) = st.epoch + 1
  BY <1>1, AdoptedType
<1>4. With(n, c, f, st) \in Seq(SUBSET AnyFrame) /\ Len(With(n, c, f, st)) = st.epoch + 1
  BY <1>1, <1>3, WithType
<1>5. Going(n, c, st) \/ Fresh(n, c, st)
  BY Adopts
<1>6. \A h \in Bufs(n, c)[st.epoch + 1] : h \in AnyFrame /\ h \in Buf(n) /\ Of(n, h, st.inst)
  BY <1>1, <1>5 DEF Going, Fresh, Receiving, Buf
<1>7. Delivered(n, c, f, st) \/ Dropped(n, c, f, st) => Buf(n)' = Bufs(n, c)[st.epoch + 1]
  BY DEF Delivered, Dropped, Buf
<1>8. Kept(n, c, f, st) => Buf(n)' = buf
  <2>1. [st EXCEPT !.gap = "fresh"].epoch = st.epoch
    BY <1>1 DEF RxStates
  <2> QED
    BY <2>1 DEF Kept, Buf
<1>9. Flushed(n, c, f, st) => Buf(n)' = buf \ {Least(buf)}
  <2> HAVE Flushed(n, c, f, st)
  <2>1. [st EXCEPT !.gap = "none"].epoch = st.epoch
    BY <1>1 DEF RxStates
  <2>2. /\ buffers'[n] = [With(n, c, f, st) EXCEPT ![st.epoch + 1] = buf \ {Least(buf)}]
        /\ rx'[n] = [st EXCEPT !.gap = "none"]
    BY DEF Flushed
  <2> DEFINE left == buf \ {Least(buf)}
  <2>3. left \in SUBSET AnyFrame
    BY <1>1 DEF Joined
  <2> HIDE DEF left, buf
  <2>4. [With(n, c, f, st) EXCEPT ![st.epoch + 1] = left][st.epoch + 1] = left
    BY <1>1, <1>4, <2>3
  <2> QED
    BY <2>1, <2>2, <2>4 DEF Buf, left
<1> QED
  BY <1>1, <1>2, <1>6, <1>7, <1>8, <1>9

LEMMA StateAfter ==
  ASSUME Types, DialledInTurn, NEW n \in Nodes, NEW c \in Conns, Receive(n, c),
         NEW f, f = Head(wire[c][n]).f, NEW st, st = Adopted(n, c)
  PROVE  /\ rx'[n].inst = st.inst /\ rx'[n].since = st.since /\ rx'[n].epoch = st.epoch
         /\ rx'[n].expected = st.expected
<1>1. st \in RxStates
  BY ReceivedFrame
<1>2. \/ Delivered(n, c, f, st) \/ Dropped(n, c, f, st)
      \/ Kept(n, c, f, st) \/ Flushed(n, c, f, st)
  BY Received
<1>3. rx'[n] = st \/ rx'[n] = [st EXCEPT !.gap = "fresh"] \/ rx'[n] = [st EXCEPT !.gap = "none"]
  BY <1>2 DEF Delivered, Dropped, Kept, Flushed
<1> QED
  BY <1>1, <1>3 DEF RxStates

LEMMA BusyAfter ==
  ASSUME Types, DialledInTurn, NEW n \in Nodes, NEW c \in Conns, Receive(n, c),
         NEW f, f = Head(wire[c][n]).f, NEW st, st = Adopted(n, c)
  PROVE  /\ c \notin Busy(n)
         /\ Delivered(n, c, f, st) \/ Flushed(n, c, f, st) =>
              Busy(n)' = Busy(n) \cup {c} /\ loop'[n][c].epoch = st.epoch
         /\ Dropped(n, c, f, st) \/ Kept(n, c, f, st) => Busy(n)' = Busy(n)
         /\ \A d \in Busy(n) : d \in Conns /\ loop'[n][d] = loop[n][d]
<1>1. loop[n][c] = Idle /\ f \in AnyFrame /\ f.seq \in Nat /\ st \in RxStates
  <2>1. loop[n][c] = Idle /\ f \in AnyFrame /\ st \in RxStates
    BY ReceivedFrame
  <2> QED
    BY <2>1 DEF AnyFrame
<1>2. c \notin Busy(n)
  BY <1>1 DEF Busy
<1>3. ASSUME NEW g \in AnyFrame, NEW fl, Handed(n, c, g, f.seq, st, fl)
      PROVE  /\ Busy(n)' = Busy(n) \cup {c} /\ loop'[n][c].epoch = st.epoch
             /\ \A d \in Busy(n) : d \in Conns /\ loop'[n][d] = loop[n][d]
  <2>1. loop'[n][c].next = g.seq + 1 /\ g.seq \in Nat /\ loop'[n][c].epoch = st.epoch
        /\ \A d \in Conns \ {c} : loop'[n][d] = loop[n][d]
    BY <1>3 DEF Handed, AnyFrame
  <2>2. loop'[n][c] # Idle
    BY <2>1, Blanks
  <2> QED
    BY <1>2, <2>1, <2>2 DEF Busy
<1>4. Delivered(n, c, f, st) =>
             /\ Busy(n)' = Busy(n) \cup {c} /\ loop'[n][c].epoch = st.epoch
             /\ \A d \in Busy(n) : d \in Conns /\ loop'[n][d] = loop[n][d]
  BY <1>1, <1>3 DEF Delivered
<1>5. Flushed(n, c, f, st) =>
             /\ Busy(n)' = Busy(n) \cup {c} /\ loop'[n][c].epoch = st.epoch
             /\ \A d \in Busy(n) : d \in Conns /\ loop'[n][d] = loop[n][d]
  <2> DEFINE low == Least(With(n, c, f, st)[st.epoch + 1])
  <2>1. low \in AnyFrame
    BY ReceivedFrame
  <2>2. Flushed(n, c, f, st) => Handed(n, c, low, f.seq, st, TRUE)
    BY DEF Flushed
  <2> HIDE DEF low
  <2> QED
    BY <1>3, <2>1, <2>2
<1>6. Dropped(n, c, f, st) \/ Kept(n, c, f, st) =>
             Busy(n)' = Busy(n) /\ \A d \in Busy(n) : d \in Conns /\ loop'[n][d] = loop[n][d]
  BY DEF Dropped, Kept, Busy
<1>7. \/ Delivered(n, c, f, st) \/ Dropped(n, c, f, st)
      \/ Kept(n, c, f, st) \/ Flushed(n, c, f, st)
  BY Received
<1> QED
  BY <1>2, <1>4, <1>5, <1>6, <1>7

LEMMA ReceivingStep ==
  ASSUME Types, DialledInTurn, NEW n \in Nodes, Numbered(n), Receiving(n), [Next]_vars
  PROVE  Receiving(n)'
<1> SUFFICES ASSUME Calm(n)' PROVE Receiving(n)'
  BY DEF Receiving
<1>1. Types' /\ DialledInTurn'
  BY TypeStep
<1>2. Calm(n) /\ life'[n] = 1
  BY CalmBefore
<1>3. /\ Moves(n)
      /\ \A c \in Dialled : c \in Dialled' /\ born'[c] = born[c]
      /\ \/ Same(n) \/ GapAges(n)
         \/ \E c \in Conns : Receive(n, c) \/ DrainNext(n, c) \/ DrainDone(n, c)
  BY <1>2, StepKinds
<1>4. /\ rx[n] \in RxStates /\ Buf(n) \subseteq AnyFrame /\ rx[n].epoch \in Nat /\ rx[n].inst \in Nat
  <2>1. rx[n] \in RxStates /\ buffers[n] \in Seq(SUBSET AnyFrame)
        /\ Len(buffers[n]) = rx[n].epoch + 1
    BY DEF Types
  <2> QED
    BY <2>1 DEF RxStates, Buf
<1>5. rx[n].inst <= life[Peer(n)]
  <2>1. life[Peer(n)] \in Nat /\ Peer(n) \in Nodes
    BY Peers DEF Types
  <2>2. CASE rx[n].inst = 0
    BY <2>1, <2>2
  <2>3. CASE rx[n].inst # 0
    BY <1>2, <2>1, <2>3 DEF Receiving, DialledInTurn
  <2> QED
    BY <2>2, <2>3
(* Frames keep their numbers. *)
<1>6. ASSUME NEW f \in AnyFrame, NEW l \in Nat, l <= life[Peer(n)], Of(n, f, l) PROVE Of(n, f, l)'
  BY <1>1, <1>3, <1>6, OfStays DEF Moves
(* A step that leaves the instance alone and adds nothing to the buffer.     *)
<1>7. ASSUME rx'[n].inst = rx[n].inst, rx'[n].since = rx[n].since, rx'[n].epoch = rx[n].epoch,
             rx[n].inst = 0 => /\ rx'[n].expected = 1 /\ delivered'[n] = <<>>
                               /\ Buf(n)' = {} /\ Busy(n)' = {},
             \A c \in Busy(n)' : loop'[n][c].epoch = rx[n].epoch,
             Buf(n)' \subseteq Buf(n)
      PROVE  Receiving(n)'
  <2>1. rx[n].inst # 0 => rx[n].since \in Dialled' /\ born'[rx[n].since][Peer(n)] = rx[n].inst
    BY <1>2, <1>3 DEF Receiving
  <2>2. rx[n].inst = 0 => rx'[n].epoch = 0
    BY <1>2, <1>7 DEF Receiving
  <2>3. ASSUME NEW f \in Buf(n)' PROVE Of(n, f, rx[n].inst)'
    <3>1. \A l \in Nat : l = rx[n].inst => Of(n, f, l)'
      BY <1>2, <1>4, <1>5, <1>6, <1>7, <2>3 DEF Receiving
    <3>2. PICK l \in Nat : l = rx[n].inst
      BY <1>4
    <3>3. rx'[n].inst = l
      BY <1>7, <3>2
    <3> QED
      BY <3>1, <3>2, <3>3 DEF Of
  <2>4. \A f \in Buf(n)' : Of(n, f, rx[n].inst)'
    BY <2>3
  <2> QED
    BY <1>7, <2>1, <2>2, <2>4 DEF Receiving
<1>8. CASE Same(n)
  <2>1. rx'[n] = rx[n] /\ delivered'[n] = delivered[n] /\ Buf(n)' = Buf(n)
        /\ Busy(n)' = Busy(n) /\ loop'[n] = loop[n]
    BY <1>8 DEF Same, Buf, Busy
  <2> QED
    BY <1>2, <1>7, <2>1 DEF Receiving
<1>9. CASE GapAges(n)
  <2>1. /\ rx'[n].inst = rx[n].inst /\ rx'[n].since = rx[n].since /\ rx'[n].epoch = rx[n].epoch
        /\ rx'[n].expected = rx[n].expected /\ delivered'[n] = delivered[n]
        /\ buffers'[n] = buffers[n] /\ loop'[n] = loop[n]
    BY <1>9, GapAgesGives
  <2>2. Buf(n)' = Buf(n) /\ Busy(n)' = Busy(n)
    BY <2>1 DEF Buf, Busy
  <2> QED
    BY <1>2, <1>7, <2>1, <2>2 DEF Receiving
<1>10. ASSUME NEW c \in Conns, DrainNext(n, c) PROVE Receiving(n)'
  <2> DEFINE e == loop[n][c].epoch + 1
  <2>1. PICK f \in buffers[n][e] : buffers'[n] = [buffers[n] EXCEPT ![e] = @ \ {f}]
    <3>1. \E f \in buffers[n][loop[n][c].epoch + 1] :
              /\ f.seq = loop[n][c].next /\ f \in AnyFrame
              /\ delivered'[n] = Append(delivered[n], f)
              /\ buffers'[n] = [buffers[n] EXCEPT ![loop[n][c].epoch + 1] = @ \ {f}]
      BY <1>10, DrainNextGives
    <3> QED
      BY <3>1
  <2>2. /\ c \in Busy(n) /\ rx'[n] = rx[n]
        /\ loop'[n][c] = [loop[n][c] EXCEPT !.next = @ + 1]
        /\ \A d \in Conns \ {c} : loop'[n][d] = loop[n][d]
    BY <1>10, DrainNextGives
  <2>3. rx[n].inst # 0 /\ e = rx[n].epoch + 1
    BY <1>2, <2>2 DEF Receiving
  <2>4. Buf(n)' = Buf(n) \ {f}
    <3>1. e \in DOMAIN buffers[n]
      BY <1>4, <2>3 DEF Types
    <3> QED
      BY <2>1, <2>2, <2>3, <3>1 DEF Buf
  <2>5. loop'[n][c].epoch = loop[n][c].epoch
    BY <2>2 DEF Types, Deliveries
  <2>6. \A d \in Busy(n)' : loop'[n][d].epoch = rx[n].epoch
    BY <1>2, <2>2, <2>5 DEF Busy, Receiving
  <2> QED
    BY <1>7, <2>2, <2>3, <2>4, <2>6
<1>11. ASSUME NEW c \in Conns, DrainDone(n, c) PROVE Receiving(n)'
  <2>1. /\ c \in Busy(n) /\ rx'[n].inst = rx[n].inst /\ rx'[n].since = rx[n].since
        /\ rx'[n].epoch = rx[n].epoch /\ buffers'[n] = buffers[n]
        /\ loop'[n][c] = Idle /\ \A d \in Conns \ {c} : loop'[n][d] = loop[n][d]
    BY <1>11, DrainDoneGives
  <2>2. rx[n].inst # 0
    BY <1>2, <2>1 DEF Receiving
  <2>3. \A d \in Busy(n)' : loop'[n][d].epoch = rx[n].epoch
    BY <1>2, <2>1 DEF Busy, Receiving
  <2>4. Buf(n)' = Buf(n)
    BY <2>1 DEF Buf
  <2> QED
    BY <1>7, <2>1, <2>2, <2>3, <2>4
<1>12. ASSUME NEW c \in Conns, Receive(n, c) PROVE Receiving(n)'
  <2>1. PICK f : f = Head(wire[c][n]).f
    OBVIOUS
  <2>2. PICK st : st = Adopted(n, c)
    OBVIOUS
  <2>3. /\ rx'[n].inst = st.inst /\ rx'[n].since = st.since /\ rx'[n].epoch = st.epoch
    BY <1>12, <2>1, <2>2, StateAfter
  <2>4. /\ Going(n, c, st) \/ Fresh(n, c, st)
        /\ Of(n, f, st.inst) /\ st.inst # 0
        /\ st.since \in Dialled /\ born[st.since][Peer(n)] = st.inst
    BY <1>2, <1>12, <2>1, <2>2, Adopts
  <2>5. f \in AnyFrame /\ st.inst \in Nat
    BY <1>12, <2>1, <2>2, ReceivedFrame
  <2>6. st.inst <= life[Peer(n)]
    BY <2>4, Peers DEF DialledInTurn
  <2>7. \A h \in Buf(n)' : h \in AnyFrame /\ Of(n, h, st.inst)
    <3>1. \A h \in Bufs(n, c)[st.epoch + 1] : h \in AnyFrame /\ Of(n, h, st.inst)
      BY <1>2, <1>12, <2>1, <2>2, BufAfter
    <3>2. Buf(n)' \subseteq Bufs(n, c)[st.epoch + 1] \cup {f}
      <4>1. /\ Delivered(n, c, f, st) \/ Dropped(n, c, f, st) => Buf(n)' = Bufs(n, c)[st.epoch + 1]
            /\ Kept(n, c, f, st) => Buf(n)' = Joined(Bufs(n, c)[st.epoch + 1], f)
        BY <1>2, <1>12, <2>1, <2>2, BufAfter
      <4>3. Flushed(n, c, f, st) =>
               /\ Buf(n)' \subseteq With(n, c, f, st)[st.epoch + 1]
               /\ With(n, c, f, st)[st.epoch + 1] = Joined(Bufs(n, c)[st.epoch + 1], f)
        BY <1>2, <1>12, <2>1, <2>2, BufAfter
      <4>2. \/ Delivered(n, c, f, st) \/ Dropped(n, c, f, st)
            \/ Kept(n, c, f, st) \/ Flushed(n, c, f, st)
        BY <1>12, <2>1, <2>2, Received
      <4> QED
        BY <4>1, <4>2, <4>3 DEF Joined
    <3> QED
      BY <2>4, <2>5, <3>1, <3>2
  <2>8. \A h \in Buf(n)' : Of(n, h, rx[n].inst)'
    <3> SUFFICES ASSUME NEW h \in Buf(n)' PROVE Of(n, h, rx[n].inst)'
      OBVIOUS
    <3>1. PICK l \in Nat : l = st.inst
      BY <2>5
    <3>2. Of(n, h, l)'
      BY <1>6, <2>6, <2>7, <3>1
    <3> QED
      BY <2>3, <3>1, <3>2 DEF Of
  <2>9. \A d \in Busy(n)' : loop'[n][d].epoch = st.epoch
    <3>1. /\ Delivered(n, c, f, st) \/ Flushed(n, c, f, st) =>
              Busy(n)' = Busy(n) \cup {c} /\ loop'[n][c].epoch = st.epoch
          /\ Dropped(n, c, f, st) \/ Kept(n, c, f, st) => Busy(n)' = Busy(n)
          /\ \A d \in Busy(n) : d \in Conns /\ loop'[n][d] = loop[n][d]
      BY <1>12, <2>1, <2>2, BusyAfter
    <3>2. \/ Delivered(n, c, f, st) \/ Dropped(n, c, f, st)
          \/ Kept(n, c, f, st) \/ Flushed(n, c, f, st)
      BY <1>12, <2>1, <2>2, Received
    <3>3. \A d \in Busy(n) : loop[n][d].epoch = st.epoch
      BY <1>2, <2>4 DEF Going, Fresh, Receiving
    <3> QED
      BY <3>1, <3>2, <3>3
  <2>10. st.since \in Dialled' /\ born'[st.since][Peer(n)] = st.inst
    BY <1>3, <2>4
  <2> QED
    BY <2>3, <2>4, <2>8, <2>9, <2>10 DEF Receiving
<1> QED
  BY <1>3, <1>8, <1>9, <1>10, <1>11, <1>12

-----------------------------------------------------------------------------
(* The order of delivery *)

LEMMA Twins ==
  ASSUME NEW n, NEW l, NEW f \in AnyFrame, NEW h \in AnyFrame, Of(n, f, l), Of(n, h, l),
         f.seq = h.seq
  PROVE  f = h
<1>1. f.from = h.from /\ f.life = h.life /\ f.k = h.k
  BY DEF Of
<1> QED
  BY <1>1 DEF AnyFrame

LEMMA GivenTypes ==
  ASSUME Types, NEW n \in Nodes
  PROVE  Given(n) \subseteq AnyFrame /\ (delivered[n] = <<>> => Given(n) = {})
<1>1. delivered[n] \in Seq(AnyFrame)
  BY DEF Types
<1> QED
  BY <1>1 DEF Given

LEMMA BufTypes ==
  ASSUME Types, NEW n \in Nodes
  PROVE  Buf(n) \subseteq AnyFrame /\ Buf(n) \subseteq Held(n)
<1>1. /\ buffers[n] \in Seq(SUBSET AnyFrame) /\ Len(buffers[n]) = rx[n].epoch + 1
      /\ rx[n] \in RxStates
  BY DEF Types
<1>2. rx[n].epoch + 1 \in 1..Len(buffers[n])
  BY <1>1 DEF RxStates
<1> QED
  BY <1>1, <1>2 DEF Buf, Held

LEMMA Appended ==
  ASSUME Types, NEW n \in Nodes, NEW f \in AnyFrame, InOrder(n),
         \A g \in Given(n) : Before(g, f), delivered'[n] = Append(delivered[n], f)
  PROVE  InOrder(n)' /\ Given(n)' = Given(n) \cup {f}
<1> DEFINE s == delivered[n]
           t == delivered'[n]
<1>1. s \in Seq(AnyFrame) /\ t = Append(s, f)
  BY DEF Types
<1>2. /\ Len(s) \in Nat /\ Len(t) = Len(s) + 1 /\ t[Len(s) + 1] = f
      /\ \A i \in 1..Len(s) : t[i] = s[i]
  <2> HIDE DEF s, t
  <2> QED
    BY <1>1
<1>3. \A i \in 1..Len(s) : s[i] \in Given(n)
  BY DEF Given
<1>4. ASSUME NEW i \in 1..Len(t), NEW j \in 1..Len(t), i < j PROVE Before(t[i], t[j])
  <2>1. i \in 1..Len(s)
    BY <1>2, <1>4
  <2>2. CASE j \in 1..Len(s)
    BY <1>2, <1>4, <2>1, <2>2 DEF InOrder
  <2>3. CASE j = Len(s) + 1
    BY <1>2, <1>3, <2>1, <2>3
  <2> QED
    BY <1>2, <2>2, <2>3
<1>5. Given(n)' = Given(n) \cup {f}
  <2>1. Given(n)' = {t[i] : i \in 1..Len(t)} /\ Given(n) = {s[i] : i \in 1..Len(s)}
    BY DEF Given
  <2> HIDE DEF s, t
  <2> QED
    BY <1>2, <2>1
<1> QED
  BY <1>4, <1>5 DEF InOrder

LEMMA BeforeLess ==
  ASSUME NEW g \in AnyFrame, NEW l \in Nat, NEW x \in Nat, NEW y \in Nat, x <= y,
         Before(g, [life |-> l, k |-> x])
  PROVE  Before(g, [life |-> l, k |-> y])
  BY DEF Before, AnyFrame

LEMMA HandsOver ==
  ASSUME Types, NEW n \in Nodes, NEW c \in Conns, NEW f \in AnyFrame, NEW l \in Nat,
         InOrder(n), Of(n, f, l), delivered'[n] = Append(delivered[n], f), rx'[n].inst = l,
         \A g \in Given(n) : Before(g, [life |-> l, k |-> f.seq]),
         \A h \in Buf(n)' : h \in AnyFrame /\ f.seq < h.seq,
         Busy(n)' = {c}, loop'[n][c].next = f.seq + 1
  PROVE  Ordered(n)'
<1>1. Given(n) \subseteq AnyFrame /\ f.seq \in Nat /\ f.life = l /\ f.k = f.seq
  BY GivenTypes DEF AnyFrame, Of
<1>2. \A g \in Given(n) : Before(g, f)
  BY <1>1 DEF Before
<1>3. InOrder(n)' /\ Given(n)' = Given(n) \cup {f}
  BY <1>2, Appended
<1>4. \A g \in Given(n)' : Before(g, [life |-> l, k |-> f.seq + 1])
  <2>1. Before(f, [life |-> l, k |-> f.seq + 1])
    BY <1>1 DEF Before
  <2>2. \A g \in Given(n) : Before(g, [life |-> l, k |-> f.seq + 1])
    BY <1>1, BeforeLess
  <2> QED
    BY <1>3, <2>1, <2>2
<1>5. \A h \in Buf(n)' : f.seq + 1 <= h.seq
  BY <1>1 DEF AnyFrame
<1>6. \A d \in Busy(n)' : Ahead(n, loop[n][d].next)'
  BY <1>4, <1>5 DEF Ahead
<1>7. (\A d, e \in Busy(n) : d = e)' /\ Busy(n)' # {}
  OBVIOUS
<1> QED
  BY <1>3, <1>6, <1>7 DEF Ordered

(* A step that hands over nothing, with no delivery under way after it.      *)
LEMMA HandsNothing ==
  ASSUME NEW n \in Nodes, InOrder(n), delivered'[n] = delivered[n], Busy(n)' = {},
         \A g \in Given(n) : Before(g, [life |-> rx'[n].inst, k |-> rx'[n].expected]),
         \A h \in Buf(n)' : rx'[n].expected <= h.seq /\ h.seq # rx'[n].expected
  PROVE  Ordered(n)'
<1>1. InOrder(n)' /\ Given(n)' = Given(n)
  BY DEF InOrder, Given
<1>2. Ahead(n, rx[n].expected)'
  BY <1>1 DEF Ahead
<1> QED
  BY <1>1, <1>2 DEF Ordered

LEMMA OrderedStep ==
  ASSUME Types, DialledInTurn, NEW n \in Nodes, Numbered(n), Receiving(n), Ordered(n), [Next]_vars
  PROVE  Ordered(n)'
<1> SUFFICES ASSUME life'[n] = 1, n \notin Slow PROVE Ordered(n)'
  BY DEF Ordered
<1>1. Types' /\ DialledInTurn'
  BY TypeStep
<1>2. /\ life[n] = 1
      /\ \/ Same(n) \/ GapAges(n)
         \/ \E c \in Conns : Receive(n, c) \/ DrainNext(n, c) \/ DrainDone(n, c)
  BY StepKinds
<1>3. Calm(n)
  BY <1>2 DEF Calm
<1>4. InOrder(n)
  BY <1>2 DEF Ordered
<1>5. rx[n] \in RxStates /\ rx[n].inst \in Nat /\ rx[n].expected \in Nat
  BY DEF Types, RxStates
<1>6. Given(n) \subseteq AnyFrame /\ Buf(n) \subseteq AnyFrame
  BY GivenTypes, BufTypes
<1>7. ASSUME rx'[n].inst = rx[n].inst, rx'[n].expected = rx[n].expected,
             delivered'[n] = delivered[n], buffers'[n] = buffers[n], loop'[n] = loop[n],
             rx'[n].epoch = rx[n].epoch
      PROVE  Ordered(n)'
  <2>1. /\ InOrder(n)' = InOrder(n) /\ Given(n)' = Given(n) /\ Buf(n)' = Buf(n)
        /\ Busy(n)' = Busy(n)
    BY <1>7 DEF InOrder, Given, Buf, Busy
  <2>2. \A x : Ahead(n, x) => (Ahead(n, x))'
    BY <1>7, <2>1 DEF Ahead
  <2>3. \A c \in Busy(n)' : Ahead(n, loop[n][c].next)'
    <3> SUFFICES ASSUME NEW c \in Busy(n)' PROVE Ahead(n, loop[n][c].next)'
      OBVIOUS
    <3>1. Ahead(n, loop[n][c].next)
      BY <1>2, <2>1 DEF Ordered
    <3> QED
      BY <1>7, <2>1, <3>1 DEF Ahead
  <2>4. Busy(n) = {} => /\ Ahead(n, rx[n].expected)' /\ \A f \in Buf(n) : f.seq # rx[n].expected
    <3> HAVE Busy(n) = {}
    <3>1. Ahead(n, rx[n].expected) /\ \A f \in Buf(n) : f.seq # rx[n].expected
      BY <1>2 DEF Ordered
    <3> QED
      BY <1>7, <2>1, <3>1 DEF Ahead
  <2>5. \A c, d \in Busy(n) : c = d
    BY <1>2 DEF Ordered
  <2> QED
    BY <1>4, <1>7, <2>1, <2>3, <2>4, <2>5 DEF Ordered
<1>8. CASE Same(n)
  BY <1>7, <1>8 DEF Same
<1>9. CASE GapAges(n)
  BY <1>7, <1>9, GapAgesGives
<1>10. ASSUME NEW c \in Conns, DrainNext(n, c) PROVE Ordered(n)'
  <2>1. /\ c \in Busy(n) /\ rx'[n] = rx[n]
        /\ loop'[n][c] = [loop[n][c] EXCEPT !.next = @ + 1]
        /\ \A d \in Conns \ {c} : loop'[n][d] = loop[n][d]
    BY <1>10, DrainNextGives
  <2>2. \E f \in buffers[n][loop[n][c].epoch + 1] :
              /\ f.seq = loop[n][c].next /\ f \in AnyFrame
              /\ delivered'[n] = Append(delivered[n], f)
              /\ buffers'[n] = [buffers[n] EXCEPT ![loop[n][c].epoch + 1] = @ \ {f}]
    BY <1>10, DrainNextGives
  <2>3. loop[n][c].epoch = rx[n].epoch
    BY <1>3, <2>1 DEF Receiving
  <2>4. PICK f \in Buf(n) :
              /\ f.seq = loop[n][c].next /\ f \in AnyFrame
              /\ delivered'[n] = Append(delivered[n], f)
              /\ buffers'[n] = [buffers[n] EXCEPT ![rx[n].epoch + 1] = @ \ {f}]
    BY <2>2, <2>3 DEF Buf
  <2>5. Buf(n)' = Buf(n) \ {f}
    <3>1. rx[n].epoch + 1 \in DOMAIN buffers[n]
      BY <1>5 DEF Types, RxStates
    <3> QED
      BY <2>1, <2>4, <3>1 DEF Buf
  <2>6. Ahead(n, f.seq)
    BY <1>2, <2>1, <2>4 DEF Ordered
  <2>7. \A h \in Buf(n) : Of(n, h, rx[n].inst)
    BY <1>3 DEF Receiving
  <2>8. \A h \in Buf(n)' : h \in AnyFrame /\ f.seq < h.seq
    <3> SUFFICES ASSUME NEW h \in Buf(n)' PROVE h \in AnyFrame /\ f.seq < h.seq
      OBVIOUS
    <3>1. h \in Buf(n) /\ h # f /\ f.seq <= h.seq /\ h \in AnyFrame
      BY <1>6, <2>5, <2>6 DEF Ahead
    <3>2. f.seq # h.seq
      BY <2>4, <2>7, <3>1, Twins
    <3> QED
      BY <2>4, <3>1, <3>2 DEF AnyFrame
  <2>9. loop'[n][c].next = f.seq + 1
    BY <2>1, <2>4 DEF Types, Deliveries
  <2>10. Busy(n)' = {c}
    <3>1. \A d \in Busy(n) : d = c
      BY <1>2, <2>1 DEF Ordered
    <3>2. loop'[n][c] # Idle
      BY <2>4, <2>9, Blanks DEF AnyFrame
    <3> QED
      BY <2>1, <3>1, <3>2 DEF Busy
  <2> QED
    BY <1>4, <1>5, <2>1, <2>4, <2>6, <2>7, <2>8, <2>9, <2>10, HandsOver DEF Ahead
<1>11. ASSUME NEW c \in Conns, DrainDone(n, c) PROVE Ordered(n)'
  <2>1. /\ c \in Busy(n) /\ rx'[n].inst = rx[n].inst /\ rx'[n].epoch = rx[n].epoch
        /\ rx'[n].expected = loop[n][c].next
        /\ loop'[n][c] = Idle /\ \A d \in Conns \ {c} : loop'[n][d] = loop[n][d]
        /\ buffers'[n] = buffers[n] /\ delivered'[n] = delivered[n]
    BY <1>11, DrainDoneGives
  <2>2. \A f \in buffers[n][loop[n][c].epoch + 1] : f.seq # loop[n][c].next
    BY <1>11, DrainDoneGives
  <2>3. loop[n][c].epoch = rx[n].epoch
    BY <1>3, <2>1 DEF Receiving
  <2>4. Buf(n)' = Buf(n) /\ \A f \in Buf(n) : f.seq # loop[n][c].next
    BY <2>1, <2>2, <2>3 DEF Buf
  <2>5. Busy(n)' = {} /\ Ahead(n, loop[n][c].next)
    BY <1>2, <2>1 DEF Ordered, Busy
  <2> QED
    BY <1>4, <2>1, <2>4, <2>5, HandsNothing DEF Ahead
<1>12. ASSUME NEW c \in Conns, Receive(n, c) PROVE Ordered(n)'
  <2>1. PICK f : f = Head(wire[c][n]).f
    OBVIOUS
  <2>2. PICK st : st = Adopted(n, c)
    OBVIOUS
  <2>3. /\ rx'[n].inst = st.inst /\ rx'[n].expected = st.expected
    BY <1>12, <2>1, <2>2, StateAfter
  <2>4. /\ Going(n, c, st) \/ Fresh(n, c, st)
        /\ Of(n, f, st.inst)
    BY <1>3, <1>12, <2>1, <2>2, Adopts
  <2>5. f \in AnyFrame /\ st \in RxStates /\ Free(n)
    BY <1>12, <2>1, <2>2, ReceivedFrame
  <2>6. st.inst \in Nat /\ st.expected \in Nat /\ Busy(n) = {} /\ f.seq \in Nat
    BY <2>5 DEF RxStates, Free, AnyFrame
  <2>7. /\ Ahead(n, rx[n].expected) /\ \A g \in Buf(n) : g.seq # rx[n].expected
    BY <1>2, <2>6 DEF Ordered
  <2>8. \A g \in Given(n) : Before(g, [life |-> st.inst, k |-> st.expected])
    <3>1. CASE Going(n, c, st)
      BY <2>7, <3>1 DEF Going, Ahead
    <3>2. CASE Fresh(n, c, st)
      <4> SUFFICES ASSUME NEW g \in Given(n)
                   PROVE  Before(g, [life |-> st.inst, k |-> st.expected])
        OBVIOUS
      <4>1. g.life < st.inst
        <5>1. g.life <= rx[n].inst /\ g.life \in Nat
          BY <1>5, <1>6, <2>7 DEF Ahead, Before, AnyFrame
        <5> QED
          BY <1>5, <2>6, <3>2, <5>1 DEF Fresh
      <4> QED
        BY <4>1 DEF Before
    <3> QED
      BY <2>4, <3>1, <3>2
  <2>9. \A h \in Bufs(n, c)[st.epoch + 1] : /\ h \in AnyFrame /\ st.expected < h.seq
                                            /\ Of(n, h, st.inst)
    <3> SUFFICES ASSUME NEW h \in Bufs(n, c)[st.epoch + 1]
                 PROVE  h \in AnyFrame /\ st.expected < h.seq /\ Of(n, h, st.inst)
      OBVIOUS
    <3>1. h \in AnyFrame /\ h \in Buf(n) /\ Of(n, h, st.inst)
      BY <1>3, <1>12, <2>1, <2>2, BufAfter
    <3>2. rx[n].expected <= h.seq /\ h.seq # rx[n].expected /\ h.seq \in Nat
      BY <2>7, <3>1 DEF Ahead, AnyFrame
    <3>3. st.expected = rx[n].expected
      BY <2>4, <3>1 DEF Going, Fresh
    <3> QED
      BY <1>5, <3>1, <3>2, <3>3
  <2>10. CASE Delivered(n, c, f, st)
    <3>1. /\ f.seq = st.expected /\ delivered'[n] = Append(delivered[n], f)
          /\ loop'[n][c].next = f.seq + 1
      BY <2>10 DEF Delivered, Handed
    <3>2. Buf(n)' = Bufs(n, c)[st.epoch + 1]
      BY <1>3, <1>12, <2>1, <2>2, <2>10, BufAfter
    <3>3. Busy(n)' = {c}
      BY <1>12, <2>1, <2>2, <2>6, <2>10, BusyAfter
    <3> QED
      BY <1>4, <2>3, <2>4, <2>5, <2>6, <2>8, <2>9, <3>1, <3>2, <3>3, HandsOver
  <2>11. CASE Dropped(n, c, f, st)
    <3>1. Buf(n)' = Bufs(n, c)[st.epoch + 1]
      BY <1>3, <1>12, <2>1, <2>2, <2>11, BufAfter
    <3>2. Busy(n)' = {} /\ delivered'[n] = delivered[n]
      BY <1>12, <2>1, <2>2, <2>6, <2>11, BusyAfter DEF Dropped
    <3>3. \A h \in Buf(n)' : rx'[n].expected <= h.seq /\ h.seq # rx'[n].expected
      BY <2>3, <2>6, <2>9, <3>1 DEF AnyFrame
    <3> QED
      BY <1>4, <2>3, <2>8, <3>2, <3>3, HandsNothing
  <2>12. CASE Kept(n, c, f, st)
    <3>1. Buf(n)' = Joined(Bufs(n, c)[st.epoch + 1], f)
      BY <1>3, <1>12, <2>1, <2>2, <2>12, BufAfter
    <3>2. Busy(n)' = {} /\ delivered'[n] = delivered[n] /\ f.seq > st.expected
      BY <1>12, <2>1, <2>2, <2>6, <2>12, BusyAfter DEF Kept
    <3>3. \A h \in Buf(n)' : rx'[n].expected <= h.seq /\ h.seq # rx'[n].expected
      BY <2>3, <2>6, <2>9, <3>1, <3>2 DEF AnyFrame, Joined
    <3> QED
      BY <1>4, <2>3, <2>8, <3>2, <3>3, HandsNothing
  <2>13. CASE Flushed(n, c, f, st)
    <3> DEFINE buf == With(n, c, f, st)[st.epoch + 1]
               low == Least(buf)
    <3>1. /\ Buf(n)' = buf \ {low} /\ low \in buf /\ \A h \in buf : low.seq <= h.seq
      BY <1>3, <1>12, <2>1, <2>2, <2>13, BufAfter
    <3>2. buf = Joined(Bufs(n, c)[st.epoch + 1], f)
      BY <1>3, <1>12, <2>1, <2>2, BufAfter
    <3>3. /\ f.seq > st.expected /\ delivered'[n] = Append(delivered[n], low)
          /\ loop'[n][c].next = low.seq + 1
      BY <2>13 DEF Flushed, Handed
    <3>4. Busy(n)' = {c}
      BY <1>12, <2>1, <2>2, <2>6, <2>13, BusyAfter
    <3> HIDE DEF buf
    <3>5. \A h \in buf : h \in AnyFrame /\ st.expected < h.seq /\ Of(n, h, st.inst)
      BY <2>4, <2>5, <2>6, <2>9, <3>2, <3>3 DEF Joined
    <3>6. PICK g \in buf : g = low
      BY <3>1
    <3> HIDE DEF low
    <3>7. \A h \in Buf(n)' : h \in AnyFrame /\ g.seq < h.seq
      <4> SUFFICES ASSUME NEW h \in Buf(n)' PROVE h \in AnyFrame /\ g.seq < h.seq
        OBVIOUS
      <4>1. h \in buf /\ h # g /\ g.seq <= h.seq
        BY <3>1, <3>6
      <4>2. /\ h \in AnyFrame /\ g \in AnyFrame /\ Of(n, h, st.inst) /\ Of(n, g, st.inst)
        BY <3>5, <3>6, <4>1
      <4>3. g.seq # h.seq
        BY <4>1, <4>2, Twins
      <4> QED
        BY <4>1, <4>2, <4>3 DEF AnyFrame
    <3>8. g \in AnyFrame /\ g.seq \in Nat /\ st.expected <= g.seq /\ Of(n, g, st.inst)
      BY <2>6, <3>5, <3>6 DEF AnyFrame
    <3>9. \A h \in Given(n) : Before(h, [life |-> st.inst, k |-> g.seq])
      BY <1>6, <2>6, <2>8, <3>8, BeforeLess
    <3> QED
      BY <1>4, <2>3, <2>6, <3>3, <3>4, <3>6, <3>7, <3>8, <3>9, HandsOver
  <2> QED
    BY <1>12, <2>1, <2>2, <2>10, <2>11, <2>12, <2>13, Received
<1> QED
  BY <1>2, <1>8, <1>9, <1>10, <1>11, <1>12

-----------------------------------------------------------------------------
(* What has been taken: delivered, held, or given up.  Nothing leaves it     *)
(* while the receiver lives.                                                 *)

LEMMA RowsHeld ==
  ASSUME NEW n \in Nodes, NEW h, NEW e \in Nat, e \in 1..Len(buffers'[n]), h \in buffers'[n][e]
  PROVE  h \in Has(n)'
  BY DEF Has, Held

LEMMA BufsHold ==
  ASSUME Types, DialledInTurn, NEW n \in Nodes, NEW c \in Conns, <<n, c>> \in open,
         NEW h \in Held(n)
  PROVE  \E e \in 1..Len(Bufs(n, c)) : h \in Bufs(n, c)[e]
<1>1. buffers[n] \in Seq(SUBSET AnyFrame)
  BY DEF Types
<1>2. PICK e \in 1..Len(buffers[n]) : h \in buffers[n][e]
  BY DEF Held
<1>3. CASE Restarted(n, c)
  <2>1. Bufs(n, c) = Append(buffers[n], {})
    BY <1>3 DEF Bufs
  <2> QED
    BY <1>1, <1>2, <2>1
<1>4. CASE ~Restarted(n, c)
  BY <1>2, <1>4 DEF Bufs
<1> QED
  BY <1>3, <1>4

LEMMA ReceivedTaken ==
  ASSUME Types, DialledInTurn, NEW n \in Nodes, Numbered(n), Receiving(n), Calm(n),
         NEW c \in Conns, Receive(n, c),
         NEW f, f = Head(wire[c][n]).f, NEW st, st = Adopted(n, c)
  PROVE  /\ Has(n) \subseteq Has(n)'
         /\ Dropped(n, c, f, st) \/ f \in Has(n)'
<1>1. /\ <<n, c>> \in open /\ f \in AnyFrame /\ st \in RxStates /\ st.epoch \in Nat
  <2>1. <<n, c>> \in open /\ f \in AnyFrame /\ st \in RxStates
    BY ReceivedFrame
  <2> QED
    BY <2>1 DEF RxStates
<1>2. /\ Bufs(n, c) \in Seq(SUBSET AnyFrame) /\ Len(Bufs(n, c)) = st.epoch + 1
  BY <1>1, AdoptedType
<1>3. /\ With(n, c, f, st) \in Seq(SUBSET AnyFrame) /\ Len(With(n, c, f, st)) = st.epoch + 1
      /\ With(n, c, f, st)[st.epoch + 1] = Joined(Bufs(n, c)[st.epoch + 1], f)
      /\ \A e \in 1..st.epoch : With(n, c, f, st)[e] = Bufs(n, c)[e]
  BY <1>1, <1>2, WithType
<1>4. \A h \in Bufs(n, c)[st.epoch + 1] : h \in AnyFrame /\ Of(n, h, st.inst)
  BY BufAfter
<1>5. Of(n, f, st.inst)
  BY Adopts
<1>6. \A h \in Bufs(n, c)[st.epoch + 1] : h \in Joined(Bufs(n, c)[st.epoch + 1], f)
  <2> SUFFICES ASSUME NEW h \in Bufs(n, c)[st.epoch + 1]
               PROVE  h \in Joined(Bufs(n, c)[st.epoch + 1], f)
    OBVIOUS
  <2>1. CASE h.seq = f.seq
    <3>1. h = f
      BY <1>1, <1>4, <1>5, <2>1, Twins
    <3> QED
      BY <3>1 DEF Joined
  <2>2. CASE h.seq # f.seq
    BY <2>2 DEF Joined
  <2> QED
    BY <2>1, <2>2
<1>7. \A h \in Held(n) : \E e \in 1..(st.epoch + 1) :
         h \in Bufs(n, c)[e] /\ h \in With(n, c, f, st)[e]
  <2> SUFFICES ASSUME NEW h \in Held(n)
               PROVE  \E e \in 1..(st.epoch + 1) : h \in Bufs(n, c)[e] /\ h \in With(n, c, f, st)[e]
    OBVIOUS
  <2>1. PICK e \in 1..(st.epoch + 1) : h \in Bufs(n, c)[e]
    BY <1>1, <1>2, BufsHold
  <2>2. h \in With(n, c, f, st)[e]
    <3>1. CASE e = st.epoch + 1
      BY <1>3, <1>6, <2>1, <3>1
    <3>2. CASE e \in 1..st.epoch
      BY <1>3, <2>1, <3>2
    <3> QED
      BY <1>1, <3>1, <3>2
  <2> QED
    BY <2>1, <2>2
<1>8. f \in With(n, c, f, st)[st.epoch + 1]
  BY <1>3 DEF Joined
<1>9. ASSUME NEW g, delivered'[n] = Append(delivered[n], g), g \in AnyFrame
      PROVE  Given(n) \subseteq Has(n)' /\ g \in Has(n)'
  <2> DEFINE s == delivered[n]
             t == delivered'[n]
  <2>1. s \in Seq(AnyFrame) /\ t = Append(s, g)
    BY <1>9 DEF Types
  <2>2. /\ Len(s) \in Nat /\ Len(t) = Len(s) + 1 /\ t[Len(s) + 1] = g
        /\ \A i \in 1..Len(s) : t[i] = s[i]
    <3> HIDE DEF s, t
    <3> QED
      BY <1>9, <2>1
  <2>3. Given(n)' = {t[i] : i \in 1..Len(t)} /\ Given(n) = {s[i] : i \in 1..Len(s)}
    BY DEF Given
  <2>4. Given(n) \subseteq Given(n)' /\ g \in Given(n)'
    <3> HIDE DEF s, t
    <3> QED
      BY <2>2, <2>3
  <2> QED
    BY <2>4 DEF Has
<1>10. delivered'[n] = delivered[n] => Given(n) \subseteq Has(n)'
  BY DEF Given, Has
<1>11. CASE Delivered(n, c, f, st)
  <2>1. /\ buffers'[n] = Bufs(n, c) /\ gone'[n] = gone[n] /\ delivered'[n] = Append(delivered[n], f)
    BY <1>11 DEF Delivered, Handed
  <2>2. Held(n) \subseteq Has(n)'
    BY <1>1, <1>2, <1>7, <2>1, RowsHeld
  <2>3. gone[n] \subseteq Has(n)'
    BY <2>1 DEF Has
  <2> QED
    BY <1>1, <1>9, <2>1, <2>2, <2>3 DEF Has
<1>12. CASE Dropped(n, c, f, st)
  <2>1. /\ buffers'[n] = Bufs(n, c) /\ gone'[n] = gone[n] /\ delivered'[n] = delivered[n]
    BY <1>12 DEF Dropped
  <2>2. Held(n) \subseteq Has(n)'
    BY <1>1, <1>2, <1>7, <2>1, RowsHeld
  <2>3. gone[n] \subseteq Has(n)'
    BY <2>1 DEF Has
  <2> QED
    BY <1>10, <1>12, <2>1, <2>2, <2>3 DEF Has
<1>13. CASE Kept(n, c, f, st)
  <2>1. /\ buffers'[n] = With(n, c, f, st) /\ gone'[n] = gone[n] /\ delivered'[n] = delivered[n]
    BY <1>13 DEF Kept
  <2>2. Held(n) \subseteq Has(n)' /\ f \in Has(n)'
    BY <1>1, <1>3, <1>7, <1>8, <2>1, RowsHeld
  <2>3. gone[n] \subseteq Has(n)'
    BY <2>1 DEF Has
  <2> QED
    BY <1>10, <2>1, <2>2, <2>3 DEF Has
<1>14. CASE Flushed(n, c, f, st)
  <2> DEFINE buf == With(n, c, f, st)[st.epoch + 1]
             low == Least(buf)
             w == With(n, c, f, st)
             left == buf \ {low}
  <2>1. /\ buffers'[n] = [w EXCEPT ![st.epoch + 1] = left]
        /\ delivered'[n] = Append(delivered[n], low) /\ gone[n] \subseteq gone'[n]
    BY <1>14 DEF Flushed, Handed
  <2>2. low \in AnyFrame /\ low \in buf
    BY ReceivedFrame
  <2>3. left \in SUBSET AnyFrame
    BY <1>1, <1>3 DEF Joined
  <2>4. Given(n) \subseteq Has(n)' /\ low \in Has(n)'
    <3> HIDE DEF low
    <3> QED
      BY <1>9, <2>1, <2>2
  <2>5. /\ Len(buffers'[n]) = st.epoch + 1 /\ buffers'[n][st.epoch + 1] = left
        /\ \A e \in 1..st.epoch : buffers'[n][e] = w[e]
    <3>1. w \in Seq(SUBSET AnyFrame) /\ Len(w) = st.epoch + 1
      BY <1>3
    <3>2. st.epoch + 1 \in 1..Len(w)
      BY <1>1, <3>1
    <3> HIDE DEF w, left
    <3>3. /\ Len(buffers'[n]) = Len(w)
          /\ \A j \in 1..Len(w) : buffers'[n][j] = IF j = st.epoch + 1 THEN left ELSE w[j]
      BY <2>1, <2>3, <3>1, <3>2, ExceptSeq
    <3>4. /\ st.epoch + 1 \in 1..Len(w) /\ Len(w) = st.epoch + 1
          /\ \A e \in 1..st.epoch : e \in 1..Len(w) /\ e # st.epoch + 1
      BY <1>1, <3>1
    <3> QED
      BY <3>3, <3>4
  <2>6. \A e \in 1..(st.epoch + 1) : \A h \in w[e] : h \in Has(n)'
    <3> SUFFICES ASSUME NEW e \in 1..(st.epoch + 1), NEW h \in w[e] PROVE h \in Has(n)'
      OBVIOUS
    <3>1. CASE h = low
      BY <2>4, <3>1
    <3>2. CASE h # low
      <4>1. h \in buffers'[n][e] /\ e \in Nat /\ e \in 1..Len(buffers'[n])
        <5>1. CASE e = st.epoch + 1
          BY <1>1, <2>5, <3>2, <5>1
        <5>2. CASE e \in 1..st.epoch
          <6> HIDE DEF w, left
          <6> QED
            BY <1>1, <2>5, <5>2
        <5> QED
          BY <1>1, <5>1, <5>2
      <4> QED
        BY <4>1, RowsHeld
    <3> QED
      BY <3>1, <3>2
  <2>7. gone[n] \subseteq Has(n)'
    BY <2>1 DEF Has
  <2>8. Held(n) \subseteq Has(n)' /\ f \in Has(n)'
    BY <1>1, <1>7, <1>8, <2>6
  <2> QED
    BY <2>4, <2>7, <2>8 DEF Has
<1> QED
  BY <1>11, <1>12, <1>13, <1>14, Received

LEMMA DrainedTaken ==
  ASSUME Types, DialledInTurn, NEW n \in Nodes, NEW c \in Conns, DrainNext(n, c)
  PROVE  /\ Has(n) \subseteq Has(n)'
         /\ \E f \in buffers[n][loop[n][c].epoch + 1] :
              f.seq = loop[n][c].next /\ f \in AnyFrame /\ f \in Has(n)'
<1> DEFINE e == loop[n][c].epoch + 1
<1>1. \E f \in buffers[n][loop[n][c].epoch + 1] :
              /\ f.seq = loop[n][c].next /\ f \in AnyFrame
              /\ delivered'[n] = Append(delivered[n], f)
              /\ buffers'[n] = [buffers[n] EXCEPT ![loop[n][c].epoch + 1] = @ \ {f}]
  BY DrainNextGives
<1>2. gone'[n] = gone[n]
  BY DrainNextGives
<1>3. PICK f \in buffers[n][e] :
              /\ f.seq = loop[n][c].next /\ f \in AnyFrame
              /\ delivered'[n] = Append(delivered[n], f)
              /\ buffers'[n] = [buffers[n] EXCEPT ![e] = @ \ {f}]
  BY <1>1
<1> DEFINE s == delivered[n]
           t == delivered'[n]
<1>4. Given(n) \subseteq Given(n)' /\ f \in Given(n)'
  <2>1. s \in Seq(AnyFrame) /\ t = Append(s, f)
    BY <1>3 DEF Types
  <2>2. /\ Len(s) \in Nat /\ Len(t) = Len(s) + 1 /\ t[Len(s) + 1] = f
        /\ \A i \in 1..Len(s) : t[i] = s[i]
    <3> HIDE DEF s, t
    <3> QED
      BY <1>3, <2>1
  <2>3. Given(n)' = {t[i] : i \in 1..Len(t)} /\ Given(n) = {s[i] : i \in 1..Len(s)}
    BY DEF Given
  <2> HIDE DEF s, t
  <2> QED
    BY <2>2, <2>3
<1>5. Held(n) \subseteq Held(n)' \cup {f}
  <2>1. buffers[n] \in Seq(SUBSET AnyFrame) /\ buffers'[n] = [buffers[n] EXCEPT ![e] = @ \ {f}]
    BY <1>3 DEF Types
  <2>2. /\ Len(buffers'[n]) = Len(buffers[n])
        /\ \A i \in 1..Len(buffers[n]) : buffers[n][i] \subseteq buffers'[n][i] \cup {f}
    <3> HIDE DEF e
    <3> QED
      BY <2>1
  <2> QED
    BY <2>2 DEF Held
<1> QED
  BY <1>2, <1>3, <1>4, <1>5 DEF Has

-----------------------------------------------------------------------------
(* Acknowledged means taken *)

(* The sender at the other end: it adds the next number, or takes away.      *)
Advances(n) == /\ life'[Peer(n)] = life[Peer(n)] /\ tx'[Peer(n)] >= tx[Peer(n)]
               /\ \A f \in sendbuf'[Peer(n)] : f \in sendbuf[Peer(n)] \/ f.seq = tx[Peer(n)]

LEMMA PassedStays ==
  ASSUME Types, Types', NEW n \in Nodes, NEW x \in Nat, Advances(n), Has(n) \subseteq Has(n)'
  PROVE  /\ Passed(n, x) => Passed(n, x)'
         /\ Settled(n, x) => Settled(n, x)'
<1>1. tx[Peer(n)] \in Nat /\ tx'[Peer(n)] \in Nat
  BY Peers DEF Types
<1> QED
  BY <1>1 DEF Passed, Settled, Advances

(* A frame of the current life that is taken settles its number, and moves   *)
(* the cursor that had reached it.                                           *)
LEMMA NowTaken ==
  ASSUME Types, NEW n \in Nodes, life[n] = 1, Numbered(n), NEW f \in AnyFrame,
         Of(n, f, life[Peer(n)]), tx'[Peer(n)] = tx[Peer(n)],
         sendbuf'[Peer(n)] = sendbuf[Peer(n)], f \in Has(n)'
  PROVE  /\ Settled(n, f.seq)'
         /\ (\A g \in sendbuf[Peer(n)] : g.seq < f.seq => g \in Has(n)') => Passed(n, f.seq + 1)'
<1>1. /\ tx[Peer(n)] \in Nat /\ f.seq \in Nat /\ f.seq < tx[Peer(n)]
      /\ \A g \in sendbuf[Peer(n)] : g \in AnyFrame /\ g.seq \in Nat
  BY Peers DEF Types, AnyFrame, Of
<1>2. \A g \in sendbuf[Peer(n)] : g.seq = f.seq => g = f
  BY <1>1, Twins DEF Numbered
<1>3. Settled(n, f.seq)'
  BY <1>1, <1>2 DEF Settled
<1>4. (\A g \in sendbuf[Peer(n)] : g.seq < f.seq => g \in Has(n)') => Passed(n, f.seq + 1)'
  <2> HAVE \A g \in sendbuf[Peer(n)] : g.seq < f.seq => g \in Has(n)'
  <2>1. f.seq + 1 <= tx[Peer(n)]
    BY <1>1
  <2>2. \A g \in sendbuf[Peer(n)] : g.seq < f.seq + 1 => g.seq < f.seq \/ g.seq = f.seq
    BY <1>1
  <2>3. \A g \in sendbuf[Peer(n)] : g.seq < f.seq + 1 => g \in Has(n)'
    BY <1>2, <2>2
  <2> QED
    BY <2>1, <2>3 DEF Passed
<1> QED
  BY <1>3, <1>4

LEMMA CursorTypes ==
  ASSUME Types, NEW n \in Nodes
  PROVE  /\ Cursors(n) \subseteq Nat
         /\ \A c \in Conns : loop[n][c].ack \in Nat /\ loop[n][c].next \in Nat
         /\ \A c \in Conns, y \in Items : y.kind = "ack" => y.seq \in Nat
<1>1. \A c \in Conns : loop[n][c] \in Deliveries
  BY DEF Types
<1>2. rx[n] \in RxStates
  BY DEF Types
<1>3. \A c \in Conns : loop[n][c].ack \in Nat /\ loop[n][c].next \in Nat
  BY <1>1 DEF Deliveries
<1>4. Cursors(n) \subseteq Nat
  BY <1>2, <1>3 DEF Cursors, Busy, RxStates
<1> QED
  BY <1>3, <1>4, ItemTypes

LEMMA AccountedKept ==
  ASSUME Types, Types', DialledInTurn, DialledInTurn', NEW n \in Nodes, Calm(n), Accounted(n),
         Advances(n), Has(n) \subseteq Has(n)',
         rx'[n].inst = life[Peer(n)] =>
            \A x \in Cursors(n)' : \/ rx'[n].inst = rx[n].inst /\ x \in Cursors(n)
                                   \/ Passed(n, x)',
         \A c \in Conns : <<Peer(n), c>> \in open' =>
            /\ \A y \in On(c, Peer(n))' : y.kind = "ack" =>
                  y \in On(c, Peer(n)) \/ Settled(n, y.seq)'
            /\ c \in Busy(n)' =>
                  \/ <<Peer(n), c>> \in open /\ c \in Busy(n) /\ loop'[n][c].ack = loop[n][c].ack
                  \/ Settled(n, loop[n][c].ack)',
         Busy(n)' \subseteq Dialled', acked'[Peer(n)] \subseteq acked[Peer(n)] \cup Has(n)
  PROVE  Accounted(n)'
<1>1. /\ Cursors(n) \subseteq Nat /\ Peer(n) \in Nodes /\ life'[Peer(n)] = life[Peer(n)]
      /\ \A c \in Conns : loop[n][c].ack \in Nat
      /\ \A c \in Conns, y \in Items : y.kind = "ack" => y.seq \in Nat
  BY CursorTypes, Peers DEF Advances
<1>2. rx'[n].inst = life'[Peer(n)] => \A x \in Cursors(n)' : Passed(n, x)'
  <2> SUFFICES ASSUME rx'[n].inst = life[Peer(n)], NEW x \in Cursors(n)' PROVE Passed(n, x)'
    BY <1>1
  <2>1. CASE rx'[n].inst = rx[n].inst /\ x \in Cursors(n)
    <3>1. Passed(n, x) /\ x \in Nat
      BY <1>1, <2>1 DEF Accounted
    <3> QED
      BY <3>1, PassedStays
  <2> QED
    BY <2>1
<1>3. ASSUME NEW c \in Conns, <<Peer(n), c>> \in open', NEW y \in On(c, Peer(n))', y.kind = "ack"
      PROVE  Settled(n, y.seq)'
  <2>1. CASE y \in On(c, Peer(n))
    <3>1. <<Peer(n), c>> \in open
      BY <1>1, <2>1, OnDialled
    <3>2. y \in Items
      <4>1. wire[c][Peer(n)] \in Seq(Items)
        BY <1>1 DEF Types
      <4> QED
        BY <2>1, <4>1 DEF On
    <3>3. Settled(n, y.seq) /\ y.seq \in Nat
      BY <1>1, <1>3, <2>1, <3>1, <3>2 DEF Accounted
    <3> QED
      BY <3>3, PassedStays
  <2> QED
    BY <1>3, <2>1
<1>4. ASSUME NEW c \in Conns, <<Peer(n), c>> \in open', c \in Busy(n)'
      PROVE  Settled(n, loop[n][c].ack)'
  <2>1. CASE <<Peer(n), c>> \in open /\ c \in Busy(n) /\ loop'[n][c].ack = loop[n][c].ack
    <3>1. PICK s \in Nat : s = loop[n][c].ack
      BY <1>1
    <3>2. Settled(n, s)
      BY <2>1, <3>1 DEF Accounted
    <3>3. Settled(n, s)'
      BY <3>2, PassedStays
    <3> QED
      BY <2>1, <3>1, <3>3 DEF Settled
  <2> QED
    BY <1>4, <2>1
<1>5. Taken(n)'
  <2>1. acked[Peer(n)] \subseteq Has(n)
    BY DEF Accounted, Taken, Has
  <2>2. acked'[Peer(n)] \subseteq Has(n)'
    BY <2>1
  <2> QED
    BY <2>2 DEF Taken, Has
<1> QED
  BY <1>2, <1>3, <1>4, <1>5 DEF Accounted

(* n's own receiver stands still, and nothing new is acknowledged to its peer. *)
LEMMA AccountedStill ==
  ASSUME Types, Types', DialledInTurn, DialledInTurn', NEW n \in Nodes, Calm(n), Accounted(n),
         Advances(n), rx'[n].inst = rx[n].inst, rx'[n].expected = rx[n].expected,
         buffers'[n] = buffers[n], loop'[n] = loop[n], delivered'[n] = delivered[n],
         gone'[n] = gone[n],
         \A c \in Dialled : c \in Dialled',
         \A c \in Conns : <<Peer(n), c>> \in open' => <<Peer(n), c>> \in open \/ c \notin Dialled,
         \A c \in Conns : \A y \in On(c, Peer(n))' : y \in On(c, Peer(n)) \/ y.kind = "data",
         acked'[Peer(n)] \subseteq acked[Peer(n)] \cup Has(n)
  PROVE  Accounted(n)'
<1>1. /\ Has(n)' = Has(n) /\ Cursors(n)' = Cursors(n) /\ Busy(n)' = Busy(n)
  BY DEF Has, Given, Held, Cursors, Busy
<1>2. Busy(n) \subseteq Dialled
  BY DEF Accounted
<1>3. \A c \in Conns : <<Peer(n), c>> \in open' =>
            /\ \A y \in On(c, Peer(n))' : y.kind = "ack" => y \in On(c, Peer(n))
            /\ c \in Busy(n)' =>
                  <<Peer(n), c>> \in open /\ c \in Busy(n) /\ loop'[n][c].ack = loop[n][c].ack
  BY <1>1, <1>2
<1> QED
  BY <1>1, <1>2, <1>3, AccountedKept

LEMMA AccountedReceive ==
  ASSUME Types, Types', DialledInTurn, DialledInTurn', NEW n \in Nodes,
         Numbered(n), Receiving(n), Calm(n), Accounted(n), NEW c \in Conns, Receive(n, c)
  PROVE  Accounted(n)'
<1>1. PICK f : f = Head(wire[c][n]).f
  OBVIOUS
<1>2. PICK st : st = Adopted(n, c)
  OBVIOUS
<1>3. /\ <<n, c>> \in open /\ c \in Dialled /\ f \in AnyFrame /\ st \in RxStates
      /\ st.inst = Instance(n, c)
  BY <1>1, <1>2, ReceivedFrame
<1>4. /\ rx'[n].inst = st.inst /\ rx'[n].expected = st.expected
  BY <1>1, <1>2, StateAfter
<1>5. /\ Going(n, c, st) \/ Fresh(n, c, st)
      /\ Of(n, f, st.inst)
  BY <1>1, <1>2, Adopts
<1>6. /\ UNCHANGED <<life, born, open, made, acked>>
      /\ \A m \in Nodes : \/ tx'[m] = tx[m] /\ sendbuf'[m] = sendbuf[m]
                          \/ m = n /\ Restarted(n, c) /\ tx'[m] = 1 /\ sendbuf'[m] = {}
  BY <1>1, <1>2, Received
<1>7. Peer(n) \in Nodes /\ Peer(n) # n /\ Peer(Peer(n)) = n
  BY Peers
<1>8. tx'[Peer(n)] = tx[Peer(n)] /\ sendbuf'[Peer(n)] = sendbuf[Peer(n)]
  BY <1>6, <1>7
<1>9. Advances(n)
  BY <1>6, <1>7, <1>8 DEF Advances, Types
<1>10. Has(n) \subseteq Has(n)' /\ (Dropped(n, c, f, st) \/ f \in Has(n)')
  BY <1>1, <1>2, ReceivedTaken
<1>11. /\ st.expected \in Nat /\ st.inst \in Nat /\ f.seq \in Nat /\ life[n] = 1
       /\ tx[Peer(n)] \in Nat \ {0}
       /\ \A g \in sendbuf[Peer(n)] : g \in AnyFrame /\ g.seq \in Nat \ {0}
  BY <1>3, <1>7 DEF RxStates, AnyFrame, Calm, Types
(* The counter the frame is judged by. *)
<1>12. st.inst = life[Peer(n)] => Passed(n, st.expected)
  <2>1. CASE Going(n, c, st)
    BY <2>1 DEF Going, Accounted, Cursors
  <2>2. CASE Fresh(n, c, st)
    BY <1>11, <2>2 DEF Fresh, Passed
  <2> QED
    BY <1>5, <2>1, <2>2
<1>13. st.inst = life[Peer(n)] => Passed(n, st.expected)'
  BY <1>9, <1>10, <1>11, <1>12, PassedStays
(* The frame's own number. *)
<1>14. st.inst = life[Peer(n)] => Settled(n, f.seq)'
  <2> HAVE st.inst = life[Peer(n)]
  <2>1. CASE f \in Has(n)'
    BY <1>3, <1>5, <1>8, <1>11, <2>1, NowTaken
  <2>2. CASE Dropped(n, c, f, st)
    <3>1. f.seq < st.expected
      BY <2>2 DEF Dropped
    <3>2. f.seq < tx[Peer(n)]
      BY <1>5 DEF Of
    <3>3. \A g \in sendbuf[Peer(n)] : g.seq = f.seq => g \in Has(n)
      BY <1>12, <3>1 DEF Passed
    <3>4. Settled(n, f.seq)
      BY <3>2, <3>3 DEF Settled
    <3> QED
      BY <1>9, <1>10, <1>11, <3>4, PassedStays
  <2> QED
    BY <1>10, <2>1, <2>2
<1>15. <<Peer(n), c>> \in open => st.inst = life[Peer(n)]
  BY <1>3, <1>7 DEF DialledInTurn, Instance
<1>16. /\ c \notin Busy(n)
       /\ Delivered(n, c, f, st) \/ Flushed(n, c, f, st) => Busy(n)' = Busy(n) \cup {c}
       /\ Dropped(n, c, f, st) \/ Kept(n, c, f, st) => Busy(n)' = Busy(n)
       /\ \A d \in Busy(n) : d \in Conns /\ loop'[n][d] = loop[n][d]
  BY <1>1, <1>2, BusyAfter
<1>17. \/ Delivered(n, c, f, st) \/ Dropped(n, c, f, st)
       \/ Kept(n, c, f, st) \/ Flushed(n, c, f, st)
  BY <1>1, <1>2, Received
<1>18. c \in Busy(n)' => /\ loop'[n][c].ack = f.seq
                         /\ st.inst = life[Peer(n)] => Passed(n, loop[n][c].next)'
  <2> HAVE c \in Busy(n)'
  <2>1. CASE Delivered(n, c, f, st)
    <3>1. f.seq = st.expected /\ loop'[n][c].ack = f.seq /\ loop'[n][c].next = f.seq + 1
      BY <2>1 DEF Delivered, Handed
    <3>2. f \in Has(n)'
      <4>1. ~Dropped(n, c, f, st)
        BY <1>11, <3>1 DEF Dropped
      <4> QED
        BY <1>10, <4>1
    <3>3. ASSUME st.inst = life[Peer(n)] PROVE Passed(n, f.seq + 1)'
      <4>1. \A g \in sendbuf[Peer(n)] : g.seq < f.seq => g \in Has(n)'
        BY <1>10, <1>12, <3>1, <3>3 DEF Passed
      <4> QED
        BY <1>3, <1>5, <1>8, <1>11, <3>2, <3>3, <4>1, NowTaken
    <3> QED
      BY <3>1, <3>3 DEF Passed
  <2>2. CASE Flushed(n, c, f, st)
    <3> DEFINE buf == With(n, c, f, st)[st.epoch + 1]
               low == Least(buf)
    <3>1. /\ f.seq > st.expected /\ loop'[n][c].ack = f.seq /\ loop'[n][c].next = low.seq + 1
          /\ delivered'[n] = Append(delivered[n], low)
          /\ gone'[n] = gone[n] \cup {g \in sendbuf[Peer(n)] :
                                        g.seq \in st.expected..(low.seq - 1)}
      BY <2>2 DEF Flushed, Handed
    <3>2. low \in buf /\ low \in AnyFrame /\ buf = Joined(Bufs(n, c)[st.epoch + 1], f)
      <4>1. low \in buf /\ low \in AnyFrame
        BY <1>1, <1>2, ReceivedFrame
      <4>2. buf = Joined(Bufs(n, c)[st.epoch + 1], f)
        BY <1>1, <1>2, BufAfter
      <4> QED
        BY <4>1, <4>2
    <3>3. Of(n, low, st.inst)
      <4>1. \A h \in Bufs(n, c)[st.epoch + 1] : Of(n, h, st.inst)
        BY <1>1, <1>2, BufAfter
      <4> QED
        BY <1>5, <3>2, <4>1 DEF Joined
    <3> HIDE DEF low, buf
    <3>4. PICK g \in AnyFrame : g = low
      BY <3>2
    <3>5. g \in Has(n)'
      <4>1. delivered[n] \in Seq(AnyFrame) /\ delivered'[n] = Append(delivered[n], g)
        BY <3>1, <3>4 DEF Types
      <4>2. delivered'[n][Len(delivered'[n])] = g /\ Len(delivered'[n]) \in 1..Len(delivered'[n])
        BY <4>1
      <4> QED
        BY <4>2 DEF Has, Given
    <3>6. ASSUME st.inst = life[Peer(n)] PROVE Passed(n, g.seq + 1)'
      <4>1. g.seq \in Nat
        BY DEF AnyFrame
      <4>2. \A h \in sendbuf[Peer(n)] : h.seq < g.seq => h \in Has(n)'
        <5> SUFFICES ASSUME NEW h \in sendbuf[Peer(n)], h.seq < g.seq PROVE h \in Has(n)'
          OBVIOUS
        <5>1. CASE h.seq < st.expected
          BY <1>10, <1>12, <3>6, <5>1 DEF Passed
        <5>2. CASE h.seq >= st.expected
          <6>1. h.seq \in st.expected..(low.seq - 1)
            BY <1>11, <3>4, <4>1, <5>2
          <6> QED
            BY <3>1, <6>1 DEF Has
        <5> QED
          BY <1>11, <5>1, <5>2
      <4> QED
        BY <1>8, <1>11, <3>3, <3>4, <3>5, <3>6, <4>2, NowTaken
    <3> QED
      BY <3>1, <3>4, <3>6 DEF Passed
  <2>3. CASE Dropped(n, c, f, st) \/ Kept(n, c, f, st)
    BY <1>16, <2>3
  <2> QED
    BY <1>17, <2>1, <2>2, <2>3
<1>19. rx'[n].inst = life[Peer(n)] =>
            \A x \in Cursors(n)' : \/ rx'[n].inst = rx[n].inst /\ x \in Cursors(n)
                                   \/ Passed(n, x)'
  <2> SUFFICES ASSUME st.inst = life[Peer(n)], NEW x \in Cursors(n)'
               PROVE  (rx'[n].inst = rx[n].inst /\ x \in Cursors(n)) \/ Passed(n, x)'
    BY <1>4
  <2>1. CASE x = st.expected
    BY <1>13, <2>1
  <2>2. CASE \E d \in Busy(n)' : x = loop'[n][d].next
    <3>1. PICK d \in Busy(n)' : x = loop'[n][d].next
      BY <2>2
    <3>2. CASE d = c
      BY <1>18, <3>1, <3>2 DEF Passed
    <3>3. CASE d # c
      <4>1. d \in Busy(n) /\ loop'[n][d] = loop[n][d]
        BY <1>16, <1>17, <3>1, <3>3
      <4>2. rx[n].inst = st.inst
        BY <1>5, <4>1 DEF Going, Fresh
      <4> QED
        BY <1>4, <3>1, <4>1, <4>2 DEF Cursors
    <3> QED
      BY <3>2, <3>3
  <2> QED
    BY <1>4, <2>1, <2>2 DEF Cursors
<1>20. \A d \in Conns : \A y \in On(d, Peer(n))' :
          y \in On(d, Peer(n)) \/ (y = Ack(f.seq) /\ d = c /\ <<Peer(n), c>> \in open)
  <2>1. \A d \in Conns, m \in Nodes : \A y \in On(d, m)' :
            \/ y \in On(d, m)
            \/ y = Ack(Head(wire[c][n]).f.seq) /\ d = c /\ m = Peer(n) /\ <<m, d>> \in open
    BY ReceivedAnswer
  <2> QED
    BY <1>1, <1>7, <2>1
<1>21. \A d \in Conns : <<Peer(n), d>> \in open' =>
            /\ \A y \in On(d, Peer(n))' : y.kind = "ack" =>
                  y \in On(d, Peer(n)) \/ Settled(n, y.seq)'
            /\ d \in Busy(n)' =>
                  \/ <<Peer(n), d>> \in open /\ d \in Busy(n) /\ loop'[n][d].ack = loop[n][d].ack
                  \/ Settled(n, loop[n][d].ack)'
  <2> SUFFICES ASSUME NEW d \in Conns, <<Peer(n), d>> \in open'
               PROVE  /\ \A y \in On(d, Peer(n))' : y.kind = "ack" =>
                            y \in On(d, Peer(n)) \/ Settled(n, y.seq)'
                      /\ d \in Busy(n)' =>
                            \/ <<Peer(n), d>> \in open /\ d \in Busy(n)
                               /\ loop'[n][d].ack = loop[n][d].ack
                            \/ Settled(n, loop[n][d].ack)'
    OBVIOUS
  <2>1. <<Peer(n), d>> \in open
    BY <1>6
  <2>2. ASSUME NEW y \in On(d, Peer(n))', y \notin On(d, Peer(n)) PROVE Settled(n, y.seq)'
    <3>1. y.seq = f.seq
      BY <1>11, <1>20, <2>2, ItemTypes
    <3> QED
      BY <1>14, <1>15, <1>20, <2>2, <3>1 DEF Settled
  <2>3. CASE d = c
    <3>1. d \in Busy(n)' => Settled(n, loop[n][d].ack)'
      BY <1>14, <1>15, <1>18, <2>1, <2>3 DEF Settled
    <3> QED
      BY <2>2, <3>1
  <2>4. CASE d # c
    <3>1. d \in Busy(n)' => d \in Busy(n) /\ loop'[n][d] = loop[n][d]
      BY <1>16, <1>17, <2>4
    <3> QED
      BY <2>1, <2>2, <3>1
  <2> QED
    BY <2>3, <2>4
<1>22. Busy(n)' \subseteq Dialled' /\ acked'[Peer(n)] = acked[Peer(n)]
  <2>1. Dialled' = Dialled /\ Busy(n) \subseteq Dialled
    BY <1>6 DEF Dialled, Accounted
  <2> QED
    BY <1>3, <1>6, <1>16, <1>17, <2>1
<1> QED
  BY <1>9, <1>10, <1>19, <1>21, <1>22, AccountedKept

LEMMA AccountedDrain ==
  ASSUME Types, Types', DialledInTurn, DialledInTurn', NEW n \in Nodes,
         Numbered(n), Receiving(n), Calm(n), Accounted(n), NEW c \in Conns,
         DrainNext(n, c) \/ DrainDone(n, c)
  PROVE  Accounted(n)'
<1>1. Peer(n) \in Nodes /\ Peer(n) # n /\ Peer(Peer(n)) = n
  BY Peers
<1>2. /\ EndsStay /\ \A m \in Nodes : Quiet(m)
      /\ c \in Busy(n) /\ rx'[n].inst = rx[n].inst
      /\ \A d \in Conns \ {c} : loop'[n][d] = loop[n][d]
  BY DrainNextGives, DrainDoneGives
<1>3. Advances(n) /\ acked'[Peer(n)] = acked[Peer(n)]
  <2>1. Quiet(Peer(n)) /\ life'[Peer(n)] = life[Peer(n)] /\ tx[Peer(n)] \in Nat
    BY <1>1, <1>2 DEF EndsStay, Types
  <2> QED
    BY <2>1 DEF Advances, Quiet
<1>4. Busy(n)' \subseteq Busy(n) /\ Busy(n) \subseteq Dialled /\ Dialled' = Dialled /\ Busy(n) \subseteq Conns
  <2>1. Dialled' = Dialled
    BY <1>2 DEF Dialled, EndsStay
  <2>2. Busy(n) \subseteq Dialled
    BY DEF Accounted
  <2>3. Busy(n)' \subseteq Busy(n) /\ Busy(n) \subseteq Conns
    BY <1>2 DEF Busy
  <2> QED
    BY <2>1, <2>2, <2>3
<1>5. Busy(n)' \subseteq Dialled'
  BY <1>4
<1>6. loop[n][c] \in Deliveries /\ loop[n][c].ack \in Nat /\ loop[n][c].next \in Nat
      /\ life[n] = 1 /\ rx[n] \in RxStates /\ loop[n][c].epoch = rx[n].epoch
  <2>1. loop[n][c] \in Deliveries /\ rx[n] \in RxStates
    BY DEF Types
  <2>2. loop[n][c].ack \in Nat /\ loop[n][c].next \in Nat
    BY <2>1 DEF Deliveries
  <2>3. life[n] = 1 /\ loop[n][c].epoch = rx[n].epoch
    BY <1>2 DEF Calm, Receiving
  <2> QED
    BY <2>1, <2>2, <2>3
<1>7. CASE DrainNext(n, c)
  <2>1. Has(n) \subseteq Has(n)'
    BY <1>7, DrainedTaken
  <2>2. PICK f \in buffers[n][loop[n][c].epoch + 1] :
              f.seq = loop[n][c].next /\ f \in AnyFrame /\ f \in Has(n)'
    BY <1>7, DrainedTaken
  <2>3. /\ loop'[n][c] = [loop[n][c] EXCEPT !.next = @ + 1] /\ rx'[n] = rx[n]
        /\ \A d \in Conns, m \in Nodes : On(d, m)' = On(d, m)
    BY <1>7, DrainNextGives
  <2>4. loop'[n][c].next = f.seq + 1 /\ loop'[n][c].ack = loop[n][c].ack
    BY <1>6, <2>2, <2>3 DEF Deliveries
  <2>5. Of(n, f, rx[n].inst)
    BY <1>6, <2>2 DEF Receiving, Buf
  <2>6. rx[n].inst = life[Peer(n)] => Passed(n, f.seq + 1)'
    <3> HAVE rx[n].inst = life[Peer(n)]
    <3>1. Passed(n, loop[n][c].next)
      BY <1>2 DEF Accounted, Cursors
    <3>2. \A g \in sendbuf[Peer(n)] : g.seq < f.seq => g \in Has(n)'
      BY <2>1, <2>2, <3>1 DEF Passed
    <3> QED
      BY <1>1, <1>2, <1>6, <2>2, <2>5, <3>2, NowTaken DEF Quiet
  <2>7. rx'[n].inst = life[Peer(n)] =>
            \A x \in Cursors(n)' : \/ rx'[n].inst = rx[n].inst /\ x \in Cursors(n)
                                   \/ Passed(n, x)'
    <3> SUFFICES ASSUME rx[n].inst = life[Peer(n)], NEW x \in Cursors(n)'
                 PROVE  x \in Cursors(n) \/ Passed(n, x)'
      BY <1>2
    <3>1. CASE x = f.seq + 1
      BY <2>6, <3>1
    <3>2. CASE x # f.seq + 1
      <4>1. CASE x = rx'[n].expected
        BY <2>3, <4>1 DEF Cursors
      <4>2. CASE x # rx'[n].expected
        <5>1. PICK d \in Busy(n)' : x = loop'[n][d].next
          BY <4>2 DEF Cursors
        <5>2. d \in Busy(n) /\ d \in Conns \ {c}
          BY <1>4, <2>4, <3>2, <5>1
        <5>3. x = loop[n][d].next
          BY <1>2, <5>1, <5>2
        <5> QED
          BY <5>2, <5>3 DEF Cursors
      <4> QED
        BY <4>1, <4>2
    <3> QED
      BY <3>1, <3>2
  <2>8. \A d \in Conns : <<Peer(n), d>> \in open' =>
            /\ \A y \in On(d, Peer(n))' : y.kind = "ack" =>
                  y \in On(d, Peer(n)) \/ Settled(n, y.seq)'
            /\ d \in Busy(n)' =>
                  \/ <<Peer(n), d>> \in open /\ d \in Busy(n) /\ loop'[n][d].ack = loop[n][d].ack
                  \/ Settled(n, loop[n][d].ack)'
    <3>1. \A d \in Conns : loop'[n][d].ack = loop[n][d].ack
      BY <1>2, <2>4
    <3> QED
      BY <1>1, <1>2, <1>4, <2>3, <3>1 DEF EndsStay
  <2> QED
    BY <1>3, <1>5, <2>1, <2>7, <2>8, AccountedKept
<1>8. CASE DrainDone(n, c)
  <2>1. /\ rx'[n].expected = loop[n][c].next
        /\ loop'[n][c] = Idle
        /\ buffers'[n] = buffers[n] /\ delivered'[n] = delivered[n] /\ gone'[n] = gone[n]
    BY <1>8, DrainDoneGives
  <2>2. Has(n)' = Has(n)
    BY <2>1 DEF Has, Given, Held
  <2>3. rx'[n].inst = life[Peer(n)] =>
            \A x \in Cursors(n)' : \/ rx'[n].inst = rx[n].inst /\ x \in Cursors(n)
                                   \/ Passed(n, x)'
    <3>1. c \notin Busy(n)'
      BY <2>1 DEF Busy
    <3> QED
      BY <1>2, <1>4, <2>1, <3>1 DEF Cursors
  <2>4. \A d \in Conns, m \in Nodes : \A y \in On(d, m)' :
              \/ y \in On(d, m)
              \/ y = Ack(loop[n][c].ack) /\ d = c /\ m = Peer(n) /\ <<m, d>> \in open
    BY <1>8, DrainDoneGives
  <2>5. PICK s \in Nat : s = loop[n][c].ack
    BY <1>6
  <2>6. <<Peer(n), c>> \in open => Settled(n, s)'
    <3> HAVE <<Peer(n), c>> \in open
    <3>1. Settled(n, s)
      BY <1>2, <2>5 DEF Accounted
    <3> QED
      BY <1>3, <2>2, <3>1, PassedStays
  <2>7. \A d \in Conns : <<Peer(n), d>> \in open' =>
            /\ \A y \in On(d, Peer(n))' : y.kind = "ack" =>
                  y \in On(d, Peer(n)) \/ Settled(n, y.seq)'
            /\ d \in Busy(n)' =>
                  \/ <<Peer(n), d>> \in open /\ d \in Busy(n) /\ loop'[n][d].ack = loop[n][d].ack
                  \/ Settled(n, loop[n][d].ack)'
    <3> SUFFICES ASSUME NEW d \in Conns, <<Peer(n), d>> \in open'
                 PROVE  /\ \A y \in On(d, Peer(n))' : y.kind = "ack" =>
                              y \in On(d, Peer(n)) \/ Settled(n, y.seq)'
                        /\ d \in Busy(n)' => /\ <<Peer(n), d>> \in open /\ d \in Busy(n)
                                             /\ loop'[n][d].ack = loop[n][d].ack
      OBVIOUS
    <3>1. ASSUME NEW y \in On(d, Peer(n))', y \notin On(d, Peer(n)) PROVE Settled(n, y.seq)'
      <4>1. y = Ack(s) /\ d = c /\ <<Peer(n), c>> \in open
        BY <1>1, <2>4, <2>5, <3>1
      <4>2. y.seq = s
        BY <4>1, ItemTypes
      <4> QED
        BY <2>6, <4>1, <4>2 DEF Settled
    <3>2. d \in Busy(n)' => d # c
      BY <2>1 DEF Busy
    <3> QED
      BY <1>2, <1>4, <3>1, <3>2 DEF EndsStay
  <2> QED
    BY <1>3, <1>5, <2>2, <2>3, <2>7, AccountedKept
<1> QED
  BY <1>7, <1>8

LEMMA AccountedStep ==
  ASSUME Types, DialledInTurn, NEW n \in Nodes, Numbered(n), Receiving(n), Accounted(n), [Next]_vars
  PROVE  Accounted(n)'
<1> SUFFICES ASSUME Calm(n)' PROVE Accounted(n)'
  BY DEF Accounted
<1>1. Types' /\ DialledInTurn'
  BY TypeStep
<1>2. Calm(n) /\ life'[n] = 1 /\ life[n] = 1
  BY CalmBefore DEF Calm
<1>3. Peer(n) \in Nodes /\ Peer(n) # n /\ Peer(Peer(n)) = n /\ \A m \in Nodes : m = n \/ m = Peer(n)
  BY Peers
<1>4. tx[Peer(n)] \in Nat
  BY <1>3 DEF Types
<1>5. Dialled' = Dialled \/ born' # born
  BY DEF Dialled
(* A step that leaves both peers' counters alone. *)
<1>6. ASSUME Same(n), Quiet(Peer(n)), life' = life, open' \subseteq open, born' = born,
             \A c \in Conns : \A y \in On(c, Peer(n))' : y \in On(c, Peer(n)) \/ y.kind = "data"
      PROVE  Accounted(n)'
  <2>1. Advances(n) /\ acked'[Peer(n)] = acked[Peer(n)]
    BY <1>4, <1>6 DEF Advances, Quiet
  <2> QED
    BY <1>1, <1>2, <1>5, <1>6, <2>1, AccountedStill DEF Same
<1>7. CASE Connect
  <2>1. /\ life' = life /\ Quiet(Peer(n)) /\ Same(n)
        /\ \A c \in Dialled : c \in Dialled'
        /\ \A c \in Conns, m \in Nodes : On(c, m)' = On(c, m)
        /\ \A c \in Conns, m \in Nodes :
               <<m, c>> \in open' => <<m, c>> \in open \/ (wire'[c][m] = <<>> /\ c \notin Dialled)
    BY <1>3, <1>7, ConnectGives
  <2>2. Advances(n) /\ acked'[Peer(n)] = acked[Peer(n)]
    BY <1>4, <2>1 DEF Advances, Quiet
  <2>3. /\ \A c \in Conns : <<Peer(n), c>> \in open' => <<Peer(n), c>> \in open \/ c \notin Dialled
        /\ \A c \in Conns : \A y \in On(c, Peer(n))' : y \in On(c, Peer(n))
    BY <1>3, <2>1
  <2> QED
    BY <1>1, <1>2, <2>1, <2>2, <2>3, AccountedStill DEF Same
<1>8. ASSUME NEW c \in Conns, Fail(c) PROVE Accounted(n)'
  BY <1>3, <1>6, <1>8, FailGives
<1>9. ASSUME NEW m \in Nodes, NEW c \in Conns, CloseEnd(m, c) PROVE Accounted(n)'
  BY <1>3, <1>6, <1>9, CloseEndGives
<1>10. ASSUME NEW m \in Nodes, Restart(m) PROVE Accounted(n)'
  <2>1. m = Peer(n)
    <3>1. m = n => life'[n] = life[n] + 1
      BY <1>10, RestartGives
    <3> QED
      BY <1>2, <1>3, <3>1
  <2>2. /\ Same(n) /\ life'[Peer(n)] = life[Peer(n)] + 1 /\ acked'[Peer(n)] = {} /\ born' = born
        /\ \A d \in Conns : <<Peer(n), d>> \notin open'
    BY <1>3, <1>10, <2>1, RestartGives
  <2>3. rx'[n].inst # life'[Peer(n)]
    <3>1. rx[n].inst \in Nat /\ life[Peer(n)] \in Nat /\ rx[n].inst <= life[Peer(n)]
      <4>1. rx[n].inst \in Nat /\ life[Peer(n)] \in Nat \ {0}
        BY <1>3 DEF Types, RxStates
      <4>2. rx[n].inst # 0 => rx[n].inst <= life[Peer(n)]
        BY <1>2, <1>3 DEF Receiving, DialledInTurn
      <4> QED
        BY <4>1, <4>2
    <3> QED
      BY <2>2, <3>1 DEF Same
  <2>4. Busy(n)' \subseteq Dialled' /\ Taken(n)'
    BY <1>2, <1>5, <2>2 DEF Same, Busy, Accounted, Taken
  <2> QED
    BY <2>2, <2>3, <2>4 DEF Accounted
<1>11. ASSUME NEW m \in Nodes, RetxLoop(m) PROVE Accounted(n)'
  <2>1. PICK c \in Conns, f \in sendbuf[m] : Retransmit(m, c, f)
    BY <1>11 DEF RetxLoop, Ends
  <2>2. /\ EndsStay /\ \A k \in Nodes : Quiet(k) /\ Same(k)
        /\ Adds(c, Peer(m), Data(f)) /\ f \in AnyFrame
    BY <2>1, RetransmitGives
  <2>3. \A d \in Conns : \A y \in On(d, Peer(n))' : y \in On(d, Peer(n)) \/ y.kind = "data"
    <3>1. Data(f).kind = "data"
      BY DEF Data
    <3> QED
      BY <1>3, <2>2, <3>1 DEF Adds
  <2> QED
    BY <1>3, <1>6, <2>2, <2>3 DEF EndsStay
<1>12. ASSUME NEW m \in Nodes, GapAges(m) PROVE Accounted(n)'
  <2>1. /\ EndsStay /\ Quiet(Peer(n))
        /\ rx'[n].inst = rx[n].inst /\ rx'[n].expected = rx[n].expected
        /\ buffers'[n] = buffers[n] /\ loop'[n] = loop[n]
        /\ delivered'[n] = delivered[n] /\ gone'[n] = gone[n]
        /\ \A d \in Conns : On(d, Peer(n))' = On(d, Peer(n))
    BY <1>3, <1>12, GapAgesGives DEF Same
  <2>2. Advances(n) /\ acked'[Peer(n)] = acked[Peer(n)]
    BY <1>4, <2>1 DEF Advances, Quiet, EndsStay
  <2> QED
    BY <1>1, <1>2, <1>5, <2>1, <2>2, AccountedStill DEF EndsStay
<1>13. ASSUME NEW m \in Nodes, NEW c \in Conns, Send(m, c) \/ SendCut(m, c) PROVE Accounted(n)'
  <2>1. /\ EndsStay /\ tx'[m] = tx[m] + 1
        /\ sendbuf'[m] \in {sendbuf[m], sendbuf[m] \cup {NextFrame(m)}}
        /\ acked'[m] = acked[m] /\ NextFrame(m) \in AnyFrame
        /\ \A k \in Nodes \ {m} : Quiet(k)
        /\ Same(n)
        /\ Adds(c, Peer(m), Data(NextFrame(m)))
    BY <1>13, SendGives
  <2>2. \A d \in Conns : \A y \in On(d, Peer(n))' : y \in On(d, Peer(n)) \/ y.kind = "data"
    <3>1. PICK g \in AnyFrame : g = NextFrame(m)
      BY <2>1
    <3>2. \A d \in Conns : \A y \in On(d, Peer(n))' : y \in On(d, Peer(n)) \/ y = Data(g)
      BY <1>3, <2>1, <3>1 DEF Adds
    <3>3. Data(g).kind = "data"
      BY ItemTypes
    <3> QED
      BY <3>2, <3>3
  <2>3. CASE m = n
    BY <1>3, <1>6, <2>1, <2>2, <2>3 DEF EndsStay
  <2>4. CASE m = Peer(n)
    <3>1. NextFrame(m).seq = tx[m]
      BY DEF NextFrame, FrameOf
    <3>2. Advances(n) /\ acked'[Peer(n)] = acked[Peer(n)]
      BY <1>4, <2>1, <2>4, <3>1 DEF Advances, EndsStay
    <3> QED
      BY <1>1, <1>2, <1>5, <2>1, <2>2, <3>2, AccountedStill DEF Same, EndsStay
  <2> QED
    BY <1>3, <2>3, <2>4
<1>14. ASSUME NEW m \in Nodes, NEW c \in Conns, Receive(m, c) PROVE Accounted(n)'
  <2>1. CASE m = n
    BY <1>1, <1>2, <1>14, <2>1, AccountedReceive
  <2>2. CASE m = Peer(n)
    <3>1. PICK g : g = Head(wire[c][m]).f
      OBVIOUS
    <3>2. PICK st : st = Adopted(m, c)
      OBVIOUS
    <3>3. /\ \A k \in Nodes \ {m} : Same(k)
          /\ UNCHANGED <<life, born, open, made, acked>>
          /\ \A k \in Nodes : \/ tx'[k] = tx[k] /\ sendbuf'[k] = sendbuf[k]
                              \/ k = m /\ Restarted(m, c) /\ tx'[k] = 1 /\ sendbuf'[k] = {}
      BY <1>14, <3>1, <3>2, Received
    <3>4. rx[Peer(n)].inst \in {0, 1} /\ <<m, c>> \in open
      BY <1>2, <1>14 DEF Numbered, Receive, Reads
    <3>5. ~Restarted(m, c)
      BY <1>2, <2>2, <3>4, NeverResyncs
    <3>6. Quiet(Peer(n)) /\ Same(n)
      BY <1>3, <2>2, <3>3, <3>5 DEF Quiet
    <3>7. \A d \in Conns : \A y \in On(d, Peer(n))' : y \in On(d, Peer(n))
      <4>1. \A d \in Conns, k \in Nodes : \A y \in On(d, k)' :
              \/ y \in On(d, k)
              \/ y = Ack(Head(wire[c][m]).f.seq) /\ d = c /\ k = Peer(m) /\ <<k, d>> \in open
        BY <1>14, ReceivedAnswer
      <4> QED
        BY <1>3, <2>2, <4>1
    <3> QED
      BY <1>6, <3>3, <3>6, <3>7
  <2> QED
    BY <1>3, <2>1, <2>2
<1>15. ASSUME NEW m \in Nodes, NEW c \in Conns, DropStale(m, c) PROVE Accounted(n)'
  <2>1. /\ EndsStay /\ Quiet(Peer(n)) /\ Same(n) /\ <<m, c>> \in open /\ Stale(m, c)
    BY <1>3, <1>15, DropStaleGives
  <2>2. \A d \in Conns, k \in Nodes : \A y \in On(d, k)' :
              \/ y \in On(d, k)
              \/ y = Ack(Head(wire[c][m]).f.seq) /\ d = c /\ k = Peer(m) /\ <<k, d>> \in open
    BY <1>15, DropStaleGives
  (* The acknowledgement of a stale frame finds its end closed. *)
  <2>3. m = n => <<Peer(n), c>> \notin open
    <3> SUFFICES ASSUME m = n, <<Peer(n), c>> \in open PROVE FALSE
      OBVIOUS
    <3>1. /\ rx[n].inst # 0 /\ rx[n].inst # Instance(n, c) /\ c <= rx[n].since
      BY <2>1 DEF Stale
    <3>2. c \in Dialled /\ Instance(n, c) = life[Peer(n)]
      BY <1>3 DEF DialledInTurn, Instance
    <3>3. rx[n].since \in Dialled /\ born[rx[n].since][Peer(n)] = rx[n].inst
      BY <1>2, <3>1 DEF Receiving
    <3>4. life[Peer(n)] <= rx[n].inst /\ rx[n].inst <= life[Peer(n)]
      BY <1>3, <3>1, <3>2, <3>3 DEF DialledInTurn, Instance
    <3>5. life[Peer(n)] \in Nat /\ rx[n].inst \in Nat
      BY <1>3 DEF Types, RxStates
    <3> QED
      BY <3>1, <3>2, <3>4, <3>5
  <2>4. \A d \in Conns : \A y \in On(d, Peer(n))' : y \in On(d, Peer(n))
    BY <1>3, <2>2, <2>3
  <2> QED
    BY <1>6, <2>1, <2>4 DEF EndsStay
<1>16. ASSUME NEW m \in Nodes, NEW c \in Conns, TakeAck(m, c) PROVE Accounted(n)'
  <2>1. /\ EndsStay /\ Same(n) /\ <<m, c>> \in open
        /\ \A k \in Nodes \ {m} : Quiet(k)
        /\ tx'[m] = tx[m] /\ sendbuf'[m] \subseteq sendbuf[m]
        /\ \A d \in Conns, k \in Nodes : On(d, k)' \subseteq On(d, k)
    BY <1>16, TakeAckGives
  <2>2. CASE m = n
    BY <1>3, <1>6, <2>1, <2>2 DEF EndsStay
  <2>3. CASE m = Peer(n)
    <3>1. PICK y \in On(c, m) :
              /\ y.kind = "ack"
              /\ acked'[m] = acked[m] \cup {f \in sendbuf[m] : f.seq = y.seq}
      BY <1>16, TakeAckGives
    <3>2. Settled(n, y.seq)
      BY <1>2, <2>1, <2>3, <3>1 DEF Accounted
    <3>3. acked'[Peer(n)] \subseteq acked[Peer(n)] \cup Has(n)
      BY <2>3, <3>1, <3>2 DEF Settled
    <3>4. Advances(n)
      BY <1>4, <2>1, <2>3 DEF Advances, EndsStay
    <3> QED
      BY <1>1, <1>2, <1>3, <1>5, <2>1, <3>3, <3>4, AccountedStill DEF Same, EndsStay
  <2> QED
    BY <1>3, <2>2, <2>3
<1>17. ASSUME NEW m \in Nodes, NEW c \in Conns, DrainNext(m, c) \/ DrainDone(m, c)
       PROVE  Accounted(n)'
  <2>1. CASE m = n
    BY <1>1, <1>2, <1>17, <2>1, AccountedDrain
  <2>2. CASE m = Peer(n)
    <3>1. EndsStay /\ Quiet(Peer(n)) /\ Same(n)
      BY <1>3, <1>17, <2>2, DrainNextGives, DrainDoneGives
    <3>2. \A d \in Conns : \A y \in On(d, Peer(n))' : y \in On(d, Peer(n))
      <4>1. CASE DrainNext(m, c)
        BY <1>3, <4>1, DrainNextGives
      <4>2. CASE DrainDone(m, c)
        <5>1. \A d \in Conns, k \in Nodes : \A y \in On(d, k)' :
              \/ y \in On(d, k)
              \/ y = Ack(loop[m][c].ack) /\ d = c /\ k = Peer(m) /\ <<k, d>> \in open
          BY <4>2, DrainDoneGives
        <5> QED
          BY <1>3, <2>2, <5>1
      <4> QED
        BY <1>17, <4>1, <4>2
    <3> QED
      BY <1>6, <3>1, <3>2 DEF EndsStay
  <2> QED
    BY <1>3, <2>1, <2>2
<1>18. CASE UNCHANGED vars
  <2>1. Same(n) /\ Quiet(Peer(n)) /\ life' = life /\ open' = open /\ born' = born
    BY <1>18 DEF vars, links, sender, receiver, Quiet, Same
  <2>2. \A d \in Conns : On(d, Peer(n))' = On(d, Peer(n))
    BY <1>18 DEF vars, On
  <2> QED
    BY <1>6, <2>1, <2>2
<1> QED
  BY <1>7, <1>8, <1>9, <1>10, <1>11, <1>12, <1>13, <1>14, <1>15, <1>16, <1>17, <1>18
  DEF Next, ReadLoop

(* What a behaviour begins with: nothing sent, nothing received.             *)
LEMMA BegunInOrder ==
  ASSUME Init, NEW n \in Nodes
  PROVE  Numbered(n) /\ Receiving(n) /\ Ordered(n) /\ Accounted(n)
<1>1. Peer(n) \in Nodes
  BY Peers
<1>2. \A m \in Nodes : /\ sendbuf[m] = {} /\ tx[m] = 1 /\ made[m] = 0 /\ acked[m] = {}
                       /\ rx[m] = NoState /\ buffers[m] = <<{}>> /\ delivered[m] = <<>>
                       /\ \A c \in Conns : loop[m][c] = Idle /\ wire[c][m] = <<>>
  BY DEF Init
<1>3. \A m \in Nodes : /\ rx[m].inst = 0 /\ rx[m].expected = 1 /\ rx[m].epoch = 0
                       /\ Busy(m) = {} /\ Buf(m) = {}
                       /\ \A c \in Conns : On(c, m) = {}
  BY <1>2 DEF NoState, Busy, Buf, On
<1>4. Given(n) = {} /\ Len(delivered[n]) = 0
  BY <1>2 DEF Given
<1>5. Numbered(n)
  BY <1>1, <1>2, <1>3 DEF Numbered
<1>6. Receiving(n)
  BY <1>2, <1>3 DEF Receiving
<1>7. Ordered(n)
  BY <1>2, <1>3, <1>4 DEF Ordered, Ahead, InOrder
<1>8. Accounted(n)
  <2>1. Cursors(n) = {1} /\ Passed(n, 1) /\ Taken(n)
    BY <1>1, <1>2, <1>3 DEF Cursors, Passed, Taken
  <2> QED
    BY <1>1, <1>3, <2>1 DEF Accounted
<1> QED
  BY <1>5, <1>6, <1>7, <1>8

-----------------------------------------------------------------------------
(* The inductive invariant, and what follows from it. *)

Sequenced == /\ Types /\ DialledInTurn
             /\ \A n \in Nodes : Numbered(n) /\ Receiving(n) /\ Ordered(n) /\ Accounted(n)

LEMMA SequencedStep == Sequenced /\ [Next]_vars => Sequenced'
<1> SUFFICES ASSUME Sequenced, [Next]_vars PROVE Sequenced'
  OBVIOUS
<1>1. Types /\ DialledInTurn
  BY DEF Sequenced
<1>2. Types' /\ DialledInTurn'
  BY <1>1, TypeStep
<1>3. ASSUME NEW n \in Nodes
      PROVE  Numbered(n)' /\ Receiving(n)' /\ Ordered(n)' /\ Accounted(n)'
  <2>1. Numbered(n) /\ Receiving(n) /\ Ordered(n) /\ Accounted(n)
    BY DEF Sequenced
  <2>2. Numbered(n)'
    BY <1>1, <2>1, NumberedStep
  <2>3. Receiving(n)'
    BY <1>1, <2>1, ReceivingStep
  <2>4. Ordered(n)'
    BY <1>1, <2>1, OrderedStep
  <2>5. Accounted(n)'
    BY <1>1, <2>1, AccountedStep
  <2> QED
    BY <2>2, <2>3, <2>4, <2>5
<1> QED
  BY <1>2, <1>3 DEF Sequenced

(* The numbers, counters and buffers of the two ends always fit together:    *)
(* no frame has a number its peer has not counted, no acknowledgement        *)
(* outruns what was taken (_next_peer_seq, _handle_inbound_data).            *)
THEOREM NumbersFitTogether == Spec => []Sequenced
<1>1. Init => Sequenced
  BY InitTypes, BegunInOrder DEF Sequenced
<1> QED
  BY <1>1, SequencedStep, PTL DEF Spec

(* Output reaches the viewers of a server that has not restarted in the      *)
(* order it was produced and nothing of it twice, over any number of paths,  *)
(* losses, retransmissions and restarts of its origin.                       *)
THEOREM OutputInOrder == Spec => []InOrderOnce
<1>1. Sequenced => InOrderOnce
  BY DEF Sequenced, Ordered, InOrderOnce
<1> QED
  BY <1>1, NumbersFitTogether, PTL

(* What is acknowledged has been delivered, is held for delivery, or was     *)
(* given up with an error in the log: the sender forgets nothing too early.  *)
THEOREM NothingAckedTooEarly == Spec => []AckedMeansTaken
<1>1. Sequenced => AckedMeansTaken
  BY DEF Sequenced, Accounted, Calm, AckedMeansTaken
<1> QED
  BY <1>1, NumbersFitTogether, PTL

=============================================================================
