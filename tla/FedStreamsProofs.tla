-------------------------- MODULE FedStreamsProofs --------------------------
(***************************************************************************)
(* RemembersStreams and SeatsFollowStreams of FedStreams, for any users,   *)
(* ports, outages and restarts, whichever server dials.  What either says  *)
(* of a wire is said of the latest path alone: an older one carries        *)
(* nothing any more, and only the server that is dialled can still send    *)
(* into it.                                                                *)
(***************************************************************************)
EXTENDS FedStreams, SequenceTheorems, FiniteSetTheorems, TLAPS

(* The frames of any stream; the bound on the numbers is not used.         *)
Kinds == {"ports", "open", "close", "request", "ack"}
AnyFrames == {f \in [kind : Kinds, sid : Nat, port : Ports \cup {none},
                     mode : Seats \cup {none}] :
                f.kind \in {"open", "request"} => f.port \in Ports}
Loops == [todo : SUBSET Ports, redo : SUBSET Users, port : Ports \cup {none},
          busy : BOOLEAN]

HasFrame(w, k, s) == \E i \in 1..Len(w) : w[i].kind = k /\ w[i].sid = s
HasPorts(w) == \E i \in 1..Len(w) : w[i] = PortsFrame
(* An OPEN with no CLOSE of the number behind it.                          *)
OpenEnds(w, s) ==
  \E i \in 1..Len(w) : /\ w[i].kind = "open" /\ w[i].sid = s
                       /\ \A j \in i..Len(w) : ~(w[j].kind = "close" /\ w[j].sid = s)

-----------------------------------------------------------------------------
(* The two servers *)

LEMMA Peers ==
  /\ \A n \in Nodes : Peer(n) \in Nodes /\ Peer(n) # n /\ Peer(Peer(n)) = n
  /\ \A m, n \in Nodes : m = n \/ m = Peer(n)
<1>1. ASSUME NEW n \in Nodes PROVE \E m : Nodes \ {n} = {m}
  <2>1. IsFiniteSet(Nodes \ {n}) /\ Cardinality(Nodes \ {n}) = 1
    BY FS_RemoveElement, FedStreamsAssumption
  <2> QED
    BY <2>1, FS_Singleton
<1>2. ASSUME NEW n \in Nodes
      PROVE  Peer(n) \in Nodes /\ Peer(n) # n /\ \A m \in Nodes : m = n \/ m = Peer(n)
  <2>1. PICK m : Nodes \ {n} = {m}
    BY <1>1
  <2>2. m \in Nodes /\ m # n /\ \A x \in Nodes : x # n => x = m
    BY <2>1
  <2>3. Peer(n) \in Nodes /\ Peer(n) # n
    BY <2>2 DEF Peer
  <2> QED
    BY <2>2, <2>3
<1> QED
  BY <1>2

(* What one server exports the other does not.                             *)
LEMMA Exports ==
  /\ \A n \in Nodes : Exported[n] \subseteq Ports
  /\ \A n \in Nodes : Exported[n] \cap Exported[Peer(n)] = {}
  /\ none \notin Ports /\ none \notin Users
  /\ \A u \in Users : Home[u] \in Nodes
<1>1. \A n \in Nodes : n = Dialer \/ n = Peer(Dialer)
  BY Peers, FedStreamsAssumption
<1>2. \A n \in Nodes : Exported[n] \cap Exported[Peer(n)] = {}
  BY <1>1, Peers, FedStreamsAssumption
<1>3. none \notin Ports
  BY <1>1, FedStreamsAssumption DEF Ports
<1> QED
  BY <1>2, <1>3, FedStreamsAssumption DEF Ports

-----------------------------------------------------------------------------
(* Frames *)

LEMMA FrameIs ==
  ASSUME NEW k, NEW s, NEW p, NEW m
  PROVE  /\ Frame(k, s, p, m).kind = k /\ Frame(k, s, p, m).sid = s
         /\ Frame(k, s, p, m).port = p /\ Frame(k, s, p, m).mode = m
  BY DEF Frame

LEMMA FrameType ==
  ASSUME NEW k \in Kinds, NEW s \in Nat, NEW p \in Ports \cup {none},
         NEW m \in Seats \cup {none}, k \in {"open", "request"} => p \in Ports
  PROVE  Frame(k, s, p, m) \in AnyFrames
  BY DEF Frame, AnyFrames

LEMMA EmptyWire ==
  /\ <<>> \in Seq(AnyFrames) /\ ~HasPorts(<<>>)
  /\ \A k, s : ~HasFrame(<<>>, k, s)
  /\ \A s : ~OpenEnds(<<>>, s)
  BY DEF HasPorts, HasFrame, OpenEnds

(* What is put on a wire is on it, behind the rest.                        *)
LEMMA WireGains ==
  ASSUME NEW w \in Seq(AnyFrames), NEW fr \in Seq(AnyFrames)
  PROVE  /\ w \o fr \in Seq(AnyFrames)
         /\ \A k, s : HasFrame(w \o fr, k, s) <=> HasFrame(w, k, s) \/ HasFrame(fr, k, s)
         /\ HasPorts(w \o fr) <=> HasPorts(w) \/ HasPorts(fr)
         /\ \A s : OpenEnds(w \o fr, s) =>
              OpenEnds(fr, s) \/ (OpenEnds(w, s) /\ ~HasFrame(fr, "close", s))
<1> DEFINE v == w \o fr
<1>1. /\ v \in Seq(AnyFrames) /\ Len(v) = Len(w) + Len(fr)
      /\ \A i \in 1..Len(w) : v[i] = w[i]
      /\ \A i \in 1..Len(fr) : v[Len(w) + i] = fr[i]
      /\ \A i \in 1..Len(v) : i \in 1..Len(w) \/ i - Len(w) \in 1..Len(fr)
      /\ \A i \in 1..Len(v) : i \notin 1..Len(w) => v[i] = fr[i - Len(w)]
      /\ Len(w) \in Nat /\ Len(fr) \in Nat
  BY ConcatProperties
<1> HIDE DEF v
<1>2. ASSUME NEW k, NEW s
      PROVE  HasFrame(v, k, s) <=> HasFrame(w, k, s) \/ HasFrame(fr, k, s)
  <2>1. HasFrame(v, k, s) => HasFrame(w, k, s) \/ HasFrame(fr, k, s)
    BY <1>1 DEF HasFrame
  <2>2. HasFrame(w, k, s) => HasFrame(v, k, s)
    BY <1>1 DEF HasFrame
  <2>3. ASSUME NEW i \in 1..Len(fr), fr[i].kind = k, fr[i].sid = s PROVE HasFrame(v, k, s)
    <3>1. Len(w) + i \in 1..Len(v) /\ v[Len(w) + i] = fr[i]
      BY <1>1
    <3> QED
      BY <3>1, <2>3 DEF HasFrame
  <2> QED
    BY <2>1, <2>2, <2>3 DEF HasFrame
<1>3. HasPorts(v) <=> HasPorts(w) \/ HasPorts(fr)
  <2>1. HasPorts(v) => HasPorts(w) \/ HasPorts(fr)
    BY <1>1 DEF HasPorts
  <2>2. HasPorts(w) => HasPorts(v)
    BY <1>1 DEF HasPorts
  <2>3. ASSUME NEW i \in 1..Len(fr), fr[i] = PortsFrame PROVE HasPorts(v)
    <3>1. Len(w) + i \in 1..Len(v) /\ v[Len(w) + i] = fr[i]
      BY <1>1
    <3> QED
      BY <3>1, <2>3 DEF HasPorts
  <2> QED
    BY <2>1, <2>2, <2>3 DEF HasPorts
<1>4. ASSUME NEW s, OpenEnds(v, s), ~OpenEnds(fr, s)
      PROVE  OpenEnds(w, s) /\ ~HasFrame(fr, "close", s)
  <2>1. PICK i \in 1..Len(v) : /\ v[i].kind = "open" /\ v[i].sid = s
                               /\ \A j \in i..Len(v) : ~(v[j].kind = "close" /\ v[j].sid = s)
    BY <1>4 DEF OpenEnds
  <2>2. ASSUME i \notin 1..Len(w) PROVE OpenEnds(fr, s)
    <3>1. /\ i - Len(w) \in 1..Len(fr) /\ v[i] = fr[i - Len(w)]
          /\ \A j \in (i - Len(w))..Len(fr) : Len(w) + j \in i..Len(v) /\ v[Len(w) + j] = fr[j]
      BY <1>1, <2>2
    <3> QED
      BY <2>1, <3>1 DEF OpenEnds
  <2>3. i \in 1..Len(w)
    BY <2>2, <1>4
  <2>4. OpenEnds(w, s)
    <3>1. /\ \A j \in i..Len(w) : j \in i..Len(v) /\ v[j] = w[j]
          /\ v[i] = w[i]
      BY <1>1, <2>3
    <3> QED
      BY <2>1, <2>3, <3>1 DEF OpenEnds
  <2>5. ~HasFrame(fr, "close", s)
    <3>1. \A j \in 1..Len(fr) : Len(w) + j \in i..Len(v) /\ v[Len(w) + j] = fr[j]
      BY <1>1, <2>3
    <3> QED
      BY <2>1, <3>1 DEF HasFrame
  <2> QED
    BY <2>4, <2>5
<1> QED
  BY <1>1, <1>2, <1>3, <1>4 DEF v

(* A single frame.                                                         *)
LEMMA OneFrame ==
  ASSUME NEW f \in AnyFrames
  PROVE  /\ <<f>> \in Seq(AnyFrames)
         /\ \A k, s : HasFrame(<<f>>, k, s) <=> f.kind = k /\ f.sid = s
         /\ HasPorts(<<f>>) <=> f = PortsFrame
         /\ \A s : OpenEnds(<<f>>, s) <=> f.kind = "open" /\ f.sid = s
         /\ Closes(<<f>>) = {s \in {f.sid} : f.kind = "close"}
<1>1. /\ <<f>> \in Seq(AnyFrames) /\ Len(<<f>>) = 1 /\ <<f>>[1] = f
      /\ DOMAIN <<f>> = {1} /\ 1..1 = {1}
  OBVIOUS
<1>2. \A k, s : HasFrame(<<f>>, k, s) <=> f.kind = k /\ f.sid = s
  BY <1>1 DEF HasFrame
<1>3. HasPorts(<<f>>) <=> f = PortsFrame
  BY <1>1 DEF HasPorts
<1>4. \A s : OpenEnds(<<f>>, s) <=> f.kind = "open" /\ f.sid = s
  BY <1>1 DEF OpenEnds
<1>5. Closes(<<f>>) = {s \in {f.sid} : f.kind = "close"}
  BY <1>1 DEF Closes
<1> QED
  BY <1>1, <1>2, <1>3, <1>4, <1>5

(* What is read is gone, the rest stays in its order.                      *)
LEMMA WireLoses ==
  ASSUME NEW w \in Seq(AnyFrames), w # <<>>
  PROVE  /\ Head(w) \in AnyFrames /\ Tail(w) \in Seq(AnyFrames)
         /\ \A k, s : HasFrame(w, k, s) <=> \/ Head(w).kind = k /\ Head(w).sid = s
                                            \/ HasFrame(Tail(w), k, s)
         /\ HasPorts(w) <=> Head(w) = PortsFrame \/ HasPorts(Tail(w))
         /\ \A s : OpenEnds(Tail(w), s) => OpenEnds(w, s)
         /\ Head(w).kind = "open" => \/ OpenEnds(w, Head(w).sid)
                                     \/ HasFrame(Tail(w), "close", Head(w).sid)
<1> DEFINE t == Tail(w)
           h == Head(w)
<1>1. /\ h \in AnyFrames /\ t \in Seq(AnyFrames) /\ Len(t) = Len(w) - 1
      /\ \A i \in 1..Len(t) : i + 1 \in 1..Len(w) /\ w[i + 1] = t[i]
      /\ 1 \in 1..Len(w) /\ w[1] = h /\ Len(w) \in Nat
      /\ \A i \in 1..Len(w) : i # 1 => i - 1 \in 1..Len(t) /\ t[i - 1] = w[i]
  BY HeadTailProperties
<1> HIDE DEF t, h
<1>2. \A k, s : HasFrame(w, k, s) <=> (h.kind = k /\ h.sid = s) \/ HasFrame(t, k, s)
  BY <1>1 DEF HasFrame
<1>3. HasPorts(w) <=> h = PortsFrame \/ HasPorts(t)
  BY <1>1 DEF HasPorts
<1>4. ASSUME NEW s, OpenEnds(t, s) PROVE OpenEnds(w, s)
  <2>1. PICK i \in 1..Len(t) : /\ t[i].kind = "open" /\ t[i].sid = s
                               /\ \A j \in i..Len(t) : ~(t[j].kind = "close" /\ t[j].sid = s)
    BY <1>4 DEF OpenEnds
  <2>2. i + 1 \in 1..Len(w) /\ w[i + 1] = t[i]
    BY <1>1
  <2>3. \A j \in (i + 1)..Len(w) : j - 1 \in i..Len(t) /\ w[j] = t[j - 1]
    BY <1>1
  <2> QED
    BY <2>1, <2>2, <2>3 DEF OpenEnds
<1>5. ASSUME h.kind = "open", ~HasFrame(t, "close", h.sid) PROVE OpenEnds(w, h.sid)
  <2>1. \A j \in 1..Len(w) : ~(w[j].kind = "close" /\ w[j].sid = h.sid)
    BY <1>1, <1>5 DEF HasFrame
  <2> QED
    BY <1>1, <1>5, <2>1 DEF OpenEnds
<1> QED
  BY <1>1, <1>2, <1>3, <1>4, <1>5 DEF t, h

(* One frame for each number of a finite set.                              *)
Each(k, S, p, m) == [i \in 1..Cardinality(S) |-> Frame(k, Listed(S)[i], p, m)]
Lists(fr, k, S) == /\ fr \in Seq(AnyFrames) /\ ~HasPorts(fr)
                   /\ \A i \in 1..Len(fr) : fr[i].kind = k /\ fr[i].sid \in S
                   /\ \A s \in S : \E i \in 1..Len(fr) : fr[i].sid = s

LEMMA FramesOf ==
  ASSUME NEW S \in SUBSET Nat, IsFiniteSet(S), NEW k \in Kinds \ {"ports"},
         NEW p \in Ports \cup {none}, NEW m \in Seats \cup {none},
         k \in {"open", "request"} => p \in Ports
  PROVE  Lists(Each(k, S, p, m), k, S)
<1> DEFINE q == Listed(S)
           n == Cardinality(S)
           fr == Each(k, S, p, m)
<1>1. n \in Nat
  BY FS_CardinalityType
<1>2. q \in [1..n -> S] /\ \A x \in S : \E i \in 1..n : q[i] = x
  <2>1. PICK g : g \in Bijection(1..n, S)
    BY FS_CardinalityType DEF ExistsBijection
  <2>2. g \in [1..n -> S] /\ \A x \in S : \E i \in DOMAIN g : g[i] = x
    BY <2>1 DEF Bijection, Surjection
  <2>3. \E r \in [1..n -> S] : \A x \in S : \E i \in DOMAIN r : r[i] = x
    BY <2>2
  <2>4. q \in [1..n -> S] /\ \A x \in S : \E i \in DOMAIN q : q[i] = x
    BY <2>3 DEF Listed
  <2> QED
    BY <2>4
<1> HIDE DEF q, n
<1>3. fr = [i \in 1..n |-> Frame(k, q[i], p, m)]
  BY DEF q, n, fr, Each
<1> HIDE DEF fr
<1>4. \A i \in 1..n : q[i] \in S /\ q[i] \in Nat
  BY <1>2
<1>5. \A i \in 1..n : fr[i] = Frame(k, q[i], p, m) /\ fr[i] \in AnyFrames
  BY <1>3, <1>4, FrameType
<1>6. fr \in Seq(AnyFrames) /\ Len(fr) = n
  BY <1>1, <1>3, <1>5
<1>7. ASSUME NEW i \in 1..n PROVE fr[i].kind = k /\ fr[i].sid = q[i]
  <2>1. fr[i] = Frame(k, q[i], p, m)
    BY <1>5
  <2> QED
    BY <2>1 DEF Frame
<1>8. PortsFrame.kind = "ports"
  BY DEF PortsFrame, Frame
<1>9. ~HasPorts(fr)
  BY <1>6, <1>7, <1>8 DEF HasPorts
<1>10. /\ \A i \in 1..Len(fr) : fr[i].kind = k /\ fr[i].sid \in S
       /\ \A s \in S : \E i \in 1..Len(fr) : fr[i].sid = s
  <2>1. 1..Len(fr) = 1..n
    BY <1>6
  <2> QED
    BY <2>1, <1>2, <1>4, <1>7
<1> QED
  BY <1>6, <1>9, <1>10 DEF fr, Lists

(* Frames that ask for and end streams, and what they say: the CLOSE of    *)
(* a number is never behind its OPEN.                                      *)
Spells(fr, C, O, R) ==
  /\ fr \in Seq(AnyFrames) /\ ~HasPorts(fr)
  /\ \A s : /\ HasFrame(fr, "close", s) <=> s \in C
            /\ HasFrame(fr, "open", s) <=> s \in O
            /\ HasFrame(fr, "request", s) <=> s \in R
            /\ OpenEnds(fr, s) => s \in O
  /\ Closes(fr) = C

LEMMA ClosesAre ==
  ASSUME NEW fr \in Seq(AnyFrames)
  PROVE  \A s : s \in Closes(fr) <=> HasFrame(fr, "close", s)
<1>1. DOMAIN fr = 1..Len(fr)
  OBVIOUS
<1> QED
  BY <1>1 DEF Closes, HasFrame

LEMMA OpenIsThere ==
  ASSUME NEW w, NEW s, OpenEnds(w, s)
  PROVE  HasFrame(w, "open", s)
  BY DEF OpenEnds, HasFrame

LEMMA ReopeningSpells ==
  ASSUME NEW C \in SUBSET Nat, IsFiniteSet(C), NEW O \in SUBSET Nat, IsFiniteSet(O),
         NEW p \in Ports
  PROVE  Spells(Reopening(C, O, p), C, O, {})
<1> DEFINE a == Each("close", C, none, none)
           b == Each("open", O, p, none)
<1>0. /\ "close" \in Kinds \ {"ports"} /\ "open" \in Kinds \ {"ports"}
      /\ none \in Ports \cup {none} /\ none \in Seats \cup {none} /\ p \in Ports \cup {none}
  BY DEF Kinds
<1>1. Lists(a, "close", C)
  BY <1>0, FramesOf
<1>2. Lists(b, "open", O)
  BY <1>0, FramesOf
<1>3. Reopening(C, O, p) = a \o b
  BY DEF Reopening, Each
<1> HIDE DEF a, b
<1>4. \A s : /\ HasFrame(a, "close", s) <=> s \in C
             /\ ~HasFrame(a, "open", s) /\ ~HasFrame(a, "request", s)
  BY <1>1 DEF HasFrame, Lists
<1>5. \A s : /\ HasFrame(b, "open", s) <=> s \in O
             /\ ~HasFrame(b, "close", s) /\ ~HasFrame(b, "request", s)
  BY <1>2 DEF HasFrame, Lists
<1>6. /\ a \o b \in Seq(AnyFrames)
      /\ \A k, s : HasFrame(a \o b, k, s) <=> HasFrame(a, k, s) \/ HasFrame(b, k, s)
      /\ ~HasPorts(a \o b)
  BY <1>1, <1>2, WireGains DEF Lists
<1>7. \A s : /\ HasFrame(a \o b, "close", s) <=> s \in C
             /\ HasFrame(a \o b, "open", s) <=> s \in O
             /\ ~HasFrame(a \o b, "request", s)
  BY <1>4, <1>5, <1>6
<1>8. Closes(a \o b) = C
  BY <1>6, <1>7, ClosesAre
<1> QED
  BY <1>3, <1>6, <1>7, <1>8, OpenIsThere DEF Spells

LEMMA FrameSpells ==
  ASSUME NEW s \in Nat, NEW p \in Ports \cup {none}
  PROVE  /\ Spells(<<Frame("close", s, p, none)>>, {s}, {}, {})
         /\ p \in Ports => Spells(<<Frame("open", s, p, none)>>, {}, {s}, {})
         /\ p \in Ports => Spells(<<Frame("request", s, p, none)>>, {}, {}, {s})
<1>1. \A k \in Kinds : (k \in {"open", "request"} => p \in Ports)
                        => Frame(k, s, p, none) \in AnyFrames
  BY FrameType
<1>2. PortsFrame.kind = "ports"
  BY FrameIs DEF PortsFrame
<1>3. ASSUME NEW k \in {"close", "open", "request"}, k = "close" \/ p \in Ports
      PROVE  LET fr == <<Frame(k, s, p, none)>> IN
             /\ fr \in Seq(AnyFrames) /\ ~HasPorts(fr)
             /\ \A kk, t : HasFrame(fr, kk, t) <=> kk = k /\ t = s
             /\ \A t : OpenEnds(fr, t) => k = "open" /\ t = s
             /\ Closes(fr) = {t \in {s} : k = "close"}
  <2>1. /\ Frame(k, s, p, none) \in AnyFrames /\ Frame(k, s, p, none) # PortsFrame
        /\ Frame(k, s, p, none).kind = k /\ Frame(k, s, p, none).sid = s
    BY <1>1, <1>2, <1>3, FrameIs DEF Kinds
  <2> QED
    BY <2>1, OneFrame
<1> QED
  BY <1>3 DEF Spells

-----------------------------------------------------------------------------
(* The invariant *)

Types ==
  /\ opened \in 0..MaxConns
  /\ paths \in [Nodes -> SUBSET Nat] /\ leaving \in [Nodes -> SUBSET Nat]
  /\ wire \in [Conns -> [Nodes -> Seq(AnyFrames)]]
  /\ loop \in [Nodes -> [Conns -> Loops]]
  /\ proxies \in [Ports -> BOOLEAN \cup {none}]
  /\ next \in [Nodes -> Nat]
  /\ at \in [Users -> Ports \cup {none}]
  /\ sess \in [Users -> Nat] /\ stale \in [Ports -> [Users -> Nat]]
  /\ mapped \in [Nodes -> [Sids -> Ports \cup {none}]]
  /\ seat \in [Nodes -> [Ports -> [Sids -> Seats]]]
  /\ asked \subseteq Users /\ left \in [Nodes -> SUBSET Nat]

Alive == (1..opened) \ cut

(* The latest path is the only one that may be alive; if it is, both ends  *)
(* have it, and the one that dials has no other.                           *)
PathsFit ==
  /\ cut \subseteq 1..opened
  /\ \A c \in Alive : c = opened /\ \A n \in Nodes : c \in paths[n]
  /\ \A n \in Nodes : paths[n] \subseteq 1..opened /\ leaving[n] \subseteq cut
  /\ \A c \in paths[Dialer] : c = opened
  /\ \A c \in Conns \ Alive, n \in Nodes : wire[c][n] = <<>>

(* A proxy that is up has no stale sessions, one that is down no others.   *)
BooksFit ==
  /\ \A u \in Users : sess[u] # 0 => /\ at[u] \in Exported[Peer(Home[u])]
                                     /\ proxies[at[u]] = TRUE
                                     /\ sess[u] <= next[Home[u]]
  /\ \A p \in Ports, u \in Users :
       stale[p][u] # 0 => p \in Exported[Peer(Home[u])] /\ proxies[p] = FALSE
  /\ \A u, w \in Users : Home[u] = Home[w] /\ sess[u] = sess[w] /\ sess[u] # 0 => u = w
  /\ \A n \in Nodes, c \in Conns : loop[n][c].todo \subseteq Exported[Peer(n)]

Known(n, s) == \E u \in UsersAt(n) : s = sess[u] \/ \E p \in Ports : s = stale[p][u]

(* What an OPEN on its way will map is known as well.                      *)
OpensKnown ==
  \A n \in Nodes, s \in Sids :
     /\ mapped[Peer(n)][s] # none =>
          Known(n, s) \/ s \in left[n] \/ \E c \in Conns : HasFrame(wire[c][n], "close", s)
     /\ \A c \in Conns : OpenEnds(wire[c][n], s) => Known(n, s) \/ s \in left[n]

Seated ==
  \A n \in Nodes, p \in Ports, s \in Sids : seat[n][p][s] # "absent" => mapped[n][s] = p

AloneEmpty ==
  paths[Dialer] \cup leaving[Dialer] = {} => \A s \in Sids : mapped[Dialer][s] = none

(* A number given out next is on no wire yet, and nobody answers to it.    *)
NumbersFresh ==
  \A n \in Nodes, c \in Alive :
     /\ \A s \in Nat, k \in {"open", "request"} : HasFrame(wire[c][n], k, s) => s <= next[n]
     /\ \A u \in UsersAt(n) : HasFrame(wire[c][n], "request", sess[u]) /\ sess[u] # 0 => u \in asked
     /\ n # Dialer => \A s \in Sids : mapped[Dialer][s] # none => s <= next[n]

Renewed ==
  \A n \in Nodes, c \in Alive : \A u \in UsersAt(n) :
     sess[u] \in Sids =>
        \/ HasPorts(wire[c][Peer(n)]) \/ at[u] \in loop[n][c].todo
        \/ HasFrame(wire[c][n], "open", sess[u])
        \/ seat[Peer(n)][at[u]][sess[u]] = "read-write" => u \in asked

Inv == /\ Types /\ PathsFit /\ BooksFit /\ OpensKnown
       /\ Seated /\ AloneEmpty /\ NumbersFresh /\ Renewed

LEMMA InitEstablishes == Init => Inv
<1> SUFFICES ASSUME Init PROVE Inv
  OBVIOUS
<1>1. /\ opened = 0 /\ Alive = {} /\ cut = {}
      /\ \A n \in Nodes : paths[n] = {} /\ leaving[n] = {}
      /\ \A c \in Conns, n \in Nodes : wire[c][n] = <<>> /\ loop[n][c].todo = {}
      /\ \A u \in Users : sess[u] = 0
      /\ \A p \in Ports, u \in Users : stale[p][u] = 0
      /\ \A n \in Nodes, s \in Sids : mapped[n][s] = none
      /\ \A n \in Nodes, p \in Ports, s \in Sids : seat[n][p][s] = "absent"
  BY DEF Init, Alive, Idle, NoStreams, NoSeats
<1>2. Types
  <2>1. Idle \in Loops /\ <<>> \in Seq(AnyFrames)
    BY DEF Idle, Loops
  <2>2. NoStreams \in [Sids -> Ports \cup {none}] /\ NoSeats \in [Ports -> [Sids -> Seats]]
    BY DEF NoStreams, NoSeats, Seats
  <2> QED
    BY <2>1, <2>2, FedStreamsAssumption DEF Init, Types
<1>3. PathsFit
  BY <1>1, FedStreamsAssumption DEF PathsFit
<1>4. BooksFit
  BY <1>1 DEF BooksFit
<1>5. OpensKnown
  BY <1>1, Peers, EmptyWire DEF OpensKnown
<1>6. Seated /\ AloneEmpty
  BY <1>1, FedStreamsAssumption DEF Seated, AloneEmpty
<1>7. NumbersFresh /\ Renewed
  BY <1>1 DEF NumbersFresh, Renewed
<1> QED
  BY <1>2, <1>3, <1>4, <1>5, <1>6, <1>7 DEF Inv

-----------------------------------------------------------------------------
(* Frames sent by one server *)

(* What w has become when those frames were put behind it.                 *)
Gains(w, v, C, O, R) ==
  /\ \A s : /\ HasFrame(v, "close", s) <=> HasFrame(w, "close", s) \/ s \in C
            /\ HasFrame(v, "open", s) <=> HasFrame(w, "open", s) \/ s \in O
            /\ HasFrame(v, "request", s) <=> HasFrame(w, "request", s) \/ s \in R
            /\ OpenEnds(v, s) => s \in O \/ (OpenEnds(w, s) /\ s \notin C)
  /\ HasPorts(v) <=> HasPorts(w)

(* They went out on the path that is alive, or nowhere: the server that    *)
(* dials always finds the one that is alive.                               *)
Delivered(n, C, O, R) ==
  /\ opened \in Alive /\ opened \in Conns /\ UNCHANGED left
  /\ \A c \in Conns, x \in Nodes : c # opened \/ x # n => wire'[c][x] = wire[c][x]
  /\ Gains(wire[opened][n], wire'[opened][n], C, O, R)
Dropped(n, C) ==
  /\ UNCHANGED wire /\ left' = [left EXCEPT ![n] = @ \cup C]
  /\ n = Dialer => Alive = {}

LEMMA SentGives ==
  ASSUME Types, PathsFit, NEW n \in Nodes, NEW C \in SUBSET Nat, NEW O, NEW R,
         NEW fr, Spells(fr, C, O, R), SendVia(n, fr)
  PROVE  /\ Delivered(n, C, O, R) \/ Dropped(n, C)
         /\ wire' \in [Conns -> [Nodes -> Seq(AnyFrames)]]
         /\ left' \in [Nodes -> SUBSET Nat]
<1>1. CASE paths[n] = {}
  <2>1. Dropped(n, C)
    BY <1>1 DEF SendVia, Dropped, PathsFit, Spells
  <2> QED
    BY <2>1 DEF Dropped, Types
<1>2. CASE paths[n] # {}
  <2>1. PICK c \in paths[n] :
          /\ wire' = Sent(wire, c, n, fr)
          /\ left' = IF c \in cut THEN [left EXCEPT ![n] = @ \cup C] ELSE left
    BY <1>2 DEF SendVia, Spells
  <2>2. c \in 1..opened
    BY <2>1 DEF PathsFit
  <2>3. CASE c \in cut
    <3>1. Dropped(n, C)
      BY <2>1, <2>2, <2>3 DEF Dropped, PathsFit, Sent, Alive
    <3> QED
      BY <3>1 DEF Dropped, Types
  <2>4. CASE c \notin cut
    <3>1. c = opened /\ opened \in Alive /\ opened \in Conns
      BY <2>2, <2>4, FedStreamsAssumption DEF PathsFit, Alive, Types, Conns
    <3>2. wire' = [wire EXCEPT ![opened][n] = @ \o fr] /\ UNCHANGED left
      BY <2>1, <2>4, <3>1 DEF Sent
    <3>3. wire[opened][n] \in Seq(AnyFrames) /\ fr \in Seq(AnyFrames)
      BY <3>1 DEF Types, Spells
    <3>4. wire'[opened][n] = wire[opened][n] \o fr
      BY <3>1, <3>2 DEF Types
    <3>5. Gains(wire[opened][n], wire'[opened][n], C, O, R)
      BY <3>3, <3>4, WireGains DEF Spells, Gains
    <3>6. \A d \in Conns, x \in Nodes : d # opened \/ x # n => wire'[d][x] = wire[d][x]
      BY <3>2 DEF Types
    <3>7. wire[opened][n] \o fr \in Seq(AnyFrames)
      BY <3>3, WireGains
    <3>8. wire' \in [Conns -> [Nodes -> Seq(AnyFrames)]]
      BY <3>1, <3>2, <3>7 DEF Types
    <3> QED
      BY <3>1, <3>2, <3>5, <3>6, <3>8 DEF Delivered, Types
  <2> QED
    BY <2>3, <2>4
<1> QED
  BY <1>1, <1>2

-----------------------------------------------------------------------------
(* A viewer's books and the frames they make it send *)

(* Sessions that change end, or go on as one of the streams opened by the  *)
(* frames sent; a number given up is closed by them.                       *)
BookStep(n, C, O, R) ==
  /\ UNCHANGED <<opened, cut, paths, leaving, mapped, seat>>
  /\ Delivered(n, C, O, R) \/ Dropped(n, C)
  /\ next[n] <= next'[n] /\ \A x \in Nodes : x # n => next'[x] = next[x]
  /\ \A s \in O : next[n] < s /\ s <= next'[n]
  /\ \A s \in R : s <= next[n] /\ \A u \in UsersAt(n) : sess'[u] = s => u \in asked'
  /\ \A u \in Users :
       \/ /\ sess'[u] = sess[u] /\ at'[u] = at[u] /\ (u \in asked => u \in asked')
          /\ \A c \in Conns : at[u] \in loop[Home[u]][c].todo
                                => at[u] \in loop'[Home[u]][c].todo
       \/ Home[u] = n /\ sess'[u] \in {0} \cup O
  /\ \A s \in Sids : Known(n, s) => Known(n, s)' \/ s \in C
  /\ \A s \in O : Known(n, s)'
  /\ \A x \in Nodes, s \in Sids : x # n /\ Known(x, s) => Known(x, s)'

LEMMA BookKeeps ==
  ASSUME Inv, Types', BooksFit', NEW n \in Nodes, NEW C \in SUBSET Nat,
         NEW O \in SUBSET Nat, NEW R \in SUBSET Nat, BookStep(n, C, O, R)
  PROVE  PathsFit' /\ OpensKnown' /\ Seated' /\ AloneEmpty' /\ NumbersFresh' /\ Renewed'
<1>1. /\ UNCHANGED <<opened, cut, paths, leaving, mapped, seat>> /\ Alive' = Alive
      /\ Delivered(n, C, O, R) \/ Dropped(n, C)
  BY DEF BookStep, Alive
<1>2. \A c \in Conns, x \in Nodes :
        \/ wire'[c][x] = wire[c][x]
        \/ /\ c = opened /\ c \in Alive /\ x = n
           /\ Gains(wire[c][x], wire'[c][x], C, O, R)
  BY <1>1 DEF Delivered, Dropped
<1>3. PathsFit'
  <2>1. \A c \in Conns \ Alive, x \in Nodes : wire'[c][x] = <<>>
    BY <1>2 DEF Inv, PathsFit
  <2> QED
    BY <1>1, <2>1 DEF Inv, PathsFit
<1>4. Seated' /\ AloneEmpty'
  BY <1>1 DEF Inv, Seated, AloneEmpty
<1>5. \A x \in Nodes, s \in Nat : s \in left[x] => s \in left'[x]
  <2>1. left' = left \/ left' = [left EXCEPT ![n] = @ \cup C]
    BY <1>1 DEF Delivered, Dropped
  <2>2. left \in [Nodes -> SUBSET Nat]
    BY DEF Inv, Types
  <2> QED
    BY <2>1, <2>2
<1>6. OpensKnown'
  <2> SUFFICES ASSUME NEW x \in Nodes, NEW s \in Sids
               PROVE  /\ mapped[Peer(x)][s] # none =>
                           \/ Known(x, s)' \/ s \in left'[x]
                           \/ \E c \in Conns : HasFrame(wire'[c][x], "close", s)
                      /\ \A c \in Conns : OpenEnds(wire'[c][x], s) => Known(x, s)' \/ s \in left'[x]
    BY <1>1 DEF OpensKnown
  <2>0. s \in Nat
    BY DEF Sids
  <2>1. Known(x, s) => Known(x, s)' \/ (x = n /\ s \in C)
    BY DEF BookStep
  <2>2. \A c \in Conns : HasFrame(wire[c][x], "close", s) => HasFrame(wire'[c][x], "close", s)
    BY <1>2 DEF Gains
  <2>3. ASSUME x = n, s \in C
        PROVE  \/ s \in left'[x]
               \/ opened \in Conns /\ HasFrame(wire'[opened][x], "close", s)
    BY <1>1, <2>3 DEF Delivered, Dropped, Gains, Inv, Types
  <2>4. mapped[Peer(x)][s] # none =>
           \/ Known(x, s)' \/ s \in left'[x]
           \/ \E c \in Conns : HasFrame(wire'[c][x], "close", s)
    BY <2>0, <2>1, <2>2, <2>3, <1>5 DEF Inv, OpensKnown
  <2>5. ASSUME NEW c \in Conns, OpenEnds(wire'[c][x], s)
        PROVE  Known(x, s)' \/ s \in left'[x]
    <3>1. CASE wire'[c][x] = wire[c][x]
      <4>1. Known(x, s) \/ s \in left[x]
        BY <3>1, <2>5 DEF Inv, OpensKnown
      <4>2. CASE x = n /\ s \in C /\ s \notin left'[x] /\ ~Known(x, s)'
        <5>1. c # opened
          <6>1. Delivered(n, C, O, R)
            BY <1>1, <4>2 DEF Dropped, Inv, Types
          <6>2. s \notin O
            BY <4>2 DEF BookStep
          <6> QED
            BY <6>1, <6>2, <2>5, <4>2 DEF Delivered, Gains
        <5>2. wire[c][x] = <<>>
          <6>1. c \notin Alive
            BY <5>1 DEF Inv, PathsFit
          <6> QED
            BY <6>1 DEF Inv, PathsFit
        <5> QED
          BY <5>2, <3>1, <2>5, EmptyWire
      <4> QED
        BY <4>1, <4>2, <2>0, <2>1, <1>5
    <3>2. CASE x = n /\ Gains(wire[c][x], wire'[c][x], C, O, R)
      <4>1. s \in O \/ (OpenEnds(wire[c][x], s) /\ s \notin C)
        BY <3>2, <2>5 DEF Gains
      <4>2. s \in O => Known(x, s)'
        BY <3>2 DEF BookStep
      <4>3. OpenEnds(wire[c][x], s) => Known(x, s) \/ s \in left[x]
        BY DEF Inv, OpensKnown
      <4> QED
        BY <4>1, <4>2, <4>3, <2>0, <2>1, <1>5
    <3> QED
      BY <3>1, <3>2, <1>2
  <2> QED
    BY <2>4, <2>5
<1>7. \A c \in Alive : c = opened /\ c \in Conns
  <2>1. opened \in 0..MaxConns /\ MaxConns \in Nat /\ \A c \in Alive : c = opened
    BY FedStreamsAssumption DEF Inv, PathsFit, Types
  <2> QED
    BY <2>1 DEF Alive, Conns
<1>8. \A x \in Nodes : next[x] <= next'[x] /\ next[x] \in Nat /\ next'[x] \in Nat
  <2>1. \A x \in Nodes : next[x] \in Nat /\ next'[x] \in Nat
    BY DEF Inv, Types
  <2>2. next[n] <= next'[n] /\ \A x \in Nodes : x # n => next'[x] = next[x]
    BY DEF BookStep
  <2> QED
    BY <2>1, <2>2
<1>9. \A u \in Users : /\ Home[u] \in Nodes /\ u \in UsersAt(Home[u])
                       /\ sess[u] \in Nat /\ sess'[u] \in Nat
  BY Exports DEF Inv, Types, UsersAt
<1>10. \A x \in Nodes : \A u \in UsersAt(x) : u \in Users /\ Home[u] = x
  BY DEF UsersAt
<1>11. NumbersFresh'
  <2> SUFFICES ASSUME NEW x \in Nodes, NEW c \in Alive
               PROVE  /\ \A s \in Nat, k \in {"open", "request"} :
                           HasFrame(wire'[c][x], k, s) => s <= next'[x]
                      /\ \A u \in UsersAt(x) :
                           HasFrame(wire'[c][x], "request", sess'[u]) /\ sess'[u] # 0
                             => u \in asked'
                      /\ x # Dialer => \A s \in Sids : mapped[Dialer][s] # none => s <= next'[x]
    BY <1>1 DEF NumbersFresh, UsersAt
  <2>1. ASSUME NEW s \in Nat, NEW k \in {"open", "request"}, HasFrame(wire'[c][x], k, s)
        PROVE  s <= next'[x]
    <3>1. HasFrame(wire[c][x], k, s) => s <= next[x]
      BY DEF Inv, NumbersFresh
    <3>2. \/ HasFrame(wire[c][x], k, s)
          \/ x = n /\ s \in O \cup R
      BY <1>2, <1>7, <2>1 DEF Gains
    <3>3. x = n /\ s \in O \cup R => s <= next'[x]
      BY <1>8 DEF BookStep
    <3> QED
      BY <3>1, <3>2, <3>3, <1>8
  <2>2. ASSUME NEW u \in UsersAt(x), HasFrame(wire'[c][x], "request", sess'[u]), sess'[u] # 0
        PROVE  u \in asked'
    <3>1. \/ HasFrame(wire[c][x], "request", sess'[u])
          \/ x = n /\ sess'[u] \in R
      BY <1>2, <1>7, <2>2 DEF Gains
    <3>2. CASE x = n /\ sess'[u] \in R
      BY <3>2 DEF BookStep
    <3>3. CASE HasFrame(wire[c][x], "request", sess'[u])
      <4>1. CASE sess'[u] = sess[u] /\ (u \in asked => u \in asked')
        BY <4>1, <3>3, <2>2 DEF Inv, NumbersFresh
      <4>2. CASE Home[u] = n /\ sess'[u] \in {0} \cup O
        <5>1. x = n /\ next[n] < sess'[u]
          BY <4>2, <2>2, <1>10 DEF BookStep
        <5>2. sess'[u] <= next[n]
          BY <5>1, <3>3, <1>9, <1>10 DEF Inv, NumbersFresh
        <5> QED
          BY <5>1, <5>2, <1>8, <1>9, <1>10
      <4> QED
        BY <4>1, <4>2, <1>10 DEF BookStep
    <3> QED
      BY <3>1, <3>2, <3>3
  <2>3. x # Dialer => \A s \in Sids : mapped[Dialer][s] # none => s <= next'[x]
    BY <1>8 DEF Inv, NumbersFresh, Sids
  <2> QED
    BY <2>1, <2>2, <2>3
<1>12. Renewed'
  <2> SUFFICES ASSUME NEW x \in Nodes, NEW c \in Alive, NEW u \in UsersAt(x), sess'[u] \in Sids
               PROVE  \/ HasPorts(wire'[c][Peer(x)]) \/ at'[u] \in loop'[x][c].todo
                      \/ HasFrame(wire'[c][x], "open", sess'[u])
                      \/ seat[Peer(x)][at'[u]][sess'[u]] = "read-write" => u \in asked'
    BY <1>1 DEF Renewed, UsersAt
  <2>1. CASE /\ sess'[u] = sess[u] /\ at'[u] = at[u] /\ (u \in asked => u \in asked')
             /\ at[u] \in loop[x][c].todo => at[u] \in loop'[x][c].todo
    <3>1. /\ HasPorts(wire[c][Peer(x)]) => HasPorts(wire'[c][Peer(x)])
          /\ HasFrame(wire[c][x], "open", sess[u]) => HasFrame(wire'[c][x], "open", sess[u])
      BY <1>2, <1>7, Peers DEF Gains
    <3> QED
      BY <2>1, <3>1 DEF Inv, Renewed
  <2>2. CASE Home[u] = n /\ sess'[u] \in {0} \cup O
    <3>1. x = n /\ sess'[u] \in O /\ sess'[u] > next[n] /\ next[n] \in Nat
      BY <2>2, <1>8, <1>9, <1>10 DEF BookStep, Sids
    <3>2. CASE Delivered(n, C, O, R)
      BY <3>1, <3>2, <1>7 DEF Delivered, Gains
    <3>3. CASE Dropped(n, C)
      <4>1. n # Dialer /\ Peer(n) = Dialer
        BY <3>3, Peers, FedStreamsAssumption DEF Dropped
      <4>2. mapped[Dialer][sess'[u]] = none
        BY <3>1, <4>1, <1>9, <1>10 DEF Inv, NumbersFresh, Sids
      <4>3. at'[u] \in Exported[Dialer]
        BY <3>1, <4>1, <1>8, <1>9, <1>10 DEF BooksFit
      <4>4. at'[u] \in Ports /\ at'[u] # none
        BY <4>3, Exports, FedStreamsAssumption
      <4>5. seat[Dialer][at'[u]][sess'[u]] = "absent"
        BY <4>2, <4>4, FedStreamsAssumption DEF Inv, Seated
      <4> QED
        BY <3>1, <4>1, <4>5
    <3> QED
      BY <3>2, <3>3, <1>1
  <2> QED
    BY <2>1, <2>2, <1>7, <1>10 DEF BookStep
<1> QED
  BY <1>3, <1>4, <1>6, <1>11, <1>12

(* Steps no part of the invariant looks at: where a user is attached who   *)
(* has no session, and whether the peer was ever asked a seat for it, does *)
(* not matter.                                                             *)
Aside ==
  /\ UNCHANGED <<opened, cut, paths, leaving, wire, proxies, next, sess, stale,
                 mapped, seat, left>>
  /\ \A u \in Users : sess[u] # 0 => at'[u] = at[u] /\ (u \in asked => u \in asked')
  /\ \A n \in Nodes, c \in Conns : loop'[n][c].todo = loop[n][c].todo

LEMMA QuietKeeps == Inv /\ Types' /\ Aside => Inv'
<1> SUFFICES ASSUME Inv, Types', Aside PROVE Inv'
  OBVIOUS
<1>1. PathsFit' /\ Seated' /\ AloneEmpty'
  BY DEF Inv, Aside, PathsFit, Seated, AloneEmpty, Alive
<1>2. BooksFit'
  BY DEF Inv, Aside, BooksFit
<1>3. OpensKnown'
  BY DEF Inv, Aside, OpensKnown, Known, UsersAt
<1>4. NumbersFresh'
  BY DEF Inv, Aside, NumbersFresh, UsersAt, Alive
<1>5. Renewed'
  <2>1. \A c \in Alive : c \in Conns
    BY FedStreamsAssumption DEF Inv, Types, Conns, Alive
  <2> QED
    BY <2>1 DEF Inv, Aside, Renewed, UsersAt, Alive, Sids
<1> QED
  BY <1>1, <1>2, <1>3, <1>4, <1>5 DEF Inv

-----------------------------------------------------------------------------
(* Frames read by the other server *)

(* What w has become when its first frame, of this kind and number, was    *)
(* taken.                                                                  *)
Loses(w, v, k, s) ==
  /\ \A kind, t : HasFrame(w, kind, t) <=> (kind = k /\ t = s) \/ HasFrame(v, kind, t)
  /\ HasPorts(w) => k = "ports" \/ HasPorts(v)
  /\ \A t : OpenEnds(v, t) => OpenEnds(w, t)
  /\ k = "open" => OpenEnds(w, s) \/ HasFrame(v, "close", s)

(* Only an OPEN maps a number, and seats it read-only; only a REQUEST      *)
(* gives a seat the slot; the ports read are all still to be registered.   *)
ReadStep(n, c, k, s) ==
  /\ c \in Alive
  /\ UNCHANGED <<opened, cut, paths, leaving, left, next, sess, at, stale, asked>>
  /\ \A d \in Conns, x \in Nodes : d # c => wire'[d][x] = wire[d][x]
  /\ Loses(wire[c][Peer(n)], wire'[c][Peer(n)], k, s)
  /\ Gains(wire[c][n], wire'[c][n], {}, {}, {})
  /\ \A x \in Nodes, t \in Sids :
       mapped'[x][t] # none => mapped[x][t] # none \/ (x = n /\ t = s /\ k = "open")
  /\ k = "close" /\ s \in Sids => mapped'[n][s] = none
  /\ \A x \in Nodes, p \in Ports, t \in Sids :
       seat'[x][p][t] = "read-write" =>
         \/ seat[x][p][t] = "read-write" /\ ~(x = n /\ t = s /\ k = "open")
         \/ x = n /\ t = s /\ k = "request"
  /\ \A x \in Nodes, d \in Conns : loop[x][d].todo \subseteq loop'[x][d].todo
  /\ k = "ports" => loop'[n][c].todo = Exported[Peer(n)]

LEMMA ReadKeeps ==
  ASSUME Inv, Types', BooksFit', NEW n \in Nodes, NEW c \in Conns, NEW k, NEW s \in Nat,
         ReadStep(n, c, k, s)
  PROVE  PathsFit' /\ OpensKnown' /\ AloneEmpty' /\ NumbersFresh' /\ Renewed'
<1>1. /\ UNCHANGED <<opened, cut, paths, leaving, left, next, sess, at, stale, asked>>
      /\ Alive' = Alive /\ c \in Alive
  BY DEF ReadStep, Alive
<1>2. \A d \in Conns, x \in Nodes :
        \/ d # c /\ wire'[d][x] = wire[d][x]
        \/ d = c /\ x = n /\ Gains(wire[d][x], wire'[d][x], {}, {}, {})
        \/ d = c /\ x = Peer(n) /\ Loses(wire[d][x], wire'[d][x], k, s)
  BY Peers DEF ReadStep
<1>3. \A d \in Alive : d = c /\ \A x \in Nodes : d \in paths[x]
  BY <1>1 DEF Inv, PathsFit
<1>4. PathsFit'
  <2>1. \A d \in Conns \ Alive, x \in Nodes : wire'[d][x] = <<>>
    BY <1>1, <1>2 DEF Inv, PathsFit
  <2> QED
    BY <1>1, <2>1 DEF Inv, PathsFit
<1>5. \A x \in Nodes, t \in Sids :
        mapped'[x][t] # none => mapped[x][t] # none \/ (x = n /\ t = s /\ k = "open")
  BY DEF ReadStep
<1>6. AloneEmpty'
  BY <1>1, <1>3, <1>5, FedStreamsAssumption DEF Inv, AloneEmpty
<1>7. \A x \in Nodes, t \in Sids : Known(x, t)' <=> Known(x, t)
  BY <1>1 DEF Known, UsersAt
<1>8. OpensKnown'
  <2> SUFFICES ASSUME NEW x \in Nodes, NEW t \in Sids
               PROVE  /\ mapped'[Peer(x)][t] # none =>
                           \/ Known(x, t) \/ t \in left[x]
                           \/ \E d \in Conns : HasFrame(wire'[d][x], "close", t)
                      /\ \A d \in Conns : OpenEnds(wire'[d][x], t) => Known(x, t) \/ t \in left[x]
    BY <1>1, <1>7 DEF OpensKnown
  <2>1. ASSUME NEW d \in Conns, OpenEnds(wire'[d][x], t) PROVE Known(x, t) \/ t \in left[x]
    <3>1. OpenEnds(wire[d][x], t)
      BY <1>2, <2>1 DEF Gains, Loses
    <3> QED
      BY <3>1 DEF Inv, OpensKnown
  <2>2. ASSUME mapped'[Peer(x)][t] # none, ~Known(x, t), t \notin left[x]
        PROVE  \E d \in Conns : HasFrame(wire'[d][x], "close", t)
    <3>1. CASE mapped[Peer(x)][t] # none
      <4>1. PICK d \in Conns : HasFrame(wire[d][x], "close", t)
        BY <2>2, <3>1 DEF Inv, OpensKnown
      <4>2. CASE d = c /\ x = Peer(n) /\ k = "close" /\ s = t
        <5>1. Peer(x) = n /\ mapped'[n][s] = none
          BY <4>2, Peers DEF ReadStep
        <5> QED
          BY <5>1, <4>2, <2>2
      <4> QED
        BY <4>1, <4>2, <1>2 DEF Gains, Loses
    <3>2. CASE mapped[Peer(x)][t] = none
      <4>1. Peer(x) = n /\ x = Peer(n) /\ t = s /\ k = "open"
        BY <2>2, <3>2, <1>5, Peers
      <4>2. OpenEnds(wire[c][x], t) \/ HasFrame(wire'[c][x], "close", t)
        BY <4>1 DEF ReadStep, Loses
      <4>3. ~OpenEnds(wire[c][x], t)
        BY <2>2 DEF Inv, OpensKnown
      <4> QED
        BY <4>2, <4>3
    <3> QED
      BY <3>1, <3>2
  <2> QED
    BY <2>1, <2>2
<1>9. \A x \in Nodes, kind \in {"open", "request"}, t \in Nat :
        HasFrame(wire'[c][x], kind, t) => HasFrame(wire[c][x], kind, t)
  BY <1>2 DEF Gains, Loses
<1>10. NumbersFresh'
  <2> SUFFICES ASSUME NEW x \in Nodes
               PROVE  /\ \A t \in Nat, kind \in {"open", "request"} :
                           HasFrame(wire'[c][x], kind, t) => t <= next[x]
                      /\ \A u \in UsersAt(x) :
                           HasFrame(wire'[c][x], "request", sess[u]) /\ sess[u] # 0 => u \in asked
                      /\ x # Dialer => \A t \in Sids : mapped'[Dialer][t] # none => t <= next[x]
    BY <1>1, <1>3 DEF NumbersFresh, UsersAt
  <2>1. \A t \in Nat, kind \in {"open", "request"} :
          HasFrame(wire'[c][x], kind, t) => t <= next[x]
    BY <1>1, <1>9 DEF Inv, NumbersFresh
  <2>2. ASSUME NEW u \in UsersAt(x), HasFrame(wire'[c][x], "request", sess[u]), sess[u] # 0
        PROVE  u \in asked
    <3>1. sess[u] \in Nat
      BY DEF UsersAt, Inv, Types
    <3>2. HasFrame(wire[c][x], "request", sess[u])
      BY <3>1, <1>9, <2>2
    <3> QED
      BY <3>2, <2>2, <1>1 DEF Inv, NumbersFresh
  <2>3. ASSUME x # Dialer, NEW t \in Sids, mapped'[Dialer][t] # none PROVE t <= next[x]
    <3>1. CASE mapped[Dialer][t] # none
      BY <3>1, <2>3, <1>1 DEF Inv, NumbersFresh
    <3>2. CASE n = Dialer /\ t = s /\ k = "open"
      <4>1. x = Peer(n)
        BY <3>2, <2>3, Peers
      <4>2. HasFrame(wire[c][x], "open", t)
        BY <4>1, <3>2 DEF ReadStep, Loses
      <4> QED
        BY <4>2, <3>2, <1>1 DEF Inv, NumbersFresh
    <3> QED
      BY <3>1, <3>2, <2>3, <1>5, FedStreamsAssumption
  <2> QED
    BY <2>1, <2>2, <2>3
<1>11. Renewed'
  <2> SUFFICES ASSUME NEW x \in Nodes, NEW u \in UsersAt(x), sess[u] \in Sids,
                      ~HasPorts(wire'[c][Peer(x)]), at[u] \notin loop'[x][c].todo,
                      ~HasFrame(wire'[c][x], "open", sess[u]),
                      seat'[Peer(x)][at[u]][sess[u]] = "read-write"
               PROVE  u \in asked
    BY <1>1, <1>3 DEF Renewed, UsersAt
  <2>1. /\ u \in Users /\ Home[u] = x /\ Peer(x) \in Nodes
        /\ at[u] \in Exported[Peer(x)] /\ at[u] \in Ports
    BY Peers, Exports DEF UsersAt, Inv, BooksFit, Sids
  <2>2. \/ seat[Peer(x)][at[u]][sess[u]] = "read-write"
             /\ ~(Peer(x) = n /\ sess[u] = s /\ k = "open")
        \/ Peer(x) = n /\ sess[u] = s /\ k = "request"
    BY <2>1 DEF ReadStep
  <2>3. CASE Peer(x) = n /\ sess[u] = s /\ k = "request"
    <3>1. HasFrame(wire[c][x], "request", sess[u])
      BY <2>3, Peers DEF ReadStep, Loses
    <3> QED
      BY <3>1, <1>1 DEF Inv, NumbersFresh, Sids
  <2>4. CASE seat[Peer(x)][at[u]][sess[u]] = "read-write"
               /\ ~(Peer(x) = n /\ sess[u] = s /\ k = "open")
    <3>1. ~HasPorts(wire[c][Peer(x)])
      <4>1. CASE k = "ports" /\ Peer(x) = Peer(n)
        <5>1. x = n /\ loop'[x][c].todo = Exported[Peer(x)]
          BY <4>1, Peers DEF ReadStep
        <5> QED
          BY <5>1, <2>1
      <4> QED
        BY <4>1, <1>2, <2>1 DEF Gains, Loses
    <3>2. at[u] \notin loop[x][c].todo
      BY DEF ReadStep
    <3>3. ~HasFrame(wire[c][x], "open", sess[u])
      <4>1. CASE x = n
        BY <4>1, <1>2, Peers DEF Gains
      <4>2. CASE x = Peer(n)
        BY <4>2, <2>4, <1>2, Peers DEF Loses
      <4> QED
        BY <4>1, <4>2, Peers
    <3> QED
      BY <2>4, <3>1, <3>2, <3>3, <1>1 DEF Inv, Renewed
  <2> QED
    BY <2>2, <2>3, <2>4
<1> QED
  BY <1>4, <1>6, <1>8, <1>10, <1>11

LEMMA TakenGives ==
  ASSUME Types, PathsFit, NEW n \in Nodes, NEW c \in Conns, NEW k, Reads(n, c, k)
  PROVE  LET m == Peer(n)
             h == Head(wire[c][m])
             w == Taken(c, m)
         IN /\ c \in Alive /\ c \in paths[n]
            /\ h \in AnyFrames /\ h.kind = k /\ h.sid \in Nat
            /\ k \in {"open", "request"} => h.port \in Ports
            /\ w \in [Conns -> [Nodes -> Seq(AnyFrames)]]
            /\ \A d \in Conns, x \in Nodes : d # c \/ x # m => w[d][x] = wire[d][x]
            /\ Loses(wire[c][m], w[c][m], k, h.sid)
<1> DEFINE m == Peer(n)
           v == wire[c][m]
           h == Head(v)
           w == Taken(c, m)
<1>1. m \in Nodes /\ v \in Seq(AnyFrames)
  BY Peers DEF Types
<1>2. c \in paths[n] /\ v # <<>> /\ h.kind = k
  BY DEF Reads, Head1
<1>3. c \in Alive
  BY <1>1, <1>2 DEF PathsFit
<1>4. w = [wire EXCEPT ![c][m] = Tail(v)]
  BY DEF Taken
<1> HIDE DEF w, m
<1>5. w[c][m] = Tail(v) /\ \A d \in Conns, x \in Nodes : d # c \/ x # m => w[d][x] = wire[d][x]
  BY <1>1, <1>4 DEF Types
<1> HIDE DEF v
<1>6. /\ h \in AnyFrames /\ Tail(v) \in Seq(AnyFrames)
      /\ \A kind, s : HasFrame(v, kind, s) <=> \/ h.kind = kind /\ h.sid = s
                                               \/ HasFrame(Tail(v), kind, s)
      /\ HasPorts(v) <=> h = PortsFrame \/ HasPorts(Tail(v))
      /\ \A s : OpenEnds(Tail(v), s) => OpenEnds(v, s)
      /\ h.kind = "open" => OpenEnds(v, h.sid) \/ HasFrame(Tail(v), "close", h.sid)
  BY <1>1, <1>2, WireLoses
<1>7. h.sid \in Nat /\ (h.kind \in {"open", "request"} => h.port \in Ports)
  BY <1>6 DEF AnyFrames
<1>8. PortsFrame.kind = "ports"
  BY DEF PortsFrame, Frame
<1> HIDE DEF h
<1>9. Loses(v, Tail(v), k, h.sid)
  BY <1>2, <1>6, <1>8 DEF Loses
<1>10. w \in [Conns -> [Nodes -> Seq(AnyFrames)]]
  BY <1>1, <1>4, <1>6 DEF Types
<1> QED
  BY <1>2, <1>3, <1>5, <1>6, <1>7, <1>9, <1>10 DEF h, v, w, m

LEMMA GainsNothing == \A w : Gains(w, w, {}, {}, {})
  BY DEF Gains

(* An answer sent on the way gains the other end nothing it may keep.      *)
LEMMA AckGains ==
  ASSUME NEW w \in Seq(AnyFrames), NEW f \in AnyFrames, f.kind = "ack"
  PROVE  w \o <<f>> \in Seq(AnyFrames) /\ Gains(w, w \o <<f>>, {}, {}, {})
<1>1. PortsFrame.kind = "ports"
  BY DEF PortsFrame, Frame
<1>2. /\ <<f>> \in Seq(AnyFrames) /\ ~HasPorts(<<f>>)
      /\ \A k, s : HasFrame(<<f>>, k, s) <=> k = "ack" /\ s = f.sid
      /\ \A s : ~OpenEnds(<<f>>, s)
  BY <1>1, OneFrame
<1> DEFINE v == w \o <<f>>
<1>3. /\ v \in Seq(AnyFrames)
      /\ \A k, s : HasFrame(v, k, s) <=> HasFrame(w, k, s) \/ (k = "ack" /\ s = f.sid)
      /\ HasPorts(v) <=> HasPorts(w)
      /\ \A s : OpenEnds(v, s) => OpenEnds(w, s)
  BY <1>2, WireGains
<1> HIDE DEF v
<1>4. Gains(w, v, {}, {}, {})
  BY <1>3 DEF Gains
<1> QED
  BY <1>3, <1>4 DEF v

LEMMA ReadPortsKeeps ==
  ASSUME Inv, NEW n \in Nodes, NEW c \in Conns, ReadPorts(n, c)
  PROVE  Inv'
<1> DEFINE s == Head(wire[c][Peer(n)]).sid
<1>1. Reads(n, c, "ports") /\ wire' = Taken(c, Peer(n)) /\ loop[n][c].todo = {}
  BY DEF ReadPorts, Reads, Idle
<1>2. /\ c \in Alive /\ s \in Nat /\ wire' \in [Conns -> [Nodes -> Seq(AnyFrames)]]
      /\ \A d \in Conns, x \in Nodes : d # c \/ x # Peer(n) => wire'[d][x] = wire[d][x]
      /\ Loses(wire[c][Peer(n)], wire'[c][Peer(n)], "ports", s)
  BY <1>1, TakenGives DEF Inv
<1> HIDE DEF s
<1>3. /\ UNCHANGED <<opened, cut, paths, leaving, left, next, sess, at, stale, asked,
                     proxies, mapped, seat>>
      /\ loop' = [loop EXCEPT ![n][c] = [Idle EXCEPT !.todo = Exported[Peer(n)], !.busy = TRUE]]
  BY DEF ReadPorts, viewVars, portVars
<1>4. Peer(n) \in Nodes /\ Peer(n) # n /\ Exported[Peer(n)] \subseteq Ports
  BY Peers, Exports
<1>5. [Idle EXCEPT !.todo = Exported[Peer(n)], !.busy = TRUE] \in Loops
  BY <1>4 DEF Idle, Loops
<1>6. Types'
  BY <1>2, <1>3, <1>5 DEF Inv, Types
<1>7. /\ loop'[n][c].todo = Exported[Peer(n)]
      /\ \A x \in Nodes, d \in Conns : x # n \/ d # c => loop'[x][d] = loop[x][d]
  BY <1>3 DEF Idle, Inv, Types
<1>8. BooksFit'
  BY <1>3, <1>7 DEF Inv, BooksFit
<1>9. Gains(wire[c][n], wire'[c][n], {}, {}, {})
  BY <1>2, <1>4, GainsNothing
<1>10. ReadStep(n, c, "ports", s)
  BY <1>1, <1>2, <1>3, <1>7, <1>9 DEF ReadStep
<1>11. Seated'
  BY <1>3 DEF Inv, Seated
<1> QED
  BY <1>2, <1>6, <1>8, <1>10, <1>11, ReadKeeps DEF Inv

LEMMA ReadAckKeeps ==
  ASSUME Inv, NEW n \in Nodes, NEW c \in Conns, ReadAck(n, c)
  PROVE  Inv'
<1> DEFINE s == Head(wire[c][Peer(n)]).sid
<1>1. Reads(n, c, "ack") /\ wire' = Taken(c, Peer(n))
  BY DEF ReadAck
<1>2. /\ c \in Alive /\ s \in Nat /\ wire' \in [Conns -> [Nodes -> Seq(AnyFrames)]]
      /\ \A d \in Conns, x \in Nodes : d # c \/ x # Peer(n) => wire'[d][x] = wire[d][x]
      /\ Loses(wire[c][Peer(n)], wire'[c][Peer(n)], "ack", s)
  BY <1>1, TakenGives DEF Inv
<1> HIDE DEF s
<1>3. UNCHANGED <<opened, cut, paths, leaving, left, next, sess, at, stale, asked,
                  proxies, mapped, seat, loop>>
  BY DEF ReadAck, portVars
<1>4. Types'
  BY <1>2, <1>3 DEF Inv, Types
<1>5. BooksFit' /\ Seated'
  BY <1>3 DEF Inv, BooksFit, Seated
<1>6. Gains(wire[c][n], wire'[c][n], {}, {}, {})
  BY <1>2, Peers, GainsNothing
<1>7. ReadStep(n, c, "ack", s)
  BY <1>2, <1>3, <1>6 DEF ReadStep
<1> QED
  BY <1>2, <1>4, <1>5, <1>7, ReadKeeps DEF Inv

(* One seat that changes, if there is such a port and such a number.       *)
Put(S, p, s, v) == [S EXCEPT ![p][s] = v]

LEMMA PutSeat ==
  ASSUME NEW S \in [Ports -> [Sids -> Seats]], NEW p, NEW s, NEW v \in Seats
  PROVE  /\ Put(S, p, s, v) \in [Ports -> [Sids -> Seats]]
         /\ \A q \in Ports, t \in Sids :
              Put(S, p, s, v)[q][t] = IF q = p /\ t = s THEN v ELSE S[q][t]
<1> USE DEF Put
<1>1. CASE p \in Ports
  <2>1. [S[p] EXCEPT ![s] = v] \in [Sids -> Seats]
    BY <1>1
  <2> QED
    BY <1>1, <2>1
<1>2. CASE p \notin Ports
  BY <1>2
<1> QED
  BY <1>1, <1>2

LEMMA ReadOpenKeeps ==
  ASSUME Inv, NEW n \in Nodes, NEW c \in Conns, ReadOpen(n, c)
  PROVE  Inv'
<1> DEFINE f == Head(wire[c][Peer(n)])
           s == f.sid
           before == PortOf(n, s)
           freed == IF before # none /\ before # f.port
                    THEN [seat[n] EXCEPT ![before][s] = "absent"] ELSE seat[n]
<1>1. Reads(n, c, "open") /\ wire' = Taken(c, Peer(n))
  BY DEF ReadOpen
<1>2. /\ c \in Alive /\ s \in Nat /\ wire' \in [Conns -> [Nodes -> Seq(AnyFrames)]]
      /\ \A d \in Conns, x \in Nodes : d # c \/ x # Peer(n) => wire'[d][x] = wire[d][x]
      /\ Loses(wire[c][Peer(n)], wire'[c][Peer(n)], "open", s)
      /\ f.port \in Ports
  BY <1>1, TakenGives DEF Inv
<1>3. /\ UNCHANGED <<opened, cut, paths, leaving, left, next, sess, at, stale, asked,
                     proxies, loop>>
      /\ mapped' = [mapped EXCEPT ![n][s] = f.port]
      /\ seat' = [seat EXCEPT ![n] = [freed EXCEPT ![f.port][s] = "read-only"]]
  BY DEF ReadOpen, viewVars
<1> HIDE DEF s, f
<1>4. /\ mapped \in [Nodes -> [Sids -> Ports \cup {none}]] /\ seat[n] \in [Ports -> [Sids -> Seats]]
      /\ seat \in [Nodes -> [Ports -> [Sids -> Seats]]]
      /\ "absent" \in Seats /\ "read-only" \in Seats
  BY DEF Inv, Types, Seats
<1>5. before \in Ports \cup {none} /\ none \notin Ports
  BY <1>4, Exports DEF PortOf
<1>6. \A p \in Ports : s \in Sids /\ p # before => seat[n][p][s] = "absent"
  BY DEF Inv, Seated, PortOf
<1> HIDE DEF before
<1>7. /\ freed \in [Ports -> [Sids -> Seats]]
      /\ \A p \in Ports, t \in Sids :
           /\ t # s => freed[p][t] = seat[n][p][t]
           /\ t = s /\ p # f.port => freed[p][t] = "absent"
  <2>1. CASE before # none /\ before # f.port
    <3>1. freed = Put(seat[n], before, s, "absent")
      BY <2>1 DEF Put
    <3> HIDE DEF freed
    <3>2. /\ freed \in [Ports -> [Sids -> Seats]]
          /\ \A q \in Ports, t \in Sids :
               freed[q][t] = IF q = before /\ t = s THEN "absent" ELSE seat[n][q][t]
      <4>1. seat[n] \in [Ports -> [Sids -> Seats]] /\ "absent" \in Seats
        BY <1>4
      <4>2. LET T == Put(seat[n], before, s, "absent") IN
            /\ T \in [Ports -> [Sids -> Seats]]
            /\ \A q \in Ports, t \in Sids :
                 T[q][t] = IF q = before /\ t = s THEN "absent" ELSE seat[n][q][t]
        BY <4>1, PutSeat
      <4> QED
        BY <3>1, <4>2
    <3> QED
      BY <3>2, <1>6
  <2>2. CASE before = none \/ before = f.port
    <3>1. freed = seat[n]
      BY <2>2
    <3> HIDE DEF freed
    <3> QED
      BY <3>1, <2>2, <1>4, <1>5, <1>6
  <2> QED
    BY <2>1, <2>2
<1> HIDE DEF freed
<1>8. LET T == Put(freed, f.port, s, "read-only") IN
      /\ T \in [Ports -> [Sids -> Seats]]
      /\ \A p \in Ports, t \in Sids :
           T[p][t] = IF t # s THEN seat[n][p][t]
                     ELSE IF p = f.port THEN "read-only" ELSE "absent"
  BY <1>4, <1>7, PutSeat
<1>9. /\ seat' \in [Nodes -> [Ports -> [Sids -> Seats]]]
      /\ \A x \in Nodes : x # n => seat'[x] = seat[x]
      /\ \A p \in Ports, t \in Sids :
           seat'[n][p][t] = IF t # s THEN seat[n][p][t]
                            ELSE IF p = f.port THEN "read-only" ELSE "absent"
  BY <1>3, <1>4, <1>8 DEF Put
<1>10. /\ mapped' \in [Nodes -> [Sids -> Ports \cup {none}]]
       /\ \A x \in Nodes, t \in Sids :
            mapped'[x][t] = IF x = n /\ t = s THEN f.port ELSE mapped[x][t]
  BY <1>2, <1>3, <1>4
<1>11. Types'
  BY <1>2, <1>3, <1>9, <1>10 DEF Inv, Types
<1>12. BooksFit'
  BY <1>3 DEF Inv, BooksFit
<1>13. Seated'
  <2> SUFFICES ASSUME NEW x \in Nodes, NEW p \in Ports, NEW t \in Sids, seat'[x][p][t] # "absent"
               PROVE  mapped'[x][t] = p
    BY DEF Seated
  <2>1. CASE x = n /\ t = s
    BY <2>1, <1>9, <1>10
  <2>2. CASE x # n \/ t # s
    <3>1. seat[x][p][t] # "absent" /\ mapped'[x][t] = mapped[x][t]
      BY <2>2, <1>9, <1>10
    <3> QED
      BY <3>1 DEF Inv, Seated
  <2> QED
    BY <2>1, <2>2
<1>14. Gains(wire[c][n], wire'[c][n], {}, {}, {})
  BY <1>2, Peers, GainsNothing
<1>15. \A x \in Nodes, p \in Ports, t \in Sids :
         seat'[x][p][t] = "read-write" =>
           seat[x][p][t] = "read-write" /\ ~(x = n /\ t = s)
  BY <1>9
<1>16. ReadStep(n, c, "open", s)
  BY <1>2, <1>3, <1>10, <1>14, <1>15 DEF ReadStep
<1> QED
  BY <1>2, <1>11, <1>12, <1>13, <1>16, ReadKeeps DEF Inv

LEMMA ReadCloseKeeps ==
  ASSUME Inv, NEW n \in Nodes, NEW c \in Conns, ReadClose(n, c)
  PROVE  Inv'
<1> DEFINE s == Head(wire[c][Peer(n)]).sid
           p0 == PortOf(n, s)
<1>1. Reads(n, c, "close") /\ wire' = Taken(c, Peer(n))
  BY DEF ReadClose
<1>2. /\ c \in Alive /\ s \in Nat /\ wire' \in [Conns -> [Nodes -> Seq(AnyFrames)]]
      /\ \A d \in Conns, x \in Nodes : d # c \/ x # Peer(n) => wire'[d][x] = wire[d][x]
      /\ Loses(wire[c][Peer(n)], wire'[c][Peer(n)], "close", s)
  BY <1>1, TakenGives DEF Inv
<1>3. /\ UNCHANGED <<opened, cut, paths, leaving, left, next, sess, at, stale, asked,
                     proxies, loop>>
      /\ mapped' = [mapped EXCEPT ![n][s] = none]
      /\ seat' = IF p0 = none THEN seat ELSE [seat EXCEPT ![n][p0][s] = "absent"]
  BY DEF ReadClose
<1> HIDE DEF s
<1>4. /\ mapped \in [Nodes -> [Sids -> Ports \cup {none}]] /\ seat[n] \in [Ports -> [Sids -> Seats]]
      /\ seat \in [Nodes -> [Ports -> [Sids -> Seats]]] /\ "absent" \in Seats
  BY DEF Inv, Types, Seats
<1>5. /\ mapped' \in [Nodes -> [Sids -> Ports \cup {none}]]
      /\ \A x \in Nodes, t \in Sids :
           mapped'[x][t] = IF x = n /\ t = s THEN none ELSE mapped[x][t]
  BY <1>3, <1>4
<1>6. s \in Sids => \A p \in Ports : p # p0 => seat[n][p][s] = "absent"
  BY DEF Inv, Seated, PortOf
<1> HIDE DEF p0
<1>7. /\ seat' \in [Nodes -> [Ports -> [Sids -> Seats]]]
      /\ \A x \in Nodes, p \in Ports, t \in Sids :
           seat'[x][p][t] = IF x = n /\ t = s THEN "absent" ELSE seat[x][p][t]
  <2>1. CASE p0 = none
    BY <2>1, <1>3, <1>4, <1>6, Exports
  <2>2. CASE p0 # none
    <3>1. seat' = [seat EXCEPT ![n] = Put(seat[n], p0, s, "absent")]
      BY <2>2, <1>3, <1>4 DEF Put
    <3>2. LET T == Put(seat[n], p0, s, "absent") IN
          /\ T \in [Ports -> [Sids -> Seats]]
          /\ \A p \in Ports, t \in Sids : T[p][t] = IF t = s THEN "absent" ELSE seat[n][p][t]
      BY <1>4, <1>6, PutSeat
    <3> QED
      BY <3>1, <3>2, <1>4
  <2> QED
    BY <2>1, <2>2
<1>8. Types'
  BY <1>2, <1>3, <1>5, <1>7 DEF Inv, Types
<1>9. BooksFit'
  BY <1>3 DEF Inv, BooksFit
<1>10. Seated'
  <2> SUFFICES ASSUME NEW x \in Nodes, NEW p \in Ports, NEW t \in Sids, seat'[x][p][t] # "absent"
               PROVE  mapped'[x][t] = p
    BY DEF Seated
  <2>1. seat[x][p][t] # "absent" /\ mapped'[x][t] = mapped[x][t]
    BY <1>5, <1>7
  <2> QED
    BY <2>1 DEF Inv, Seated
<1>11. Gains(wire[c][n], wire'[c][n], {}, {}, {})
  BY <1>2, Peers, GainsNothing
<1>12. /\ \A x \in Nodes, p \in Ports, t \in Sids :
            seat'[x][p][t] = "read-write" => seat[x][p][t] = "read-write"
       /\ \A x \in Nodes, t \in Sids : mapped'[x][t] # none => mapped[x][t] # none
       /\ s \in Sids => mapped'[n][s] = none
  BY <1>5, <1>7
<1>13. ReadStep(n, c, "close", s)
  BY <1>2, <1>3, <1>11, <1>12 DEF ReadStep
<1> QED
  BY <1>2, <1>8, <1>9, <1>10, <1>13, ReadKeeps DEF Inv

LEMMA ReadRequestKeeps ==
  ASSUME Inv, NEW n \in Nodes, NEW c \in Conns, ReadRequest(n, c)
  PROVE  Inv'
<1> DEFINE f == Head(wire[c][Peer(n)])
           s == f.sid
           w == Taken(c, Peer(n))
           now == IF SlotFree(n, f.port, s) THEN "read-write" ELSE seat[n][f.port][s]
           ack == Frame("ack", s, f.port, now)
<1>1. Reads(n, c, "request")
  BY DEF ReadRequest
<1>2. /\ c \in Alive /\ c \notin cut /\ s \in Nat /\ w \in [Conns -> [Nodes -> Seq(AnyFrames)]]
      /\ \A d \in Conns, x \in Nodes : d # c \/ x # Peer(n) => w[d][x] = wire[d][x]
      /\ Loses(wire[c][Peer(n)], w[c][Peer(n)], "request", s)
      /\ f.port \in Ports
  BY <1>1, TakenGives DEF Inv, Alive
<1>3. /\ UNCHANGED <<opened, cut, paths, leaving, left, next, sess, at, stale, asked,
                     proxies, loop, mapped>>
      /\ IF PortOf(n, s) # f.port THEN wire' = w /\ UNCHANGED seat
         ELSE /\ seat' = [seat EXCEPT ![n][f.port][s] = now]
              /\ wire' = Sent(w, c, n, <<ack>>)
  BY DEF ReadRequest, viewVars
<1>4. /\ mapped \in [Nodes -> [Sids -> Ports \cup {none}]] /\ seat[n] \in [Ports -> [Sids -> Seats]]
      /\ seat \in [Nodes -> [Ports -> [Sids -> Seats]]] /\ "read-write" \in Seats
  BY DEF Inv, Types, Seats
<1> HIDE DEF f, s, w
<1>5. Peer(n) \in Nodes /\ Peer(n) # n
  BY Peers
<1>6. CASE PortOf(n, s) # f.port
  <2>1. wire' = w /\ UNCHANGED seat
    BY <1>3, <1>6
  <2>2. Types'
    BY <1>2, <1>3, <2>1 DEF Inv, Types
  <2>3. BooksFit' /\ Seated'
    BY <1>3, <2>1 DEF Inv, BooksFit, Seated
  <2>4. Gains(wire[c][n], wire'[c][n], {}, {}, {})
    BY <1>2, <1>5, <2>1, GainsNothing
  <2>5. ReadStep(n, c, "request", s)
    BY <1>2, <1>3, <2>1, <2>4 DEF ReadStep
  <2> QED
    BY <1>2, <2>2, <2>3, <2>5, ReadKeeps DEF Inv
<1>7. CASE PortOf(n, s) = f.port
  <2>1. s \in Sids /\ mapped[n][s] = f.port /\ f.port \in Ports
    BY <1>2, <1>7, Exports DEF PortOf
  <2>2. now \in Seats
    BY <2>1, <1>4
  <2>3. ack \in AnyFrames /\ ack.kind = "ack" /\ ack # PortsFrame
    <3>1. "ack" \in Kinds /\ PortsFrame.kind = "ports" /\ ack.kind = "ack"
      BY FrameIs DEF Kinds, PortsFrame
    <3> QED
      BY <3>1, <2>1, <2>2, <1>2, FrameType
  <2>4. seat' = [seat EXCEPT ![n][f.port][s] = now] /\ wire' = Sent(w, c, n, <<ack>>)
    BY <1>3, <1>7
  <2> HIDE DEF now, ack
  <2>5. wire' = [w EXCEPT ![c][n] = @ \o <<ack>>]
    BY <2>4, <1>2 DEF Sent
  <2>6. /\ w[c][n] \in Seq(AnyFrames) /\ <<ack>> \in Seq(AnyFrames)
        /\ w[c][n] \o <<ack>> \in Seq(AnyFrames)
    BY <1>2, <2>3, AckGains
  <2>7. /\ wire' \in [Conns -> [Nodes -> Seq(AnyFrames)]]
        /\ wire'[c][n] = w[c][n] \o <<ack>>
        /\ \A d \in Conns, x \in Nodes : d # c \/ x # n => wire'[d][x] = w[d][x]
    BY <2>5, <2>6, <1>2
  <2>8. Gains(w[c][n], wire'[c][n], {}, {}, {})
    BY <2>3, <2>6, <2>7, AckGains
  <2>9. LET T == Put(seat[n], f.port, s, now) IN
        /\ T \in [Ports -> [Sids -> Seats]]
        /\ \A p \in Ports, t \in Sids : T[p][t] = IF p = f.port /\ t = s THEN now ELSE seat[n][p][t]
    BY <1>4, <2>2, PutSeat
  <2>10. seat' = [seat EXCEPT ![n] = Put(seat[n], f.port, s, now)]
    BY <2>4, <1>4 DEF Put
  <2>11. /\ seat' \in [Nodes -> [Ports -> [Sids -> Seats]]]
         /\ \A x \in Nodes, p \in Ports, t \in Sids :
              seat'[x][p][t] = IF x = n /\ p = f.port /\ t = s THEN now ELSE seat[x][p][t]
    BY <2>9, <2>10, <1>4
  <2>12. Types'
    BY <2>7, <2>11, <1>3 DEF Inv, Types
  <2>13. BooksFit'
    BY <1>3 DEF Inv, BooksFit
  <2>14. Seated'
    <3> SUFFICES ASSUME NEW x \in Nodes, NEW p \in Ports, NEW t \in Sids, seat'[x][p][t] # "absent"
                 PROVE  mapped[x][t] = p
      BY <1>3 DEF Seated
    <3>1. CASE x = n /\ p = f.port /\ t = s
      BY <2>1, <3>1
    <3>2. CASE ~(x = n /\ p = f.port /\ t = s)
      <4>1. seat[x][p][t] # "absent"
        BY <2>11, <3>2
      <4> QED
        BY <4>1 DEF Inv, Seated
    <3> QED
      BY <3>1, <3>2
  <2>15. /\ \A d \in Conns, x \in Nodes : d # c => wire'[d][x] = wire[d][x]
         /\ Loses(wire[c][Peer(n)], wire'[c][Peer(n)], "request", s)
         /\ Gains(wire[c][n], wire'[c][n], {}, {}, {})
    BY <1>2, <1>5, <2>7, <2>8
  <2>16. \A x \in Nodes, p \in Ports, t \in Sids :
           seat'[x][p][t] = "read-write" => seat[x][p][t] = "read-write" \/ (x = n /\ t = s)
    BY <2>11
  <2>17. ReadStep(n, c, "request", s)
    BY <1>2, <1>3, <2>15, <2>16 DEF ReadStep
  <2> QED
    BY <1>2, <2>12, <2>13, <2>14, <2>17, ReadKeeps DEF Inv
<1> QED
  BY <1>6, <1>7

-----------------------------------------------------------------------------
(* Outages *)

LEMMA DialKeeps == Inv /\ Dial => Inv'
<1> SUFFICES ASSUME Inv, Dial PROVE Inv'
  OBVIOUS
<1> DEFINE c == opened + 1
           first == [n \in Nodes |-> IF Exported[n] = {} THEN <<>> ELSE <<PortsFrame>>]
<1>1. /\ opened < MaxConns /\ paths[Dialer] = {} /\ leaving[Dialer] = {} /\ opened' = c
      /\ paths' = [n \in Nodes |-> paths[n] \cup {c}]
      /\ wire' = [wire EXCEPT ![c] = first]
  BY DEF Dial
<1>2. UNCHANGED <<cut, leaving, loop, proxies, next, at, sess, stale, mapped, seat, asked, left>>
  BY DEF Dial, viewVars, portVars
<1>3. c \in Nat /\ c \in Conns /\ opened \in Nat /\ opened' \in 0..MaxConns
  BY <1>1, FedStreamsAssumption DEF Inv, Types, Conns
<1>4. Alive = {} /\ cut \subseteq 1..opened
  BY <1>1, FedStreamsAssumption DEF Inv, PathsFit
<1>5. Alive' = {c} /\ c \notin Alive
  BY <1>1, <1>2, <1>3, <1>4 DEF Alive
<1>6. PortsFrame \in AnyFrames /\ PortsFrame.kind = "ports"
  BY DEF PortsFrame, Frame, AnyFrames, Kinds
<1>7. <<>> \in Seq(AnyFrames) /\ <<PortsFrame>> \in Seq(AnyFrames)
  BY <1>6
<1>8. first \in [Nodes -> Seq(AnyFrames)]
  BY <1>7
<1>9. /\ wire' \in [Conns -> [Nodes -> Seq(AnyFrames)]]
      /\ \A n \in Nodes : wire'[c][n] = IF Exported[n] = {} THEN <<>> ELSE <<PortsFrame>>
      /\ \A d \in Conns, n \in Nodes : d # c => wire'[d][n] = wire[d][n]
  BY <1>1, <1>3, <1>8 DEF Inv, Types
<1>10. \A n \in Nodes : /\ \A s : \A k \in {"open", "request", "close"} :
                                   ~HasFrame(wire'[c][n], k, s)
                        /\ \A s : ~OpenEnds(wire'[c][n], s)
                        /\ Exported[n] # {} => HasPorts(wire'[c][n])
  BY <1>6, <1>9, EmptyWire, OneFrame
<1>11. \A n \in Nodes : wire[c][n] = <<>>
  BY <1>3, <1>5 DEF Inv, PathsFit
<1> HIDE DEF first
<1>12. Types'
  BY <1>1, <1>2, <1>3, <1>9 DEF Inv, Types
<1>13. PathsFit'
  <2>1. /\ opened' = opened + 1 /\ cut' = cut
        /\ \A n \in Nodes : paths'[n] = paths[n] \cup {opened + 1}
    BY <1>1, <1>2
  <2>2. \A n \in Nodes : paths'[n] \subseteq 1..opened' /\ leaving'[n] \subseteq cut'
    BY <2>1, <1>2, <1>3 DEF Inv, PathsFit
  <2>3. \A d \in Conns \ Alive', n \in Nodes : wire'[d][n] = <<>>
    BY <1>4, <1>5, <1>9 DEF Inv, PathsFit
  <2>4. cut' \subseteq 1..opened'
    BY <2>1, <1>3, <1>4
  <2>5. \A d \in paths'[Dialer] : d = opened'
    BY <2>1, <1>1, FedStreamsAssumption
  <2>6. \A d \in Alive' : d = opened' /\ \A n \in Nodes : d \in paths'[n]
    BY <1>5, <2>1
  <2> QED
    BY <2>2, <2>3, <2>4, <2>5, <2>6 DEF PathsFit
<1>14. BooksFit' /\ Seated'
  BY <1>2 DEF Inv, BooksFit, Seated
<1>15. AloneEmpty'
  <2>1. c \in paths'[Dialer]
    BY <1>1, FedStreamsAssumption
  <2> QED
    BY <2>1 DEF AloneEmpty
<1>16. OpensKnown'
  <2>1. \A n \in Nodes, s \in Sids : Known(n, s)' <=> Known(n, s)
    BY <1>2 DEF Known, UsersAt
  <2> SUFFICES ASSUME NEW n \in Nodes, NEW s \in Sids
               PROVE  /\ mapped[Peer(n)][s] # none =>
                           \/ Known(n, s) \/ s \in left[n]
                           \/ \E d \in Conns : HasFrame(wire'[d][n], "close", s)
                      /\ \A d \in Conns : OpenEnds(wire'[d][n], s) => Known(n, s) \/ s \in left[n]
    BY <1>2, <2>1 DEF OpensKnown
  <2>2. \A d \in Conns : HasFrame(wire[d][n], "close", s) => HasFrame(wire'[d][n], "close", s)
    BY <1>9, <1>11, EmptyWire
  <2>3. \A d \in Conns : OpenEnds(wire'[d][n], s) => OpenEnds(wire[d][n], s)
    BY <1>9, <1>10
  <2> QED
    BY <2>2, <2>3 DEF Inv, OpensKnown
<1>17. NumbersFresh'
  <2>1. \A s \in Sids : mapped'[Dialer][s] = none
    BY <1>1, <1>2 DEF Inv, AloneEmpty
  <2> QED
    BY <2>1, <1>5, <1>10 DEF NumbersFresh, UsersAt
<1>18. Renewed'
  <2> SUFFICES ASSUME NEW n \in Nodes, NEW u \in UsersAt(n), sess[u] \in Sids
               PROVE  HasPorts(wire'[c][Peer(n)])
    BY <1>2, <1>5 DEF Renewed, UsersAt
  <2>1. at[u] \in Exported[Peer(n)]
    BY DEF UsersAt, Sids, Inv, BooksFit
  <2> QED
    BY <2>1, <1>10, Peers
<1> QED
  BY <1>12, <1>13, <1>14, <1>15, <1>16, <1>17, <1>18 DEF Inv

LEMMA CutKeeps == ASSUME Inv, NEW c \in Conns, Cut(c) PROVE Inv'
<1>1. /\ cut' = cut \cup {c} /\ wire' = Emptied({c}) /\ Lost({c})
      /\ c \in UNION {paths[n] : n \in Nodes} /\ c \notin cut
  BY DEF Cut
<1>2. UNCHANGED <<opened, paths, leaving, loop, proxies, next, at, sess, stale,
                  mapped, seat, asked>>
  BY DEF Cut, viewVars, portVars
<1>3. c \in Alive /\ Alive = {c}
  <2>0. PICK n \in Nodes : c \in paths[n]
    BY <1>1
  <2>1. c \in 1..opened
    BY <2>0 DEF Inv, PathsFit
  <2>2. c \in Alive
    BY <1>1, <2>1 DEF Alive
  <2>3. \A d \in Alive : d = opened
    BY DEF Inv, PathsFit
  <2> QED
    BY <2>2, <2>3
<1>4. Alive' = {}
  BY <1>1, <1>2, <1>3 DEF Alive
<1>5. \A d \in Conns, n \in Nodes : wire'[d][n] = IF d = c THEN <<>> ELSE wire[d][n]
  BY <1>1 DEF Emptied
<1>6. \A d \in Conns, n \in Nodes : wire'[d][n] = <<>>
  BY <1>3, <1>5 DEF Inv, PathsFit
<1>7. \A n \in Nodes : left'[n] = left[n] \cup Closes(wire[c][n])
  BY <1>1 DEF Lost
<1>8. \A s : \A n \in Nodes : s \in Closes(wire[c][n]) <=> HasFrame(wire[c][n], "close", s)
  BY ClosesAre DEF Inv, Types
<1>9. \A n \in Nodes : Closes(wire[c][n]) \subseteq Nat
  <2> SUFFICES ASSUME NEW n \in Nodes PROVE Closes(wire[c][n]) \subseteq Nat
    OBVIOUS
  <2>1. wire[c][n] \in Seq(AnyFrames)
    BY DEF Inv, Types
  <2>2. \A i \in DOMAIN wire[c][n] : wire[c][n][i] \in AnyFrames
    BY <2>1
  <2> QED
    BY <2>2 DEF Closes, AnyFrames
<1>10. Types'
  <2>1. wire' \in [Conns -> [Nodes -> Seq(AnyFrames)]]
    <3>1. <<>> \in Seq(AnyFrames)
      OBVIOUS
    <3> QED
      BY <3>1, <1>1 DEF Emptied, Inv, Types
  <2>2. left' \in [Nodes -> SUBSET Nat]
    <3>1. \A n \in Nodes : left[n] \cup UNION {Closes(wire[d][n]) : d \in {c}} \in SUBSET Nat
      BY <1>9 DEF Inv, Types
    <3> QED
      BY <3>1, <1>1 DEF Lost
  <2> QED
    BY <1>2, <2>1, <2>2 DEF Inv, Types
<1>11. PathsFit'
  <2>1. \A n \in Nodes : paths'[n] \subseteq 1..opened' /\ leaving'[n] \subseteq cut'
    BY <1>1, <1>2 DEF Inv, PathsFit
  <2>2. cut' \subseteq 1..opened'
    BY <1>1, <1>2, <1>3 DEF Inv, PathsFit, Alive
  <2> QED
    BY <1>2, <1>4, <1>6, <2>1, <2>2 DEF Inv, PathsFit
<1>12. BooksFit' /\ Seated' /\ AloneEmpty'
  BY <1>2 DEF Inv, BooksFit, Seated, AloneEmpty
<1>13. OpensKnown'
  <2>1. \A n \in Nodes, s \in Sids : Known(n, s)' <=> Known(n, s)
    BY <1>2 DEF Known, UsersAt
  <2> SUFFICES ASSUME NEW n \in Nodes, NEW s \in Sids, mapped[Peer(n)][s] # none
               PROVE  Known(n, s) \/ s \in left'[n]
    BY <1>2, <1>6, <2>1, EmptyWire DEF OpensKnown
  <2>2. CASE Known(n, s) \/ s \in left[n]
    BY <2>2, <1>7
  <2>3. ASSUME NEW d \in Conns, HasFrame(wire[d][n], "close", s) PROVE s \in left'[n]
    <3>1. d = c
      BY <2>3, <1>5, <1>6, EmptyWire
    <3> QED
      BY <3>1, <2>3, <1>7, <1>8
  <2> QED
    BY <2>2, <2>3 DEF Inv, OpensKnown
<1>14. NumbersFresh' /\ Renewed'
  BY <1>4 DEF NumbersFresh, Renewed
<1> QED
  BY <1>10, <1>11, <1>12, <1>13, <1>14 DEF Inv

LEMMA LeaveKeeps ==
  ASSUME Inv, NEW n \in Nodes, NEW c \in Conns, Leave(n, c)
  PROVE  Inv'
<1>1. /\ c \in paths[n] \cap cut
      /\ paths' = [paths EXCEPT ![n] = @ \ {c}] /\ leaving' = [leaving EXCEPT ![n] = @ \cup {c}]
  BY DEF Leave
<1>2. /\ UNCHANGED <<opened, cut, wire, loop, proxies, next, at, sess, stale, mapped, seat,
                     asked, left>>
      /\ Alive' = Alive /\ c \notin Alive
  BY <1>1 DEF Leave, viewVars, portVars, Alive
<1>3. Types'
  BY <1>1, <1>2 DEF Inv, Types, Conns
<1>4. \A x \in Nodes : /\ paths'[x] = IF x = n THEN paths[x] \ {c} ELSE paths[x]
                       /\ leaving'[x] = IF x = n THEN leaving[x] \cup {c} ELSE leaving[x]
  BY <1>1 DEF Inv, Types
<1>5. PathsFit'
  BY <1>1, <1>2, <1>4, FedStreamsAssumption DEF Inv, PathsFit
<1>6. BooksFit' /\ Seated'
  BY <1>2 DEF Inv, BooksFit, Seated
<1>7. AloneEmpty'
  BY <1>1, <1>2, <1>4, FedStreamsAssumption DEF Inv, AloneEmpty
<1>8. OpensKnown'
  BY <1>2 DEF Inv, OpensKnown, Known, UsersAt
<1>9. NumbersFresh' /\ Renewed'
  BY <1>2 DEF Inv, NumbersFresh, Renewed, UsersAt
<1> QED
  BY <1>3, <1>5, <1>6, <1>7, <1>8, <1>9 DEF Inv

LEMMA GoneKeeps ==
  ASSUME Inv, NEW n \in Nodes, NEW c \in Conns, Gone(n, c)
  PROVE  Inv'
<1>1. /\ leaving' = [leaving EXCEPT ![n] = @ \ {c}]
      /\ UNCHANGED <<opened, cut, paths, wire, loop, next, at, asked>>
      /\ Alive' = Alive
  BY DEF Gone, Alive
<1>2. PathsFit'
  BY <1>1 DEF Inv, PathsFit, Types
<1>3. leaving' \in [Nodes -> SUBSET Nat]
  BY <1>1 DEF Inv, Types
<1>4. CASE paths[n] # {}
  <2>1. UNCHANGED <<proxies, stale, sess, mapped, seat, left>>
    BY <1>4 DEF Gone
  <2>2. Types'
    BY <1>1, <1>3, <2>1 DEF Inv, Types
  <2>3. BooksFit' /\ Seated'
    BY <1>1, <2>1 DEF Inv, BooksFit, Seated
  <2>4. AloneEmpty'
    BY <1>1, <1>4, <2>1, FedStreamsAssumption DEF Inv, AloneEmpty, Types
  <2>5. OpensKnown'
    BY <1>1, <2>1 DEF Inv, OpensKnown, Known, UsersAt
  <2>6. NumbersFresh' /\ Renewed'
    BY <1>1, <2>1 DEF Inv, NumbersFresh, Renewed, UsersAt
  <2> QED
    BY <1>2, <2>2, <2>3, <2>4, <2>5, <2>6 DEF Inv
<1>5. CASE paths[n] = {}
  <2>1. /\ proxies' = [p \in Ports |-> IF p \in Exported[Peer(n)] /\ proxies[p] # none
                                       THEN FALSE ELSE proxies[p]]
        /\ stale' = [p \in Ports |-> [u \in Users |->
                       IF u \in UsersAt(n) /\ at[u] = p /\ sess[u] # 0
                       THEN sess[u] ELSE stale[p][u]]]
        /\ sess' = [u \in Users |-> IF u \in UsersAt(n) THEN 0 ELSE sess[u]]
    BY <1>5 DEF Gone, Disconnected
  <2>2. /\ mapped' = [mapped EXCEPT ![n] = NoStreams] /\ seat' = [seat EXCEPT ![n] = NoSeats]
        /\ left' = [left EXCEPT ![Peer(n)] = {}]
    BY <1>5 DEF Gone
  <2>3. Alive = {} /\ \A d \in Conns, x \in Nodes : wire[d][x] = <<>>
    BY <1>5 DEF Inv, PathsFit
  <2>4. Peer(n) \in Nodes /\ Peer(n) # n /\ Peer(Peer(n)) = n
    BY Peers
  <2>5. /\ NoStreams \in [Sids -> Ports \cup {none}] /\ \A s \in Sids : NoStreams[s] = none
        /\ NoSeats \in [Ports -> [Sids -> Seats]]
        /\ \A p \in Ports, s \in Sids : NoSeats[p][s] = "absent"
    BY DEF NoStreams, NoSeats, Seats
  <2>6. /\ proxies' \in [Ports -> BOOLEAN \cup {none}]
        /\ \A p \in Ports : /\ p \notin Exported[Peer(n)] => proxies'[p] = proxies[p]
                            /\ p \in Exported[Peer(n)] /\ proxies[p] # none => proxies'[p] = FALSE
    BY <2>1 DEF Inv, Types
  <2>7. /\ sess' \in [Users -> Nat] /\ stale' \in [Ports -> [Users -> Nat]]
        /\ \A u \in Users : sess'[u] = IF Home[u] = n THEN 0 ELSE sess[u]
        /\ \A p \in Ports, u \in Users :
             stale'[p][u] = IF Home[u] = n /\ at[u] = p /\ sess[u] # 0 THEN sess[u] ELSE stale[p][u]
    BY <2>1 DEF Inv, Types, UsersAt
  <2>8. /\ \A x \in Nodes, s \in Sids : mapped'[x][s] = IF x = n THEN none ELSE mapped[x][s]
        /\ \A x \in Nodes, p \in Ports, s \in Sids :
             seat'[x][p][s] = IF x = n THEN "absent" ELSE seat[x][p][s]
        /\ \A x \in Nodes : left'[x] = IF x = Peer(n) THEN {} ELSE left[x]
    BY <2>2, <2>4, <2>5 DEF Inv, Types
  <2>9. Types'
    <3>1. /\ mapped' \in [Nodes -> [Sids -> Ports \cup {none}]]
          /\ seat' \in [Nodes -> [Ports -> [Sids -> Seats]]]
          /\ left' \in [Nodes -> SUBSET Nat]
      BY <2>2, <2>4, <2>5 DEF Inv, Types
    <3> QED
      BY <1>1, <1>3, <2>6, <2>7, <3>1 DEF Inv, Types
  <2>10. BooksFit'
    <3>1. ASSUME NEW u \in Users, sess'[u] # 0
          PROVE  /\ at[u] \in Exported[Peer(Home[u])]
                 /\ proxies'[at[u]] = TRUE
                 /\ sess'[u] <= next[Home[u]]
      <4>1. Home[u] = Peer(n) /\ sess'[u] = sess[u] /\ sess[u] # 0
        BY <3>1, <2>7, Peers, Exports
      <4>2. /\ at[u] \in Exported[Peer(Home[u])] /\ proxies[at[u]] = TRUE
            /\ sess[u] <= next[Home[u]]
        BY <4>1 DEF Inv, BooksFit
      <4>3. at[u] \in Exported[n] /\ at[u] \in Ports /\ at[u] \notin Exported[Peer(n)]
        BY <4>1, <4>2, <2>4, Exports
      <4>4. proxies'[at[u]] = proxies[at[u]]
        BY <4>3, <2>6
      <4> QED
        BY <4>1, <4>2, <4>4
    <3>2. ASSUME NEW p \in Ports, NEW u \in Users, stale'[p][u] # 0
          PROVE  p \in Exported[Peer(Home[u])] /\ proxies'[p] = FALSE
      <4>1. CASE Home[u] = n /\ at[u] = p /\ sess[u] # 0
        <5>1. p \in Exported[Peer(n)] /\ proxies[p] = TRUE
          BY <4>1 DEF Inv, BooksFit
        <5>2. proxies[p] # none
          BY <5>1, FedStreamsAssumption
        <5> QED
          BY <4>1, <5>1, <5>2, <2>6
      <4>2. CASE ~(Home[u] = n /\ at[u] = p /\ sess[u] # 0)
        <5>1. p \in Exported[Peer(Home[u])] /\ proxies[p] = FALSE
          BY <4>2, <3>2, <2>7 DEF Inv, BooksFit
        <5> QED
          BY <5>1, <2>1
      <4> QED
        BY <4>1, <4>2
    <3>3. \A u, w \in Users : Home[u] = Home[w] /\ sess'[u] = sess'[w] /\ sess'[u] # 0 => u = w
      BY <2>7 DEF Inv, BooksFit
    <3>4. \A x \in Nodes, d \in Conns : loop[x][d].todo \subseteq Exported[Peer(x)]
      BY DEF Inv, BooksFit
    <3> QED
      BY <1>1, <3>1, <3>2, <3>3, <3>4 DEF BooksFit
  <2>11. Seated' /\ AloneEmpty'
    <3>1. Seated'
      BY <2>8 DEF Inv, Seated
    <3>2. ASSUME n = Dialer PROVE AloneEmpty'
      <4>1. \A s \in Sids : mapped'[Dialer][s] = none
        BY <3>2, <2>8, FedStreamsAssumption
      <4> QED
        BY <4>1 DEF AloneEmpty
    <3>3. ASSUME n # Dialer PROVE AloneEmpty'
      <4>1. leaving'[Dialer] = leaving[Dialer] /\ paths' = paths
        BY <3>3, <1>1, FedStreamsAssumption DEF Inv, Types
      <4>2. \A s \in Sids : mapped'[Dialer][s] = mapped[Dialer][s]
        BY <3>3, <2>8, FedStreamsAssumption
      <4>3. paths[Dialer] \cup leaving[Dialer] = {} => \A s \in Sids : mapped[Dialer][s] = none
        BY DEF Inv, AloneEmpty
      <4> QED
        BY <4>1, <4>2, <4>3 DEF AloneEmpty
    <3> QED
      BY <3>1, <3>2, <3>3
  <2>12. OpensKnown'
    <3> SUFFICES ASSUME NEW x \in Nodes, NEW s \in Sids, mapped'[Peer(x)][s] # none
                 PROVE  Known(x, s)' \/ s \in left'[x]
      BY <1>1, <2>3, EmptyWire DEF OpensKnown
    <3>1. x = n /\ mapped[Peer(x)][s] # none
      BY <2>4, <2>8, Peers
    <3>2. Known(n, s) \/ s \in left[n]
      BY <3>1, <2>3, EmptyWire DEF Inv, OpensKnown
    <3>3. ASSUME NEW u \in UsersAt(n), s = sess[u] PROVE Known(n, s)'
      <4>1. u \in Users /\ Home[u] = n /\ sess[u] # 0 /\ at[u] \in Ports
        BY <3>3, Exports, <2>4 DEF UsersAt, Sids, Inv, BooksFit
      <4>2. stale'[at[u]][u] = s
        BY <4>1, <3>3, <2>7
      <4> QED
        BY <4>1, <4>2, <3>3 DEF Known, UsersAt
    <3>4. ASSUME NEW u \in UsersAt(n), NEW p \in Ports, s = stale[p][u] PROVE Known(n, s)'
      <4>1. u \in Users /\ stale[p][u] # 0
        BY <3>4 DEF UsersAt, Sids
      <4>2. proxies[p] = FALSE
        BY <4>1 DEF Inv, BooksFit
      <4>3. ~(at[u] = p /\ sess[u] # 0)
        <5>1. sess[u] # 0 => proxies[at[u]] = TRUE
          BY <4>1 DEF Inv, BooksFit
        <5> QED
          BY <5>1, <4>2
      <4>4. stale'[p][u] = s
        BY <4>1, <4>3, <3>4, <2>7
      <4> QED
        BY <4>4 DEF Known, UsersAt
    <3> QED
      BY <3>1, <3>2, <3>3, <3>4, <2>4, <2>8 DEF Known
  <2>13. NumbersFresh' /\ Renewed'
    BY <1>1, <2>3 DEF NumbersFresh, Renewed
  <2> QED
    BY <1>2, <2>9, <2>10, <2>11, <2>12, <2>13 DEF Inv
<1> QED
  BY <1>4, <1>5

LEMMA RestartKeeps == ASSUME Inv, NEW n \in Nodes, Restart(n) PROVE Inv'
<1>1. /\ cut' = cut \cup paths[n] \cup leaving[n] /\ UNCHANGED opened
      /\ paths' = [paths EXCEPT ![n] = {}] /\ leaving' = [leaving EXCEPT ![n] = {}]
      /\ wire' = Emptied(paths[n])
      /\ loop' = [loop EXCEPT ![n] = [c \in Conns |-> Idle]]
  BY DEF Restart
<1>2. /\ proxies' = [p \in Ports |-> IF p \in Exported[Peer(n)] /\ proxies[p] # none
                                     THEN TRUE ELSE proxies[p]]
      /\ next' = [next EXCEPT ![n] = 0]
      /\ sess' = [u \in Users |-> IF Home[u] = n THEN 0 ELSE sess[u]]
      /\ stale' = [p \in Ports |-> [u \in Users |-> IF Home[u] = n THEN 0 ELSE stale[p][u]]]
      /\ at' = [u \in Users |-> IF Home[u] = n THEN none ELSE at[u]]
  BY DEF Restart
<1>3. /\ mapped' = [mapped EXCEPT ![n] = NoStreams] /\ seat' = [seat EXCEPT ![n] = NoSeats]
      /\ asked' = asked \ UsersAt(n)
      /\ left' = [left EXCEPT ![n] = Sids, ![Peer(n)] = {}]
  BY DEF Restart
<1>4. Peer(n) \in Nodes /\ Peer(n) # n /\ Peer(Peer(n)) = n
  BY Peers
<1>5. /\ NoStreams \in [Sids -> Ports \cup {none}] /\ \A s \in Sids : NoStreams[s] = none
      /\ NoSeats \in [Ports -> [Sids -> Seats]]
      /\ \A p \in Ports, s \in Sids : NoSeats[p][s] = "absent"
      /\ Idle \in Loops /\ Idle.todo = {} /\ Sids \in SUBSET Nat
  BY DEF NoStreams, NoSeats, Seats, Idle, Loops, Sids
<1>6. Alive' = {}
  BY <1>1 DEF Alive, Inv, PathsFit
<1>7. \A c \in Conns, x \in Nodes : wire'[c][x] = <<>>
  <2>1. \A c \in Conns, x \in Nodes : wire'[c][x] = IF c \in paths[n] THEN <<>> ELSE wire[c][x]
    BY <1>1 DEF Emptied
  <2>2. \A c \in Conns : c \notin paths[n] => c \notin Alive
    BY DEF Inv, PathsFit
  <2> QED
    BY <2>1, <2>2 DEF Inv, PathsFit
<1>8. /\ \A p \in Ports : /\ p \notin Exported[Peer(n)] => proxies'[p] = proxies[p]
                          /\ proxies[p] = TRUE => proxies'[p] = TRUE
      /\ \A x \in Nodes : x # n => next'[x] = next[x]
      /\ \A u \in Users : /\ sess'[u] = IF Home[u] = n THEN 0 ELSE sess[u]
                          /\ at'[u] = IF Home[u] = n THEN none ELSE at[u]
      /\ \A p \in Ports, u \in Users : stale'[p][u] = IF Home[u] = n THEN 0 ELSE stale[p][u]
  BY <1>2 DEF Inv, Types
<1>9. /\ \A x \in Nodes, c \in Conns : loop'[x][c].todo = IF x = n THEN {} ELSE loop[x][c].todo
      /\ \A x \in Nodes, s \in Sids : mapped'[x][s] = IF x = n THEN none ELSE mapped[x][s]
      /\ \A x \in Nodes, p \in Ports, s \in Sids :
           seat'[x][p][s] = IF x = n THEN "absent" ELSE seat[x][p][s]
      /\ left'[n] = Sids
  BY <1>1, <1>3, <1>4, <1>5 DEF Inv, Types
<1>10. Types'
  <2>1. <<>> \in Seq(AnyFrames)
    OBVIOUS
  <2>2. wire' \in [Conns -> [Nodes -> Seq(AnyFrames)]]
    BY <1>1, <2>1 DEF Emptied, Inv, Types
  <2>3. /\ opened' \in 0..MaxConns /\ paths' \in [Nodes -> SUBSET Nat]
        /\ leaving' \in [Nodes -> SUBSET Nat] /\ loop' \in [Nodes -> [Conns -> Loops]]
    BY <1>1, <1>5 DEF Inv, Types
  <2>4. proxies' \in [Ports -> BOOLEAN \cup {none}]
    BY <1>2 DEF Inv, Types
  <2>5. /\ next' \in [Nodes -> Nat] /\ at' \in [Users -> Ports \cup {none}]
        /\ sess' \in [Users -> Nat] /\ stale' \in [Ports -> [Users -> Nat]]
    BY <1>2 DEF Inv, Types
  <2>6. /\ mapped' \in [Nodes -> [Sids -> Ports \cup {none}]]
        /\ seat' \in [Nodes -> [Ports -> [Sids -> Seats]]]
        /\ asked' \subseteq Users /\ left' \in [Nodes -> SUBSET Nat]
    BY <1>3, <1>4, <1>5 DEF Inv, Types
  <2> QED
    BY <2>2, <2>3, <2>4, <2>5, <2>6 DEF Types
<1>11. PathsFit'
  <2>1. \A x \in Nodes : /\ paths'[x] = IF x = n THEN {} ELSE paths[x]
                         /\ leaving'[x] = IF x = n THEN {} ELSE leaving[x]
    BY <1>1 DEF Inv, Types
  <2>2. cut' \subseteq 1..opened'
    BY <1>1 DEF Inv, PathsFit
  <2>3. \A x \in Nodes : paths'[x] \subseteq 1..opened' /\ leaving'[x] \subseteq cut'
    BY <1>1, <2>1 DEF Inv, PathsFit
  <2>4. \A c \in paths'[Dialer] : c = opened'
    BY <1>1, <2>1, FedStreamsAssumption DEF Inv, PathsFit
  <2> QED
    BY <1>6, <1>7, <2>2, <2>3, <2>4 DEF PathsFit
<1>12. BooksFit'
  <2>1. ASSUME NEW u \in Users, sess'[u] # 0
        PROVE  /\ at'[u] \in Exported[Peer(Home[u])]
               /\ proxies'[at'[u]] = TRUE
               /\ sess'[u] <= next'[Home[u]]
    <3>1. Home[u] # n /\ sess'[u] = sess[u] /\ at'[u] = at[u] /\ next'[Home[u]] = next[Home[u]]
      BY <2>1, <1>8, Exports
    <3>2. at[u] \in Exported[Peer(Home[u])] /\ proxies[at[u]] = TRUE /\ sess[u] <= next[Home[u]]
      BY <2>1, <3>1 DEF Inv, BooksFit
    <3>3. at[u] \in Ports
      BY <3>2, Exports, Peers
    <3> QED
      BY <3>1, <3>2, <3>3, <1>8
  <2>2. ASSUME NEW p \in Ports, NEW u \in Users, stale'[p][u] # 0
        PROVE  p \in Exported[Peer(Home[u])] /\ proxies'[p] = FALSE
    <3>1. Home[u] = Peer(n) /\ stale[p][u] # 0
      BY <2>2, <1>8, Peers, Exports
    <3>2. p \in Exported[Peer(Home[u])] /\ proxies[p] = FALSE
      BY <3>1 DEF Inv, BooksFit
    <3>3. p \notin Exported[Peer(n)]
      BY <3>1, <3>2, <1>4, Exports
    <3> QED
      BY <3>2, <3>3, <1>8
  <2>3. \A u, w \in Users : Home[u] = Home[w] /\ sess'[u] = sess'[w] /\ sess'[u] # 0 => u = w
    BY <1>8 DEF Inv, BooksFit
  <2>4. \A x \in Nodes, c \in Conns : loop'[x][c].todo \subseteq Exported[Peer(x)]
    BY <1>9 DEF Inv, BooksFit
  <2> QED
    BY <2>1, <2>2, <2>3, <2>4 DEF BooksFit
<1>13. Seated'
  BY <1>9 DEF Inv, Seated
<1>14. AloneEmpty'
  <2>1. CASE n = Dialer
    BY <2>1, <1>9 DEF AloneEmpty
  <2>2. CASE n # Dialer
    <3>1. leaving'[Dialer] = leaving[Dialer] /\ paths'[Dialer] = paths[Dialer]
      BY <2>2, <1>1, FedStreamsAssumption DEF Inv, Types
    <3>2. \A s \in Sids : mapped'[Dialer][s] = mapped[Dialer][s]
      BY <2>2, <1>9, FedStreamsAssumption
    <3>3. paths[Dialer] \cup leaving[Dialer] = {} => \A s \in Sids : mapped[Dialer][s] = none
      BY DEF Inv, AloneEmpty
    <3> QED
      BY <3>1, <3>2, <3>3 DEF AloneEmpty
  <2> QED
    BY <2>1, <2>2
<1>15. OpensKnown'
  <2> SUFFICES ASSUME NEW x \in Nodes, NEW s \in Sids, mapped'[Peer(x)][s] # none
               PROVE  s \in left'[x]
    BY <1>7, EmptyWire DEF OpensKnown
  <2>1. x = n
    BY <1>4, <1>9, Peers
  <2> QED
    BY <2>1, <1>9
<1>16. NumbersFresh' /\ Renewed'
  BY <1>6 DEF NumbersFresh, Renewed
<1> QED
  BY <1>10, <1>11, <1>12, <1>13, <1>14, <1>15, <1>16 DEF Inv

-----------------------------------------------------------------------------
(* Sessions opened, closed and asked for *)

LEMMA ImageFinite ==
  ASSUME NEW S, IsFiniteSet(S), NEW g
  PROVE  IsFiniteSet({g[x] : x \in S})
<1> DEFINE T == {g[x] : x \in S}
           h == [x \in S |-> g[x]]
<1>1. h \in Surjection(S, T)
  BY DEF Surjection
<1> QED
  BY <1>1, FS_Surjection

LEMMA RegisterPortKeeps ==
  ASSUME Inv, NEW n \in Nodes, NEW c \in Conns, NEW p \in Ports, RegisterPort(n, c, p)
  PROVE  Inv'
<1> DEFINE here == {u \in UsersAt(n) : at[u] = p}
           old == {sess[u] : u \in here} \ {0}
           C == old \cup ({stale[p][u] : u \in UsersAt(n)} \ {0})
           K == Cardinality(here)
<1>1. PICK f \in Numberings(here, next[n]) :
        /\ sess' = [u \in Users |-> IF u \in here THEN f[u] ELSE sess[u]]
        /\ SendVia(n, Reopening(C, {f[u] : u \in here}, p))
  BY DEF RegisterPort
<1> DEFINE O == {f[u] : u \in here}
<1>2. /\ p \in loop[n][c].todo
      /\ next' = [next EXCEPT ![n] = @ + K]
      /\ stale' = [stale EXCEPT ![p] = [u \in Users |-> 0]]
      /\ proxies' = [proxies EXCEPT ![p] = TRUE]
      /\ loop' = [loop EXCEPT ![n][c].todo = @ \ {p}, ![n][c].port = p,
                              ![n][c].redo = {u \in here : mode[u] = "read-write"}]
  BY DEF RegisterPort
<1>3. UNCHANGED <<opened, cut, paths, leaving, at, mapped, seat, asked>>
  BY DEF RegisterPort, portVars
<1>4. p \in Exported[Peer(n)] /\ p \notin Exported[n]
  BY <1>2, Exports DEF Inv, BooksFit
<1>5. UsersAt(n) \subseteq Users /\ here \subseteq Users /\ here \subseteq UsersAt(n)
  BY DEF UsersAt
<1>6. IsFiniteSet(here) /\ IsFiniteSet(UsersAt(n)) /\ K \in Nat
  BY <1>5, FS_Subset, FS_CardinalityType, FedStreamsAssumption
<1>7. IsFiniteSet(O) /\ IsFiniteSet(C)
  <2>1. IsFiniteSet({sess[u] : u \in here}) /\ IsFiniteSet({stale[p][u] : u \in UsersAt(n)})
    BY <1>6, ImageFinite
  <2>2. IsFiniteSet(O)
    BY <1>6, ImageFinite
  <2> QED
    BY <2>1, <2>2, FS_RemoveElement, FS_Union
<1>8. next[n] \in Nat /\ \A u \in Users : sess[u] \in Nat /\ \A q \in Ports : stale[q][u] \in Nat
  BY DEF Inv, Types
<1>9. C \in SUBSET Nat
  BY <1>5, <1>8
<1> HIDE DEF K
<1>10. /\ \A u \in here : f[u] \in Nat /\ next[n] < f[u] /\ f[u] <= next[n] + K
       /\ \A u, w \in here : u # w => f[u] # f[w]
  BY <1>6, <1>8 DEF Numberings, K
<1>11. O \in SUBSET Nat
  BY <1>10
<1>12. Spells(Reopening(C, O, p), C, O, {})
  BY <1>7, <1>9, <1>11, ReopeningSpells
<1>13. \A s \in Nat \ {0} : s \in C <=> \/ \E u \in here : s = sess[u]
                                      \/ \E u \in UsersAt(n) : s = stale[p][u]
  OBVIOUS
<1>14. \A s : s \in O <=> \E u \in here : s = f[u]
  OBVIOUS
<1>15. \A u : u \in here <=> u \in Users /\ Home[u] = n /\ at[u] = p
  BY DEF UsersAt
<1> HIDE DEF C, O
<1>16. /\ Delivered(n, C, O, {}) \/ Dropped(n, C)
       /\ wire' \in [Conns -> [Nodes -> Seq(AnyFrames)]] /\ left' \in [Nodes -> SUBSET Nat]
  BY <1>1, <1>9, <1>12, SentGives DEF Inv, O
<1> HIDE DEF here
<1>17. \A u \in Users : sess'[u] = IF u \in here THEN f[u] ELSE sess[u]
  BY <1>1
<1>18. /\ \A q \in Ports, u \in Users : stale'[q][u] = IF q = p THEN 0 ELSE stale[q][u]
       /\ \A q \in Ports : proxies'[q] = IF q = p THEN TRUE ELSE proxies[q]
       /\ \A x \in Nodes : next'[x] = IF x = n THEN next[n] + K ELSE next[x]
  BY <1>2 DEF Inv, Types
<1>19. /\ loop' \in [Nodes -> [Conns -> Loops]]
       /\ \A x \in Nodes, d \in Conns :
            loop'[x][d].todo = IF x = n /\ d = c THEN loop[x][d].todo \ {p} ELSE loop[x][d].todo
  <2>1. loop[n][c] \in Loops /\ {u \in here : mode[u] = "read-write"} \in SUBSET Users
    BY <1>5 DEF Inv, Types
  <2> DEFINE l == [[[loop[n][c] EXCEPT !.todo = @ \ {p}] EXCEPT !.port = p]
                     EXCEPT !.redo = {u \in here : mode[u] = "read-write"}]
  <2>2. l \in Loops /\ l.todo = loop[n][c].todo \ {p}
    BY <2>1 DEF Loops
  <2>3. loop' = [loop EXCEPT ![n][c] = l]
    BY <1>2 DEF Inv, Types
  <2> HIDE DEF l
  <2> QED
    BY <2>2, <2>3 DEF Inv, Types
<1>20. Types'
  <2>1. sess' \in [Users -> Nat]
    BY <1>1, <1>8, <1>10
  <2>2. /\ stale' \in [Ports -> [Users -> Nat]] /\ next' \in [Nodes -> Nat]
        /\ proxies' \in [Ports -> BOOLEAN \cup {none}]
    BY <1>2, <1>6 DEF Inv, Types
  <2> QED
    BY <1>3, <1>16, <1>19, <2>1, <2>2 DEF Inv, Types
<1>21. BooksFit'
  <2>1. ASSUME NEW u \in Users, sess'[u] # 0
        PROVE  /\ at[u] \in Exported[Peer(Home[u])]
               /\ proxies'[at[u]] = TRUE
               /\ sess'[u] <= next'[Home[u]]
    <3>1. CASE u \in here
      <4>1. Home[u] = n /\ at[u] = p
        BY <3>1, <1>15
      <4> QED
        BY <3>1, <4>1, <1>4, <1>10, <1>17, <1>18
    <3>2. CASE u \notin here
      <4>1. /\ at[u] \in Exported[Peer(Home[u])] /\ proxies[at[u]] = TRUE
            /\ sess[u] <= next[Home[u]] /\ sess'[u] = sess[u]
        BY <2>1, <3>2, <1>17 DEF Inv, BooksFit
      <4>2. at[u] \in Ports /\ Home[u] \in Nodes /\ next[Home[u]] \in Nat
        BY <4>1, Exports, Peers DEF Inv, Types
      <4>3. next[Home[u]] <= next'[Home[u]]
        BY <4>2, <1>6, <1>8, <1>18
      <4>4. proxies'[at[u]] = TRUE
        BY <4>1, <4>2, <1>18
      <4>5. sess[u] <= next'[Home[u]]
        <5>1. next'[Home[u]] \in Nat
          BY <4>2, <1>6, <1>8, <1>18
        <5> QED
          BY <4>1, <4>2, <4>3, <5>1, <1>8
      <4> QED
        BY <4>1, <4>4, <4>5
    <3> QED
      BY <3>1, <3>2
  <2>2. \A q \in Ports, u \in Users :
          stale'[q][u] # 0 => q \in Exported[Peer(Home[u])] /\ proxies'[q] = FALSE
    <3>1. \A q \in Ports, u \in Users :
            stale[q][u] # 0 => q \in Exported[Peer(Home[u])] /\ proxies[q] = FALSE
      BY DEF Inv, BooksFit
    <3>2. ASSUME NEW q \in Ports, NEW u \in Users, stale'[q][u] # 0
          PROVE  q # p /\ stale'[q][u] = stale[q][u] /\ proxies'[q] = proxies[q]
      BY <3>2, <1>18
    <3> QED
      BY <3>1, <3>2
  <2>3. ASSUME NEW u \in Users, NEW w \in Users, Home[u] = Home[w],
               sess'[u] = sess'[w], sess'[u] # 0
        PROVE  u = w
    <3>1. ASSUME NEW y \in here, NEW z \in Users \ here, Home[z] = n, sess[z] # 0
          PROVE  f[y] # sess[z]
      <4>1. sess[z] <= next[n]
        BY <3>1 DEF Inv, BooksFit
      <4> QED
        BY <4>1, <1>8, <1>10
    <3>2. CASE u \in here /\ w \in here
      BY <2>3, <3>2, <1>10, <1>17
    <3>3. CASE u \notin here /\ w \notin here
      BY <2>3, <3>3, <1>17 DEF Inv, BooksFit
    <3>4. CASE u \in here /\ w \notin here
      BY <2>3, <3>1, <3>4, <1>15, <1>17
    <3>5. CASE u \notin here /\ w \in here
      BY <2>3, <3>1, <3>5, <1>15, <1>17
    <3> QED
      BY <3>2, <3>3, <3>4, <3>5
  <2>4. \A x \in Nodes, d \in Conns : loop'[x][d].todo \subseteq Exported[Peer(x)]
    <3>1. \A x \in Nodes, d \in Conns : loop[x][d].todo \subseteq Exported[Peer(x)]
      BY DEF Inv, BooksFit
    <3> QED
      BY <3>1, <1>19
  <2> QED
    BY <1>3, <2>1, <2>2, <2>3, <2>4 DEF BooksFit
<1>22. BookStep(n, C, O, {})
  <2>1. next[n] <= next'[n] /\ \A x \in Nodes : x # n => next'[x] = next[x]
    BY <1>6, <1>8, <1>18
  <2>2. \A s \in O : next[n] < s /\ s <= next'[n]
    BY <1>10, <1>14, <1>18
  <2>3. \A u \in Users :
          \/ /\ sess'[u] = sess[u] /\ at'[u] = at[u] /\ (u \in asked => u \in asked')
             /\ \A d \in Conns : at[u] \in loop[Home[u]][d].todo
                                   => at[u] \in loop'[Home[u]][d].todo
          \/ Home[u] = n /\ sess'[u] \in {0} \cup O
    <3> SUFFICES ASSUME NEW u \in Users, u \notin here
                 PROVE  \A d \in Conns : at[u] \in loop[Home[u]][d].todo
                                           => at[u] \in loop'[Home[u]][d].todo
      BY <1>3, <1>14, <1>15, <1>17
    <3> QED
      BY <1>15, <1>19, Exports
  <2>4. ASSUME NEW s \in Sids, Known(n, s) PROVE Known(n, s)' \/ s \in C
    <3>1. s \in Nat \ {0}
      BY DEF Sids
    <3>2. PICK u \in UsersAt(n) : s = sess[u] \/ \E q \in Ports : s = stale[q][u]
      BY <2>4 DEF Known
    <3>3. CASE s = sess[u]
      <4>1. CASE u \in here
        BY <3>1, <3>3, <4>1, <1>13
      <4>2. CASE u \notin here
        BY <3>3, <4>2, <1>5, <1>17 DEF Known, UsersAt
      <4> QED
        BY <4>1, <4>2
    <3>4. ASSUME NEW q \in Ports, s = stale[q][u] PROVE Known(n, s)' \/ s \in C
      <4>1. CASE q = p
        BY <3>1, <3>4, <4>1, <1>13
      <4>2. CASE q # p
        BY <3>4, <4>2, <1>5, <1>18 DEF Known, UsersAt
      <4> QED
        BY <4>1, <4>2
    <3> QED
      BY <3>2, <3>3, <3>4
  <2>5. \A s \in O : Known(n, s)'
    BY <1>14, <1>15, <1>17 DEF Known, UsersAt
  <2>6. ASSUME NEW x \in Nodes, NEW s \in Sids, x # n, Known(x, s) PROVE Known(x, s)'
    <3>1. PICK u \in UsersAt(x) : s = sess[u] \/ \E q \in Ports : s = stale[q][u]
      BY <2>6 DEF Known
    <3>2. u \in Users /\ Home[u] = x /\ u \notin here /\ s # 0
      BY <2>6, <1>15 DEF UsersAt, Sids
    <3>3. CASE s = sess[u]
      BY <3>2, <3>3, <1>17 DEF Known, UsersAt
    <3>4. ASSUME NEW q \in Ports, s = stale[q][u] PROVE Known(x, s)'
      <4>1. q \in Exported[Peer(x)] /\ Peer(x) = n
        BY <2>6, <3>2, <3>4, Peers DEF Inv, BooksFit
      <4>2. q # p
        BY <4>1, <1>4
      <4> QED
        BY <3>2, <3>4, <4>2, <1>18 DEF Known, UsersAt
    <3> QED
      BY <3>1, <3>3, <3>4
  <2> QED
    BY <1>3, <1>16, <2>1, <2>2, <2>3, <2>4, <2>5, <2>6 DEF BookStep
<1> QED
  BY <1>9, <1>11, <1>20, <1>21, <1>22, BookKeeps DEF Inv

(* A REQUEST goes out for a session that is there.                         *)
LEMMA RequestKeeps ==
  ASSUME Inv, NEW u \in Users, sess[u] # 0,
         SendVia(Home[u], <<Frame("request", sess[u], at[u], none)>>),
         UNCHANGED <<opened, cut, paths, leaving, proxies, next, at, sess, stale, mapped, seat>>,
         asked' = asked \cup {u}, loop' \in [Nodes -> [Conns -> Loops]],
         \A n \in Nodes, c \in Conns : loop'[n][c].todo = loop[n][c].todo
  PROVE  Inv'
<1> DEFINE n == Home[u]
           s == sess[u]
<1>1. n \in Nodes /\ u \in UsersAt(n)
  BY Exports DEF UsersAt
<1>2. s \in Nat /\ at[u] \in Ports /\ s <= next[n]
  BY Exports, Peers, <1>1 DEF Inv, Types, BooksFit
<1>3. Spells(<<Frame("request", s, at[u], none)>>, {}, {}, {s})
  BY <1>2, FrameSpells
<1>4. /\ Delivered(n, {}, {}, {s}) \/ Dropped(n, {})
      /\ wire' \in [Conns -> [Nodes -> Seq(AnyFrames)]] /\ left' \in [Nodes -> SUBSET Nat]
  BY <1>1, <1>3, SentGives DEF Inv
<1>5. Types'
  BY <1>4 DEF Inv, Types
<1>6. BooksFit'
  BY DEF Inv, BooksFit
<1>7. BookStep(n, {}, {}, {s})
  <2>1. ASSUME NEW w \in UsersAt(n), sess'[w] = s PROVE w \in asked'
    <3>1. w = u
      BY <2>1 DEF Inv, BooksFit, UsersAt
    <3> QED
      BY <3>1
  <2>2. next[n] <= next'[n]
    BY <1>1 DEF Inv, Types
  <2>3. \A x \in Nodes, t \in Sids : Known(x, t) <=> Known(x, t)'
    BY DEF Known, UsersAt
  <2> QED
    BY <1>1, <1>2, <1>4, <2>1, <2>2, <2>3, Exports DEF BookStep
<1>8. {} \in SUBSET Nat /\ {s} \in SUBSET Nat
  BY <1>2
<1> HIDE DEF n, s
<1> QED
  BY <1>1, <1>5, <1>6, <1>7, <1>8, BookKeeps DEF Inv

LEMMA UserRequestKeeps == ASSUME Inv, NEW u \in Users, Request(u) PROVE Inv'
<1>1. /\ sess[u] # 0 /\ SendVia(Home[u], <<Frame("request", sess[u], at[u], none)>>)
      /\ UNCHANGED <<opened, cut, paths, leaving, proxies, next, at, sess, stale, mapped, seat>>
      /\ asked' = asked \cup {u} /\ loop' = loop
  BY DEF Request, portVars
<1>2. loop' \in [Nodes -> [Conns -> Loops]]
  BY <1>1 DEF Inv, Types
<1> QED
  BY <1>1, <1>2, RequestKeeps

LEMMA AskGrantKeeps ==
  ASSUME Inv, NEW n \in Nodes, NEW c \in Conns, NEW u \in UsersAt(n), AskGrant(n, c, u)
  PROVE  Inv'
<1>1. /\ UNCHANGED <<opened, cut, paths, leaving, proxies, next, at, sess, stale, mapped, seat>>
      /\ loop' = [loop EXCEPT ![n][c].redo = @ \ {u}]
  BY DEF AskGrant, portVars
<1>2. u \in Users /\ Home[u] = n
  BY DEF UsersAt
<1>3. /\ loop' \in [Nodes -> [Conns -> Loops]]
      /\ \A x \in Nodes, d \in Conns : loop'[x][d].todo = loop[x][d].todo
  <2> DEFINE l == [loop[n][c] EXCEPT !.redo = @ \ {u}]
  <2>1. l \in Loops /\ l.todo = loop[n][c].todo
    <3>1. loop[n][c] \in Loops
      BY DEF Inv, Types
    <3> QED
      BY <3>1 DEF Loops
  <2>2. loop' = [loop EXCEPT ![n][c] = l]
    BY <1>1 DEF Inv, Types
  <2> HIDE DEF l
  <2> QED
    BY <2>1, <2>2 DEF Inv, Types
<1>4. CASE at[u] = loop[n][c].port /\ sess[u] # 0
  <2>1. /\ SendVia(Home[u], <<Frame("request", sess[u], at[u], none)>>)
        /\ asked' = asked \cup {u}
    BY <1>2, <1>4 DEF AskGrant
  <2> QED
    BY <1>1, <1>2, <1>3, <1>4, <2>1, RequestKeeps
<1>5. CASE ~(at[u] = loop[n][c].port /\ sess[u] # 0)
  <2>1. UNCHANGED <<wire, asked, left>>
    BY <1>5 DEF AskGrant
  <2>2. Aside
    BY <1>1, <1>3, <2>1 DEF Aside
  <2>3. Types'
    BY <1>1, <1>3, <2>1 DEF Inv, Types
  <2> QED
    BY <2>2, <2>3, QuietKeeps
<1> QED
  BY <1>4, <1>5

LEMMA DetachKeeps == ASSUME Inv, NEW u \in Users, Detach(u) PROVE Inv'
<1> DEFINE n == Home[u]
           s == sess[u]
<1>1. /\ UNCHANGED <<opened, cut, paths, leaving, loop, proxies, next, stale, mapped, seat, asked>>
      /\ at' = [at EXCEPT ![u] = none] /\ sess' = [sess EXCEPT ![u] = 0]
      /\ IF s = 0 THEN UNCHANGED <<wire, left>>
         ELSE SendVia(n, <<Frame("close", s, none, none)>>)
  BY DEF Detach, portVars
<1>2. n \in Nodes /\ u \in UsersAt(n) /\ s \in Nat
  BY Exports DEF UsersAt, Inv, Types
<1>3. /\ \A w \in Users : w # u => at'[w] = at[w] /\ sess'[w] = sess[w]
      /\ sess'[u] = 0 /\ at' \in [Users -> Ports \cup {none}] /\ sess' \in [Users -> Nat]
  BY <1>1 DEF Inv, Types
<1>4. CASE s = 0
  <2>1. Types'
    BY <1>1, <1>3, <1>4 DEF Inv, Types
  <2>2. sess' = sess
    BY <1>1, <1>4 DEF Inv, Types
  <2>3. Aside
    BY <1>1, <1>3, <1>4, <2>2 DEF Aside
  <2> QED
    BY <2>1, <2>3, QuietKeeps
<1>5. CASE s # 0
  <2>1. Spells(<<Frame("close", s, none, none)>>, {s}, {}, {})
    BY <1>2, FrameSpells
  <2>2. /\ Delivered(n, {s}, {}, {}) \/ Dropped(n, {s})
        /\ wire' \in [Conns -> [Nodes -> Seq(AnyFrames)]] /\ left' \in [Nodes -> SUBSET Nat]
    BY <1>1, <1>2, <1>5, <2>1, SentGives DEF Inv
  <2>3. Types'
    BY <1>1, <1>3, <2>2 DEF Inv, Types
  <2>4. BooksFit'
    BY <1>1, <1>3 DEF Inv, BooksFit
  <2>5. BookStep(n, {s}, {}, {})
    <3>1. next[n] <= next'[n]
      BY <1>1, <1>2 DEF Inv, Types
    <3>2. \A t \in Sids : Known(n, t) => Known(n, t)' \/ t \in {s}
      BY <1>1, <1>3 DEF Known, UsersAt
    <3>3. \A x \in Nodes, t \in Sids : x # n /\ Known(x, t) => Known(x, t)'
      BY <1>1, <1>3 DEF Known, UsersAt
    <3>4. \A w \in Users : \/ /\ sess'[w] = sess[w] /\ at'[w] = at[w]
                           \/ w = u /\ sess'[w] = 0
      BY <1>3
    <3> QED
      BY <1>1, <2>2, <3>1, <3>2, <3>3, <3>4 DEF BookStep
  <2>6. {} \in SUBSET Nat /\ {s} \in SUBSET Nat
    BY <1>2
  <2> HIDE DEF n, s
  <2> QED
    BY <1>2, <2>3, <2>4, <2>5, <2>6, BookKeeps DEF Inv
<1> QED
  BY <1>4, <1>5

LEMMA AttachKeeps == ASSUME Inv, NEW u \in Users, NEW p \in Ports, Attach(u, p) PROVE Inv'
<1> DEFINE n == Home[u]
           s == next[n] + 1
<1>1. /\ UNCHANGED <<opened, cut, paths, leaving, loop, proxies, stale, mapped, seat>>
      /\ at[u] = none /\ p \in Exported[Peer(n)]
      /\ at' = [at EXCEPT ![u] = p] /\ asked' = asked \ {u}
      /\ IF proxies[p] = TRUE
         THEN /\ next' = [next EXCEPT ![n] = s] /\ sess' = [sess EXCEPT ![u] = s]
              /\ SendVia(n, <<Frame("open", s, p, none)>>)
         ELSE UNCHANGED <<next, sess, wire, left>>
  BY DEF Attach, portVars
<1>2. n \in Nodes /\ u \in UsersAt(n) /\ s \in Nat /\ next[n] \in Nat
  BY Exports DEF UsersAt, Inv, Types
<1>3. sess[u] = 0
  <2>1. none \notin Exported[Peer(n)]
    BY <1>2, Peers, Exports
  <2> QED
    BY <1>1, <2>1 DEF Inv, BooksFit
<1>4. \A w \in Users : w # u => at'[w] = at[w] /\ (w \in asked => w \in asked')
  BY <1>1 DEF Inv, Types
<1>5. at' \in [Users -> Ports \cup {none}] /\ at'[u] = p /\ asked' \subseteq Users
  BY <1>1 DEF Inv, Types
<1>6. CASE proxies[p] # TRUE
  <2>1. Types'
    BY <1>1, <1>5, <1>6 DEF Inv, Types
  <2>2. Aside
    BY <1>1, <1>3, <1>4, <1>6 DEF Aside
  <2> QED
    BY <2>1, <2>2, QuietKeeps
<1>7. CASE proxies[p] = TRUE
  <2>1. Spells(<<Frame("open", s, p, none)>>, {}, {s}, {})
    BY <1>2, FrameSpells
  <2>2. /\ Delivered(n, {}, {s}, {}) \/ Dropped(n, {})
        /\ wire' \in [Conns -> [Nodes -> Seq(AnyFrames)]] /\ left' \in [Nodes -> SUBSET Nat]
    BY <1>1, <1>2, <1>7, <2>1, SentGives DEF Inv
  <2>3. /\ next' \in [Nodes -> Nat] /\ sess' \in [Users -> Nat]
        /\ next'[n] = s /\ \A x \in Nodes : x # n => next'[x] = next[x]
        /\ sess'[u] = s /\ \A w \in Users : w # u => sess'[w] = sess[w]
    BY <1>1, <1>2, <1>7 DEF Inv, Types
  <2>4. Types'
    BY <1>1, <1>5, <2>2, <2>3 DEF Inv, Types
  <2>5. \A w \in Users : sess[w] # 0 /\ Home[w] = n => sess[w] < s
    <3>1. \A w \in Users : sess[w] # 0 /\ Home[w] = n => sess[w] <= next[n] /\ sess[w] \in Nat
      BY DEF Inv, BooksFit, Types
    <3> QED
      BY <3>1, <1>2
  <2>6. BooksFit'
    <3>1. ASSUME NEW w \in Users, sess'[w] # 0
          PROVE  /\ at'[w] \in Exported[Peer(Home[w])] /\ proxies'[at'[w]] = TRUE
                 /\ sess'[w] <= next'[Home[w]]
      <4>1. CASE w = u
        BY <1>1, <1>2, <1>5, <1>7, <2>3, <4>1
      <4>2. CASE w # u
        <5>1. /\ at'[w] \in Exported[Peer(Home[w])] /\ proxies'[at'[w]] = TRUE
              /\ sess'[w] = sess[w] /\ sess[w] <= next[Home[w]]
          BY <1>1, <1>4, <2>3, <3>1, <4>2 DEF Inv, BooksFit
        <5>2. CASE Home[w] = n
          BY <5>1, <5>2, <2>3, <2>5, <3>1, <1>2 DEF Inv, Types
        <5>3. CASE Home[w] # n
          BY <5>1, <5>3, <2>3, Exports
        <5> QED
          BY <5>1, <5>2, <5>3
      <4> QED
        BY <4>1, <4>2
    <3>2. ASSUME NEW w \in Users, NEW z \in Users, Home[w] = Home[z], sess'[w] = sess'[z],
                 sess'[w] # 0
          PROVE  w = z
      <4>1. CASE w # u /\ z # u
        BY <2>3, <3>2, <4>1 DEF Inv, BooksFit
      <4>2. CASE w = u /\ z # u
        BY <1>2, <2>3, <2>5, <3>2, <4>2
      <4>3. CASE w # u /\ z = u
        BY <1>2, <2>3, <2>5, <3>2, <4>3
      <4> QED
        BY <4>1, <4>2, <4>3
    <3> QED
      BY <1>1, <3>1, <3>2 DEF Inv, BooksFit
  <2>7. BookStep(n, {}, {s}, {})
    <3>1. ASSUME NEW x \in Nodes, NEW t \in Sids, Known(x, t) PROVE Known(x, t)'
      <4>1. PICK w \in UsersAt(x) : t = sess[w] \/ \E q \in Ports : t = stale[q][w]
        BY <3>1 DEF Known
      <4>2. CASE w = u /\ t = sess[w]
        BY <1>3, <4>2 DEF Sids
      <4>3. CASE w # u /\ t = sess[w]
        BY <2>3, <4>1, <4>3 DEF Known, UsersAt
      <4>4. CASE \E q \in Ports : t = stale[q][w]
        BY <1>1, <4>1, <4>4 DEF Known, UsersAt
      <4> QED
        BY <4>1, <4>2, <4>3, <4>4
    <3>2. \A t \in {s} : Known(n, t)'
      <4>1. u \in UsersAt(n)' /\ sess'[u] = s
        BY <1>2, <2>3 DEF UsersAt
      <4> HIDE DEF s
      <4> QED
        BY <4>1 DEF Known
    <3>3. next[n] <= next'[n] /\ \A t \in {s} : next[n] < t /\ t <= next'[n]
      BY <1>2, <2>3
    <3>4. \A w \in Users :
            \/ /\ sess'[w] = sess[w] /\ at'[w] = at[w] /\ (w \in asked => w \in asked')
               /\ \A d \in Conns : at[w] \in loop[Home[w]][d].todo
                                     => at[w] \in loop'[Home[w]][d].todo
            \/ Home[w] = n /\ sess'[w] \in {0} \cup {s}
      BY <1>1, <1>4, <2>3
    <3>5. \A t \in {} : t <= next[n] /\ \A w \in UsersAt(n) : sess'[w] = t => w \in asked'
      OBVIOUS
    <3>6. \A t \in Sids : Known(n, t) => Known(n, t)' \/ t \in {}
      BY <1>2, <3>1
    <3>7. \A x \in Nodes, t \in Sids : x # n /\ Known(x, t) => Known(x, t)'
      BY <3>1
    <3>8. /\ UNCHANGED <<opened, cut, paths, leaving, mapped, seat>>
          /\ next[n] <= next'[n] /\ \A x \in Nodes : x # n => next'[x] = next[x]
      BY <1>1, <2>3, <3>3
    <3> HIDE DEF n, s
    <3> QED
      BY <2>2, <3>2, <3>3, <3>4, <3>5, <3>6, <3>7, <3>8 DEF BookStep
  <2>8. {} \in SUBSET Nat /\ {s} \in SUBSET Nat
    BY <1>2
  <2> HIDE DEF n, s
  <2> QED
    BY <1>2, <2>4, <2>6, <2>7, <2>8, BookKeeps DEF Inv
<1> QED
  BY <1>6, <1>7

-----------------------------------------------------------------------------
(* Every step *)

(* The end of a payload, an answer and what is made of it, the slot taken  *)
(* and given back by the port's own users.                                 *)
LEMMA OthersKeep ==
  ASSUME Inv,
         \/ \E n \in Nodes, c \in Conns : PortsDone(n, c)
         \/ \E u \in Users : Handler(u)
         \/ \E p \in Ports : TakeSlot(p) \/ FreeSlot(p)
         \/ UNCHANGED vars
  PROVE  Inv'
<1>1. ASSUME NEW n \in Nodes, NEW c \in Conns, PortsDone(n, c) PROVE Inv'
  <2>1. loop' = [loop EXCEPT ![n][c] = Idle] /\ loop[n][c].todo = {}
    BY <1>1 DEF PortsDone
  <2>2. Idle \in Loops /\ Idle.todo = {}
    BY DEF Idle, Loops
  <2>3. /\ loop' \in [Nodes -> [Conns -> Loops]]
        /\ \A x \in Nodes, d \in Conns : loop'[x][d].todo = loop[x][d].todo
    BY <2>1, <2>2 DEF Inv, Types
  <2>4. UNCHANGED <<opened, cut, paths, leaving, wire, proxies, next, at, sess, stale,
                    mapped, seat, asked, left>>
    BY <1>1 DEF PortsDone, viewVars, portVars
  <2> QED
    BY <2>3, <2>4, QuietKeeps DEF Inv, Types, Aside
<1>2. ASSUME \/ \E u \in Users : Handler(u)
             \/ \E p \in Ports : TakeSlot(p) \/ FreeSlot(p)
             \/ UNCHANGED vars
      PROVE  Inv'
  <2>1. UNCHANGED <<opened, cut, paths, leaving, wire, loop, proxies, next, at, sess, stale,
                    mapped, seat, asked, left>>
    BY <1>2 DEF Handler, Answered, GrantEnds, Timeout, TakeSlot, FreeSlot, vars, linkVars,
                viewVars, portVars
  <2> QED
    BY <2>1, QuietKeeps DEF Inv, Types, Aside
<1> QED
  BY <1>1, <1>2

LEMMA LoopKeeps ==
  ASSUME Inv, NEW n \in Nodes, NEW c \in Conns, Loop(n, c)
  PROVE  Inv'
<1>1. CASE Leave(n, c)
  BY <1>1, LeaveKeeps
<1>2. CASE Gone(n, c)
  BY <1>2, GoneKeeps
<1>3. CASE ReadPorts(n, c)
  BY <1>3, ReadPortsKeeps
<1>4. CASE \E p \in Ports : RegisterPort(n, c, p)
  BY <1>4, RegisterPortKeeps
<1>5. CASE PortsDone(n, c)
  BY <1>5, OthersKeep
<1>6. CASE \E u \in UsersAt(n) : AskGrant(n, c, u)
  BY <1>6, AskGrantKeeps
<1>7. CASE ReadAck(n, c)
  BY <1>7, ReadAckKeeps
<1>8. CASE ReadOpen(n, c)
  BY <1>8, ReadOpenKeeps
<1>9. CASE ReadClose(n, c)
  BY <1>9, ReadCloseKeeps
<1>10. CASE ReadRequest(n, c)
  BY <1>10, ReadRequestKeeps
<1> QED
  BY <1>1, <1>2, <1>3, <1>4, <1>5, <1>6, <1>7, <1>8, <1>9, <1>10 DEF Loop

LEMMA NextKeeps == Inv /\ [Next]_vars => Inv'
<1> SUFFICES ASSUME Inv, [Next]_vars PROVE Inv'
  OBVIOUS
<1>1. CASE Dial
  BY <1>1, DialKeeps
<1>2. ASSUME NEW c \in Conns, Cut(c) PROVE Inv'
  BY <1>2, CutKeeps
<1>3. ASSUME NEW n \in Nodes, NEW c \in Conns, Loop(n, c) PROVE Inv'
  BY <1>3, LoopKeeps
<1>4. ASSUME NEW u \in Users, User(u) PROVE Inv'
  BY <1>4, AttachKeeps, DetachKeeps, UserRequestKeeps DEF User
<1>5. ASSUME NEW n \in Nodes, Restart(n) PROVE Inv'
  BY <1>5, RestartKeeps
<1>6. CASE \/ \E u \in Users : Handler(u)
           \/ \E p \in Ports : TakeSlot(p) \/ FreeSlot(p)
           \/ UNCHANGED vars
  BY <1>6, OthersKeep
<1> QED
  BY <1>1, <1>2, <1>3, <1>4, <1>5, <1>6 DEF Next

LEMMA InvHolds == Spec => []Inv
<1> QED
  BY InitEstablishes, NextKeeps, PTL DEF Spec

-----------------------------------------------------------------------------
(* Theorems *)

(* Whatever a proxy forgets when its last path goes, the number of every   *)
(* stream the origin still keeps a seat for stays with it, in              *)
(* _client_sessions or _stale_sessions, until the CLOSE is sent; only a    *)
(* CLOSE that went down with a path, or a restart, leaves a seat behind.   *)
THEOREM StreamsAreRemembered == Spec => []RemembersStreams
<1>1. Inv => RemembersStreams
  <2> SUFFICES ASSUME Inv, NEW n \in Nodes, NEW s \in Sids, mapped[Peer(n)][s] # none
               PROVE  \/ \E u \in UsersAt(n) : s \in {sess[u]} \cup {stale[p][u] : p \in Ports}
                      \/ Closing(n, s) \/ s \in left[n]
    BY DEF RemembersStreams
  <2>1. Known(n, s) \/ s \in left[n] \/ \E c \in Conns : HasFrame(wire[c][n], "close", s)
    BY DEF Inv, OpensKnown
  <2>2. Known(n, s) => \E u \in UsersAt(n) : s \in {sess[u]} \cup {stale[p][u] : p \in Ports}
    BY DEF Known
  <2>3. ASSUME NEW c \in Conns, HasFrame(wire[c][n], "close", s) PROVE Closing(n, s)
    <3>1. wire[c][n] \in Seq(AnyFrames)
      BY DEF Inv, Types
    <3>2. DOMAIN wire[c][n] = 1..Len(wire[c][n])
      BY <3>1
    <3> QED
      BY <2>3, <3>2 DEF Closing, HasFrame
  <2> QED
    BY <2>1, <2>2, <2>3
<1> QED
  BY <1>1, InvHolds, PTL

(* A pseudo-client sits only where its number is mapped; and once a path   *)
(* is up, its proxies registered again and the OPEN read, the one that has *)
(* the write slot stands for a user who asked for it: numbers start over   *)
(* with a process, but no seat of an earlier stream passes to a later one. *)
THEOREM SeatsFollow == Spec => []SeatsFollowStreams
<1>1. Inv => SeatsFollowStreams
  <2> SUFFICES ASSUME Inv, NEW n \in Nodes, NEW p \in Ports, NEW s \in Sids
               PROVE  /\ seat[n][p][s] # "absent" => mapped[n][s] = p
                      /\ \A u \in UsersAt(Peer(n)) :
                            /\ seat[n][p][s] = "read-write" /\ sess[u] = s /\ at[u] = p
                            /\ ~Reseated(Home[u], s) /\ ~Announced(Home[u], p) /\ ~Doomed(n)
                            => u \in asked
    BY DEF SeatsFollowStreams
  <2>1. seat[n][p][s] # "absent" => mapped[n][s] = p
    BY DEF Inv, Seated
  <2>2. ASSUME NEW u \in UsersAt(Peer(n)), seat[n][p][s] = "read-write", sess[u] = s, at[u] = p,
               ~Reseated(Home[u], s), ~Announced(Home[u], p), ~Doomed(n)
        PROVE  u \in asked
    <3>1. /\ u \in Users /\ Home[u] = Peer(n) /\ Peer(n) \in Nodes /\ Peer(Peer(n)) = n
      BY <2>2, Peers DEF UsersAt
    <3>2. PICK c \in paths[n] : c \notin cut
      BY <2>2 DEF Doomed
    <3>3. c \in Alive /\ c \in Conns
      BY <3>2, FedStreamsAssumption DEF Inv, Types, PathsFit, Alive, Conns
    <3>4. \A x \in Nodes : DOMAIN wire[c][x] = 1..Len(wire[c][x])
      <4>1. \A x \in Nodes : wire[c][x] \in Seq(AnyFrames)
        BY <3>3 DEF Inv, Types
      <4> QED
        BY <4>1
    <3>5. ~HasFrame(wire[c][Peer(n)], "open", s)
      BY <2>2, <3>1, <3>3, <3>4 DEF Reseated, HasFrame
    <3>6. ~HasPorts(wire[c][n]) /\ p \notin loop[Peer(n)][c].todo
      BY <2>2, <3>1, <3>3, <3>4 DEF Announced, HasPorts
    <3> QED
      BY <2>2, <3>1, <3>3, <3>5, <3>6 DEF Inv, Renewed, UsersAt
  <2> QED
    BY <2>1, <2>2
<1> QED
  BY <1>1, InvHolds, PTL
=============================================================================
