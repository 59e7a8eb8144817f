---------------------------- MODULE DevicesProofs ----------------------------
(***************************************************************************)
(* The device adapters, for any ports, devices, retry limits and numbers   *)
(* of connections: a serial device is tended by one port (SerialInv), a    *)
(* TCP port that is wanted is tended (IndInv), and the two adapters        *)
(* together implement DeviceLink (SerialInv, and StopOrder for the TCP     *)
(* port).  The power section tells its users of the last feed (Staged).    *)
(***************************************************************************)
EXTENDS MCDevices, SequenceTheorems, TLAPS

(* The listed ports: no name twice *)

Distinct(s) == \A i, j \in 1..Len(s) : s[i] = s[j] => i = j

LEMMA IndexIs ==
  ASSUME NEW s \in Seq(SerialNames), Distinct(s), NEW i \in 1..Len(s)
  PROVE  Serial!Index(s[i], s) = i
  BY DEF Serial!Index, Distinct

LEMMA FlaggedIs ==
  ASSUME NEW s \in Seq(SerialNames), Distinct(s), NEW j \in 1..Len(s), NEW w
  PROVE  Serial!Flagged(s[j], s, w) <=> \E i \in 1..(j - 1) : w[s[i]].device = w[s[j]].device
<1>1. Serial!Index(s[j], s) = j
  BY IndexIs
<1> QED
  BY <1>1 DEF Serial!Flagged

LEMMA ToSetIs ==
  ASSUME NEW s \in Seq(SerialNames), NEW q
  PROVE  q \in Serial!ToSet(s) <=> \E i \in 1..Len(s) : s[i] = q
  BY DEF Serial!ToSet

(* A name that joins the list is its last.                                   *)
LEMMA Joins ==
  ASSUME NEW s \in Seq(SerialNames), Distinct(s), NEW p \in SerialNames, p \notin Serial!ToSet(s)
  PROVE  \E t \in Seq(SerialNames) :
             /\ t = Append(s, p) /\ Distinct(t) /\ Len(t) = Len(s) + 1
             /\ t[Len(t)] = p /\ \A i \in 1..Len(s) : t[i] = s[i]
             /\ \A q : q \in Serial!ToSet(t) <=> q \in Serial!ToSet(s) \/ q = p
<1> DEFINE t == Append(s, p)
<1>1. /\ t \in Seq(SerialNames) /\ Len(t) = Len(s) + 1
      /\ t[Len(t)] = p /\ \A i \in 1..Len(s) : t[i] = s[i]
  OBVIOUS
<1>2. \A i \in 1..Len(s) : s[i] # p
  BY ToSetIs
<1> HIDE DEF t
<1>3. Distinct(t)
  BY <1>1, <1>2 DEF Distinct
<1>4. \A q : q \in Serial!ToSet(t) <=> q \in Serial!ToSet(s) \/ q = p
  <2>1. 1..Len(t) = 1..Len(s) \cup {Len(t)}
    BY <1>1
  <2>2. \A q : q \in Serial!ToSet(t) <=> \E i \in 1..Len(t) : t[i] = q
    BY <1>1, ToSetIs
  <2> QED
    BY <1>1, <2>1, <2>2, ToSetIs
<1> QED
  BY <1>1, <1>3, <1>4 DEF t

(* A name that leaves the list leaves the others in their order.             *)
LEMMA Leaves ==
  ASSUME NEW s \in Seq(SerialNames), Distinct(s), NEW p \in Serial!ToSet(s)
  PROVE  \E t \in Seq(SerialNames) :
            /\ t = Serial!RemoveAt(s, Serial!Index(p, s)) /\ Distinct(t)
            /\ \A q : q \in Serial!ToSet(t) <=> q \in Serial!ToSet(s) /\ q # p
            /\ \A j \in 1..Len(t) : \E k \in 1..Len(s) :
                  /\ s[k] = t[j]
                  /\ \A i \in 1..(j - 1) : \E h \in 1..(k - 1) : s[h] = t[i]
<1>1. PICK k \in 1..Len(s) : s[k] = p
  BY ToSetIs
<1>2. Serial!Index(p, s) = k
  BY <1>1, IndexIs
<1> DEFINE t == SubSeq(s, 1, k - 1) \o SubSeq(s, k + 1, Len(s))
           a == SubSeq(s, 1, k - 1)
           b == SubSeq(s, k + 1, Len(s))
<1>3. /\ a \in Seq(SerialNames) /\ Len(a) = k - 1 /\ \A i \in 1..(k - 1) : a[i] = s[i]
      /\ b \in Seq(SerialNames) /\ Len(b) = Len(s) - k /\ \A i \in 1..(Len(s) - k) : b[i] = s[k + i]
  <2>1. k - 1 \in Int /\ k + 1 \in Int /\ Len(s) \in Nat
    OBVIOUS
  <2>2. \A i \in 1..(k - 1) : i \in 1..Len(s)
    BY <2>1
  <2>3. \A i \in (k + 1)..Len(s) : i \in 1..Len(s)
    BY <2>1
  <2> QED
    BY <2>1, <2>2, <2>3, SubSeqProperties
<1>4. /\ t \in Seq(SerialNames) /\ Len(t) = Len(s) - 1
      /\ \A i \in 1..(k - 1) : t[i] = s[i]
      /\ \A i \in k..(Len(s) - 1) : t[i] = s[i + 1]
  <2> HIDE DEF a, b
  <2>1. /\ a \o b \in Seq(SerialNames) /\ Len(a \o b) = Len(s) - 1
        /\ \A i \in 1..(Len(s) - 1) : (a \o b)[i] = IF i <= k - 1 THEN a[i] ELSE b[i - (k - 1)]
    <3>1. /\ a \o b \in Seq(SerialNames) /\ Len(a \o b) = Len(a) + Len(b)
          /\ \A i \in 1..(Len(a) + Len(b)) : (a \o b)[i] = IF i <= Len(a) THEN a[i] ELSE b[i - Len(a)]
      BY <1>3, ConcatProperties
    <3>2. Len(a) + Len(b) = Len(s) - 1 /\ Len(a) = k - 1
      BY <1>1, <1>3
    <3> QED
      BY <3>1, <3>2
  <2>2. \A i \in k..(Len(s) - 1) : i \in 1..(Len(s) - 1) /\ ~(i <= k - 1)
                                   /\ i - (k - 1) \in 1..(Len(s) - k) /\ k + (i - (k - 1)) = i + 1
    BY <1>1
  <2>3. \A i \in 1..(k - 1) : i \in 1..(Len(s) - 1)
    BY <1>1
  <2>4. t = a \o b
    BY DEF a, b
  <2>5. \A i \in 1..(k - 1) : t[i] = s[i]
    <3>1. \A i \in 1..(k - 1) : i <= k - 1
      OBVIOUS
    <3> QED
      BY <1>3, <2>1, <2>3, <2>4, <3>1
  <2>6. \A i \in k..(Len(s) - 1) : t[i] = s[i + 1]
    <3> SUFFICES ASSUME NEW i \in k..(Len(s) - 1) PROVE t[i] = s[i + 1]
      OBVIOUS
    <3>1. t[i] = b[i - (k - 1)]
      BY <2>1, <2>2, <2>4
    <3>2. b[i - (k - 1)] = s[k + (i - (k - 1))]
      BY <1>3, <2>2
    <3> QED
      BY <2>2, <3>1, <3>2
  <2> QED
    BY <2>1, <2>4, <2>5, <2>6
<1> DEFINE old(i) == IF i <= k - 1 THEN i ELSE i + 1
<1> HIDE DEF t, a, b
<1>5. \A i \in 1..Len(t) : old(i) \in 1..Len(s) /\ old(i) # k /\ t[i] = s[old(i)]
  BY <1>1, <1>4
<1>6. \A i, j \in 1..Len(t) : i < j => old(i) < old(j)
  BY <1>1, <1>4
<1>7. Distinct(t)
  <2> SUFFICES ASSUME NEW i \in 1..Len(t), NEW j \in 1..Len(t), t[i] = t[j] PROVE i = j
    BY DEF Distinct
  <2>1. old(i) = old(j)
    BY <1>5 DEF Distinct
  <2> QED
    BY <1>4, <2>1
<1>8. \A q : q \in Serial!ToSet(t) <=> q \in Serial!ToSet(s) /\ q # p
  <2> SUFFICES ASSUME NEW q PROVE q \in Serial!ToSet(t) <=> q \in Serial!ToSet(s) /\ q # p
    OBVIOUS
  <2>1. ASSUME NEW i \in 1..Len(t), t[i] = q PROVE q \in Serial!ToSet(s) /\ q # p
    BY <1>1, <1>5, <2>1, ToSetIs DEF Distinct
  <2>2. ASSUME NEW h \in 1..Len(s), s[h] = q, q # p PROVE \E i \in 1..Len(t) : t[i] = q
    <3>1. CASE h < k
      <4>1. h \in 1..Len(t) /\ t[h] = q
        BY <1>4, <2>2, <3>1
      <4> QED
        BY <4>1
    <3>2. CASE h > k
      <4>1. h - 1 \in 1..Len(t) /\ t[h - 1] = q
        BY <1>1, <1>4, <2>2, <3>2
      <4> QED
        BY <4>1
    <3> QED
      BY <1>1, <2>2, <3>1, <3>2
  <2> QED
    BY <1>4, <2>1, <2>2, ToSetIs
<1>9. ASSUME NEW j \in 1..Len(t)
      PROVE  \E h \in 1..Len(s) : /\ s[h] = t[j]
                                  /\ \A i \in 1..(j - 1) : \E g \in 1..(h - 1) : s[g] = t[i]
  <2>1. \A i \in 1..(j - 1) : i \in 1..Len(t) /\ i < j
    BY <1>4
  <2>2. \A i \in 1..(j - 1) : old(i) \in 1..(old(j) - 1) /\ s[old(i)] = t[i]
    BY <1>4, <1>5, <1>6, <2>1
  <2> QED
    BY <1>5, <2>2
<1>10. Serial!RemoveAt(s, Serial!Index(p, s)) = t
  BY <1>2 DEF t, Serial!RemoveAt
<1> QED
  BY <1>4, <1>7, <1>8, <1>9, <1>10

-----------------------------------------------------------------------------
(* A port's wrapper on its own *)

Wrapper == [device : Paths, auto : BOOLEAN, connected : BOOLEAN,
            loop : {"none", "started", "opening", "reading", "closing", "sleeping", "done"},
            reader : {"none", "running", "done"}, tries : Nat,
            reason : {"none", "down", "duplicate"},
            state : {"CONFIGURED", "ACTIVE", "DEGRADED", "DESTROYING", "DESTROYED"},
            clients : {0, 1}, driven : {"unset", "high", "low"}, level : {"high", "low"}]

Alive(w) == w.loop \in Serial!Alive

(* A connected port has a supervisor, and one that has been connected starts *)
(* to count its attempts again.                                              *)
Sound(w) == /\ w \in Wrapper
            /\ w.connected => w.loop \in {"reading", "closing"}
            /\ w.loop \in {"reading", "closing"} => w.tries = 0

(* What the supervisor, the read loop and a change of the clients do to the  *)
(* wrapper w that becomes v.                                                 *)
Moves(w, v) == /\ Sound(v) /\ v.device = w.device /\ v.auto = w.auto
               /\ ~Alive(w) => /\ ~Alive(v) /\ (v.connected => w.connected)
                               /\ v.reason = w.reason \/ v.reason = "down"
               /\ Alive(w) => Alive(v) \/ ~w.auto \/ (MaxTries > 0 /\ v.reason = "down")

LEMMA FreshIs ==
  ASSUME NEW d \in Paths
  PROVE  /\ Sound(Serial!Fresh(d)) /\ Serial!Fresh(d).device = d /\ Serial!Fresh(d).auto
         /\ ~Serial!Fresh(d).connected /\ ~Alive(Serial!Fresh(d))
         /\ Serial!Fresh(d).reason = "none"
  BY DEF Serial!Fresh, Sound, Wrapper, Alive, Serial!Alive, Serial!Asserted

LEMMA PauseGives ==
  ASSUME NEW w \in Wrapper, ~w.connected, ~w.auto \/ w.tries = 0 \/ w.reason = "down"
  PROVE  LET v == Serial!Pause(w)
         IN  /\ Sound(v) /\ v.device = w.device /\ v.auto = w.auto /\ v.reason = w.reason
             /\ ~v.connected
             /\ Alive(v) \/ ~w.auto \/ (MaxTries > 0 /\ v.reason = "down")
<1>1. CASE w.auto /\ (MaxTries = 0 \/ w.tries < MaxTries)
  <2>1. PICK t : t = IF MaxTries = 0 THEN 0 ELSE w.tries + 1
    OBVIOUS
  <2>2. Serial!Pause(w) = [w EXCEPT !.loop = "sleeping", !.tries = t]
    BY <1>1, <2>1 DEF Serial!Pause, Wrapper
  <2>3. t \in Nat
    BY <2>1 DEF Wrapper
  <2> QED
    BY <2>2, <2>3 DEF Sound, Wrapper, Alive, Serial!Alive
<1>2. CASE ~(w.auto /\ (MaxTries = 0 \/ w.tries < MaxTries))
  <2>1. Serial!Pause(w) = [w EXCEPT !.loop = "done"]
    BY <1>2 DEF Serial!Pause
  <2>2. ~w.auto \/ (MaxTries > 0 /\ w.reason = "down")
    BY <1>2, DevicesAssumption DEF Wrapper
  <2> QED
    BY <2>1, <2>2 DEF Sound, Wrapper
<1> QED
  BY <1>1, <1>2

LEMMA ApplyGives ==
  ASSUME NEW w, Sound(w), NEW l \in {"high", "low"}
  PROVE  LET v == Serial!Apply(w, l)
         IN  /\ Sound(v) /\ v.device = w.device /\ v.auto = w.auto /\ v.reason = w.reason
             /\ v.connected = w.connected /\ v.loop = w.loop
<1>1. CASE w.driven = l
  BY <1>1 DEF Serial!Apply
<1>2. CASE w.driven # l
  <2>1. Serial!Apply(w, l) = [w EXCEPT !.driven = l, !.level = l]
    BY <1>2 DEF Serial!Apply
  <2> QED
    BY <2>1, ZenonT(40) DEF Sound, Wrapper
<1> QED
  BY <1>1, <1>2

LEMMA OpenedGives ==
  ASSUME NEW w, Sound(w), Alive(w)
  PROVE  Moves(w, Serial!Opened(w))
<1> DEFINE u == [w EXCEPT !.connected = TRUE, !.reason = "none", !.tries = 0,
                          !.loop = "reading", !.reader = "running", !.level = Serial!Asserted]
<1>1. /\ Sound(u) /\ Alive(u) /\ u.device = w.device /\ u.auto = w.auto
  BY DEF Sound, Wrapper, Alive, Serial!Alive, Serial!Asserted
<1>2. Serial!LineFor(w.clients) \in {"high", "low"}
  BY DEF Serial!LineFor
<1>3. Serial!Opened(w) = Serial!Apply(u, Serial!LineFor(w.clients))
  BY DEF Serial!Opened
<1> HIDE DEF u
<1> QED
  BY <1>1, <1>2, <1>3, ApplyGives DEF Moves, Alive

LEMMA FailedGives ==
  ASSUME NEW w, Sound(w), Alive(w), ~w.connected
  PROVE  Moves(w, Serial!Failed(w))
<1> DEFINE u == [w EXCEPT !.reason = "down"]
<1>1. /\ u \in Wrapper /\ ~u.connected /\ u.reason = "down"
      /\ u.device = w.device /\ u.auto = w.auto
  BY DEF Sound, Wrapper
<1>2. Serial!Failed(w) = Serial!Pause(u)
  BY DEF Serial!Failed
<1> HIDE DEF u
<1> QED
  BY <1>1, <1>2, PauseGives DEF Moves

LEMMA DisconnectedGives ==
  ASSUME NEW w, Sound(w)
  PROVE  LET v == Serial!Disconnected(w)
         IN  /\ Sound(v) /\ v.device = w.device /\ v.auto = w.auto /\ v.reason = w.reason
             /\ ~v.connected /\ v.tries = w.tries /\ v.loop = w.loop
  BY DEF Serial!Disconnected, Sound, Wrapper

(* Each step of a port that changes nothing but the port.                    *)
OwnStep(p) == \/ Serial!SupervisorStep(p) \/ Serial!LinkLost(p)
              \/ \E n \in {0, 1} : Serial!ClientCount(p, n)

LEMMA OwnStepMoves ==
  ASSUME NEW p \in SerialNames, port \in [SerialNames -> Wrapper], Sound(port[p]), OwnStep(p)
  PROVE  /\ UNCHANGED <<listed, admin>>
         /\ \E v : Moves(port[p], v) /\ port' = [port EXCEPT ![p] = v]
<1> DEFINE w == port[p]
<1>w. PICK x : x = w
  OBVIOUS
<1>1. CASE Serial!TryOpen(p)
  <2>1. Alive(x) /\ ~x.connected /\ Sound(x)
    BY <1>1, <1>w DEF Serial!TryOpen, Alive, Serial!Alive, Sound
  <2>2. \/ ~x.auto /\ Serial!Set(p, [x EXCEPT !.loop = "done"])
        \/ Serial!Set(p, Serial!Failed(x))
        \/ Serial!Set(p, [x EXCEPT !.loop = "opening"])
    BY <1>1, <1>w DEF Serial!TryOpen
  <2>3. Moves(x, Serial!Failed(x)) /\ (~x.auto => Moves(x, [x EXCEPT !.loop = "done"]))
        /\ Moves(x, [x EXCEPT !.loop = "opening"])
    <3>1. Moves(x, Serial!Failed(x))
      BY <2>1, FailedGives
    <3>2. ~x.auto => Moves(x, [x EXCEPT !.loop = "done"])
      BY <2>1 DEF Moves, Sound, Wrapper
    <3>3. Moves(x, [x EXCEPT !.loop = "opening"])
      BY <2>1 DEF Moves, Sound, Wrapper, Alive, Serial!Alive
    <3> QED
      BY <3>1, <3>2, <3>3
  <2> QED
    BY <1>w, <2>2, <2>3 DEF Serial!Set
<1>2. CASE Serial!OpenEnds(p)
  <2>1. Alive(x) /\ ~x.connected /\ Sound(x)
    BY <1>2, <1>w DEF Serial!OpenEnds, Alive, Serial!Alive, Sound
  <2>2. Moves(x, Serial!Failed(x)) /\ Moves(x, Serial!Opened(x))
    BY <2>1, FailedGives, OpenedGives
  <2>3. Serial!Set(p, Serial!Opened(x)) \/ Serial!Set(p, Serial!Failed(x))
    BY <1>2, <1>w DEF Serial!OpenEnds
  <2> QED
    BY <1>w, <2>2, <2>3 DEF Serial!Set
<1>3. CASE Serial!ReaderBack(p)
  <2>1. Alive(x) /\ Sound(x) /\ x.tries = 0 /\ x.loop = "reading"
    BY <1>3, <1>w DEF Serial!ReaderBack, Alive, Serial!Alive, Sound
  <2>2. Serial!Set(p, IF x.connected THEN [x EXCEPT !.loop = "closing"] ELSE Serial!Pause(x))
    BY <1>3, <1>w DEF Serial!ReaderBack
  <2>3. x.connected => Moves(x, [x EXCEPT !.loop = "closing"])
    BY <2>1 DEF Moves, Sound, Wrapper, Alive, Serial!Alive
  <2>4. ~x.connected => Moves(x, Serial!Pause(x))
    BY <2>1, PauseGives DEF Moves, Sound
  <2> QED
    BY <1>w, <2>2, <2>3, <2>4 DEF Serial!Set
<1>4. CASE Serial!Closed(p)
  <2>1. Alive(x) /\ Sound(x) /\ x.tries = 0
    BY <1>4, <1>w DEF Serial!Closed, Alive, Serial!Alive, Sound
  <2>2. PICK u : u = Serial!Disconnected(x)
    OBVIOUS
  <2>3. Sound(u) /\ u.device = x.device /\ u.auto = x.auto /\ ~u.connected /\ u.tries = 0
    BY <2>1, <2>2, DisconnectedGives
  <2>4. Moves(x, Serial!Pause(u))
    BY <2>1, <2>3, PauseGives DEF Moves, Sound
  <2>5. Serial!Set(p, Serial!Pause(u))
    BY <1>4, <1>w, <2>2 DEF Serial!Closed
  <2> QED
    BY <1>w, <2>4, <2>5 DEF Serial!Set
<1>5. CASE Serial!LinkLost(p)
  <2>1. Serial!Set(p, [x EXCEPT !.reader = "done", !.connected = FALSE, !.reason = "down"])
    BY <1>5, <1>w DEF Serial!LinkLost
  <2>2. Moves(x, [x EXCEPT !.reader = "done", !.connected = FALSE, !.reason = "down"])
    BY <1>w DEF Moves, Sound, Wrapper, Alive
  <2> QED
    BY <1>w, <2>1, <2>2 DEF Serial!Set
<1>6. ASSUME NEW n \in {0, 1}, Serial!ClientCount(p, n)
      PROVE  /\ UNCHANGED <<listed, admin>>
             /\ \E v : Moves(port[p], v) /\ port' = [port EXCEPT ![p] = v]
  <2>1. PICK u : u = [x EXCEPT !.clients = n]
    OBVIOUS
  <2>2. /\ Sound(u) /\ u.device = x.device /\ u.auto = x.auto /\ u.reason = x.reason
        /\ u.connected = x.connected /\ u.loop = x.loop
    BY <1>w, <2>1 DEF Sound, Wrapper
  <2>3. Serial!Set(p, IF x.connected THEN Serial!Apply(u, Serial!LineFor(n)) ELSE u)
    BY <1>6, <1>w, <2>1 DEF Serial!ClientCount
  <2>4. Serial!LineFor(n) \in {"high", "low"}
    BY DEF Serial!LineFor
  <2>5. Moves(x, u) /\ Moves(x, Serial!Apply(u, Serial!LineFor(n)))
    BY <2>2, <2>4, ApplyGives DEF Moves, Alive
  <2> QED
    BY <1>w, <2>3, <2>5 DEF Serial!Set
<1> QED
  BY <1>1, <1>2, <1>3, <1>4, <1>5, <1>6 DEF OwnStep, Serial!SupervisorStep

-----------------------------------------------------------------------------
(* The duplicates are told anew *)

(* The port at place j names a device that one before it names.              *)
Behind(s, w, j) == \E i \in 1..(j - 1) : w[s[i]].device = w[s[j]].device

Fits(w) == w \in [SerialNames -> Wrapper] /\ \A q \in SerialNames : Sound(w[q])

LEMMA ResumeGives ==
  ASSUME NEW w, Sound(w)
  PROVE  LET v == Serial!Resume(w)
         IN  /\ Sound(v) /\ v.device = w.device /\ v.auto = w.auto /\ v.reason = w.reason
             /\ v.connected = w.connected /\ Alive(v)
<1>1. CASE w.connected \/ w.loop \in Serial!Alive
  BY <1>1 DEF Serial!Resume, Sound, Alive, Serial!Alive
<1>2. CASE ~(w.connected \/ w.loop \in Serial!Alive)
  <2>1. Serial!Resume(w) = [w EXCEPT !.loop = "started", !.state = "ACTIVE"]
    BY <1>2 DEF Serial!Resume
  <2> QED
    BY <1>2, <2>1 DEF Sound, Wrapper, Alive, Serial!Alive
<1> QED
  BY <1>1, <1>2

LEMMA RecomputeGives ==
  ASSUME NEW s \in Seq(SerialNames), Distinct(s), NEW w, Fits(w)
  PROVE  \E r : /\ r = Serial!Recompute(s, w) /\ Fits(r)
                /\ \A q \in SerialNames :
                     /\ r[q].device = w[q].device /\ r[q].auto = w[q].auto
                     /\ r[q].connected = w[q].connected
                     /\ Alive(w[q]) => Alive(r[q])
                     /\ q \notin Serial!ToSet(s) => r[q] = w[q]
                /\ \A j \in 1..Len(s) :
                     IF Behind(s, w, j)
                     THEN /\ r[s[j]].reason = "duplicate" /\ (Alive(r[s[j]]) => Alive(w[s[j]]))
                     ELSE /\ r[s[j]].reason = "none"
                          /\ w[s[j]].reason # "none" => Alive(r[s[j]])
                          /\ w[s[j]].reason = "none" => r[s[j]] = w[s[j]]
<1> DEFINE flag(x) == [x EXCEPT !.reason = "duplicate", !.state = "DEGRADED"]
           clear(x) == Serial!Resume([x EXCEPT !.reason = "none"])
<1>1. PICK r : r = Serial!Recompute(s, w)
  OBVIOUS
<1>2. r = [q \in SerialNames |->
             IF q \notin Serial!ToSet(s) THEN w[q]
             ELSE IF Serial!Flagged(q, s, w) THEN flag(w[q])
             ELSE IF w[q].reason # "none" THEN clear(w[q])
             ELSE w[q]]
  BY <1>1 DEF Serial!Recompute
<1>3. ASSUME NEW x, Sound(x)
      PROVE  /\ Sound(flag(x)) /\ flag(x).device = x.device /\ flag(x).auto = x.auto
             /\ flag(x).connected = x.connected /\ flag(x).reason = "duplicate"
             /\ flag(x).loop = x.loop
             /\ Sound(clear(x)) /\ clear(x).device = x.device /\ clear(x).auto = x.auto
             /\ clear(x).connected = x.connected /\ clear(x).reason = "none" /\ Alive(clear(x))
  <2>1. /\ Sound(flag(x)) /\ flag(x).device = x.device /\ flag(x).auto = x.auto
        /\ flag(x).connected = x.connected /\ flag(x).reason = "duplicate"
        /\ flag(x).loop = x.loop
    BY <1>3 DEF Sound, Wrapper
  <2>2. PICK y : y = [x EXCEPT !.reason = "none"]
    OBVIOUS
  <2>3. /\ Sound(y) /\ y.device = x.device /\ y.auto = x.auto
        /\ y.connected = x.connected /\ y.reason = "none"
    BY <1>3, <2>2 DEF Sound, Wrapper
  <2>4. clear(x) = Serial!Resume(y)
    BY <2>2
  <2> HIDE DEF flag, clear
  <2> QED
    BY <2>1, <2>3, <2>4, ResumeGives
<1>4. \A q \in SerialNames : /\ w[q] \in Wrapper /\ Sound(w[q])
                             /\ \A x : Sound(x) => x \in Wrapper
  BY DEF Fits, Sound
<1> HIDE DEF flag, clear
<1>5. ASSUME NEW q \in SerialNames
      PROVE  /\ Sound(r[q])
             /\ r[q].device = w[q].device /\ r[q].auto = w[q].auto
             /\ r[q].connected = w[q].connected
             /\ Alive(w[q]) => Alive(r[q])
             /\ q \notin Serial!ToSet(s) => r[q] = w[q]
  <2>1. r[q] \in {w[q], flag(w[q]), clear(w[q])} /\ (q \notin Serial!ToSet(s) => r[q] = w[q])
    BY <1>2
  <2> QED
    BY <1>3, <1>4, <2>1 DEF Alive
<1>6. Fits(r)
  <2>1. r = [q \in SerialNames |-> r[q]]
    BY <1>2
  <2>2. \A q \in SerialNames : r[q] \in Wrapper
    BY <1>4, <1>5
  <2> QED
    BY <1>5, <2>1, <2>2 DEF Fits
<1>7. ASSUME NEW j \in 1..Len(s)
      PROVE  IF Behind(s, w, j)
             THEN /\ r[s[j]].reason = "duplicate" /\ (Alive(r[s[j]]) => Alive(w[s[j]]))
             ELSE /\ r[s[j]].reason = "none"
                  /\ w[s[j]].reason # "none" => Alive(r[s[j]])
                  /\ w[s[j]].reason = "none" => r[s[j]] = w[s[j]]
  <2>1. PICK q \in SerialNames : q = s[j]
    OBVIOUS
  <2>2. q \in Serial!ToSet(s) /\ (Serial!Flagged(q, s, w) <=> Behind(s, w, j))
    BY <2>1, FlaggedIs, ToSetIs, ZenonT(40) DEF Behind
  <2>3. r[q] = IF Behind(s, w, j) THEN flag(w[q])
               ELSE IF w[q].reason # "none" THEN clear(w[q]) ELSE w[q]
    BY <1>2, <2>2
  <2> QED
    BY <1>3, <1>4, <2>1, <2>3 DEF Alive
<1> QED
  BY <1>1, <1>5, <1>6, <1>7

LEMMA StartedGives ==
  ASSUME NEW w, Sound(w), ~w.connected, w.reason = "none" \/ ~Alive(w)
  PROVE  LET v == Serial!Started(w)
         IN  /\ Sound(v) /\ v.device = w.device /\ v.auto = w.auto /\ v.reason = w.reason
             /\ ~v.connected /\ (Alive(v) <=> w.reason = "none")
<1>1. CASE w.reason = "none"
  <2>1. Serial!Started(w) = [w EXCEPT !.loop = "started", !.state = "ACTIVE"]
    BY <1>1 DEF Serial!Started
  <2> QED
    BY <1>1, <2>1 DEF Sound, Wrapper, Alive, Serial!Alive
<1>2. CASE w.reason # "none"
  <2>1. Serial!Started(w) = [w EXCEPT !.state = "DEGRADED"]
    BY <1>2 DEF Serial!Started
  <2> QED
    BY <1>2, <2>1 DEF Sound, Wrapper, Alive
<1> QED
  BY <1>1, <1>2

LEMMA HaltGives ==
  ASSUME NEW w, Sound(w)
  PROVE  LET v == Serial!Halt(w)
         IN  /\ Sound(v) /\ v.device = w.device /\ v.reason = w.reason
             /\ v.connected = w.connected /\ (Alive(v) => Alive(w))
<1>1. PICK y : y = [w EXCEPT !.state = "DESTROYING", !.auto = FALSE]
  OBVIOUS
<1>2. /\ Sound(y) /\ y.device = w.device /\ y.reason = w.reason
      /\ y.connected = w.connected /\ y.loop = w.loop
  BY <1>1 DEF Sound, Wrapper
<1>3. Serial!CancelLoop(y) \in {y, [y EXCEPT !.loop = "done"], [y EXCEPT !.reader = "done"]}
      /\ (Serial!CancelLoop(y) = [y EXCEPT !.loop = "done"] => ~y.connected \/ Serial!CancelLoop(y) = y)
  BY <1>2 DEF Serial!CancelLoop, Sound, Wrapper
<1>4. \A v \in {y, [y EXCEPT !.loop = "done"], [y EXCEPT !.reader = "done"]} :
         (v = [y EXCEPT !.loop = "done"] => ~y.connected \/ v = y) =>
            /\ Sound(v) /\ v.device = w.device /\ v.reason = w.reason
            /\ v.connected = w.connected /\ (Alive(v) => Alive(w))
  BY <1>2 DEF Sound, Wrapper, Alive, Serial!Alive
<1>5. Serial!Halt(w) = Serial!CancelLoop(y)
  BY <1>1 DEF Serial!Halt
<1> QED
  BY <1>3, <1>4, <1>5

-----------------------------------------------------------------------------
(* The invariant of the serial ports, and what every step does to a link *)

Idle(w) == ~Alive(w) /\ ~w.connected /\ w.reason # "none"
Halted(q) == admin.at = "stop" /\ admin.p = q
Looked(q) == Alive(port[q]) \/ Halted(q) \/ (MaxTries > 0 /\ port[q].reason = "down")

Order == /\ listed \in Seq(SerialNames) /\ Distinct(listed)
         /\ admin = [at |-> admin.at, p |-> admin.p] /\ admin.at \in {"rest", "unregister", "stop"}
         /\ admin.at # "rest" => admin.p \in Serial!ToSet(listed)

(* A duplicate that waits for its device shows a reason: the reason is what  *)
(* has it resumed when the device's first port goes.                         *)
SerialInv ==
  /\ Order /\ Fits(port)
  /\ \A q \in SerialNames :
        /\ q \notin Serial!ToSet(listed) => ~Alive(port[q]) /\ ~port[q].connected
        /\ q \in Serial!ToSet(listed) => port[q].auto \/ Halted(q)
  /\ \A j \in 1..Len(listed) : IF Behind(listed, port, j) THEN Idle(port[listed[j]])
                               ELSE Looked(listed[j])

(* From phase f and link u to phase g and link v in one step of DeviceLink.  *)
Allowed(f, u, g, v) ==
  \/ g = f /\ v = u
  \/ f = "gone" /\ g \in {"idle", "tended"} /\ ~v
  \/ f = "idle" /\ g = "tended" /\ v = u
  \/ f = "tended" /\ g = "idle" /\ v = u
  \/ f = "tended" /\ ~u /\ v /\ g \in {"tended", "idle"}
  \/ u /\ ~v /\ g \in {f, "idle"}
  \/ f # "gone" /\ g = "gone" /\ ~v

LinkStep(q) == Allowed(Serial!PhaseOf(q), port[q].connected,
                       Serial!PhaseOf(q)', port'[q].connected)

LEMMA PhaseIs ==
  ASSUME NEW q
  PROVE  /\ Serial!PhaseOf(q) = IF q \notin Serial!ToSet(listed) THEN "gone"
                                ELSE IF Alive(port[q]) THEN "tended" ELSE "idle"
         /\ Serial!PhaseOf(q)' = IF q \notin Serial!ToSet(listed') THEN "gone"
                                 ELSE IF Alive(port'[q]) THEN "tended" ELSE "idle"
  BY DEF Serial!PhaseOf, Serial!Supervised, Alive

LEMMA SerialBegins == Serial!Init => SerialInv
<1> SUFFICES ASSUME Serial!Init PROVE SerialInv
  OBVIOUS
<1>1. listed = <<>> /\ <<>> \in Seq(SerialNames) /\ Len(<<>>) = 0 /\ admin.at = "rest"
      /\ admin = [at |-> admin.at, p |-> admin.p]
  BY DEF Serial!Init
<1>2. Order
  BY <1>1 DEF Order, Distinct
<1>3. ASSUME NEW q \in SerialNames
      PROVE  Sound(port[q]) /\ ~Alive(port[q]) /\ ~port[q].connected
  <2>1. PICK d \in Paths : port[q] = Serial!Fresh(d)
    BY DEF Serial!Init
  <2> QED
    BY <2>1, FreshIs
<1>4. Fits(port)
  <2>1. port = [q \in SerialNames |-> port[q]]
    BY DEF Serial!Init
  <2> QED
    BY <1>3, <2>1 DEF Fits, Sound
<1>5. \A q \in SerialNames : q \notin Serial!ToSet(listed)
  <2>1. \A i \in 1..Len(listed) : FALSE
    BY <1>1
  <2>2. listed \in Seq(SerialNames)
    BY <1>1
  <2> QED
    BY <2>1, <2>2, ToSetIs
<1> QED
  BY <1>1, <1>2, <1>3, <1>4, <1>5 DEF SerialInv

LEMMA OwnStepKeeps ==
  ASSUME SerialInv, NEW p \in SerialNames, OwnStep(p)
  PROVE  SerialInv' /\ \A q \in SerialNames : LinkStep(q)
<1>1. Order /\ Fits(port) /\ port \in [SerialNames -> Wrapper] /\ Sound(port[p])
  BY DEF SerialInv, Fits
<1>2. PICK v : /\ UNCHANGED <<listed, admin>> /\ Moves(port[p], v)
               /\ port' = [port EXCEPT ![p] = v]
  BY <1>1, OwnStepMoves
<1>3. /\ \A q \in SerialNames : port'[q] = IF q = p THEN v ELSE port[q]
      /\ port' \in [SerialNames -> Wrapper]
  BY <1>1, <1>2 DEF Moves, Sound
<1>4. Fits(port') /\ \A q \in SerialNames : port'[q].device = port[q].device /\ port'[q].auto = port[q].auto
  BY <1>1, <1>2, <1>3 DEF Fits, Moves
<1>5. Order'
  BY <1>1, <1>2 DEF Order
<1>u. \A q : Halted(q)' <=> Halted(q)
  BY <1>2 DEF Halted
<1>6. ASSUME NEW q \in SerialNames
      PROVE  /\ q \notin Serial!ToSet(listed)' => ~Alive(port'[q]) /\ ~port'[q].connected
             /\ q \in Serial!ToSet(listed)' => port'[q].auto \/ Halted(q)'
             /\ LinkStep(q)
  <2>1. /\ q \notin Serial!ToSet(listed) => ~Alive(port[q]) /\ ~port[q].connected
        /\ q \in Serial!ToSet(listed) => port[q].auto \/ Halted(q)
    BY DEF SerialInv
  <2>2. Serial!ToSet(listed)' = Serial!ToSet(listed)
    BY <1>2 DEF Serial!ToSet
  <2>3. port'[q].connected \in BOOLEAN /\ port[q].connected \in BOOLEAN
    BY <1>1, <1>3 DEF Wrapper
  <2>4. CASE q = p
    <3>1. /\ ~Alive(port[q]) => ~Alive(port'[q]) /\ (port'[q].connected => port[q].connected)
      BY <1>2, <1>3, <2>4 DEF Moves
    <3>2. LinkStep(q)
      <4>1. Serial!ToSet(listed') = Serial!ToSet(listed)
        BY <1>2
      <4> QED
        BY <2>1, <2>3, <3>1, <4>1, PhaseIs DEF LinkStep, Allowed
    <3> QED
      BY <1>4, <1>u, <2>1, <2>2, <3>1, <3>2
  <2>5. CASE q # p
    <3>1. port'[q] = port[q] /\ Serial!ToSet(listed') = Serial!ToSet(listed)
      BY <1>2, <1>3, <2>5
    <3>2. LinkStep(q)
      BY <3>1, PhaseIs DEF LinkStep, Allowed
    <3> QED
      BY <1>u, <2>1, <2>2, <3>1, <3>2
  <2> QED
    BY <2>4, <2>5
<1>7. ASSUME NEW j \in 1..Len(listed)'
      PROVE  IF Behind(listed, port, j)' THEN Idle(port'[listed'[j]]) ELSE Looked(listed[j])'
  <2>1. PICK q \in SerialNames : q = listed[j] /\ listed' = listed /\ j \in 1..Len(listed)
    BY <1>1, <1>2 DEF Order
  <2>2. Behind(listed, port, j)' <=> Behind(listed, port, j)
    <3>1. \A i \in 1..(j - 1) : i \in 1..Len(listed) /\ listed[i] \in SerialNames
      BY <1>1, <2>1 DEF Order
    <3> QED
      BY <1>4, <2>1, <3>1 DEF Behind
  <2>3. IF Behind(listed, port, j) THEN Idle(port[q]) ELSE Looked(q)
    BY <2>1 DEF SerialInv
  <2>4. q \in Serial!ToSet(listed)
    BY <1>1, <2>1, ToSetIs DEF Order
  <2>5. port[q].auto \/ Halted(q)
    BY <2>4 DEF SerialInv
  <2>6. Idle(port[q]) => Idle(port'[q])
    BY <1>2, <1>3 DEF Idle, Moves
  <2>7. Looked(q) => Looked(q)'
    <3>1. CASE q = p
      BY <1>2, <1>3, <1>u, <2>5, <3>1 DEF Looked, Moves
    <3>2. CASE q # p
      BY <1>3, <1>u, <3>2 DEF Looked
    <3> QED
      BY <3>1, <3>2
  <2> QED
    BY <2>1, <2>2, <2>3, <2>6, <2>7
<1> QED
  BY <1>4, <1>5, <1>6, <1>7 DEF SerialInv

LEMMA CreateKeeps ==
  ASSUME SerialInv, NEW p \in SerialNames, NEW d \in Paths, Serial!CreatePort(p, d)
  PROVE  SerialInv' /\ \A q \in SerialNames : LinkStep(q)
<1> DEFINE w == [port EXCEPT ![p] = Serial!Fresh(d)]
<1>1. /\ Order /\ Fits(port) /\ admin.at = "rest" /\ p \notin Serial!ToSet(listed)
      /\ listed' = Append(listed, p) /\ admin' = admin
      /\ port' = [Serial!Recompute(Append(listed, p), w) EXCEPT ![p] = Serial!Started(@)]
  BY DEF SerialInv, Serial!CreatePort
<1>2. PICK t \in Seq(SerialNames) :
             /\ t = listed' /\ Distinct(t) /\ Len(t) = Len(listed) + 1
             /\ t[Len(t)] = p /\ \A i \in 1..Len(listed) : t[i] = listed[i]
             /\ \A q : q \in Serial!ToSet(t) <=> q \in Serial!ToSet(listed) \/ q = p
  BY <1>1, Joins DEF Order
<1>3. /\ w \in [SerialNames -> Wrapper] /\ Fits(w) /\ w[p] = Serial!Fresh(d)
      /\ \A q \in SerialNames \ {p} : w[q] = port[q]
  BY <1>1, FreshIs DEF Fits, Sound
<1> HIDE DEF w
<1>4. PICK r : /\ r = Serial!Recompute(t, w) /\ Fits(r)
               /\ \A q \in SerialNames :
                     /\ r[q].device = w[q].device /\ r[q].auto = w[q].auto
                     /\ r[q].connected = w[q].connected
                     /\ Alive(w[q]) => Alive(r[q])
                     /\ q \notin Serial!ToSet(t) => r[q] = w[q]
               /\ \A j \in 1..Len(t) :
                     IF Behind(t, w, j)
                     THEN /\ r[t[j]].reason = "duplicate" /\ (Alive(r[t[j]]) => Alive(w[t[j]]))
                     ELSE /\ r[t[j]].reason = "none"
                          /\ w[t[j]].reason # "none" => Alive(r[t[j]])
                          /\ w[t[j]].reason = "none" => r[t[j]] = w[t[j]]
  BY <1>2, <1>3, RecomputeGives
<1>5. PICK v : v = Serial!Started(r[p])
  OBVIOUS
<1>6. port' = [r EXCEPT ![p] = v]
  BY <1>1, <1>2, <1>4, <1>5
<1>7. /\ r \in [SerialNames -> Wrapper] /\ Sound(r[p]) /\ ~r[p].connected
      /\ r[p].reason \in {"none", "duplicate"} /\ r[p].auto
      /\ r[p].reason = "none" <=> ~Behind(t, w, Len(t))
      /\ r[p].reason # "none" => ~Alive(r[p])
  <2>1. /\ Fits(r) /\ ~w[p].connected /\ w[p].auto /\ ~Alive(w[p])
    BY <1>3, <1>4, FreshIs
  <2>2. Len(t) \in 1..Len(t) /\ t[Len(t)] = p
    BY <1>2
  <2>3. IF Behind(t, w, Len(t)) THEN r[p].reason = "duplicate" /\ (Alive(r[p]) => Alive(w[p]))
        ELSE r[p].reason = "none"
    BY <1>4, <2>2
  <2> QED
    BY <1>4, <2>1, <2>3 DEF Fits
<1>8. /\ Sound(v) /\ v.device = r[p].device /\ v.auto /\ v.reason = r[p].reason
      /\ ~v.connected /\ (Alive(v) <=> r[p].reason = "none")
  BY <1>5, <1>7, StartedGives
<1>9. /\ \A q \in SerialNames : port'[q] = IF q = p THEN v ELSE r[q]
      /\ port' \in [SerialNames -> Wrapper] /\ Fits(port')
      /\ \A q \in SerialNames : port'[q].device = w[q].device
  BY <1>4, <1>6, <1>7, <1>8 DEF Fits, Sound
<1>10. Order'
  BY <1>1, <1>2 DEF Order
<1>u. \A q : ~Halted(q) /\ ~Halted(q)'
  BY <1>1 DEF Halted
<1>11. ASSUME NEW q \in SerialNames
       PROVE  /\ q \notin Serial!ToSet(listed)' => ~Alive(port'[q]) /\ ~port'[q].connected
              /\ q \in Serial!ToSet(listed)' => port'[q].auto \/ Halted(q)'
              /\ LinkStep(q)
  <2>1. /\ q \notin Serial!ToSet(listed) => ~Alive(port[q]) /\ ~port[q].connected
        /\ q \in Serial!ToSet(listed) => port[q].auto \/ Halted(q)
    BY DEF SerialInv
  <2>2. /\ q \in Serial!ToSet(listed)' <=> q \in Serial!ToSet(listed) \/ q = p
        /\ q \in Serial!ToSet(listed') <=> q \in Serial!ToSet(listed) \/ q = p
    BY <1>2 DEF Serial!ToSet
  <2>3. CASE q = p
    <3>1. LinkStep(q)
      BY <1>1, <1>8, <1>9, <2>2, <2>3, PhaseIs DEF LinkStep, Allowed
    <3> QED
      BY <1>8, <1>9, <2>2, <2>3, <3>1
  <2>4. CASE q # p
    <3>1. port'[q] = r[q] /\ w[q] = port[q]
      BY <1>3, <1>9, <2>4
    <3>2. /\ r[q].auto = port[q].auto /\ r[q].connected = port[q].connected
          /\ Alive(port[q]) => Alive(r[q])
          /\ q \notin Serial!ToSet(t) => r[q] = port[q]
      BY <1>4, <3>1
    <3>3. LinkStep(q)
      BY <2>2, <2>4, <3>1, <3>2, PhaseIs DEF LinkStep, Allowed
    <3> QED
      BY <1>2, <1>u, <2>1, <2>2, <2>4, <3>1, <3>2, <3>3
  <2> QED
    BY <2>3, <2>4
<1>12. ASSUME NEW j \in 1..Len(t)
       PROVE  IF Behind(t, w, j) THEN Idle(port'[t[j]]) ELSE Looked(t[j])'
  <2>1. CASE j = Len(t)
    BY <1>2, <1>7, <1>8, <1>9, <2>1 DEF Idle, Looked
  <2>2. CASE j # Len(t)
    <3>1. j \in 1..Len(listed) /\ \A i \in 1..(j - 1) : i \in 1..Len(listed)
      BY <1>1, <1>2, <2>2 DEF Order
    <3>2. \A i \in 1..Len(listed) : listed[i] \in SerialNames \ {p}
      BY <1>1, ToSetIs DEF Order
    <3>3. PICK q \in SerialNames \ {p} : q = listed[j] /\ q = t[j]
      BY <1>2, <3>1, <3>2
    <3>4. \A i \in 1..j : t[i] = listed[i] /\ w[t[i]] = port[listed[i]]
      BY <1>2, <1>3, <3>1, <3>2
    <3>5. Behind(t, w, j) <=> Behind(listed, port, j)
      <4>1. j \in 1..j /\ \A i \in 1..(j - 1) : i \in 1..j
        BY <3>1
      <4> QED
        BY <3>4, <4>1 DEF Behind
    <3>6. IF Behind(listed, port, j) THEN Idle(port[q]) ELSE Looked(q)
      BY <3>1, <3>3 DEF SerialInv
    <3>7. port'[q] = r[q] /\ w[q] = port[q]
      BY <1>3, <1>9, <3>3
    <3>8. IF Behind(t, w, j)
          THEN /\ r[q].reason = "duplicate" /\ (Alive(r[q]) => Alive(w[q]))
          ELSE /\ w[q].reason # "none" => Alive(r[q])
               /\ w[q].reason = "none" => r[q] = w[q]
      BY <1>4, <3>3
    <3>9. r[q].connected = w[q].connected
      BY <1>4, <3>3
    <3>10. CASE Behind(t, w, j)
      BY <3>3, <3>5, <3>6, <3>7, <3>8, <3>9, <3>10 DEF Idle
    <3>11. CASE ~Behind(t, w, j)
      <4>1. Looked(q)'
        BY <1>u, <3>5, <3>6, <3>7, <3>8, <3>11 DEF Looked
      <4> QED
        BY <3>3, <3>11, <4>1 DEF Looked
    <3> QED
      BY <3>10, <3>11
  <2> QED
    BY <2>1, <2>2
<1>13. ASSUME NEW j \in 1..Len(listed)'
       PROVE  IF Behind(listed, port, j)' THEN Idle(port'[listed'[j]]) ELSE Looked(listed[j])'
  <2>1. j \in 1..Len(t) /\ listed' = t
    BY <1>2
  <2>2. Behind(listed, port, j)' <=> Behind(t, w, j)
    <3>1. \A i \in 1..Len(t) : t[i] \in SerialNames
      BY <1>2
    <3>2. \A i \in 1..(j - 1) : i \in 1..Len(t)
      BY <1>2, <2>1
    <3> QED
      BY <1>9, <2>1, <3>1, <3>2 DEF Behind
  <2> QED
    BY <1>12, <2>1, <2>2 DEF Looked
<1> QED
  BY <1>9, <1>10, <1>11, <1>13 DEF SerialInv

(* The port leaves the manager.                                              *)
LEMMA DestroyKeeps ==
  ASSUME SerialInv, NEW p \in SerialNames, Serial!DestroyPort(p)
  PROVE  SerialInv' /\ \A q \in SerialNames : LinkStep(q)
<1>1. /\ UNCHANGED <<listed, port>> /\ admin.at = "rest"
      /\ admin' = [at |-> "unregister", p |-> p] /\ p \in Serial!ToSet(listed)
  BY DEF Serial!DestroyPort
<1>2. Serial!ToSet(listed)' = Serial!ToSet(listed) /\ Serial!ToSet(listed') = Serial!ToSet(listed)
  BY <1>1 DEF Serial!ToSet
<1>3. \A q : ~Halted(q) /\ ~Halted(q)'
  BY <1>1 DEF Halted
<1>4. Order'
  BY <1>1, <1>2 DEF SerialInv, Order
<1>5. \A j : (Behind(listed, port, j)' <=> Behind(listed, port, j))
             /\ (Looked(listed[j]) => Looked(listed[j])')
  BY <1>1, <1>3 DEF Behind, Looked
<1>6. \A q \in SerialNames : LinkStep(q)
  BY <1>1, <1>2, PhaseIs DEF LinkStep, Allowed
<1> QED
  BY <1>1, <1>2, <1>3, <1>4, <1>5, <1>6 DEF SerialInv

(* stop() cancels the supervisor, which keeps what the port shows.           *)
LEMMA StopKeeps ==
  ASSUME SerialInv, Serial!Stop
  PROVE  SerialInv' /\ \A q \in SerialNames : LinkStep(q)
<1>1. PICK p : p = admin.p
  OBVIOUS
<1>2. /\ Order /\ Fits(port) /\ listed' = listed /\ admin.at = "unregister"
      /\ port' = [port EXCEPT ![p] = Serial!Halt(@)] /\ admin' = [admin EXCEPT !.at = "stop"]
  BY <1>1 DEF SerialInv, Serial!Stop
<1>3. p \in SerialNames /\ p \in Serial!ToSet(listed) /\ admin' = [at |-> "stop", p |-> p]
  BY <1>1, <1>2, ToSetIs DEF Order
<1>4. PICK v : v = Serial!Halt(port[p])
  OBVIOUS
<1>5. /\ Sound(v) /\ v.device = port[p].device /\ v.reason = port[p].reason
      /\ v.connected = port[p].connected /\ (Alive(v) => Alive(port[p]))
  BY <1>2, <1>3, <1>4, HaltGives DEF Fits
<1>6. /\ \A q \in SerialNames : port'[q] = IF q = p THEN v ELSE port[q]
      /\ port' \in [SerialNames -> Wrapper] /\ Fits(port')
      /\ \A q \in SerialNames : port'[q].device = port[q].device
  BY <1>2, <1>3, <1>4, <1>5 DEF Fits, Sound
<1>7. Serial!ToSet(listed)' = Serial!ToSet(listed) /\ Serial!ToSet(listed') = Serial!ToSet(listed)
  BY <1>2 DEF Serial!ToSet
<1>8. Order'
  BY <1>2, <1>3, <1>7 DEF Order
<1>9. \A q : ~Halted(q) /\ (Halted(q)' <=> q = p)
  BY <1>2, <1>3 DEF Halted
<1>10. ASSUME NEW q \in SerialNames
       PROVE  /\ q \notin Serial!ToSet(listed)' => ~Alive(port'[q]) /\ ~port'[q].connected
              /\ q \in Serial!ToSet(listed)' => port'[q].auto \/ Halted(q)'
              /\ LinkStep(q)
  <2>1. /\ q \notin Serial!ToSet(listed) => ~Alive(port[q]) /\ ~port[q].connected
        /\ q \in Serial!ToSet(listed) => port[q].auto \/ Halted(q)
    BY DEF SerialInv
  <2>2. LinkStep(q)
    BY <1>3, <1>5, <1>6, <1>7, PhaseIs DEF LinkStep, Allowed
  <2> QED
    BY <1>3, <1>6, <1>7, <1>9, <2>1, <2>2
<1>11. ASSUME NEW j \in 1..Len(listed)'
       PROVE  IF Behind(listed, port, j)' THEN Idle(port'[listed'[j]]) ELSE Looked(listed[j])'
  <2>1. PICK q \in SerialNames : q = listed[j] /\ j \in 1..Len(listed)
    BY <1>2 DEF Order
  <2>2. Behind(listed, port, j)' <=> Behind(listed, port, j)
    <3>1. \A i \in 1..(j - 1) : i \in 1..Len(listed) /\ listed[i] \in SerialNames
      BY <1>2, <2>1 DEF Order
    <3> QED
      BY <1>2, <1>6, <2>1, <3>1 DEF Behind
  <2>3. IF Behind(listed, port, j) THEN Idle(port[q]) ELSE Looked(q)
    BY <2>1 DEF SerialInv
  <2>4. Idle(port[q]) => Idle(port'[q])
    BY <1>5, <1>6 DEF Idle
  <2>5. Looked(q) => Looked(q)'
    BY <1>6, <1>9 DEF Looked
  <2> QED
    BY <1>2, <2>1, <2>2, <2>3, <2>4, <2>5
<1> QED
  BY <1>6, <1>8, <1>10, <1>11 DEF SerialInv

(* The port is gone: the first of those it kept from its device is resumed.  *)
LEMMA StoppedKeeps ==
  ASSUME SerialInv, Serial!Stopped
  PROVE  SerialInv' /\ \A q \in SerialNames : LinkStep(q)
<1>1. PICK p : p = admin.p
  OBVIOUS
<1> DEFINE z == [(IF port[p].connected THEN Serial!Disconnected(port[p]) ELSE port[p])
                   EXCEPT !.reason = "none", !.state = "DESTROYED"]
           w == [port EXCEPT ![p] = z]
<1>2. /\ Order /\ Fits(port) /\ admin.at = "stop" /\ ~Serial!Supervised(p)
      /\ listed' = Serial!RemoveAt(listed, Serial!Index(p, listed))
      /\ port' = Serial!Recompute(listed', w) /\ admin' = [admin EXCEPT !.at = "rest"]
  BY <1>1 DEF SerialInv, Serial!Stopped
<1>3. p \in SerialNames /\ p \in Serial!ToSet(listed) /\ Sound(port[p]) /\ admin' = [at |-> "rest", p |-> p]
  BY <1>1, <1>2, ToSetIs DEF Order, Fits
<1>4. ~Alive(port[p]) /\ ~port[p].connected
  BY <1>2, <1>3 DEF Serial!Supervised, Alive, Sound, Serial!Alive
<1>5. Sound(z) /\ ~Alive(z) /\ ~z.connected
  BY <1>3, <1>4 DEF Sound, Wrapper, Alive
<1> HIDE DEF z
<1>6. /\ w \in [SerialNames -> Wrapper] /\ Fits(w) /\ w[p] = z
      /\ \A q \in SerialNames \ {p} : w[q] = port[q]
  BY <1>2, <1>3, <1>5 DEF Fits, Sound
<1> HIDE DEF w
<1>7. PICK t \in Seq(SerialNames) :
             /\ t = listed' /\ Distinct(t)
             /\ \A q : q \in Serial!ToSet(t) <=> q \in Serial!ToSet(listed) /\ q # p
             /\ \A j \in 1..Len(t) : \E k \in 1..Len(listed) :
                  /\ listed[k] = t[j]
                  /\ \A i \in 1..(j - 1) : \E h \in 1..(k - 1) : listed[h] = t[i]
  <2>1. listed \in Seq(SerialNames) /\ Distinct(listed) /\ p \in Serial!ToSet(listed)
    BY <1>2, <1>3 DEF Order
  <2>2. PICK t \in Seq(SerialNames) :
             /\ t = Serial!RemoveAt(listed, Serial!Index(p, listed)) /\ Distinct(t)
             /\ \A q : q \in Serial!ToSet(t) <=> q \in Serial!ToSet(listed) /\ q # p
             /\ \A j \in 1..Len(t) : \E k \in 1..Len(listed) :
                  /\ listed[k] = t[j]
                  /\ \A i \in 1..(j - 1) : \E h \in 1..(k - 1) : listed[h] = t[i]
    BY <2>1, Leaves
  <2>3. t = listed'
    BY <1>2, <2>2
  <2> QED
    BY <2>2, <2>3
<1>8. PICK r : /\ r = Serial!Recompute(t, w) /\ Fits(r)
               /\ \A q \in SerialNames :
                     /\ r[q].device = w[q].device /\ r[q].auto = w[q].auto
                     /\ r[q].connected = w[q].connected
                     /\ Alive(w[q]) => Alive(r[q])
                     /\ q \notin Serial!ToSet(t) => r[q] = w[q]
               /\ \A j \in 1..Len(t) :
                     IF Behind(t, w, j)
                     THEN /\ r[t[j]].reason = "duplicate" /\ (Alive(r[t[j]]) => Alive(w[t[j]]))
                     ELSE /\ r[t[j]].reason = "none"
                          /\ w[t[j]].reason # "none" => Alive(r[t[j]])
                          /\ w[t[j]].reason = "none" => r[t[j]] = w[t[j]]
  BY <1>6, <1>7, RecomputeGives
<1>9. port' = r
  BY <1>2, <1>7, <1>8
<1>10. Order'
  BY <1>3, <1>7 DEF Order
<1>11. \A q : /\ Halted(q) <=> q = p
              /\ ~Halted(q)'
  BY <1>1, <1>2, <1>3 DEF Halted
<1>12. ASSUME NEW q \in SerialNames
       PROVE  /\ q \notin Serial!ToSet(listed)' => ~Alive(port'[q]) /\ ~port'[q].connected
              /\ q \in Serial!ToSet(listed)' => port'[q].auto \/ Halted(q)'
              /\ LinkStep(q)
  <2>1. /\ q \notin Serial!ToSet(listed) => ~Alive(port[q]) /\ ~port[q].connected
        /\ q \in Serial!ToSet(listed) => port[q].auto \/ Halted(q)
    BY DEF SerialInv
  <2>2. /\ q \in Serial!ToSet(listed)' <=> q \in Serial!ToSet(listed) /\ q # p
        /\ q \in Serial!ToSet(listed') <=> q \in Serial!ToSet(listed) /\ q # p
    <3>1. Serial!ToSet(listed)' = Serial!ToSet(listed')
      BY DEF Serial!ToSet
    <3>2. Serial!ToSet(listed') = Serial!ToSet(t)
      BY <1>7
    <3> QED
      BY <1>7, <3>1, <3>2
  <2>3. CASE q = p
    <3>1. port'[q] = z
      BY <1>6, <1>7, <1>8, <1>9, <2>3
    <3>2. LinkStep(q)
      BY <1>3, <1>5, <2>2, <2>3, <3>1, PhaseIs DEF LinkStep, Allowed
    <3> QED
      BY <1>5, <2>2, <2>3, <3>1, <3>2
  <2>4. CASE q # p
    <3>1. w[q] = port[q] /\ port'[q] = r[q]
      BY <1>6, <1>9, <2>4
    <3>2. /\ r[q].auto = port[q].auto /\ r[q].connected = port[q].connected
          /\ Alive(port[q]) => Alive(r[q])
          /\ q \notin Serial!ToSet(t) => r[q] = port[q]
      BY <1>8, <3>1
    <3>3. LinkStep(q)
      BY <2>2, <2>4, <3>1, <3>2, PhaseIs DEF LinkStep, Allowed
    <3> QED
      BY <1>7, <1>11, <2>1, <2>2, <2>4, <3>1, <3>2, <3>3
  <2> QED
    BY <2>3, <2>4
<1>13. ASSUME NEW j \in 1..Len(t)
       PROVE  IF Behind(t, w, j) THEN Idle(port'[t[j]]) ELSE Looked(t[j])'
  <2>1. PICK k \in 1..Len(listed) :
              /\ listed[k] = t[j]
              /\ \A i \in 1..(j - 1) : \E h \in 1..(k - 1) : listed[h] = t[i]
    BY <1>7
  <2>2. \A i \in 1..Len(t) : t[i] \in SerialNames \ {p}
    <3>1. \A i \in 1..Len(t) : t[i] \in SerialNames /\ t[i] \in Serial!ToSet(t)
      BY ToSetIs
    <3> QED
      BY <1>7, <3>1
  <2>3. PICK q \in SerialNames \ {p} : q = t[j] /\ w[q] = port[q]
    BY <1>6, <2>2
  <2>4. Behind(t, w, j) => Behind(listed, port, k)
    <3> SUFFICES ASSUME NEW i \in 1..(j - 1), w[t[i]].device = w[t[j]].device
                 PROVE  Behind(listed, port, k)
      BY DEF Behind
    <3>1. PICK h \in 1..(k - 1) : listed[h] = t[i]
      BY <2>1
    <3>2. i \in 1..Len(t)
      BY <1>7
    <3>3. w[t[i]] = port[listed[h]] /\ w[t[j]] = port[listed[k]]
      BY <1>6, <2>1, <2>2, <3>1, <3>2
    <3> QED
      BY <3>3 DEF Behind
  <2>5. IF Behind(listed, port, k) THEN Idle(port[q]) ELSE Looked(q)
    BY <2>1, <2>3 DEF SerialInv
  <2>6. IF Behind(t, w, j)
        THEN r[q].reason = "duplicate" /\ (Alive(r[q]) => Alive(w[q]))
        ELSE /\ w[q].reason # "none" => Alive(r[q])
             /\ w[q].reason = "none" => r[q] = w[q]
    BY <1>8, <2>3
  <2>7. r[q].connected = w[q].connected
    BY <1>8, <2>3
  <2>8. CASE Behind(t, w, j)
    BY <1>9, <2>3, <2>4, <2>5, <2>6, <2>7, <2>8 DEF Idle
  <2>9. CASE ~Behind(t, w, j)
    <3>1. Looked(q)'
      BY <1>9, <1>11, <2>3, <2>5, <2>6, <2>9 DEF Looked, Idle
    <3> QED
      BY <2>3, <2>9, <3>1 DEF Looked
  <2> QED
    BY <2>8, <2>9
<1>14. ASSUME NEW j \in 1..Len(listed)'
       PROVE  IF Behind(listed, port, j)' THEN Idle(port'[listed'[j]]) ELSE Looked(listed[j])'
  <2>1. j \in 1..Len(t) /\ listed' = t
    BY <1>7
  <2>2. Behind(listed, port, j)' <=> Behind(t, w, j)
    <3>1. \A i \in 1..Len(t) : t[i] \in SerialNames
      BY <1>7
    <3>2. \A i \in 1..(j - 1) : i \in 1..Len(t)
      BY <1>7, <2>1
    <3> QED
      BY <1>8, <1>9, <2>1, <3>1, <3>2 DEF Behind
  <2> QED
    BY <1>13, <2>1, <2>2 DEF Looked
<1> QED
  BY <1>8, <1>9, <1>10, <1>12, <1>14 DEF SerialInv

LEMMA SerialStep ==
  ASSUME SerialInv, [Serial!Next]_Serial!vars
  PROVE  SerialInv' /\ \A q \in SerialNames : LinkStep(q)
<1>1. CASE Serial!Next
  <2>1. \/ \E p \in SerialNames : \/ \E d \in Paths : Serial!CreatePort(p, d)
                                  \/ Serial!DestroyPort(p) \/ OwnStep(p)
        \/ Serial!Stop \/ Serial!Stopped
    BY <1>1 DEF Serial!Next, OwnStep
  <2> QED
    BY <2>1, CreateKeeps, DestroyKeeps, OwnStepKeeps, StopKeeps, StoppedKeeps
<1>2. CASE UNCHANGED <<listed, port, admin>>
  <2>1. SerialInv'
    BY <1>2 DEF SerialInv, Order, Behind, Looked, Halted, Serial!ToSet
  <2>2. \A q \in SerialNames : LinkStep(q)
    BY <1>2, PhaseIs DEF LinkStep, Allowed
  <2> QED
    BY <2>1, <2>2
<1> QED
  BY <1>1, <1>2 DEF Serial!vars

(* _recompute_duplicate_device_flags, start and stop: for any ports and      *)
(* devices, whatever is created and destroyed, a device is looked after by   *)
(* the first listed port that names it and by no other.                      *)
THEOREM OnePortTendsADevice == Serial!Spec => []OnePortPerDevice
<1>1. SerialInv => OnePortPerDevice
  <2> SUFFICES ASSUME SerialInv, NEW j \in 1..Len(listed)
               PROVE  IF Serial!Flagged(listed[j], listed, port)
                      THEN ~Serial!Supervised(listed[j]) /\ ~port[listed[j]].connected
                      ELSE \/ Serial!Supervised(listed[j])
                           \/ admin.p = listed[j] /\ admin.at = "stop"
                           \/ MaxTries > 0 /\ port[listed[j]].reason = "down"
    BY DEF OnePortPerDevice, Serial!OnePortPerDevice
  <2>1. Serial!Flagged(listed[j], listed, port) <=> Behind(listed, port, j)
    BY FlaggedIs DEF SerialInv, Order, Behind
  <2>2. IF Behind(listed, port, j) THEN Idle(port[listed[j]]) ELSE Looked(listed[j])
    BY DEF SerialInv
  <2> QED
    BY <2>1, <2>2 DEF Idle, Looked, Halted, Alive, Serial!Supervised
<1>2. SerialInv /\ [Serial!Next]_Serial!vars => SerialInv'
  BY SerialStep
<1> QED
  BY <1>1, <1>2, SerialBegins, PTL DEF Serial!Spec


-----------------------------------------------------------------------------
(* The TCP port.  WantedIsTended alone is not inductive: a user who finds  *)
(* the port connected starts no manager, so the manager of a connected     *)
(* port has to be known to be there already, and it is lost to a           *)
(* cancellation unless no idle disconnect can exist.                       *)

Managers == {"none", "new", "connecting", "ticking", "backoff", "cancelled", "done"}

Shape == /\ cfg \in [onDemand : BOOLEAN, idleDrop : BOOLEAN, auto : BOOLEAN]
         /\ clients \in {0, 1} /\ conn \in BOOLEAN /\ mgr \in Managers
         /\ idle \in [Slots -> {"none", "waiting", "joining", "closing", "cancelled",
                                "cut", "done"}]

NoIdleTask == ~cfg.idleDrop => \A t \in Slots : idle[t] = "none"
Unstarted == stopper = "new" =>
               /\ ~conn /\ clients = 0 /\ reading = {} /\ mgr = "none"
               /\ \A t \in Slots : idle[t] = "none"

Tended == stopper = "no" /\ cfg.auto /\ ~cfg.idleDrop =>
            /\ mgr # "cancelled"
            /\ conn => MgrAlive
            /\ (cfg.onDemand => clients = 1) => MgrAlive

IndInv == Shape /\ NoIdleTask /\ Unstarted /\ Tended

\* Nothing is wanted before start().
LEMMA InitEstablishes == Init => IndInv
  BY DEF Init, IndInv, Shape, NoIdleTask, Unstarted, Tended, Managers, MgrAlive, Slots

\* The users' steps: a first user finds a manager or starts one.
LEMMA UsersPreserve == IndInv /\ (Start \/ UserArrives \/ UserLeaves) => IndInv'
<1> SUFFICES ASSUME IndInv, Start \/ UserArrives \/ UserLeaves PROVE IndInv'
  OBVIOUS
<1> USE DEF IndInv, Shape, NoIdleTask, Unstarted, Tended, Managers, MgrAlive, Slots
<1>1. CASE Start
  BY <1>1 DEF Start
<1>2. CASE UserArrives
  <2>1. Shape' /\ NoIdleTask' /\ UNCHANGED <<cfg, conn, reading, stopper>> /\ clients' = 1
    BY <1>2 DEF UserArrives, CallOff, CancelIdle, Pending
  <2>2. QED
    BY <1>2, <2>1 DEF UserArrives
<1>3. CASE UserLeaves
  <2>1. Shape' /\ NoIdleTask' /\ UNCHANGED <<cfg, conn, reading, mgr, stopper>> /\ clients' = 0
    BY <1>3 DEF UserLeaves, NewIdle
  <2>2. QED
    BY <1>3, <2>1 DEF UserLeaves
<1>4. QED
  BY <1>1, <1>2, <1>3

\* The manager's steps: with auto_reconnect it gives up only without users.
LEMMA ManagerPreserves == IndInv /\ ManagerStep => IndInv'
<1> SUFFICES ASSUME IndInv, ManagerStep PROVE IndInv'
  OBVIOUS
<1> USE DEF IndInv, Shape, NoIdleTask, Unstarted, Tended, Managers, MgrAlive, Slots
<1>1. CASE ManagerStarts
  BY <1>1 DEF ManagerStarts
<1>2. CASE Established
  BY <1>2 DEF Established
<1>3. CASE ConnectFails
  BY <1>3 DEF ConnectFails
<1>4. CASE Tick
  BY <1>4 DEF Tick
<1>5. CASE BackOff
  BY <1>5 DEF BackOff
<1>6. CASE ManagerCancelled
  BY <1>6 DEF ManagerCancelled
<1>7. QED
  BY <1>1, <1>2, <1>3, <1>4, <1>5, <1>6 DEF ManagerStep

\* An idle disconnect takes a step only where one was configured.
LEMMA IdlePreserves == ASSUME NEW t \in Slots, IndInv, IdleStep(t) PROVE IndInv'
<1> USE DEF IndInv, Shape, NoIdleTask, Unstarted, Tended, Managers, MgrAlive, Slots
<1>1. cfg.idleDrop
  BY DEF IdleStep, IdleFires, IdleJoined, IdleClosed, IdleCancelled
<1>2. UNCHANGED <<cfg, clients, reading, stopper>> /\ stopper # "new"
  BY DEF IdleStep, IdleFires, IdleJoined, IdleClosed, IdleCancelled
<1>3. Shape'
  BY ZenonT(40) DEF IdleStep, IdleFires, IdleJoined, IdleClosed, IdleCancelled, Close
<1>4. QED
  BY <1>1, <1>2, <1>3

\* A link that goes down leaves the manager where it is.
LEMMA LinkPreserves ==
    IndInv /\ ((\E c \in Conns : ReadEnds(c)) \/ WriteFails) => IndInv'
  BY DEF ReadEnds, WriteFails, IndInv, Shape, NoIdleTask, Unstarted, Tended, Managers,
         MgrAlive, Slots

\* From stop() on nothing is wanted.
LEMMA StopPreserves == IndInv /\ (Stop \/ StopStep) => IndInv'
<1> SUFFICES ASSUME IndInv, Stop \/ StopStep PROVE IndInv'
  OBVIOUS
<1> USE DEF IndInv, Shape, NoIdleTask, Unstarted, Tended, Managers, MgrAlive, Slots
<1>1. stopper' \notin {"new", "no"} /\ UNCHANGED <<cfg, clients>>
  BY DEF Stop, StopStep, StopManager, StopReader, StopClose
<1>2. Shape' /\ NoIdleTask'
  BY DEF Stop, StopStep, StopManager, StopReader, StopClose, CancelIdle, Pending
<1>3. QED
  BY <1>1, <1>2

LEMMA TcpKeeps == IndInv /\ [Next]_vars => IndInv'
<1> SUFFICES ASSUME IndInv, [Next]_vars PROVE IndInv'
  OBVIOUS
<1>1. CASE UNCHANGED vars
  BY <1>1 DEF vars, IndInv, Shape, NoIdleTask, Unstarted, Tended, MgrAlive
<1>2. CASE Next
  BY <1>2, UsersPreserve, ManagerPreserves, IdlePreserves, LinkPreserves, StopPreserves
  DEF Next
<1>3. QED
  BY <1>1, <1>2

(* on_client_count_changed and _connection_manager ("The first arriving    *)
(* user triggers the outbound connection"): without disconnect_when_idle a *)
(* port that is wanted is connected or its manager is at work, whatever    *)
(* the order of users, losses, attempts and ticks.                         *)
THEOREM WantedPortsAreTended == Spec => []WantedIsTended
<1>1. IndInv => WantedIsTended
  BY DEF IndInv, Shape, Tended, WantedIsTended, Wanted
<1>2. QED
  BY InitEstablishes, TcpKeeps, <1>1, PTL DEF Spec

-----------------------------------------------------------------------------
(* The refinement.  For the TCP port it takes that a stopped port has no   *)
(* manager left that could bring the link up behind its back.              *)

StopOrder == /\ IndInv
             /\ stopper \in {"read", "done"} => mgr = "none"
             /\ stopper = "done" => ~conn

TcpStep == Allowed(Phase, conn, Phase', conn')

\* stop() waits for the manager before it closes, and a manager is the only
\* task that connects.
LEMMA StopOrderKept == StopOrder /\ [Next]_vars => StopOrder'
<1> SUFFICES ASSUME StopOrder, [Next]_vars PROVE StopOrder'
  OBVIOUS
<1>1. IndInv'
  BY TcpKeeps DEF StopOrder
<1>2. ASSUME stopper' \in {"read", "done"} PROVE mgr' = "none" /\ (stopper' = "done" => ~conn')
  <2>1. CASE UNCHANGED vars
    BY <1>2, <2>1 DEF vars, StopOrder
  <2>2. CASE Start \/ UserArrives \/ UserLeaves \/ Stop \/ WriteFails
    BY <1>2, <2>2 DEF Start, UserArrives, UserLeaves, Stop, WriteFails
  <2>3. CASE ManagerStep
    BY <1>2, <2>3 DEF ManagerStep, ManagerStarts, Established, ConnectFails, Tick, BackOff,
                      ManagerCancelled, StopOrder
  <2>4. CASE \E t \in Slots : IdleStep(t)
    BY <1>2, <2>4 DEF IdleStep, IdleFires, IdleJoined, IdleClosed, IdleCancelled, Close,
                      StopOrder, MgrAlive
  <2>5. CASE \E c \in Conns : ReadEnds(c)
    BY <1>2, <2>5 DEF ReadEnds, StopOrder
  <2>6. CASE StopStep
    BY <1>2, <2>6 DEF StopStep, StopManager, StopReader, StopClose, StopOrder
  <2> QED
    BY <2>1, <2>2, <2>3, <2>4, <2>5, <2>6 DEF Next
<1> QED
  BY <1>1, <1>2 DEF StopOrder

\* Every step of the port is one of DeviceLink's, or none.
LEMMA TcpLink == StopOrder /\ [Next]_vars => TcpStep
<1> SUFFICES ASSUME StopOrder, [Next]_vars PROVE TcpStep
  OBVIOUS
<1> USE DEF TcpStep, Allowed, Phase, MgrAlive, StopOrder
<1>1. conn \in BOOLEAN /\ (stopper = "new" => ~conn /\ mgr = "none") /\ mgr \in Managers
  BY DEF IndInv, Shape, Unstarted
<1>2. CASE UNCHANGED vars
  BY <1>2 DEF vars
<1>3. CASE Start
  BY <1>1, <1>3 DEF Start
<1>4. CASE UserArrives
  <2>1. mgr' = mgr \/ (mgr' = "new" /\ ~MgrAlive)
    BY <1>4 DEF UserArrives
  <2>2. stopper = "no" /\ stopper' = "no" /\ conn' = conn
    BY <1>4 DEF UserArrives
  <2> QED
    BY <2>1, <2>2
<1>5. CASE UserLeaves \/ Stop
  BY <1>5 DEF UserLeaves, Stop
<1>6. CASE ManagerStep
  <2>1. stopper' = stopper /\ stopper \notin {"new", "done"} /\ MgrAlive
    BY <1>1, <1>6 DEF ManagerStep, ManagerStarts, Established, ConnectFails, Tick, BackOff,
                      ManagerCancelled
  <2>2. conn' = conn \/ conn'
    BY <1>6 DEF ManagerStep, ManagerStarts, Established, ConnectFails, Tick, BackOff,
                ManagerCancelled
  <2> QED
    BY <1>1, <2>1, <2>2
<1>7. ASSUME NEW t \in Slots, IdleStep(t) PROVE TcpStep
  <2>1. stopper' = stopper /\ (conn' = conn \/ ~conn')
    BY <1>7 DEF IdleStep, IdleFires, IdleJoined, IdleClosed, IdleCancelled
  <2>2. MgrAlive' <=> MgrAlive
    BY <1>7 DEF IdleStep, IdleFires, IdleJoined, IdleClosed, IdleCancelled
  <2>3. Phase' = Phase
    BY <2>1, <2>2
  <2>4. stopper = "done" => ~conn /\ ~conn'
    BY <1>7, <2>1 DEF IdleStep, IdleFires, IdleJoined, IdleClosed, IdleCancelled
  <2>5. conn' \in BOOLEAN
    BY <1>1, <2>1, <1>7 DEF IdleStep, IdleFires, IdleJoined, IdleClosed, IdleCancelled
  <2> HIDE DEF Phase, MgrAlive, StopOrder
  <2> QED
    BY <1>1, <2>1, <2>3, <2>5
<1>8. CASE WriteFails \/ \E c \in Conns : ReadEnds(c)
  BY <1>1, <1>8 DEF WriteFails, ReadEnds
<1>9. CASE StopStep
  BY <1>1, <1>9 DEF StopStep, StopManager, StopReader, StopClose
<1> QED
  BY <1>2, <1>3, <1>4, <1>5, <1>6, <1>7, <1>8, <1>9 DEF Next

Together == SerialNames \cup {tcpPort}
PhaseAt(p) == IF p = tcpPort THEN Phase ELSE Serial!PhaseOf(p)
UpAt(p) == IF p = tcpPort THEN conn ELSE port[p].connected

\* What Allowed says of two phases is what DeviceLink allows a port.
LEMMA LinksTake ==
  ASSUME NEW p \in Together, PhaseAt(p)' \in {"gone", "idle", "tended"},
         UpAt(p) \in BOOLEAN, UpAt(p)' \in BOOLEAN,
         Allowed(PhaseAt(p), UpAt(p), PhaseAt(p)', UpAt(p)')
  PROVE  Links!Step(p) \/ Links!Becomes(p, PhaseAt(p), UpAt(p))
<1>1. PICK f, u, g, v : /\ f = PhaseAt(p) /\ u = UpAt(p)
                       /\ g = PhaseAt(p)' /\ v = UpAt(p)'
  OBVIOUS
<1>2. \A h, w : Links!Becomes(p, h, w) <=> g = h /\ v = w
  BY <1>1 DEF Links!Becomes, Together, PhaseAt, UpAt
<1>3. Links!Create(p) <=> f = "gone" /\ \E h \in {"idle", "tended"} : g = h /\ v = FALSE
  BY <1>1, <1>2 DEF Links!Create, Together, PhaseAt, UpAt
<1>4. Links!Tend(p) <=> f = "idle" /\ g = "tended" /\ v = u
  <2>1. Links!Tend(p) <=> f = "idle" /\ Links!Becomes(p, "tended", u)
    BY <1>1 DEF Links!Tend, Together, PhaseAt, UpAt, Links!Becomes
  <2> QED
    BY <1>2, <2>1
<1>5. Links!Rest(p) <=> f = "tended" /\ g = "idle" /\ v = u
  <2>1. Links!Rest(p) <=> f = "tended" /\ Links!Becomes(p, "idle", u)
    BY <1>1 DEF Links!Rest, Together, PhaseAt, UpAt, Links!Becomes
  <2> QED
    BY <1>2, <2>1
<1>6. Links!Connect(p) <=> f = "tended" /\ ~u /\ \E h \in {"tended", "idle"} : g = h /\ v = TRUE
  BY <1>1, <1>2 DEF Links!Connect, Together, PhaseAt, UpAt
<1>7. Links!Drop(p) <=> u /\ \E h \in {f, "idle"} : g = h /\ v = FALSE
  BY <1>1, <1>2 DEF Links!Drop, Together, PhaseAt, UpAt
<1>8. Links!Stop(p) <=> f # "gone" /\ g = "gone" /\ v = FALSE
  BY <1>1, <1>2 DEF Links!Stop, Together, PhaseAt, UpAt
<1>9. Allowed(f, u, g, v) /\ u \in BOOLEAN /\ v \in BOOLEAN
  BY <1>1
<1> QED
  <2>1. Links!Becomes(p, PhaseAt(p), UpAt(p)) <=> g = f /\ v = u
    <3>1. Links!Becomes(p, PhaseAt(p), UpAt(p)) <=> Links!Becomes(p, f, u)
      BY <1>1 DEF Links!Becomes
    <3> QED
      BY <1>2, <3>1
  <2>2. CASE g = f /\ v = u
    BY <2>1, <2>2
  <2>3. CASE ~(g = f /\ v = u)
    <3>1. \/ Links!Create(p) \/ Links!Tend(p) \/ Links!Rest(p) \/ Links!Connect(p)
          \/ Links!Drop(p) \/ Links!Stop(p)
      BY <1>3, <1>4, <1>5, <1>6, <1>7, <1>8, <1>9, <2>3 DEF Allowed
    <3> QED
      BY <3>1 DEF Links!Step
  <2> QED
    BY <2>2, <2>3

LEMMA LinksNext ==
  ASSUME SerialInv, StopOrder, [Serial!Next]_Serial!vars, [Next]_vars
  PROVE  Links!Next
<1>1. ASSUME NEW p \in Together
      PROVE  Links!Step(p) \/ Links!Becomes(p, PhaseAt(p), UpAt(p))
  <2>1. PhaseAt(p)' \in {"gone", "idle", "tended"}
    BY DEF PhaseAt, Phase, Serial!PhaseOf
  <2>2. UpAt(p) \in BOOLEAN /\ UpAt(p)' \in BOOLEAN
    <3>1. conn \in BOOLEAN /\ conn' \in BOOLEAN
      BY StopOrderKept DEF StopOrder, IndInv, Shape
    <3>2. Fits(port) /\ Fits(port')
      BY SerialStep DEF SerialInv
    <3> QED
      BY <3>1, <3>2 DEF UpAt, Together, Fits, Wrapper
  <2>3. Allowed(PhaseAt(p), UpAt(p), PhaseAt(p)', UpAt(p)')
    <3>1. CASE p = tcpPort
      BY <3>1, TcpLink DEF TcpStep, PhaseAt, UpAt
    <3>2. CASE p # tcpPort
      BY <3>2, SerialStep DEF LinkStep, PhaseAt, UpAt, Together
    <3> QED
      BY <3>1, <3>2
  <2> QED
    BY <2>1, <2>2, <2>3, LinksTake
<1> DEFINE phases == [p \in Together |-> PhaseAt(p)]
           ups == [p \in Together |-> UpAt(p)]
<1>2. ASSUME NEW p \in Together
      PROVE  Links!Step(p) \/ Links!Becomes(p, phases[p], ups[p])
  <2>1. phases[p] = PhaseAt(p) /\ ups[p] = UpAt(p)
    OBVIOUS
  <2>2. Links!Becomes(p, phases[p], ups[p]) <=> Links!Becomes(p, PhaseAt(p), UpAt(p))
    BY <2>1 DEF Links!Becomes
  <2> QED
    BY <1>1, <2>2
<1>3. Links!Next <=> \A p \in Together : Links!Step(p) \/ Links!Becomes(p, phases[p], ups[p])
  BY DEF Links!Next, Together, PhaseAt, UpAt, Links!Becomes
<1> QED
  BY <1>2, <1>3

\* Nothing is created at first, and every link is down.
LEMMA LinksInit == Serial!Init /\ Init => Links!Init
<1> SUFFICES ASSUME Serial!Init, Init PROVE Links!Init
  OBVIOUS
<1>1. Phase = "gone" /\ ~conn /\ conn \in BOOLEAN
  BY DEF Phase, Init
<1>2. ASSUME NEW p \in SerialNames
      PROVE  /\ Serial!PhaseOf(p) = "gone" \/ Serial!PhaseOf(p) = "idle"
             /\ port[p].connected = FALSE
  <2>1. PICK d \in Paths : port[p] = Serial!Fresh(d)
    BY DEF Serial!Init
  <2> QED
    BY <2>1 DEF Serial!PhaseOf, Serial!Supervised, Serial!Fresh, Serial!Alive
<1>3. \A p \in SerialNames : p # tcpPort
  BY DevicesAssumption
<1> QED
  BY <1>1, <1>2, <1>3 DEF Links!Init

(* Whatever serial.py and tcp_initiator.py do behind them, all the ports   *)
(* of the adapters keep DeviceLink's promise at every step: a link comes   *)
(* up only while somebody tends it, a port's phases follow one another in  *)
(* the order create, tend, rest, stop, and a port that is gone has nothing *)
(* left at work that could connect it.  The adapters' steps interleave in  *)
(* any way.                                                                *)
THEOREM EveryLinkKeepsItsPromise == Serial!Spec /\ Spec => LinksKeepTheirPromise
<1>1. Init => StopOrder
  BY InitEstablishes DEF Init, StopOrder
<1>2. SerialInv /\ [Serial!Next]_Serial!vars => SerialInv'
  BY SerialStep
<1>3. SerialInv /\ StopOrder /\ [Serial!Next]_Serial!vars /\ [Next]_vars
      => [Links!Next]_Links!vars
  BY LinksNext
<1> QED
  BY SerialBegins, LinksInit, StopOrderKept, <1>1, <1>2, <1>3, PTL
  DEF Serial!Spec, Spec, LinksKeepTheirPromise, Links!Spec

-----------------------------------------------------------------------------
(* The power section.  Outside a reload every reading that changes goes    *)
(* through Shows, which tells the port's users, but for the first listing  *)
(* of the outlets; that one belongs to a start or a reload (Staged).       *)

Staged == step # "idle" => stage \in {"start", "reload"}

LEMMA StagedKept == Staged /\ [Section!Next]_Section!vars => Staged'
<1> SUFFICES ASSUME Staged, [Section!Next]_Section!vars PROVE Staged'
  OBVIOUS
<1>1. \/ UNCHANGED <<step, stage>> \/ step' = "idle" \/ (step # "idle" /\ stage' = stage)
      \/ stage' = "reload"
  <2>1. CASE UNCHANGED Section!vars
    BY <2>1 DEF Section!vars, Section!starter
  <2>2. CASE \E p \in Pdus : Section!BringUp(p)
    BY <2>2 DEF Section!BringUp
  <2>3. CASE Section!AllUp
    BY <2>3 DEF Section!AllUp
  <2>4. CASE Section!FirstRead \/ Section!BroughtUp
    BY <2>4 DEF Section!FirstRead, Section!BroughtUp
  <2>5. CASE \E p \in Pdus : Section!Poller(p)
    BY <2>5 DEF Section!Poller, Section!PollBegins, Section!Poll, Section!Polled,
                Section!Lapse, Section!starter
  <2>6. CASE \E o \in Outlets : Section!Outside(o) \/ Section!AskAll(o)
                                \/ \E s \in Section!States : Section!Ask(o, s)
    BY <2>6 DEF Section!Outside, Section!AskAll, Section!Ask, Section!starter
  <2>7. CASE Section!Run \/ Section!Switched \/ \E m \in menu : Section!NextFeed(m)
    BY <2>7 DEF Section!Run, Section!Switched, Section!NextFeed, Section!starter
  <2>8. CASE \E keep \in SUBSET pdus, build \in SUBSET Pdus, on \in BOOLEAN :
                 Section!Reload(keep, build, on)
    BY <2>8 DEF Section!Reload
  <2> QED
    BY <2>1, <2>2, <2>3, <2>4, <2>5, <2>6, <2>7, <2>8 DEF Section!Next
<1> QED
  BY <1>1 DEF Staged

AnyOn(R) == \E o \in Outlets : R[o] = "on"

\* An outlet that was on and is not any more has changed in a way that is told.
LEMMA ShowsTells ==
  ASSUME NEW R, Section!Shows(R), AnyOn(readings), ~AnyOn(R)
  PROVE  told' = "lost"
<1>1. PICK o \in Outlets : readings[o] = "on" /\ R[o] # "on"
  BY DEF AnyOn
<1>2. R[o] # readings[o] /\ {R[o], readings[o]} # {"none", "unknown"}
  BY <1>1
<1>3. told' = Section!Live(R)
  BY <1>2 DEF Section!Shows
<1> QED
  BY <1>3 DEF Section!Live, AnyOn

\* What a step may do to the readings and the users.
LEMMA ReadingsChange ==
  ASSUME Staged, Section!Next, pdus' = pdus, stage # "reload"
  PROVE  \/ \E R : readings' = R /\ Section!Shows(R)
         \/ \A o \in Outlets : readings[o] = "on" => readings'[o] = "on"
<1>1. CASE \E p \in Pdus : Section!BringUp(p)
  <2>1. PICK p \in Pdus : Section!BringUp(p)
    BY <1>1
  <2>2. stage = "start"
    BY <2>1 DEF Staged, Section!BringUp
  <2>3. readings' = [o \in Outlets |-> IF o \in Section!Of(p) /\ enabled /\ readings[o] = "none"
                                      THEN "unknown" ELSE readings[o]]
    BY <2>1, <2>2 DEF Section!BringUp
  <2> QED
    BY <2>3
<1>2. ASSUME NEW p \in Pdus, Section!ReadEnds(p)
      PROVE  (\E R : readings' = R /\ Section!Shows(R)) \/ readings' = readings
  BY <1>2 DEF Section!ReadEnds, Section!Shows
<1>3. CASE Section!AllUp \/ Section!FirstRead
  BY <1>3 DEF Section!AllUp, Section!FirstRead
<1>4. CASE Section!BroughtUp
  <2>1. Section!ReadEnds(current)
    BY <1>4 DEF Section!BroughtUp
  <2> QED
    BY <2>1 DEF Section!ReadEnds, Section!Shows
<1>5. CASE \E p \in Pdus : Section!Poller(p)
  <2>1. PICK p \in Pdus : Section!Poller(p)
    BY <1>5
  <2>2. Section!ReadEnds(p) \/ readings' = readings
    BY <2>1 DEF Section!Poller, Section!PollBegins, Section!Poll, Section!Polled, Section!Lapse
  <2> QED
    BY <1>2, <2>2
<1>6. CASE \E o \in Outlets : Section!Outside(o) \/ Section!AskAll(o)
                              \/ \E s \in Section!States : Section!Ask(o, s)
  BY <1>6 DEF Section!Outside, Section!AskAll, Section!Ask
<1>7. CASE Section!Run \/ \E m \in menu : Section!NextFeed(m)
  BY <1>7 DEF Section!Run, Section!NextFeed
<1>8. CASE Section!Switched
  BY <1>8 DEF Section!Switched, Section!Shows
<1>9. CASE \E keep \in SUBSET pdus, build \in SUBSET Pdus, on \in BOOLEAN :
               Section!Reload(keep, build, on)
  <2>1. PICK gone : /\ gone = {}
                    /\ readings' = [o \in Outlets |-> IF owner[o] \in gone THEN "none" ELSE readings[o]]
    BY <1>9 DEF Section!Reload
  <2> QED
    BY <2>1
<1> QED
  BY <1>1, <1>3, <1>4, <1>5, <1>6, <1>7, <1>8, <1>9 DEF Section!Next

(* _emit_outlet_change, over polls that answer, answer in part or fail,    *)
(* switches that end late, and a start: for any outlets and PDUs, no step  *)
(* outside a reload takes the last live feed without telling the users.    *)
THEOREM LastFeedIsTold == Section!Spec => LossIsTold
<1>1. Section!Init => Staged
  BY DEF Section!Init, Staged
<1>2. Staged /\ [Section!Next]_Section!vars
      => [AnyOn(readings) /\ pdus' = pdus /\ stage # "reload" /\ ~AnyOn(readings')
            => told' = "lost"]_Section!vars
  BY ReadingsChange, ShowsTells DEF AnyOn
<1>3. Section!Spec => [][AnyOn(readings) /\ pdus' = pdus /\ stage # "reload" /\ ~AnyOn(readings')
                         => told' = "lost"]_Section!vars
  BY StagedKept, <1>1, <1>2, PTL DEF Section!Spec
<1> QED
  BY <1>3 DEF LossIsTold, Section!LossIsTold, AnyOn
=============================================================================
