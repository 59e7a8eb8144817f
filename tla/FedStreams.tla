----------------------------- MODULE FedStreams -----------------------------
(***************************************************************************)
(* The streams of a MuxCon link across outages.  A user attached to a      *)
(* RemotePortProxy holds a stream, numbered from a counter of the user's   *)
(* own server; the peer maps the number to one of its ports and seats the  *)
(* pseudo-client "fed:<peer>:<number>" there, read-only until a FEDRW      *)
(* request is granted.  When the last path goes, the proxy forgets its     *)
(* streams but remembers their numbers; when the peer advertises its ports *)
(* again, on a new path, the proxy closes what it remembered, opens fresh  *)
(* streams and asks again for the grants its users had.                    *)
(*                                                                         *)
(* How paths are dialled, chosen and given up is MuxLinks, what travels on *)
(* a stream is PeerSeq, the takeover of the slot is FedSlot.               *)
(***************************************************************************)
EXTENDS Naturals, Sequences, FiniteSets

CONSTANTS Nodes,      \* the two servers of the link
          Dialer,     \* the one with the initiator
          Users,      \* who attach to proxies
          Home,       \* Home[u]: the server u is on
          Exported,   \* Exported[n]: the ports n advertises to its peer
          Driven,     \* ports with users of their own server
          none,
          MaxConns,   \* bound: connections ever made
          MaxSid,     \* bound: stream numbers
          MaxLives    \* bound, per node: restarts

Peer(n) == CHOOSE m \in Nodes : m # n

ASSUME FedStreamsAssumption ==
         /\ IsFiniteSet(Nodes) /\ Cardinality(Nodes) = 2 /\ Dialer \in Nodes
         /\ IsFiniteSet(Users) /\ Home \in [Users -> Nodes]
         /\ Exported[Dialer] \cap Exported[Peer(Dialer)] = {}
         /\ none \notin Users \cup Exported[Dialer] \cup Exported[Peer(Dialer)] \cup BOOLEAN
         /\ MaxConns \in Nat /\ MaxSid \in Nat
         /\ MaxLives \in [Nodes -> Nat]

Conns == 1..MaxConns
Sids == 1..MaxSid
UsersAt(n) == {u \in Users : Home[u] = n}
Ports == UNION {Exported[n] : n \in Nodes}

VARIABLES
  opened,    \* connections made so far
  cut,       \* connections whose wire is dead
  paths,     \* paths[n]: the connections in n's group for its peer
  leaving,   \* leaving[n]: taken from the group, writer closing
  wire,      \* wire[c][n]: frames n sent on c, not yet read
  loop,      \* loop[n][c]: where n's read loop on c is inside PORTS:FEDERATED
  lives,     \* lives[n]: restarts of n's process
  proxies,   \* proxies[p]: is_connected of p's proxy, none before it exists
  next,      \* next[n]: _peer_next_stream_id
  routes,    \* routes[n]: numbers in n's _session_map
  at,        \* at[u]: the port whose proxy u is attached to
  mode,      \* mode[u]: u's record there
  sess,      \* sess[u]: u's number in that proxy's _client_sessions
  stale,     \* stale[p][u]: u's number in the _stale_sessions of p's proxy
  ask,       \* ask[u]: the number of u's future in _fedrw_pending
  asker,     \* asker[u]: who awaits it, u's handler (0) or the loop on a path
  reply,     \* reply[u]: what it was resolved with
  mapped,    \* mapped[n]: n's _local_session_map, port by number
  seat,      \* seat[n]: the pseudo-clients on n's ports
  driver,    \* driver[p]: a user of p's own server drives p
  asked,     \* history: users whose present record was ever asked a seat for
  left       \* history: numbers whose CLOSE was lost, or whose opener died,
             \* since the peer last ended all it had

linkVars == <<opened, cut, paths, leaving, wire, loop, lives>>
viewVars == <<proxies, next, routes, at, mode, sess, stale, ask, asker, reply>>
portVars == <<mapped, seat, driver>>
vars == <<linkVars, viewVars, portVars, asked, left>>

Seats == {"absent", "read-only", "read-write"}
Frames == [kind : {"ports", "open", "close", "request", "ack"},
           sid : Sids \cup {0}, port : Ports \cup {none}, mode : Seats \cup {none}]
Frame(k, s, p, m) == [kind |-> k, sid |-> s, port |-> p, mode |-> m]
PortsFrame == Frame("ports", 0, none, none)

\* todo: ports of the payload still to register; redo: users still to regrant.
\* port: the one they are on.
Idle == [todo |-> {}, redo |-> {}, port |-> none, busy |-> FALSE]
NoStreams == [s \in Sids |-> none]
NoSeats == [p \in Ports |-> [s \in Sids |-> "absent"]]

TypeOK ==
    /\ opened \in 0..MaxConns /\ cut \subseteq Conns
    /\ paths \in [Nodes -> SUBSET Conns] /\ leaving \in [Nodes -> SUBSET Conns]
    /\ wire \in [Conns -> [Nodes -> Seq(Frames)]]
    /\ loop \in [Nodes -> [Conns -> [todo : SUBSET Ports, redo : SUBSET Users,
                                     port : Ports \cup {none}, busy : BOOLEAN]]]
    /\ lives \in [Nodes -> Nat]
    /\ proxies \in [Ports -> BOOLEAN \cup {none}]
    /\ next \in [Nodes -> 0..MaxSid] /\ routes \in [Nodes -> SUBSET Sids]
    /\ at \in [Users -> Ports \cup {none}] /\ mode \in [Users -> Seats]
    /\ sess \in [Users -> 0..MaxSid] /\ stale \in [Ports -> [Users -> 0..MaxSid]]
    /\ ask \in [Users -> 0..MaxSid] /\ asker \in [Users -> 0..MaxConns]
    /\ reply \in [Users -> Seats \cup {none}]
    /\ mapped \in [Nodes -> [Sids -> Ports \cup {none}]]
    /\ seat \in [Nodes -> [Ports -> [Sids -> Seats]]]
    /\ driver \in [Ports -> BOOLEAN]
    /\ asked \subseteq Users /\ left \in [Nodes -> SUBSET Sids]

Init ==
    /\ opened = 0 /\ cut = {}
    /\ paths = [n \in Nodes |-> {}] /\ leaving = [n \in Nodes |-> {}]
    /\ wire = [c \in Conns |-> [n \in Nodes |-> <<>>]]
    /\ loop = [n \in Nodes |-> [c \in Conns |-> Idle]]
    /\ lives = [n \in Nodes |-> 0]
    /\ proxies = [p \in Ports |-> none]
    /\ next = [n \in Nodes |-> 0] /\ routes = [n \in Nodes |-> {}]
    /\ at = [u \in Users |-> none] /\ mode = [u \in Users |-> "absent"]
    /\ sess = [u \in Users |-> 0] /\ stale = [p \in Ports |-> [u \in Users |-> 0]]
    /\ ask = [u \in Users |-> 0] /\ asker = [u \in Users |-> 0]
    /\ reply = [u \in Users |-> none]
    /\ mapped = [n \in Nodes |-> NoStreams] /\ seat = [n \in Nodes |-> NoSeats]
    /\ driver = [p \in Ports |-> FALSE]
    /\ asked = {} /\ left = [n \in Nodes |-> {}]

-----------------------------------------------------------------------------
(* Paths *)

\* Frames put on a dead wire are lost; the send reports success either way.
Sent(w, c, n, frames) == IF c \in cut THEN w ELSE [w EXCEPT ![c][n] = @ \o frames]

\* The numbers of the CLOSE frames among some frames.
Closes(frames) == {frames[i].sid : i \in
                     {j \in DOMAIN frames : frames[j].kind = "close"}}

\* _select_mpath_connection: one of the group; which one is MuxLinks' matter.
\* With an empty group nothing is sent.
SendVia(n, frames) ==
    IF paths[n] = {} THEN UNCHANGED wire /\ left' = [left EXCEPT ![n] = @ \cup Closes(frames)]
    ELSE \E c \in paths[n] : /\ wire' = Sent(wire, c, n, frames)
                            /\ left' = IF c \in cut THEN [left EXCEPT ![n] = @ \cup Closes(frames)]
                                       ELSE left

\* A handler whose answer has come goes on in the next pass of the event loop,
\* long before another path is up.
Resumed == \A u \in Users : ask[u] # 0 /\ asker[u] = 0 => reply[u] = none

\* The initiator redials once its last connection is gone; both ends register
\* the path and advertise their ports on it.
Dial ==
    /\ opened < MaxConns /\ Resumed
    /\ paths[Dialer] = {} /\ leaving[Dialer] = {}
    /\ LET c == opened + 1 IN
       /\ opened' = c
       /\ paths' = [n \in Nodes |-> paths[n] \cup {c}]
       /\ wire' = [wire EXCEPT ![c] = [n \in Nodes |->
                     IF Exported[n] = {} THEN <<>> ELSE <<PortsFrame>>]]
    /\ UNCHANGED <<cut, leaving, loop, lives, viewVars, portVars, asked, left>>

Lost(C) == left' = [n \in Nodes |-> left[n] \cup UNION {Closes(wire[c][n]) : c \in C}]
Emptied(C) == [c \in Conns |-> IF c \in C THEN [n \in Nodes |-> <<>>] ELSE wire[c]]

\* The environment: a path dies with what is on it, as long as another may be
\* dialled.  What had arrived is taken to be read before.
Cut(c) ==
    /\ opened < MaxConns /\ c \in (UNION {paths[n] : n \in Nodes}) \ cut
    /\ cut' = cut \cup {c}
    /\ wire' = Emptied({c}) /\ Lost({c})
    /\ UNCHANGED <<opened, paths, leaving, loop, lives, viewVars, portVars, asked>>

\* _close_connection up to the wait for its writer: the path leaves the group.
Leave(n, c) ==
    /\ c \in paths[n] \cap cut /\ loop[n][c] = Idle
    /\ paths' = [paths EXCEPT ![n] = @ \ {c}]
    /\ leaving' = [leaving EXCEPT ![n] = @ \cup {c}]
    /\ UNCHANGED <<opened, cut, wire, loop, lives, viewVars, portVars, asked, left>>

(* Mutant: the proxies go offline and forget the streams they had.         *)
DisconnectedForgets(n) ==
    /\ proxies' = [p \in Ports |-> IF p \in Exported[Peer(n)] /\ proxies[p] # none
                                   THEN FALSE ELSE proxies[p]]
    /\ sess' = [u \in Users |-> IF u \in UsersAt(n) THEN 0 ELSE sess[u]]
    /\ UNCHANGED stale

\* RemotePortProxy.disconnect of every proxy: the numbers move to the stale
\* ones; with no path left the CLOSE frames of close_all_streams go nowhere.
Disconnected(n) ==
    /\ proxies' = [p \in Ports |-> IF p \in Exported[Peer(n)] /\ proxies[p] # none
                                   THEN FALSE ELSE proxies[p]]
    /\ stale' = [p \in Ports |-> [u \in Users |->
                   IF u \in UsersAt(n) /\ at[u] = p /\ sess[u] # 0
                   THEN sess[u] ELSE stale[p][u]]]
    /\ sess' = [u \in Users |-> IF u \in UsersAt(n) THEN 0 ELSE sess[u]]

\* The rest of _close_connection: once the group is empty the proxies go
\* offline and every session the peer had here is stopped.
Gone(n, c) ==
    /\ c \in leaving[n]
    /\ leaving' = [leaving EXCEPT ![n] = @ \ {c}]
    /\ IF paths[n] = {}
       THEN /\ Disconnected(n)
            /\ routes' = [routes EXCEPT ![n] = {}]
            /\ mapped' = [mapped EXCEPT ![n] = NoStreams]
            /\ seat' = [seat EXCEPT ![n] = NoSeats]
            /\ left' = [left EXCEPT ![Peer(n)] = {}]
       ELSE UNCHANGED <<proxies, stale, sess, routes, mapped, seat, left>>
    /\ UNCHANGED <<opened, cut, paths, wire, loop, lives, next, at, mode, ask,
                   asker, reply, driver, asked>>

-----------------------------------------------------------------------------
(* The viewer's read loop: PORTS:FEDERATED *)

Head1(c, n, k) == wire[c][n] # <<>> /\ Head(wire[c][n]).kind = k
Taken(c, n) == [wire EXCEPT ![c][n] = Tail(@)]

\* n's loop on c is free to read what its peer sent.
Reads(n, c, k) == /\ c \in paths[n] /\ loop[n][c] = Idle
                  /\ Head1(c, Peer(n), k)

ReadPorts(n, c) ==
    /\ Reads(n, c, "ports")
    /\ wire' = Taken(c, Peer(n))
    /\ loop' = [loop EXCEPT ![n][c] =
                  [Idle EXCEPT !.todo = Exported[Peer(n)], !.busy = TRUE]]
    /\ UNCHANGED <<opened, cut, paths, leaving, lives, viewVars, portVars, asked, left>>

\* The handler awaits a grant inside the very loop that would read the answer.
Asking(n, c) == \E u \in UsersAt(n) : ask[u] # 0 /\ asker[u] = c

\* Numbers given to a set of users in some order, from i + 1 on.
Numberings(S, i) ==
    {f \in [S -> (i + 1)..(i + Cardinality(S))] :
       \A x, y \in S : x # y => f[x] # f[y]}

Listed(S) == CHOOSE q \in [1..Cardinality(S) -> S] : \A x \in S : \E i \in DOMAIN q : q[i] = x

(* Mutant: what is stale is closed, and nothing opened in its place.       *)
ClosingOnly(closes, opens, p) ==
    [i \in 1..Cardinality(closes) |-> Frame("close", Listed(closes)[i], none, none)]

\* close_all_streams and _close_stale_proxy_sessions, then one OPEN per user.
Reopening(closes, opens, p) ==
    [i \in 1..Cardinality(closes) |-> Frame("close", Listed(closes)[i], none, none)]
    \o [i \in 1..Cardinality(opens) |-> Frame("open", Listed(opens)[i], p, none)]

\* _rp_update_existing for one port of the payload, or _rp_register_new.
RegisterPort(n, c, p) ==
    LET here == {u \in UsersAt(n) : at[u] = p}
        old == {sess[u] : u \in here} \ {0}
        closes == old \cup ({stale[p][u] : u \in UsersAt(n)} \ {0})
    IN
    /\ p \in loop[n][c].todo /\ loop[n][c].redo = {}
    /\ ~Asking(n, c)
    /\ \E f \in Numberings(here, next[n]) :
         LET opens == {f[u] : u \in here} IN
         /\ sess' = [u \in Users |-> IF u \in here THEN f[u] ELSE sess[u]]
         /\ routes' = [routes EXCEPT ![n] = (@ \ old) \cup opens]
         /\ SendVia(n, Reopening(closes, opens, p))
    /\ next' = [next EXCEPT ![n] = @ + Cardinality(here)]
    /\ stale' = [stale EXCEPT ![p] = [u \in Users |-> 0]]
    /\ proxies' = [proxies EXCEPT ![p] = TRUE]
    /\ loop' = [loop EXCEPT ![n][c].todo = @ \ {p}, ![n][c].port = p,
                            ![n][c].redo = {u \in here : mode[u] = "read-write"}]
    /\ UNCHANGED <<opened, cut, paths, leaving, lives, at, mode, ask, asker, reply,
                   portVars, asked>>

PortsDone(n, c) ==
    /\ loop[n][c].busy /\ loop[n][c].todo = {} /\ loop[n][c].redo = {}
    /\ ~Asking(n, c)
    /\ loop' = [loop EXCEPT ![n][c] = Idle]
    /\ UNCHANGED <<opened, cut, paths, leaving, wire, lives, viewVars, portVars,
                   asked, left>>

\* _request_fedrw, from _regrant_proxy_read_write: a plain REQUEST on the new
\* stream.  (A port has one writer, so no user of the list can have left while
\* another was asked for.)
AskGrant(n, c, u) ==
    LET p == loop[n][c].port IN
    /\ u \in loop[n][c].redo /\ ~Asking(n, c)
    /\ loop' = [loop EXCEPT ![n][c].redo = @ \ {u}]
    /\ IF at[u] = p /\ sess[u] # 0
       THEN /\ SendVia(n, <<Frame("request", sess[u], p, none)>>)
            /\ ask' = [ask EXCEPT ![u] = sess[u]] /\ asker' = [asker EXCEPT ![u] = c]
            /\ asked' = asked \cup {u}
       ELSE UNCHANGED <<wire, ask, asker, asked, left>>
    /\ UNCHANGED <<opened, cut, paths, leaving, lives, proxies, next, routes, at,
                   mode, sess, stale, reply, portVars>>

\* Anything but a grant demotes the user's record.
GrantEnds(u) ==
    /\ ask[u] # 0 /\ asker[u] # 0 /\ reply[u] # none
    /\ mode' = [mode EXCEPT ![u] = IF @ = "read-write" /\ reply[u] # "read-write"
                                   THEN "read-only" ELSE @]
    /\ ask' = [ask EXCEPT ![u] = 0] /\ asker' = [asker EXCEPT ![u] = 0]
    /\ reply' = [reply EXCEPT ![u] = none]
    /\ UNCHANGED <<linkVars, proxies, next, routes, at, sess, stale, portVars, asked,
                   left>>

\* FEDRWACK: resolves the future, or tells of a demotion at the origin.
ReadAck(n, c) ==
    /\ Reads(n, c, "ack")
    /\ wire' = Taken(c, Peer(n))
    /\ LET f == Head(wire[c][Peer(n)])
           waiting == {u \in UsersAt(n) : ask[u] = f.sid /\ reply[u] = none}
           owner == {u \in UsersAt(n) : sess[u] = f.sid /\ f.sid \in routes[n]}
       IN
       /\ reply' = [u \in Users |-> IF u \in waiting THEN f.mode ELSE reply[u]]
       /\ mode' = [u \in Users |->
                     IF waiting = {} /\ f.mode = "read-only" /\ u \in owner
                        /\ mode[u] = "read-write"
                     THEN "read-only" ELSE mode[u]]
    /\ UNCHANGED <<opened, cut, paths, leaving, loop, lives, proxies, next, routes,
                   at, sess, stale, ask, asker, portVars, asked, left>>

\* The three seconds of _request_fedrw run out only where no answer is about
\* to be read: the request or the ack was lost, or its loop awaits one.
Comes(u, c) ==
    LET n == Home[u]
        Has(m, k) == \E i \in DOMAIN wire[c][m] :
                        wire[c][m][i].kind = k /\ wire[c][m][i].sid = ask[u]
    IN /\ c \in paths[n] /\ ~Asking(n, c)
       /\ \/ Has(Peer(n), "ack")
          \/ Has(n, "request") /\ c \in paths[Peer(n)] \ cut

Timeout(u) ==
    /\ ask[u] # 0 /\ reply[u] = none
    /\ \A c \in Conns : ~Comes(u, c)
    /\ reply' = [reply EXCEPT ![u] = "read-only"]
    /\ UNCHANGED <<linkVars, proxies, next, routes, at, sess, stale, mode, ask,
                   asker, portVars, asked, left>>

-----------------------------------------------------------------------------
(* The origin's read loop: OPEN, CLOSE, FEDRW *)

(* Mutant: the number is mapped anew, and the session it had goes on.      *)
ReadOpenOver(n, c) ==
    /\ Reads(n, c, "open")
    /\ wire' = Taken(c, Peer(n))
    /\ LET f == Head(wire[c][Peer(n)]) IN
       /\ mapped' = [mapped EXCEPT ![n][f.sid] = f.port]
       /\ seat' = [seat EXCEPT ![n][f.port][f.sid] = "read-only"]
    /\ UNCHANGED <<opened, cut, paths, leaving, loop, lives, viewVars, driver,
                   asked, left>>

\* _local_session_map.get: none for a number it does not have.
PortOf(n, s) == IF s \in Sids THEN mapped[n][s] ELSE none

\* A number still mapped to another port stops that session first; the
\* pseudo-client is always (re)seated read-only.
ReadOpen(n, c) ==
    /\ Reads(n, c, "open")
    /\ wire' = Taken(c, Peer(n))
    /\ LET f == Head(wire[c][Peer(n)])
           before == PortOf(n, f.sid)
           freed == IF before # none /\ before # f.port
                    THEN [seat[n] EXCEPT ![before][f.sid] = "absent"] ELSE seat[n]
       IN
       /\ mapped' = [mapped EXCEPT ![n][f.sid] = f.port]
       /\ seat' = [seat EXCEPT ![n] = [freed EXCEPT ![f.port][f.sid] = "read-only"]]
    /\ UNCHANGED <<opened, cut, paths, leaving, loop, lives, viewVars, driver,
                   asked, left>>

\* CLOSE clears the number in both maps, whichever of them it was meant for.
ReadClose(n, c) ==
    /\ Reads(n, c, "close")
    /\ wire' = Taken(c, Peer(n))
    /\ LET s == Head(wire[c][Peer(n)]).sid
           p == PortOf(n, s)
       IN
       /\ routes' = [routes EXCEPT ![n] = @ \ {s}]
       /\ mapped' = [mapped EXCEPT ![n][s] = none]
       /\ seat' = IF p = none THEN seat ELSE [seat EXCEPT ![n][p][s] = "absent"]
    /\ UNCHANGED <<opened, cut, paths, leaving, loop, lives, proxies, next, at,
                   sess, stale, mode, ask, asker, reply, driver, asked, left>>

\* The slot of a port: its own driver and the streams seated read-write.
SlotFree(n, p, s) ==
    ~driver[p] /\ \A t \in Sids \ {s} : seat[n][p][t] # "read-write"

ReadRequest(n, c) ==
    /\ Reads(n, c, "request")
    /\ LET f == Head(wire[c][Peer(n)])
           grant == SlotFree(n, f.port, f.sid)
           now == IF grant THEN "read-write" ELSE seat[n][f.port][f.sid]
       IN
       IF PortOf(n, f.sid) # f.port
       THEN wire' = Taken(c, Peer(n)) /\ UNCHANGED seat
       ELSE /\ seat' = [seat EXCEPT ![n][f.port][f.sid] = now]
            /\ wire' = Sent(Taken(c, Peer(n)), c, n,
                            <<Frame("ack", f.sid, f.port, now)>>)
    /\ UNCHANGED <<opened, cut, paths, leaving, loop, lives, viewVars, mapped,
                   driver, asked, left>>

-----------------------------------------------------------------------------
(* Users, and the process *)

\* A bound: numbers are kept back for the reopenings that may follow.
Spare(n) ==
    next[n] + 1 + (1 + Cardinality({u \in UsersAt(n) : at[u] # none})) * (MaxConns - opened + 1)
      <= MaxSid

\* add_client_to_port: the record, then the stream unless the link is down.
Attach(u, p) ==
    LET n == Home[u]
        sid == next[n] + 1
    IN
    /\ at[u] = none /\ p \in Exported[Peer(n)] /\ proxies[p] # none /\ Spare(n)
    /\ at' = [at EXCEPT ![u] = p]
    /\ mode' = [mode EXCEPT ![u] = "read-only"]
    /\ IF proxies[p] = TRUE
       THEN /\ next' = [next EXCEPT ![n] = sid]
            /\ sess' = [sess EXCEPT ![u] = sid]
            /\ routes' = [routes EXCEPT ![n] = @ \cup {sid}]
            /\ SendVia(n, <<Frame("open", sid, p, none)>>)
       ELSE UNCHANGED <<next, sess, routes, wire, left>>
    /\ asked' = asked \ {u}
    /\ UNCHANGED <<opened, cut, paths, leaving, loop, lives, proxies, stale, ask,
                   asker, reply, portVars>>

\* remove_client_from_port and close_stream_for_client.
Detach(u) ==
    LET n == Home[u] IN
    /\ at[u] # none /\ ~(ask[u] # 0 /\ asker[u] = 0)
    /\ at' = [at EXCEPT ![u] = none]
    /\ mode' = [mode EXCEPT ![u] = "absent"]
    /\ sess' = [sess EXCEPT ![u] = 0]
    /\ IF sess[u] = 0 THEN UNCHANGED <<routes, wire, left>>
       ELSE /\ routes' = [routes EXCEPT ![n] = @ \ {sess[u]}]
            /\ SendVia(n, <<Frame("close", sess[u], none, none)>>)
    /\ UNCHANGED <<opened, cut, paths, leaving, loop, lives, proxies, next, stale,
                   ask, asker, reply, portVars, asked>>

\* promote_client_to_read_write: the origin decides.
Request(u) ==
    LET n == Home[u] IN
    /\ mode[u] = "read-only" /\ ask[u] = 0 /\ sess[u] # 0
    /\ SendVia(n, <<Frame("request", sess[u], at[u], none)>>)
    /\ ask' = [ask EXCEPT ![u] = sess[u]] /\ asker' = [asker EXCEPT ![u] = 0]
    /\ asked' = asked \cup {u}
    /\ UNCHANGED <<opened, cut, paths, leaving, loop, lives, proxies, next, routes,
                   at, sess, stale, mode, reply, portVars>>

\* The proxy's own count of its writers.
LocalFree(u) == \A w \in UsersAt(Home[u]) \ {u} :
                   at[w] = at[u] => mode[w] # "read-write"

Answered(u) ==
    /\ ask[u] # 0 /\ asker[u] = 0 /\ reply[u] # none
    /\ mode' = [mode EXCEPT ![u] =
                   IF @ = "read-only" /\ reply[u] = "read-write" /\ LocalFree(u)
                   THEN "read-write" ELSE @]
    /\ ask' = [ask EXCEPT ![u] = 0]
    /\ reply' = [reply EXCEPT ![u] = none]
    /\ UNCHANGED <<linkVars, proxies, next, routes, at, sess, stale, asker,
                   portVars, asked, left>>

\* The origin's own users, who take a free slot and give it back.
TakeSlot(p) ==
    /\ p \in Driven /\ ~driver[p]
    /\ \A n \in Nodes, s \in Sids : seat[n][p][s] # "read-write"
    /\ driver' = [driver EXCEPT ![p] = TRUE]
    /\ UNCHANGED <<linkVars, viewVars, mapped, seat, asked, left>>

FreeSlot(p) ==
    /\ driver[p] /\ driver' = [driver EXCEPT ![p] = FALSE]
    /\ UNCHANGED <<linkVars, viewVars, mapped, seat, asked, left>>

\* The process dies: its memory, its users and its ends of the wires.  The
\* proxies come back from the federated cache as they were last saved.
Restart(n) ==
    /\ lives[n] < MaxLives[n] /\ opened < MaxConns
    /\ lives' = [lives EXCEPT ![n] = @ + 1]
    /\ cut' = cut \cup paths[n] \cup leaving[n]
    /\ paths' = [paths EXCEPT ![n] = {}] /\ leaving' = [leaving EXCEPT ![n] = {}]
    /\ wire' = Emptied(paths[n])
    /\ loop' = [loop EXCEPT ![n] = [c \in Conns |-> Idle]]
    /\ proxies' = [p \in Ports |-> IF p \in Exported[Peer(n)] /\ proxies[p] # none
                                   THEN TRUE ELSE proxies[p]]
    /\ next' = [next EXCEPT ![n] = 0] /\ routes' = [routes EXCEPT ![n] = {}]
    /\ sess' = [u \in Users |-> IF Home[u] = n THEN 0 ELSE sess[u]]
    /\ stale' = [p \in Ports |-> [u \in Users |-> IF Home[u] = n THEN 0
                                                ELSE stale[p][u]]]
    /\ at' = [u \in Users |-> IF Home[u] = n THEN none ELSE at[u]]
    /\ mode' = [u \in Users |-> IF Home[u] = n THEN "absent" ELSE mode[u]]
    /\ ask' = [u \in Users |-> IF Home[u] = n THEN 0 ELSE ask[u]]
    /\ asker' = [u \in Users |-> IF Home[u] = n THEN 0 ELSE asker[u]]
    /\ reply' = [u \in Users |-> IF Home[u] = n THEN none ELSE reply[u]]
    /\ mapped' = [mapped EXCEPT ![n] = NoStreams]
    /\ seat' = [seat EXCEPT ![n] = NoSeats]
    /\ driver' = [p \in Ports |-> driver[p] /\ p \notin Exported[n]]
    /\ asked' = asked \ UsersAt(n)
    /\ left' = [left EXCEPT ![n] = Sids, ![Peer(n)] = {}]
    /\ UNCHANGED opened

-----------------------------------------------------------------------------
Loop(n, c) ==
    \/ Leave(n, c)
    \/ Gone(n, c)
    \/ ReadPorts(n, c)
    \/ \E p \in Ports : RegisterPort(n, c, p)
    \/ PortsDone(n, c)
    \/ \E u \in UsersAt(n) : AskGrant(n, c, u)
    \/ ReadAck(n, c)
    \/ ReadOpen(n, c)
    \/ ReadClose(n, c)
    \/ ReadRequest(n, c)

User(u) == (\E p \in Ports : Attach(u, p)) \/ Detach(u) \/ Request(u)
Handler(u) == Answered(u) \/ GrantEnds(u) \/ Timeout(u)

Next == \/ Dial
        \/ \E c \in Conns : Cut(c)
        \/ \E n \in Nodes, c \in Conns : Loop(n, c)
        \/ \E u \in Users : User(u) \/ Handler(u)
        \/ \E p \in Ports : TakeSlot(p) \/ FreeSlot(p)
        \/ \E n \in Nodes : Restart(n)

Spec == Init /\ [][Next]_vars

\* Strong for Dial: a request made with the link down only delays it a moment.
Fairness == /\ SF_vars(Dial)
            /\ \A n \in Nodes, c \in Conns : WF_vars(Loop(n, c))
            /\ \A u \in Users : WF_vars(Handler(u))

FairSpec == Spec /\ Fairness

-----------------------------------------------------------------------------
(* Properties *)

Origin(u) == Peer(Home[u])

\* A CLOSE on its way, behind no reader that will skip it.
Closing(n, s) == \E c \in Conns : \E i \in DOMAIN wire[c][n] :
                    wire[c][n][i].kind = "close" /\ wire[c][n][i].sid = s

\* The peer's paths are all dead: what it had here ends with the last.
Doomed(n) == paths[n] \subseteq cut

\* A stream the origin keeps a seat for is known to the viewer, as its own or
\* as one to close; only a CLOSE lost with its path, or the end of the viewer's
\* process, leaves one behind, until the origin's last path to it goes.
RemembersStreams ==
    \A n \in Nodes : \A s \in Sids :
       mapped[Peer(n)][s] # none =>
          \/ \E u \in UsersAt(n) : s \in {sess[u]} \cup {stale[p][u] : p \in Ports}
          \/ Closing(n, s) \/ s \in left[n]

\* A pseudo-client sits only on the port its number is mapped to, and has the
\* write slot only if the user it stands for now asked for it, once the port
\* is registered again and the OPEN of the stream is read.
Reseated(n, s) == \E c \in Conns : \E i \in DOMAIN wire[c][n] :
                    wire[c][n][i].kind = "open" /\ wire[c][n][i].sid = s
Announced(n, p) == \E c \in Conns : \/ p \in loop[n][c].todo
                                    \/ PortsFrame \in {wire[c][Peer(n)][i] :
                                                      i \in DOMAIN wire[c][Peer(n)]}
SeatsFollowStreams ==
    \A n \in Nodes : \A p \in Ports, s \in Sids :
       /\ seat[n][p][s] # "absent" => mapped[n][s] = p
       /\ \A u \in UsersAt(Peer(n)) :
             /\ seat[n][p][s] = "read-write" /\ sess[u] = s /\ at[u] = p
             /\ ~Reseated(Home[u], s) /\ ~Announced(Home[u], p) /\ ~Doomed(n)
             => u \in asked

\* An attached user whose link stays up gets a stream both ends know.
Streaming(u) == /\ sess[u] # 0 /\ sess[u] \in routes[Home[u]]
                /\ mapped[Origin(u)][sess[u]] = at[u]
StreamComesBack ==
    \A u \in Users : at[u] # none ~> (at[u] = none \/ Streaming(u))

\* A live path, with nothing on the way between the two ends of u's stream.
Quiet(u) == /\ ask[u] = 0 /\ Streaming(u)
            /\ \A n \in Nodes, c \in Conns : loop[n][c] = Idle /\ wire[c][n] = <<>>
            /\ \A n \in Nodes : paths[n] # {} /\ paths[n] \cap cut = {}

\* After an outage the user's record says what the origin says.
RecordsAgree ==
    \A u \in Users : Quiet(u) =>
       (mode[u] = "read-write" <=> seat[Origin(u)][at[u]][sess[u]] = "read-write")

\* Two ports never share a stream number on a link.
OneMeaning == \A n \in Nodes, s \in Sids : ~(s \in routes[n] /\ mapped[n][s] # none)
=============================================================================
