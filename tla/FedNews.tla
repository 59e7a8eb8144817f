------------------------------- MODULE FedNews -------------------------------
(***************************************************************************)
(* What two federated servers tell one another besides the streams: the    *)
(* state of a port's power feed, who is watching the port, and the         *)
(* switching of the outlet from the other side.                            *)
(*                                                                         *)
(* A frame goes out on every authenticated path of the two and is read in  *)
(* the order of its path.  A state is the version of what it was read      *)
(* from.  The ghosts crossed and missed record what the frames do not put  *)
(* right by themselves.                                                    *)
(***************************************************************************)
EXTENDS Naturals, Sequences

CONSTANTS Paths,
          MaxEvents,   \* bound: changes of the outlet, and of the viewers
          MaxDrops,    \* bound: paths lost
          MaxAsks      \* bound: outlets switched from the other side

VARIABLES
  feed,      \* the outlet at the origin
  watching,  \* the viewers at the other server
  up,        \* the paths
  news,      \* frames on their way to the viewer's server, by path
  back,      \* frames on their way to the origin
  casts,     \* frames that broadcasts have yet to write, by path
  listed,    \* the advertisement a path is registering
  shown,     \* _feed_states of the proxy
  told,      \* the last power_outlet_changed the proxy's sessions saw
  counted,   \* remote_viewers of the origin's port
  work,      \* POWER:SWITCH under way at the origin, by request
  waits,     \* the request whose future is pending
  asks, crossed, missed, drops

wires == <<up, news, back, casts>>
here == <<listed, shown, told, waits>>
ghosts == <<crossed, missed>>
vars == <<feed, watching, wires, here, counted, work, asks, ghosts, drops>>

Versions == 0..MaxEvents + MaxAsks + 1
None == 0   \* no proxy, no advertisement, no request; the feed's states start at 1
Requests == 1..MaxAsks
Frames == [kind : {"list", "state", "viewers", "switch", "result"}, body : Versions]

TypeOK ==
    /\ feed \in Versions /\ watching \in Versions /\ counted \in Versions
    /\ up \subseteq Paths
    /\ news \in [Paths -> Seq(Frames)] /\ back \in [Paths -> Seq(Frames)]
    /\ casts \in [Paths -> Seq(Frames)]
    /\ listed \in [Paths -> Versions] /\ shown \in Versions /\ told \in Versions
    /\ work \in [Requests -> {"none", "lost"} \cup Paths]
    /\ waits \in Requests \cup {None} /\ asks \in 0..MaxAsks
    /\ crossed \in BOOLEAN /\ missed \in BOOLEAN /\ drops \in 0..MaxDrops

Init ==
    /\ feed = 1 /\ watching = 0 /\ counted = 0
    /\ up = {} /\ news = [p \in Paths |-> <<>>] /\ back = [p \in Paths |-> <<>>]
    /\ casts = [p \in Paths |-> <<>>] /\ listed = [p \in Paths |-> None]
    /\ shown = None /\ told = None
    /\ work = [r \in Requests |-> "none"] /\ waits = None /\ asks = 0
    /\ crossed = FALSE /\ missed = FALSE /\ drops = 0

Frame(kind, body) == [kind |-> kind, body |-> body]

-----------------------------------------------------------------------------
(* The paths *)

\* _slpl_feed_states and _slpl_port_meta: the entry of the port in the list.
Advertised == Frame("list", feed)

\* _maybe_advertise_local_ports: once for a connection, when it is let in.
Connect(p) ==
    /\ p \notin up /\ up' = up \cup {p}
    /\ news' = [news EXCEPT ![p] = <<Advertised>>]
    /\ UNCHANGED <<feed, watching, back, casts, here, counted, work, asks, ghosts, drops>>

Drop(p) ==
    /\ p \in up /\ up' = up \ {p} /\ drops < MaxDrops /\ drops' = drops + 1
    /\ news' = [news EXCEPT ![p] = <<>>] /\ back' = [back EXCEPT ![p] = <<>>]
    /\ listed' = [listed EXCEPT ![p] = None]
    /\ casts' = [casts EXCEPT ![p] = <<>>]
    /\ work' = [r \in Requests |-> IF work[r] = p THEN "lost" ELSE work[r]]
    /\ missed' = (missed \/ counted # watching)
    /\ UNCHANGED <<feed, watching, shown, told, waits, counted, asks, crossed>>

-----------------------------------------------------------------------------
(* The origin of the port *)

\* A POWER:STATE for every path, written one path after the other.
Told(f) == casts' = [p \in Paths |-> IF p \in up THEN Append(casts[p], f) ELSE casts[p]]

\* _on_port_meta_for_power_relay: a poll, or a switch at the origin.
OutletChanges ==
    /\ feed <= MaxEvents /\ feed' = feed + 1
    /\ Told(Frame("state", feed'))
    /\ UNCHANGED <<watching, up, news, back, here, counted, work, asks, ghosts, drops>>

\* A path is written by the broadcasts in their order.
Write(p) ==
    /\ casts[p] # <<>> /\ casts' = [casts EXCEPT ![p] = Tail(@)]
    /\ LET f == Head(casts[p])
       IN  IF f.kind = "viewers"
           THEN back' = [back EXCEPT ![p] = Append(@, f)] /\ UNCHANGED news
           ELSE news' = [news EXCEPT ![p] = Append(@, f)] /\ UNCHANGED back
    /\ UNCHANGED <<feed, watching, up, here, counted, work, asks, ghosts, drops>>

\* The receive loop waits for what it handles.
Free(p) == /\ p \in up /\ back[p] # <<>> /\ \A r \in Requests : work[r] # p

TakesFrame(p, kind) == /\ Head(back[p]).kind = kind
                       /\ back' = [back EXCEPT ![p] = Tail(@)]

\* _handle_viewers_frame, for a port of one's own.
ViewersArrive(p) ==
    /\ Free(p) /\ TakesFrame(p, "viewers")
    /\ LET v == Head(back[p]).body
       IN  /\ counted' = v
           /\ crossed' = IF v = watching THEN crossed ELSE crossed \/ v < counted
           /\ missed' = (missed /\ v # watching)
    /\ UNCHANGED <<feed, watching, up, news, casts, here, work, asks, drops>>

\* _handle_power_switch_frame and _power_switch_anchor_ok.  The session may
\* be gone, or drive no longer; set_outlet then waits for the outlet.
SwitchArrives(p) ==
    /\ Free(p) /\ TakesFrame(p, "switch")
    /\ LET r == Head(back[p]).body
       IN  \/ work' = [work EXCEPT ![r] = p] /\ UNCHANGED news
           \/ news' = [news EXCEPT ![p] = Append(@, Frame("result", r))] /\ UNCHANGED work
    /\ UNCHANGED <<feed, watching, up, casts, here, counted, asks, ghosts, drops>>

\* set_outlet has switched, or failed; the answer takes the path of the
\* request, if that is still up.
SwitchEnds(r) ==
    /\ work[r] # "none" /\ work' = [work EXCEPT ![r] = "none"]
    /\ \/ feed' = feed + 1 /\ Told(Frame("state", feed'))
       \/ UNCHANGED <<feed, casts>>
    /\ news' = IF work[r] = "lost" THEN news
               ELSE [news EXCEPT ![work[r]] = Append(@, Frame("result", r))]
    /\ UNCHANGED <<watching, up, back, here, counted, asks, ghosts, drops>>

-----------------------------------------------------------------------------
(* The other server *)

\* broadcast_presence and _broadcast_viewer_presence.
ViewersChange ==
    /\ watching < MaxEvents /\ watching' = watching + 1
    /\ Told(Frame("viewers", watching')) /\ missed' = (missed \/ up = {})
    /\ UNCHANGED <<feed, up, news, back, here, counted, work, asks, crossed, drops>>

Ready(p, kind) == /\ p \in up /\ listed[p] = None /\ news[p] # <<>>
                  /\ Head(news[p]).kind = kind
                  /\ news' = [news EXCEPT ![p] = Tail(@)]

\* The state is applied, and the sessions hear of it if it is another one.
Applied(v) ==
    /\ shown' = v
    /\ told' = v
    /\ crossed' = IF v = feed THEN crossed ELSE crossed \/ (shown # None /\ v < shown)

\* _handle_power_state_frame: only for a port the peer has advertised.
StateArrives(p) ==
    /\ Ready(p, "state")
    /\ IF shown = None THEN UNCHANGED <<shown, told, crossed>>
       ELSE Applied(Head(news[p]).body)
    /\ UNCHANGED <<feed, watching, up, back, casts, listed, waits, counted, work, asks,
                   missed, drops>>

\* _handle_ports_federated: the ports are registered one after the other,
\* and each may wait for the write slots of its sessions.
ListArrives(p) ==
    /\ Ready(p, "list") /\ listed' = [listed EXCEPT ![p] = Head(news[p]).body]
    /\ UNCHANGED <<feed, watching, up, back, casts, shown, told, waits, counted, work, asks,
                   ghosts, drops>>

\* Mutant: a re-advertisement keeps the cached state.
RegistersOnce(p) ==
    /\ listed[p] # None /\ listed' = [listed EXCEPT ![p] = None]
    /\ IF shown = None THEN Applied(listed[p]) ELSE UNCHANGED <<shown, told, crossed>>
    /\ UNCHANGED <<feed, watching, wires, waits, counted, work, asks, missed, drops>>

\* _apply_power_meta_to_proxy.
Registers(p) ==
    /\ listed[p] # None /\ listed' = [listed EXCEPT ![p] = None]
    /\ Applied(listed[p])
    /\ UNCHANGED <<feed, watching, wires, waits, counted, work, asks, missed, drops>>

\* relay_power_switch and _power_switch_anchor.
Ask ==
    /\ shown # None /\ waits = None /\ asks < MaxAsks
    /\ asks' = asks + 1 /\ waits' = asks'
    /\ \E p \in up : back' = [back EXCEPT ![p] = Append(@, Frame("switch", asks'))]
    /\ UNCHANGED <<feed, watching, up, news, casts, listed, shown, told, counted, work,
                   ghosts, drops>>

\* _handle_power_result_frame: the answer goes to whoever waits.
ResultArrives(p) ==
    /\ Ready(p, "result") /\ waits' = None
    /\ UNCHANGED <<feed, watching, up, back, casts, listed, shown, told, counted, work, asks,
                   ghosts, drops>>

AskTimesOut ==
    /\ waits # None /\ waits' = None
    /\ UNCHANGED <<feed, watching, wires, listed, shown, told, counted, work, asks, ghosts,
                   drops>>

-----------------------------------------------------------------------------
Arrives(p) == \/ ViewersArrive(p) \/ SwitchArrives(p)
              \/ StateArrives(p) \/ ListArrives(p) \/ Registers(p) \/ ResultArrives(p)

Next == \/ OutletChanges \/ ViewersChange \/ Ask \/ AskTimesOut
        \/ \E p \in Paths : Connect(p) \/ Drop(p) \/ Write(p) \/ Arrives(p)
        \/ \E r \in Requests : SwitchEnds(r)

Spec == Init /\ [][Next]_vars
-----------------------------------------------------------------------------
StillFor(w) == \A p \in Paths : w[p] = <<>>
Unsaid == ~StillFor(casts)

(* The advertisement of a new connection "replaces ... no stale entry      *)
(* lingers" (docs/design/muxcon.md 4.5): with a path up and nothing on its *)
(* way the proxy shows the outlet as it is, and its sessions were told so, *)
(* unless a slower path has overtaken.                                     *)
FeedsCatchUp ==
    up # {} /\ ~Unsaid /\ StillFor(news) /\ (\A p \in Paths : listed[p] = None) /\ ~crossed =>
        shown = feed /\ told = feed

(* _broadcast_viewer_presence: the origin counts the viewers there are,    *)
(* unless they changed with no path up or a slower path has overtaken.     *)
ViewersCatchUp ==
    up # {} /\ ~Unsaid /\ StillFor(back) /\ ~crossed /\ ~missed => counted = watching

(* Both ends see the port as the other one has it, once all is said.       *)
NewsCatchesUp == FeedsCatchUp /\ ViewersCatchUp

(* The same without the exception, for a viewer that leaves in an outage.  *)
NoGhostViewer == up # {} /\ ~Unsaid /\ StillFor(back) /\ ~crossed => counted = watching
=============================================================================
