----------------------------- MODULE WebConsole -----------------------------
(***************************************************************************)
(* The web console: pages kept fresh by data-free nudges on their site     *)
(* socket, console sockets kept fresh by meta frames, and a stop that must *)
(* not wait for browsers.                                                  *)
(*                                                                         *)
(* What a page or a frame shows of the ports is the version of them it was *)
(* made from.  A console socket is used once; a page opens its site socket *)
(* again.  The ghosts are missed, overtaken and late.                      *)
(***************************************************************************)
EXTENDS Naturals, Sequences

CONSTANTS Tabs, Sockets,
          MaxChanges,   \* bound: events on the ports
          MaxDrops      \* bound: links lost, of pages and of sockets

VARIABLES
  phase,     \* "up", "closing", "cleanup", "down"; "new" once it is replaced
  version,   \* of the ports
  tab,       \* each page
  hub,       \* the site sockets SiteEventHub holds
  nudge,     \* the scheduled _site_nudge_later
  link,      \* a console socket: "new", "open", "lost" or "closed"
  handler,   \* handle_ws of it
  held,      \* _ws_to_client and _clients
  subs,      \* _meta_subscribers of the port
  tasks,     \* broadcasts created and not begun
  timers,    \* broadcasts the debounce put off
  recent,    \* _meta_debounce lies within the interval
  casts,     \* broadcasts under way
  seen,      \* the last meta frame of a socket
  toClose,   \* what _close_live_sockets has still to close
  late, overtaken, drops

siteVars == <<tab, hub, nudge>>
consoleVars == <<link, handler, held, subs, seen>>
metaVars == <<tasks, timers, recent, casts>>
ghosts == <<overtaken, drops>>
vars == <<phase, version, siteVars, consoleVars, metaVars, toClose, late, ghosts>>

Versions == 0..MaxChanges
Live == MaxChanges + 1   \* a broadcast that reads the state when it runs
Views == {"status", "sidebar"}

TypeOK ==
    /\ phase \in {"up", "closing", "cleanup", "down", "new"} /\ version \in Versions
    /\ tab \in [Tabs -> [view : Views, link : {"unloaded", "off", "on"}, opened : BOOLEAN,
                         fetch : {"none", "asked", "answered"}, again : BOOLEAN,
                         frame : BOOLEAN, answer : Versions, shown : Versions, missed : BOOLEAN]]
    /\ hub \subseteq Tabs /\ {nudge, recent} \subseteq BOOLEAN
    /\ link \in [Sockets -> {"new", "open", "lost", "closed"}]
    /\ handler \in [Sockets -> {"none", "attaching", "joining", "reading", "leaving", "gone"}]
    /\ {held, subs, overtaken} \subseteq SUBSET Sockets
    /\ tasks \in Seq(Versions \cup {Live}) /\ timers \in 0..MaxChanges
    /\ casts \subseteq [meta : Versions, todo : SUBSET Sockets, for : Sockets \cup {"all"}]
    /\ seen \in [Sockets -> Versions]
    /\ toClose \subseteq Sockets \cup Tabs /\ late \subseteq Sockets \cup Tabs
    /\ drops \in 0..MaxDrops

Init ==
    /\ phase = "up" /\ version = 0
    /\ tab \in [Tabs -> [view : Views, link : {"unloaded"}, opened : {FALSE},
                         fetch : {"none"}, again : {FALSE}, frame : {FALSE},
                         answer : {0}, shown : {0}, missed : {FALSE}]]
    /\ hub = {} /\ nudge = FALSE
    /\ link = [s \in Sockets |-> "new"] /\ handler = [s \in Sockets |-> "none"]
    /\ held = {} /\ subs = {} /\ seen = [s \in Sockets |-> 0]
    /\ tasks = <<>> /\ timers = 0 /\ recent = FALSE /\ casts = {}
    /\ toClose = {} /\ late = {} /\ overtaken = {} /\ drops = 0

-----------------------------------------------------------------------------
(* Events of the ports *)

\* Mutant: an event within the interval is lost.
ScheduledOrLost(flip) ==
    IF subs = {} \/ (recent /\ ~flip) THEN UNCHANGED metaVars
    ELSE /\ tasks' = Append(tasks, IF flip THEN version' ELSE Live)
         /\ recent' = TRUE /\ UNCHANGED <<timers, casts>>

\* The event's own connected flag goes out at once; anything else waits for
\* the debounce interval and is read when the broadcast runs.
Scheduled(flip) ==
    IF subs = {} THEN UNCHANGED metaVars
    ELSE /\ tasks' = IF flip THEN Append(tasks, version')
                     ELSE IF recent THEN tasks ELSE Append(tasks, Live)
         /\ timers' = IF ~flip /\ recent THEN timers + 1 ELSE timers
         /\ recent' = TRUE
         /\ UNCHANGED casts

\* A nudge is scheduled unless one is, or no page would hear it.
Nudged == nudge' = (nudge \/ hub # {})

Change ==
    /\ phase # "down" /\ version < MaxChanges /\ version' = version + 1
    /\ \E flip \in BOOLEAN : Scheduled(flip)
    /\ Nudged
    /\ tab' = [t \in Tabs |->
                 [tab[t] EXCEPT !.missed = @ \/ (tab[t].link = "off" /\ ~tab[t].opened)]]
    /\ UNCHANGED <<phase, hub, consoleVars, toClose, late, ghosts>>

IntervalEnds ==
    /\ recent /\ recent' = FALSE
    /\ UNCHANGED <<phase, version, siteVars, consoleVars, tasks, timers, casts, toClose,
                   late, ghosts>>

TimerFires ==
    /\ timers > 0 /\ timers' = timers - 1 /\ tasks' = Append(tasks, Live)
    /\ UNCHANGED <<phase, version, siteVars, consoleVars, recent, casts, toClose, late, ghosts>>

-----------------------------------------------------------------------------
(* The pages *)

Stays == UNCHANGED <<phase, version, nudge, consoleVars, metaVars, toClose, ghosts>>
Listening == phase \in {"up", "closing", "new"}

\* _get_ports_snapshot, of which every answer and frame is made.
Snapshot == version

\* Mutant: a poke during a fetch is lost.
RefreshedOnce(p) == IF p.fetch = "none" THEN [p EXCEPT !.fetch = "asked"] ELSE p

\* refresh and refreshSidebar: one fetch at a time, and one more after it.
Refreshed(p) == IF p.fetch = "none" THEN [p EXCEPT !.fetch = "asked"]
                ELSE [p EXCEPT !.again = TRUE]

\* The page is rendered with what it shows; its script then opens the socket.
Load(t) ==
    /\ tab[t].link = "unloaded" /\ phase = "up"
    /\ tab' = [tab EXCEPT ![t].link = "off", ![t].shown = Snapshot]
    /\ UNCHANGED <<hub, late>> /\ Stays

\* handle_ws_events.  The status page fetches whenever the socket opens, the
\* sidebar only when it opens again.
Open(t) ==
    /\ tab[t].link = "off" /\ Listening
    /\ LET p == [tab[t] EXCEPT !.link = "on", !.opened = TRUE]
       IN  tab' = [tab EXCEPT ![t] =
                     IF p.view = "status" \/ tab[t].opened THEN Refreshed(p) ELSE p]
    /\ hub' = hub \cup {t}
    /\ late' = IF phase = "closing" THEN late \cup {t} ELSE late
    /\ Stays

Publish ==
    /\ nudge /\ nudge' = FALSE
    /\ tab' = [t \in Tabs |-> [tab[t] EXCEPT !.frame = @ \/ (t \in hub /\ tab[t].link = "on")]]
    /\ UNCHANGED <<phase, version, hub, consoleVars, metaVars, toClose, late, ghosts>>

Hears(t) ==
    /\ tab[t].frame /\ tab[t].link = "on"
    /\ tab' = [tab EXCEPT ![t] = Refreshed([@ EXCEPT !.frame = FALSE])]
    /\ UNCHANGED <<hub, late>> /\ Stays

\* handle_api_status_fragments and handle_api_ports.
Serve(t) ==
    /\ tab[t].fetch = "asked" /\ phase # "down"
    /\ tab' = [tab EXCEPT ![t].fetch = "answered", ![t].answer = Snapshot]
    /\ UNCHANGED <<hub, late>> /\ Stays

Ended(p) == [p EXCEPT !.fetch = IF p.again THEN "asked" ELSE "none", !.again = FALSE]

Shows(t) ==
    /\ tab[t].fetch = "answered"
    /\ tab' = [tab EXCEPT ![t] = [Ended(@) EXCEPT !.shown = tab[t].answer, !.missed = FALSE]]
    /\ UNCHANGED <<hub, late>> /\ Stays

FetchFails(t) ==
    /\ tab[t].fetch = "asked" /\ phase = "down"
    /\ tab' = [tab EXCEPT ![t] = Ended(@)]
    /\ UNCHANGED <<hub, late>> /\ Stays

\* onclose; the server's handler ends with the socket.
Leaves(t) == /\ tab' = [tab EXCEPT ![t].link = "off", ![t].frame = FALSE]
             /\ hub' = hub \ {t} /\ late' = late \ {t}

DropTab(t) ==
    /\ tab[t].link = "on" /\ drops < MaxDrops /\ drops' = drops + 1
    /\ Leaves(t)
    /\ UNCHANGED <<phase, version, nudge, consoleVars, metaVars, toClose, overtaken>>

-----------------------------------------------------------------------------
(* The console sockets *)

Elsewhere == UNCHANGED <<phase, version, siteVars, toClose>>

\* _hws_prepare.
Connect(s) ==
    /\ link[s] = "new" /\ Listening
    /\ link' = [link EXCEPT ![s] = "open"] /\ handler' = [handler EXCEPT ![s] = "attaching"]
    /\ held' = held \cup {s}
    /\ late' = IF phase = "closing" THEN late \cup {s} ELSE late
    /\ Elsewhere /\ UNCHANGED <<subs, seen, metaVars, ghosts>>

\* _meta_send_to_subscriber: a send that fails drops the subscription.
Sent(s, m, to) ==
    /\ subs' = IF s \in held /\ link[s] # "open" THEN to \ {s} ELSE to
    /\ IF s \in held /\ link[s] = "open"
       THEN /\ seen' = [seen EXCEPT ![s] = m]
            /\ overtaken' = IF m = version THEN overtaken \ {s}
                            ELSE IF m < seen[s] THEN overtaken \cup {s} ELSE overtaken
       ELSE UNCHANGED <<seen, overtaken>>

\* A handler that broadcasts waits for its last send too.
Left(c) == IF c.todo = {} /\ c.for = "all" THEN {} ELSE {c}

\* _broadcast_meta fixes the subscribers and the payload, and its first send
\* is written before it suspends.  for: the handler that waits for it.
Broadcast(m, to, for) ==
    \E s \in to : /\ Sent(s, m, to)
                  /\ casts' = casts \cup Left([meta |-> m, todo |-> to \ {s}, for |-> for])

\* _hws_attach, and for a socket that stays, read-write, read-only or for the
\* meta frames alone, _hws_subscribe_meta: the handler itself broadcasts.
Attach(s) ==
    /\ handler[s] = "attaching"
    /\ \/ /\ handler' = [handler EXCEPT ![s] = "joining"]
          /\ Broadcast(Snapshot, subs \cup {s}, s)
          /\ UNCHANGED <<link, held, late>>
       \/ /\ handler' = [handler EXCEPT ![s] = "gone"]
          /\ link' = [link EXCEPT ![s] = "closed"]
          /\ held' = held \ {s} /\ late' = late \ {s}
          /\ UNCHANGED <<subs, casts, seen, overtaken>>
    /\ Elsewhere /\ UNCHANGED <<tasks, timers, recent, drops>>

Joined(s) ==
    /\ handler[s] = "joining" /\ \A c \in casts : c.for # s
    /\ handler' = [handler EXCEPT ![s] = "reading"]
    /\ Elsewhere /\ UNCHANGED <<link, held, subs, seen, metaVars, late, ghosts>>

\* _hws_finally_meta, and then disconnect_client_from_port.
SeesClose(s) ==
    /\ handler[s] = "reading" /\ link[s] # "open"
    /\ handler' = [handler EXCEPT ![s] = "leaving"] /\ subs' = subs \ {s}
    /\ Elsewhere /\ UNCHANGED <<link, held, seen, metaVars, late, ghosts>>

Gone(s) ==
    /\ handler[s] = "leaving"
    /\ handler' = [handler EXCEPT ![s] = "gone"] /\ held' = held \ {s} /\ late' = late \ {s}
    /\ seen' = [seen EXCEPT ![s] = 0] /\ overtaken' = overtaken \ {s}
    /\ Elsewhere /\ UNCHANGED <<link, subs, metaVars, drops>>

DropSocket(s) ==
    /\ link[s] = "open" /\ drops < MaxDrops /\ drops' = drops + 1
    /\ link' = [link EXCEPT ![s] = "lost"]
    /\ Elsewhere /\ UNCHANGED <<handler, held, subs, seen, metaVars, late, overtaken>>

\* send_data_to_client fails: the socket is forgotten, its handler is not.
OutputFails(s) ==
    /\ link[s] = "lost" /\ s \in held
    /\ held' = held \ {s} /\ subs' = subs \ {s}
    /\ Elsewhere /\ UNCHANGED <<link, handler, seen, metaVars, late, ghosts>>

-----------------------------------------------------------------------------
(* The broadcasts *)

\* _meta_base_payload: the event's word, else the state as it is.
MetaOf(m) == IF m = Live THEN Snapshot ELSE m

Begin ==
    /\ tasks # <<>> /\ tasks' = Tail(tasks)
    /\ IF subs = {} THEN UNCHANGED <<subs, seen, overtaken, casts>>
       ELSE Broadcast(MetaOf(Head(tasks)), subs, "all")
    /\ Elsewhere /\ UNCHANGED <<link, handler, held, timers, recent, late, drops>>

\* The next subscriber, once the send to the last one has ended.
Send(c, s) ==
    /\ s \in c.todo
    /\ casts' = (casts \ {c}) \cup Left([c EXCEPT !.todo = @ \ {s}])
    /\ Sent(s, c.meta, subs)
    /\ Elsewhere /\ UNCHANGED <<link, handler, held, tasks, timers, recent, late, drops>>

CastEnds(c) ==
    /\ c.todo = {} /\ casts' = casts \ {c}
    /\ Elsewhere /\ UNCHANGED <<consoleVars, tasks, timers, recent, late, ghosts>>

-----------------------------------------------------------------------------
(* stop and the start of the console that replaces it *)

Stop ==
    /\ phase = "up" /\ phase' = "closing"
    /\ nudge' = FALSE /\ toClose' = held \cup hub
    /\ UNCHANGED <<version, tab, hub, consoleVars, metaVars, late, ghosts>>

\* _close_live_sockets, one socket after the other.
CloseNext(x) ==
    /\ phase = "closing" /\ x \in toClose /\ toClose' = toClose \ {x}
    /\ IF x \in Tabs
       THEN Leaves(x) /\ UNCHANGED link
       ELSE /\ link' = [link EXCEPT ![x] = IF @ = "open" THEN "closed" ELSE @]
            /\ UNCHANGED <<tab, hub, late>>
    /\ UNCHANGED <<phase, version, nudge, handler, held, subs, seen, metaVars, ghosts>>

Cleanup ==
    /\ phase = "closing" /\ toClose = {} /\ phase' = "cleanup"
    /\ UNCHANGED <<version, siteVars, consoleVars, metaVars, toClose, late, ghosts>>

Handled == \A s \in Sockets : handler[s] \in {"none", "gone"}

Stopped ==
    /\ phase = "cleanup" /\ Handled /\ \A t \in Tabs : tab[t].link # "on"
    /\ phase' = "down"
    /\ UNCHANGED <<version, siteVars, consoleVars, metaVars, toClose, late, ghosts>>

\* The runner's own timeout is what ends a socket opened during the stop.
Expires(x) ==
    /\ phase = "cleanup" /\ x \in late
    /\ IF x \in Tabs
       THEN Leaves(x) /\ UNCHANGED consoleVars
       ELSE /\ link' = [link EXCEPT ![x] = "closed"] /\ late' = late \ {x}
            /\ UNCHANGED <<tab, hub, handler, held, subs, seen>>
    /\ UNCHANGED <<phase, version, nudge, metaVars, toClose, ghosts>>

Start ==
    /\ phase = "down" /\ phase' = "new"
    /\ UNCHANGED <<version, siteVars, consoleVars, metaVars, toClose, late, ghosts>>

-----------------------------------------------------------------------------
OfPage(t) == \/ Load(t) \/ Open(t) \/ Hears(t) \/ Serve(t) \/ Shows(t) \/ FetchFails(t)
OfHandler(s) == \/ Attach(s) \/ Joined(s) \/ SeesClose(s) \/ Gone(s)
OfBroadcast == \/ Begin \/ \E c \in casts : CastEnds(c) \/ \E s \in Sockets : Send(c, s)
OfStop == \/ Cleanup \/ Stopped \/ Start
          \/ \E x \in Sockets \cup Tabs : CloseNext(x) \/ Expires(x)

Next == \/ Change \/ IntervalEnds \/ TimerFires \/ Publish \/ OfBroadcast
        \/ Stop \/ OfStop
        \/ \E t \in Tabs : OfPage(t) \/ DropTab(t)
        \/ \E s \in Sockets : \/ OfHandler(s) \/ Connect(s) \/ DropSocket(s) \/ OutputFails(s)

\* Scheduled tasks run, pages reconnect, requests are answered, handlers go
\* on, a send to a slow browser ends (the heartbeat closes a dead one).
Fairness ==
    /\ WF_vars(TimerFires) /\ WF_vars(Publish) /\ WF_vars(OfBroadcast) /\ WF_vars(OfStop)
    /\ \A t \in Tabs : /\ WF_vars(Open(t)) /\ WF_vars(Hears(t))
                       /\ WF_vars(Serve(t) \/ Shows(t) \/ FetchFails(t))
    /\ \A s \in Sockets : WF_vars(OfHandler(s))

Spec == Init /\ [][Next]_vars /\ Fairness
-----------------------------------------------------------------------------
(* publish_site_event: pages "can go stale for seconds but never stay      *)
(* wrong".  Every loaded page ends up showing the ports as they are, save  *)
(* one that missed a change between its rendering and its first open.      *)
PagesCatchUp ==
    \A t \in Tabs : <>[]( \/ tab[t].link = "unloaded" \/ tab[t].missed
                          \/ tab[t].shown = version )

(* _kick_site_nudge (web_console.py:3277): pages fetch "on the frame and   *)
(* on every socket (re)open, so a dropped nudge delays a refresh but never *)
(* strands a page".  A page that listens to a console at work and has      *)
(* nothing to wait for shows the ports as they are.                        *)
Waits(t) == nudge \/ tab[t].frame \/ tab[t].fetch # "none"

NoPageStranded ==
    phase = "up" => \A t \in Tabs : tab[t].link = "on" /\ ~Waits(t) => tab[t].shown = version

(* _schedule_meta_broadcast and _broadcast_meta: when no broadcast is left *)
(* every live subscriber's last frame shows the port as it is, unless two  *)
(* broadcasts overtook one another on the way to it.                       *)
MetaEndsFresh ==
    tasks = <<>> /\ timers = 0 /\ casts = {} =>
        \A s \in subs : s \in held /\ link[s] = "open" /\ s \notin overtaken =>
            seen[s] = version

=============================================================================
