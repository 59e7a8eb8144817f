----------------------------- MODULE MCSessions -----------------------------
(***************************************************************************)
(* The configuration editor, the sessions of browsers and the sessions of  *)
(* the Telnet and SSH listeners, in one run: Init picks what a behaviour   *)
(* is about, and the other modules stay in an initial state, from which    *)
(* their fairness asks for nothing.                                        *)
(*                                                                         *)
(* The web console is looked at three times: a page and a console socket,  *)
(* a page that loses its links, and the meta frames of two sockets.        *)
(***************************************************************************)
EXTENDS ConfigFiles

CONSTANTS Tabs, Sockets, MaxChanges, MaxDrops,      \* WebConsole
          Spare,                                    \* a socket, left out of "page"
          Conns, Listeners, MaxMode, MaxReloads     \* ListenerSessions

ASSUME SessionsAssumption == MaxChanges \in Nat

VARIABLES which,
          phase, version, tab, hub, nudge, link, handler, held, subs, seen,
          tasks, timers, recent, casts, toClose, late, overtaken, drops,
          bound, at, on, registry, seats, mode, shown, decision, leaving, step,
          todo, dropping, moves, reloads, stage

webVars == <<phase, version, tab, hub, nudge, link, handler, held, subs, seen, tasks,
             timers, recent, casts, toClose, late, overtaken, drops>>
sessionVars == <<bound, stage, on, registry, seats, mode, shown, decision, leaving,
                 step, at, todo, dropping, moves, reloads>>

Web == INSTANCE WebConsole
Sessions == INSTANCE ListenerSessions WITH server <- bound, phase <- stage,
                                           answer <- decision

MCInit == /\ which \in {"files", "page", "links", "meta", "listeners"}
          /\ Init /\ Web!Init /\ Sessions!Init
          /\ which # "files" => policy = "open"
          /\ which \in {"files", "listeners"} => \A t \in Tabs : tab[t].view = "status"

\* What each look at the web console leaves out.
Looks == CASE which = "page" -> version' <= 1 /\ link'[Spare] = "new" /\ drops' <= 1
           [] which = "links" -> \A s \in Sockets : link'[s] = "new"
           [] which = "meta" -> /\ phase' = "up" /\ drops' = 0
                                /\ \A t \in Tabs : tab'[t].link = "unloaded"

MCNext ==
    /\ UNCHANGED which
    /\ \/ /\ which = "files" /\ Next /\ UNCHANGED <<webVars, sessionVars>>
       \/ /\ which \in {"page", "links", "meta"} /\ Web!Next /\ Looks
          /\ UNCHANGED <<vars, sessionVars>>
       \/ /\ which = "listeners" /\ Sessions!Next /\ UNCHANGED <<vars, webVars>>

MCSpec == /\ MCInit /\ [][MCNext]_<<which, vars, webVars, sessionVars>>
          /\ Web!Fairness /\ Sessions!Fairness
-----------------------------------------------------------------------------
(* publish_site_event and _page_helpers.py: a page that is open ends up    *)
(* with what the ports are.                                                *)
PagesCatchUp == Web!PagesCatchUp

(* _schedule_meta_broadcast: the last meta frame of a socket is not stale  *)
(* when the broadcasts are over.                                           *)
MetaEndsFresh == Web!MetaEndsFresh

(* Listener sessions: a session that has ended gives its seat back.        *)
SeatsReturned == Sessions!SeatsReturned
=============================================================================
