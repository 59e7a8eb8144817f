-------------------------- MODULE ListenerSessions ---------------------------
(***************************************************************************)
(* The sessions of the Telnet and SSH listeners: a connection signs in,    *)
(* chooses a port, is attached, served and detached, while a reload takes  *)
(* its listener away and the console manager moves the write slot.         *)
(*                                                                         *)
(* A connection's handler, a failed write of somebody else's task and the  *)
(* reload may all disconnect one session.                                  *)
(***************************************************************************)
EXTENDS Naturals, FiniteSets

CONSTANTS Conns, Listeners,
          MaxMode,     \* bound: changes of the write slot
          MaxReloads   \* bound: listeners removed or changed

VARIABLES
  server,    \* of each listener
  phase,     \* of each connection's handler
  on,        \* the listener that accepted it
  registry,  \* sessions
  seats,     \* the clients attached to a port
  mode,      \* the mode the port gives each of them
  shown,     \* port_mode
  answer,    \* the decision a handler waits for
  leaving,   \* the disconnects under way
  step, at, todo, dropping,   \* of the reload
  moves, reloads

rl == <<step, at, todo, dropping, reloads>>
slot == <<mode, shown, answer, moves>>
vars == <<server, phase, on, registry, seats, slot, leaving, rl>>

None == "none"
Modes == {"ro", "rw"}

TypeOK ==
    /\ server \in [Listeners -> BOOLEAN]
    /\ phase \in [Conns -> {"new", "login", "attach", "serve", "end", "gone"}]
    /\ on \in [Conns -> Listeners \cup {None}]
    /\ registry \subseteq Conns /\ seats \subseteq Conns
    /\ leaving \subseteq Conns /\ todo \subseteq Conns /\ dropping \in Conns \cup {None}
    /\ mode \in [Conns -> Modes] /\ shown \in [Conns -> Modes]
    /\ answer \in [Conns -> Modes \cup {None, "refused"}]
    /\ step \in {None, "drop", "close", "bind"} /\ at \in Listeners \cup {None}
    /\ moves \in 0..MaxMode /\ reloads \in 0..MaxReloads

Init ==
    /\ server = [l \in Listeners |-> TRUE]
    /\ phase = [c \in Conns |-> "new"] /\ on = [c \in Conns |-> None]
    /\ registry = {} /\ seats = {} /\ leaving = {}
    /\ mode = [c \in Conns |-> "ro"] /\ shown = mode /\ answer = [c \in Conns |-> None]
    /\ step = None /\ at = None /\ todo = {} /\ dropping = None
    /\ moves = 0 /\ reloads = 0

Goes(c, from, to) == phase[c] = from /\ phase' = [phase EXCEPT ![c] = to]

-----------------------------------------------------------------------------
(* The handler of a connection *)

Accept(c) ==
    /\ Goes(c, "new", "login")
    /\ \E l \in Listeners : server[l] /\ on' = [on EXCEPT ![c] = l]
    /\ UNCHANGED <<server, registry, seats, slot, leaving, rl>>

\* _resolve_session_target and _resolve_process_target: every prompt ends,
\* with a port, a refusal or its timeout.
Resolved(c) ==
    /\ Goes(c, "login", "attach") \/ Goes(c, "login", "gone")
    /\ UNCHANGED <<server, on, registry, seats, slot, leaving, rl>>

\* connect_client_to_port; its answer has still to reach the handler.
Granted(c) ==
    /\ phase[c] = "attach" /\ answer[c] = None
    /\ \/ /\ seats' = seats \cup {c}
          /\ \E m \in Modes : /\ mode' = [mode EXCEPT ![c] = m]
                              /\ answer' = [answer EXCEPT ![c] = m]
       \/ answer' = [answer EXCEPT ![c] = "refused"] /\ UNCHANGED <<seats, mode>>
    /\ UNCHANGED <<server, phase, on, registry, shown, moves, leaving, rl>>

\* attach, when the answer is there: the session joins the registry.
Joins(c) ==
    /\ answer[c] # None /\ answer' = [answer EXCEPT ![c] = None]
    /\ IF answer[c] = "refused" THEN Goes(c, "attach", "gone") /\ UNCHANGED <<registry, shown>>
       ELSE /\ Goes(c, "attach", "serve") /\ registry' = registry \cup {c}
            /\ shown' = [shown EXCEPT ![c] = answer[c]]
    /\ UNCHANGED <<server, on, seats, mode, moves, leaving, rl>>

\* The Control menu asks for the slot, takes it or gives it back.
Asks(c) ==
    /\ phase[c] = "serve" /\ c \in seats /\ answer[c] = None
    /\ moves < MaxMode /\ moves' = moves + 1
    /\ \E m \in Modes : /\ mode' = [mode EXCEPT ![c] = m]
                        /\ answer' = [answer EXCEPT ![c] = m]
    /\ UNCHANGED <<server, phase, on, registry, seats, shown, leaving, rl>>

\* _reply_access_decision.
Replies(c) ==
    /\ phase[c] = "serve" /\ answer[c] # None
    /\ shown' = [shown EXCEPT ![c] = answer[c]] /\ answer' = [answer EXCEPT ![c] = None]
    /\ UNCHANGED <<server, phase, on, registry, seats, mode, moves, leaving, rl>>

\* Another client takes the slot, or hands it over: send_frame reaches the
\* sessions of the registry.
SlotMoves(c) ==
    /\ c \in seats /\ moves < MaxMode /\ moves' = moves + 1
    /\ \E m \in Modes \ {mode[c]} :
          /\ mode' = [mode EXCEPT ![c] = m]
          /\ shown' = IF c \in registry THEN [shown EXCEPT ![c] = m] ELSE shown
    /\ UNCHANGED <<server, phase, on, registry, seats, answer, leaving, rl>>

-----------------------------------------------------------------------------
(* The end of a session *)

\* disconnect up to the call of the console manager: the first takes the
\* session out of the registry, and the others return at once.
Disconnects(c) == registry' = registry \ {c}
                  /\ leaving' = IF c \in registry THEN leaving \cup {c} ELSE leaving

\* Mutant: the seat is kept when the session's client is gone already.
DetachedLate(c) ==
    /\ c \in leaving /\ leaving' = leaving \ {c}
    /\ seats' = IF phase[c] = "end" THEN seats ELSE seats \ {c}
    /\ UNCHANGED <<server, phase, on, registry, slot, rl>>

\* disconnect, when disconnect_client_from_port has returned, or raised after
\* the client was removed.
Detached(c) ==
    /\ c \in leaving /\ leaving' = leaving \ {c} /\ seats' = seats \ {c}
    /\ UNCHANGED <<server, phase, on, registry, slot, rl>>

\* serve: end of file, ".", or a write that failed; the handler waits for its
\* own disconnect.
Ends(c) ==
    /\ answer[c] = None /\ Goes(c, "serve", "end") /\ Disconnects(c)
    /\ UNCHANGED <<server, on, seats, slot, rl>>

\* The transport another's disconnect has closed reads end of file.
Closed(c) ==
    /\ c \notin registry \cup leaving /\ answer[c] = None
    /\ Goes(c, "serve", "gone") \/ Goes(c, "end", "gone")
    /\ UNCHANGED <<server, on, registry, seats, slot, leaving, rl>>

\* send_data: a write of the port's output fails.
SendFails(c) ==
    /\ c \in registry /\ Disconnects(c)
    /\ UNCHANGED <<server, phase, on, seats, slot, rl>>

-----------------------------------------------------------------------------
(* reconcile_ports, for a listener removed or changed *)

\* drop_listener_sessions lists the sessions once.
Reload(l) ==
    /\ step = None /\ server[l] /\ reloads < MaxReloads /\ reloads' = reloads + 1
    /\ step' = "drop" /\ at' = l /\ todo' = {c \in registry : on[c] = l} /\ dropping' = None
    /\ UNCHANGED <<server, phase, on, registry, seats, slot, leaving>>

\* The sessions are disconnected one after the other.
DropNext(c) ==
    /\ step = "drop" /\ c \in todo /\ todo' = todo \ {c}
    /\ dropping \notin leaving
    /\ Disconnects(c) /\ dropping' = IF c \in registry THEN c ELSE None
    /\ UNCHANGED <<server, phase, on, seats, slot, step, at, reloads>>

\* The server is closed when the last one is.
CloseServer ==
    /\ step = "drop" /\ todo = {} /\ dropping \notin leaving
    /\ server' = [server EXCEPT ![at] = FALSE] /\ step' = "close"
    /\ UNCHANGED <<phase, on, registry, seats, slot, leaving, at, todo, dropping, reloads>>

\* wait_closed: at once before Python 3.12, and when the last connection is
\* closed since.
Waited ==
    /\ step = "close" /\ step' = "bind"
    /\ UNCHANGED <<server, phase, on, registry, seats, slot, leaving, at, todo, dropping, reloads>>

\* The listener is bound again, if the file still has it.
Bind ==
    /\ step = "bind" /\ step' = None /\ at' = None
    /\ server' = server \/ server' = [server EXCEPT ![at] = TRUE]
    /\ UNCHANGED <<phase, on, registry, seats, slot, leaving, todo, dropping, reloads>>

Handler(c) == Granted(c) \/ Joins(c) \/ Replies(c) \/ Closed(c) \/ Resolved(c)

Next == \/ \E c \in Conns : \/ Accept(c) \/ Handler(c) \/ Asks(c) \/ SlotMoves(c)
                            \/ Ends(c) \/ SendFails(c) \/ Detached(c) \/ DropNext(c)
        \/ \E l \in Listeners : Reload(l)
        \/ CloseServer \/ Waited \/ Bind

Fairness == /\ \A c \in Conns : WF_vars(Handler(c)) /\ WF_vars(Detached(c))
                                /\ WF_vars(DropNext(c))
            /\ WF_vars(CloseServer) /\ WF_vars(Bind)

Spec == Init /\ [][Next]_vars /\ Fairness
-----------------------------------------------------------------------------
(* A session that ends by its client, a failed write and a reload at once  *)
(* gives its seat back: the first disconnect does, and the others do not   *)
(* get in its way.                                                         *)
SeatsReturned == \A c \in Conns : (phase[c] \in {"end", "gone"}) ~> (c \notin seats)

=============================================================================
