--------------------------- MODULE ClientSession ---------------------------
(***************************************************************************)
(* The terminal client: a read loop, a keyboard loop with its submenus and *)
(* the reconnect, over one TCP adapter whose stream allows one read at a   *)
(* time.  The server's end of the adapter's socket is in the phase of its  *)
(* login, of its commands, or on a port.                                   *)
(*                                                                         *)
(* One exchange stands for the two of an HMAC login.  The manual reconnect *)
(* belongs to the manual mode.  The ghost races records what a behaviour   *)
(* went through that the client does not recover from by itself.           *)
(***************************************************************************)
EXTENDS Naturals

CONSTANTS MaxDrops,   \* bound: losses of the link
          MaxActs     \* bound: lines, menus and detaches of the user

VARIABLES
  mode,      \* reconnect_mode
  cred,      \* how the user signed in
  up,        \* the server can be reached
  sock,      \* the server's end of the socket
  asked,     \* what the server has still to answer
  answer,    \* what it answered and nobody has read
  conn, authd,   \* is_connected, is_authenticated
  target,    \* current_port is set
  ui,        \* "command" in command mode, else "port"
  running,   \* is_running
  reader, rec, keys,   \* the read loop, the reconnect, the keyboard loop
  races, drops, acts

flags == <<conn, authd, target, ui, running>>
wire == <<sock, asked, answer>>
bounds == <<drops, acts>>
vars == <<mode, cred, up, wire, flags, reader, rec, keys, races, bounds>>

TypeOK ==
    /\ mode \in {"auto", "manual", "off"} /\ cred \in {"password", "pubkey"}
    /\ sock \in {"login", "command", "port", "dead", "closed"}
    /\ asked \in {"none", "login", "attach", "detach"}
    /\ answer \in {"none", "welcome", "connected", "refused", "detached"}
    /\ {up, conn, authd, target, running} \subseteq BOOLEAN
    /\ ui \in {"command", "port"}
    /\ reader \in {"poll", "reading", "gone"}
    /\ rec \in {"none", "start", "login", "attach", "wait"}
    /\ keys \in {"free", "menu", "detaching"}
    /\ races \subseteq {"collision", "menu", "refused", "late", "pubkey"}
    /\ drops \in 0..MaxDrops /\ acts \in 0..MaxActs

\* run_console and run_console_on_port.
Init ==
    /\ mode \in {"auto", "manual", "off"} /\ cred \in {"password", "pubkey"}
    /\ up = TRUE /\ asked = "none" /\ answer = "none"
    /\ conn = TRUE /\ authd = TRUE /\ running = TRUE
    /\ \E port \in BOOLEAN : /\ target = port
                             /\ ui = IF port THEN "port" ELSE "command"
                             /\ sock = IF port THEN "port" ELSE "command"
    /\ reader = "poll" /\ rec = "none" /\ keys = "free"
    /\ races = {} /\ drops = 0 /\ acts = 0

Acts == acts < MaxActs /\ acts' = acts + 1 /\ UNCHANGED drops
Meets(r) == races' = races \cup {r}

-----------------------------------------------------------------------------
(* The server and the link *)

\* The port may be gone, or refused, when a session attaches to it again.
Answers ==
    /\ asked # "none" /\ answer = "none" /\ asked' = "none"
    /\ \/ /\ asked = "login" /\ sock = "login"
          /\ answer' = "welcome" /\ sock' = "command"
       \/ /\ asked = "attach" /\ sock = "command"
          /\ \/ answer' = "connected" /\ sock' = "port"
             \/ answer' = "refused" /\ UNCHANGED sock
       \/ /\ asked = "detach" /\ sock = "port"
          /\ answer' = "detached" /\ sock' = "command"
    /\ UNCHANGED <<mode, cred, up, flags, reader, rec, keys, races, bounds>>

Drop ==
    /\ drops < MaxDrops /\ drops' = drops + 1 /\ up /\ up' = FALSE
    /\ sock' = IF sock = "closed" THEN sock ELSE "dead"
    /\ asked' = "none" /\ answer' = "none"
    /\ UNCHANGED <<mode, cred, flags, reader, rec, keys, races, acts>>

\* A session that does not sign in is closed by the server's login timeout.
LoginTimeout ==
    /\ sock = "login" /\ asked = "none" /\ answer = "none" /\ sock' = "dead"
    /\ UNCHANGED <<mode, cred, up, asked, answer, flags, reader, rec, keys, races, bounds>>

Return == /\ ~up /\ up' = TRUE
          /\ UNCHANGED <<mode, cred, wire, flags, reader, rec, keys, races, bounds>>

-----------------------------------------------------------------------------
(* The read loop *)

Engaged == rec' = IF mode = "auto" /\ rec = "none" THEN "start" ELSE rec

\* The link is down: see to a reconnect.  Under a submenu the loop hands back
\* to it and ends.
Idles ==
    /\ running /\ reader = "poll" /\ ~conn
    /\ IF keys = "menu"
       THEN /\ Engaged /\ reader' = "gone" /\ running' = (mode # "off") /\ Meets("menu")
       ELSE Engaged /\ UNCHANGED <<reader, running, races>>
    /\ <<rec, reader>>' # <<rec, reader>>
    /\ UNCHANGED <<mode, cred, up, wire, conn, authd, target, ui, keys, bounds>>

\* read_data.  A reconnect that reads its answers shares the stream with it:
\* the stream refuses the second read, and read_data takes that for a loss.
Reads ==
    /\ running /\ reader = "poll" /\ conn
    /\ IF rec \in {"login", "attach"}
       THEN conn' = FALSE /\ Meets("collision") /\ UNCHANGED reader
       ELSE reader' = "reading" /\ UNCHANGED <<conn, races>>
    /\ UNCHANGED <<mode, cred, up, wire, authd, target, ui, running, rec, keys, bounds>>

TimesOut ==
    /\ reader = "reading" /\ sock \notin {"dead", "closed"} /\ answer = "none"
    /\ reader' = "poll"
    /\ UNCHANGED <<mode, cred, up, wire, flags, rec, keys, races, bounds>>

(* Mutant: the read loop ends with the connection.                         *)
EndLeaves ==
    /\ reader = "reading" /\ sock \in {"dead", "closed"}
    /\ conn' = FALSE /\ authd' = FALSE /\ reader' = "gone"
    /\ IF mode = "off" THEN running' = FALSE /\ UNCHANGED rec
       ELSE Engaged /\ UNCHANGED running
    /\ UNCHANGED <<mode, cred, up, wire, target, ui, keys, races, bounds>>

\* End of file.
SeesEnd ==
    /\ reader = "reading" /\ sock \in {"dead", "closed"}
    /\ conn' = FALSE /\ authd' = FALSE
    /\ IF mode = "off" THEN running' = FALSE /\ reader' = "gone" /\ UNCHANGED rec
       ELSE Engaged /\ reader' = "poll" /\ UNCHANGED running
    /\ UNCHANGED <<mode, cred, up, wire, target, ui, keys, races, bounds>>

\* What the loop itself reads: in command mode the line that says a port is
\* attached, else what is only shown.  A "detached" is left for the keyboard.
Takes ==
    /\ reader = "reading" /\ answer # "none" /\ reader' = "poll"
    /\ IF ui = "command" /\ answer = "connected"
       THEN /\ ui' = "port" /\ target' = TRUE /\ answer' = "none"
            /\ UNCHANGED <<keys, races>>
       ELSE IF answer = "detached" /\ keys = "detaching"
       THEN /\ ui' = "command" /\ target' = FALSE /\ answer' = "none" /\ keys' = "free"
            /\ UNCHANGED races
       ELSE /\ answer' = "none" /\ UNCHANGED <<ui, target, keys, races>>
    /\ UNCHANGED <<mode, cred, up, sock, asked, conn, authd, running, rec, bounds>>

-----------------------------------------------------------------------------
(* The reconnect *)

\* In auto mode a failed attempt is followed by a pause, in which the loop
\* goes on only if there is no connection.
Failed == rec' = IF mode = "auto" THEN "wait" ELSE "none"

\* A new socket; the one before is not closed.
Dial ==
    /\ running /\ rec = "start"
    /\ IF ~up THEN Failed /\ UNCHANGED <<wire, conn, races>>
       ELSE /\ conn' = TRUE /\ sock' = "login" /\ answer' = "none"
            /\ IF cred = "pubkey" THEN Failed /\ Meets("pubkey") /\ asked' = "none"
               ELSE rec' = "login" /\ asked' = "login" /\ UNCHANGED races
    /\ UNCHANGED <<mode, cred, up, authd, target, ui, running, reader, keys, bounds>>

Welcomed ==
    /\ rec = "login" /\ answer = "welcome"
    /\ answer' = "none" /\ authd' = TRUE
    /\ IF ~target THEN rec' = "none" /\ UNCHANGED asked
       ELSE IF conn THEN rec' = "attach" /\ asked' = "attach"
       ELSE Failed /\ UNCHANGED asked
    /\ UNCHANGED <<mode, cred, up, sock, conn, target, ui, running, reader, keys,
                   races, bounds>>

Attached ==
    /\ rec = "attach" /\ answer \in {"connected", "refused"} /\ answer' = "none"
    /\ IF answer = "connected" THEN rec' = "none" /\ UNCHANGED races
       ELSE Failed /\ Meets("refused")
    /\ UNCHANGED <<mode, cred, up, sock, asked, flags, reader, keys, bounds>>

\* An end of file in the exchange; is_connected stays as it is.
Interrupted ==
    /\ rec \in {"login", "attach"} /\ sock \in {"dead", "closed"} /\ Failed
    /\ UNCHANGED <<mode, cred, up, wire, flags, reader, keys, races, bounds>>

Pauses ==
    /\ rec = "wait" /\ rec' = IF conn \/ ~running THEN "none" ELSE "start"
    /\ UNCHANGED <<mode, cred, up, wire, flags, reader, keys, races, bounds>>

-----------------------------------------------------------------------------
(* The keyboard *)

Free == running /\ keys = "free"

\* "connect <port>" in command mode.
Connect ==
    /\ Free /\ ui = "command" /\ conn /\ rec = "none" /\ Acts
    /\ asked' = IF sock = "command" /\ asked = "none" /\ answer = "none"
                THEN "attach" ELSE asked
    /\ UNCHANGED <<mode, cred, up, sock, answer, flags, reader, rec, keys, races>>

\* The escape d.
Detach ==
    /\ Free /\ ui = "port" /\ target /\ conn /\ rec = "none" /\ Acts /\ keys' = "detaching"
    /\ asked' = IF sock = "port" /\ asked = "none" THEN "detach" ELSE asked
    /\ UNCHANGED <<mode, cred, up, sock, answer, flags, reader, rec, races>>

\* Five seconds without an answer, or the link is gone.
DetachGivesUp ==
    /\ keys = "detaching" /\ keys' = "free"
    /\ IF conn THEN Meets("late") ELSE UNCHANGED races
    /\ UNCHANGED <<mode, cred, up, wire, flags, reader, rec, bounds>>

\* The power menu owns the keyboard until its user leaves it.
Menu == /\ Free /\ ui = "port" /\ conn /\ Acts /\ keys' = "menu"
        /\ UNCHANGED <<mode, cred, up, wire, flags, reader, rec, races>>
MenuEnds == /\ keys = "menu" /\ keys' = "free"
            /\ UNCHANGED <<mode, cred, up, wire, flags, reader, rec, races, bounds>>

\* The escape o, in manual mode and with the link down.
Reconnect ==
    /\ Free /\ mode = "manual" /\ ~conn /\ rec = "none" /\ rec' = "start"
    /\ UNCHANGED <<mode, cred, up, wire, flags, reader, keys, races, bounds>>

\* The escape dot, QUIT, or the server's shutdown line.
Quit ==
    /\ Free /\ Acts /\ running' = FALSE
    /\ conn' = FALSE /\ authd' = FALSE /\ sock' = "closed"
    /\ asked' = "none" /\ answer' = "none"
    /\ UNCHANGED <<mode, cred, up, target, ui, reader, rec, keys, races>>

ReadLoop == Idles \/ Reads \/ TimesOut \/ SeesEnd \/ Takes
Reconnecting == Dial \/ Welcomed \/ Attached \/ Interrupted \/ Pauses

Next == \/ Answers \/ Drop \/ LoginTimeout \/ Return
        \/ ReadLoop \/ Reconnecting
        \/ Connect \/ Detach \/ DetachGivesUp \/ Menu \/ MenuEnds \/ Reconnect \/ Quit

\* Both loops run and timeouts strike; a reachable server answers.
Fairness == /\ WF_vars(ReadLoop) /\ WF_vars(Reconnecting)
            /\ WF_vars(Answers) /\ WF_vars(Return)
            /\ WF_vars(LoginTimeout) /\ WF_vars(DetachGivesUp)

Spec == Init /\ [][Next]_vars /\ Fairness
-----------------------------------------------------------------------------
(* Properties *)

Usable == conn /\ authd /\ sock = IF target THEN "port" ELSE "command"

\* _read_from_server and _auto_reconnect_loop: in auto mode a session that
\* lost its link is back where it was once the server can be reached again.
ComesBack == mode = "auto" => []<>(Usable \/ ~running \/ races # {})

\* console.py, _read_step: "The loop remains the SOLE reader of the connection".
SoleReader == "collision" \notin races
=============================================================================
