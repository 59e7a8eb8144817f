------------------------------- MODULE MCParts -------------------------------
(***************************************************************************)
(* Seven components whose safety is checked in one run: Init picks the one *)
(* a behaviour is about and the others stay in one initial state.          *)
(***************************************************************************)
EXTENDS PortOutput

CONSTANTS local, s1, s2,                                            \* PortOutput
          Dirs, LogQueue, MaxLogged, MaxRuns, MaxMoves,             \* LogFiles
          MaxKeys, MaxMode,                                         \* ListenerKeys
          Conns, Window, Threshold, Base, Cap, Life, MaxTime,       \* SignIn
          Lanes, MaxEvents, MaxDrops, MaxAsks,                      \* FedNews
          Dials, Accepts, none, MaxAge, MaxInstance,                \* MuxLinks
          MaxSpawns, Callers                                        \* CommandPort

ASSUME PartsAssumption == MaxRuns \in Nat /\ LogQueue \in Nat

VARIABLES which,
          events, writing, dir, files, buffers, mirror, runs, begun, chunks, moves,
          due, lost,
          over, keys, wire, chunk, state, esc, seen, payload, drives, modes, kept, ended,
          now, rec, chal, phase, tries, recent,
          feed, watching, linked, news, back, casts, listed, shown, told, counted,
          work, waits, asks, crossed, missed, drops,
          opt, loops, conn, net, gen, rx, group, primary, changed, closing, tail,
          live, beating, pinged, swept, instance, stopping,
          pty, onDemand, attached, clients, child, proc, running, active, writer,
          spawns, monitor, idle, stopper, doomed, masters, fd, leaks, overtaken, races

logVars == <<events, writing, dir, files, buffers, mirror, runs, begun, chunks,
             moves, due, lost>>
keyVars == <<over, keys, wire, chunk, state, esc, seen, payload, drives, modes,
             kept, ended>>
signVars == <<now, rec, chal, phase, tries, recent>>
newsVars == <<feed, watching, linked, news, back, casts, listed, shown, told,
              counted, work, waits, asks, crossed, missed, drops>>
linkVars == <<opt, loops, conn, net, gen, rx, group, primary, changed, closing, tail,
              live, beating, pinged, swept, instance, stopping>>
commandVars == <<pty, onDemand, attached, clients, child, proc, running, active,
                 writer, spawns, monitor, idle, stopper, doomed, masters, fd, leaks,
                 overtaken, races>>

Log == INSTANCE LogFiles WITH queue <- events, QueueSize <- LogQueue,
                              MaxChunks <- MaxLogged
Keys == INSTANCE ListenerKeys WITH typed <- keys
Sign == INSTANCE SignIn
News == INSTANCE FedNews WITH Paths <- Lanes, up <- linked
Links == INSTANCE MuxLinks WITH Out <- Dials, In <- Accepts, task <- loops, wire <- net,
                                due <- beating, asked <- pinged, leaving <- stopping
Cmd == INSTANCE CommandPort

MCInit == /\ which \in {"output", "log", "keys", "sign in", "news", "links", "command"}
          /\ Init /\ Log!Init /\ Keys!Init /\ Sign!Init /\ News!Init /\ Links!Init
          /\ Cmd!Init
          /\ which # "log" => dir = CHOOSE d \in Dirs : TRUE
          /\ which # "keys" => over = "telnet" /\ drives
          /\ which # "links" => opt = CHOOSE o \in Links!Options : TRUE
          /\ which # "command" => onDemand /\ pty

MCNext ==
    /\ UNCHANGED which
    /\ \/ /\ which = "output" /\ Next
          /\ UNCHANGED <<logVars, keyVars, signVars, newsVars, linkVars, commandVars>>
       \/ /\ which = "log" /\ Log!Next
          /\ UNCHANGED <<vars, keyVars, signVars, newsVars, linkVars, commandVars>>
       \/ /\ which = "keys" /\ Keys!Next
          /\ UNCHANGED <<vars, logVars, signVars, newsVars, linkVars, commandVars>>
       \/ /\ which = "sign in" /\ Sign!Next
          /\ UNCHANGED <<vars, logVars, keyVars, newsVars, linkVars, commandVars>>
       \/ /\ which = "news" /\ News!Next
          /\ UNCHANGED <<vars, logVars, keyVars, signVars, linkVars, commandVars>>
       \/ /\ which = "links" /\ Links!Next
          /\ UNCHANGED <<vars, logVars, keyVars, signVars, newsVars, commandVars>>
       \/ /\ which = "command" /\ Cmd!Next
          /\ UNCHANGED <<vars, logVars, keyVars, signVars, newsVars, linkVars>>

MCSpec == MCInit
          /\ [][MCNext]_<<which, vars, logVars, keyVars, signVars, newsVars,
                         linkVars, commandVars>>
-----------------------------------------------------------------------------
(* DataLogger: a port's files hold every line once, in order, but for the  *)
(* chunks a full queue was seen to drop.                                   *)
LogsAreFaithful == Log!LogsAreFaithful

(* feed_escape_byte and _process_input_chunk: every key typed is forwarded *)
(* once, is part of a command, or was typed read-only.                     *)
EveryKeyOnce == Keys!EveryKeyOnce

(* AuthManager: a name is not tried more often than its lock allows.       *)
GuessesAreFew == Sign!GuessesAreFew

(* Power federation: the catalogue and the count of viewers catch up.      *)
NewsCatchesUp == News!NewsCatchesUp

(* _retire_old_generation: connections of two instances of a peer server   *)
(* are never both kept.                                                    *)
OneGeneration == Links!OneGeneration

(* CommandPort: but for the overlaps recorded, every living child is       *)
(* watched or being stopped, and no pty master but its own is open.        *)
ChildHasKeeper == Cmd!ChildHasKeeper
=============================================================================
