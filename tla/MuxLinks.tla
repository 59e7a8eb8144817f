------------------------------ MODULE MuxLinks ------------------------------
(***************************************************************************)
(* The MuxCon adapter's links to one peer server: the initiators' dial     *)
(* loops, the handshakes, the read loops, the multipath group with its     *)
(* primary, heartbeats, the failover sweep, retirement of an older peer    *)
(* instance, the close path and the reconcile of initiators.               *)
(*                                                                         *)
(* Time is a tick of one heartbeat interval (30 s); ages are counted in    *)
(* whole ticks and stop at MaxAge.  A path is silent when the network drops its  *)
(* packets and neither end is told.  last_ack_ts never exceeds             *)
(* last_rx_seen (the frame that carries an ACK refreshes both), so rx      *)
(* stands for the last activity of a path.                                 *)
(***************************************************************************)
EXTENDS Naturals, Sequences, SequencesExt

CONSTANTS Out, In,      \* paths we dial, paths the peer dials
          none,         \* no primary
          MaxAge, MaxInstance

VARIABLES opt,        \* the adapter's options and what the scenario allows
          task,       \* the path's dial or read loop
          conn,       \* its record in connections, authenticated or not yet
          wire,       \* what the network makes of it
          gen,        \* the peer instance it was greeted by
          rx,         \* ticks since last_rx_seen
          group,      \* _mpath_groups[peer]["conns"], in the order opened
          primary, changed,   \* and ticks since last_primary_change
          closing,    \* connections with a close task scheduled
          tail,       \* a close under way: draining the writer, marking proxies
          live,       \* is_connected of the peer's proxies
          due, asked, swept,  \* the heartbeat loop and the failover loop
          instance,   \* the peer's instance_id
          leaving     \* the initiator reconcile_ports waits for, and what then

vars == <<opt, task, conn, wire, gen, rx, group, primary, changed, closing, tail,
          live, due, asked, swept, instance, leaving>>
linkVars == <<task, conn, wire, gen, tail, closing, leaving>>
clockVars == <<due, asked, swept>>

Paths == Out \cup In
Members == ToSet(group)
Windows == [live |-> 1, dead |-> 2]   \* 1.5 and 2.5 heartbeat intervals
Wider(window) == IF window > opt.stale THEN window ELSE opt.stale

(* The defaults (10 s stale window, 15 min time to live, with a 30 s       *)
(* heartbeat) with a peer that restarts; the same without pruning and with *)
(* a reconcile; a wider window with preemption.  Paths we dial are         *)
(* preferred.                                                              *)
Options == {[stale |-> 0, ttl |-> 3, preempt |-> FALSE, auth |-> TRUE,
             restarts |-> MaxInstance, reconcile |-> FALSE],
            [stale |-> 0, ttl |-> 0, preempt |-> FALSE, auth |-> FALSE,
             restarts |-> 0, reconcile |-> TRUE],
            [stale |-> 2, ttl |-> 3, preempt |-> TRUE, auth |-> FALSE,
             restarts |-> 0, reconcile |-> FALSE]}
Pref(p) == IF p \in Out THEN 1 ELSE 0

Init == /\ opt \in Options
        /\ task = [p \in Paths |-> IF p \in Out THEN "dial" ELSE "off"]
        /\ conn = [p \in Paths |-> "none"] /\ wire = [p \in Paths |-> "down"]
        /\ gen = [p \in Paths |-> 0] /\ rx = [p \in Paths |-> 0]
        /\ group = <<>> /\ primary = none /\ changed = 0
        /\ closing = {} /\ tail = [p \in Paths |-> "no"] /\ live = FALSE
        /\ due = TRUE /\ asked = {} /\ swept = FALSE
        /\ instance = 0 /\ leaving = <<>>
-----------------------------------------------------------------------------
(* The multipath group, as pure operators.                                 *)

Prefer(p, q) == \/ Pref(p) > Pref(q)
                \/ /\ Pref(p) = Pref(q)
                   /\ \E i, j \in DOMAIN group : i >= j /\ group[i] = p /\ group[j] = q
Best(S) == CHOOSE p \in S : \A q \in S : Prefer(p, q)
FirstOf(g) == IF g = <<>> THEN none ELSE Head(g)

(* _select_mpath_connection: the primary, or the best successor of a stale *)
(* or missing one; with no fresh candidate any will do.                    *)
Stale(p) == rx[p] > opt.stale
Selected(g, current) ==
    LET fresh == {p \in ToSet(g) : ~Stale(p)}
        better == {p \in fresh : Pref(p) > Pref(current)} IN
    IF g = <<>> THEN none
    ELSE IF current = none \/ Stale(current)
         THEN Best(IF fresh = {} THEN ToSet(g) ELSE fresh)
    ELSE IF opt.preempt /\ better # {} THEN Best(better) ELSE current

(* _mfl_prune_one_idle: neighbors idle beyond the time to live.            *)
Idle(g) == {p \in ToSet(g) : opt.ttl > 0 /\ rx[p] >= opt.ttl}

(* Mutant: a stale primary yields to a path of higher preference only.     *)
EvaluatedByPreference(g, current) ==
    LET others == {p \in ToSet(g) \ {current} : rx[p] <= Wider(Windows.dead)}
        better == {p \in others : Pref(p) > Pref(current)} IN
    IF current = none THEN Selected(g, none)
    ELSE IF better # {} THEN Selected(g, current) ELSE current

(* _mfl_eval_primary and its two arms.  Only a change of the sweep's own   *)
(* resets last_primary_change, and the sweep waits a tick after one.       *)
Gone(p) == rx[p] > Wider(Windows.dead)
Evaluated(g, current) ==
    LET others == {p \in ToSet(g) \ {current} : ~Gone(p)}
        better == {p \in others : Pref(p) > Pref(current)} IN
    IF current = none THEN Selected(g, none)
    ELSE IF Gone(current)
         THEN IF others # {} /\ changed > 0 THEN Selected(g, current) ELSE current
    ELSE IF opt.preempt /\ better # {} /\ changed > 0 THEN Best(better) ELSE current

HasLivePath(g, seen) == \E p \in ToSet(g) : seen[p] <= Wider(Windows.live)

(* _register_mpath_connection (and for an inbound path the annotation with *)
(* its listener's preference that follows): last in the group, primary     *)
(* when there is none or when it preempts.                                 *)
Register(p) ==
    /\ group' = Append(group, p)
    /\ primary' = IF \/ primary = none
                     \/ opt.preempt /\ Pref(p) > Pref(primary)
                  THEN p ELSE primary
    /\ changed' = IF group = <<>> THEN 0 ELSE changed
    /\ rx' = [rx EXCEPT ![p] = 0]

(* Mutant: connections that still authenticate are overlooked.             *)
RetiredOpen(p) == {q \in Paths \ {p} : conn[q] = "open" /\ gen[q] # instance}

(* _retire_old_generation: the newcomer is the latest opened, so every     *)
(* connection of another instance is to be closed.                         *)
Retired(p) == {q \in Paths \ {p} : conn[q] # "none" /\ gen[q] # instance}
-----------------------------------------------------------------------------
(* Dialling and accepting.                                                 *)

(* _perform_client_handshake or _perform_server_handshake to their end.    *)
Greeted(p) ==
    /\ conn[p] = "none" /\ tail[p] = "no" /\ p \notin closing
    /\ conn' = [conn EXCEPT ![p] = IF opt.auth THEN "auth" ELSE "open"]
    /\ wire' = [wire EXCEPT ![p] = "up"]
    /\ gen' = [gen EXCEPT ![p] = instance]
    /\ task' = [task EXCEPT ![p] = "read"]
    /\ closing' = closing \cup Retired(p)
    /\ Register(p)
    /\ UNCHANGED <<opt, tail, live, clockVars, instance, leaving>>

(* _initiator_loop: refused, timed out, wrong fingerprint, bad greeting.   *)
DialFails(p) ==
    /\ p \in Out /\ task[p] = "dial"
    /\ task' = [task EXCEPT ![p] = "backoff"]
    /\ UNCHANGED <<opt, conn, wire, gen, rx, group, primary, changed, closing, tail,
                   live, clockVars, instance, leaving>>
DialDone(p) == p \in Out /\ task[p] = "dial" /\ Greeted(p)
Accept(p) == p \in In /\ task[p] = "off" /\ Greeted(p)

(* _il_backoff_retry *)
BackoffEnds(p) ==
    /\ p \in Out /\ task[p] = "backoff"
    /\ task' = [task EXCEPT ![p] = "dial"]
    /\ UNCHANGED <<opt, conn, wire, gen, rx, group, primary, changed, closing, tail,
                   live, clockVars, instance, leaving>>

(* The challenge, its response and AUTH:OK, or AUTH:ERROR and a close.     *)
AuthOk(p) ==
    /\ task[p] = "read" /\ conn[p] = "auth" /\ wire[p] = "up"
    /\ conn' = [conn EXCEPT ![p] = "open"]
    /\ rx' = [rx EXCEPT ![p] = 0]
    /\ live' = HasLivePath(group, rx')
    /\ UNCHANGED <<opt, task, wire, gen, group, primary, changed, closing, tail,
                   clockVars, instance, leaving>>
-----------------------------------------------------------------------------
(* Closing.                                                                *)

(* _close_connection up to its first await: out of the group, out of       *)
(* connections; a record that is gone leaves nothing to do.                *)
StartClose(p) ==
    /\ conn[p] # "none" /\ tail[p] = "no"
    /\ conn' = [conn EXCEPT ![p] = "none"]
    /\ group' = SelectSeq(group, LAMBDA q : q # p)
    /\ primary' = IF primary = p THEN FirstOf(group') ELSE primary
    /\ tail' = [tail EXCEPT ![p] = "drain"]
    /\ closing' = closing \ {p} /\ asked' = asked \ {p}
    /\ gen' = [gen EXCEPT ![p] = 0] /\ rx' = [rx EXCEPT ![p] = 0]
    /\ UNCHANGED <<opt, changed, live, due, swept, instance>>

(* _await_writer_closed: drained, or aborted by the watchdog when the peer *)
(* no longer answers.                                                      *)
WriterCloses(p) == wire[p] \in {"up", "eof", "silent"}

(* _cc_mark_peer_proxies: with no path left the proxies go offline one by  *)
(* one, otherwise their state is computed anew.                            *)
Drained(p) ==
    /\ tail[p] = "drain" /\ WriterCloses(p)
    /\ wire' = [wire EXCEPT ![p] = "down"]
    /\ tail' = [tail EXCEPT ![p] = IF group = <<>> THEN "mark" ELSE "no"]
    /\ live' = IF group = <<>> THEN live ELSE HasLivePath(group, rx)
    /\ UNCHANGED <<opt, task, conn, gen, rx, group, primary, changed, closing,
                   clockVars, instance, leaving>>
Marked(p) ==
    /\ tail[p] = "mark"
    /\ tail' = [tail EXCEPT ![p] = "no"]
    /\ live' = FALSE
    /\ UNCHANGED <<opt, task, conn, wire, gen, rx, group, primary, changed, closing,
                   clockVars, instance, leaving>>

(* A close task of the sweep or of a retirement; a control command that    *)
(* closes (AUTH:ERROR, MPATH:SHUTDOWN:BEGIN, MPATH:END), inside the read   *)
(* loop.                                                                   *)
Scheduled(p) == /\ p \in closing
                /\ StartClose(p)
                /\ UNCHANGED <<task, wire, leaving>>
Told(p) == /\ task[p] = "read" /\ wire[p] = "up"
           /\ StartClose(p)
           /\ task' = [task EXCEPT ![p] = "told"]
           /\ UNCHANGED <<wire, leaving>>

(* _read_loop: end of file, or the transport was closed under it.          *)
ReadEnds(p) ==
    /\ task[p] = "read"
    /\ \/ /\ wire[p] = "eof"
          /\ StartClose(p)
          /\ task' = [task EXCEPT ![p] = "leave"]
          /\ UNCHANGED <<wire, leaving>>
       \/ /\ conn[p] = "none" /\ wire[p] = "down"
          /\ task' = [task EXCEPT ![p] = "over"]
          /\ UNCHANGED <<opt, conn, wire, gen, rx, group, primary, changed, closing,
                         tail, live, clockVars, instance, leaving>>
Left(p) ==
    /\ task[p] \in {"leave", "told"} /\ tail[p] = "no"
    /\ task' = [task EXCEPT ![p] = "over"]
    /\ UNCHANGED <<opt, conn, wire, gen, rx, group, primary, changed, closing, tail,
                   live, clockVars, instance, leaving>>

(* _il_finish_session: at once after a long session, after a backoff       *)
(* otherwise.  The loop asks only whether the adapter stops.               *)
SessionOver(p) ==
    /\ task[p] = "over"
    /\ \E next \in (IF p \in Out THEN {"dial", "backoff"} ELSE {"off"}) :
           task' = [task EXCEPT ![p] = next]
    /\ UNCHANGED <<opt, conn, wire, gen, rx, group, primary, changed, closing, tail,
                   live, clockVars, instance, leaving>>
-----------------------------------------------------------------------------
(* Reconcile.                                                              *)

(* Task.cancel as each await of the loop takes it: dialling and sleeping   *)
(* end the loop, the read loop swallows it and closes; a close it cuts     *)
(* short ends with the loop, or, in a control command, before the next     *)
(* session.                                                                *)
Cancel(p) ==
    \/ /\ task[p] \in {"dial", "backoff", "over", "off"}
       /\ task' = [task EXCEPT ![p] = "off"]
       /\ UNCHANGED <<opt, conn, wire, gen, rx, group, primary, changed, closing, tail,
                      live, clockVars, instance>>
    \/ /\ task[p] = "read" /\ conn[p] # "none"
       /\ StartClose(p)
       /\ task' = [task EXCEPT ![p] = "leave"]
       /\ UNCHANGED wire
    \/ /\ task[p] = "read" /\ conn[p] = "none"
       /\ task' = [task EXCEPT ![p] = "over"]
       /\ UNCHANGED <<opt, conn, wire, gen, rx, group, primary, changed, closing, tail,
                      live, clockVars, instance>>
    \/ /\ task[p] \in {"leave", "told"} /\ tail[p] # "no"
       /\ task' = [task EXCEPT ![p] = IF task[p] = "told" THEN "over" ELSE "off"]
       /\ tail' = [tail EXCEPT ![p] = "no"]
       /\ wire' = [wire EXCEPT ![p] = "down"]
       /\ UNCHANGED <<opt, conn, gen, rx, group, primary, changed, closing,
                      live, clockVars, instance>>

(* _reconcile_initiators removes or restarts one: _stop_single_initiator   *)
(* cancels its task and waits for it; the next starts where this ends.     *)
Reconcile(p) ==
    /\ opt.reconcile /\ p \in Out /\ leaving = <<>>     \* ends for good with a removal
    /\ \E then \in {"remove", "restart"} : leaving' = <<p, then>>
    /\ Cancel(p)
StopsWaiting ==
    /\ Len(leaving) = 2 /\ task[leaving[1]] = "off"
    /\ task' = [task EXCEPT ![leaving[1]] =
                   IF leaving[2] = "restart" THEN "dial" ELSE "off"]
    /\ leaving' = IF leaving[2] = "restart" THEN <<>> ELSE <<"removed">>
    /\ UNCHANGED <<opt, conn, wire, gen, rx, group, primary, changed, closing, tail,
                   live, clockVars, instance>>
-----------------------------------------------------------------------------
(* Heartbeats, frames and the sweep.                                       *)

(* _hb_check_timeout: a REQ unanswered for more than 2.5 intervals counts  *)
(* as a miss.  It runs right after last_req_ts was set to now.             *)
Missed(sinceRequest) == sinceRequest > Windows.dead

(* Mutant: what is sent counts as activity.                                *)
HeartbeatCounts ==
    /\ due
    /\ due' = FALSE
    /\ asked' = {p \in Paths : conn[p] = "open" /\ wire[p] = "up"}
    /\ rx' = [p \in Paths |-> 0]
    /\ live' = IF group = <<>> THEN live ELSE TRUE
    /\ UNCHANGED <<opt, task, conn, wire, gen, group, primary, changed, closing,
                   tail, swept, instance, leaving>>

(* _heartbeat_tick: a REQ on every connection, then the proxies' state.    *)
Heartbeat ==
    /\ due
    /\ due' = FALSE
    /\ asked' = {p \in Paths : conn[p] = "open" /\ wire[p] = "up"}
    /\ closing' = IF Missed(0) THEN closing \cup {p \in Paths : conn[p] # "none"}
                              ELSE closing
    /\ live' = IF \A p \in Paths : conn[p] = "none" THEN live
               ELSE HasLivePath(group, rx)
    /\ UNCHANGED <<opt, task, conn, wire, gen, rx, group, primary, changed, tail,
                   swept, instance, leaving>>

(* The handlers of control, data, open and heartbeat frames: the path is   *)
(* seen.  A data ACK refreshes nothing.                                    *)
Frame(p) ==
    /\ task[p] = "read" /\ conn[p] = "open" /\ wire[p] = "up"
    /\ rx' = IF p \in Members THEN [rx EXCEPT ![p] = 0] ELSE rx
    /\ live' = HasLivePath(group, rx')
    /\ asked' = asked \ {p}
    /\ UNCHANGED <<opt, linkVars, group, primary, changed, due, swept, instance>>
Answer(p) == p \in asked /\ Frame(p)

(* Anything sent to the peer selects a path first.                         *)
Send ==
    /\ group # <<>>
    /\ primary' = Selected(group, primary)
    /\ UNCHANGED <<opt, linkVars, rx, group, changed, live, clockVars, instance>>

(* _mfl_sweep_once: idle neighbors leave the group and are closed, then    *)
(* the primary is evaluated.                                               *)
Sweep ==
    LET idle == Idle(group)
        kept == SelectSeq(group, LAMBDA p : p \notin idle)
        left == IF primary \in idle THEN FirstOf(kept) ELSE primary IN
    /\ swept' = (~due /\ asked = {})
    /\ group' = kept
    /\ closing' = closing \cup idle
    /\ primary' = Evaluated(kept, left)
    /\ changed' = IF left # none /\ primary' # left THEN 0 ELSE changed
    /\ UNCHANGED <<opt, task, conn, wire, gen, rx, tail, live, due, asked,
                   instance, leaving>>

(* Time.  A tick passes when what was due in the last one is done: live    *)
(* paths have answered, and the sweep, which runs many times in a tick,    *)
(* has run after that.                                                     *)
Aged(n) == IF n < MaxAge THEN n + 1 ELSE n
Tick ==
    /\ ~due /\ swept
    /\ asked = {}
    /\ due' = TRUE /\ swept' = FALSE
    /\ rx' = [p \in Paths |-> IF conn[p] = "none" THEN 0 ELSE Aged(rx[p])]
    /\ changed' = IF changed = 0 THEN 1 ELSE changed
    /\ UNCHANGED <<opt, linkVars, group, primary, live, asked, instance>>
-----------------------------------------------------------------------------
(* The network and the peer.                                               *)
Becomes(p, state) ==
    /\ wire' = [wire EXCEPT ![p] = state] /\ asked' = asked \ {p}
    /\ UNCHANGED <<opt, task, conn, gen, rx, group, primary, changed, closing, tail,
                   live, due, swept, instance, leaving>>
Cut(p) == wire[p] = "up" /\ conn[p] # "none" /\ Becomes(p, "silent")
Reset(p) == wire[p] \in {"up", "silent"} /\ conn[p] # "none" /\ Becomes(p, "eof")

(* The peer restarts: its old connections are gone, told or not.           *)
PeerRestarts ==
    /\ instance < opt.restarts
    /\ instance' = instance + 1
    /\ \E end \in {"silent", "eof"} :
           wire' = [p \in Paths |-> IF wire[p] = "up" THEN end ELSE wire[p]]
    /\ asked' = {}
    /\ UNCHANGED <<opt, task, conn, gen, rx, group, primary, changed, closing, tail,
                   live, due, swept, leaving>>

Loop(p) == \/ DialFails(p) \/ DialDone(p) \/ BackoffEnds(p)
           \/ Drained(p) \/ Marked(p) \/ Scheduled(p)
           \/ ReadEnds(p) \/ Left(p) \/ SessionOver(p) \/ Answer(p)

Next == \/ \E p \in Paths :
              \/ Loop(p) \/ Accept(p) \/ AuthOk(p) \/ Told(p) \/ Frame(p)
              \/ Reconcile(p) \/ Cut(p) \/ Reset(p)
        \/ StopsWaiting \/ Heartbeat \/ Send \/ Sweep \/ Tick \/ PeerRestarts

(* The event loop runs what is ready and the timers fire.                  *)
Fairness == /\ \A p \in Paths : WF_vars(Loop(p))
            /\ WF_vars(StopsWaiting) /\ WF_vars(Heartbeat)
            /\ WF_vars(~swept /\ Sweep) /\ WF_vars(Tick)

Spec == Init /\ [][Next]_vars /\ Fairness
-----------------------------------------------------------------------------
(* _retire_old_generation: connections of two instances of the peer are    *)
(* never both kept; the older has its close scheduled.                     *)
OneGeneration ==
    \A p, q \in Paths : conn[p] # "none" /\ conn[q] # "none" /\ gen[p] < gen[q]
                            => p \in closing

(* _mpath_failover_loop: while some path stays good, the primary is, again *)
(* and again, a path that works, and the ports are shown connected.        *)
FailsOver ==
    \A p \in Paths :
        <>[](p \in Members /\ conn[p] = "open" /\ wire[p] = "up")
            => []<>(primary \in Paths /\ wire[primary] = "up") /\ []<>live

(* _mfl_prune_one_idle: a path that went silent is dropped in the end,     *)
(* although heartbeats are sent on it all the time.                        *)
SilentIsDropped ==
    \A p \in Paths : (opt.ttl > 0 /\ wire[p] = "silent" /\ conn[p] # "none")
                         ~> (wire[p] # "silent" \/ conn[p] = "none")

(* _stop_single_initiator: "Cancel one initiator's dial loop task"; the    *)
(* reconcile that awaits it goes on.                                       *)
RemovalEnds == (Len(leaving) = 2) ~> (Len(leaving) # 2)
=============================================================================
