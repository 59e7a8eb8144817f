---------------------------- MODULE ListenerKeys -----------------------------
(***************************************************************************)
(* The keys of a Telnet or SSH session: they arrive in chunks of any size, *)
(* the escape sequence opens the Control menu, its command e takes the two *)
(* keys of another sequence, and the rest goes to the port while the       *)
(* session drives.                                                         *)
(*                                                                         *)
(* kept is what became of each key, in their order: it was forwarded, shut *)
(* out by the gate, part of a menu command, or part of a new sequence.     *)
(***************************************************************************)
EXTENDS Naturals, Sequences

CONSTANTS MaxKeys,   \* bound: keys typed
          MaxMode    \* bound: changes of the mode

Keys == {"E", "c", "e", "x"}   \* the escape sequence, its own command, and another

VARIABLES
  over,      \* the transport, Telnet or SSH
  typed,     \* every key
  wire,      \* those not read yet
  chunk,     \* those read and not looked at
  state,     \* EscapeState.state, or "change" while readexactly waits
  esc,       \* the two keys of the sequence
  seen,      \* the keys the state stands for
  payload,   \* for the port, when the chunk or a command ends it
  drives, modes,
  kept, ended

input == <<over, typed, wire>>
vars == <<input, chunk, state, esc, seen, payload, drives, modes, kept, ended>>

TypeOK ==
    /\ over \in {"telnet", "ssh"} /\ typed \in Seq(Keys) /\ wire \in Seq(Keys)
    /\ chunk \in Seq(Keys) /\ payload \in Seq(Keys) /\ seen \in Seq(Keys)
    /\ state \in {"plain", "one", "two", "change"}
    /\ esc \in Keys \X Keys
    /\ drives \in BOOLEAN /\ modes \in 0..MaxMode /\ ended \in BOOLEAN
    /\ kept \in Seq([as : {"port", "gate", "menu", "sequence"}, key : Keys])

Init ==
    /\ over \in {"telnet", "ssh"} /\ typed = <<>> /\ wire = <<>>
    /\ chunk = <<>> /\ state = "plain" /\ esc = <<"E", "c">> /\ seen = <<>>
    /\ payload = <<>> /\ drives \in BOOLEAN /\ modes = 0 /\ kept = <<>> /\ ended = FALSE

Type(k) ==
    /\ Len(typed) < MaxKeys /\ typed' = Append(typed, k) /\ wire' = Append(wire, k)
    /\ UNCHANGED <<over, chunk, state, esc, seen, payload, drives, modes, kept, ended>>

\* A frame or a decision changes port_mode.
ModeChanges ==
    /\ modes < MaxMode /\ modes' = modes + 1 /\ drives' = ~drives
    /\ UNCHANGED <<input, chunk, state, esc, seen, payload, kept, ended>>

Take(n) == wire' = SubSeq(wire, n + 1, Len(wire)) /\ UNCHANGED <<over, typed>>

\* pump: the next chunk is read when the last one is done.
Read ==
    /\ ~ended /\ chunk = <<>> /\ payload = <<>> /\ state # "change"
    /\ \E n \in 1..Len(wire) : chunk' = SubSeq(wire, 1, n) /\ Take(n)
    /\ UNCHANGED <<state, esc, seen, payload, drives, modes, kept, ended>>

Kept(as, keys) == kept' = kept \o [i \in 1..Len(keys) |-> [as |-> as, key |-> keys[i]]]

\* _forward_payload, which the read-only gate answers with a warning.
Forward(p) == IF p = <<>> THEN UNCHANGED kept
              ELSE Kept(IF drives THEN "port" ELSE "gate", p)

\* Mutant: a first key that no second follows is swallowed.
ByteSwallowed(k) ==
    \/ state = "plain" /\ k = esc[1] /\ state' = "one" /\ UNCHANGED payload
    \/ state = "plain" /\ k # esc[1] /\ payload' = Append(payload, k) /\ UNCHANGED state
    \/ state = "one" /\ k = esc[2] /\ state' = "two" /\ UNCHANGED payload
    \/ state = "one" /\ k # esc[2] /\ state' = "plain" /\ payload' = Append(payload, k)

\* feed_escape_byte: a first key that no second follows is data, with the
\* key that came instead.
Byte(k) ==
    \/ state = "plain" /\ k = esc[1] /\ state' = "one" /\ UNCHANGED payload
    \/ state = "plain" /\ k # esc[1] /\ payload' = Append(payload, k) /\ UNCHANGED state
    \/ state = "one" /\ k = esc[2] /\ state' = "two" /\ UNCHANGED payload
    \/ state = "one" /\ k # esc[2] /\ state' = "plain" /\ payload' = payload \o <<esc[1], k>>

\* _process_input_chunk, for a key that completes no command.
Scan ==
    /\ ~ended /\ chunk # <<>> /\ state \in {"plain", "one"}
    /\ chunk' = Tail(chunk)
    /\ Byte(Head(chunk))
    /\ seen' = IF state' = "plain" THEN <<>> ELSE Append(seen, Head(chunk))
    /\ UNCHANGED <<input, esc, drives, modes, kept, ended>>

\* The payload in front of a command goes first.
ForwardFirst ==
    /\ ~ended /\ payload # <<>> /\ payload' = <<>> /\ Forward(payload)
    /\ chunk = <<>> \/ state = "two"
    /\ UNCHANGED <<input, chunk, state, esc, seen, drives, modes, ended>>

\* _handle_control_command; the command "." ends the session.
Command ==
    /\ ~ended /\ state = "two" /\ chunk # <<>> /\ payload = <<>>
    /\ LET k == Head(chunk)
       IN  IF k = "e" THEN /\ state' = "change" /\ seen' = Append(seen, k)
                           /\ UNCHANGED <<kept, ended>>
           ELSE /\ state' = "plain" /\ seen' = <<>> /\ Kept("menu", Append(seen, k))
                /\ ended' \in (IF k = "x" THEN BOOLEAN ELSE {FALSE})
    /\ chunk' = Tail(chunk)
    /\ UNCHANGED <<input, esc, payload, drives, modes>>

\* _change_escape_sequence with the two keys k.
NewSequence(k) ==
    /\ esc' = <<k[1], k[2]>> /\ state' = "plain" /\ seen' = <<>>
    /\ Kept("sequence", seen \o k)

Change ==
    /\ ~ended /\ state = "change"
    /\ LET short == 2 - Len(chunk)
       IN  \/ /\ Len(chunk) >= 2 /\ NewSequence(SubSeq(chunk, 1, 2))
              /\ chunk' = SubSeq(chunk, 3, Len(chunk)) /\ UNCHANGED input
           \/ \* readexactly of the Telnet stream waits for them all
              /\ Len(chunk) < 2 /\ over = "telnet" /\ Len(wire) >= short
              /\ NewSequence(chunk \o SubSeq(wire, 1, short))
              /\ chunk' = <<>> /\ Take(short)
           \/ \* readexactly of the SSH process takes what is there
              /\ Len(chunk) < 2 /\ over = "ssh" /\ wire # <<>>
              /\ \E n \in 1..short :
                    /\ n <= Len(wire) /\ Take(n) /\ chunk' = <<>>
                    /\ IF n = short THEN NewSequence(chunk \o SubSeq(wire, 1, n))
                       ELSE state' = "plain" /\ seen' = <<>> /\ UNCHANGED <<esc, kept>>
    /\ UNCHANGED <<payload, drives, modes, ended>>

Next == \/ Read \/ Scan \/ ForwardFirst \/ Command \/ Change \/ ModeChanges
        \/ \E k \in Keys : Type(k)

Spec == Init /\ [][Next]_vars
-----------------------------------------------------------------------------
Accounted == [i \in 1..Len(kept) |-> kept[i].key] \o payload \o seen \o chunk \o wire

\* The key lost to a short read of an SSH process.
NoShortRead == over = "telnet"

(* feed_escape_byte, _process_input_chunk and _change_escape_sequence over *)
(* any cut into chunks: every key a Telnet user typed went to the port or  *)
(* the read-only gate, was a command, or named the new sequence, once and  *)
(* in the order typed; no key is lost or taken twice at a chunk's edge.    *)
EveryKeyOnce == NoShortRead => Accounted = typed

(* SessionTransport.readexactly: "Read exactly n bytes (used by the e      *)
(* command to take two bytes)" (listener_session.py:74), over SSH as well. *)
EveryKeyCounts == Accounted = typed
=============================================================================
