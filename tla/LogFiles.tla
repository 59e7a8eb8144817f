------------------------------ MODULE LogFiles -------------------------------
(***************************************************************************)
(* DataLogger: what a port sends is put into one queue, copied for the     *)
(* Action run that has the port, and written by one task, a line at a      *)
(* time, to the files of the current directory.                            *)
(*                                                                         *)
(* A chunk is the odd piece 2n-1 of the console's stream, or a line end    *)
(* between the pieces 2n-1 and 2n.  The ghosts are due, which pieces       *)
(* belong into a log, lost, the ones dropped on purpose, and runs.         *)
(***************************************************************************)
EXTENDS Naturals, Sequences, SequencesExt

CONSTANTS Dirs,
          QueueSize,    \* 1000 in the code
          MaxChunks,    \* bound: chunks
          MaxRuns,      \* bound: runs on the port
          MaxMoves      \* bound: changes of the directory and closes

VARIABLES
  queue,
  writing,  \* the writer task runs
  dir,      \* base_dir
  files,    \* what each file holds
  buffers,  \* _line_buffers
  mirror,   \* _mirror_map of the port: a run, or 0
  runs,     \* the runs that have begun and not ended
  begun, chunks, moves,
  due, lost

ghosts == <<due, lost>>
bounds == <<begun, chunks, moves>>
vars == <<queue, writing, dir, files, buffers, mirror, runs, bounds, ghosts>>

Port == 0
Logs == 0..MaxRuns   \* the port's own log, and those of the runs
Pieces == 1..2 * MaxChunks
Kinds == {"part", "end", "split"}   \* no line end, at the end, in the middle

TypeOK ==
    /\ queue \in Seq([log : Logs, kind : Kinds, n : 1..MaxChunks])
    /\ writing \in BOOLEAN /\ dir \in Dirs
    /\ files \in [Dirs -> [Logs -> Seq(Pieces)]]
    /\ buffers \in [Dirs -> [Logs -> Seq(Pieces)]]
    /\ mirror \in Logs /\ runs \subseteq 1..MaxRuns
    /\ begun \in 0..MaxRuns /\ chunks \in 0..MaxChunks /\ moves \in 0..MaxMoves
    /\ due \in [Logs -> SUBSET Pieces] /\ lost \in [Logs -> SUBSET Pieces]

Empty == [d \in Dirs |-> [l \in Logs |-> <<>>]]

Init ==
    /\ queue = <<>> /\ writing = FALSE /\ dir \in Dirs
    /\ files = Empty /\ buffers = Empty
    /\ mirror = 0 /\ runs = {} /\ begun = 0 /\ chunks = 0 /\ moves = 0
    /\ due = [l \in Logs |-> {}] /\ lost = [l \in Logs |-> {}]

PiecesOf(ev) == IF ev.kind = "split" THEN <<2 * ev.n - 1, 2 * ev.n>> ELSE <<2 * ev.n - 1>>

\* What waits for a log.
InQueue(l) == UNION {ToSet(PiecesOf(ev)) : ev \in {e \in ToSet(queue) : e.log = l}}

\* The log a run should get is the latest run's, while it lasts.
Wanted == {Port} \cup {r \in runs : r = begun}

-----------------------------------------------------------------------------
\* put_nowait, twice, with the loss of what finds the queue full.
Queued(evs) ==
    LET room == QueueSize - Len(queue)
        in == SubSeq(evs, 1, IF Len(evs) < room THEN Len(evs) ELSE room)
        out == SubSeq(evs, Len(in) + 1, Len(evs))
    IN  /\ queue' = queue \o in
        /\ lost' = [l \in Logs |-> lost[l] \cup UNION {ToSet(PiecesOf(ev)) :
                                                  ev \in {e \in ToSet(out) : e.log = l}}]

\* record: the copy is for the run the mirror names.
Record(kind) ==
    /\ chunks < MaxChunks /\ chunks' = chunks + 1 /\ writing' = TRUE
    /\ LET ev == [log |-> Port, kind |-> kind, n |-> chunks']
           copy == [ev EXCEPT !.log = mirror]
       IN  /\ Queued(IF mirror = 0 THEN <<ev>> ELSE <<ev, copy>>)
           /\ due' = [l \in Logs |-> IF l \in Wanted THEN due[l] \cup ToSet(PiecesOf(ev))
                                     ELSE due[l]]
    /\ UNCHANGED <<dir, files, buffers, mirror, runs, begun, moves>>

\* Mutant: the line that is written takes the rest of the buffer with it.
WriteAll ==
    /\ writing /\ queue # <<>> /\ queue' = Tail(queue)
    /\ LET ev == Head(queue)
           buf == Append(buffers[dir][ev.log], 2 * ev.n - 1)
       IN  IF ev.kind = "part"
           THEN buffers' = [buffers EXCEPT ![dir][ev.log] = buf] /\ UNCHANGED files
           ELSE /\ files' = [files EXCEPT ![dir][ev.log] = @ \o buf]
                /\ buffers' = [buffers EXCEPT ![dir][ev.log] = <<>>]
    /\ UNCHANGED <<writing, dir, mirror, runs, bounds, ghosts>>

\* One turn of _writer_loop and _write_line_record.
Write ==
    /\ writing /\ queue # <<>> /\ queue' = Tail(queue)
    /\ LET ev == Head(queue)
           buf == Append(buffers[dir][ev.log], 2 * ev.n - 1)
       IN  IF ev.kind = "part"
           THEN buffers' = [buffers EXCEPT ![dir][ev.log] = buf] /\ UNCHANGED files
           ELSE /\ files' = [files EXCEPT ![dir][ev.log] = @ \o buf]
                /\ buffers' = [buffers EXCEPT ![dir][ev.log] = Tail(PiecesOf(ev))]
    /\ UNCHANGED <<writing, dir, mirror, runs, bounds, ghosts>>

-----------------------------------------------------------------------------
(* ActionRunner *)

\* set_mirror.
Begin ==
    /\ begun < MaxRuns /\ begun' = begun + 1 /\ mirror' = begun' /\ runs' = runs \cup {begun'}
    /\ UNCHANGED <<queue, writing, dir, files, buffers, chunks, moves, ghosts>>

\* clear_mirror, which leaves a newer run's mirror alone.
End(r) ==
    /\ r \in runs /\ runs' = runs \ {r}
    /\ mirror' = IF mirror = r THEN 0 ELSE mirror
    /\ UNCHANGED <<queue, writing, dir, files, buffers, bounds, ghosts>>

-----------------------------------------------------------------------------
Forgets(d) ==
    /\ buffers' = [buffers EXCEPT ![d] = [l \in Logs |-> <<>>]]
    /\ lost' = [l \in Logs |-> lost[l] \cup ToSet(buffers[d][l])]

\* set_base_dir: the partial lines under an absolute directory go with its
\* handles; those under a relative one are not recognised and stay.
Move ==
    /\ moves < MaxMoves /\ moves' = moves + 1 /\ \E d \in Dirs \ {dir} : dir' = d
    /\ Forgets(dir) \/ UNCHANGED <<buffers, lost>>
    /\ UNCHANGED <<queue, writing, files, mirror, runs, begun, chunks, due>>

\* close: the queue and the partial lines are dropped; a later record starts
\* another writer.
Close ==
    /\ moves < MaxMoves /\ moves' = moves + 1 /\ writing' = FALSE
    /\ queue' = <<>> /\ buffers' = Empty
    /\ lost' = [l \in Logs |->
                    lost[l] \cup (UNION {ToSet(buffers[d][l]) : d \in Dirs}) \cup InQueue(l)]
    /\ UNCHANGED <<dir, files, mirror, runs, begun, chunks, due>>

Next == \/ Write \/ Begin \/ Move \/ Close
        \/ \E k \in Kinds : Record(k)
        \/ \E r \in 1..MaxRuns : End(r)

Spec == Init /\ [][Next]_vars
-----------------------------------------------------------------------------
Rising(s) == \A i \in 1..Len(s) - 1 : s[i] < s[i + 1]

Held(d, l) == ToSet(files[d][l]) \cup ToSet(buffers[d][l])

(* A port's log, and the transcript of a run ("a self-contained record of  *)
(* the device conversation", runner.py:516), hold every piece that is due, *)
(* once and in its order, unless the queue was full, the directory changed *)
(* or the logger was closed: nothing else loses, doubles or swaps a piece. *)
LogsAreFaithful ==
    \A l \in Logs :
        /\ \A d \in Dirs : Rising(files[d][l] \o buffers[d][l])
        /\ \A d, e \in Dirs : d # e => Held(d, l) \cap Held(e, l) = {}
        /\ due[l] = (UNION {Held(d, l) : d \in Dirs}) \cup InQueue(l) \cup lost[l]
=============================================================================
