--------------------------- MODULE SessionsProofs ---------------------------
(***************************************************************************)
(* The configuration editor and the meta frames of the web console, for    *)
(* any number of editors, edits, sockets, changes and lost links.          *)
(*                                                                         *)
(* SavesKeepTheRest needs of the state before a save only that the two     *)
(* files are records of a readable flag and a content, so that a torn      *)
(* write keeps the content it tore; the rest is the argument of one save.  *)
(*                                                                         *)
(* MetaEndsFresh follows from what is on its way to a subscriber that has  *)
(* not seen the ports as they are: a timer, a task or a broadcast that     *)
(* will show them to it (Coming).                                          *)
(***************************************************************************)
EXTENDS MCSessions, Sequences, TLAPS

TwoFields(file) == \E S : file \in [readable : BOOLEAN, holds : S]
Records == TwoFields(server) /\ TwoFields(auth)

LEMMA TornIsAFile ==
    ASSUME NEW file, TwoFields(file)
    PROVE  LET torn == [file EXCEPT !.readable = FALSE]
           IN  TwoFields(torn) /\ torn.holds = file.holds
<1>1. PICK S : file \in [readable : BOOLEAN, holds : S]
  BY DEF TwoFields
<1>2. [file EXCEPT !.readable = FALSE] \in [readable : BOOLEAN, holds : S]
  BY <1>1
<1>3. [file EXCEPT !.readable = FALSE].holds = file.holds
  BY <1>1
<1>4. QED
  BY <1>2, <1>3 DEF TwoFields

LEMMA MadeIsAFile ==
    ASSUME NEW c PROVE TwoFields([readable |-> TRUE, holds |-> c])
<1>1. [readable |-> TRUE, holds |-> c] \in [readable : BOOLEAN, holds : {c}]
  OBVIOUS
<1>2. QED
  BY <1>1 DEF TwoFields

LEMMA InitEstablishes == Init => Records
  BY MadeIsAFile DEF Init, Records

(* A save, an edit by hand and a slip of the hand leave files behind.      *)
LEMMA StepPreserves == Records /\ [Next]_vars => Records'
<1> SUFFICES ASSUME Records, [Next]_vars PROVE Records'
  OBVIOUS
<1> USE DEF Records
<1>1. ASSUME UNCHANGED <<server, auth>> PROVE Records'
  BY <1>1
<1>2. ASSUME NEW e \in Editors, Save(e) PROVE Records'
  <2>1. PICK c : Written(e, c) \/ Breaks(e, c) \/ UNCHANGED <<server, auth>>
    BY <1>2 DEF Save
  <2>2. QED
    BY <1>1, <2>1, TornIsAFile, MadeIsAFile DEF Written, Breaks, Wrote
<1>3. ASSUME NEW k, NEW v, ByHand(k, v) PROVE Records'
  BY <1>3, MadeIsAFile DEF ByHand
<1>4. CASE Slip
  BY <1>4, TornIsAFile DEF Slip
<1>5. CASE Reload \/ Start
  BY <1>1, <1>5 DEF Reload, Start
<1>6. ASSUME NEW e, NEW k, NEW v, Open(e) \/ Type(e, k, v) PROVE Records'
  BY <1>1, <1>6 DEF Open, Type
<1>7. ASSUME NEW p, PolicyChanges(p) PROVE Records'
  BY <1>1, <1>7 DEF PolicyChanges
<1>8. CASE UNCHANGED vars
  BY <1>1, <1>8 DEF vars
<1>9. QED
  BY <1>2, <1>3, <1>4, <1>5, <1>6, <1>7, <1>8 DEF Next

-----------------------------------------------------------------------------
(* _prepare_payload_for_save: a mask becomes the stored secret, and a key  *)
(* without a field its stored value.                                       *)
LEMMA MaskRestored ==
    ASSUME NEW f, f["secret"] = mask, Prepared(f)["secret"] # empty
    PROVE  Prepared(f)["secret"] = memory["secret"]
<1>1. "secret" \in Keys /\ f["secret"] # removed
  BY DEF Keys, Sections, mask, removed
<1>2. Prepared(f)["secret"] = IF memory["secret"] = "none" THEN empty ELSE memory["secret"]
  BY <1>1, Zenon DEF Prepared
<1>3. QED
  BY <1>2

LEMMA KeptRestored ==
    ASSUME NEW f, f["page"] # "none", memory["page"] # "none"
    PROVE  Prepared(f)["kept"] = memory["kept"]
  BY DEF Prepared, Keys, Sections

LEMMA LockedAllowed ==
    ASSUME NEW c, Policy = "strict", ~Disallowed(c)
    PROVE  c["locked"] = memory["locked"]
  BY DEF Disallowed, Modified, Sections

(* What the two files hold afterwards: what they held, or what was         *)
(* prepared; and the password file is replaced only when a save ends well. *)
LEMMA FilesAfter ==
    ASSUME Records, NEW e \in Editors, Save(e)
    PROVE  LET c == Prepared(form[e]) IN
           \/ server'.holds = server.holds /\ auth'.holds = auth.holds
           \/ /\ Valid(c) /\ ~Disallowed(c)
              /\ server'.holds = [k \in Ours |-> c[k]]
              /\ auth'.holds = auth.holds \/ auth'.holds = c["secret"]
<1> DEFINE c == Prepared(form[e])
<1>1. CASE Valid(c) /\ ~Disallowed(c) /\ Written(e, c)
  BY <1>1 DEF Written, Wrote
<1>2. CASE Valid(c) /\ ~Disallowed(c) /\ Breaks(e, c)
  <2>1. server' = server \/ server'.holds = server.holds \/ Wrote(c)
    BY <1>2, TornIsAFile DEF Breaks, Records
  <2>2. auth' = auth \/ auth'.holds = auth.holds
    BY <1>2, TornIsAFile DEF Breaks, Records
  <2>3. QED
    BY <1>2, <2>1, <2>2 DEF Wrote
<1>3. CASE UNCHANGED <<server, auth>>
  BY <1>3
<1>4. QED
  BY <1>1, <1>2, <1>3 DEF Save

(* One save keeps the rest.                                                *)
LEMMA SaveKeeps ==
    ASSUME Records, NEW e \in Editors, Save(e), InStep
    PROVE  /\ answer'[e] = "saved" /\ form[e]["secret"] = mask =>
                 auth'.holds = auth.holds
           /\ answer'[e] = "saved" /\ form[e]["page"] # "none"
                /\ server.holds["page"] # "none" =>
                 server'.holds["kept"] = server.holds["kept"]
           /\ Policy = "strict" => server'.holds["locked"] = server.holds["locked"]
<1> DEFINE c == Prepared(form[e])
<1>1. /\ memory["secret"] = auth.holds
      /\ \A k \in Ours : memory[k] = server.holds[k]
  BY DEF InStep, OnDisk, Keys, Ours, Sections
<1>2. "page" \in Ours /\ "kept" \in Ours /\ "locked" \in Ours
  BY DEF Ours, Keys, Sections
<1>3. CASE server'.holds = server.holds /\ auth'.holds = auth.holds
  BY <1>3
<1>4. CASE /\ Valid(c) /\ ~Disallowed(c)
           /\ server'.holds = [k \in Ours |-> c[k]]
           /\ auth'.holds = auth.holds \/ auth'.holds = c["secret"]
  <2>1. form[e]["secret"] = mask => c["secret"] = auth.holds
    BY <1>1, <1>4, MaskRestored DEF Valid
  <2>2. form[e]["page"] # "none" /\ server.holds["page"] # "none"
          => c["kept"] = server.holds["kept"]
    BY <1>1, <1>2, KeptRestored
  <2>3. Policy = "strict" => c["locked"] = server.holds["locked"]
    BY <1>1, <1>2, <1>4, LockedAllowed
  <2>4. QED
    BY <1>2, <1>4, <2>1, <2>2, <2>3
<1>5. QED
  BY <1>3, <1>4, FilesAfter

(* _prepare_payload_for_save and _enforce_writable_sections: as long as    *)
(* the server's copy is what the files hold, a save from however old a     *)
(* form, and one that breaks off half-way too, keeps a masked secret, the  *)
(* key without a field and, under the strict policy, the locked section.   *)
THEOREM SavesKeepWhatTheyDoNotShow == Spec => SavesKeepTheRest
<1>1. Records => \A e \in Editors :
         Save(e) /\ InStep =>
            /\ answer'[e] = "saved" /\ form[e]["secret"] = mask =>
                  auth'.holds = auth.holds
            /\ answer'[e] = "saved" /\ form[e]["page"] # "none"
                 /\ server.holds["page"] # "none" =>
                  server'.holds["kept"] = server.holds["kept"]
            /\ Policy = "strict" => server'.holds["locked"] = server.holds["locked"]
  BY SaveKeeps
<1>2. QED
  BY InitEstablishes, StepPreserves, <1>1, PTL DEF Spec, SavesKeepTheRest
-----------------------------------------------------------------------------
(* The meta frames *)

MetaShape ==
  /\ version \in 0..MaxChanges
  /\ tasks \in Seq(0..MaxChanges \cup {Web!Live}) /\ timers \in Nat
  /\ \A i \in 1..Len(tasks) : tasks[i] = Web!Live \/ tasks[i] <= version
  /\ seen \in [Sockets -> 0..MaxChanges] /\ \A s \in Sockets : seen[s] <= version
  /\ subs \subseteq Sockets /\ held \subseteq Sockets /\ overtaken \subseteq Sockets
  /\ link \in [Sockets -> {"new", "open", "lost", "closed"}]
  /\ handler \in [Sockets -> {"none", "attaching", "joining", "reading", "leaving", "gone"}]
  /\ \A c \in casts : /\ c = [meta |-> c.meta, todo |-> c.todo, for |-> c.for]
                       /\ c.meta \in 0..version /\ c.todo \subseteq Sockets

Shown(m) == IF m = Web!Live THEN version ELSE m
TaskComing == \E i \in 1..Len(tasks) : Shown(tasks[i]) = version
CastComing(s) == \E c \in casts : c.meta = version /\ s \in c.todo
Coming(s) == timers > 0 \/ TaskComing \/ CastComing(s)

(* A socket that subscribes and can be written to has seen the ports as    *)
(* they are, was overtaken, or will be shown them.                         *)
Fresh == \A s \in subs : s \in held /\ link[s] = "open" /\ s \notin overtaken =>
             seen[s] = version \/ Coming(s)

(* A socket is used once.                                                  *)
UsedOnce == \A s \in Sockets :
               /\ link[s] = "new" => handler[s] = "none"
               /\ handler[s] = "none" => s \notin subs

MetaInv == MetaShape /\ Fresh /\ UsedOnce

LEMMA MetaBegins == Web!Init => MetaInv
<1> SUFFICES ASSUME Web!Init PROVE MetaInv
  OBVIOUS
<1>1. /\ version = 0 /\ tasks = <<>> /\ timers = 0 /\ casts = {} /\ subs = {} /\ held = {}
      /\ overtaken = {} /\ seen = [s \in Sockets |-> 0] /\ link = [s \in Sockets |-> "new"]
      /\ handler = [s \in Sockets |-> "none"]
  BY DEF Web!Init
<1>2. MetaShape
  BY <1>1, SessionsAssumption DEF MetaShape
<1> QED
  BY <1>1, <1>2 DEF MetaInv, Fresh, UsedOnce

\* Nothing but links, handlers and subscriptions that end.
LEMMA LinksChange ==
  ASSUME MetaInv, UNCHANGED <<version, tasks, timers, casts>>, subs' \subseteq subs,
         held' \subseteq Sockets, overtaken' \subseteq Sockets,
         link' \in [Sockets -> {"new", "open", "lost", "closed"}],
         handler' \in [Sockets -> {"none", "attaching", "joining", "reading", "leaving", "gone"}],
         seen' \in [Sockets -> 0..MaxChanges],
         \A s \in Sockets :
            /\ link'[s] = "new" => handler'[s] = "none"
            /\ handler'[s] = "none" => handler[s] = "none"
            /\ seen'[s] <= version
            /\ s \in subs' /\ s \in held' /\ link'[s] = "open" /\ s \notin overtaken' =>
                 /\ s \in held /\ link[s] = "open" /\ s \notin overtaken
                 /\ seen'[s] = seen[s]
  PROVE  MetaInv'
<1>1. MetaShape'
  BY DEF MetaInv, MetaShape
<1>2. Fresh'
  BY DEF MetaInv, MetaShape, Fresh, Coming, TaskComing, CastComing, Shown
<1>3. UsedOnce'
  BY DEF MetaInv, UsedOnce
<1> QED
  BY <1>1, <1>2, <1>3 DEF MetaInv

LEMMA SocketsKeep ==
  ASSUME MetaInv, NEW s \in Sockets,
         \/ Web!Connect(s) \/ Web!Joined(s) \/ Web!SeesClose(s) \/ Web!Gone(s)
         \/ Web!DropSocket(s) \/ Web!OutputFails(s)
  PROVE  MetaInv'
<1> USE DEF Web!Elsewhere, Web!metaVars, Web!ghosts, MetaInv, MetaShape, UsedOnce
<1>1. CASE Web!Connect(s)
  <2>1. /\ UNCHANGED <<version, tasks, timers, casts, subs, seen, overtaken>>
        /\ link[s] = "new" /\ link' = [link EXCEPT ![s] = "open"]
        /\ handler' = [handler EXCEPT ![s] = "attaching"] /\ held' = held \cup {s}
    BY <1>1 DEF Web!Connect
  <2>2. s \notin subs
    BY <2>1
  <2> QED
    BY <2>1, <2>2, LinksChange
<1>2. CASE Web!Joined(s) \/ Web!SeesClose(s)
  <2>1. /\ UNCHANGED <<version, tasks, timers, casts, seen, overtaken, held, link>>
        /\ subs' \subseteq subs /\ handler[s] \in {"joining", "reading"}
        /\ \E h \in {"reading", "leaving"} : handler' = [handler EXCEPT ![s] = h]
    BY <1>2 DEF Web!Joined, Web!SeesClose
  <2> QED
    BY <2>1, LinksChange
<1>3. CASE Web!Gone(s)
  <2>1. /\ UNCHANGED <<version, tasks, timers, casts, subs, link>> /\ handler[s] = "leaving"
        /\ handler' = [handler EXCEPT ![s] = "gone"] /\ held' = held \ {s}
        /\ seen' = [seen EXCEPT ![s] = 0] /\ overtaken' = overtaken \ {s}
    BY <1>3 DEF Web!Gone
  <2> QED
    BY <2>1, LinksChange, SessionsAssumption
<1>4. CASE Web!DropSocket(s) \/ Web!OutputFails(s)
  <2>1. /\ UNCHANGED <<version, tasks, timers, casts, seen, overtaken, handler>>
        /\ subs' \subseteq subs /\ held' \subseteq held
        /\ link' = link \/ (link[s] = "open" /\ link' = [link EXCEPT ![s] = "lost"])
    BY <1>4 DEF Web!DropSocket, Web!OutputFails
  <2> QED
    BY <2>1, LinksChange
<1> QED
  BY <1>1, <1>2, <1>3, <1>4

\* The pages, and the stop, which only closes links.
LEMMA OthersKeep ==
  ASSUME MetaInv,
         \/ Web!IntervalEnds \/ Web!Publish \/ Web!Stop \/ Web!OfStop
         \/ \E t \in Tabs : Web!OfPage(t) \/ Web!DropTab(t)
         \/ UNCHANGED Web!vars
  PROVE  MetaInv'
<1> USE DEF Web!metaVars, Web!consoleVars, Web!ghosts
<1>1. /\ UNCHANGED <<version, tasks, timers, casts, subs, seen, overtaken, held, handler>>
      /\ link' = link \/ \E x : link' = [link EXCEPT ![x] = "closed"]
  <2>1. CASE Web!IntervalEnds \/ Web!Publish \/ Web!Stop \/ UNCHANGED Web!vars
    BY <2>1 DEF Web!IntervalEnds, Web!Publish, Web!Stop, Web!vars
  <2>2. CASE \E t \in Tabs : Web!OfPage(t) \/ Web!DropTab(t)
    BY <2>2 DEF Web!OfPage, Web!Load, Web!Open, Web!Hears, Web!Serve, Web!Shows,
                Web!FetchFails, Web!DropTab, Web!Stays
  <2>3. CASE Web!Cleanup \/ Web!Stopped \/ Web!Start
    BY <2>3 DEF Web!Cleanup, Web!Stopped, Web!Start
  <2>4. CASE \E x \in Sockets \cup Tabs : Web!CloseNext(x) \/ Web!Expires(x)
    <3>1. PICK x \in Sockets \cup Tabs : Web!CloseNext(x) \/ Web!Expires(x)
      BY <2>4
    <3>2. UNCHANGED <<version, tasks, timers, casts, subs, seen, overtaken, held, handler>>
      BY <3>1 DEF Web!CloseNext, Web!Expires
    <3>3. \/ link' = link \/ link' = [link EXCEPT ![x] = "closed"]
          \/ link' = [link EXCEPT ![x] = IF @ = "open" THEN "closed" ELSE @]
      BY <3>1 DEF Web!CloseNext, Web!Expires
    <3>4. link[x] # "open" => link = [link EXCEPT ![x] = link[x]]
      BY DEF MetaInv, MetaShape
    <3> QED
      BY <3>2, <3>3, <3>4
  <2> QED
    BY <2>1, <2>2, <2>3, <2>4 DEF Web!OfStop
<1>2. /\ link' \in [Sockets -> {"new", "open", "lost", "closed"}]
      /\ \A s \in Sockets : link'[s] = link[s] \/ link'[s] = "closed"
  BY <1>1 DEF MetaInv, MetaShape
<1> QED
  BY <1>1, <1>2, LinksChange DEF MetaInv, MetaShape, UsedOnce

\* Every change of the ports is followed by a broadcast, at once or later.
LEMMA ChangeKeeps == MetaInv /\ Web!Change => MetaInv'
<1> SUFFICES ASSUME MetaInv, Web!Change PROVE MetaInv'
  OBVIOUS
<1>1. /\ version' = version + 1 /\ version' \in 0..MaxChanges /\ version \in 0..MaxChanges
      /\ UNCHANGED <<link, handler, held, subs, seen, overtaken>>
  BY SessionsAssumption DEF Web!Change, Web!consoleVars, Web!ghosts, MetaInv, MetaShape
<1>2. /\ casts' = casts
      /\ \/ subs = {} /\ UNCHANGED <<tasks, timers>>
         \/ timers' = timers + 1 /\ tasks' = tasks
         \/ \E m \in {version', Web!Live} : tasks' = Append(tasks, m) /\ timers' = timers
  BY DEF Web!Change, Web!Scheduled, Web!metaVars
<1>3. tasks \in Seq(0..MaxChanges \cup {Web!Live}) /\ timers \in Nat
  BY DEF MetaInv, MetaShape
<1>4. ASSUME NEW m \in {version', Web!Live}, tasks' = Append(tasks, m)
      PROVE  /\ tasks' \in Seq(0..MaxChanges \cup {Web!Live}) /\ Len(tasks') = Len(tasks) + 1
             /\ tasks'[Len(tasks')] = m /\ \A i \in 1..Len(tasks) : tasks'[i] = tasks[i]
  BY <1>1, <1>3, <1>4
<1>5. MetaShape'
  <2>1. /\ tasks' \in Seq(0..MaxChanges \cup {Web!Live}) /\ timers' \in Nat
        /\ \A i \in 1..Len(tasks') : tasks'[i] = Web!Live \/ tasks'[i] <= version'
    <3>1. CASE tasks' = tasks
      BY <1>1, <1>2, <1>3, <3>1 DEF MetaInv, MetaShape
    <3>2. CASE \E m \in {version', Web!Live} : tasks' = Append(tasks, m) /\ timers' = timers
      <4>1. PICK m \in {version', Web!Live} : tasks' = Append(tasks, m)
        BY <3>2
      <4>2. m = Web!Live \/ m <= version'
        BY <1>1
      <4> QED
        BY <1>1, <1>3, <1>4, <3>2, <4>1, <4>2 DEF MetaInv, MetaShape
    <3> QED
      BY <1>2, <3>1, <3>2
  <2>2. \A c \in casts : c.meta \in 0..version'
    BY <1>1 DEF MetaInv, MetaShape
  <2> QED
    BY <1>1, <1>2, <2>1, <2>2 DEF MetaInv, MetaShape
<1>6. Fresh'
  <2>1. CASE subs = {}
    BY <1>1, <2>1 DEF Fresh
  <2>2. CASE timers' = timers + 1
    BY <1>3, <2>2 DEF Fresh, Coming
  <2>3. CASE \E m \in {version', Web!Live} : tasks' = Append(tasks, m)
    <3>1. PICK m \in {version', Web!Live} : tasks' = Append(tasks, m)
      BY <2>3
    <3>2. Len(tasks') \in 1..Len(tasks') /\ tasks'[Len(tasks')] = m
      BY <1>3, <1>4, <3>1
    <3>3. (IF m = Web!Live THEN version' ELSE m) = version'
      OBVIOUS
    <3>4. TaskComing'
      BY <3>2, <3>3 DEF TaskComing, Shown
    <3> QED
      BY <3>4 DEF Fresh, Coming
  <2> QED
    BY <1>2, <2>1, <2>2, <2>3
<1>7. UsedOnce'
  BY <1>1 DEF MetaInv, UsedOnce
<1> QED
  BY <1>5, <1>6, <1>7 DEF MetaInv

LEMMA TimerKeeps == MetaInv /\ Web!TimerFires => MetaInv'
<1> SUFFICES ASSUME MetaInv, Web!TimerFires PROVE MetaInv'
  OBVIOUS
<1>1. /\ UNCHANGED <<version, link, handler, held, subs, seen, overtaken, casts>>
      /\ timers > 0 /\ timers' = timers - 1 /\ tasks' = Append(tasks, Web!Live)
  BY DEF Web!TimerFires, Web!consoleVars, Web!ghosts
<1>2. tasks \in Seq(0..MaxChanges \cup {Web!Live}) /\ timers \in Nat
  BY DEF MetaInv, MetaShape
<1>3. /\ tasks' \in Seq(0..MaxChanges \cup {Web!Live}) /\ Len(tasks') = Len(tasks) + 1
      /\ tasks'[Len(tasks')] = Web!Live /\ \A i \in 1..Len(tasks) : tasks'[i] = tasks[i]
  BY <1>1, <1>2
<1>4. MetaShape'
  BY <1>1, <1>2, <1>3 DEF MetaInv, MetaShape
<1>5. TaskComing'
  <2>1. Len(tasks') \in 1..Len(tasks')
    BY <1>2, <1>3
  <2> QED
    BY <1>3, <2>1 DEF TaskComing, Shown
<1> QED
  BY <1>1, <1>4, <1>5 DEF MetaInv, Fresh, Coming, UsedOnce

(* One frame: the socket has seen it, or it was not there to be written    *)
(* to; a frame older than what it saw is an overtaking.                    *)
LEMMA SentGives ==
  ASSUME MetaInv, NEW s \in Sockets, NEW m \in 0..version, NEW to \in SUBSET Sockets,
         Web!Sent(s, m, to)
  PROVE  /\ subs' \subseteq to /\ overtaken' \subseteq Sockets
         /\ seen' \in [Sockets -> 0..MaxChanges] /\ \A x \in Sockets : seen'[x] <= version
         /\ \A x \in Sockets : x # s => seen'[x] = seen[x] /\ (x \in overtaken' <=> x \in overtaken)
         /\ s \in held /\ link[s] = "open" /\ s \notin overtaken' =>
              \/ seen'[s] = version /\ m = version
              \/ m # version /\ s \notin overtaken /\ seen[s] <= m
<1> USE DEF MetaInv, MetaShape
<1>1. subs' \subseteq to
  BY DEF Web!Sent
<1>2. CASE s \in held /\ link[s] = "open"
  <2>1. seen' = [seen EXCEPT ![s] = m]
        /\ overtaken' = IF m = version THEN overtaken \ {s}
                        ELSE IF m < seen[s] THEN overtaken \cup {s} ELSE overtaken
    BY <1>2 DEF Web!Sent
  <2>2. m \in 0..MaxChanges /\ m <= version /\ m \in Nat /\ seen[s] \in Nat
    BY SessionsAssumption
  <2>3. seen'[s] = m /\ \A x \in Sockets : x # s => seen'[x] = seen[x]
    BY <2>1
  <2>4. seen' \in [Sockets -> 0..MaxChanges]
    BY <2>1, <2>2
  <2>5. overtaken' \subseteq Sockets
        /\ \A x \in Sockets : x # s => (x \in overtaken' <=> x \in overtaken)
    BY <2>1
  <2>6. s \notin overtaken' => m = version \/ (s \notin overtaken /\ ~(m < seen[s]))
    BY <2>1
  <2>7. \A x \in Sockets : seen'[x] <= version
    <3> SUFFICES ASSUME NEW x \in Sockets PROVE seen'[x] <= version
      OBVIOUS
    <3>1. CASE x = s
      BY <2>2, <2>3, <3>1
    <3>2. CASE x # s
      BY <2>3, <3>2
    <3> QED
      BY <3>1, <3>2
  <2>8. s \notin overtaken' =>
          \/ seen'[s] = version /\ m = version
          \/ m # version /\ s \notin overtaken /\ seen[s] <= m
    BY <2>2, <2>3, <2>6
  <2> HIDE DEF MetaInv, MetaShape
  <2> QED
    BY <1>1, <2>3, <2>4, <2>5, <2>7, <2>8
<1>3. CASE ~(s \in held /\ link[s] = "open")
  <2>1. UNCHANGED <<seen, overtaken>>
    BY <1>3 DEF Web!Sent
  <2> QED
    BY <1>1, <1>3, <2>1
<1> QED
  BY <1>2, <1>3

(* What a step that writes one frame m to s must keep on its way: what the *)
(* others wait for, and, if m is stale, what s waits for.                  *)
LEMMA FrameKeeps ==
  ASSUME MetaInv, NEW s \in Sockets, NEW m \in 0..version, NEW to \in SUBSET Sockets,
         Web!Sent(s, m, to), UNCHANGED <<version, timers, link, held>>,
         to \subseteq subs \cup {s}, s \in subs \/ m = version,
         \A x \in to : x # s /\ Coming(x) => Coming(x)',
         m # version /\ Coming(s) => Coming(s)'
  PROVE  Fresh'
<1> SUFFICES ASSUME NEW x \in subs', x \in held, link[x] = "open", x \notin overtaken',
                    seen'[x] # version
             PROVE  Coming(x)'
  BY DEF Fresh
<1>1. x \in to /\ x \in Sockets
  BY SentGives
<1>2. CASE x # s
  <2>1. x \in subs /\ seen'[x] = seen[x] /\ x \notin overtaken
    BY <1>1, <1>2, SentGives
  <2>2. Coming(x)
    BY <2>1 DEF MetaInv, Fresh
  <2> QED
    BY <1>1, <1>2, <2>2
<1>3. CASE x = s
  <2>1. m # version /\ s \notin overtaken /\ seen[s] <= m
    BY <1>3, SentGives
  <2>2. seen[s] # version
    <3>1. seen[s] \in Nat /\ m \in Nat /\ version \in Nat /\ m <= version
      BY DEF MetaInv, MetaShape
    <3> QED
      BY <2>1, <3>1
  <2>3. Coming(s)
    BY <1>3, <2>1, <2>2 DEF MetaInv, Fresh
  <2> QED
    BY <1>3, <2>1, <2>3
<1> QED
  BY <1>2, <1>3

(* The first frame of a broadcast: the others of it are under way.  The    *)
(* tasks it leaves may lack the one it was, which only matters to a stale  *)
(* broadcast if that one was fresh, and then it is not stale.              *)
LEMMA BroadcastKeeps ==
  ASSUME MetaInv, NEW m \in 0..version, NEW to \in SUBSET Sockets, NEW for,
         Web!Broadcast(m, to, for), UNCHANGED <<version, timers, link, held>>,
         subs \subseteq to, to = subs \/ (m = version /\ \E s \in Sockets : to \subseteq subs \cup {s}),
         m # version /\ TaskComing => TaskComing'
  PROVE  /\ Fresh'
         /\ subs' \subseteq to /\ overtaken' \subseteq Sockets
         /\ seen' \in [Sockets -> 0..MaxChanges] /\ \A x \in Sockets : seen'[x] <= version
         /\ \A c \in casts' : /\ c = [meta |-> c.meta, todo |-> c.todo, for |-> c.for]
                              /\ c.meta \in 0..version /\ c.todo \subseteq Sockets
<1>1. PICK s \in to : /\ Web!Sent(s, m, to)
                      /\ casts' = casts \cup Web!Left([meta |-> m, todo |-> to \ {s}, for |-> for])
  BY DEF Web!Broadcast
<1> DEFINE mine == [meta |-> m, todo |-> to \ {s}, for |-> for]
<1>2. /\ mine.meta = m /\ mine.todo = to \ {s} /\ casts \subseteq casts' /\ casts' \subseteq casts \cup {mine}
      /\ mine.todo # {} => mine \in casts'
      /\ mine = [meta |-> mine.meta, todo |-> mine.todo, for |-> mine.for]
  BY <1>1 DEF Web!Left
<1> HIDE DEF mine
<1>3. \A c \in casts' : /\ c = [meta |-> c.meta, todo |-> c.todo, for |-> c.for]
                       /\ c.meta \in 0..version /\ c.todo \subseteq Sockets
  BY <1>2 DEF MetaInv, MetaShape
<1>4. \A x : CastComing(x) => CastComing(x)'
  BY <1>2 DEF CastComing
<1>5. m = version => \A x \in to : x # s => CastComing(x)'
  BY <1>2 DEF CastComing
<1>6. \A x : m # version /\ Coming(x) => Coming(x)'
  BY <1>4 DEF Coming
<1>7. m = version => \A x \in to : x # s => Coming(x)'
  BY <1>5 DEF Coming
<1>8. subs' \subseteq to /\ overtaken' \subseteq Sockets
      /\ seen' \in [Sockets -> 0..MaxChanges] /\ \A x \in Sockets : seen'[x] <= version
  BY <1>1, SentGives
<1>9. Fresh'
  <2> SUFFICES ASSUME NEW x \in subs', x \in held, link[x] = "open", x \notin overtaken',
                      seen'[x] # version
               PROVE  Coming(x)'
    BY DEF Fresh
  <2>1. x \in to /\ s \in Sockets /\ x \in Sockets
    BY <1>8
  <2>2. CASE m = version
    <3>1. x # s
      BY <1>1, <2>1, <2>2, SentGives
    <3> QED
      BY <1>7, <2>1, <2>2, <3>1
  <2>3. CASE m # version
    <3>1. to = subs /\ s \in subs
      BY <2>3
    <3>2. \A y \in to : y # s /\ Coming(y) => Coming(y)'
      BY <1>6, <2>3
    <3>3. Coming(s) => Coming(s)'
      BY <1>6, <2>3
    <3>4. to \subseteq subs \cup {s} /\ (s \in subs \/ m = version)
      BY <3>1
    <3>5. Fresh'
      BY <1>1, <2>1, <3>2, <3>3, <3>4, FrameKeeps
    <3> QED
      BY <3>5 DEF Fresh
  <2> QED
    BY <2>2, <2>3
<1> QED
  BY <1>3, <1>8, <1>9

LEMMA AttachKeeps ==
  ASSUME MetaInv, NEW s \in Sockets, Web!Attach(s)
  PROVE  MetaInv'
<1> USE DEF Web!Elsewhere, MetaInv, MetaShape
<1>1. UNCHANGED <<version, tasks, timers>> /\ handler[s] = "attaching"
  BY DEF Web!Attach
<1>2. CASE /\ handler' = [handler EXCEPT ![s] = "joining"]
           /\ Web!Broadcast(Web!Snapshot, subs \cup {s}, s)
           /\ UNCHANGED <<link, held, late>>
  <2>1. PICK m \in 0..version : m = version /\ Web!Broadcast(m, subs \cup {s}, s)
    BY <1>2, SessionsAssumption DEF Web!Snapshot
  <2>2. PICK to \in SUBSET Sockets : to = subs \cup {s}
    OBVIOUS
  <2>3. /\ Fresh'
        /\ subs' \subseteq to /\ overtaken' \subseteq Sockets
        /\ seen' \in [Sockets -> 0..MaxChanges] /\ \A x \in Sockets : seen'[x] <= version
        /\ \A c \in casts' : /\ c = [meta |-> c.meta, todo |-> c.todo, for |-> c.for]
                             /\ c.meta \in 0..version /\ c.todo \subseteq Sockets
    BY <1>1, <1>2, <2>1, <2>2, BroadcastKeeps
  <2>4. MetaShape'
    BY <1>1, <1>2, <2>3
  <2>5. UsedOnce'
    BY <1>1, <1>2, <2>2, <2>3 DEF UsedOnce
  <2> QED
    BY <2>3, <2>4, <2>5
<1>3. CASE /\ handler' = [handler EXCEPT ![s] = "gone"]
           /\ link' = [link EXCEPT ![s] = "closed"]
           /\ held' = held \ {s} /\ late' = late \ {s}
           /\ UNCHANGED <<subs, casts, seen, overtaken>>
  BY <1>1, <1>3, LinksChange DEF UsedOnce
<1> QED
  BY <1>2, <1>3 DEF Web!Attach

LEMMA BeginKeeps == MetaInv /\ Web!Begin => MetaInv'
<1> SUFFICES ASSUME MetaInv, Web!Begin PROVE MetaInv'
  OBVIOUS
<1> USE DEF Web!Elsewhere
<1>1. /\ UNCHANGED <<version, timers, link, handler, held>>
      /\ tasks # <<>> /\ tasks' = Tail(tasks)
  BY DEF Web!Begin
<1>2. /\ version \in 0..MaxChanges /\ subs \subseteq Sockets
      /\ tasks \in Seq(0..MaxChanges \cup {Web!Live})
      /\ \A i \in 1..Len(tasks) : tasks[i] = Web!Live \/ tasks[i] <= version
  BY DEF MetaInv, MetaShape
<1>3. /\ tasks' \in Seq(0..MaxChanges \cup {Web!Live}) /\ Len(tasks') = Len(tasks) - 1
      /\ Head(tasks) = tasks[1] /\ 1 \in 1..Len(tasks)
      /\ \A i \in 1..Len(tasks') : tasks'[i] = tasks[i + 1] /\ i + 1 \in 1..Len(tasks)
  BY <1>1, <1>2
<1>4. \A i \in 1..Len(tasks') : tasks'[i] = Web!Live \/ tasks'[i] <= version
  BY <1>2, <1>3
<1>5. PICK m \in 0..version : m = Shown(tasks[1]) /\ m = Web!MetaOf(Head(tasks))
  <2>1. Shown(tasks[1]) = Web!MetaOf(Head(tasks))
    BY <1>3 DEF Shown, Web!MetaOf, Web!Snapshot
  <2>2. Shown(tasks[1]) \in 0..version
    <3>1. tasks[1] \in 0..MaxChanges \cup {Web!Live} /\ (tasks[1] = Web!Live \/ tasks[1] <= version)
      BY <1>2, <1>3
    <3> QED
      BY <1>2, <3>1, SessionsAssumption DEF Shown, Web!Live
  <2> QED
    BY <2>1, <2>2
<1>6. m # version /\ TaskComing => TaskComing'
  <2> SUFFICES ASSUME m # version, TaskComing PROVE TaskComing'
    OBVIOUS
  <2>1. PICK i \in 1..Len(tasks) : Shown(tasks[i]) = version
    BY DEF TaskComing
  <2>2. i # 1
    BY <1>5, <2>1
  <2>3. i - 1 \in 1..Len(tasks') /\ tasks'[i - 1] = tasks[i]
    <3>1. i - 1 \in 1..Len(tasks')
      BY <1>2, <1>3, <2>2
    <3>2. (i - 1) + 1 = i
      BY <1>2
    <3> QED
      BY <1>3, <3>1, <3>2
  <2>4. (IF tasks'[i - 1] = Web!Live THEN version' ELSE tasks'[i - 1]) = version'
    BY <1>1, <2>1, <2>3 DEF Shown
  <2> QED
    BY <2>3, <2>4 DEF TaskComing, Shown
<1>7. CASE subs = {} /\ UNCHANGED <<subs, seen, overtaken, casts>>
  <2>1. MetaShape'
    BY <1>1, <1>3, <1>4, <1>7 DEF MetaInv, MetaShape
  <2>2. Fresh' /\ UsedOnce'
    BY <1>1, <1>7 DEF MetaInv, Fresh, UsedOnce
  <2> QED
    BY <2>1, <2>2 DEF MetaInv
<1>8. CASE Web!Broadcast(Web!MetaOf(Head(tasks)), subs, "all")
  <2>1. PICK to \in SUBSET Sockets : to = subs
    BY <1>2
  <2>2. Web!Broadcast(m, to, "all")
    BY <1>5, <1>8, <2>1
  <2>3. /\ Fresh'
        /\ subs' \subseteq to /\ overtaken' \subseteq Sockets
        /\ seen' \in [Sockets -> 0..MaxChanges] /\ \A x \in Sockets : seen'[x] <= version
        /\ \A c \in casts' : /\ c = [meta |-> c.meta, todo |-> c.todo, for |-> c.for]
                             /\ c.meta \in 0..version /\ c.todo \subseteq Sockets
    BY <1>1, <1>6, <2>1, <2>2, BroadcastKeeps
  <2>4. MetaShape'
    BY <1>1, <1>3, <1>4, <2>3 DEF MetaInv, MetaShape
  <2>5. UsedOnce'
    BY <1>1, <2>1, <2>3 DEF MetaInv, UsedOnce
  <2> QED
    BY <2>3, <2>4, <2>5 DEF MetaInv
<1> QED
  BY <1>7, <1>8 DEF Web!Begin

LEMMA SendKeeps ==
  ASSUME MetaInv, NEW c \in casts, NEW s \in Sockets, Web!Send(c, s)
  PROVE  MetaInv'
<1> USE DEF Web!Elsewhere
<1> DEFINE rest == [c EXCEPT !.todo = @ \ {s}]
<1>1. /\ UNCHANGED <<version, tasks, timers, link, handler, held>> /\ s \in c.todo
      /\ Web!Sent(s, c.meta, subs) /\ casts' = (casts \ {c}) \cup Web!Left(rest)
  BY DEF Web!Send
<1>2. /\ c = [meta |-> c.meta, todo |-> c.todo, for |-> c.for]
      /\ c.meta \in 0..version /\ c.todo \subseteq Sockets /\ subs \subseteq Sockets
  BY DEF MetaInv, MetaShape
<1>3. rest = [meta |-> c.meta, todo |-> c.todo \ {s}, for |-> c.for]
  BY <1>2
<1>4. /\ rest.meta = c.meta /\ rest.todo = c.todo \ {s}
      /\ rest = [meta |-> rest.meta, todo |-> rest.todo, for |-> rest.for]
  BY <1>3
<1> HIDE DEF rest
<1>5. casts \ {c} \subseteq casts' /\ casts' \subseteq casts \cup {rest}
      /\ (rest.todo # {} => rest \in casts')
  BY <1>1 DEF Web!Left
<1>6. \A x : x # s /\ CastComing(x) => CastComing(x)'
  <2> SUFFICES ASSUME NEW x, x # s, CastComing(x) PROVE CastComing(x)'
    OBVIOUS
  <2>1. PICK b \in casts : b.meta = version /\ x \in b.todo
    BY DEF CastComing
  <2>2. CASE b = c
    BY <1>1, <1>4, <1>5, <2>1, <2>2 DEF CastComing
  <2>3. CASE b # c
    BY <1>1, <1>5, <2>1, <2>3 DEF CastComing
  <2> QED
    BY <2>2, <2>3
<1>7. c.meta # version /\ CastComing(s) => CastComing(s)'
  BY <1>1, <1>5 DEF CastComing
<1>8. UNCHANGED TaskComing
  BY <1>1 DEF TaskComing, Shown
<1>9. PICK m \in 0..version, to \in SUBSET Sockets : m = c.meta /\ to = subs
  BY <1>2
<1>10. /\ subs' \subseteq to /\ overtaken' \subseteq Sockets
       /\ seen' \in [Sockets -> 0..MaxChanges] /\ \A x \in Sockets : seen'[x] <= version
  BY <1>1, <1>9, SentGives
<1>11. MetaShape'
  BY <1>1, <1>2, <1>4, <1>5, <1>9, <1>10 DEF MetaInv, MetaShape
<1>12. UsedOnce'
  BY <1>1, <1>9, <1>10 DEF MetaInv, UsedOnce
<1>13. Fresh'
  <2>1. CASE s \in subs
    <3>1. \A x \in to : x # s /\ Coming(x) => Coming(x)'
      BY <1>1, <1>6, <1>8 DEF Coming
    <3>2. m # version /\ Coming(s) => Coming(s)'
      BY <1>1, <1>7, <1>8, <1>9 DEF Coming
    <3>3. to \subseteq subs \cup {s} /\ (s \in subs \/ m = version)
      BY <1>9, <2>1
    <3> QED
      BY <1>1, <1>9, <3>1, <3>2, <3>3, FrameKeeps
  <2>2. CASE s \notin subs
    <3> SUFFICES ASSUME NEW x \in subs', x \in held, link[x] = "open", x \notin overtaken',
                        seen'[x] # version
                 PROVE  Coming(x)'
      BY <1>1 DEF Fresh
    <3>1. x \in subs /\ x # s /\ x \in Sockets
      BY <1>2, <1>9, <1>10, <2>2
    <3>2. seen'[x] = seen[x] /\ x \notin overtaken
      BY <1>1, <1>9, <3>1, SentGives
    <3>3. Coming(x)
      BY <3>1, <3>2 DEF MetaInv, Fresh
    <3> QED
      BY <1>1, <1>6, <1>8, <3>1, <3>3 DEF Coming
  <2> QED
    BY <2>1, <2>2
<1> QED
  BY <1>11, <1>12, <1>13 DEF MetaInv

LEMMA CastEndsKeeps ==
  ASSUME MetaInv, NEW c \in casts, Web!CastEnds(c)
  PROVE  MetaInv'
<1>1. /\ UNCHANGED <<version, tasks, timers, link, handler, held, subs, seen, overtaken>>
      /\ c.todo = {} /\ casts' = casts \ {c}
  BY DEF Web!CastEnds, Web!Elsewhere, Web!consoleVars, Web!ghosts
<1>2. MetaShape' /\ UsedOnce'
  BY <1>1 DEF MetaInv, MetaShape, UsedOnce
<1>3. \A x : Coming(x) => Coming(x)'
  BY <1>1 DEF Coming, TaskComing, Shown, CastComing
<1> QED
  BY <1>1, <1>2, <1>3 DEF MetaInv, Fresh

(* _schedule_meta_broadcast and _broadcast_meta, for any sockets and       *)
(* changes, however broadcasts, timers, attaches, lost links and a stop    *)
(* interleave: when nothing is left to be sent, every subscriber that can  *)
(* be written to has the ports as they are as its last frame, unless two   *)
(* broadcasts overtook one another on the way to it.                       *)
THEOREM LastFrameIsFresh == Web!Spec => []MetaEndsFresh
<1>1. MetaInv /\ [Web!Next]_Web!vars => MetaInv'
  <2> SUFFICES ASSUME MetaInv, [Web!Next]_Web!vars PROVE MetaInv'
    OBVIOUS
  <2>1. CASE Web!OfBroadcast
    BY <2>1, BeginKeeps, CastEndsKeeps, SendKeeps DEF Web!OfBroadcast
  <2>2. CASE \E s \in Sockets : \/ Web!OfHandler(s) \/ Web!Connect(s) \/ Web!DropSocket(s)
                               \/ Web!OutputFails(s)
    BY <2>2, AttachKeeps, SocketsKeep DEF Web!OfHandler
  <2>3. CASE Web!Change \/ Web!TimerFires
    BY <2>3, ChangeKeeps, TimerKeeps
  <2>4. CASE \/ Web!IntervalEnds \/ Web!Publish \/ Web!Stop \/ Web!OfStop
             \/ \E t \in Tabs : Web!OfPage(t) \/ Web!DropTab(t)
             \/ UNCHANGED Web!vars
    BY <2>4, OthersKeep
  <2> QED
    BY <2>1, <2>2, <2>3, <2>4 DEF Web!Next
<1>2. MetaInv => MetaEndsFresh
  <2>1. ASSUME MetaInv, tasks = <<>>, timers = 0, casts = {}, NEW s \in subs
        PROVE  ~Coming(s)
    BY <2>1 DEF Coming, TaskComing, CastComing
  <2> QED
    BY <2>1 DEF MetaInv, Fresh, MetaEndsFresh, Web!MetaEndsFresh
<1> QED
  BY MetaBegins, <1>1, <1>2, PTL DEF Web!Spec
=============================================================================
