---------------------------- MODULE ReadyScheduler ----------------------------
(***************************************************************************)
(* The Ready queue (server/ready-scheduler.ts, shared/ready-queue.ts): a   *)
(* pass claims Ready tasks of the projects that asked for it, fairly and   *)
(* within the limits, saves each claim, starts the work through the same   *)
(* admission as a person's Start, and saves what became of the claim.  A   *)
(* pass is asked for by every saved change; it runs under the store's      *)
(* lock, a save may fail, and the process may stop between two saves.      *)
(*                                                                         *)
(* One save replaces the image of one project.  Identifiers and moments    *)
(* are drawn from one clock, so that a later one is larger.                *)
(***************************************************************************)
EXTENDS Naturals, Sequences, FiniteSets

CONSTANTS
  Projects,
  Tasks,
  Home,         \* the project of each task
  Native,       \* the tasks whose route sends to a service; the others run the sample worker
  Looped,       \* the tasks, of either kind, that run in the work loop: their run is a record
                \* of the harness, not in memory here, and goes on after a restart
  GlobalLimit,  \* runs across all projects; a project has one
  MaxClock,     \* identifiers and moments
  MaxFaults,    \* saves that fail
  MaxCrashes,
  MaxSettings   \* changes of the switches and pauses

ASSUME QueueAssumption ==
  /\ IsFiniteSet(Projects)
  /\ Home \in [Tasks -> Projects]
  /\ Native \subseteq Tasks
  /\ Looped \subseteq Tasks
  /\ {GlobalLimit, MaxClock, MaxFaults, MaxCrashes, MaxSettings} \subseteq Nat
  /\ MaxClock > 0

VARIABLES
  mem,        \* the image of each project in memory
  disk,       \* the image of each project as saved
  runs,       \* the run each project has in memory: its session, or 0
  allPaused,  \* the pause of every queue, saved in a file of its own
  pass,       \* whether a pass is due, running, or neither
  again,      \* a pass was asked for while there was one
  op,         \* where the pass stands
  clock,
  count,      \* how many faults, crashes and changes of settings there were
  missed,     \* history: no change announced the last event a pass may depend on: a run
              \* that left memory, a save of the pass itself that failed
  halfway     \* history: claims whose start threw after its session was made

queueVars == <<mem, disk, runs, allPaused, pass, again, op, clock, count, missed, halfway>>

Largest(S) == CHOOSE n \in S : \A m \in S : m <= n

Idle == [at |-> "idle", claim |-> 0, task |-> "none", plan |-> <<>>, then |-> "none",
         session |-> 0]

-------------------------------------------------------------------------------
Pending(image) == {c \in image.claims : c.state = "claimed"}
Active(image) == {s \in image.sessions : s.active}

\* What counts against the limits of a project, manual runs included.
Used(p, images, rs) ==
  Largest({Cardinality(Active(images[p])), IF rs[p] # 0 THEN 1 ELSE 0})
    + Cardinality(Pending(images[p]))

\* Mutant of Running: only what the queue started is counted.
RunningClaimed(images, rs) ==
  Cardinality({s \in UNION {Active(images[p]) : p \in Projects} : s.by = "queue"})

\* What counts against the limit of all projects: the sum over them.
Running(images, rs) == Cardinality(UNION {{p} \X (1..Used(p, images, rs)) : p \in Projects})

\* Mutant of Confirmed: a start of any task of the project is taken for consent.
ConfirmedByAnyStart(t, image) == t \notin Native \/ image.sessions # {}

\* A person confirms a service route by starting this very request once.
Confirmed(t, image) == t \notin Native \/ \E s \in image.sessions : s.task = t

\* The tasks of a project that may be claimed: Ready, not claimed yet, not refused at
\* this very moment, and confirmed.
Line(p, images) ==
  {t \in Tasks :
     /\ Home[t] = p
     /\ images[p].since[t] > 0
     /\ Confirmed(t, images[p])
     /\ \A c \in images[p].claims :
          c.task # t \/ (c.state # "claimed" /\ (c.state = "refused" => c.moment # images[p].since[t]))}

Oldest(p, images) ==
  {t \in Line(p, images) :
     \A u \in Line(p, images) : images[p].since[t] <= images[p].since[u]}

\* When a project was last served.
Served(p, images) == Largest({0} \cup {c.id : c \in images[p].claims})

\* What a pass may claim, in order: one task of each project that is open, free and
\* has one, the least recently served first, as far as the limit goes.
Plans(images, rs, paused) ==
  LET open == {p \in Projects : /\ images[p].auto /\ ~images[p].paused /\ ~paused
                                /\ Used(p, images, rs) = 0
                                /\ Line(p, images) # {}}
      busy == Running(images, rs)
      slots == IF busy >= GlobalLimit THEN 0 ELSE GlobalLimit - busy
      n == IF slots < Cardinality(open) THEN slots ELSE Cardinality(open)
  IN {s \in [1..n -> UNION {Oldest(p, images) : p \in open}] :
        /\ \A i, j \in 1..n : i < j => /\ Home[s[i]] # Home[s[j]]
                                       /\ Served(Home[s[i]], images) <= Served(Home[s[j]], images)
        /\ \A p \in open : \A i \in 1..n :
             (\A j \in 1..n : Home[s[j]] # p) => Served(Home[s[i]], images) <= Served(p, images)}

Planned(images, rs, paused) == \E s \in Plans(images, rs, paused) : s # <<>>

Due(images, rs, paused) ==
  (\E p \in Projects : Pending(images[p]) # {}) \/ Planned(images, rs, paused)

\* kick: asks for a pass.
Kick(images, rs, paused) ==
  /\ again' = (again \/ pass # "none")
  /\ pass' = IF pass = "none" /\ Due(images, rs, paused) THEN "due" ELSE pass
  /\ missed' = FALSE

-------------------------------------------------------------------------------
\* A save of one project, announced to the listeners of the store.
Saves(p, image, rs) ==
  /\ mem' = [mem EXCEPT ![p] = image]
  /\ disk' = [disk EXCEPT ![p] = image]
  /\ Kick(mem', rs, allPaused)

Fails == count.faults < MaxFaults /\ count' = [count EXCEPT !.faults = @ + 1]

\* The clock gives the next identifier.
Draws == clock < MaxClock /\ clock' = clock + 1

\* The image once a session has begun: the task leaves Ready.
Begun(image, s) ==
  [image EXCEPT !.sessions = @ \cup {s}, !.since[s.task] = 0]
Session(t, by, command, moment, active) ==
  [id |-> clock + 1, task |-> t, by |-> by, command |-> command, moment |-> moment,
   active |-> active]
\* The sessions of some tasks are over.
Ended(image, tasks) ==
  [image EXCEPT !.sessions = {[s EXCEPT !.active = @ /\ s.task \notin tasks] : s \in @}]

\* One run per project, by its sessions and by what is in memory; the loop looks at the
\* sessions only.
Admissible(t) == Active(mem[Home[t]]) = {} /\ (t \in Looped \/ runs[Home[t]] = 0)

\* The runs in memory once a task has started.
RunsWith(t) == IF t \in Looped THEN runs ELSE [runs EXCEPT ![Home[t]] = clock + 1]

\* The other locked actions, each with its one save.
Free == op.at = "idle"

PersonStarts(t) ==
  /\ Free
  /\ Admissible(t)
  /\ Draws
  /\ runs' = RunsWith(t)
  /\ Saves(Home[t], Begun(mem[Home[t]],
                          Session(t, "person", 0, mem[Home[t]].since[t], TRUE)), runs')
  /\ UNCHANGED <<allPaused, op, count, halfway>>

\* A run finishes, fails or is stopped: it leaves memory before the save, which may fail.
Ends(p) ==
  /\ Free
  /\ Active(mem[p]) # {}
  /\ runs' = [runs EXCEPT ![p] = 0]
  /\ \/ Saves(p, Ended(mem[p], Tasks), runs') /\ UNCHANGED count
     \/ Fails /\ UNCHANGED <<mem, disk, pass, again, missed>>
  /\ UNCHANGED <<allPaused, op, clock, halfway>>

\* A person decides on a service run's proposal: the end is saved and announced
\* first, and then the run leaves memory (NativeWork.resolve).
Decides(p) ==
  /\ Free
  /\ \E s \in Active(mem[p]) : s.task \in Native /\ s.id = runs[p]
  /\ mem' = [mem EXCEPT ![p] = Ended(@, Tasks)]
  /\ disk' = mem'
  /\ again' = (again \/ pass # "none")
  /\ pass' = IF pass = "none" /\ Due(mem', runs, allPaused) THEN "due" ELSE pass
  /\ missed' = (pass' = "none")
  /\ runs' = [runs EXCEPT ![p] = 0]
  /\ UNCHANGED <<allPaused, op, clock, count, halfway>>

\* The person moves a task back to Ready.
Reopen(t) ==
  /\ Free
  /\ mem[Home[t]].since[t] = 0
  /\ \A s \in Active(mem[Home[t]]) : s.task # t
  /\ Draws
  /\ Saves(Home[t], [mem[Home[t]] EXCEPT !.since[t] = clock + 1], runs)
  /\ UNCHANGED <<runs, allPaused, op, count, halfway>>

Sets == count.settings < MaxSettings /\ count' = [count EXCEPT !.settings = @ + 1]

\* configure: automatic start, or the project's own pause.
Configure(p) ==
  /\ Free
  /\ Sets
  /\ \/ Saves(p, [mem[p] EXCEPT !.auto = ~@], runs)
     \/ Saves(p, [mem[p] EXCEPT !.paused = ~@], runs)
  /\ UNCHANGED <<runs, allPaused, op, clock, halfway>>

\* configureAll: the pause of every queue.
ConfigureAll ==
  /\ Free
  /\ Sets
  /\ allPaused' = ~allPaused
  /\ Kick(mem, runs, allPaused')
  /\ UNCHANGED <<mem, disk, runs, op, clock, halfway>>

-------------------------------------------------------------------------------
BeginPass ==
  /\ Free
  /\ pass = "due"
  /\ pass' = "running"
  /\ op' = [Idle EXCEPT !.at = "replay"]
  /\ UNCHANGED <<mem, disk, runs, allPaused, again, clock, count, missed, halfway>>

\* The pass is over: what was asked for meanwhile is looked at now.
PassOver(images) ==
  /\ op' = Idle
  /\ again' = FALSE
  /\ pass' = IF again /\ Due(images, runs, allPaused) THEN "due" ELSE "none"

\* Mutant of EndPass: what was asked for during the pass is forgotten.
EndPassForgetting ==
  /\ op.at = "claim"
  /\ op.plan = <<>>
  /\ op' = Idle
  /\ again' = FALSE
  /\ pass' = "none"
  /\ UNCHANGED <<mem, disk, runs, allPaused, clock, count, missed, halfway>>

EndPass ==
  /\ op.at = "claim"
  /\ op.plan = <<>>
  /\ PassOver(mem)
  /\ UNCHANGED <<mem, disk, runs, allPaused, clock, count, missed, halfway>>

\* A save of the pass fails: it ends, and locked reloads what was saved.
Throws ==
  /\ Fails
  /\ mem' = disk
  /\ PassOver(disk)
  /\ missed' = (pass' = "none")
  /\ UNCHANGED <<disk, runs, allPaused, clock, halfway>>

\* Claims a restart or a failed save left open come first; then the pass is planned.
Replay ==
  /\ op.at = "replay"
  /\ LET left == UNION {Pending(mem[p]) : p \in Projects}
     IN IF left # {}
          THEN \E c \in left :
                 op' = [op EXCEPT !.at = "admit", !.claim = c.id, !.task = c.task,
                                  !.then = "replay"]
          ELSE \E s \in Plans(mem, runs, allPaused) :
                 op' = [op EXCEPT !.at = "claim", !.plan = s, !.then = "claim"]
  /\ UNCHANGED <<mem, disk, runs, allPaused, pass, again, clock, count, missed, halfway>>

\* The claim is saved before the work is admitted.
Claim ==
  /\ op.at = "claim"
  /\ op.plan # <<>>
  /\ LET t == Head(op.plan)
         p == Home[t]
         c == [id |-> clock + 1, task |-> t, moment |-> mem[p].since[t], state |-> "claimed",
               session |-> 0]
     IN \/ /\ Draws
           /\ Saves(p, [mem[p] EXCEPT !.claims = @ \cup {c}], runs)
           /\ op' = [op EXCEPT !.at = "admit", !.claim = c.id, !.task = t, !.plan = Tail(@)]
           /\ UNCHANGED <<runs, allPaused, count, halfway>>
        \/ Throws

Here == Home[op.task]
Claimed == CHOOSE c \in mem[Here].claims : c.id = op.claim
Receipts == {s \in mem[Here].sessions : s.command = op.claim}
Settling(session) == [op EXCEPT !.at = "settle", !.session = session]

\* The session is there already: a restart, or a save that failed, came after it.
AdmitFromReceipt ==
  /\ op.at = "admit"
  /\ \E s \in Receipts : op' = Settling(s.id)
  /\ UNCHANGED <<mem, disk, runs, allPaused, pass, again, clock, count, missed, halfway>>

\* Mutant of AdmitRefused: a check refuses before the receipt is looked for.
AdmitRefusedFirst ==
  /\ op.at = "admit"
  /\ op' = Settling(0)
  /\ UNCHANGED <<mem, disk, runs, allPaused, pass, again, clock, count, missed, halfway>>

\* One of the many checks of a start refuses, before anything is changed.
AdmitRefused ==
  /\ op.at = "admit"
  /\ Receipts = {}
  /\ op' = Settling(0)
  /\ UNCHANGED <<mem, disk, runs, allPaused, pass, again, clock, count, missed, halfway>>

\* The consent of a claim is looked for again, whoever planned it.
Admits ==
  /\ op.at = "admit"
  /\ Receipts = {}
  /\ Confirmed(op.task, mem[Here])
  /\ Admissible(op.task)

\* The session of the claim, for the moment at which the task became Ready.
Carrying(command, active) == Session(op.task, "queue", command, Claimed.moment, active)

\* Mutant of AdmitStarts: the session does not carry the claim's command.
AdmitStartsUnnamed ==
  /\ Admits
  /\ Draws
  /\ runs' = RunsWith(op.task)
  /\ Saves(Here, Begun(mem[Here], Carrying(0, TRUE)), runs')
  /\ op' = Settling(clock + 1)
  /\ UNCHANGED <<allPaused, count, halfway>>

\* The session is saved with the claim's command on its receipt.
AdmitStarts ==
  /\ Admits
  /\ Draws
  /\ runs' = RunsWith(op.task)
  /\ Saves(Here, Begun(mem[Here], Carrying(op.claim, TRUE)), runs')
  /\ op' = Settling(clock + 1)
  /\ UNCHANGED <<allPaused, count, halfway>>

\* The save of the session fails.  The sample worker and the loop leave the session in
\* memory as it was; native work fails it there and saves that, if it can.  The
\* scheduler catches the error, so nothing is reloaded.
AdmitFails ==
  /\ Admits
  /\ Draws
  /\ Fails
  /\ halfway' = halfway \cup {op.claim}
  /\ LET ends == op.task \in Native \ Looped
         begun == Begun(mem[Here], Carrying(op.claim, ~ends))
     IN \/ /\ mem' = [mem EXCEPT ![Here] = begun]
           /\ UNCHANGED <<disk, pass, again, missed>>
        \/ ends /\ Saves(Here, begun, runs)
  /\ op' = Settling(0)
  /\ UNCHANGED <<runs, allPaused>>

\* A write after the one of the session fails, and the start throws: that the hand-off
\* files are gone, the loop's run and its lease (the session is then failed and saved),
\* or what the loop was asked.  Otherwise the work has begun and goes on.
AdmitThrows ==
  /\ Admits
  /\ op.task \in Native \cup Looped
  /\ Draws
  /\ Fails
  /\ halfway' = halfway \cup {op.claim}
  /\ runs' = RunsWith(op.task)
  /\ \E active \in {a \in BOOLEAN : a \/ op.task \in Looped} :
       Saves(Here, Begun(mem[Here], Carrying(op.claim, active)), runs')
  /\ op' = Settling(0)
  /\ UNCHANGED allPaused

\* Mutant of Settled: the answer of the start path is not looked at.
SettledAnyway(c) ==
  IF c.id # op.claim THEN c ELSE [c EXCEPT !.state = "started", !.session = op.session]

Settled(c) ==
  IF c.id # op.claim THEN c
  ELSE [c EXCEPT !.state = IF op.session # 0 THEN "started" ELSE "refused",
                 !.session = op.session]

\* What became of the claim is saved; the pass goes on.
Settle ==
  /\ op.at = "settle"
  /\ \/ /\ Saves(Here, [mem[Here] EXCEPT !.claims = {Settled(c) : c \in @}], runs)
        /\ op' = [op EXCEPT !.at = op.then, !.claim = 0, !.task = "none", !.session = 0]
        /\ UNCHANGED <<runs, allPaused, clock, count, halfway>>
     \/ Throws

-------------------------------------------------------------------------------
Crash ==
  /\ op.at # "down"
  /\ count.crashes < MaxCrashes
  /\ count' = [count EXCEPT !.crashes = @ + 1]
  /\ op' = [Idle EXCEPT !.at = "down"]
  /\ mem' = disk
  /\ runs' = [p \in Projects |-> 0]
  /\ pass' = "none"
  /\ again' = FALSE
  /\ missed' = FALSE
  /\ UNCHANGED <<disk, allPaused, clock, halfway>>

\* Mutant of Launch: nobody asks for a pass when the service starts.
LaunchSilently ==
  /\ op.at = "down"
  /\ mem' = [p \in Projects |-> Ended(disk[p], Tasks \ Looped)]
  /\ disk' = mem'
  /\ op' = Idle
  /\ UNCHANGED <<runs, allPaused, pass, again, clock, count, missed, halfway>>

\* The store stops the sessions that were active, those of the loop apart, whose runs the
\* harness takes up again; the scheduler asks for a pass.
Launch ==
  /\ op.at = "down"
  /\ mem' = [p \in Projects |-> Ended(disk[p], Tasks \ Looped)]
  /\ disk' = mem'
  /\ op' = Idle
  /\ Kick(mem', runs, allPaused)
  /\ UNCHANGED <<runs, allPaused, clock, count, halfway>>

-------------------------------------------------------------------------------
\* Any of the projects may have been switched on.
Init ==
  /\ mem \in {[p \in Projects |->
              [auto |-> p \in on, paused |-> FALSE, claims |-> {}, sessions |-> {},
               since |-> [t \in {u \in Tasks : Home[u] = p} |-> 1]]] :
              on \in SUBSET Projects}
  /\ disk = mem
  /\ runs = [p \in Projects |-> 0]
  /\ allPaused = FALSE
  /\ pass = IF Due(mem, runs, FALSE) THEN "due" ELSE "none"
  /\ again = FALSE
  /\ op = Idle
  /\ clock = 1
  /\ count = [faults |-> 0, crashes |-> 0, settings |-> 0]
  /\ missed = FALSE
  /\ halfway = {}

\* What the service does by itself.
Serve ==
  \/ BeginPass
  \/ Replay
  \/ Claim
  \/ AdmitFromReceipt
  \/ AdmitRefused
  \/ AdmitStarts
  \/ AdmitFails
  \/ AdmitThrows
  \/ Settle
  \/ EndPass
  \/ Launch

Next ==
  \/ \E t \in Tasks : PersonStarts(t)
  \/ \E p \in Projects : Ends(p)
  \/ \E p \in Projects : Decides(p)
  \/ \E t \in Tasks : Reopen(t)
  \/ \E p \in Projects : Configure(p)
  \/ ConfigureAll
  \/ Serve
  \/ Crash

Spec == Init /\ [][Next]_queueVars

\* The queue of the store gets to a pass that is due, a pass goes on, and a stopped
\* service is started again; nothing is assumed of the person or of runs.
FairSpec == Spec /\ WF_queueVars(Serve)

-------------------------------------------------------------------------------
ClaimRecords ==
  [id : 1..MaxClock, task : Tasks, moment : 1..MaxClock,
   state : {"claimed", "started", "refused"}, session : 0..MaxClock]
SessionRecords ==
  [id : 1..MaxClock, task : Tasks, by : {"person", "queue"}, command : 0..MaxClock,
   moment : 0..MaxClock, active : BOOLEAN]

\* The values of the variables; a claim names a session exactly when it is started.
TypeOK ==
  /\ \A p \in Projects : \A image \in {mem[p], disk[p]} :
       /\ {image.auto, image.paused} \subseteq BOOLEAN
       /\ image.claims \subseteq ClaimRecords
       /\ image.sessions \subseteq SessionRecords
       /\ \A c \in image.claims : c.session # 0 <=> c.state = "started"
       /\ image.since \in [{u \in Tasks : Home[u] = p} -> 0..MaxClock]
  /\ runs \in [Projects -> 0..MaxClock]
  /\ {allPaused, again, missed} \subseteq BOOLEAN
  /\ pass \in {"none", "due", "running"}
  /\ op.at \in {"idle", "replay", "claim", "admit", "settle", "down"}
  /\ pass = "running" <=> op.at \notin {"idle", "down"}
  /\ clock \in 1..MaxClock

Sessions == UNION {disk[p].sessions : p \in Projects}
Claims == UNION {disk[p].claims : p \in Projects}

\* A task is started by the queue at most once for each time it becomes Ready, through
\* failed saves, restarts and replays of its claim (run, admit, recordWorkAdmission).
OneStartPerMoment ==
  \A s, u \in Sessions :
    s.by = "queue" /\ u.by = "queue" /\ s.task = u.task /\ s.moment = u.moment => s = u

\* A claim recorded as started names the session that carries its command, and one
\* whose start refused it before a session was made left no work running, whatever was
\* replayed or failed to save meanwhile (admit's settle).  What RefusalsBeginNothing says
\* of the other refusals the code does not keep.
ClaimsTellTheTruth ==
  \A c \in Claims :
    /\ c.state = "started" =>
         \E s \in Sessions : s.id = c.session /\ s.command = c.id /\ s.task = c.task
    /\ c.state = "refused" /\ c.id \notin halfway =>
         \A s \in Sessions : s.command = c.id => ~s.active

\* What ready-scheduler.ts says of every refusal: it is recorded with no work begun.
RefusalsBeginNothing ==
  \A c \in Claims, s \in Sessions : c.state = "refused" /\ s.command = c.id => ~s.active

\* Automatic start never takes the machine past the limit: work under way, manual or
\* not, and claims about to begin (planReadyQueue).
UnderWay(images) ==
  Cardinality((UNION {Active(images[p]) : p \in Projects})
              \cup (UNION {{c \in Pending(images[p]) :
                              \A s \in Active(images[p]) : s.command # c.id} : p \in Projects}))
LimitIsKept ==
  [][UnderWay(disk') > UnderWay(disk) /\ UnderWay(disk') > GlobalLimit
       => op.at \notin {"claim", "admit", "settle"}]_queueVars

\* Nothing is sent to a service that a person has not sent it to before, whatever the
\* queue replays (confirmed).
ConsentIsGiven ==
  \A s \in Sessions :
    s.by = "queue" /\ s.task \in Native =>
      \E u \in Sessions : u.by = "person" /\ u.task = s.task /\ u.id < s.id

\* A claim is settled in the end, across restarts, unless a save fails (init, run).
ClaimsSettle ==
  (\E c \in Claims : c.state = "claimed")
    ~> (count.faults > 0 \/ \A c \in Claims : c.state # "claimed")

StartsNow == op.at = "idle" /\ Planned(mem, runs, allPaused)

\* Work that is planned gets its pass, unless the run before it left memory after the
\* change that announced its end, or the pass failed to save (kick, again).
PlannedWorkIsServed == StartsNow ~> (~StartsNow \/ missed)

\* What the Board says of such work: it is starting now, its admission under way.
StartingStarts == StartsNow ~> ~StartsNow
===============================================================================
