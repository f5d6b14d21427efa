------------------------- MODULE ReadySchedulerProofs -------------------------
(***************************************************************************)
(* What is proved of ReadyScheduler for any number of projects and tasks:  *)
(* its types, and that through failed saves, restarts and replays a task   *)
(* is started once for each moment at which it became Ready, a claim says  *)
(* what became of it, and nothing is sent without consent.                 *)
(*                                                                         *)
(* An image is saved whole, so nearly all of the invariant is about one    *)
(* image: ImageFits, of the image in memory and of the saved one.  The     *)
(* rest ties the pass to the images.                                       *)
(***************************************************************************)
EXTENDS ReadyScheduler, FiniteSetTheorems, TLAPS

TasksOf(p) == {u \in Tasks : Home[u] = p}

\* The shape of an image of project p.
ImageRecords(p) ==
  [auto : BOOLEAN, paused : BOOLEAN, claims : SUBSET ClaimRecords,
   sessions : SUBSET SessionRecords, since : [TasksOf(p) -> 0..MaxClock]]
Shaped(p, image) ==
  /\ image \in ImageRecords(p)
  /\ IsFiniteSet(image.claims)
  /\ IsFiniteSet(image.sessions)

\* Everything in it is of its project, and numbered by the clock k in the order in
\* which it came: the moment, the claim made for it, the session.
Numbered(p, image, k) ==
  /\ \A c \in image.claims : Home[c.task] = p /\ c.moment < c.id /\ c.id <= k
  /\ \A s \in image.sessions : Home[s.task] = p /\ s.moment < s.id /\ s.id <= k
  /\ \A t \in TasksOf(p) : image.since[t] <= k

\* One claim for an identifier, and one for a moment of a task.
ClaimsAreOne(image) ==
  \A c, d \in image.claims :
    c.id = d.id \/ (c.task = d.task /\ c.moment = d.moment) => c = d

\* What the queue started carries the command of a claim, and nothing else does.
SessionsAreClaimed(image) ==
  \A s \in image.sessions :
    /\ s.by = "queue" =>
         \E c \in image.claims : c.id = s.command /\ c.task = s.task /\ c.moment = s.moment
    /\ s.by = "person" => s.command = 0

\* A command is used once.
CommandsAreOne(image) ==
  \A s, u \in image.sessions : s.command = u.command /\ s.command # 0 => s = u

\* A task that is Ready became so after all its sessions.
ReadyIsLater(image) ==
  \A s \in image.sessions : image.since[s.task] = 0 \/ image.since[s.task] > s.id

\* What a claim says of its start.
ClaimsAreTrue(image, h) ==
  \A c \in image.claims :
    /\ c.session # 0 <=> c.state = "started"
    /\ c.state = "started" =>
         \E s \in image.sessions : s.id = c.session /\ s.command = c.id /\ s.task = c.task
    /\ c.state = "refused" /\ c.id \notin h => \A s \in image.sessions : s.command # c.id

\* A person sent it first.
Consented(image) ==
  \A s \in image.sessions :
    s.by = "queue" /\ s.task \in Native =>
      \E u \in image.sessions : u.by = "person" /\ u.task = s.task /\ u.id < s.id

ImageFits(p, image, k, h) ==
  /\ Shaped(p, image)
  /\ Numbered(p, image, k)
  /\ ClaimsAreOne(image)
  /\ SessionsAreClaimed(image)
  /\ CommandsAreOne(image)
  /\ ReadyIsLater(image)
  /\ ClaimsAreTrue(image, h)
  /\ Consented(image)

-------------------------------------------------------------------------------
\* Every image fits, in memory and on disk.
Images == UNION {ImageRecords(p) : p \in Projects}
ImagesFit ==
  /\ mem \in [Projects -> Images]
  /\ disk \in [Projects -> Images]
  /\ \A p \in Projects : ImageFits(p, mem[p], clock, halfway)
  /\ \A p \in Projects : ImageFits(p, disk[p], clock, halfway)

\* Claims change by saves only, and no two projects have one of the same identifier.
ClaimsAreSaved == \A p \in Projects : mem[p].claims = disk[p].claims
ClaimsAreApart ==
  \A p, q \in Projects : \A c \in disk[p].claims, d \in disk[q].claims : c.id = d.id => p = q

\* Where a pass may stand.
OpRecords ==
  [at : {"idle", "replay", "claim", "admit", "settle", "down"}, claim : 0..MaxClock,
   task : Tasks \cup {"none"}, plan : Seq(Tasks), then : {"none", "replay", "claim"},
   session : 0..MaxClock]

\* The variables of the service itself.
ServiceTypes ==
  /\ runs \in [Projects -> 0..MaxClock]
  /\ allPaused \in BOOLEAN
  /\ again \in BOOLEAN
  /\ missed \in BOOLEAN
  /\ pass \in {"none", "due", "running"}
  /\ pass = "running" <=> op.at \notin {"idle", "down"}
  /\ clock \in 1..MaxClock
  /\ op \in OpRecords

Admitting == op.at \in {"admit", "settle"}

\* What was planned may still be claimed: it is of other projects than the one at work.
PlanFits ==
  /\ op.plan # <<>> => op.at \in {"claim", "admit", "settle"} /\ op.then = "claim"
  /\ \A i \in 1..Len(op.plan) : op.plan[i] \in Line(Home[op.plan[i]], mem)
  /\ \A i, j \in 1..Len(op.plan) : i # j => Home[op.plan[i]] # Home[op.plan[j]]
  /\ Admitting => \A i \in 1..Len(op.plan) : Home[op.plan[i]] # Here

\* The claim at work is open; its answer names the session it has, and there is none
\* unless the start threw after it was made.
ClaimFits ==
  /\ Admitting =>
       /\ op.then \in {"replay", "claim"}
       /\ op.task \in Tasks
       /\ \E c \in mem[Here].claims : c.id = op.claim /\ c.task = op.task /\ c.state = "claimed"
  /\ op.at = "settle" =>
       IF op.session = 0 THEN op.claim \in halfway \/ Receipts = {}
       ELSE \E s \in Receipts : s.id = op.session /\ s.task = op.task

\* The inductive invariant.
QueueInv ==
  /\ ImagesFit
  /\ ClaimsAreSaved
  /\ ClaimsAreApart
  /\ ServiceTypes
  /\ PlanFits
  /\ ClaimFits

-------------------------------------------------------------------------------
(* One image. *)

\* A later clock and more claims that failed half way change nothing.
LEMMA FitsLater ==
  ASSUME NEW p \in Projects, NEW image, NEW k \in Nat, NEW j \in Nat, NEW h, NEW g,
         ImageFits(p, image, k, h), k <= j, h \subseteq g
  PROVE  ImageFits(p, image, j, g)
<1>1. Numbered(p, image, j)
  <2>1. image.claims \subseteq ClaimRecords /\ image.sessions \subseteq SessionRecords
        /\ image.since \in [TasksOf(p) -> 0..MaxClock]
    BY DEF ImageFits, Shaped, ImageRecords
  <2>2. MaxClock \in Nat
    BY QueueAssumption
  <2> QED
    BY <2>1, <2>2 DEF ImageFits, Numbered, ClaimRecords, SessionRecords
<1>2. ClaimsAreTrue(image, g)
  BY DEF ImageFits, ClaimsAreTrue
<1> QED
  BY <1>1, <1>2 DEF ImageFits

\* The fields of the members of a shaped image.
LEMMA ShapedFields ==
  ASSUME NEW p \in Projects, NEW image, Shaped(p, image)
  PROVE  /\ image = [auto |-> image.auto, paused |-> image.paused, claims |-> image.claims,
                     sessions |-> image.sessions, since |-> image.since]
         /\ image.auto \in BOOLEAN
         /\ image.paused \in BOOLEAN
         /\ \A c \in image.claims :
              /\ c.id \in 1..MaxClock /\ c.task \in Tasks /\ c.moment \in 1..MaxClock
              /\ c.state \in {"claimed", "started", "refused"} /\ c.session \in 0..MaxClock
         /\ \A s \in image.sessions :
              /\ s.id \in 1..MaxClock /\ s.task \in Tasks /\ s.by \in {"person", "queue"}
              /\ s.command \in 0..MaxClock /\ s.moment \in 0..MaxClock /\ s.active \in BOOLEAN
         /\ image.since \in [TasksOf(p) -> 0..MaxClock]
         /\ MaxClock \in Nat
<1>1. image \in ImageRecords(p)
  BY DEF Shaped
<1>2. /\ image = [auto |-> image.auto, paused |-> image.paused, claims |-> image.claims,
                  sessions |-> image.sessions, since |-> image.since]
      /\ image.auto \in BOOLEAN
      /\ image.paused \in BOOLEAN
      /\ image.claims \subseteq ClaimRecords
      /\ image.sessions \subseteq SessionRecords
      /\ image.since \in [TasksOf(p) -> 0..MaxClock]
  BY <1>1 DEF ImageRecords
<1> QED
  BY <1>2, QueueAssumption DEF ClaimRecords, SessionRecords

\* The switches are of no consequence to it.
LEMMA SwitchFits ==
  ASSUME NEW p \in Projects, NEW image, NEW k \in Nat, NEW h, ImageFits(p, image, k, h),
         NEW a \in BOOLEAN, NEW b \in BOOLEAN,
         NEW new, new = [auto |-> a, paused |-> b, claims |-> image.claims,
                         sessions |-> image.sessions, since |-> image.since]
  PROVE  ImageFits(p, new, k, h)
<1>1. /\ new.claims = image.claims /\ new.sessions = image.sessions /\ new.since = image.since
      /\ new.auto = a /\ new.paused = b
  OBVIOUS
<1>2. Shaped(p, new)
  BY <1>1 DEF ImageFits, Shaped, ImageRecords
<1> QED
  BY <1>1, <1>2 DEF ImageFits, Numbered, ClaimsAreOne, SessionsAreClaimed, CommandsAreOne,
     ReadyIsLater, ClaimsAreTrue, Consented

\* A task becomes Ready now.
LEMMA ReopenFits ==
  ASSUME NEW p \in Projects, NEW image, NEW k \in Nat, NEW h, ImageFits(p, image, k, h),
         k < MaxClock, NEW t \in TasksOf(p),
         NEW new, new = [image EXCEPT !.since[t] = k + 1]
  PROVE  ImageFits(p, new, k + 1, h)
<1>0. Shaped(p, image)
  BY DEF ImageFits
<1>1. /\ new.claims = image.claims /\ new.sessions = image.sessions
      /\ new.since = [image.since EXCEPT ![t] = k + 1]
      /\ new.auto = image.auto /\ new.paused = image.paused
      /\ new = [auto |-> new.auto, paused |-> new.paused, claims |-> new.claims,
                sessions |-> new.sessions, since |-> new.since]
  BY <1>0, ShapedFields
<1>2. new.since \in [TasksOf(p) -> 0..MaxClock]
  BY <1>0, <1>1, ShapedFields
<1>3. Shaped(p, new)
  <2>1. image.claims \in SUBSET ClaimRecords /\ image.sessions \in SUBSET SessionRecords
        /\ image.auto \in BOOLEAN /\ image.paused \in BOOLEAN
    BY <1>0 DEF Shaped, ImageRecords
  <2>2. new \in ImageRecords(p)
    BY <1>1, <1>2, <2>1 DEF ImageRecords
  <2> QED
    BY <1>0, <1>1, <2>2 DEF Shaped
<1>4. Numbered(p, new, k + 1)
  BY <1>0, <1>1, <1>2, ShapedFields DEF ImageFits, Numbered
<1>5. ReadyIsLater(new)
  BY <1>0, <1>1, <1>2, ShapedFields DEF ImageFits, Numbered, ReadyIsLater
<1> QED
  BY <1>1, <1>3, <1>4, <1>5 DEF ImageFits, ClaimsAreOne, SessionsAreClaimed, CommandsAreOne,
     ClaimsAreTrue, Consented

\* A finite set whose members are each replaced stays finite.
LEMMA EndedIsFinite ==
  ASSUME NEW S, NEW tasks, IsFiniteSet(S)
  PROVE  IsFiniteSet({[s EXCEPT !.active = @ /\ s.task \notin tasks] : s \in S})
<1> DEFINE end(s) == [s EXCEPT !.active = @ /\ s.task \notin tasks]
           T == {end(s) : s \in S}
           f == [s \in S |-> end(s)]
<1>1. f \in Surjection(S, T)
  BY DEF Surjection
<1> QED
  BY <1>1, FS_Surjection
LEMMA SettledIsFinite ==
  ASSUME NEW S, IsFiniteSet(S)
  PROVE  IsFiniteSet({Settled(c) : c \in S})
<1> DEFINE T == {Settled(c) : c \in S}
           f == [c \in S |-> Settled(c)]
<1>1. f \in Surjection(S, T)
  BY DEF Surjection
<1> QED
  BY <1>1, FS_Surjection

\* The sessions end.
LEMMA EndedFits ==
  ASSUME NEW p \in Projects, NEW image, NEW k \in Nat, NEW h, NEW tasks,
         ImageFits(p, image, k, h)
  PROVE  /\ ImageFits(p, Ended(image, tasks), k, h)
         /\ Ended(image, tasks).claims = image.claims
<1> DEFINE new == Ended(image, tasks)
           end(s) == [s EXCEPT !.active = @ /\ s.task \notin tasks]
<1>0. Shaped(p, image)
  BY DEF ImageFits
<1>1. /\ new.claims = image.claims /\ new.since = image.since
      /\ new.sessions = {end(s) : s \in image.sessions}
      /\ new.auto = image.auto /\ new.paused = image.paused
      /\ new = [auto |-> new.auto, paused |-> new.paused, claims |-> new.claims,
                sessions |-> new.sessions, since |-> new.since]
  <2> DEFINE T == {end(s) : s \in image.sessions}
  <2>1. new = [image EXCEPT !.sessions = T]
    BY DEF Ended
  <2>2. image = [auto |-> image.auto, paused |-> image.paused, claims |-> image.claims,
                 sessions |-> image.sessions, since |-> image.since]
    BY <1>0, ShapedFields
  <2> HIDE DEF new, T
  <2>3. new = [auto |-> image.auto, paused |-> image.paused, claims |-> image.claims,
               sessions |-> T, since |-> image.since]
    BY <2>1, <2>2
  <2> QED
    BY <2>3 DEF T
<1>2. ASSUME NEW s \in image.sessions
      PROVE  /\ end(s) \in SessionRecords
             /\ end(s).id = s.id /\ end(s).task = s.task /\ end(s).by = s.by
             /\ end(s).command = s.command /\ end(s).moment = s.moment
             /\ end(s) \in new.sessions
  <2>1. s \in SessionRecords
    BY <1>0 DEF Shaped, ImageRecords
  <2> QED
    BY <1>1, <2>1 DEF SessionRecords
<1>3. \A r \in new.sessions : \E s \in image.sessions : r = end(s)
  BY <1>1
<1>4. Shaped(p, new)
  <2>1. image.claims \in SUBSET ClaimRecords /\ image.since \in [TasksOf(p) -> 0..MaxClock]
        /\ image.auto \in BOOLEAN /\ image.paused \in BOOLEAN
    BY <1>0 DEF Shaped, ImageRecords
  <2>2. new.sessions \in SUBSET SessionRecords
    BY <1>2, <1>3
  <2>3. new \in ImageRecords(p)
    BY <1>1, <2>1, <2>2 DEF ImageRecords
  <2>4. IsFiniteSet(new.sessions)
    <3>1. IsFiniteSet(image.sessions)
      BY <1>0 DEF Shaped
    <3>2. IsFiniteSet({[s EXCEPT !.active = @ /\ s.task \notin tasks] : s \in image.sessions})
      BY ONLY <3>1, EndedIsFinite, ZenonT(30)
    <3> QED
      BY <1>1, <3>2
  <2> QED
    BY <1>0, <1>1, <2>3, <2>4 DEF Shaped
<1> HIDE DEF new, end
<1>5. Numbered(p, new, k)
  BY <1>1, <1>2, <1>3 DEF ImageFits, Numbered
<1>6. SessionsAreClaimed(new)
  BY <1>1, <1>2, <1>3 DEF ImageFits, SessionsAreClaimed
<1>7. CommandsAreOne(new)
  BY <1>1, <1>2, <1>3 DEF ImageFits, CommandsAreOne
<1>8. ReadyIsLater(new)
  BY <1>1, <1>2, <1>3 DEF ImageFits, ReadyIsLater
<1>9. ClaimsAreTrue(new, h)
  BY <1>1, <1>2, <1>3 DEF ImageFits, ClaimsAreTrue
<1>10. Consented(new)
  <2>1. ASSUME NEW r \in new.sessions, r.by = "queue", r.task \in Native
        PROVE  \E u \in new.sessions : u.by = "person" /\ u.task = r.task /\ u.id < r.id
    <3>1. PICK s \in image.sessions : r = end(s)
      BY <1>3
    <3>2. PICK u \in image.sessions : u.by = "person" /\ u.task = s.task /\ u.id < s.id
      BY <1>2, <2>1, <3>1 DEF ImageFits, Consented
    <3> QED
      BY <1>2, <3>1, <3>2
  <2> QED
    BY <2>1 DEF Consented
<1>11. ClaimsAreOne(new)
  BY <1>1 DEF ImageFits, ClaimsAreOne
<1>12. ImageFits(p, new, k, h)
  BY <1>4, <1>5, <1>6, <1>7, <1>8, <1>9, <1>10, <1>11 DEF ImageFits
<1> QED
  BY <1>1, <1>12 DEF new

\* What a session that begins changes.
LEMMA BegunFields ==
  ASSUME NEW p \in Projects, NEW image, Shaped(p, image),
         NEW s \in SessionRecords, Home[s.task] = p
  PROVE  /\ Shaped(p, Begun(image, s))
         /\ Begun(image, s).claims = image.claims
         /\ Begun(image, s).sessions = image.sessions \cup {s}
         /\ Begun(image, s).since = [image.since EXCEPT ![s.task] = 0]
         /\ s.task \in TasksOf(p)
<1> DEFINE new == Begun(image, s)
           S == image.sessions \cup {s}
           N == [image.since EXCEPT ![s.task] = 0]
<1>1. new = [auto |-> image.auto, paused |-> image.paused, claims |-> image.claims,
             sessions |-> S, since |-> N]
  <2>1. new = [image EXCEPT !.sessions = S, !.since = N]
    BY DEF Begun
  <2>2. image = [auto |-> image.auto, paused |-> image.paused, claims |-> image.claims,
                 sessions |-> image.sessions, since |-> image.since]
    BY ShapedFields
  <2> HIDE DEF new, S, N
  <2> QED
    BY <2>1, <2>2
<1>2. s.task \in TasksOf(p)
  BY DEF SessionRecords, TasksOf
<1>3. N \in [TasksOf(p) -> 0..MaxClock]
  BY <1>2, ShapedFields
<1>4. S \in SUBSET SessionRecords /\ IsFiniteSet(S)
  <2>1. image.sessions \in SUBSET SessionRecords /\ IsFiniteSet(image.sessions)
    BY DEF Shaped, ImageRecords
  <2>2. IsFiniteSet(S)
    BY <2>1, FS_AddElement
  <2> QED
    BY <2>1, <2>2
<1>5. image.claims \in SUBSET ClaimRecords /\ IsFiniteSet(image.claims)
      /\ image.auto \in BOOLEAN /\ image.paused \in BOOLEAN
  BY DEF Shaped, ImageRecords
<1>6. /\ new.claims = image.claims /\ new.sessions = S /\ new.since = N
  BY <1>1
<1> HIDE DEF S, N, new
<1>7. new \in ImageRecords(p)
  BY <1>1, <1>3, <1>4, <1>5 DEF ImageRecords
<1>8. Shaped(p, new)
  BY <1>4, <1>5, <1>6, <1>7 DEF Shaped
<1> QED
  BY <1>2, <1>6, <1>8 DEF S, N, new

\* What both starts have in common.
LEMMA BegunFits ==
  ASSUME NEW p \in Projects, NEW image, NEW k \in Nat, NEW h, ImageFits(p, image, k, h),
         NEW s \in SessionRecords, Home[s.task] = p, s.id = k + 1, s.moment <= k
  PROVE  /\ Shaped(p, Begun(image, s))
         /\ Numbered(p, Begun(image, s), k + 1)
         /\ ClaimsAreOne(Begun(image, s))
         /\ ReadyIsLater(Begun(image, s))
<1> DEFINE new == Begun(image, s)
<1>1. Shaped(p, image)
  BY DEF ImageFits
<1>2. /\ Shaped(p, new)
      /\ new.claims = image.claims
      /\ new.sessions = image.sessions \cup {s}
      /\ new.since = [image.since EXCEPT ![s.task] = 0]
      /\ s.task \in TasksOf(p)
  BY <1>1, BegunFields
<1> HIDE DEF new
<1>3. s.moment \in Nat /\ s.id \in Nat
  BY QueueAssumption DEF SessionRecords
<1>4. Numbered(p, new, k + 1)
  BY <1>1, <1>2, <1>3, ShapedFields DEF ImageFits, Numbered
<1>5. ClaimsAreOne(new)
  BY <1>2 DEF ImageFits, ClaimsAreOne
<1>6. ReadyIsLater(new)
  <2>1. ASSUME NEW r \in new.sessions
        PROVE  new.since[r.task] = 0 \/ new.since[r.task] > r.id
    <3>1. CASE r.task = s.task
      BY <1>1, <1>2, <3>1, ShapedFields
    <3>2. CASE r.task # s.task
      <4>1. r \in image.sessions
        BY <1>2, <2>1, <3>2
      <4>2. r.task \in TasksOf(p)
        BY <1>1, <4>1, ShapedFields DEF ImageFits, Numbered, TasksOf
      <4>3. new.since[r.task] = image.since[r.task]
        BY <1>1, <1>2, <3>2, <4>2, ShapedFields
      <4> QED
        BY <4>1, <4>3 DEF ImageFits, ReadyIsLater
    <3> QED
      BY <3>1, <3>2
  <2> QED
    BY <2>1 DEF ReadyIsLater
<1> QED
  BY <1>2, <1>4, <1>5, <1>6 DEF new

\* A person starts a task.
LEMMA PersonBegins ==
  ASSUME NEW p \in Projects, NEW image, NEW k \in Nat, NEW h, ImageFits(p, image, k, h),
         NEW s \in SessionRecords, Home[s.task] = p, s.id = k + 1, s.moment <= k,
         s.by = "person", s.command = 0
  PROVE  ImageFits(p, Begun(image, s), k + 1, h)
<1> DEFINE new == Begun(image, s)
<1>1. /\ Shaped(p, new)
      /\ Numbered(p, new, k + 1)
      /\ ClaimsAreOne(new)
      /\ ReadyIsLater(new)
  BY BegunFits
<1>0. Shaped(p, image)
  BY DEF ImageFits
<1>2. /\ Shaped(p, new)
      /\ new.claims = image.claims
      /\ new.sessions = image.sessions \cup {s}
      /\ new.since = [image.since EXCEPT ![s.task] = 0]
      /\ s.task \in TasksOf(p)
  BY <1>0, BegunFields
<1> HIDE DEF new
<1>3. SessionsAreClaimed(new)
  BY <1>2 DEF ImageFits, SessionsAreClaimed
<1>4. CommandsAreOne(new)
  BY <1>2 DEF ImageFits, CommandsAreOne
<1>5. ClaimsAreTrue(new, h)
  <2>1. \A c \in image.claims : c.id # s.command
    BY <1>0, ShapedFields
  <2>2. ASSUME NEW c \in new.claims
        PROVE  /\ c.session # 0 <=> c.state = "started"
               /\ c.state = "started" =>
                    \E u \in new.sessions : u.id = c.session /\ u.command = c.id /\ u.task = c.task
               /\ c.state = "refused" /\ c.id \notin h => \A u \in new.sessions : u.command # c.id
    BY <1>2, <2>1, <2>2 DEF ImageFits, ClaimsAreTrue
  <2> QED
    BY <2>2 DEF ClaimsAreTrue
<1>6. Consented(new)
  BY <1>2 DEF ImageFits, Consented
<1>7. ImageFits(p, new, k + 1, h)
  BY <1>1, <1>3, <1>4, <1>5, <1>6 DEF ImageFits
<1> QED
  BY <1>7 DEF new

\* The queue starts the task of an open claim whose command nothing carries yet.
LEMMA QueueBegins ==
  ASSUME NEW p \in Projects, NEW image, NEW k \in Nat, NEW h, ImageFits(p, image, k, h),
         NEW s \in SessionRecords, Home[s.task] = p, s.id = k + 1, s.by = "queue",
         NEW c \in image.claims, c.state = "claimed", c.task = s.task,
         s.command = c.id, s.moment = c.moment,
         \A u \in image.sessions : u.command # c.id,
         Confirmed(s.task, image)
  PROVE  ImageFits(p, Begun(image, s), k + 1, h)
<1> DEFINE new == Begun(image, s)
<1>1. Shaped(p, image)
  BY DEF ImageFits
<1>2. s.moment <= k /\ s.command # 0
  BY <1>1, ShapedFields DEF ImageFits, Numbered
<1>3. /\ Shaped(p, new)
      /\ Numbered(p, new, k + 1)
      /\ ClaimsAreOne(new)
      /\ ReadyIsLater(new)
  BY <1>2, BegunFits
<1>4. /\ Shaped(p, new)
      /\ new.claims = image.claims
      /\ new.sessions = image.sessions \cup {s}
      /\ new.since = [image.since EXCEPT ![s.task] = 0]
      /\ s.task \in TasksOf(p)
  BY <1>1, BegunFields
<1> HIDE DEF new
<1>5. SessionsAreClaimed(new)
  BY <1>4 DEF ImageFits, SessionsAreClaimed
<1>6. CommandsAreOne(new)
  BY <1>4 DEF ImageFits, CommandsAreOne
<1>7. ClaimsAreTrue(new, h)
  <2>1. ASSUME NEW d \in new.claims
        PROVE  /\ d.session # 0 <=> d.state = "started"
               /\ d.state = "started" =>
                    \E u \in new.sessions : u.id = d.session /\ u.command = d.id /\ u.task = d.task
               /\ d.state = "refused" /\ d.id \notin h => \A u \in new.sessions : u.command # d.id
    <3>1. d \in image.claims /\ (d.id = c.id => d = c)
      BY <1>4, <2>1 DEF ImageFits, ClaimsAreOne
    <3>2. d.state = "refused" => d.id # s.command
      BY <3>1
    <3> QED
      BY <1>4, <3>1, <3>2 DEF ImageFits, ClaimsAreTrue
  <2> QED
    BY <2>1 DEF ClaimsAreTrue
<1>8. Consented(new)
  <2>1. ASSUME s.task \in Native
        PROVE  \E u \in image.sessions : u.by = "person" /\ u.task = s.task /\ u.id < s.id
    <3>1. PICK r \in image.sessions : r.task = s.task
      BY <2>1 DEF Confirmed
    <3>2. r.id < s.id
      BY <1>1, <3>1, ShapedFields DEF ImageFits, Numbered
    <3>3. CASE r.by = "person"
      BY <3>1, <3>2, <3>3
    <3>4. CASE r.by = "queue"
      <4>1. PICK u \in image.sessions : u.by = "person" /\ u.task = r.task /\ u.id < r.id
        BY <2>1, <3>1, <3>4 DEF ImageFits, Consented
      <4>2. u.id \in Nat /\ r.id \in Nat
        BY <1>1, <4>1, ShapedFields
      <4> QED
        BY <3>1, <3>2, <4>1, <4>2
    <3> QED
      BY <1>1, <3>1, <3>3, <3>4, ShapedFields
  <2>2. ASSUME NEW v \in new.sessions, v.by = "queue", v.task \in Native
        PROVE  \E u \in new.sessions : u.by = "person" /\ u.task = v.task /\ u.id < v.id
    <3>1. CASE v = s
      BY <1>4, <2>1, <2>2, <3>1
    <3>2. CASE v \in image.sessions
      BY <1>4, <2>2, <3>2 DEF ImageFits, Consented
    <3> QED
      BY <1>4, <2>2, <3>1, <3>2
  <2> QED
    BY <2>2 DEF Consented
<1>9. ImageFits(p, new, k + 1, h)
  BY <1>3, <1>5, <1>6, <1>7, <1>8 DEF ImageFits
<1> QED
  BY <1>9 DEF new

\* The moment of what was started is over.
LEMMA StartedIsOver ==
  ASSUME NEW p \in Projects, NEW image, NEW k \in Nat, NEW h, ImageFits(p, image, k, h),
         NEW d \in image.claims, d.state = "started"
  PROVE  image.since[d.task] = 0 \/ image.since[d.task] > d.moment
<1>1. Shaped(p, image)
  BY DEF ImageFits
<1>2. PICK s \in image.sessions : s.id = d.session /\ s.command = d.id /\ s.task = d.task
  BY DEF ImageFits, ClaimsAreTrue
<1>3. s.command # 0 /\ s.by \in {"person", "queue"}
  BY <1>1, <1>2, ShapedFields
<1>4. PICK c \in image.claims : c.id = s.command /\ c.task = s.task /\ c.moment = s.moment
  BY <1>2, <1>3 DEF ImageFits, SessionsAreClaimed
<1>5. c = d
  BY <1>2, <1>4 DEF ImageFits, ClaimsAreOne
<1>6. d.moment < s.id
  BY <1>2, <1>4, <1>5 DEF ImageFits, Numbered
<1>7. d.task \in TasksOf(p)
  BY <1>1, ShapedFields DEF ImageFits, Numbered, TasksOf
<1>8. image.since[d.task] \in Nat /\ s.id \in Nat /\ d.moment \in Nat
  BY <1>1, <1>2, <1>7, ShapedFields
<1> QED
  BY <1>2, <1>6, <1>8 DEF ImageFits, ReadyIsLater

\* A task in line is claimed.
LEMMA ClaimedFits ==
  ASSUME NEW p \in Projects, NEW image, NEW k \in Nat, NEW h, ImageFits(p, image, k, h),
         k < MaxClock, NEW t \in TasksOf(p), image.since[t] > 0,
         \A d \in image.claims :
           d.task # t \/ (d.state # "claimed" /\ (d.state = "refused" => d.moment # image.since[t])),
         NEW c, c = [id |-> k + 1, task |-> t, moment |-> image.since[t], state |-> "claimed",
                     session |-> 0],
         NEW new, new = [image EXCEPT !.claims = @ \cup {c}]
  PROVE  /\ ImageFits(p, new, k + 1, h)
         /\ new.claims = image.claims \cup {c}
<1>0. Shaped(p, image)
  BY DEF ImageFits
<1>1. /\ new.claims = image.claims \cup {c} /\ new.sessions = image.sessions
      /\ new.since = image.since /\ new.auto = image.auto /\ new.paused = image.paused
      /\ new = [auto |-> image.auto, paused |-> image.paused,
                claims |-> image.claims \cup {c},
                sessions |-> image.sessions, since |-> image.since]
  BY <1>0, ShapedFields, SMTT(30)
<1>2. /\ c.id = k + 1 /\ c.task = t /\ c.moment = image.since[t] /\ c.state = "claimed"
      /\ c.session = 0
  OBVIOUS
<1>3. c.moment \in 1..MaxClock /\ c.moment <= k /\ t \in Tasks /\ Home[t] = p
  <2>1. t \in Tasks /\ Home[t] = p
    BY DEF TasksOf
  <2>2. image.since[t] \in 0..MaxClock /\ MaxClock \in Nat
    BY <1>0, ShapedFields
  <2>3. image.since[t] <= k
    BY DEF ImageFits, Numbered
  <2> QED
    BY <1>2, <2>1, <2>2, <2>3
<1>4. Shaped(p, new)
  <2>1. c \in ClaimRecords
    BY <1>2, <1>3, QueueAssumption DEF ClaimRecords
  <2>2. image.claims \in SUBSET ClaimRecords /\ image.sessions \in SUBSET SessionRecords
        /\ image.auto \in BOOLEAN /\ image.paused \in BOOLEAN
        /\ image.since \in [TasksOf(p) -> 0..MaxClock]
        /\ IsFiniteSet(image.claims) /\ IsFiniteSet(image.sessions)
    BY <1>0 DEF Shaped, ImageRecords
  <2>3. IsFiniteSet(image.claims \cup {c})
    BY <2>2, FS_AddElement
  <2>4. image.claims \cup {c} \in SUBSET ClaimRecords
    BY <2>1, <2>2
  <2>5. new \in ImageRecords(p)
    BY <1>1, <2>2, <2>4 DEF ImageRecords
  <2> QED
    BY <1>1, <2>2, <2>3, <2>5 DEF Shaped
<1>5. Numbered(p, new, k + 1)
  BY <1>0, <1>1, <1>2, <1>3, ShapedFields DEF ImageFits, Numbered
<1>6. ClaimsAreOne(new)
  <2>1. ASSUME NEW d \in image.claims
        PROVE  d.id # c.id /\ ~(d.task = c.task /\ d.moment = c.moment)
    <3>1. d.id # c.id
      BY <1>0, <1>2, ShapedFields DEF ImageFits, Numbered
    <3>2. CASE d.state = "started"
      BY <1>0, <1>2, <1>3, <3>1, <3>2, StartedIsOver, ShapedFields
    <3>3. CASE d.state # "started"
      BY <1>0, <1>2, <3>1, <3>3, ShapedFields
    <3> QED
      BY <3>2, <3>3
  <2> QED
    BY <1>1, <2>1 DEF ImageFits, ClaimsAreOne
<1>7. SessionsAreClaimed(new)
  BY <1>1 DEF ImageFits, SessionsAreClaimed
<1>8. ClaimsAreTrue(new, h)
  BY <1>1, <1>2 DEF ImageFits, ClaimsAreTrue
<1>9. CommandsAreOne(new) /\ ReadyIsLater(new) /\ Consented(new)
  BY <1>1 DEF ImageFits, CommandsAreOne, ReadyIsLater, Consented
<1>10. ImageFits(p, new, k + 1, h)
  BY <1>4, <1>5, <1>6, <1>7, <1>8, <1>9 DEF ImageFits
<1> QED
  BY <1>1, <1>10

\* The claim at work is settled by what its start answered.
LEMMA SettledFits ==
  ASSUME NEW p \in Projects, NEW image, NEW k \in Nat, NEW h, ImageFits(p, image, k, h),
         op.session \in 0..MaxClock,
         NEW c \in image.claims, c.id = op.claim, c.state = "claimed",
         IF op.session = 0 THEN op.claim \in h \/ \A s \in image.sessions : s.command # op.claim
         ELSE \E s \in image.sessions :
                s.id = op.session /\ s.command = op.claim /\ s.task = c.task,
         NEW new, new = [image EXCEPT !.claims = {Settled(d) : d \in @}]
  PROVE  /\ ImageFits(p, new, k, h)
         /\ new.claims = {Settled(d) : d \in image.claims}
         /\ \A d \in image.claims : Settled(d).id = d.id
         /\ new.sessions = image.sessions
<1> DEFINE T == {Settled(d) : d \in image.claims}
<1>0. Shaped(p, image)
  BY DEF ImageFits
<1>1. /\ new.claims = T /\ new.sessions = image.sessions
      /\ new.since = image.since /\ new.auto = image.auto /\ new.paused = image.paused
      /\ new = [auto |-> image.auto, paused |-> image.paused, claims |-> T,
                sessions |-> image.sessions, since |-> image.since]
  <2>1. new = [image EXCEPT !.claims = T]
    OBVIOUS
  <2>2. image = [auto |-> image.auto, paused |-> image.paused, claims |-> image.claims,
                 sessions |-> image.sessions, since |-> image.since]
    BY <1>0, ShapedFields
  <2> HIDE DEF T
  <2> QED
    BY <2>1, <2>2
<1>2. ASSUME NEW d \in image.claims
      PROVE  /\ Settled(d) \in ClaimRecords /\ Settled(d).id = d.id /\ Settled(d).task = d.task
             /\ Settled(d).moment = d.moment
             /\ d # c => Settled(d) = d
             /\ d = c => /\ Settled(d).state = IF op.session # 0 THEN "started" ELSE "refused"
                         /\ Settled(d).session = op.session
             /\ Settled(d) \in T
  <2>1. d \in ClaimRecords /\ (d.id = op.claim <=> d = c)
    BY <1>0 DEF Shaped, ImageRecords, ImageFits, ClaimsAreOne
  <2>2. CASE d # c
    BY <2>1, <2>2 DEF Settled
  <2>3. CASE d = c
    <3>1. Settled(d) = [d EXCEPT !.state = IF op.session # 0 THEN "started" ELSE "refused",
                                 !.session = op.session]
      BY <2>1, <2>3 DEF Settled
    <3> QED
      BY <2>1, <2>3, <3>1 DEF ClaimRecords
  <2> QED
    BY <2>2, <2>3
<1>3. \A e \in T : \E d \in image.claims : e = Settled(d)
  OBVIOUS
<1>4. Shaped(p, new)
  <2>2. image.claims \in SUBSET ClaimRecords /\ image.sessions \in SUBSET SessionRecords
        /\ image.auto \in BOOLEAN /\ image.paused \in BOOLEAN
        /\ image.since \in [TasksOf(p) -> 0..MaxClock]
        /\ IsFiniteSet(image.claims) /\ IsFiniteSet(image.sessions)
    BY <1>0 DEF Shaped, ImageRecords
  <2>3. IsFiniteSet(T)
    BY <2>2, SettledIsFinite
  <2>4. T \in SUBSET ClaimRecords
    BY <1>2, <1>3
  <2> HIDE DEF T
  <2>5. new \in ImageRecords(p)
    BY <1>1, <2>2, <2>4 DEF ImageRecords
  <2> QED
    BY <1>1, <2>2, <2>3, <2>5 DEF Shaped
<1> HIDE DEF T
<1>5. Numbered(p, new, k)
  BY <1>1, <1>2, <1>3 DEF ImageFits, Numbered
<1>6. ClaimsAreOne(new)
  BY <1>1, <1>2, <1>3 DEF ImageFits, ClaimsAreOne
<1>7. SessionsAreClaimed(new)
  BY <1>1, <1>2 DEF ImageFits, SessionsAreClaimed
<1>8. ClaimsAreTrue(new, h)
  <2>1. ASSUME NEW e \in new.claims
        PROVE  /\ e.session # 0 <=> e.state = "started"
               /\ e.state = "started" =>
                    \E u \in new.sessions : u.id = e.session /\ u.command = e.id /\ u.task = e.task
               /\ e.state = "refused" /\ e.id \notin h => \A u \in new.sessions : u.command # e.id
    <3>1. PICK d \in image.claims : e = Settled(d)
      BY <1>1, <1>3, <2>1
    <3>2. CASE d # c
      BY <1>1, <1>2, <3>1, <3>2 DEF ImageFits, ClaimsAreTrue
    <3>3. CASE d = c /\ op.session = 0
      BY <1>1, <1>2, <3>1, <3>3
    <3>4. CASE d = c /\ op.session # 0
      BY <1>1, <1>2, <3>1, <3>4
    <3> QED
      BY <3>2, <3>3, <3>4
  <2> QED
    BY <2>1 DEF ClaimsAreTrue
<1>9. CommandsAreOne(new) /\ ReadyIsLater(new) /\ Consented(new)
  BY <1>1 DEF ImageFits, CommandsAreOne, ReadyIsLater, Consented
<1>10. ImageFits(p, new, k, h)
  BY <1>4, <1>5, <1>6, <1>7, <1>8, <1>9 DEF ImageFits
<1> QED
  BY <1>1, <1>2, <1>10 DEF T

-------------------------------------------------------------------------------
(* What a pass may plan. *)

LEMMA ProjectHasImage ==
  ASSUME ImagesFit, NEW p \in Projects
  PROVE  ImageFits(p, mem[p], clock, halfway) /\ Shaped(p, mem[p])
BY DEF ImagesFit, ImageFits

LEMMA LargestOfTwo ==
  ASSUME NEW a \in Nat, NEW b \in Nat
  PROVE  Largest({a, b}) \in Nat
<1>1. \E n \in {a, b} : \A m \in {a, b} : m <= n
  <2>1. CASE a <= b
    BY <2>1
  <2>2. CASE b <= a
    BY <2>2
  <2> QED
    BY <2>1, <2>2
<1>2. Largest({a, b}) \in {a, b}
  BY <1>1 DEF Largest
<1> QED
  BY <1>2

\* What counts against the limits is a number.
LEMMA UsedIsNumber ==
  ASSUME ImagesFit, NEW p \in Projects
  PROVE  Used(p, mem, runs) \in Nat
<1>1. IsFiniteSet(mem[p].sessions) /\ IsFiniteSet(mem[p].claims)
  BY ProjectHasImage DEF Shaped
<1>2. Cardinality(Active(mem[p])) \in Nat
  <2>1. Active(mem[p]) \in SUBSET mem[p].sessions
    BY DEF Active
  <2> QED
    BY <1>1, <2>1, FS_Subset, FS_CardinalityType
<1>3. Cardinality(Pending(mem[p])) \in Nat
  <2>1. Pending(mem[p]) \in SUBSET mem[p].claims
    BY DEF Pending
  <2> QED
    BY <1>1, <2>1, FS_Subset, FS_CardinalityType
<1> DEFINE r == IF runs[p] # 0 THEN 1 ELSE 0
<1>4. r \in Nat
  OBVIOUS
<1>5. Largest({Cardinality(Active(mem[p])), r}) \in Nat
  <2> HIDE DEF r
  <2> QED
    BY <1>2, <1>4, LargestOfTwo
<1> QED
  BY <1>3, <1>5 DEF Used
LEMMA RunningIsNumber ==
  ASSUME ImagesFit
  PROVE  Running(mem, runs) \in Nat
<1> DEFINE part(p) == {p} \X (1..Used(p, mem, runs))
           parts == {part(p) : p \in Projects}
           f == [p \in Projects |-> part(p)]
<1>1. IsFiniteSet(parts)
  <2>1. f \in Surjection(Projects, parts)
    BY DEF Surjection
  <2> QED
    BY <2>1, QueueAssumption, FS_Surjection
<1>2. ASSUME NEW p \in Projects
      PROVE  IsFiniteSet(part(p))
  <2>1. IsFiniteSet({p})
    BY FS_Singleton
  <2>2. IsFiniteSet(1..Used(p, mem, runs))
    BY UsedIsNumber, FS_Interval
  <2> QED
    BY <2>1, <2>2, FS_Product
<1>3. \A T \in parts : IsFiniteSet(T)
  BY <1>2
<1>4. IsFiniteSet(UNION parts)
  <2> HIDE DEF parts
  <2> QED
    BY <1>1, <1>3, FS_UNION
<1> QED
  BY <1>4, FS_CardinalityType DEF Running

\* A plan is of tasks in line, of different projects.
LEMMA PlansFit ==
  ASSUME ImagesFit, NEW s \in Plans(mem, runs, allPaused)
  PROVE  /\ s \in Seq(Tasks)
         /\ \A i \in 1..Len(s) : s[i] \in Line(Home[s[i]], mem)
         /\ \A i, j \in 1..Len(s) : i # j => Home[s[i]] # Home[s[j]]
<1> DEFINE open == {p \in Projects : /\ mem[p].auto /\ ~mem[p].paused /\ ~allPaused
                                     /\ Used(p, mem, runs) = 0
                                     /\ Line(p, mem) # {}}
           busy == Running(mem, runs)
           slots == IF busy >= GlobalLimit THEN 0 ELSE GlobalLimit - busy
           n == IF slots < Cardinality(open) THEN slots ELSE Cardinality(open)
           range == UNION {Oldest(p, mem) : p \in open}
<1>1. /\ s \in [1..n -> range]
      /\ \A i, j \in 1..n : i < j => Home[s[i]] # Home[s[j]]
  BY DEF Plans
<1>2. n \in Nat
  <2>1. Cardinality(open) \in Nat
    <3>1. open \in SUBSET Projects
      OBVIOUS
    <3> HIDE DEF open
    <3> QED
      BY <3>1, QueueAssumption, FS_Subset, FS_CardinalityType
  <2>2. slots \in Nat
    <3>1. busy \in Nat
      BY RunningIsNumber
    <3> HIDE DEF busy
    <3> QED
      BY <3>1, QueueAssumption
  <2> HIDE DEF slots, open
  <2> QED
    BY <2>1, <2>2
<1>3. \A t \in range : t \in Tasks /\ t \in Line(Home[t], mem)
  BY DEF Oldest, Line
<1> HIDE DEF n, range
<1>4. s \in Seq(Tasks) /\ Len(s) = n
  BY <1>1, <1>2, <1>3
<1>5. \A i \in 1..n : s[i] \in range
  BY <1>1
<1>6. \A i, j \in 1..n : i # j => Home[s[i]] # Home[s[j]]
  <2>1. ASSUME NEW i \in 1..n, NEW j \in 1..n, i # j
        PROVE  Home[s[i]] # Home[s[j]]
    <3>1. i < j \/ j < i
      BY <1>2, <2>1
    <3> QED
      BY <1>1, <3>1
  <2> QED
    BY <2>1
<1> QED
  BY <1>3, <1>4, <1>5, <1>6

-------------------------------------------------------------------------------
(* The images after a step. *)

LEMMA ReplacedFits ==
  ASSUME NEW f \in [Projects -> Images], NEW k \in Nat, NEW j \in Nat, k <= j,
         NEW h, NEW g, h \subseteq g, \A p \in Projects : ImageFits(p, f[p], k, h),
         NEW p \in Projects, NEW image, ImageFits(p, image, j, g),
         NEW e, e = [f EXCEPT ![p] = image]
  PROVE  /\ e \in [Projects -> Images]
         /\ \A q \in Projects : ImageFits(q, e[q], j, g)
<1>1. image \in Images
  BY DEF ImageFits, Shaped, Images
<1>2. e \in [Projects -> Images]
  BY <1>1
<1>3. ASSUME NEW q \in Projects
      PROVE  ImageFits(q, e[q], j, g)
  <2>1. CASE q = p
    BY <2>1
  <2>2. CASE q # p
    <3>1. e[q] = f[q]
      BY <2>2
    <3>2. ImageFits(q, f[q], j, g)
      BY FitsLater
    <3> QED
      BY <3>1, <3>2
  <2> QED
    BY <2>1, <2>2
<1> QED
  BY <1>2, <1>3

\* One image is replaced, in memory and perhaps on disk.
LEMMA OneImageFits ==
  ASSUME ImagesFit, NEW p \in Projects, NEW image,
         clock \in Nat, clock' \in Nat, clock <= clock', halfway \subseteq halfway',
         ImageFits(p, image, clock', halfway'),
         mem' = [mem EXCEPT ![p] = image],
         disk' = [disk EXCEPT ![p] = image] \/ disk' = disk \/ disk' = mem'
  PROVE  ImagesFit'
<1>1. /\ mem' \in [Projects -> Images]
      /\ \A q \in Projects : ImageFits(q, mem'[q], clock', halfway')
  BY ReplacedFits DEF ImagesFit
<1>2. CASE disk' = [disk EXCEPT ![p] = image]
  <2>1. /\ disk' \in [Projects -> Images]
        /\ \A q \in Projects : ImageFits(q, disk'[q], clock', halfway')
    <3>1. disk \in [Projects -> Images] /\ \A q \in Projects : ImageFits(q, disk[q], clock, halfway)
      BY DEF ImagesFit
    <3> DEFINE e == [disk EXCEPT ![p] = image]
    <3>2. /\ e \in [Projects -> Images]
          /\ \A q \in Projects : ImageFits(q, e[q], clock', halfway')
      <4>1. e = [disk EXCEPT ![p] = image]
        OBVIOUS
      <4> HIDE DEF e
      <4> QED
        BY <3>1, <4>1, ReplacedFits, SMTT(30)
    <3> QED
      BY <1>2, <3>2
  <2> QED
    BY <1>1, <2>1 DEF ImagesFit
<1>3. CASE disk' = disk
  <2>1. \A q \in Projects : ImageFits(q, disk'[q], clock', halfway')
    BY <1>3, FitsLater DEF ImagesFit
  <2> QED
    BY <1>1, <1>3, <2>1 DEF ImagesFit
<1>4. CASE disk' = mem'
  BY <1>1, <1>4 DEF ImagesFit
<1> QED
  BY <1>2, <1>3, <1>4

LEMMA ClockIsNumber ==
  ASSUME ServiceTypes
  PROVE  clock \in Nat /\ clock + 1 \in Nat /\ MaxClock \in Nat /\ clock > 0
         /\ clock <= MaxClock
BY QueueAssumption DEF ServiceTypes

\* The claim at work.
LEMMA ClaimAtWork ==
  ASSUME QueueInv, Admitting
  PROVE  /\ Claimed \in mem[Here].claims
         /\ Claimed.id = op.claim
         /\ Claimed.task = op.task
         /\ Claimed.state = "claimed"
         /\ \A c \in mem[Here].claims : c.id = op.claim => c = Claimed
         /\ op.task \in Tasks
         /\ Here \in Projects
         /\ ImageFits(Here, mem[Here], clock, halfway)
         /\ Shaped(Here, mem[Here])
<1>1. op.task \in Tasks
  BY DEF QueueInv, ClaimFits
<1>2. Here \in Projects
  BY <1>1, QueueAssumption DEF Here
<1>3. ImageFits(Here, mem[Here], clock, halfway) /\ Shaped(Here, mem[Here])
  BY <1>2, ProjectHasImage DEF QueueInv
<1>4. PICK c \in mem[Here].claims : c.id = op.claim /\ c.task = op.task /\ c.state = "claimed"
  BY DEF QueueInv, ClaimFits
<1>5. \A d \in mem[Here].claims : d.id = op.claim => d = c
  BY <1>3, <1>4 DEF ImageFits, ClaimsAreOne
<1>6. Claimed = c
  BY <1>4, <1>5 DEF Claimed
<1> QED
  BY <1>1, <1>2, <1>3, <1>4, <1>5, <1>6

\* The session the queue begins.
LEMMA CarryingFits ==
  ASSUME QueueInv, Admits, clock < MaxClock, NEW active \in BOOLEAN
  PROVE  /\ ImageFits(Here, Begun(mem[Here], Carrying(op.claim, active)), clock + 1, halfway)
         /\ Begun(mem[Here], Carrying(op.claim, active)).claims = mem[Here].claims
         /\ Begun(mem[Here], Carrying(op.claim, active)).sessions =
              mem[Here].sessions \cup {Carrying(op.claim, active)}
         /\ Carrying(op.claim, active).id = clock + 1
         /\ Carrying(op.claim, active).command = op.claim
         /\ Carrying(op.claim, active).task = op.task
<1> DEFINE s == Carrying(op.claim, active)
<1>1. Admitting
  BY DEF Admits, Admitting
<1>2. /\ Claimed \in mem[Here].claims
      /\ Claimed.id = op.claim
      /\ Claimed.task = op.task
      /\ Claimed.state = "claimed"
      /\ op.task \in Tasks
      /\ Here \in Projects
      /\ ImageFits(Here, mem[Here], clock, halfway)
      /\ Shaped(Here, mem[Here])
  BY <1>1, ClaimAtWork
<1>3. clock \in Nat /\ MaxClock \in Nat
  BY ClockIsNumber DEF QueueInv
<1>4. Claimed.id \in 1..MaxClock /\ Claimed.moment \in 1..MaxClock
  BY <1>2, ShapedFields
<1>5. /\ s.id = clock + 1 /\ s.task = op.task /\ s.by = "queue" /\ s.command = Claimed.id
      /\ s.moment = Claimed.moment /\ s.active = active
      /\ s = [id |-> clock + 1, task |-> op.task, by |-> "queue", command |-> Claimed.id,
              moment |-> Claimed.moment, active |-> active]
  BY <1>2 DEF Carrying, Session
<1>6. s \in SessionRecords
  BY <1>2, <1>3, <1>4, <1>5 DEF SessionRecords
<1>7. Home[s.task] = Here
  BY <1>5 DEF Here
<1>8. \A u \in mem[Here].sessions : u.command # Claimed.id
  BY <1>2 DEF Admits, Receipts
<1>9. Confirmed(s.task, mem[Here])
  BY <1>5 DEF Admits
<1> HIDE DEF s
<1>10. ImageFits(Here, Begun(mem[Here], s), clock + 1, halfway)
  BY <1>2, <1>3, <1>5, <1>6, <1>7, <1>8, <1>9, QueueBegins
<1>11. /\ Shaped(Here, Begun(mem[Here], s))
       /\ Begun(mem[Here], s).claims = mem[Here].claims
       /\ Begun(mem[Here], s).sessions = mem[Here].sessions \cup {s}
       /\ Begun(mem[Here], s).since = [mem[Here].since EXCEPT ![s.task] = 0]
       /\ s.task \in TasksOf(Here)
  BY <1>2, <1>6, <1>7, BegunFields
<1> QED
  BY <1>2, <1>5, <1>10, <1>11 DEF s

\* The claim a pass makes.
NewClaim(t) ==
  [id |-> clock + 1, task |-> t, moment |-> mem[Home[t]].since[t], state |-> "claimed",
   session |-> 0]
WithClaim(t) == [mem[Home[t]] EXCEPT !.claims = @ \cup {NewClaim(t)}]
LEMMA NewClaimFits ==
  ASSUME QueueInv, op.plan # <<>>, clock < MaxClock
  PROVE  /\ Head(op.plan) \in Tasks
         /\ Home[Head(op.plan)] \in Projects
         /\ ImageFits(Home[Head(op.plan)], WithClaim(Head(op.plan)), clock + 1, halfway)
         /\ WithClaim(Head(op.plan)).claims =
              mem[Home[Head(op.plan)]].claims \cup {NewClaim(Head(op.plan))}
<1> DEFINE t == Head(op.plan)
           p == Home[t]
<1>1. op.plan \in Seq(Tasks) /\ 1 \in 1..Len(op.plan) /\ t = op.plan[1]
  BY DEF QueueInv, ServiceTypes, OpRecords
<1>2. t \in Line(p, mem)
  BY <1>1 DEF QueueInv, PlanFits
<1>3. t \in Tasks /\ p \in Projects /\ t \in TasksOf(p)
  BY <1>2, QueueAssumption DEF Line, TasksOf
<1> HIDE DEF t, p
<1>4. ImageFits(p, mem[p], clock, halfway)
  BY <1>3, ProjectHasImage DEF QueueInv
<1>5. /\ mem[p].since[t] > 0
      /\ \A d \in mem[p].claims :
           d.task # t \/ (d.state # "claimed" /\ (d.state = "refused" => d.moment # mem[p].since[t]))
  BY <1>2 DEF Line
<1>6. clock \in Nat
  BY ClockIsNumber DEF QueueInv
<1>7. NewClaim(t) = [id |-> clock + 1, task |-> t, moment |-> mem[p].since[t],
                     state |-> "claimed", session |-> 0]
      /\ WithClaim(t) = [mem[p] EXCEPT !.claims = @ \cup {NewClaim(t)}]
  BY DEF NewClaim, WithClaim, p
<1>8. /\ ImageFits(p, WithClaim(t), clock + 1, halfway)
      /\ WithClaim(t).claims = mem[p].claims \cup {NewClaim(t)}
  BY <1>3, <1>4, <1>5, <1>6, <1>7, ClaimedFits
<1> QED
  BY <1>3, <1>8 DEF t, p

\* What is saved of a settled claim.
WithSettled == [mem[Here] EXCEPT !.claims = {Settled(c) : c \in @}]
LEMMA WithSettledFits ==
  ASSUME QueueInv, op.at = "settle"
  PROVE  /\ ImageFits(Here, WithSettled, clock, halfway)
         /\ WithSettled.claims = {Settled(d) : d \in mem[Here].claims}
         /\ \A d \in mem[Here].claims : Settled(d).id = d.id
         /\ Here \in Projects
<1>1. Admitting
  BY DEF Admitting
<1>2. /\ Claimed \in mem[Here].claims
      /\ Claimed.id = op.claim
      /\ Claimed.task = op.task
      /\ Claimed.state = "claimed"
      /\ Here \in Projects
      /\ ImageFits(Here, mem[Here], clock, halfway)
  BY <1>1, ClaimAtWork
<1>3. op.session \in 0..MaxClock
  BY DEF QueueInv, ServiceTypes, OpRecords
<1>4. IF op.session = 0
      THEN op.claim \in halfway \/ \A s \in mem[Here].sessions : s.command # op.claim
      ELSE \E s \in mem[Here].sessions :
             s.id = op.session /\ s.command = op.claim /\ s.task = Claimed.task
  BY <1>2 DEF QueueInv, ClaimFits, Receipts
<1>5. clock \in Nat
  BY ClockIsNumber DEF QueueInv
<1>6. WithSettled = [mem[Here] EXCEPT !.claims = {Settled(d) : d \in @}]
  BY DEF WithSettled
<1> QED
  BY <1>2, <1>3, <1>4, <1>5, <1>6, SettledFits

-------------------------------------------------------------------------------
(* Every step keeps the images fit. *)

ImageParts == ImagesFit /\ ClaimsAreSaved /\ ClaimsAreApart

\* One image is replaced and its claims stay.
LEMMA SameClaimsFit ==
  ASSUME ImageParts, NEW p \in Projects, NEW image,
         clock \in Nat, clock' \in Nat, clock <= clock', halfway \subseteq halfway',
         ImageFits(p, image, clock', halfway'),
         mem' = [mem EXCEPT ![p] = image],
         disk' = [disk EXCEPT ![p] = image] \/ disk' = disk \/ disk' = mem',
         image.claims = mem[p].claims
  PROVE  ImageParts'
<1>1. ImagesFit'
  BY OneImageFits DEF ImageParts
<1>2. mem \in [Projects -> Images] /\ disk \in [Projects -> Images]
  BY DEF ImageParts, ImagesFit
<1>3. \A q \in Projects : mem'[q].claims = mem[q].claims
  BY <1>2
<1>4. \A q \in Projects : disk'[q].claims = disk[q].claims
  BY <1>2, <1>3 DEF ImageParts, ClaimsAreSaved
<1>5. ClaimsAreSaved'
  BY <1>3, <1>4 DEF ImageParts, ClaimsAreSaved
<1>6. ClaimsAreApart'
  BY <1>4 DEF ImageParts, ClaimsAreApart
<1> QED
  BY <1>1, <1>5, <1>6 DEF ImageParts

LEMMA SameImagesFit ==
  ASSUME ImageParts, UNCHANGED <<mem, disk, clock, halfway>>
  PROVE  ImageParts'
BY DEF ImageParts, ImagesFit, ClaimsAreSaved, ClaimsAreApart

LEMMA ReloadedFit ==
  ASSUME ImageParts, mem' = disk, UNCHANGED <<disk, clock, halfway>>
  PROVE  ImageParts'
BY DEF ImageParts, ImagesFit, ClaimsAreSaved, ClaimsAreApart

LEMMA PersonStartsImages ==
  ASSUME QueueInv, NEW t \in Tasks, PersonStarts(t)
  PROVE  ImageParts'
<1> DEFINE p == Home[t]
           s == Session(t, "person", 0, mem[p].since[t], TRUE)
<1>1. p \in Projects /\ t \in TasksOf(p)
  BY QueueAssumption DEF TasksOf
<1>2. ImageFits(p, mem[p], clock, halfway) /\ Shaped(p, mem[p])
  BY <1>1, ProjectHasImage DEF QueueInv
<1>3. clock \in Nat /\ MaxClock \in Nat /\ clock < MaxClock /\ clock' = clock + 1
      /\ halfway' = halfway
  BY ClockIsNumber DEF QueueInv, PersonStarts, Draws
<1>4. mem[p].since[t] \in 0..MaxClock /\ mem[p].since[t] <= clock
  <2>1. mem[p].since \in [TasksOf(p) -> 0..MaxClock]
    BY <1>1, <1>2, ShapedFields
  <2> QED
    BY <1>1, <1>2, <2>1 DEF ImageFits, Numbered
<1>5. /\ s.id = clock + 1 /\ s.task = t /\ s.by = "person" /\ s.command = 0
      /\ s.moment = mem[p].since[t]
      /\ s = [id |-> clock + 1, task |-> t, by |-> "person", command |-> 0,
              moment |-> mem[p].since[t], active |-> TRUE]
  BY DEF Session
<1>6. s \in SessionRecords
  <2>1. clock + 1 \in 1..MaxClock /\ 0 \in 0..MaxClock
    BY <1>3
  <2> DEFINE m == mem[p].since[t]
  <2>2. m \in 0..MaxClock
    BY <1>4
  <2> HIDE DEF m
  <2>3. [id |-> clock + 1, task |-> t, by |-> "person", command |-> 0, moment |-> m,
         active |-> TRUE] \in SessionRecords
    BY <2>1, <2>2 DEF SessionRecords
  <2> QED
    BY <1>5, <2>3 DEF m
<1>7. mem' = [mem EXCEPT ![p] = Begun(mem[p], s)] /\ disk' = [disk EXCEPT ![p] = Begun(mem[p], s)]
  BY DEF PersonStarts, Saves
<1> HIDE DEF s
<1>8. ImageFits(p, Begun(mem[p], s), clock + 1, halfway)
  BY <1>1, <1>2, <1>3, <1>4, <1>5, <1>6, PersonBegins
<1>9. /\ Shaped(p, Begun(mem[p], s))
      /\ Begun(mem[p], s).claims = mem[p].claims
      /\ Begun(mem[p], s).sessions = mem[p].sessions \cup {s}
      /\ Begun(mem[p], s).since = [mem[p].since EXCEPT ![s.task] = 0]
      /\ s.task \in TasksOf(p)
  BY <1>1, <1>2, <1>5, <1>6, BegunFields
<1>10. ImageFits(p, Begun(mem[p], s), clock', halfway')
  BY <1>3, <1>8
<1>11. /\ clock' \in Nat /\ clock <= clock' /\ halfway \subseteq halfway'
       /\ \/ disk' = [disk EXCEPT ![p] = Begun(mem[p], s)]
          \/ disk' = disk
          \/ disk' = mem'
  BY <1>3, <1>7
<1> QED
  BY <1>1, <1>3, <1>7, <1>9, <1>10, <1>11, SameClaimsFit DEF QueueInv, ImageParts

LEMMA EndsImages ==
  ASSUME QueueInv, NEW p \in Projects, Ends(p) \/ Decides(p)
  PROVE  ImageParts'
<1>1. clock \in Nat /\ clock' = clock /\ halfway' = halfway
  BY ClockIsNumber DEF QueueInv, Ends, Decides
<1>2. \/ UNCHANGED <<mem, disk>>
      \/ /\ mem' = [mem EXCEPT ![p] = Ended(mem[p], Tasks)]
         /\ disk' = [disk EXCEPT ![p] = Ended(mem[p], Tasks)] \/ disk' = mem'
  BY DEF Ends, Decides, Saves
<1>3. /\ ImageFits(p, Ended(mem[p], Tasks), clock, halfway)
      /\ Ended(mem[p], Tasks).claims = mem[p].claims
  BY <1>1, ProjectHasImage, EndedFits DEF QueueInv
<1>4. ImageParts
  BY DEF QueueInv, ImageParts
<1>5. CASE UNCHANGED <<mem, disk>>
  BY <1>1, <1>4, <1>5, SameImagesFit
<1>6. CASE /\ mem' = [mem EXCEPT ![p] = Ended(mem[p], Tasks)]
           /\ disk' = [disk EXCEPT ![p] = Ended(mem[p], Tasks)] \/ disk' = mem'
  <2>1. /\ clock' \in Nat /\ clock <= clock' /\ halfway \subseteq halfway'
        /\ \/ disk' = [disk EXCEPT ![p] = Ended(mem[p], Tasks)]
           \/ disk' = disk
           \/ disk' = mem'
    BY <1>1, <1>6
  <2>2. ImageFits(p, Ended(mem[p], Tasks), clock', halfway')
    BY <1>1, <1>3
  <2> QED
    BY <1>1, <1>3, <1>4, <1>6, <2>1, <2>2, SameClaimsFit
<1> QED
  BY <1>2, <1>5, <1>6

LEMMA ReopenImages ==
  ASSUME QueueInv, NEW t \in Tasks, Reopen(t)
  PROVE  ImageParts'
<1> DEFINE p == Home[t]
           new == [mem[p] EXCEPT !.since[t] = clock + 1]
<1>1. p \in Projects /\ t \in TasksOf(p)
  BY QueueAssumption DEF TasksOf
<1>2. ImageFits(p, mem[p], clock, halfway) /\ Shaped(p, mem[p])
  BY <1>1, ProjectHasImage DEF QueueInv
<1>3. clock \in Nat /\ clock < MaxClock /\ clock' = clock + 1 /\ halfway' = halfway
  BY ClockIsNumber DEF QueueInv, Reopen, Draws
<1>4. mem' = [mem EXCEPT ![p] = new] /\ disk' = [disk EXCEPT ![p] = new]
  BY DEF Reopen, Saves
<1>5. new.claims = mem[p].claims
  BY <1>2, ShapedFields
<1>6. ImageFits(p, new, clock + 1, halfway)
  BY <1>1, <1>2, <1>3, ReopenFits
<1> HIDE DEF new
<1>7. ImageFits(p, new, clock', halfway')
  BY <1>3, <1>6
<1>8. /\ clock' \in Nat /\ clock <= clock' /\ halfway \subseteq halfway'
      /\ disk' = [disk EXCEPT ![p] = new] \/ disk' = disk \/ disk' = mem'
  BY <1>3, <1>4
<1> QED
  BY <1>1, <1>3, <1>4, <1>5, <1>7, <1>8, SameClaimsFit DEF QueueInv, ImageParts

LEMMA ConfigureImages ==
  ASSUME QueueInv, NEW p \in Projects, Configure(p)
  PROVE  ImageParts'
<1>1. clock \in Nat /\ clock' = clock /\ halfway' = halfway
  BY ClockIsNumber DEF QueueInv, Configure
<1>2. ImageFits(p, mem[p], clock, halfway) /\ Shaped(p, mem[p])
  BY ProjectHasImage DEF QueueInv
<1> DEFINE auto == [mem[p] EXCEPT !.auto = ~@]
           paused == [mem[p] EXCEPT !.paused = ~@]
<1>3. \/ mem' = [mem EXCEPT ![p] = auto] /\ disk' = [disk EXCEPT ![p] = auto]
      \/ mem' = [mem EXCEPT ![p] = paused] /\ disk' = [disk EXCEPT ![p] = paused]
  BY DEF Configure, Saves
<1>4. /\ mem[p] = [auto |-> mem[p].auto, paused |-> mem[p].paused, claims |-> mem[p].claims,
                   sessions |-> mem[p].sessions, since |-> mem[p].since]
      /\ mem[p].auto \in BOOLEAN /\ mem[p].paused \in BOOLEAN
  BY <1>2, ShapedFields
<1>5. /\ auto = [auto |-> ~mem[p].auto, paused |-> mem[p].paused, claims |-> mem[p].claims,
                 sessions |-> mem[p].sessions, since |-> mem[p].since]
      /\ paused = [auto |-> mem[p].auto, paused |-> ~mem[p].paused, claims |-> mem[p].claims,
                   sessions |-> mem[p].sessions, since |-> mem[p].since]
  BY <1>4
<1>6. (~mem[p].auto) \in BOOLEAN /\ (~mem[p].paused) \in BOOLEAN
  OBVIOUS
<1> HIDE DEF auto, paused
<1>7. ImageFits(p, auto, clock, halfway) /\ auto.claims = mem[p].claims
  BY <1>1, <1>2, <1>4, <1>5, <1>6, SwitchFits
<1>8. ImageFits(p, paused, clock, halfway) /\ paused.claims = mem[p].claims
  BY <1>1, <1>2, <1>4, <1>5, <1>6, SwitchFits
<1>9. ImageParts
  BY DEF QueueInv, ImageParts
<1>10. CASE mem' = [mem EXCEPT ![p] = auto] /\ disk' = [disk EXCEPT ![p] = auto]
  <2>1. /\ clock' \in Nat /\ clock <= clock' /\ halfway \subseteq halfway'
        /\ disk' = [disk EXCEPT ![p] = auto] \/ disk' = disk \/ disk' = mem'
    BY <1>1, <1>10
  <2>2. ImageFits(p, auto, clock', halfway')
    BY <1>1, <1>7
  <2> QED
    BY <1>1, <1>7, <1>9, <1>10, <2>1, <2>2, SameClaimsFit
<1>11. CASE mem' = [mem EXCEPT ![p] = paused] /\ disk' = [disk EXCEPT ![p] = paused]
  <2>1. /\ clock' \in Nat /\ clock <= clock' /\ halfway \subseteq halfway'
        /\ disk' = [disk EXCEPT ![p] = paused] \/ disk' = disk \/ disk' = mem'
    BY <1>1, <1>11
  <2>2. ImageFits(p, paused, clock', halfway')
    BY <1>1, <1>8
  <2> QED
    BY <1>1, <1>8, <1>9, <1>11, <2>1, <2>2, SameClaimsFit
<1> QED
  BY <1>3, <1>10, <1>11

\* The new claim has an identifier of its own.
LEMMA ClaimImages ==
  ASSUME QueueInv, Claim
  PROVE  ImageParts'
<1> DEFINE t == Head(op.plan)
           p == Home[t]
<1>0. ImageParts
  BY DEF QueueInv, ImageParts
<1>1. CASE Throws
  BY <1>0, <1>1, ReloadedFit DEF Throws
<1>2. CASE /\ clock < MaxClock /\ clock' = clock + 1 /\ halfway' = halfway
           /\ mem' = [mem EXCEPT ![p] = WithClaim(t)]
           /\ disk' = [disk EXCEPT ![p] = WithClaim(t)]
  <2>1. op.plan # <<>>
    BY DEF Claim
  <2>2. /\ p \in Projects
        /\ ImageFits(p, WithClaim(t), clock + 1, halfway)
        /\ WithClaim(t).claims = mem[p].claims \cup {NewClaim(t)}
    BY <1>2, <2>1, NewClaimFits
  <2>3. clock \in Nat /\ NewClaim(t).id = clock + 1
    BY ClockIsNumber DEF QueueInv, NewClaim
  <2> HIDE DEF t, p
  <2>4. ImagesFit'
    <3> DEFINE new == WithClaim(t)
    <3>1. /\ clock' \in Nat /\ clock <= clock' /\ halfway \subseteq halfway'
          /\ disk' = [disk EXCEPT ![p] = new] \/ disk' = disk \/ disk' = mem'
      BY <1>2, <2>3
    <3>2. ImageFits(p, new, clock', halfway') /\ mem' = [mem EXCEPT ![p] = new]
      BY <1>2, <2>2
    <3> HIDE DEF new
    <3> QED
      BY <1>0, <2>2, <2>3, <3>1, <3>2, OneImageFits DEF ImageParts
  <2>5. mem \in [Projects -> Images] /\ disk \in [Projects -> Images]
    BY <1>0 DEF ImageParts, ImagesFit
  <2>6. ClaimsAreSaved'
    BY <1>0, <1>2, <2>5 DEF ImageParts, ClaimsAreSaved
  <2>7. \A q \in Projects : \A c \in disk[q].claims : c.id # clock + 1
    <3>1. ASSUME NEW q \in Projects, NEW c \in disk[q].claims
          PROVE  c.id # clock + 1
      <4>1. ImageFits(q, disk[q], clock, halfway) /\ Shaped(q, disk[q])
        BY <1>0 DEF ImageParts, ImagesFit, ImageFits
      <4> QED
        BY <2>3, <3>1, <4>1, ShapedFields DEF ImageFits, Numbered
    <3> QED
      BY <3>1
  <2>8. \A q \in Projects : q # p => disk'[q].claims = disk[q].claims
    BY <1>2, <2>5
  <2>9. disk'[p].claims = disk[p].claims \cup {NewClaim(t)}
    BY <1>0, <1>2, <2>2, <2>5 DEF ImageParts, ClaimsAreSaved
  <2>10. ClaimsAreApart'
    BY <1>0, <2>2, <2>3, <2>7, <2>8, <2>9 DEF ImageParts, ClaimsAreApart
  <2> QED
    BY <2>4, <2>6, <2>10 DEF ImageParts
<1> QED
  BY <1>1, <1>2 DEF Claim, Draws, Saves, WithClaim, NewClaim

LEMMA AdmitStartsImages ==
  ASSUME QueueInv, AdmitStarts
  PROVE  ImageParts'
<1> DEFINE new == Begun(mem[Here], Carrying(op.claim, TRUE))
<1>1. clock \in Nat /\ clock < MaxClock /\ clock' = clock + 1 /\ halfway' = halfway
  BY ClockIsNumber DEF QueueInv, AdmitStarts, Draws
<1>2. ImageFits(Here, new, clock + 1, halfway) /\ new.claims = mem[Here].claims
  BY <1>1, CarryingFits DEF AdmitStarts
<1>3. mem' = [mem EXCEPT ![Here] = new] /\ disk' = [disk EXCEPT ![Here] = new]
  BY DEF AdmitStarts, Saves
<1>4. Here \in Projects
  BY ClaimAtWork DEF AdmitStarts, Admits, Admitting
<1> HIDE DEF new
<1>5. ImageFits(Here, new, clock', halfway')
  BY <1>1, <1>2
<1>6. /\ clock' \in Nat /\ clock <= clock' /\ halfway \subseteq halfway'
      /\ disk' = [disk EXCEPT ![Here] = new] \/ disk' = disk \/ disk' = mem'
  BY <1>1, <1>3
<1> QED
  BY <1>1, <1>2, <1>3, <1>4, <1>5, <1>6, SameClaimsFit DEF QueueInv, ImageParts

LEMMA AdmitFailsImages ==
  ASSUME QueueInv, AdmitFails
  PROVE  ImageParts'
<1> DEFINE a == ~(op.task \in Native \ Looped)
           new == Begun(mem[Here], Carrying(op.claim, a))
<1>1. clock \in Nat /\ clock < MaxClock /\ clock' = clock + 1 /\ halfway' = halfway \cup {op.claim}
  BY ClockIsNumber DEF QueueInv, AdmitFails, Draws
<1>2. a \in BOOLEAN
  OBVIOUS
<1>3. mem' = [mem EXCEPT ![Here] = new] /\ (disk' = disk \/ disk' = [disk EXCEPT ![Here] = new])
  BY DEF AdmitFails, Saves
<1> HIDE DEF a
<1>4. ImageFits(Here, new, clock + 1, halfway) /\ new.claims = mem[Here].claims
  BY <1>1, <1>2, CarryingFits DEF AdmitFails
<1>5. Here \in Projects
  BY ClaimAtWork DEF AdmitFails, Admits, Admitting
<1> HIDE DEF new
<1>6. ImageFits(Here, new, clock', halfway')
  BY <1>1, <1>4, <1>5, FitsLater
<1>7. halfway \subseteq halfway' /\ clock' \in Nat /\ clock <= clock'
  BY <1>1
<1> QED
  BY <1>1, <1>3, <1>4, <1>5, <1>6, <1>7, SameClaimsFit DEF QueueInv, ImageParts

LEMMA AdmitThrowsImages ==
  ASSUME QueueInv, AdmitThrows
  PROVE  ImageParts'
<1>1. clock \in Nat /\ clock < MaxClock /\ clock' = clock + 1 /\ halfway' = halfway \cup {op.claim}
  BY ClockIsNumber DEF QueueInv, AdmitThrows, Draws
<1>2. PICK a \in BOOLEAN : Saves(Here, Begun(mem[Here], Carrying(op.claim, a)), runs')
  BY DEF AdmitThrows
<1> DEFINE new == Begun(mem[Here], Carrying(op.claim, a))
<1>3. mem' = [mem EXCEPT ![Here] = new] /\ disk' = [disk EXCEPT ![Here] = new]
  BY <1>2 DEF Saves
<1>4. ImageFits(Here, new, clock + 1, halfway) /\ new.claims = mem[Here].claims
  BY <1>1, CarryingFits DEF AdmitThrows
<1>5. Here \in Projects
  BY ClaimAtWork DEF AdmitThrows, Admits, Admitting
<1> HIDE DEF new
<1>6. ImageFits(Here, new, clock', halfway')
  BY <1>1, <1>4, <1>5, FitsLater
<1>7. /\ halfway \subseteq halfway' /\ clock' \in Nat /\ clock <= clock'
      /\ disk' = [disk EXCEPT ![Here] = new] \/ disk' = disk \/ disk' = mem'
  BY <1>1, <1>3
<1> QED
  BY <1>1, <1>3, <1>4, <1>5, <1>6, <1>7, SameClaimsFit DEF QueueInv, ImageParts

LEMMA SettleImages ==
  ASSUME QueueInv, Settle
  PROVE  ImageParts'
<1>0. ImageParts
  BY DEF QueueInv, ImageParts
<1>1. CASE Throws
  BY <1>0, <1>1, ReloadedFit DEF Throws
<1>2. CASE /\ mem' = [mem EXCEPT ![Here] = WithSettled]
           /\ disk' = [disk EXCEPT ![Here] = WithSettled]
           /\ clock' = clock /\ halfway' = halfway
  <2>1. /\ ImageFits(Here, WithSettled, clock, halfway)
        /\ WithSettled.claims = {Settled(d) : d \in mem[Here].claims}
        /\ \A d \in mem[Here].claims : Settled(d).id = d.id
        /\ Here \in Projects
    BY WithSettledFits DEF Settle
  <2>2. clock \in Nat
    BY ClockIsNumber DEF QueueInv
  <2>3. ImagesFit'
    <3> DEFINE new == WithSettled
    <3>1. /\ clock' \in Nat /\ clock <= clock' /\ halfway \subseteq halfway'
          /\ disk' = [disk EXCEPT ![Here] = new] \/ disk' = disk \/ disk' = mem'
      BY <1>2, <2>2
    <3>2. ImageFits(Here, new, clock', halfway') /\ mem' = [mem EXCEPT ![Here] = new]
      BY <1>2, <2>1
    <3> HIDE DEF new
    <3> QED
      BY <1>0, <2>1, <2>2, <3>1, <3>2, OneImageFits DEF ImageParts
  <2>4. mem \in [Projects -> Images] /\ disk \in [Projects -> Images]
    BY <1>0 DEF ImageParts, ImagesFit
  <2>5. ClaimsAreSaved'
    BY <1>0, <1>2, <2>4 DEF ImageParts, ClaimsAreSaved
  <2>6. ASSUME NEW q \in Projects, NEW c \in disk'[q].claims
        PROVE  \E d \in disk[q].claims : d.id = c.id
    <3>1. CASE q = Here
      <4>1. c \in {Settled(d) : d \in mem[Here].claims}
        BY <1>2, <2>1, <2>4, <2>6, <3>1
      <4>2. PICK d \in mem[Here].claims : c = Settled(d)
        BY <4>1
      <4>3. d \in disk[q].claims
        BY <1>0, <3>1, <4>2 DEF ImageParts, ClaimsAreSaved
      <4> QED
        BY <2>1, <4>2, <4>3
    <3>2. CASE q # Here
      BY <1>2, <2>4, <2>6, <3>2
    <3> QED
      BY <3>1, <3>2
  <2>7. ClaimsAreApart'
    <3>1. ASSUME NEW q \in Projects, NEW r \in Projects,
                 NEW c \in disk'[q].claims, NEW d \in disk'[r].claims, c.id = d.id
          PROVE  q = r
      <4>1. PICK e \in disk[q].claims : e.id = c.id
        BY <2>6
      <4>2. PICK f \in disk[r].claims : f.id = d.id
        BY <2>6
      <4> QED
        BY <1>0, <3>1, <4>1, <4>2 DEF ImageParts, ClaimsAreApart
    <3> QED
      BY <3>1 DEF ClaimsAreApart
  <2> QED
    BY <2>3, <2>5, <2>7 DEF ImageParts
<1> QED
  BY <1>1, <1>2 DEF Settle, Saves, WithSettled

LEMMA LaunchImages ==
  ASSUME QueueInv, Launch
  PROVE  ImageParts'
<1>0. ImageParts
  BY DEF QueueInv, ImageParts
<1>1. mem' = [p \in Projects |-> Ended(disk[p], Tasks \ Looped)] /\ disk' = mem' /\ clock' = clock
      /\ halfway' = halfway
  BY DEF Launch
<1>2. clock \in Nat
  BY ClockIsNumber DEF QueueInv
<1>3. ASSUME NEW p \in Projects
      PROVE  /\ mem'[p] \in Images
             /\ ImageFits(p, mem'[p], clock, halfway)
             /\ mem'[p].claims = disk[p].claims
  <2>1. ImageFits(p, disk[p], clock, halfway)
    BY <1>0 DEF ImageParts, ImagesFit
  <2>2. /\ ImageFits(p, Ended(disk[p], Tasks \ Looped), clock, halfway)
        /\ Ended(disk[p], Tasks \ Looped).claims = disk[p].claims
    BY <1>2, <2>1, EndedFits
  <2>3. mem'[p] = Ended(disk[p], Tasks \ Looped)
    BY <1>1
  <2> QED
    BY <2>2, <2>3 DEF Images, ImageFits, Shaped
<1>4. mem' \in [Projects -> Images]
  BY <1>1, <1>3
<1>5. ImagesFit'
  BY <1>1, <1>3, <1>4 DEF ImagesFit
<1>6. ClaimsAreSaved'
  BY <1>1 DEF ClaimsAreSaved
<1>7. ClaimsAreApart'
  <2>1. \A p \in Projects : disk'[p].claims = disk[p].claims
    BY ONLY <1>1, <1>3
  <2> QED
    BY <1>0, <2>1 DEF ImageParts, ClaimsAreApart
<1> QED
  BY <1>5, <1>6, <1>7 DEF ImageParts

LEMMA ImagesStep ==
  ASSUME QueueInv, [Next]_queueVars
  PROVE  ImageParts'
<1>0. ImageParts
  BY DEF QueueInv, ImageParts
<1>1. CASE \E t \in Tasks : PersonStarts(t) \/ Reopen(t)
  BY <1>1, PersonStartsImages, ReopenImages
<1>2. CASE \E p \in Projects : Ends(p) \/ Decides(p) \/ Configure(p)
  <2>1. PICK p \in Projects : Ends(p) \/ Decides(p) \/ Configure(p)
    BY <1>2
  <2>2. CASE Ends(p) \/ Decides(p)
    BY <2>2, EndsImages
  <2>3. CASE Configure(p)
    BY <2>3, ConfigureImages
  <2> QED
    BY <2>1, <2>2, <2>3
<1>3. CASE ConfigureAll \/ BeginPass \/ EndPass \/ Replay \/ AdmitFromReceipt \/ AdmitRefused
  BY <1>0, <1>3, SameImagesFit
     DEF ConfigureAll, BeginPass, EndPass, Replay, AdmitFromReceipt, AdmitRefused
<1>4. CASE Claim
  BY <1>4, ClaimImages
<1>5. CASE AdmitStarts
  BY <1>5, AdmitStartsImages
<1>6. CASE AdmitFails
  BY <1>6, AdmitFailsImages
<1>t. CASE AdmitThrows
  BY <1>t, AdmitThrowsImages
<1>7. CASE Settle
  BY <1>7, SettleImages
<1>8. CASE Crash
  BY <1>0, <1>8, ReloadedFit DEF Crash
<1>9. CASE Launch
  BY <1>9, LaunchImages
<1>10. CASE UNCHANGED queueVars
  BY <1>0, <1>10, SameImagesFit DEF queueVars
<1> QED
  BY <1>1, <1>2, <1>3, <1>4, <1>5, <1>6, <1>7, <1>8, <1>9, <1>10, <1>t DEF Next, Serve

-------------------------------------------------------------------------------
(* Every step keeps the types. *)

LEMMA OpFields ==
  ASSUME ServiceTypes
  PROVE  /\ op = [at |-> op.at, claim |-> op.claim, task |-> op.task, plan |-> op.plan,
                  then |-> op.then, session |-> op.session]
         /\ op.at \in {"idle", "replay", "claim", "admit", "settle", "down"}
         /\ op.claim \in 0..MaxClock
         /\ op.task \in Tasks \cup {"none"}
         /\ op.plan \in Seq(Tasks)
         /\ op.then \in {"none", "replay", "claim"}
         /\ op.session \in 0..MaxClock
BY DEF ServiceTypes, OpRecords

LEMMA IdleIsRecord ==
  /\ Idle \in OpRecords
  /\ [Idle EXCEPT !.at = "down"] \in OpRecords
  /\ [Idle EXCEPT !.at = "replay"] \in OpRecords
  /\ [Idle EXCEPT !.at = "down"].at = "down"
  /\ [Idle EXCEPT !.at = "replay"].at = "replay"
  /\ [Idle EXCEPT !.at = "replay"].plan = <<>>
  /\ [Idle EXCEPT !.at = "down"].plan = <<>>
<1>1. <<>> \in Seq(Tasks)
  OBVIOUS
<1>2. 0 \in 0..MaxClock
  BY QueueAssumption
<1> QED
  BY <1>1, <1>2 DEF Idle, OpRecords

\* What a save of a step that goes on leaves of the flags.
Flags ==
  /\ again \in BOOLEAN
  /\ missed \in BOOLEAN
  /\ pass \in {"none", "due", "running"}
LEMMA SavesFlags ==
  ASSUME ServiceTypes, NEW p, NEW image, NEW rs, Saves(p, image, rs)
  PROVE  Flags' /\ (pass' = "running" <=> pass = "running")
<1>1. /\ again' = (again \/ pass # "none")
      /\ \/ pass' = pass
         \/ pass = "none" /\ pass' = "due"
      /\ missed' = FALSE
  BY DEF Saves, Kick
<1> QED
  BY <1>1 DEF ServiceTypes, Flags

\* A step of somebody else, between passes.
LEMMA OthersTypes ==
  ASSUME ServiceTypes, op' = op, Flags', pass' = "running" <=> pass = "running",
         allPaused' \in BOOLEAN, runs' \in [Projects -> 0..MaxClock], clock' \in 1..MaxClock
  PROVE  ServiceTypes'
BY DEF ServiceTypes, Flags

LEMMA DrawnClock ==
  ASSUME ServiceTypes, Draws
  PROVE  /\ clock' \in 1..MaxClock
         /\ clock + 1 \in 0..MaxClock
         /\ clock' = clock + 1
<1>1. clock \in Nat /\ MaxClock \in Nat /\ clock > 0
  BY ClockIsNumber
<1> QED
  BY <1>1 DEF Draws

\* The end of a pass that threw or has nothing left.
LEMMA PassOverTypes ==
  ASSUME ServiceTypes, NEW images, PassOver(images), missed' \in BOOLEAN,
         UNCHANGED <<allPaused, runs, clock>>
  PROVE  ServiceTypes' /\ op' = Idle
<1>1. op' = Idle /\ again' = FALSE /\ pass' \in {"none", "due"}
  BY DEF PassOver
<1>2. op'.at = "idle" /\ op' \in OpRecords
  BY <1>1, IdleIsRecord DEF Idle
<1> QED
  BY <1>1, <1>2 DEF ServiceTypes

LEMMA ThrowsTypes ==
  ASSUME ServiceTypes, Throws
  PROVE  ServiceTypes' /\ op' = Idle
<1>1. PassOver(disk) /\ UNCHANGED <<allPaused, runs, clock>>
  BY DEF Throws
<1>2. missed' \in BOOLEAN
  BY DEF Throws
<1> QED
  BY <1>1, <1>2, PassOverTypes

\* A run in memory is numbered by the clock.
LEMMA RunsWithTypes ==
  ASSUME NEW t \in Tasks, runs \in [Projects -> 0..MaxClock], clock + 1 \in 0..MaxClock
  PROVE  RunsWith(t) \in [Projects -> 0..MaxClock]
BY DEF RunsWith

LEMMA OthersStep ==
  ASSUME ServiceTypes,
         \/ \E t \in Tasks : PersonStarts(t) \/ Reopen(t)
         \/ \E p \in Projects : Ends(p) \/ Decides(p) \/ Configure(p)
         \/ ConfigureAll
  PROVE  ServiceTypes' /\ op' = op /\ op.at = "idle"
<1>0. /\ runs \in [Projects -> 0..MaxClock] /\ clock \in 1..MaxClock /\ Flags
      /\ allPaused \in BOOLEAN
  BY DEF ServiceTypes, Flags
<1>1. ASSUME NEW t \in Tasks, PersonStarts(t)
      PROVE  ServiceTypes' /\ op' = op /\ op.at = "idle"
  <2>1. Flags' /\ (pass' = "running" <=> pass = "running")
    BY <1>1, SavesFlags DEF PersonStarts
  <2>2. /\ clock' \in 1..MaxClock
        /\ clock + 1 \in 0..MaxClock
        /\ clock' = clock + 1
    BY <1>1, DrawnClock DEF PersonStarts
  <2>3. runs' = RunsWith(t) /\ allPaused' = allPaused /\ op' = op /\ op.at = "idle"
    BY <1>1 DEF PersonStarts, Free
  <2>4. runs' \in [Projects -> 0..MaxClock]
    BY <1>0, <2>2, <2>3, RunsWithTypes
  <2> QED
    BY <1>0, <2>1, <2>2, <2>3, <2>4, OthersTypes
<1>2. ASSUME NEW t \in Tasks, Reopen(t)
      PROVE  ServiceTypes' /\ op' = op /\ op.at = "idle"
  <2>1. Flags' /\ (pass' = "running" <=> pass = "running")
    BY <1>2, SavesFlags DEF Reopen
  <2>2. clock' \in 1..MaxClock
    BY <1>2, DrawnClock DEF Reopen
  <2>3. runs' = runs /\ allPaused' = allPaused /\ op' = op /\ op.at = "idle"
    BY <1>2 DEF Reopen, Free
  <2> QED
    BY <1>0, <2>1, <2>2, <2>3, OthersTypes
<1>3. ASSUME NEW p \in Projects, Ends(p)
      PROVE  ServiceTypes' /\ op' = op /\ op.at = "idle"
  <2>1. Flags' /\ (pass' = "running" <=> pass = "running")
    <3>1. CASE UNCHANGED <<pass, again, missed>>
      BY <1>0, <3>1 DEF Flags
    <3>2. CASE Saves(p, Ended(mem[p], Tasks), runs')
      BY <3>2, SavesFlags
    <3> QED
      BY <1>3, <3>1, <3>2 DEF Ends
  <2>2. runs' = [runs EXCEPT ![p] = 0] /\ allPaused' = allPaused /\ op' = op /\ clock' = clock
        /\ op.at = "idle"
    BY <1>3 DEF Ends, Free
  <2>3. runs' \in [Projects -> 0..MaxClock]
    BY <1>0, <2>2, QueueAssumption
  <2> QED
    BY <1>0, <2>1, <2>2, <2>3, OthersTypes
<1>4. ASSUME NEW p \in Projects, Decides(p)
      PROVE  ServiceTypes' /\ op' = op /\ op.at = "idle"
  <2>1. Flags' /\ (pass' = "running" <=> pass = "running")
    <3>1. /\ again' = (again \/ pass # "none")
          /\ pass' = pass \/ (pass = "none" /\ pass' = "due")
          /\ missed' = (pass' = "none")
      BY <1>4 DEF Decides
    <3> QED
      BY <1>0, <3>1 DEF Flags
  <2>2. runs' = [runs EXCEPT ![p] = 0] /\ allPaused' = allPaused /\ op' = op /\ clock' = clock
        /\ op.at = "idle"
    BY <1>4 DEF Decides, Free
  <2>3. runs' \in [Projects -> 0..MaxClock]
    BY <1>0, <2>2, QueueAssumption
  <2> QED
    BY <1>0, <2>1, <2>2, <2>3, OthersTypes
<1>5. ASSUME NEW p \in Projects, Configure(p)
      PROVE  ServiceTypes' /\ op' = op /\ op.at = "idle"
  <2>1. Flags' /\ (pass' = "running" <=> pass = "running")
    <3>1. CASE Saves(p, [mem[p] EXCEPT !.auto = ~@], runs)
      BY <3>1, SavesFlags
    <3>2. CASE Saves(p, [mem[p] EXCEPT !.paused = ~@], runs)
      BY <3>2, SavesFlags
    <3> QED
      BY <1>5, <3>1, <3>2 DEF Configure
  <2>2. runs' = runs /\ allPaused' = allPaused /\ op' = op /\ clock' = clock /\ op.at = "idle"
    BY <1>5 DEF Configure, Free
  <2> QED
    BY <1>0, <2>1, <2>2, OthersTypes
<1>6. ASSUME ConfigureAll
      PROVE  ServiceTypes' /\ op' = op /\ op.at = "idle"
  <2>1. Flags' /\ (pass' = "running" <=> pass = "running")
    <3>1. /\ again' = (again \/ pass # "none")
          /\ pass' = pass \/ (pass = "none" /\ pass' = "due")
          /\ missed' = FALSE
      BY <1>6 DEF ConfigureAll, Kick
    <3> QED
      BY <1>0, <3>1 DEF Flags
  <2>2. runs' = runs /\ allPaused' \in BOOLEAN /\ op' = op /\ clock' = clock /\ op.at = "idle"
    BY <1>6 DEF ConfigureAll, Free
  <2> QED
    BY <1>0, <2>1, <2>2, OthersTypes
<1> QED
  BY <1>1, <1>2, <1>3, <1>4, <1>5, <1>6

\* A step of a pass that stays inside it.
LEMMA PassTypes ==
  ASSUME ServiceTypes, op.at \notin {"idle", "down"}, op' \in OpRecords,
         op'.at \notin {"idle", "down"}, Flags', pass' = "running" <=> pass = "running",
         allPaused' = allPaused, runs' \in [Projects -> 0..MaxClock], clock' \in 1..MaxClock
  PROVE  ServiceTypes'
BY DEF ServiceTypes, Flags

-------------------------------------------------------------------------------
(* The steps of a pass: the types they keep, and where they leave the pass. *)

LEMMA BeginPassTypes ==
  ASSUME QueueInv, BeginPass
  PROVE  /\ ServiceTypes'
         /\ op' = [Idle EXCEPT !.at = "replay"]
<1>1. op' = [Idle EXCEPT !.at = "replay"] /\ pass' = "running"
      /\ UNCHANGED <<runs, allPaused, again, clock, missed>>
  BY DEF BeginPass
<1>2. op' \in OpRecords /\ op'.at = "replay"
  BY <1>1, IdleIsRecord
<1> QED
  BY <1>1, <1>2 DEF QueueInv, ServiceTypes

LEMMA ReplayTypes ==
  ASSUME QueueInv, Replay
  PROVE  /\ ServiceTypes'
         /\ mem' = mem /\ halfway' = halfway
         /\ \/ /\ op'.at = "admit" /\ op'.then = "replay" /\ op'.plan = op.plan
               /\ \E p \in Projects : \E c \in Pending(mem[p]) :
                    op'.claim = c.id /\ op'.task = c.task
            \/ /\ op'.at = "claim" /\ op'.then = "claim"
               /\ op'.plan \in Plans(mem, runs, allPaused)
<1>0. /\ ServiceTypes
      /\ op = [at |-> op.at, claim |-> op.claim, task |-> op.task, plan |-> op.plan,
               then |-> op.then, session |-> op.session]
      /\ op.claim \in 0..MaxClock
      /\ op.task \in Tasks \cup {"none"}
      /\ op.plan \in Seq(Tasks)
      /\ op.session \in 0..MaxClock
  BY OpFields DEF QueueInv
<1>1. /\ UNCHANGED <<mem, disk, runs, allPaused, pass, again, clock, missed, halfway>>
      /\ op.at = "replay"
  BY DEF Replay
<1>2. ASSUME NEW p \in Projects, NEW c \in Pending(mem[p]),
             op' = [op EXCEPT !.at = "admit", !.claim = c.id, !.task = c.task, !.then = "replay"]
      PROVE  /\ op' \in OpRecords
             /\ op'.at = "admit" /\ op'.then = "replay" /\ op'.plan = op.plan
             /\ op'.claim = c.id /\ op'.task = c.task
  <2>1. c.id \in 0..MaxClock /\ c.task \in Tasks
    <3>1. c \in mem[p].claims
      BY DEF Pending
    <3>2. Shaped(p, mem[p])
      BY ProjectHasImage DEF QueueInv
    <3> QED
      BY <3>1, <3>2, ShapedFields
  <2>2. op' = [at |-> "admit", claim |-> c.id, task |-> c.task, plan |-> op.plan,
               then |-> "replay", session |-> op.session]
    BY <1>0, <1>2
  <2> QED
    BY <1>0, <2>1, <2>2 DEF OpRecords
<1>3. ASSUME NEW s \in Plans(mem, runs, allPaused),
             op' = [op EXCEPT !.at = "claim", !.plan = s, !.then = "claim"]
      PROVE  /\ op' \in OpRecords
             /\ op'.at = "claim" /\ op'.then = "claim" /\ op'.plan = s
  <2>1. s \in Seq(Tasks)
    BY <1>3, PlansFit DEF QueueInv
  <2>2. op' = [at |-> "claim", claim |-> op.claim, task |-> op.task, plan |-> s,
               then |-> "claim", session |-> op.session]
    BY <1>0, <1>3
  <2> QED
    BY <1>0, <2>1, <2>2 DEF OpRecords
<1>4. \/ \E p \in Projects : \E c \in Pending(mem[p]) :
           op' = [op EXCEPT !.at = "admit", !.claim = c.id, !.task = c.task, !.then = "replay"]
      \/ \E s \in Plans(mem, runs, allPaused) :
           op' = [op EXCEPT !.at = "claim", !.plan = s, !.then = "claim"]
  <2> DEFINE left == UNION {Pending(mem[p]) : p \in Projects}
             admits(c) == op' = [op EXCEPT !.at = "admit", !.claim = c.id, !.task = c.task,
                                           !.then = "replay"]
             claims(s) == op' = [op EXCEPT !.at = "claim", !.plan = s, !.then = "claim"]
  <2>1. \/ \E c \in left : admits(c)
        \/ \E s \in Plans(mem, runs, allPaused) : claims(s)
    BY Zenon DEF Replay
  <2>2. \A c \in left : \E p \in Projects : c \in Pending(mem[p])
    OBVIOUS
  <2> HIDE DEF left
  <2> QED
    BY <2>1, <2>2
<1>5. CASE \E p \in Projects : \E c \in Pending(mem[p]) :
             op' = [op EXCEPT !.at = "admit", !.claim = c.id, !.task = c.task, !.then = "replay"]
  <2>1. PICK p \in Projects : \E c \in Pending(mem[p]) :
             op' = [op EXCEPT !.at = "admit", !.claim = c.id, !.task = c.task, !.then = "replay"]
    BY <1>5
  <2>2. PICK c \in Pending(mem[p]) :
             op' = [op EXCEPT !.at = "admit", !.claim = c.id, !.task = c.task, !.then = "replay"]
    BY <2>1
  <2>3. /\ op' \in OpRecords
        /\ op'.at = "admit" /\ op'.then = "replay" /\ op'.plan = op.plan
        /\ op'.claim = c.id /\ op'.task = c.task
    BY <1>2, <2>2
  <2>4. ServiceTypes'
    BY <1>0, <1>1, <2>3 DEF ServiceTypes
  <2> QED
    BY <1>1, <2>3, <2>4
<1>6. CASE \E s \in Plans(mem, runs, allPaused) :
             op' = [op EXCEPT !.at = "claim", !.plan = s, !.then = "claim"]
  <2>1. PICK s \in Plans(mem, runs, allPaused) :
             op' = [op EXCEPT !.at = "claim", !.plan = s, !.then = "claim"]
    BY <1>6
  <2>2. /\ op' \in OpRecords
        /\ op'.at = "claim" /\ op'.then = "claim" /\ op'.plan = s
    BY <1>3, <2>1
  <2>3. ServiceTypes'
    BY <1>0, <1>1, <2>2 DEF ServiceTypes
  <2> QED
    BY <1>1, <2>2, <2>3
<1> QED
  BY <1>4, <1>5, <1>6

LEMMA ClaimTypes ==
  ASSUME QueueInv, Claim, ~Throws
  PROVE  /\ ServiceTypes'
         /\ op.plan # <<>> /\ op.at = "claim" /\ clock < MaxClock
         /\ op'.at = "admit" /\ op'.then = op.then /\ op'.plan = Tail(op.plan)
         /\ op'.task = Head(op.plan) /\ op'.claim = clock + 1
         /\ mem' = [mem EXCEPT ![Home[Head(op.plan)]] = WithClaim(Head(op.plan))]
<1> DEFINE t == Head(op.plan)
<1>0. /\ ServiceTypes
      /\ op = [at |-> op.at, claim |-> op.claim, task |-> op.task, plan |-> op.plan,
               then |-> op.then, session |-> op.session]
      /\ op.plan \in Seq(Tasks)
      /\ op.then \in {"none", "replay", "claim"}
      /\ op.session \in 0..MaxClock
  BY OpFields DEF QueueInv
<1>1. /\ Draws /\ op.plan # <<>> /\ op.at = "claim"
      /\ op' = [op EXCEPT !.at = "admit", !.claim = clock + 1, !.task = t, !.plan = Tail(@)]
      /\ UNCHANGED <<runs, allPaused>>
      /\ Saves(Home[t], WithClaim(t), runs)
  BY DEF Claim, WithClaim, NewClaim
<1>2. t \in Tasks /\ Tail(op.plan) \in Seq(Tasks)
  BY <1>0, <1>1
<1>3. clock + 1 \in 0..MaxClock /\ clock' \in 1..MaxClock
  BY <1>0, <1>1, DrawnClock
<1> HIDE DEF t
<1>4. op' = [at |-> "admit", claim |-> clock + 1, task |-> t, plan |-> Tail(op.plan),
             then |-> op.then, session |-> op.session]
  BY <1>0, <1>1
<1>5. /\ op' \in OpRecords
      /\ op'.at = "admit" /\ op'.then = op.then /\ op'.plan = Tail(op.plan)
      /\ op'.task = t /\ op'.claim = clock + 1
  BY <1>0, <1>2, <1>3, <1>4 DEF OpRecords
<1>6. Flags' /\ (pass' = "running" <=> pass = "running")
  BY <1>0, <1>1, SavesFlags
<1>7. runs' \in [Projects -> 0..MaxClock]
  BY <1>0, <1>1 DEF ServiceTypes
<1>8. ServiceTypes'
  BY <1>0, <1>1, <1>3, <1>5, <1>6, <1>7, PassTypes
<1> QED
  BY <1>1, <1>5, <1>8 DEF t, Draws, Saves

\* The answer of the start, whichever it is.
LEMMA SettlingFields ==
  ASSUME ServiceTypes, NEW s \in 0..MaxClock, op' = Settling(s)
  PROVE  /\ op' \in OpRecords
         /\ op'.at = "settle" /\ op'.session = s /\ op'.claim = op.claim /\ op'.task = op.task
         /\ op'.plan = op.plan /\ op'.then = op.then
<1>0. /\ op = [at |-> op.at, claim |-> op.claim, task |-> op.task, plan |-> op.plan,
               then |-> op.then, session |-> op.session]
      /\ op.claim \in 0..MaxClock
      /\ op.task \in Tasks \cup {"none"}
      /\ op.plan \in Seq(Tasks)
      /\ op.then \in {"none", "replay", "claim"}
  BY OpFields
<1>1. op' = [at |-> "settle", claim |-> op.claim, task |-> op.task, plan |-> op.plan,
             then |-> op.then, session |-> s]
  BY <1>0 DEF Settling
<1> QED
  BY <1>0, <1>1 DEF OpRecords

LEMMA AdmitTypes ==
  ASSUME QueueInv, AdmitFromReceipt \/ AdmitRefused \/ AdmitStarts \/ AdmitFails \/ AdmitThrows
  PROVE  /\ ServiceTypes'
         /\ op.at = "admit"
         /\ op'.at = "settle" /\ op'.claim = op.claim /\ op'.task = op.task
         /\ op'.plan = op.plan /\ op'.then = op.then
<1>0. /\ ServiceTypes /\ runs \in [Projects -> 0..MaxClock] /\ clock \in 1..MaxClock /\ Flags
      /\ 0 \in 0..MaxClock
  BY QueueAssumption DEF QueueInv, ServiceTypes, Flags
<1>1. op.at = "admit" /\ allPaused' = allPaused
  BY DEF AdmitFromReceipt, AdmitRefused, AdmitStarts, AdmitFails, AdmitThrows,
     Admits
<1>2. Here \in Projects /\ Shaped(Here, mem[Here]) /\ op.task \in Tasks
  BY <1>1, ClaimAtWork DEF Admitting, QueueInv, ClaimFits
<1>3. CASE AdmitFromReceipt
  <2>1. PICK s \in Receipts : op' = Settling(s.id)
    BY <1>3 DEF AdmitFromReceipt
  <2>2. s.id \in 0..MaxClock
    BY <1>2, ShapedFields DEF Receipts
  <2>3. UNCHANGED <<runs, pass, again, clock, missed>>
    BY <1>3 DEF AdmitFromReceipt
  <2> QED
    BY <1>0, <1>1, <2>1, <2>2, <2>3, SettlingFields DEF ServiceTypes
<1>4. CASE AdmitRefused
  <2>1. op' = Settling(0) /\ UNCHANGED <<runs, pass, again, clock, missed>>
    BY <1>4 DEF AdmitRefused
  <2> QED
    BY <1>0, <1>1, <2>1, SettlingFields DEF ServiceTypes
<1>5. CASE AdmitStarts
  <2>1. op' = Settling(clock + 1) /\ runs' = RunsWith(op.task) /\ Draws
    BY <1>5 DEF AdmitStarts
  <2>2. /\ clock' \in 1..MaxClock
        /\ clock + 1 \in 0..MaxClock
    BY <1>0, <2>1, DrawnClock
  <2>3. runs' \in [Projects -> 0..MaxClock]
    BY <1>0, <1>2, <2>1, <2>2, RunsWithTypes
  <2>4. Flags' /\ (pass' = "running" <=> pass = "running")
    BY <1>0, <1>5, SavesFlags DEF AdmitStarts
  <2>5. /\ op' \in OpRecords
        /\ op'.at = "settle" /\ op'.claim = op.claim /\ op'.task = op.task
        /\ op'.plan = op.plan /\ op'.then = op.then
    BY <1>0, <2>1, <2>2, SettlingFields
  <2>6. ServiceTypes'
    BY <1>0, <1>1, <2>2, <2>3, <2>4, <2>5, PassTypes
  <2> QED
    BY <1>1, <2>5, <2>6
<1>6. CASE AdmitFails
  <2>1. op' = Settling(0) /\ runs' = runs /\ Draws
    BY <1>6 DEF AdmitFails
  <2>2. clock' \in 1..MaxClock
    BY <1>0, <2>1, DrawnClock
  <2>3. Flags' /\ (pass' = "running" <=> pass = "running")
    <3> DEFINE new == Begun(mem[Here], Carrying(op.claim, ~(op.task \in Native \ Looped)))
    <3>1. UNCHANGED <<pass, again, missed>> \/ Saves(Here, new, runs)
      BY <1>6 DEF AdmitFails
    <3>2. CASE UNCHANGED <<pass, again, missed>>
      BY <1>0, <3>2 DEF Flags
    <3>3. CASE Saves(Here, new, runs)
      BY <1>0, <3>3, SavesFlags
    <3> QED
      BY <3>1, <3>2, <3>3
  <2>4. /\ op' \in OpRecords
        /\ op'.at = "settle" /\ op'.claim = op.claim /\ op'.task = op.task
        /\ op'.plan = op.plan /\ op'.then = op.then
    BY <1>0, <2>1, SettlingFields
  <2>5. ServiceTypes'
    BY <1>0, <1>1, <2>1, <2>2, <2>3, <2>4, PassTypes
  <2> QED
    BY <1>1, <2>4, <2>5
<1>7. CASE AdmitThrows
  <2>1. op' = Settling(0) /\ runs' = RunsWith(op.task) /\ Draws
    BY <1>7 DEF AdmitThrows
  <2>2. /\ clock' \in 1..MaxClock
        /\ clock + 1 \in 0..MaxClock
    BY <1>0, <2>1, DrawnClock
  <2>3. runs' \in [Projects -> 0..MaxClock]
    BY <1>0, <1>2, <2>1, <2>2, RunsWithTypes
  <2>4. Flags' /\ (pass' = "running" <=> pass = "running")
    <3>1. PICK image : Saves(Here, image, runs')
      BY <1>7 DEF AdmitThrows
    <3> QED
      BY <1>0, <3>1, SavesFlags
  <2>5. /\ op' \in OpRecords
        /\ op'.at = "settle" /\ op'.claim = op.claim /\ op'.task = op.task
        /\ op'.plan = op.plan /\ op'.then = op.then
    BY <1>0, <2>1, <2>2, SettlingFields
  <2>6. ServiceTypes'
    BY <1>0, <1>1, <2>2, <2>3, <2>4, <2>5, PassTypes
  <2> QED
    BY <1>1, <2>5, <2>6
<1> QED
  BY <1>3, <1>4, <1>5, <1>6, <1>7

LEMMA SettleTypes ==
  ASSUME QueueInv, Settle, ~Throws
  PROVE  /\ ServiceTypes'
         /\ op.at = "settle" /\ op'.at = op.then /\ op'.then = op.then /\ op'.plan = op.plan
         /\ op.then \in {"replay", "claim"}
         /\ mem' = [mem EXCEPT ![Here] = WithSettled]
<1>0. /\ ServiceTypes
      /\ op = [at |-> op.at, claim |-> op.claim, task |-> op.task, plan |-> op.plan,
               then |-> op.then, session |-> op.session]
      /\ op.plan \in Seq(Tasks)
      /\ 0 \in 0..MaxClock
      /\ runs \in [Projects -> 0..MaxClock] /\ clock \in 1..MaxClock
  BY OpFields, QueueAssumption DEF QueueInv, ServiceTypes
<1>1. /\ op.at = "settle"
      /\ op' = [op EXCEPT !.at = op.then, !.claim = 0, !.task = "none", !.session = 0]
      /\ UNCHANGED <<runs, allPaused, clock>>
      /\ Saves(Here, WithSettled, runs)
  BY DEF Settle, WithSettled
<1>2. op.then \in {"replay", "claim"}
  BY <1>1 DEF QueueInv, ClaimFits, Admitting
<1>3. op' = [at |-> op.then, claim |-> 0, task |-> "none", plan |-> op.plan,
             then |-> op.then, session |-> 0]
  BY <1>0, <1>1
<1>4. op' \in OpRecords /\ op'.at = op.then /\ op'.then = op.then /\ op'.plan = op.plan
  BY <1>0, <1>2, <1>3 DEF OpRecords
<1>5. Flags' /\ (pass' = "running" <=> pass = "running")
  BY <1>0, <1>1, SavesFlags
<1>6. ServiceTypes'
  BY <1>0, <1>1, <1>2, <1>4, <1>5, PassTypes
<1> QED
  BY <1>1, <1>2, <1>4, <1>6 DEF Saves

\* What ends a pass, stops the service or starts it.
Ending == EndPass \/ Throws \/ Crash \/ Launch
LEMMA EndingTypes ==
  ASSUME QueueInv, Ending
  PROVE  ServiceTypes' /\ op'.at \in {"idle", "down"} /\ op'.plan = <<>>
<1>0. ServiceTypes /\ Idle.at = "idle" /\ Idle.plan = <<>>
  BY DEF QueueInv, Idle
<1>1. CASE EndPass
  <2>1. PassOver(mem) /\ UNCHANGED <<allPaused, runs, clock>> /\ missed' = missed
    BY <1>1 DEF EndPass
  <2>2. missed' \in BOOLEAN
    BY <1>0, <2>1 DEF ServiceTypes
  <2> QED
    BY <1>0, <2>1, <2>2, PassOverTypes
<1>2. CASE Throws
  BY <1>0, <1>2, ThrowsTypes
<1>3. CASE Crash
  <2>1. /\ op' = [Idle EXCEPT !.at = "down"] /\ runs' = [p \in Projects |-> 0]
        /\ pass' = "none" /\ again' = FALSE /\ missed' = FALSE
        /\ UNCHANGED <<allPaused, clock>>
    BY <1>3 DEF Crash
  <2>2. op' \in OpRecords /\ op'.at = "down" /\ op'.plan = <<>>
    BY <2>1, IdleIsRecord
  <2>3. runs' \in [Projects -> 0..MaxClock]
    BY <2>1, QueueAssumption
  <2> QED
    BY <1>0, <2>1, <2>2, <2>3 DEF ServiceTypes
<1>4. CASE Launch
  <2>1. /\ again' = (again \/ pass # "none")
        /\ pass' = pass \/ (pass = "none" /\ pass' = "due")
        /\ missed' = FALSE
        /\ op' = Idle
        /\ UNCHANGED <<runs, allPaused, clock>>
        /\ op.at = "down"
    BY <1>4 DEF Launch, Kick
  <2>2. op' \in OpRecords /\ op'.at = "idle" /\ op'.plan = <<>>
    BY <1>0, <2>1, IdleIsRecord
  <2> QED
    BY <1>0, <2>1, <2>2 DEF ServiceTypes
<1> QED
  BY <1>1, <1>2, <1>3, <1>4 DEF Ending

-------------------------------------------------------------------------------
(* Every step keeps the pass in accord with the images. *)

LEMMA TypesStep ==
  ASSUME QueueInv, [Next]_queueVars
  PROVE  ServiceTypes'
<1>0. ServiceTypes
  BY DEF QueueInv
<1>1. CASE \/ \E t \in Tasks : PersonStarts(t) \/ Reopen(t)
           \/ \E p \in Projects : Ends(p) \/ Decides(p) \/ Configure(p)
           \/ ConfigureAll
  BY <1>0, <1>1, OthersStep
<1>2. CASE Ending
  BY <1>2, EndingTypes
<1>3. CASE BeginPass
  BY <1>3, BeginPassTypes
<1>4. CASE Replay
  BY <1>4, ReplayTypes
<1>5. CASE Claim /\ ~Throws
  BY <1>5, ClaimTypes
<1>6. CASE AdmitFromReceipt \/ AdmitRefused \/ AdmitStarts \/ AdmitFails \/ AdmitThrows
  BY <1>6, AdmitTypes
<1>7. CASE Settle /\ ~Throws
  BY <1>7, SettleTypes
<1>8. CASE UNCHANGED queueVars
  BY <1>0, <1>8 DEF queueVars, ServiceTypes
<1> QED
  BY <1>1, <1>2, <1>3, <1>4, <1>5, <1>6, <1>7, <1>8 DEF Next, Serve, Ending

\* A task in line stays there while its project's image does.
LEMMA LineStays ==
  ASSUME NEW p, NEW t \in Line(p, mem), mem'[p] = mem[p]
  PROVE  t \in Line(p, mem')
BY DEF Line

\* Nothing is planned where the pass is not at work.
LEMMA NoPlanFits ==
  ASSUME op'.plan = <<>>, ~Admitting'
  PROVE  PlanFits'
BY DEF PlanFits

\* The rest of the plan, where the image of one project changed.
LEMMA PlanStays ==
  ASSUME QueueInv, op.plan # <<>> => op'.at \in {"claim", "admit", "settle"} /\ op'.then = "claim",
         op'.plan = op.plan, NEW p,
         \A q \in Projects : q # p => mem'[q] = mem[q],
         \A i \in 1..Len(op.plan) : Home[op.plan[i]] # p,
         Admitting' => Here' = p
  PROVE  PlanFits'
<1>1. \A i \in 1..Len(op.plan) : op.plan[i] \in Tasks
  BY DEF QueueInv, ServiceTypes, OpRecords
<1>2. ASSUME NEW i \in 1..Len(op.plan)
      PROVE  op.plan[i] \in Line(Home[op.plan[i]], mem')
  <2>1. op.plan[i] \in Line(Home[op.plan[i]], mem) /\ Home[op.plan[i]] \in Projects
    BY <1>1, QueueAssumption DEF QueueInv, PlanFits
  <2> QED
    BY <2>1, LineStays
<1>3. \A i, j \in 1..Len(op.plan) : i # j => Home[op.plan[i]] # Home[op.plan[j]]
  BY DEF QueueInv, PlanFits
<1> QED
  BY <1>2, <1>3 DEF PlanFits

LEMMA MemoryElsewhere ==
  ASSUME ImagesFit, NEW p, NEW image, mem' = [mem EXCEPT ![p] = image]
  PROVE  \A q \in Projects : q # p => mem'[q] = mem[q]
BY DEF ImagesFit

LEMMA PlanStep ==
  ASSUME QueueInv, [Next]_queueVars
  PROVE  PlanFits'
<1>0. ServiceTypes /\ PlanFits /\ ImagesFit
  BY DEF QueueInv
<1>1. CASE \/ \E t \in Tasks : PersonStarts(t) \/ Reopen(t)
           \/ \E p \in Projects : Ends(p) \/ Decides(p) \/ Configure(p)
           \/ ConfigureAll
  <2>1. op' = op /\ op.at = "idle"
    BY <1>0, <1>1, OthersStep
  <2>2. op.plan = <<>>
    BY <1>0, <2>1 DEF PlanFits
  <2> QED
    BY <2>1, <2>2, NoPlanFits DEF Admitting
<1>2. CASE Ending
  BY <1>2, EndingTypes, NoPlanFits DEF Admitting
<1>3. CASE BeginPass
  BY <1>3, BeginPassTypes, IdleIsRecord, NoPlanFits DEF Admitting
<1>4. CASE Replay
  <2>1. op.at = "replay"
    BY <1>4 DEF Replay
  <2>2. op.plan = <<>>
    BY <1>0, <2>1 DEF PlanFits
  <2>3. mem' = mem
    BY <1>4, ReplayTypes
  <2>4. CASE op'.at = "admit" /\ op'.plan = op.plan
    BY <2>2, <2>4 DEF PlanFits
  <2>5. CASE op'.at = "claim" /\ op'.then = "claim" /\ op'.plan \in Plans(mem, runs, allPaused)
    <3>1. /\ \A i \in 1..Len(op'.plan) : op'.plan[i] \in Line(Home[op'.plan[i]], mem)
          /\ \A i, j \in 1..Len(op'.plan) : i # j => Home[op'.plan[i]] # Home[op'.plan[j]]
      BY <1>0, <2>5, PlansFit
    <3> QED
      BY <2>3, <2>5, <3>1 DEF PlanFits, Admitting
  <2> QED
    BY <1>4, <2>4, <2>5, ReplayTypes
<1>5. CASE Claim /\ ~Throws
  <2> DEFINE t == Head(op.plan)
             rest == Tail(op.plan)
  <2>1. /\ op.plan # <<>> /\ op.at = "claim"
        /\ op'.at = "admit" /\ op'.then = op.then /\ op'.plan = rest /\ op'.task = t
        /\ mem' = [mem EXCEPT ![Home[t]] = WithClaim(t)]
    BY <1>5, ClaimTypes
  <2>2. op.plan \in Seq(Tasks)
    BY <1>0, OpFields
  <2>3. /\ Len(rest) = Len(op.plan) - 1 /\ Len(op.plan) \in Nat
        /\ \A i \in 1..Len(rest) : rest[i] = op.plan[i + 1] /\ i + 1 \in 1..Len(op.plan)
        /\ 1 \in 1..Len(op.plan) /\ t = op.plan[1]
    BY <2>1, <2>2
  <2>4. op.then = "claim"
    BY <1>0, <2>1 DEF PlanFits
  <2> HIDE DEF t, rest
  <2>5. \A i \in 1..Len(rest) : Home[rest[i]] # Home[t]
    <3>1. ASSUME NEW i \in 1..Len(rest)
          PROVE  Home[rest[i]] # Home[t]
      <4>1. i + 1 # 1
        BY <2>3
      <4> QED
        BY <1>0, <2>3, <4>1 DEF PlanFits
    <3> QED
      BY <3>1
  <2>6. \A i, j \in 1..Len(rest) : i # j => Home[rest[i]] # Home[rest[j]]
    <3>1. ASSUME NEW i \in 1..Len(rest), NEW j \in 1..Len(rest), i # j
          PROVE  Home[rest[i]] # Home[rest[j]]
      <4>1. i + 1 # j + 1
        BY <2>3, <3>1
      <4> QED
        BY <1>0, <2>3, <4>1 DEF PlanFits
    <3> QED
      BY <3>1
  <2>7. ASSUME NEW i \in 1..Len(rest)
        PROVE  rest[i] \in Line(Home[rest[i]], mem')
    <3>1. rest[i] \in Line(Home[rest[i]], mem)
      BY <1>0, <2>3 DEF PlanFits
    <3>2. Home[rest[i]] \in Projects
      BY <3>1, QueueAssumption DEF Line
    <3>3. mem'[Home[rest[i]]] = mem[Home[rest[i]]]
      BY <1>0, <2>1, <2>5, <3>2, MemoryElsewhere
    <3> QED
      BY <3>1, <3>3, LineStays
  <2>8. Here' = Home[t]
    BY <2>1 DEF Here
  <2> QED
    BY <2>1, <2>4, <2>5, <2>6, <2>7, <2>8 DEF PlanFits
<1>6. CASE AdmitFromReceipt \/ AdmitRefused \/ AdmitStarts \/ AdmitFails \/ AdmitThrows
  <2>1. /\ op.at = "admit"
        /\ op'.at = "settle" /\ op'.claim = op.claim /\ op'.task = op.task
        /\ op'.plan = op.plan /\ op'.then = op.then
    BY <1>6, AdmitTypes
  <2>2. \A i \in 1..Len(op.plan) : Home[op.plan[i]] # Here
    BY <1>0, <2>1 DEF PlanFits, Admitting
  <2>3. Here' = Here
    BY <2>1 DEF Here
  <2>4. \A q \in Projects : q # Here => mem'[q] = mem[q]
    <3>1. CASE AdmitFromReceipt \/ AdmitRefused
      BY <3>1 DEF AdmitFromReceipt, AdmitRefused
    <3>2. CASE AdmitStarts
      BY <1>0, <3>2, MemoryElsewhere DEF AdmitStarts, Saves
    <3>3. CASE AdmitFails
      BY <1>0, <3>3, MemoryElsewhere DEF AdmitFails, Saves
    <3>4. CASE AdmitThrows
      BY <1>0, <3>4, MemoryElsewhere DEF AdmitThrows, Saves
    <3> QED
      BY <1>6, <3>1, <3>2, <3>3, <3>4
  <2>5. op.plan # <<>> => op'.at \in {"claim", "admit", "settle"} /\ op'.then = "claim"
    BY <1>0, <2>1 DEF PlanFits
  <2> QED
    BY <2>1, <2>2, <2>3, <2>4, <2>5, PlanStays
<1>7. CASE Settle /\ ~Throws
  <2>1. /\ op.at = "settle" /\ op'.at = op.then /\ op'.then = op.then /\ op'.plan = op.plan
        /\ op.then \in {"replay", "claim"}
        /\ mem' = [mem EXCEPT ![Here] = WithSettled]
    BY <1>7, SettleTypes
  <2>2. \A i \in 1..Len(op.plan) : Home[op.plan[i]] # Here
    BY <1>0, <2>1 DEF PlanFits, Admitting
  <2>3. \A q \in Projects : q # Here => mem'[q] = mem[q]
    BY <1>0, <2>1, MemoryElsewhere
  <2>4. op.plan # <<>> => op'.at \in {"claim", "admit", "settle"} /\ op'.then = "claim"
    BY <1>0, <2>1 DEF PlanFits
  <2>5. ~Admitting'
    BY <2>1 DEF Admitting
  <2> QED
    BY <2>1, <2>2, <2>3, <2>4, <2>5, PlanStays
<1>8. CASE UNCHANGED queueVars
  BY <1>0, <1>8 DEF queueVars, PlanFits, Admitting, Here
<1> QED
  BY <1>1, <1>2, <1>3, <1>4, <1>5, <1>6, <1>7, <1>8 DEF Next, Serve, Ending

\* The claim at work stays open until it is settled.
LEMMA AnswerFits ==
  ASSUME QueueInv, op.at = "admit", op'.at = "settle", op'.claim = op.claim,
         op'.task = op.task, op'.then = op.then, mem'[Here].claims = mem[Here].claims,
         IF op'.session = 0
           THEN op.claim \in halfway' \/ \A s \in mem'[Here].sessions : s.command # op.claim
           ELSE \E s \in mem'[Here].sessions :
                  s.command = op.claim /\ s.id = op'.session /\ s.task = op.task
  PROVE  ClaimFits'
<1>1. Here' = Here
  BY DEF Here
<1>2. /\ op.then \in {"replay", "claim"}
      /\ op.task \in Tasks
      /\ \E c \in mem[Here].claims : c.id = op.claim /\ c.task = op.task /\ c.state = "claimed"
  BY DEF QueueInv, ClaimFits, Admitting
<1>3. Receipts' = {s \in mem'[Here].sessions : s.command = op.claim}
  BY <1>1 DEF Receipts
<1>4. IF op'.session = 0 THEN op.claim \in halfway' \/ Receipts' = {}
      ELSE \E s \in Receipts' : s.id = op'.session /\ s.task = op.task
  BY <1>3
<1> QED
  BY <1>1, <1>2, <1>4 DEF ClaimFits

LEMMA ClaimStep ==
  ASSUME QueueInv, [Next]_queueVars
  PROVE  ClaimFits'
<1>0. ServiceTypes /\ ClaimFits /\ ImagesFit
  BY DEF QueueInv
<1>1. CASE \/ \E t \in Tasks : PersonStarts(t) \/ Reopen(t)
           \/ \E p \in Projects : Ends(p) \/ Decides(p) \/ Configure(p)
           \/ ConfigureAll
  BY <1>0, <1>1, OthersStep DEF ClaimFits, Admitting
<1>2. CASE Ending
  BY <1>2, EndingTypes DEF ClaimFits, Admitting
<1>3. CASE BeginPass
  BY <1>3, BeginPassTypes, IdleIsRecord DEF ClaimFits, Admitting
<1>4. CASE Replay
  <2>0. mem' = mem
    BY <1>4, ReplayTypes
  <2>1. CASE op'.at = "claim"
    BY <2>1 DEF ClaimFits, Admitting
  <2>2. CASE /\ op'.at = "admit" /\ op'.then = "replay"
             /\ \E p \in Projects : \E c \in Pending(mem[p]) :
                    op'.claim = c.id /\ op'.task = c.task
    <3>1. PICK p \in Projects : \E c \in Pending(mem[p]) :
                    op'.claim = c.id /\ op'.task = c.task
      BY <2>2
    <3>2. PICK c \in Pending(mem[p]) : op'.claim = c.id /\ op'.task = c.task
      BY <3>1
    <3>3. c \in mem[p].claims /\ c.state = "claimed"
      BY <3>2 DEF Pending
    <3>4. ImageFits(p, mem[p], clock, halfway) /\ Shaped(p, mem[p])
      BY <1>0, ProjectHasImage
    <3>5. c.task \in Tasks /\ Home[c.task] = p
      BY <3>3, <3>4, ShapedFields DEF ImageFits, Numbered
    <3>6. Here' = p
      BY <3>2, <3>5 DEF Here
    <3> QED
      BY <2>0, <2>2, <3>2, <3>3, <3>5, <3>6 DEF ClaimFits, Admitting
  <2> QED
    BY <1>4, <2>1, <2>2, ReplayTypes
<1>5. CASE Claim /\ ~Throws
  <2> DEFINE t == Head(op.plan)
  <2>1. /\ op.plan # <<>> /\ op.at = "claim" /\ clock < MaxClock
        /\ op'.at = "admit" /\ op'.then = op.then
        /\ op'.task = t /\ op'.claim = clock + 1
        /\ mem' = [mem EXCEPT ![Home[t]] = WithClaim(t)]
    BY <1>5, ClaimTypes
  <2>2. /\ t \in Tasks
        /\ Home[t] \in Projects
        /\ WithClaim(t).claims = mem[Home[t]].claims \cup {NewClaim(t)}
    BY <2>1, NewClaimFits
  <2>3. op.then = "claim"
    BY <2>1 DEF QueueInv, PlanFits
  <2> HIDE DEF t
  <2>4. mem'[Home[t]] = WithClaim(t)
    BY <1>0, <2>1, <2>2 DEF ImagesFit
  <2>5. NewClaim(t).id = clock + 1 /\ NewClaim(t).task = t /\ NewClaim(t).state = "claimed"
    BY DEF NewClaim
  <2>6. Here' = Home[t]
    BY <2>1 DEF Here
  <2>7. \E c \in mem'[Here'].claims : c.id = op'.claim /\ c.task = op'.task /\ c.state = "claimed"
    BY <2>1, <2>2, <2>4, <2>5, <2>6
  <2> QED
    BY <2>1, <2>2, <2>3, <2>7 DEF ClaimFits, Admitting
<1>6. CASE AdmitFromReceipt \/ AdmitRefused \/ AdmitStarts \/ AdmitFails \/ AdmitThrows
  <2>1. /\ op.at = "admit"
        /\ op'.at = "settle" /\ op'.claim = op.claim /\ op'.task = op.task
        /\ op'.then = op.then
    BY <1>6, AdmitTypes
  <2>2. /\ Here \in Projects
        /\ ImageFits(Here, mem[Here], clock, halfway)
        /\ Shaped(Here, mem[Here])
        /\ Claimed.id = op.claim
        /\ Claimed.task = op.task
        /\ Claimed \in mem[Here].claims
    BY <2>1, ClaimAtWork DEF Admitting
  <2>3. CASE AdmitFromReceipt
    <3>1. PICK s \in Receipts : op' = Settling(s.id)
      BY <2>3 DEF AdmitFromReceipt
    <3>2. s \in mem[Here].sessions /\ s.command = op.claim
      BY <3>1 DEF Receipts
    <3>3. s.id \in 0..MaxClock /\ s.id # 0 /\ s.by \in {"person", "queue"} /\ s.command # 0
      <4>1. Claimed.id # 0
        BY <2>2, ShapedFields
      <4>2. s.id \in 1..MaxClock /\ s.by \in {"person", "queue"} /\ MaxClock \in Nat
        BY <2>2, <3>2, ShapedFields
      <4> QED
        BY <2>2, <3>2, <4>1, <4>2
    <3>4. s.task = op.task
      <4>1. PICK c \in mem[Here].claims : c.id = s.command /\ c.task = s.task
        BY <2>2, <3>2, <3>3 DEF ImageFits, SessionsAreClaimed
      <4>2. c = Claimed
        BY <2>2, <3>2, <4>1 DEF ImageFits, ClaimsAreOne
      <4> QED
        BY <2>2, <4>1, <4>2
    <3>5. op'.session = s.id
      BY <1>0, <3>1, <3>3, SettlingFields
    <3>6. mem' = mem
      BY <2>3 DEF AdmitFromReceipt
    <3> QED
      BY <2>1, <3>2, <3>3, <3>4, <3>5, <3>6, AnswerFits
  <2>4. CASE AdmitRefused
    <3>1. op' = Settling(0) /\ mem' = mem /\ Receipts = {} /\ 0 \in 0..MaxClock
      BY <2>4, QueueAssumption DEF AdmitRefused
    <3>2. op'.session = 0
      BY <1>0, <3>1, SettlingFields
    <3>3. \A s \in mem[Here].sessions : s.command # op.claim
      BY <3>1 DEF Receipts
    <3> QED
      BY <2>1, <3>1, <3>2, <3>3, AnswerFits
  <2>5. CASE AdmitStarts
    <3> DEFINE s == Carrying(op.claim, TRUE)
               new == Begun(mem[Here], s)
    <3>1. /\ op' = Settling(clock + 1) /\ mem' = [mem EXCEPT ![Here] = new]
          /\ Draws /\ Admits
      BY <2>5 DEF AdmitStarts, Saves
    <3>2. clock < MaxClock
      BY <3>1 DEF Draws
    <3>3. /\ new.claims = mem[Here].claims
          /\ new.sessions = mem[Here].sessions \cup {s}
          /\ s.id = clock + 1 /\ s.command = op.claim /\ s.task = op.task
      BY <3>1, <3>2, CarryingFits
    <3>4. clock + 1 \in 0..MaxClock /\ clock + 1 # 0
      BY <1>0, <3>1, DrawnClock, ClockIsNumber
    <3>5. op'.session = clock + 1
      BY <1>0, <3>1, <3>4, SettlingFields
    <3> HIDE DEF s, new
    <3>6. mem'[Here] = new
      BY <1>0, <2>2, <3>1 DEF ImagesFit
    <3> QED
      BY <2>1, <3>3, <3>4, <3>5, <3>6, AnswerFits
  <2>6. CASE AdmitFails
    <3> DEFINE a == ~(op.task \in Native \ Looped)
               new == Begun(mem[Here], Carrying(op.claim, a))
    <3>1. /\ op' = Settling(0) /\ mem' = [mem EXCEPT ![Here] = new]
          /\ Draws /\ Admits /\ halfway' = halfway \cup {op.claim} /\ 0 \in 0..MaxClock
      BY <2>6, QueueAssumption DEF AdmitFails, Saves
    <3>2. clock < MaxClock /\ a \in BOOLEAN
      BY <3>1 DEF Draws
    <3> HIDE DEF a
    <3>3. new.claims = mem[Here].claims
      BY <3>1, <3>2, CarryingFits
    <3>4. op'.session = 0
      BY <1>0, <3>1, SettlingFields
    <3> HIDE DEF new
    <3>5. mem'[Here] = new
      BY <1>0, <2>2, <3>1 DEF ImagesFit
    <3> QED
      BY <2>1, <3>1, <3>3, <3>4, <3>5, AnswerFits
  <2>7. CASE AdmitThrows
    <3>1. PICK a \in BOOLEAN : Saves(Here, Begun(mem[Here], Carrying(op.claim, a)), runs')
      BY <2>7 DEF AdmitThrows
    <3> DEFINE new == Begun(mem[Here], Carrying(op.claim, a))
    <3>2. mem' = [mem EXCEPT ![Here] = new]
      BY ONLY <3>1 DEF Saves
    <3>3. /\ op' = Settling(0) /\ mem' = [mem EXCEPT ![Here] = new]
          /\ Draws /\ Admits /\ halfway' = halfway \cup {op.claim} /\ 0 \in 0..MaxClock
      BY <2>7, <3>2, QueueAssumption DEF AdmitThrows
    <3>4. clock < MaxClock
      BY <3>3 DEF Draws
    <3>5. new.claims = mem[Here].claims
      BY <3>3, <3>4, CarryingFits
    <3>6. op'.session = 0
      BY <1>0, <3>3, SettlingFields
    <3> HIDE DEF new
    <3>7. mem'[Here] = new
      BY <1>0, <2>2, <3>3 DEF ImagesFit
    <3> QED
      BY <2>1, <3>3, <3>5, <3>6, <3>7, AnswerFits
  <2> QED
    BY <1>6, <2>3, <2>4, <2>5, <2>6, <2>7
<1>7. CASE Settle /\ ~Throws
  <2>1. op'.at \in {"replay", "claim"}
    BY <1>7, SettleTypes
  <2> QED
    BY <2>1 DEF ClaimFits, Admitting
<1>8. CASE UNCHANGED queueVars
  BY <1>0, <1>8 DEF queueVars, ClaimFits, Admitting, Here, Receipts
<1> QED
  BY <1>1, <1>2, <1>3, <1>4, <1>5, <1>6, <1>7, <1>8 DEF Next, Serve, Ending

-------------------------------------------------------------------------------
(* The invariant, and what follows from it. *)

LEMMA QueueInit == Init => QueueInv
<1> SUFFICES ASSUME Init PROVE QueueInv
  OBVIOUS
<1> DEFINE image(p, on) ==
             [auto |-> p \in on, paused |-> FALSE, claims |-> {}, sessions |-> {},
              since |-> [t \in TasksOf(p) |-> 1]]
<1>1. PICK on \in SUBSET Projects : mem = [p \in Projects |-> image(p, on)]
  BY Zenon DEF Init, TasksOf
<1>2. disk = mem /\ clock = 1 /\ halfway = {} /\ op = Idle /\ allPaused = FALSE /\ again = FALSE
      /\ missed = FALSE /\ pass \in {"none", "due"} /\ runs = [p \in Projects |-> 0]
  BY DEF Init
<1>3. MaxClock \in Nat /\ 1 \in 1..MaxClock /\ 0 \in 0..MaxClock /\ 1 \in 0..MaxClock
  BY QueueAssumption
<1>4. ASSUME NEW p \in Projects
      PROVE  ImageFits(p, image(p, on), 1, {})
  <2> DEFINE i == image(p, on)
  <2>1. /\ i.claims = {} /\ i.sessions = {} /\ i.since = [t \in TasksOf(p) |-> 1]
        /\ i = [auto |-> p \in on, paused |-> FALSE, claims |-> {}, sessions |-> {},
                since |-> [t \in TasksOf(p) |-> 1]]
    OBVIOUS
  <2>2. (p \in on) \in BOOLEAN
    OBVIOUS
  <2>3. [t \in TasksOf(p) |-> 1] \in [TasksOf(p) -> 0..MaxClock]
    BY <1>3
  <2> HIDE DEF i
  <2>4. i \in ImageRecords(p)
    BY <2>1, <2>2, <2>3 DEF ImageRecords
  <2>5. Shaped(p, i)
    BY <2>1, <2>4, FS_EmptySet DEF Shaped
  <2>6. Numbered(p, i, 1)
    BY <2>1 DEF Numbered
  <2>7. ImageFits(p, i, 1, {})
    BY <2>1, <2>5, <2>6 DEF ImageFits, ClaimsAreOne, SessionsAreClaimed, CommandsAreOne,
       ReadyIsLater, ClaimsAreTrue, Consented
  <2> QED
    BY <2>7 DEF i
<1>5. \A p \in Projects : mem[p] = image(p, on) /\ mem[p].claims = {}
  BY <1>1
<1> HIDE DEF image
<1>6. ImagesFit
  <2>1. \A p \in Projects : ImageFits(p, mem[p], 1, {})
    BY <1>4, <1>5
  <2>2. \A p \in Projects : mem[p] \in Images
    BY <2>1 DEF ImageFits, Shaped, Images
  <2>3. mem \in [Projects -> Images]
    BY <1>1, <2>2
  <2> QED
    BY <1>2, <2>1, <2>3 DEF ImagesFit
<1>7. ClaimsAreSaved /\ ClaimsAreApart
  BY <1>2, <1>5 DEF ClaimsAreSaved, ClaimsAreApart
<1>8. op.at = "idle" /\ op.plan = <<>> /\ op \in OpRecords
  BY <1>2, IdleIsRecord DEF Idle
<1>9. ServiceTypes
  BY <1>2, <1>3, <1>8 DEF ServiceTypes
<1>10. PlanFits /\ ClaimFits
  BY <1>8 DEF PlanFits, ClaimFits, Admitting
<1> QED
  BY <1>6, <1>7, <1>9, <1>10 DEF QueueInv

LEMMA QueueStep == QueueInv /\ [Next]_queueVars => QueueInv'
BY ImagesStep, TypesStep, PlanStep, ClaimStep DEF QueueInv, ImageParts

\* It holds throughout.
LEMMA QueueInvariance == Spec => []QueueInv
BY QueueInit, QueueStep, PTL DEF Spec

\* The variables have their types, and a claim names a session exactly when it is started.
THEOREM QueueTypeCorrect == Spec => []TypeOK
<1>1. ASSUME QueueInv
      PROVE  TypeOK
  <2>1. ASSUME NEW p \in Projects, NEW image \in {mem[p], disk[p]}
        PROVE  /\ {image.auto, image.paused} \subseteq BOOLEAN
               /\ image.claims \subseteq ClaimRecords
               /\ image.sessions \subseteq SessionRecords
               /\ \A c \in image.claims : c.session # 0 <=> c.state = "started"
               /\ image.since \in [{u \in Tasks : Home[u] = p} -> 0..MaxClock]
    <3>1. image \in ImageRecords(p) /\ ClaimsAreTrue(image, halfway)
      BY <1>1, <2>1 DEF QueueInv, ImagesFit, ImageFits, Shaped
    <3>2. /\ image.auto \in BOOLEAN /\ image.paused \in BOOLEAN
          /\ image.claims \in SUBSET ClaimRecords
          /\ image.sessions \in SUBSET SessionRecords
          /\ image.since \in [TasksOf(p) -> 0..MaxClock]
      BY <3>1 DEF ImageRecords
    <3>3. \A c \in image.claims : c.session # 0 <=> c.state = "started"
      BY <3>1 DEF ClaimsAreTrue
    <3> QED
      BY <3>2, <3>3 DEF TasksOf
  <2>2. ServiceTypes /\ op.at \in {"idle", "replay", "claim", "admit", "settle", "down"}
    BY <1>1, OpFields DEF QueueInv
  <2> QED
    BY <2>1, <2>2 DEF TypeOK, ServiceTypes
<1> QED
  BY <1>1, QueueInvariance, PTL

\* What a saved image says is said of its own project's tasks and claims.
LEMMA SavedIsOfItsProject ==
  ASSUME QueueInv
  PROVE  /\ \A s \in Sessions : \E p \in Projects :
              s \in disk[p].sessions /\ ImageFits(p, disk[p], clock, halfway)
              /\ Shaped(p, disk[p]) /\ Home[s.task] = p
         /\ \A c \in Claims : \E p \in Projects :
              c \in disk[p].claims /\ ImageFits(p, disk[p], clock, halfway)
              /\ Shaped(p, disk[p])
<1>1. \A p \in Projects : ImageFits(p, disk[p], clock, halfway) /\ Shaped(p, disk[p])
  BY DEF QueueInv, ImagesFit, ImageFits
<1>2. \A p \in Projects : \A s \in disk[p].sessions : Home[s.task] = p
  BY <1>1 DEF ImageFits, Numbered
<1> QED
  BY <1>1, <1>2 DEF Sessions, Claims

\* A task is started by the queue at most once for each time it becomes Ready.
THEOREM TasksStartOncePerMoment == Spec => []OneStartPerMoment
<1>1. ASSUME QueueInv
      PROVE  OneStartPerMoment
  <2>1. ASSUME NEW s \in Sessions, NEW u \in Sessions, s.by = "queue", u.by = "queue",
               s.task = u.task, s.moment = u.moment
        PROVE  s = u
    <3>1. PICK p \in Projects : s \in disk[p].sessions /\ ImageFits(p, disk[p], clock, halfway)
                                /\ Shaped(p, disk[p]) /\ Home[s.task] = p
      BY <1>1, SavedIsOfItsProject
    <3>2. u \in disk[p].sessions
      BY <1>1, <2>1, <3>1, SavedIsOfItsProject
    <3>3. PICK c \in disk[p].claims : c.id = s.command /\ c.task = s.task /\ c.moment = s.moment
      BY <2>1, <3>1 DEF ImageFits, SessionsAreClaimed
    <3>4. PICK d \in disk[p].claims : d.id = u.command /\ d.task = u.task /\ d.moment = u.moment
      BY <2>1, <3>1, <3>2 DEF ImageFits, SessionsAreClaimed
    <3>5. c = d
      BY <2>1, <3>1, <3>3, <3>4 DEF ImageFits, ClaimsAreOne
    <3>6. s.command = u.command /\ s.command # 0
      BY <3>1, <3>3, <3>4, <3>5, ShapedFields
    <3> QED
      BY <3>1, <3>2, <3>6 DEF ImageFits, CommandsAreOne
  <2> QED
    BY <2>1 DEF OneStartPerMoment
<1> QED
  BY <1>1, QueueInvariance, PTL

\* A claim says what became of its start.
THEOREM ClaimsAreAnswered == Spec => []ClaimsTellTheTruth
<1>1. ASSUME QueueInv
      PROVE  ClaimsTellTheTruth
  <2>1. ASSUME NEW c \in Claims, c.state = "started"
        PROVE  \E s \in Sessions : s.id = c.session /\ s.command = c.id /\ s.task = c.task
    <3>1. PICK p \in Projects : c \in disk[p].claims /\ ImageFits(p, disk[p], clock, halfway)
      BY <1>1, SavedIsOfItsProject
    <3>2. \E s \in disk[p].sessions : s.id = c.session /\ s.command = c.id /\ s.task = c.task
      BY <2>1, <3>1 DEF ImageFits, ClaimsAreTrue
    <3> QED
      BY <3>2 DEF Sessions
  <2>2. ASSUME NEW c \in Claims, c.state = "refused", c.id \notin halfway,
               NEW s \in Sessions, s.command = c.id
        PROVE  FALSE
    <3>1. PICK p \in Projects : c \in disk[p].claims /\ ImageFits(p, disk[p], clock, halfway)
                                /\ Shaped(p, disk[p])
      BY <1>1, SavedIsOfItsProject
    <3>2. PICK q \in Projects : s \in disk[q].sessions /\ ImageFits(q, disk[q], clock, halfway)
                                /\ Shaped(q, disk[q])
      BY <1>1, SavedIsOfItsProject
    <3>3. s.command # 0 /\ s.by \in {"person", "queue"}
      <4>1. c.id # 0
        BY <3>1, ShapedFields
      <4>2. s.by \in {"person", "queue"}
        BY <3>2, ShapedFields
      <4> QED
        BY <2>2, <4>1, <4>2
    <3>4. PICK d \in disk[q].claims : d.id = s.command
      BY <3>2, <3>3 DEF ImageFits, SessionsAreClaimed
    <3>5. p = q
      BY <1>1, <2>2, <3>1, <3>4 DEF QueueInv, ClaimsAreApart
    <3> QED
      BY <2>2, <3>1, <3>2, <3>5 DEF ImageFits, ClaimsAreTrue
  <2> QED
    BY <2>1, <2>2 DEF ClaimsTellTheTruth
<1> QED
  BY <1>1, QueueInvariance, PTL

\* Nothing is sent to a service that a person has not sent it to before.
THEOREM ConsentComesFirst == Spec => []ConsentIsGiven
<1>1. ASSUME QueueInv
      PROVE  ConsentIsGiven
  <2>1. ASSUME NEW s \in Sessions, s.by = "queue", s.task \in Native
        PROVE  \E u \in Sessions : u.by = "person" /\ u.task = s.task /\ u.id < s.id
    <3>1. PICK p \in Projects : s \in disk[p].sessions /\ ImageFits(p, disk[p], clock, halfway)
      BY <1>1, SavedIsOfItsProject
    <3>2. \E u \in disk[p].sessions : u.by = "person" /\ u.task = s.task /\ u.id < s.id
      BY <2>1, <3>1 DEF ImageFits, Consented
    <3> QED
      BY <3>2 DEF Sessions
  <2> QED
    BY <2>1 DEF ConsentIsGiven
<1> QED
  BY <1>1, QueueInvariance, PTL
===============================================================================
