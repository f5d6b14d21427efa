--------------------------- MODULE ReadyLimitProofs ---------------------------
(***************************************************************************)
(* What is proved of the limits of ReadyScheduler: automatic start never   *)
(* takes the machine past them.  A plan leaves room for all it names; of   *)
(* the steps of a pass only a new claim adds to the work under way, and it *)
(* takes one from the plan; the start of a claim and its settlement put    *)
(* one thing in the place of another.                                      *)
(***************************************************************************)
EXTENDS ReadySchedulerProofs

\* What is under way in one image: sessions, and claims that have none yet.
Uncovered(image) == {c \in Pending(image) : \A s \in Active(image) : s.command # c.id}
Work(image) == Active(image) \cup Uncovered(image)
WorkIn(images) == UNION {Work(images[p]) : p \in Projects}

\* Memory is what is saved, but for a session whose save failed just now.
MemoryIsSaved ==
  /\ op.at # "settle" => mem = disk
  /\ op.at = "settle" =>
       /\ \A p \in Projects : p # Here => mem[p] = disk[p]
       /\ \/ mem[Here].sessions = disk[Here].sessions
          \/ /\ \E s : mem[Here].sessions = disk[Here].sessions \cup {s}
             /\ \A u \in disk[Here].sessions : u.command # op.claim

\* There is room for what is planned.
RoomIsKept == op.plan # <<>> => UnderWay(disk) + Len(op.plan) <= GlobalLimit

LimitInv == QueueInv /\ MemoryIsSaved /\ RoomIsKept

-------------------------------------------------------------------------------
(* Counting the work under way. *)

LEMMA UnderWayCountsWork ==
  ASSUME NEW images
  PROVE  UnderWay(images) = Cardinality(WorkIn(images))
<1>1. (UNION {Active(images[p]) : p \in Projects})
        \cup (UNION {Uncovered(images[p]) : p \in Projects}) = WorkIn(images)
  <2> DEFINE A == UNION {Active(images[p]) : p \in Projects}
             B == UNION {Uncovered(images[p]) : p \in Projects}
  <2>1. A \cup B \subseteq WorkIn(images)
    BY DEF WorkIn, Work
  <2>2. ASSUME NEW x \in WorkIn(images)
        PROVE  x \in A \cup B
    <3>1. PICK p \in Projects : x \in Active(images[p]) \/ x \in Uncovered(images[p])
      BY DEF WorkIn, Work
    <3> QED
      BY <3>1
  <2> HIDE DEF A, B
  <2>3. A \cup B = WorkIn(images)
    BY <2>1, <2>2
  <2> QED
    BY <2>3 DEF A, B
<1> QED
  BY <1>1 DEF UnderWay, Uncovered

\* The work in an image is of its project, and finite.
LEMMA WorkIsFinite ==
  ASSUME NEW p \in Projects, NEW image, NEW k, NEW h, ImageFits(p, image, k, h)
  PROVE  /\ IsFiniteSet(Work(image))
         /\ \A x \in Work(image) : Home[x.task] = p
<1>1. /\ image.claims \in SUBSET ClaimRecords /\ image.sessions \in SUBSET SessionRecords
      /\ IsFiniteSet(image.claims) /\ IsFiniteSet(image.sessions)
  BY DEF ImageFits, Shaped, ImageRecords
<1>2. Work(image) \in SUBSET (image.claims \cup image.sessions)
  BY DEF Work, Active, Uncovered, Pending
<1>3. IsFiniteSet(image.claims \cup image.sessions)
  BY <1>1, FS_Union
<1>4. IsFiniteSet(Work(image))
  BY <1>2, <1>3, FS_Subset
<1>5. \A x \in Work(image) : Home[x.task] = p
  BY <1>2 DEF ImageFits, Numbered
<1> QED
  BY <1>4, <1>5
LEMMA AllWorkIsFinite ==
  ASSUME NEW images, NEW k, NEW h, \A p \in Projects : ImageFits(p, images[p], k, h)
  PROVE  IsFiniteSet(WorkIn(images)) /\ UnderWay(images) \in Nat
<1> DEFINE parts == {Work(images[p]) : p \in Projects}
           f == [p \in Projects |-> Work(images[p])]
<1>1. f \in Surjection(Projects, parts)
  BY DEF Surjection
<1>2. IsFiniteSet(parts)
  BY <1>1, QueueAssumption, FS_Surjection
<1>3. \A T \in parts : IsFiniteSet(T)
  BY WorkIsFinite
<1>4. IsFiniteSet(UNION parts)
  <2> HIDE DEF parts
  <2> QED
    BY <1>2, <1>3, FS_UNION
<1>5. IsFiniteSet(WorkIn(images))
  BY <1>4 DEF WorkIn
<1> QED
  BY <1>5, UnderWayCountsWork, FS_CardinalityType

\* One more, and one in the place of another.
LEMMA OneMore ==
  ASSUME NEW W, IsFiniteSet(W), NEW V, NEW c, V \subseteq W \cup {c}
  PROVE  Cardinality(V) <= Cardinality(W) + 1
<1>1. /\ IsFiniteSet(W \cup {c})
      /\ Cardinality(W \cup {c}) = IF c \in W THEN Cardinality(W) ELSE Cardinality(W) + 1
  BY FS_AddElement
<1>2. IsFiniteSet(V) /\ Cardinality(V) <= Cardinality(W \cup {c})
  BY <1>1, FS_Subset
<1>3. Cardinality(W) \in Nat /\ Cardinality(V) \in Nat
  BY <1>2, FS_CardinalityType
<1> QED
  BY <1>1, <1>2, <1>3
LEMMA NoMore ==
  ASSUME NEW W, IsFiniteSet(W), NEW V, NEW c \in W, NEW s, V \subseteq (W \ {c}) \cup {s}
  PROVE  Cardinality(V) <= Cardinality(W)
<1>1. IsFiniteSet(W \ {c}) /\ Cardinality(W \ {c}) = Cardinality(W) - 1
  BY FS_RemoveElement
<1>2. Cardinality(V) <= Cardinality(W \ {c}) + 1
  BY <1>1, OneMore
<1>3. Cardinality(W) \in Nat
  BY FS_CardinalityType
<1>4. IsFiniteSet((W \ {c}) \cup {s})
  BY <1>1, FS_AddElement
<1>5. IsFiniteSet(V)
  BY <1>4, FS_Subset
<1>6. Cardinality(V) \in Nat
  BY <1>5, FS_CardinalityType
<1> QED
  BY <1>1, <1>2, <1>3, <1>6
LEMMA NotMore ==
  ASSUME NEW W, IsFiniteSet(W), NEW V, V \subseteq W
  PROVE  Cardinality(V) <= Cardinality(W)
BY FS_Subset

\* Where no claim is open, what is under way is at most what counts against the limit.
LEMMA LargestBounds ==
  ASSUME NEW a \in Nat, NEW b \in Nat
  PROVE  a <= Largest({a, b})
<1>1. \E n \in {a, b} : \A m \in {a, b} : m <= n
  <2>1. CASE a <= b
    BY <2>1
  <2>2. CASE b <= a
    BY <2>2
  <2> QED
    BY <2>1, <2>2
<1> QED
  BY <1>1 DEF Largest
LEMMA RunningCountsWork ==
  ASSUME ImagesFit, \A p \in Projects : Pending(mem[p]) = {}
  PROVE  UnderWay(mem) <= Running(mem, runs)
<1> DEFINE n(p) == Cardinality(Active(mem[p]))
           used(p) == Used(p, mem, runs)
           few == UNION {{p} \X (1..n(p)) : p \in Projects}
           all == UNION {{p} \X (1..used(p)) : p \in Projects}
           b == [p \in Projects |-> CHOOSE g : g \in Bijection(1..n(p), Active(mem[p]))]
           f == [x \in few |-> b[x[1]][x[2]]]
<1>1. ASSUME NEW p \in Projects
      PROVE  /\ n(p) \in Nat /\ used(p) \in Nat /\ n(p) <= used(p)
             /\ b[p] \in Bijection(1..n(p), Active(mem[p]))
  <2>1. IsFiniteSet(Active(mem[p])) /\ Pending(mem[p]) = {}
    <3>1. IsFiniteSet(mem[p].sessions)
      BY ProjectHasImage DEF Shaped
    <3>2. Active(mem[p]) \in SUBSET mem[p].sessions
      BY DEF Active
    <3> QED
      BY <3>1, <3>2, FS_Subset
  <2>2. n(p) \in Nat /\ ExistsBijection(1..n(p), Active(mem[p]))
    BY <2>1, FS_CardinalityType
  <2>3. b[p] \in Bijection(1..n(p), Active(mem[p]))
    <3>1. \E g : g \in Bijection(1..n(p), Active(mem[p]))
      BY <2>2 DEF ExistsBijection
    <3> HIDE DEF n
    <3> QED
      BY <3>1
  <2>4. used(p) \in Nat
    BY UsedIsNumber
  <2>5. n(p) <= used(p)
    <3> DEFINE r == IF runs[p] # 0 THEN 1 ELSE 0
    <3>1. r \in Nat
      OBVIOUS
    <3>2. used(p) = Largest({n(p), r}) + Cardinality(Pending(mem[p]))
      BY DEF Used
    <3>3. Cardinality(Pending(mem[p])) = 0
      BY <2>1, FS_EmptySet
    <3> HIDE DEF r, n, used
    <3>4. Largest({n(p), r}) \in Nat /\ n(p) <= Largest({n(p), r})
      BY <2>2, <3>1, LargestOfTwo, LargestBounds
    <3> QED
      BY <2>2, <3>2, <3>3, <3>4
  <2> QED
    BY <2>2, <2>3, <2>4, <2>5
<1> HIDE DEF n, used, b
<1>2. few \subseteq all
  <2>1. \A p \in Projects : (1..n(p)) \subseteq 1..used(p)
    BY <1>1
  <2> QED
    BY <2>1
<1>3. IsFiniteSet(all)
  <2> DEFINE part(p) == {p} \X (1..used(p))
             parts == {part(p) : p \in Projects}
             g == [p \in Projects |-> part(p)]
  <2>1. g \in Surjection(Projects, parts)
    BY DEF Surjection
  <2>2. IsFiniteSet(parts)
    BY <2>1, QueueAssumption, FS_Surjection
  <2>3. ASSUME NEW p \in Projects
        PROVE  IsFiniteSet(part(p))
    <3>1. IsFiniteSet({p})
      BY FS_Singleton
    <3>2. IsFiniteSet(1..used(p))
      BY <1>1, FS_Interval
    <3> QED
      BY <3>1, <3>2, FS_Product
  <2>4. \A T \in parts : IsFiniteSet(T)
    BY <2>3
  <2>5. all = UNION parts
    OBVIOUS
  <2> HIDE DEF parts, all
  <2> QED
    BY <2>2, <2>4, <2>5, FS_UNION
<1>4. IsFiniteSet(few) /\ Cardinality(few) <= Cardinality(all)
  <2> HIDE DEF few, all
  <2> QED
    BY <1>2, <1>3, FS_Subset
<1>5. WorkIn(mem) = UNION {Active(mem[p]) : p \in Projects}
  BY DEF WorkIn, Work, Uncovered
<1>6. f \in Surjection(few, WorkIn(mem))
  <2>1. \A x \in few : \E p \in Projects : x = <<x[1], x[2]>> /\ x[1] = p /\ x[2] \in 1..n(p)
    OBVIOUS
  <2>2. ASSUME NEW x \in few
        PROVE  f[x] \in WorkIn(mem)
    <3>1. PICK p \in Projects : x[1] = p /\ x[2] \in 1..n(p)
      BY <2>1
    <3>2. b[p][x[2]] \in Active(mem[p])
      BY <1>1, <3>1 DEF Bijection, Injection
    <3> QED
      BY <1>5, <3>1, <3>2
  <2>3. ASSUME NEW s \in WorkIn(mem)
        PROVE  \E x \in few : f[x] = s
    <3>1. PICK p \in Projects : s \in Active(mem[p])
      BY <1>5
    <3>2. PICK i \in 1..n(p) : b[p][i] = s
      BY <1>1, <3>1 DEF Bijection, Surjection
    <3>3. <<p, i>> \in few
      BY <3>2
    <3>4. f[<<p, i>>] = s
      BY <3>2, <3>3
    <3> QED
      BY <3>3, <3>4
  <2>4. f \in [few -> WorkIn(mem)]
    BY <2>2
  <2> QED
    BY <2>3, <2>4 DEF Surjection
<1>7. Cardinality(WorkIn(mem)) <= Cardinality(few)
  <2> HIDE DEF f, few
  <2> QED
    BY <1>4, <1>6, FS_Surjection
<1>8. Cardinality(few) \in Nat /\ Cardinality(all) \in Nat /\ Cardinality(WorkIn(mem)) \in Nat
  <2>1. IsFiniteSet(WorkIn(mem))
    BY AllWorkIsFinite DEF ImagesFit
  <2> HIDE DEF few, all
  <2> QED
    BY <1>3, <1>4, <2>1, FS_CardinalityType
<1>9. Running(mem, runs) = Cardinality(all)
  BY DEF Running, used
<1> HIDE DEF few, all
<1> QED
  BY <1>4, <1>7, <1>8, <1>9, UnderWayCountsWork

-------------------------------------------------------------------------------
(* What a step of a pass does to the work under way. *)

\* The work of one project is replaced on disk, and R holds that of the others.
LEMMA WorkElsewhere ==
  ASSUME ImagesFit, NEW p \in Projects, NEW image, disk' = [disk EXCEPT ![p] = image],
         NEW R, Work(image) \subseteq R,
         \A q \in Projects : q # p => Work(disk[q]) \subseteq R
  PROVE  WorkIn(disk') \subseteq R
<1>1. disk'[p] = image /\ \A q \in Projects : q # p => disk'[q] = disk[q]
  BY DEF ImagesFit
<1>2. \A q \in Projects : Work(disk'[q]) \subseteq R
  BY <1>1
<1> QED
  BY <1>2 DEF WorkIn

\* In the second image s stands where c stood in the first.
TakesThePlace(s, c, first, second) ==
  /\ c \in Work(first)
  /\ \A x \in Work(second) : x = s \/ (x \in Work(first) /\ x # c)

\* Something of one project takes the place of something of the same project.
LEMMA WorkReplaced ==
  ASSUME ImagesFit, NEW p \in Projects, NEW image, disk' = [disk EXCEPT ![p] = image],
         NEW c, NEW s, TakesThePlace(s, c, disk[p], image)
  PROVE  Cardinality(WorkIn(disk')) <= Cardinality(WorkIn(disk))
<1> DEFINE R == (WorkIn(disk) \ {c}) \cup {s}
<1>0. c \in Work(disk[p])
  BY DEF TakesThePlace
<1>1. Work(image) \subseteq R
  BY DEF WorkIn, TakesThePlace
<1>2. ASSUME NEW q \in Projects, q # p
      PROVE  Work(disk[q]) \subseteq R
  <2>1. Home[c.task] = p /\ \A x \in Work(disk[q]) : Home[x.task] = q
    BY <1>0, WorkIsFinite DEF ImagesFit
  <2>2. c \notin Work(disk[q])
    BY <1>2, <2>1
  <2> QED
    BY <2>2 DEF WorkIn
<1> HIDE DEF R
<1>3. WorkIn(disk') \subseteq R
  BY <1>1, <1>2, WorkElsewhere
<1>4. IsFiniteSet(WorkIn(disk)) /\ c \in WorkIn(disk)
  BY <1>0, AllWorkIsFinite DEF ImagesFit, WorkIn
<1> QED
  BY <1>3, <1>4, NoMore DEF R

LEMMA SameWork ==
  ASSUME NEW p \in Projects, NEW image, ImagesFit, disk' = [disk EXCEPT ![p] = image],
         NEW extra, Work(image) \subseteq Work(disk[p]) \cup extra
  PROVE  WorkIn(disk') \subseteq WorkIn(disk) \cup extra
<1>1. disk'[p] = image /\ \A q \in Projects : q # p => disk'[q] = disk[q]
  BY DEF ImagesFit
<1>2. ASSUME NEW x \in WorkIn(disk')
      PROVE  x \in WorkIn(disk) \cup extra
  <2>1. PICK q \in Projects : x \in Work(disk'[q])
    BY DEF WorkIn
  <2>2. x \in Work(disk[q]) \cup extra
    BY <1>1, <2>1
  <2> QED
    BY <2>2 DEF WorkIn
<1> QED
  BY <1>2

\* A claim is not a session.
LEMMA KindsAreApart ==
  ASSUME NEW x \in ClaimRecords
  PROVE  x \notin SessionRecords
<1>1. "by" \notin DOMAIN x
  BY DEF ClaimRecords
<1>2. \A s \in SessionRecords : "by" \in DOMAIN s
  BY DEF SessionRecords
<1> QED
  BY <1>1, <1>2

LEMMA WorkIsCounted ==
  ASSUME QueueInv
  PROVE  /\ IsFiniteSet(WorkIn(disk))
         /\ UnderWay(disk) \in Nat
         /\ UnderWay(disk) = Cardinality(WorkIn(disk))
         /\ UnderWay(disk') = Cardinality(WorkIn(disk'))
<1>1. \A p \in Projects : ImageFits(p, disk[p], clock, halfway)
  BY DEF QueueInv, ImagesFit
<1> QED
  BY <1>1, AllWorkIsFinite, UnderWayCountsWork

\* The claim counts until it has a session, and then the session does.
LEMMA AdmitKeepsWork ==
  ASSUME LimitInv, AdmitFromReceipt \/ AdmitRefused \/ AdmitStarts \/ AdmitFails \/ AdmitThrows
  PROVE  UnderWay(disk') <= UnderWay(disk)
<1>0. /\ IsFiniteSet(WorkIn(disk))
      /\ UnderWay(disk) \in Nat
      /\ UnderWay(disk) = Cardinality(WorkIn(disk))
      /\ UnderWay(disk') = Cardinality(WorkIn(disk'))
      /\ QueueInv /\ ImagesFit
  BY WorkIsCounted DEF LimitInv, QueueInv
<1>1. op.at = "admit" /\ mem = disk
  BY DEF LimitInv, MemoryIsSaved, AdmitFromReceipt, AdmitRefused, AdmitStarts, AdmitFails,
     AdmitThrows,
     Admits
<1>2. CASE disk' = disk
  BY <1>0, <1>2
<1>3. /\ Claimed \in mem[Here].claims
      /\ Claimed.id = op.claim
      /\ Claimed.task = op.task
      /\ Claimed.state = "claimed"
      /\ \A c \in mem[Here].claims : c.id = op.claim => c = Claimed
      /\ Here \in Projects
      /\ Shaped(Here, mem[Here])
  BY <1>0, <1>1, ClaimAtWork DEF Admitting
<1>4. CASE AdmitStarts \/ AdmitThrows \/ (AdmitFails /\ disk' # disk)
  <2>1. PICK a \in BOOLEAN : disk' = [disk EXCEPT ![Here] = Begun(mem[Here], Carrying(op.claim, a))]
    <3>1. CASE AdmitStarts
      BY <3>1 DEF AdmitStarts, Saves
    <3>2. CASE AdmitThrows
      BY <3>2 DEF AdmitThrows, Saves
    <3>3. CASE AdmitFails /\ disk' # disk
      BY <3>3 DEF AdmitFails, Saves
    <3> QED
      BY <1>4, <3>1, <3>2, <3>3
  <2> DEFINE s == Carrying(op.claim, a)
             new == Begun(mem[Here], s)
  <2>2. clock < MaxClock /\ Admits
    BY <1>4 DEF AdmitStarts, AdmitThrows, AdmitFails, Draws
  <2>3. /\ new.claims = mem[Here].claims
        /\ new.sessions = mem[Here].sessions \cup {s}
        /\ s.command = op.claim
    BY <1>0, <2>2, CarryingFits
  <2>4. disk' = [disk EXCEPT ![Here] = new]
    BY <2>1
  <2>5. \A u \in mem[Here].sessions : u.command # op.claim
    BY <2>2 DEF Admits, Receipts
  <2> HIDE DEF s, new
  <2>6. CASE s.active
    <3>1. Claimed \in Work(disk[Here])
      BY <1>1, <1>3, <2>5 DEF Work, Uncovered, Pending, Active
    <3>2. Active(new) = Active(disk[Here]) \cup {s}
      BY <1>1, <2>3, <2>6 DEF Active
    <3>3. ASSUME NEW c \in Uncovered(new)
          PROVE  c \in Uncovered(disk[Here]) \ {Claimed}
      <4>1. c \in mem[Here].claims /\ c.state = "claimed"
        BY <2>3 DEF Uncovered, Pending
      <4>2. \A u \in Active(new) : u.command # c.id
        BY DEF Uncovered
      <4>3. c # Claimed
        BY <1>3, <2>3, <3>2, <4>2
      <4> QED
        BY <1>1, <3>2, <4>1, <4>2, <4>3 DEF Uncovered, Pending
    <3>4. Claimed \notin Active(disk[Here])
      <4>1. disk[Here].claims \subseteq ClaimRecords /\ disk[Here].sessions \subseteq SessionRecords
        BY <1>1, <1>3 DEF Shaped, ImageRecords
      <4> QED
        BY <1>1, <1>3, <4>1, KindsAreApart DEF Active
    <3>5. TakesThePlace(s, Claimed, disk[Here], new)
      BY <3>1, <3>2, <3>3, <3>4 DEF Work, TakesThePlace
    <3>6. Cardinality(WorkIn(disk')) <= Cardinality(WorkIn(disk))
      BY ONLY <1>0, <1>3, <2>4, <3>5, WorkReplaced
    <3> QED
      BY <1>0, <3>6
  <2>7. CASE ~s.active
    <3>1. Active(new) = Active(disk[Here])
      BY <1>1, <2>3, <2>7 DEF Active
    <3>2. Work(new) \subseteq Work(disk[Here]) \cup {}
      BY <1>1, <2>3, <3>1 DEF Work, Uncovered, Pending
    <3>3. WorkIn(disk') \subseteq WorkIn(disk) \cup {}
      BY <1>0, <1>3, <2>4, <3>2, SameWork
    <3> QED
      BY <1>0, <3>3, NotMore
  <2> QED
    BY <2>6, <2>7
<1> QED
  BY <1>2, <1>4 DEF AdmitFromReceipt, AdmitRefused

\* A settled claim no longer counts; a session that only memory had is saved in its place.
LEMMA SettleKeepsWork ==
  ASSUME LimitInv, Settle
  PROVE  UnderWay(disk') <= UnderWay(disk)
<1>0. /\ IsFiniteSet(WorkIn(disk))
      /\ UnderWay(disk) \in Nat
      /\ UnderWay(disk) = Cardinality(WorkIn(disk))
      /\ UnderWay(disk') = Cardinality(WorkIn(disk'))
      /\ QueueInv /\ ImagesFit
  BY WorkIsCounted DEF LimitInv, QueueInv
<1>1. CASE Throws
  BY <1>0, <1>1 DEF Throws
<1>2. CASE ~Throws
  <2>1. disk' = [disk EXCEPT ![Here] = WithSettled] /\ op.at = "settle"
    BY <1>2 DEF Settle, Saves, WithSettled
  <2>2. /\ Claimed \in mem[Here].claims
        /\ Claimed.id = op.claim
        /\ Claimed.task = op.task
        /\ Claimed.state = "claimed"
        /\ \A c \in mem[Here].claims : c.id = op.claim => c = Claimed
        /\ Here \in Projects
        /\ ImageFits(Here, mem[Here], clock, halfway)
        /\ Shaped(Here, mem[Here])
    BY <1>0, <2>1, ClaimAtWork DEF Admitting
  <2>3. /\ WithSettled.claims = {Settled(d) : d \in mem[Here].claims}
        /\ mem[Here].claims = disk[Here].claims
    BY <1>0, <2>1, <2>2, WithSettledFits DEF QueueInv, ClaimsAreSaved
  <2>4. WithSettled.sessions = mem[Here].sessions
    <3>1. mem[Here] = [auto |-> mem[Here].auto, paused |-> mem[Here].paused,
                       claims |-> mem[Here].claims, sessions |-> mem[Here].sessions,
                       since |-> mem[Here].since]
      BY <2>2, ShapedFields
    <3> DEFINE T == {Settled(c) : c \in mem[Here].claims}
    <3>2. WithSettled = [mem[Here] EXCEPT !.claims = T]
      BY DEF WithSettled
    <3> HIDE DEF T
    <3> QED
      BY <3>1, <3>2
  <2>5. ASSUME NEW e \in Pending(WithSettled)
        PROVE  e \in Pending(disk[Here]) \ {Claimed}
    <3>1. PICK d \in mem[Here].claims : e = Settled(d)
      BY <2>3 DEF Pending
    <3>2. e.state = "claimed"
      BY DEF Pending
    <3>3. d.id # op.claim
      <4>1. SUFFICES ASSUME d.id = op.claim PROVE FALSE
        OBVIOUS
      <4>2. d \in ClaimRecords
        BY <2>2 DEF Shaped, ImageRecords
      <4>3. e = [d EXCEPT !.state = IF op.session # 0 THEN "started" ELSE "refused",
                          !.session = op.session]
        BY <3>1, <4>1 DEF Settled
      <4>4. e.state = IF op.session # 0 THEN "started" ELSE "refused"
        BY <4>2, <4>3 DEF ClaimRecords
      <4> QED
        BY <3>2, <4>4
    <3>4. e = d
      BY <3>1, <3>3 DEF Settled
    <3> QED
      BY <2>2, <2>3, <3>1, <3>2, <3>3, <3>4 DEF Pending
  <2>6. CASE mem[Here].sessions = disk[Here].sessions
    <3>1. Active(WithSettled) = Active(disk[Here])
      BY <2>4, <2>6 DEF Active
    <3>2. Work(WithSettled) \subseteq Work(disk[Here]) \cup {}
      BY <2>5, <3>1 DEF Work, Uncovered
    <3>3. WorkIn(disk') \subseteq WorkIn(disk) \cup {}
      BY <1>0, <2>1, <2>2, <3>2, SameWork
    <3> QED
      BY <1>0, <3>3, NotMore
  <2>7. CASE /\ \E s : mem[Here].sessions = disk[Here].sessions \cup {s}
             /\ \A u \in disk[Here].sessions : u.command # op.claim
    <3>1. PICK s : mem[Here].sessions = disk[Here].sessions \cup {s}
      BY <2>7
    <3>2. Active(WithSettled) \subseteq Active(disk[Here]) \cup {s}
          /\ Active(disk[Here]) \subseteq Active(WithSettled)
      BY <2>4, <3>1 DEF Active
    <3>3. Claimed \in Work(disk[Here])
      BY <2>2, <2>3, <2>7 DEF Work, Uncovered, Pending, Active
    <3>4. Claimed \notin Active(disk[Here])
      <4>1. disk[Here].claims \subseteq ClaimRecords /\ disk[Here].sessions \subseteq SessionRecords
        BY <1>0, <2>2 DEF ImagesFit, ImageFits, Shaped, ImageRecords
      <4> QED
        BY <2>2, <2>3, <4>1, KindsAreApart DEF Active
    <3>5. \A c \in Uncovered(WithSettled) : c \in Uncovered(disk[Here]) \ {Claimed}
      BY <2>5, <3>2 DEF Uncovered
    <3>6. TakesThePlace(s, Claimed, disk[Here], WithSettled)
      BY <3>2, <3>3, <3>4, <3>5 DEF Work, TakesThePlace
    <3>7. Cardinality(WorkIn(disk')) <= Cardinality(WorkIn(disk))
      BY ONLY <1>0, <2>1, <2>2, <3>6, WorkReplaced
    <3> QED
      BY <1>0, <3>7
  <2> QED
    BY <2>1, <2>6, <2>7 DEF LimitInv, MemoryIsSaved
<1> QED
  BY <1>1, <1>2

\* A new claim is one more.
LEMMA ClaimAddsOne ==
  ASSUME LimitInv, Claim, ~Throws
  PROVE  UnderWay(disk') <= UnderWay(disk) + 1
<1> DEFINE t == Head(op.plan)
           p == Home[t]
<1>0. /\ IsFiniteSet(WorkIn(disk))
      /\ UnderWay(disk) \in Nat
      /\ UnderWay(disk) = Cardinality(WorkIn(disk))
      /\ UnderWay(disk') = Cardinality(WorkIn(disk'))
      /\ QueueInv /\ ImagesFit
  BY WorkIsCounted DEF LimitInv, QueueInv
<1>1. /\ op.plan # <<>> /\ clock < MaxClock /\ op.at = "claim"
      /\ disk' = [disk EXCEPT ![p] = WithClaim(t)]
  BY DEF Claim, Saves, Draws, WithClaim, NewClaim
<1>2. /\ p \in Projects
      /\ WithClaim(t).claims = mem[p].claims \cup {NewClaim(t)}
  BY <1>0, <1>1, NewClaimFits
<1>3. mem = disk
  BY <1>1 DEF LimitInv, MemoryIsSaved
<1> HIDE DEF t
<1>4. WithClaim(t).sessions = mem[p].sessions
  <2>1. mem[p] = [auto |-> mem[p].auto, paused |-> mem[p].paused, claims |-> mem[p].claims,
                  sessions |-> mem[p].sessions, since |-> mem[p].since]
    BY <1>0, <1>2, ProjectHasImage, ShapedFields
  <2> QED
    BY <2>1 DEF WithClaim
<1> HIDE DEF p
<1>5. Active(WithClaim(t)) = Active(disk[p])
  BY <1>3, <1>4 DEF Active
<1>6. Work(WithClaim(t)) \subseteq Work(disk[p]) \cup {NewClaim(t)}
  BY <1>2, <1>3, <1>5 DEF Work, Uncovered, Pending
<1>7. WorkIn(disk') \subseteq WorkIn(disk) \cup {NewClaim(t)}
  BY <1>0, <1>1, <1>2, <1>6, SameWork
<1> QED
  BY <1>0, <1>7, OneMore

-------------------------------------------------------------------------------
(* Memory and what is saved. *)

\* A save leaves memory and disk alike, whatever memory had in that one project.
LEMMA SavedAlike ==
  ASSUME ImagesFit, NEW p \in Projects, NEW image, NEW rs, Saves(p, image, rs),
         \A q \in Projects : q # p => mem[q] = disk[q]
  PROVE  mem' = disk'
<1>1. /\ mem' = [mem EXCEPT ![p] = image]
      /\ disk' = [disk EXCEPT ![p] = image]
  BY DEF Saves
<1>2. mem \in [Projects -> Images] /\ disk \in [Projects -> Images]
  BY DEF ImagesFit
<1>3. /\ mem' = [q \in Projects |-> IF q = p THEN image ELSE mem[q]]
      /\ disk' = [q \in Projects |-> IF q = p THEN image ELSE disk[q]]
  BY <1>1, <1>2
<1> QED
  BY <1>3

LEMMA AlikeSavedAlike ==
  ASSUME ImagesFit, mem = disk, NEW p \in Projects, NEW image, NEW rs, Saves(p, image, rs)
  PROVE  mem' = disk'
<1>1. \A q \in Projects : q # p => mem[q] = disk[q]
  OBVIOUS
<1> QED
  BY <1>1, SavedAlike

\* Steps of others, between passes, with one save or none.
LEMMA OthersMemory ==
  ASSUME QueueInv, mem = disk,
         \/ \E t \in Tasks : PersonStarts(t) \/ Reopen(t)
         \/ \E p \in Projects : Ends(p) \/ Decides(p) \/ Configure(p)
         \/ ConfigureAll
  PROVE  mem' = disk'
<1>0. ImagesFit /\ \A t \in Tasks : Home[t] \in Projects
  BY QueueAssumption DEF QueueInv
<1>1. ASSUME NEW t \in Tasks, PersonStarts(t)
      PROVE  mem' = disk'
  <2> DEFINE image == Begun(mem[Home[t]],
                            Session(t, "person", 0, mem[Home[t]].since[t], TRUE))
  <2>1. Saves(Home[t], image, runs')
    BY <1>1 DEF PersonStarts
  <2> HIDE DEF image
  <2> QED
    BY <1>0, <2>1, AlikeSavedAlike
<1>2. ASSUME NEW t \in Tasks, Reopen(t)
      PROVE  mem' = disk'
  <2> DEFINE image == [mem[Home[t]] EXCEPT !.since[t] = clock + 1]
  <2>1. Saves(Home[t], image, runs)
    BY <1>2 DEF Reopen
  <2> HIDE DEF image
  <2> QED
    BY <1>0, <2>1, AlikeSavedAlike
<1>3. ASSUME NEW p \in Projects, Ends(p)
      PROVE  mem' = disk'
  <2>1. CASE Saves(p, Ended(mem[p], Tasks), runs')
    BY <1>0, <2>1, AlikeSavedAlike
  <2>2. CASE UNCHANGED <<mem, disk>>
    BY <2>2
  <2> QED
    BY <1>3, <2>1, <2>2 DEF Ends
<1>4. ASSUME NEW p \in Projects, Decides(p)
      PROVE  mem' = disk'
  BY <1>4 DEF Decides
<1>5. ASSUME NEW p \in Projects, Configure(p)
      PROVE  mem' = disk'
  <2>1. PICK image : Saves(p, image, runs)
    BY <1>5 DEF Configure
  <2> QED
    BY <1>0, <2>1, AlikeSavedAlike
<1>6. ASSUME ConfigureAll
      PROVE  mem' = disk'
  BY <1>6 DEF ConfigureAll
<1> QED
  BY <1>1, <1>2, <1>3, <1>4, <1>5, <1>6

\* Where memory is what is saved before the answer, it is the same after it, or memory
\* has one session more.
LEMMA AdmitMemory ==
  ASSUME LimitInv, AdmitFromReceipt \/ AdmitRefused \/ AdmitStarts \/ AdmitFails \/ AdmitThrows
  PROVE  MemoryIsSaved'
<1>1. op.at = "admit" /\ op'.at = "settle" /\ op'.claim = op.claim /\ op'.task = op.task
  BY AdmitTypes DEF LimitInv
<1>2. mem = disk /\ ImagesFit /\ QueueInv
  BY <1>1 DEF LimitInv, QueueInv, MemoryIsSaved
<1>3. Here \in Projects /\ Here' = Here
  BY <1>1, <1>2, ClaimAtWork DEF Admitting, Here
<1>4. CASE mem' = disk'
  BY <1>1, <1>4 DEF MemoryIsSaved
<1>5. CASE AdmitStarts
  <2> DEFINE image == Begun(mem[Here], Carrying(op.claim, TRUE))
  <2>1. Saves(Here, image, runs')
    BY <1>5 DEF AdmitStarts
  <2> HIDE DEF image
  <2>2. mem' = disk'
    BY <1>2, <1>3, <2>1, AlikeSavedAlike
  <2> QED
    BY <1>4, <2>2
<1>6. CASE AdmitFails
  <2> DEFINE a == ~(op.task \in Native \ Looped)
             image == Begun(mem[Here], Carrying(op.claim, a))
  <2>1. /\ Admits /\ clock < MaxClock
        /\ \/ mem' = [mem EXCEPT ![Here] = image] /\ disk' = disk
           \/ Saves(Here, image, runs)
    BY <1>6 DEF AdmitFails, Draws
  <2>2. a \in BOOLEAN
    OBVIOUS
  <2> HIDE DEF a
  <2>3. image.sessions = mem[Here].sessions \cup {Carrying(op.claim, a)}
    BY <1>2, <2>1, <2>2, CarryingFits
  <2> HIDE DEF image
  <2>4. CASE Saves(Here, image, runs)
    <3>1. mem' = disk'
      BY <1>2, <1>3, <2>4, AlikeSavedAlike
    <3> QED
      BY <1>4, <3>1
  <2>5. CASE mem' = [mem EXCEPT ![Here] = image] /\ disk' = disk
    <3>1. mem'[Here] = image /\ \A q \in Projects : q # Here => mem'[q] = disk'[q]
      BY <1>2, <1>3, <2>5 DEF ImagesFit
    <3>2. mem'[Here].sessions = disk'[Here].sessions \cup {Carrying(op.claim, a)}
      BY <1>2, <2>3, <2>5, <3>1
    <3>3. \A u \in disk'[Here].sessions : u.command # op.claim
      BY <1>2, <2>1, <2>5 DEF Admits, Receipts
    <3>4. \E s : mem'[Here].sessions = disk'[Here].sessions \cup {s}
      BY <3>2
    <3>5. /\ \A p \in Projects : p # Here' => mem'[p] = disk'[p]
          /\ \E s : mem'[Here'].sessions = disk'[Here'].sessions \cup {s}
          /\ \A u \in disk'[Here'].sessions : u.command # op'.claim
      BY <1>1, <1>3, <3>1, <3>3, <3>4
    <3> QED
      BY <1>1, <3>5 DEF MemoryIsSaved
  <2> QED
    BY <2>1, <2>4, <2>5
<1>7. CASE AdmitThrows
  <2>1. PICK image : Saves(Here, image, runs')
    BY <1>7 DEF AdmitThrows
  <2>2. mem' = disk'
    BY <1>2, <1>3, <2>1, AlikeSavedAlike
  <2> QED
    BY <1>4, <2>2
<1> QED
  BY <1>2, <1>4, <1>5, <1>6, <1>7 DEF AdmitFromReceipt, AdmitRefused

LEMMA MemoryStep ==
  ASSUME LimitInv, [Next]_queueVars
  PROVE  MemoryIsSaved'
<1>0. QueueInv /\ ServiceTypes /\ ImagesFit /\ MemoryIsSaved
  BY DEF LimitInv, QueueInv
<1>1. CASE \/ \E t \in Tasks : PersonStarts(t) \/ Reopen(t)
           \/ \E p \in Projects : Ends(p) \/ Decides(p) \/ Configure(p)
           \/ ConfigureAll
  <2>1. op' = op /\ op.at = "idle"
    BY <1>0, <1>1, OthersStep
  <2>2. mem = disk
    BY <1>0, <2>1 DEF MemoryIsSaved
  <2>3. mem' = disk'
    BY <1>0, <1>1, <2>2, OthersMemory
  <2> QED
    BY <2>1, <2>3 DEF MemoryIsSaved
<1>2. CASE Ending
  <2>1. op'.at \in {"idle", "down"}
    BY <1>0, <1>2, EndingTypes
  <2>2. mem' = disk'
    BY <1>0, <1>2 DEF Ending, EndPass, Throws, Crash, Launch, MemoryIsSaved
  <2> QED
    BY <2>1, <2>2 DEF MemoryIsSaved
<1>3. CASE BeginPass
  <2>1. op'.at = "replay" /\ op.at = "idle" /\ mem' = mem /\ disk' = disk
    BY <1>0, <1>3, BeginPassTypes, IdleIsRecord DEF BeginPass, Free
  <2> QED
    BY <1>0, <2>1 DEF MemoryIsSaved
<1>4. CASE Replay
  <2>1. op'.at \in {"admit", "claim"} /\ op.at = "replay" /\ mem' = mem /\ disk' = disk
    BY <1>0, <1>4, ReplayTypes DEF Replay
  <2> QED
    BY <1>0, <2>1 DEF MemoryIsSaved
<1>5. CASE Claim /\ ~Throws
  <2> DEFINE t == Head(op.plan)
  <2>1. /\ op'.at = "admit" /\ op.at = "claim" /\ op.plan # <<>> /\ clock < MaxClock
    BY <1>0, <1>5, ClaimTypes
  <2>2. Home[t] \in Projects
    BY <1>0, <2>1, NewClaimFits
  <2>3. Saves(Home[t], WithClaim(t), runs)
    BY <1>5 DEF Claim, WithClaim, NewClaim
  <2>4. mem = disk
    BY <1>0, <2>1 DEF MemoryIsSaved
  <2> HIDE DEF t
  <2>5. mem' = disk'
    BY <1>0, <2>2, <2>3, <2>4, AlikeSavedAlike
  <2> QED
    BY <2>1, <2>5 DEF MemoryIsSaved
<1>6. CASE AdmitFromReceipt \/ AdmitRefused \/ AdmitStarts \/ AdmitFails \/ AdmitThrows
  BY <1>6, AdmitMemory
<1>7. CASE Settle /\ ~Throws
  <2>1. op.at = "settle" /\ op'.at \in {"replay", "claim"}
    BY <1>0, <1>7, SettleTypes
  <2>2. Saves(Here, WithSettled, runs)
    BY <1>7 DEF Settle, WithSettled
  <2>3. Here \in Projects
    BY <1>0, <2>1, ClaimAtWork DEF Admitting
  <2>4. \A q \in Projects : q # Here => mem[q] = disk[q]
    BY <1>0, <2>1 DEF MemoryIsSaved
  <2>5. mem' = disk'
    BY <1>0, <2>2, <2>3, <2>4, SavedAlike
  <2> QED
    BY <2>1, <2>5 DEF MemoryIsSaved
<1>8. CASE UNCHANGED queueVars
  BY <1>0, <1>8 DEF queueVars, MemoryIsSaved, Here
<1> QED
  BY <1>1, <1>2, <1>3, <1>4, <1>5, <1>6, <1>7, <1>8 DEF Next, Serve, Ending

-------------------------------------------------------------------------------
(* Room for the plan. *)

\* What is planned fits beside what is under way.
LEMMA PlanHasRoom ==
  ASSUME LimitInv, NEW s \in Plans(mem, runs, allPaused), mem = disk,
         \A p \in Projects : Pending(mem[p]) = {}
  PROVE  s # <<>> => UnderWay(disk) + Len(s) <= GlobalLimit
<1> DEFINE open == {p \in Projects : /\ mem[p].auto /\ ~mem[p].paused /\ ~allPaused
                                     /\ Used(p, mem, runs) = 0
                                     /\ Line(p, mem) # {}}
           busy == Running(mem, runs)
           slots == IF busy >= GlobalLimit THEN 0 ELSE GlobalLimit - busy
           n == IF slots < Cardinality(open) THEN slots ELSE Cardinality(open)
           range == UNION {Oldest(p, mem) : p \in open}
<1>0. QueueInv /\ ImagesFit /\ GlobalLimit \in Nat
  BY QueueAssumption DEF LimitInv, QueueInv
<1>1. s \in [1..n -> range]
  BY DEF Plans
<1>2. Cardinality(open) \in Nat
  <2>1. open \in SUBSET Projects
    OBVIOUS
  <2> HIDE DEF open
  <2> QED
    BY <2>1, QueueAssumption, FS_Subset, FS_CardinalityType
<1>3. busy \in Nat /\ UnderWay(mem) <= busy /\ UnderWay(mem) \in Nat
  <2>1. busy \in Nat /\ UnderWay(mem) <= busy
    BY <1>0, RunningIsNumber, RunningCountsWork
  <2>2. UnderWay(mem) \in Nat
    BY <1>0, WorkIsCounted
  <2> QED
    BY <2>1, <2>2
<1> HIDE DEF open, busy, range
<1>4. n \in Nat /\ n <= slots
  BY <1>0, <1>2, <1>3
<1>5. Len(s) = n /\ s \in Seq(range)
  <2> HIDE DEF n
  <2> QED
    BY <1>1, <1>4
<1>6. s # <<>> => n > 0
  BY <1>4, <1>5
<1>7. n > 0 => UnderWay(mem) + n <= GlobalLimit
  BY <1>0, <1>3, <1>4
<1> QED
  BY <1>5, <1>6, <1>7

\* The rest of the plan keeps its room while no more comes under way.
LEMMA RoomStays ==
  ASSUME LimitInv, op'.plan = op.plan, UnderWay(disk') <= UnderWay(disk),
         UnderWay(disk') \in Nat
  PROVE  RoomIsKept'
<1>1. UnderWay(disk) \in Nat /\ UnderWay(disk') = Cardinality(WorkIn(disk'))
  BY WorkIsCounted DEF LimitInv
<1>2. Len(op.plan) \in Nat /\ GlobalLimit \in Nat
  BY OpFields, QueueAssumption DEF LimitInv, QueueInv
<1>3. CASE op.plan = <<>>
  BY <1>3 DEF RoomIsKept
<1>4. CASE op.plan # <<>>
  <2>1. UnderWay(disk) + Len(op.plan) <= GlobalLimit
    BY <1>4 DEF LimitInv, RoomIsKept
  <2> QED
    BY <1>1, <1>2, <2>1 DEF RoomIsKept
<1> QED
  BY <1>3, <1>4

LEMMA RoomStep ==
  ASSUME LimitInv, [Next]_queueVars
  PROVE  RoomIsKept'
<1>0. /\ QueueInv /\ ServiceTypes /\ ImagesFit /\ PlanFits
      /\ UnderWay(disk) \in Nat
      /\ GlobalLimit \in Nat
  BY WorkIsCounted, QueueAssumption DEF LimitInv, QueueInv
<1>n. UnderWay(disk') \in Nat
  <2>1. ImagesFit'
    BY <1>0, QueueStep DEF QueueInv
  <2>2. \A p \in Projects : ImageFits(p, disk'[p], clock', halfway')
    BY <2>1 DEF ImagesFit
  <2> QED
    BY <2>2, AllWorkIsFinite
<1>e. ASSUME op'.plan = <<>>
      PROVE  RoomIsKept'
  BY <1>e DEF RoomIsKept
<1>1. CASE \/ \E t \in Tasks : PersonStarts(t) \/ Reopen(t)
           \/ \E p \in Projects : Ends(p) \/ Decides(p) \/ Configure(p)
           \/ ConfigureAll
  <2>1. op' = op /\ op.at = "idle"
    BY <1>0, <1>1, OthersStep
  <2>2. op.plan = <<>>
    BY <1>0, <2>1 DEF PlanFits
  <2> QED
    BY <1>e, <2>1, <2>2
<1>2. CASE Ending
  BY <1>0, <1>2, <1>e, EndingTypes
<1>3. CASE BeginPass
  BY <1>0, <1>3, <1>e, BeginPassTypes, IdleIsRecord
<1>4. CASE Replay
  <2>1. op.at = "replay" /\ mem' = mem /\ disk' = disk
    BY <1>4 DEF Replay
  <2>2. op.plan = <<>> /\ mem = disk
    BY <1>0, <2>1 DEF PlanFits, LimitInv, MemoryIsSaved
  <2>3. CASE op'.plan = op.plan
    BY <1>e, <2>2, <2>3
  <2>4. CASE op'.plan \in Plans(mem, runs, allPaused) /\ op'.plan # op.plan
    <3>1. \A p \in Projects : Pending(mem[p]) = {}
      <4> DEFINE left == UNION {Pending(mem[p]) : p \in Projects}
                 admits(c) == op' = [op EXCEPT !.at = "admit", !.claim = c.id,
                                               !.task = c.task, !.then = "replay"]
      <4>1. left # {} => \E c \in left : admits(c)
        BY <1>4, Zenon DEF Replay
      <4>2. \A c : admits(c) => op'.plan = op.plan
        BY <1>0, OpFields
      <4> HIDE DEF admits
      <4> QED
        BY <2>4, <4>1, <4>2
    <3>2. op'.plan # <<>> => UnderWay(disk) + Len(op'.plan) <= GlobalLimit
      BY <2>2, <2>4, <3>1, PlanHasRoom
    <3> QED
      BY <2>1, <3>2 DEF RoomIsKept
  <2> QED
    BY <1>0, <1>4, <2>3, <2>4, ReplayTypes
<1>5. CASE Claim /\ ~Throws
  <2>1. op.plan # <<>> /\ op'.plan = Tail(op.plan)
    BY <1>0, <1>5, ClaimTypes
  <2>2. UnderWay(disk') <= UnderWay(disk) + 1
    BY <1>5, ClaimAddsOne
  <2>3. op.plan \in Seq(Tasks)
    BY <1>0, OpFields
  <2>4. Len(op'.plan) = Len(op.plan) - 1 /\ Len(op.plan) \in Nat
    BY <2>1, <2>3
  <2>5. UnderWay(disk) + Len(op.plan) <= GlobalLimit
    BY <2>1 DEF LimitInv, RoomIsKept
  <2>6. UnderWay(disk') + Len(op'.plan) <= GlobalLimit
    BY <1>0, <1>n, <2>2, <2>4, <2>5
  <2> QED
    BY <2>6 DEF RoomIsKept
<1>6. CASE AdmitFromReceipt \/ AdmitRefused \/ AdmitStarts \/ AdmitFails \/ AdmitThrows
  <2>1. op'.plan = op.plan
    BY <1>0, <1>6, AdmitTypes
  <2>2. UnderWay(disk') <= UnderWay(disk)
    BY <1>6, AdmitKeepsWork
  <2> QED
    BY <1>n, <2>1, <2>2, RoomStays
<1>7. CASE Settle /\ ~Throws
  <2>1. op'.plan = op.plan
    BY <1>0, <1>7, SettleTypes
  <2>2. UnderWay(disk') <= UnderWay(disk)
    BY <1>7, SettleKeepsWork
  <2> QED
    BY <1>n, <2>1, <2>2, RoomStays
<1>8. CASE UNCHANGED queueVars
  BY <1>8 DEF queueVars, RoomIsKept, LimitInv
<1> QED
  BY <1>1, <1>2, <1>3, <1>4, <1>5, <1>6, <1>7, <1>8 DEF Next, Serve, Ending

LEMMA LimitInit == Init => LimitInv
<1> SUFFICES ASSUME Init PROVE LimitInv
  OBVIOUS
<1>1. QueueInv
  BY QueueInit
<1>2. op = Idle /\ disk = mem
  BY DEF Init
<1>3. op.at = "idle" /\ op.plan = <<>>
  BY <1>2 DEF Idle
<1> QED
  BY <1>1, <1>2, <1>3 DEF LimitInv, MemoryIsSaved, RoomIsKept

LEMMA LimitStep == LimitInv /\ [Next]_queueVars => LimitInv'
BY QueueStep, MemoryStep, RoomStep DEF LimitInv

LEMMA LimitInvariance == Spec => []LimitInv
BY LimitInit, LimitStep, PTL DEF Spec

\* Automatic start never takes the machine past the limit: a step of a pass after which
\* more is under way than the limit allows found no less under way (planReadyQueue).
THEOREM LimitHolds == Spec => LimitIsKept
<1>1. ASSUME LimitInv, [Next]_queueVars
      PROVE  [UnderWay(disk') > UnderWay(disk) /\ UnderWay(disk') > GlobalLimit
                => op.at \notin {"claim", "admit", "settle"}]_queueVars
  <2>0. /\ QueueInv /\ ServiceTypes /\ PlanFits
        /\ UnderWay(disk) \in Nat
        /\ GlobalLimit \in Nat
    BY <1>1, WorkIsCounted, QueueAssumption DEF LimitInv, QueueInv
  <2>1. UnderWay(disk') \in Nat
    <3>1. ImagesFit'
      BY <1>1, <2>0, QueueStep DEF QueueInv
    <3>2. \A p \in Projects : ImageFits(p, disk'[p], clock', halfway')
      BY <3>1 DEF ImagesFit
    <3> QED
      BY <3>2, AllWorkIsFinite
  <2>2. SUFFICES ASSUME op.at \in {"claim", "admit", "settle"}
                 PROVE  UnderWay(disk') <= UnderWay(disk) \/ UnderWay(disk') <= GlobalLimit
    BY <2>0, <2>1
  <2>3. CASE disk' = disk
    BY <2>0, <2>3
  <2>4. CASE Claim /\ ~Throws
    <3>1. op.plan # <<>> /\ op.plan \in Seq(Tasks)
      BY <2>0, <2>4, ClaimTypes, OpFields
    <3>2. UnderWay(disk) + Len(op.plan) <= GlobalLimit
      BY <1>1, <3>1 DEF LimitInv, RoomIsKept
    <3>3. Len(op.plan) \in Nat /\ Len(op.plan) > 0
      BY <3>1
    <3>4. UnderWay(disk') <= UnderWay(disk) + 1
      BY <1>1, <2>4, ClaimAddsOne
    <3> QED
      BY <2>0, <2>1, <3>2, <3>3, <3>4
  <2>5. CASE AdmitFromReceipt \/ AdmitRefused \/ AdmitStarts \/ AdmitFails \/ AdmitThrows
    BY <1>1, <2>5, AdmitKeepsWork
  <2>6. CASE Settle
    BY <1>1, <2>6, SettleKeepsWork
  <2>7. CASE \/ \E t \in Tasks : PersonStarts(t) \/ Reopen(t)
             \/ \E p \in Projects : Ends(p) \/ Decides(p) \/ Configure(p)
             \/ ConfigureAll
    <3>1. op.at = "idle"
      BY <2>0, <2>7, OthersStep
    <3> QED
      BY <2>2, <3>1
  <2>8. CASE Launch \/ BeginPass
    BY <2>2, <2>8 DEF Launch, BeginPass, Free
  <2>9. CASE Replay \/ EndPass \/ Throws \/ Crash \/ UNCHANGED queueVars
    BY <2>3, <2>9 DEF Replay, EndPass, Throws, Crash, queueVars
  <2> QED
    BY <1>1, <2>4, <2>5, <2>6, <2>7, <2>8, <2>9 DEF Next, Serve
<1> QED
  BY <1>1, LimitInvariance, PTL DEF Spec, LimitIsKept
===============================================================================
