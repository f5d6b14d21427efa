-------------------------- MODULE RunStoreGateProofs --------------------------
(***************************************************************************)
(* Proofs about RunStoreGate, for every number of calls and gate objects,  *)
(* every number of attempts and any behaviour of other programs: a rename  *)
(* meets no read of this process and no other rename, everybody shares one *)
(* gate, and replacements land in the order they asked.                    *)
(***************************************************************************)
EXTENDS RunStoreGate, TLAPS

\* Inside the gate; reading the file; a replacement whose turn it is; one that is over.
Inside == {"held", "reading", "open", "queued", "draining", "renaming", "renamed", "thrown"}
Reading == {"reading", "open"}
Turn == {"draining", "renaming", "renamed", "thrown"}
Ended == {"done", "failed"}
Outside == {"idle", "ready", "refused"}

\* Readers and replacements keep to their own stages, and attempts are left.
StagesFit ==
  /\ \A r \in Readers : pc[r] \in {"idle", "held", "reading", "open", "done"}
  /\ \A w \in Replacers : pc[w] \in Outside \cup {"queued"} \cup Turn \cup Ended
  /\ \A w \in Replacers :
       pc[w] \in Outside \cup {"queued", "draining", "renaming"} => tries[w] < MaxAttempts

\* Whoever is inside is inside the gate of the map, and the gate knows who.
GatesFit ==
  /\ \A c \in Calls : held[c] = IF pc[c] \in Inside THEN current ELSE NoGate
  /\ \A c \in Calls : pc[c] \in Inside => current # NoGate
  /\ \A g \in Gates : gate[g].users = {c \in Calls : held[c] = g}
  /\ \A g \in Gates :
       gate[g].readers = {r \in Readers : held[r] = g /\ pc[r] \in Reading}

\* Replacements take their turns in the order they entered.
TurnsFit ==
  /\ \A w \in Replacers : pc[w] \in Outside <=> \A i \in DOMAIN entered : entered[i] # w
  /\ \A i, j \in DOMAIN entered : entered[i] = entered[j] => i = j
  /\ \A w \in Replacers : w \in released <=> pc[w] \in Ended
  /\ \A i, j \in DOMAIN entered :
       i < j /\ pc[entered[j]] \in Turn \cup Ended => entered[i] \in released
  /\ \A j \in DOMAIN entered :
       pc[entered[j]] = "queued" => j > 1 /\ awaits[entered[j]] = entered[j - 1]

\* Every replacement that entered is over.
AllEnded == \A i \in DOMAIN entered : entered[i] \in released

\* The gate's writer is the last replacement that entered, until it is over.
WriterIsLast ==
  \A g \in Gates :
    \/ /\ g # current \/ AllEnded
       /\ gate[g].writer = NoCall
    \/ /\ g = current
       /\ entered # <<>>
       /\ entered[Len(entered)] \notin released
       /\ gate[g].writer = entered[Len(entered)]

\* A replacement past its wait meets no read.
ReadsAreOver ==
  \A w \in Replacers : pc[w] \in {"renaming", "renamed", "thrown"} =>
    \A r \in Readers : pc[r] \notin Reading

\* What has landed is what was renamed.
LandedFit ==
  \A w \in Replacers : pc[w] \in {"renamed", "done"} <=> \E i \in DOMAIN landed : landed[i] = w

GateInv ==
  /\ TypeOK
  /\ StagesFit
  /\ GatesFit
  /\ TurnsFit
  /\ WriterIsLast
  /\ ReadsAreOver
  /\ LandedFit
  /\ LandInOrder

-------------------------------------------------------------------------------
\* Before the first call nobody is inside and nothing has been asked.
LEMMA GateInit == Init => GateInv
<1> SUFFICES ASSUME Init PROVE GateInv
  OBVIOUS
<1> USE GateAssumption DEF Init
<1>1. TypeOK
  <2>1. gate \in [Gates -> GateRecords]
    BY DEF GateRecords, Unused
  <2>2. tries \in [Replacers -> 0..MaxAttempts]
    BY SMT
  <2>3. pc \in [Calls -> Stages]
    BY DEF Stages
  <2>4. entered \in Seq(Replacers) /\ landed \in Seq(Replacers)
    OBVIOUS
  <2>5. /\ held \in [Calls -> Gates \cup {NoGate}]
        /\ awaits \in [Calls -> Replacers \cup {NoCall}]
        /\ seen \in [Readers -> Replacers \cup {Absent, "first"}]
    OBVIOUS
  <2>6. current \in Gates \cup {NoGate} /\ released \subseteq Replacers
    OBVIOUS
  <2>7. file \in Replacers \cup {Absent, "first"} /\ foreign \in BOOLEAN /\ opened \in Nat
    OBVIOUS
  <2> QED
    BY <2>1, <2>2, <2>3, <2>4, <2>5, <2>6, <2>7 DEF TypeOK
<1>2. StagesFit
  BY DEF StagesFit, Calls, Outside
<1>3. GatesFit
  BY DEF GatesFit, Unused, Calls, Replacers, Inside
<1>4. TurnsFit
  BY DEF TurnsFit, Calls, Outside, Ended
<1>5. WriterIsLast /\ ReadsAreOver /\ LandedFit /\ LandInOrder
  BY DEF WriterIsLast, ReadsAreOver, LandedFit, LandInOrder, AllEnded, Unused, Calls
<1> QED
  BY <1>1, <1>2, <1>3, <1>4, <1>5 DEF GateInv

\* A replacement that has entered and is not inside any more is over.
LEMMA EnteredIsInsideOrEnded ==
  ASSUME TypeOK, StagesFit, TurnsFit
  PROVE  \A i \in DOMAIN entered :
           /\ entered[i] \in Replacers /\ entered[i] \in Calls
           /\ pc[entered[i]] \in Inside \/ entered[i] \in released
<1> SUFFICES ASSUME NEW i \in DOMAIN entered
             PROVE  /\ entered[i] \in Replacers /\ entered[i] \in Calls
                    /\ pc[entered[i]] \in Inside \/ entered[i] \in released
  OBVIOUS
<1>1. entered[i] \in Replacers /\ entered[i] \in Calls
  BY DEF TypeOK, Calls
<1>2. pc[entered[i]] \in {"queued"} \cup Turn \cup Ended
  BY <1>1 DEF StagesFit, TurnsFit
<1>3. pc[entered[i]] \in Ended => entered[i] \in released
  BY <1>1 DEF TurnsFit
<1> QED
  BY <1>1, <1>2, <1>3 DEF Turn, Inside

\* Once the last replacement that entered is over, all of them are.
LEMMA LastEndedAllEnded ==
  ASSUME TypeOK, TurnsFit, entered # <<>>, entered[Len(entered)] \in released
  PROVE  AllEnded
<1>1. pc[entered[Len(entered)]] \in Ended
  BY DEF TypeOK, TurnsFit
<1> QED
  BY <1>1 DEF TypeOK, TurnsFit, AllEnded

\* What the gate of the map, or a new one, says.
LEMMA OneGate ==
  ASSUME GateInv, NEW g \in Gates, g = current \/ current = NoGate
  PROVE  /\ \A c \in Calls : held[c] = IF pc[c] \in Inside THEN g ELSE NoGate
         /\ gate[g].readers = {r \in Readers : pc[r] \in Reading}
         /\ gate[g].users = {c \in Calls : pc[c] \in Inside}
         /\ gate[g].writer = NoCall => AllEnded
         /\ gate[g].writer # NoCall => /\ entered # <<>>
                                       /\ entered[Len(entered)] \notin released
                                       /\ gate[g].writer = entered[Len(entered)]
         /\ \A h \in Gates \ {g} :
              gate[h].users = {} /\ gate[h].readers = {} /\ gate[h].writer = NoCall
<1> USE GateAssumption DEF GateInv
<1>1. \A c \in Calls : held[c] = IF pc[c] \in Inside THEN g ELSE NoGate
  BY DEF GatesFit
<1>2. gate[g].readers = {r \in Readers : pc[r] \in Reading}
  BY <1>1 DEF GatesFit, Reading, Inside, Calls
<1>3. gate[g].users = {c \in Calls : pc[c] \in Inside}
  BY <1>1 DEF GatesFit
<1>4. gate[g].writer = NoCall => AllEnded
  <2>1. CASE g = current
    <3>1. ASSUME entered # <<>>, entered[Len(entered)] \notin released,
                 gate[g].writer = entered[Len(entered)]
          PROVE  gate[g].writer # NoCall
      <4>1. entered[Len(entered)] \in Replacers
        BY <3>1 DEF TypeOK
      <4> QED
        BY <3>1, <4>1 DEF Calls
    <3> QED
      BY <2>1, <3>1 DEF WriterIsLast
  <2>2. CASE current = NoGate
    <3>1. \A c \in Calls : pc[c] \notin Inside
      BY <2>2 DEF GatesFit
    <3> QED
      BY <3>1, EnteredIsInsideOrEnded DEF AllEnded
  <2> QED
    BY <2>1, <2>2
<1>5. gate[g].writer # NoCall => /\ entered # <<>>
                                 /\ entered[Len(entered)] \notin released
                                 /\ gate[g].writer = entered[Len(entered)]
  BY DEF WriterIsLast
<1>6. ASSUME NEW h \in Gates \ {g}
      PROVE  gate[h].users = {} /\ gate[h].readers = {} /\ gate[h].writer = NoCall
  <2>1. h # current
    BY <1>6
  <2>2. gate[h].writer = NoCall
    BY <2>1 DEF WriterIsLast
  <2>3. \A c \in Calls : held[c] # h
    BY <1>1, <1>6
  <2> QED
    BY <2>2, <2>3 DEF GatesFit, Calls
<1> QED
  BY <1>1, <1>2, <1>3, <1>4, <1>5, <1>6

-------------------------------------------------------------------------------
\* Entering a gate and leaving it keep the gate records.
LEMMA EnteredType ==
  ASSUME TypeOK, NEW c \in Calls, NEW g \in Gates
  PROVE  Entered(c, g) \in GateRecords
<1>1. gate[g] \in GateRecords
  BY DEF TypeOK
<1> QED
  BY <1>1 DEF Entered, GateRecords

LEMMA LeaveType ==
  ASSUME TypeOK, NEW c \in Calls, held[c] \in Gates, NEW after \in GateRecords, Leave(c, after)
  PROVE  /\ gate' \in [Gates -> GateRecords]
         /\ current' \in Gates \cup {NoGate}
         /\ held' \in [Calls -> Gates \cup {NoGate}]
<1>1. [after EXCEPT !.users = @ \ {c}] \in GateRecords
  BY DEF GateRecords
<1> QED
  BY <1>1 DEF TypeOK, Leave

\* Whoever is inside holds a gate object.
LEMMA InsideHolds ==
  ASSUME TypeOK, GatesFit, NEW c \in Calls, pc[c] \in Inside
  PROVE  held[c] \in Gates /\ held[c] = current
BY DEF TypeOK, GatesFit

LEMMA AdmittedType ==
  ASSUME TypeOK, NEW r \in Readers, NEW g \in Gates, NEW now \in GateRecords, Admitted(r, g, now)
  PROVE  /\ gate' \in [Gates -> GateRecords]
         /\ pc' \in [Calls -> Stages]
         /\ awaits' \in [Calls -> Replacers \cup {NoCall}]
<1>1. [now EXCEPT !.readers = @ \cup {r}] \in GateRecords /\ now.writer \in Replacers \cup {NoCall}
  BY DEF GateRecords
<1>2. {"held", "reading"} \subseteq Stages
  BY DEF Stages
<1> QED
  BY <1>1, <1>2 DEF TypeOK, Admitted

LEMMA DrainedType ==
  ASSUME TypeOK, NEW w \in Replacers, NEW g \in Gates, NEW now \in GateRecords, Drained(w, g, now)
  PROVE  /\ gate' \in [Gates -> GateRecords]
         /\ pc' \in [Calls -> Stages]
<1>1. [now EXCEPT !.drained = @ \cup {w}] \in GateRecords
  BY DEF GateRecords
<1>2. {"draining", "renaming"} \subseteq Stages
  BY DEF Stages
<1> QED
  BY <1>1, <1>2 DEF TypeOK, Drained

\* Every action keeps the type of the state.
LEMMA TypeStep == ASSUME TypeOK, StagesFit, GatesFit, [Next]_gateVars PROVE TypeOK'
<1> USE GateAssumption
<1>1. ASSUME NEW r \in Readers, StartRead(r)
      PROVE  TypeOK'
  <2>1. PICK g \in Gates : GateFor(r, g) /\ Admitted(r, g, Entered(r, g))
    BY <1>1 DEF StartRead
  <2>2. r \in Calls /\ Entered(r, g) \in GateRecords
    BY EnteredType DEF Calls
  <2>3. /\ gate' \in [Gates -> GateRecords]
        /\ pc' \in [Calls -> Stages]
        /\ awaits' \in [Calls -> Replacers \cup {NoCall}]
    BY <2>1, <2>2, AdmittedType
  <2>4. current' \in Gates \cup {NoGate} /\ held' \in [Calls -> Gates \cup {NoGate}]
    BY <2>1, <2>2 DEF GateFor, TypeOK
  <2> QED
    BY <1>1, <2>3, <2>4 DEF StartRead, TypeOK
<1>2. ASSUME NEW r \in Readers, ResumeRead(r)
      PROVE  TypeOK'
  <2>1. r \in Calls /\ held[r] \in Gates
    BY <1>2, InsideHolds DEF ResumeRead, Inside, Calls
  <2>2. gate[held[r]] \in GateRecords
    BY <2>1 DEF TypeOK
  <2>3. /\ gate' \in [Gates -> GateRecords]
        /\ pc' \in [Calls -> Stages]
        /\ awaits' \in [Calls -> Replacers \cup {NoCall}]
    BY <1>2, <2>1, <2>2, AdmittedType DEF ResumeRead
  <2> QED
    BY <1>2, <2>3 DEF ResumeRead, TypeOK
<1>3. ASSUME NEW r \in Readers, OpenFile(r)
      PROVE  TypeOK'
  <2>1. r \in Calls /\ "open" \in Stages
    BY DEF Calls, Stages
  <2> QED
    BY <1>3, <2>1 DEF OpenFile, TypeOK
<1>4. ASSUME NEW r \in Readers, EndRead(r)
      PROVE  TypeOK'
  <2>1. r \in Calls /\ held[r] \in Gates /\ "done" \in Stages
    BY <1>4, InsideHolds DEF EndRead, Inside, Calls, Stages
  <2>2. PICK after \in GateRecords : Leave(r, after)
    <3> DEFINE rest == gate[held[r]].readers \ {r}
               after == [gate[held[r]] EXCEPT !.readers = rest,
                                              !.drained = IF rest = {} THEN {} ELSE @]
    <3>1. gate[held[r]] \in GateRecords
      BY <2>1 DEF TypeOK
    <3>2. after \in GateRecords
      BY <3>1 DEF GateRecords
    <3>3. Leave(r, after)
      BY <1>4 DEF EndRead
    <3> QED
      BY <3>2, <3>3
  <2> QED
    BY <1>4, <2>1, <2>2, LeaveType DEF EndRead, TypeOK
<1>5. ASSUME NEW c \in Creators, Access(c)
      PROVE  TypeOK'
  <2>1. c \in Calls /\ {"ready", "refused"} \subseteq Stages
    BY DEF Calls, Replacers, Stages
  <2> QED
    BY <1>5, <2>1 DEF Access, TypeOK
<1>6. ASSUME NEW w \in Replacers, StartReplace(w)
      PROVE  TypeOK'
  <2> DEFINE now(g) == [Entered(w, g) EXCEPT !.writer = w]
  <2>1. PICK g \in Gates :
          /\ GateFor(w, g)
          /\ IF gate[g].writer # NoCall
               THEN /\ gate' = [gate EXCEPT ![g] = now(g)]
                    /\ pc' = [pc EXCEPT ![w] = "queued"]
                    /\ awaits' = [awaits EXCEPT ![w] = gate[g].writer]
               ELSE Drained(w, g, now(g)) /\ UNCHANGED awaits
    BY <1>6 DEF StartReplace
  <2>2. w \in Calls /\ Entered(w, g) \in GateRecords
    BY EnteredType DEF Calls
  <2>3. now(g) \in GateRecords
    BY <2>2 DEF GateRecords
  <2>4. gate[g].writer \in Replacers \cup {NoCall} /\ "queued" \in Stages
    BY DEF TypeOK, GateRecords, Stages
  <2> HIDE DEF now
  <2>5. /\ gate' \in [Gates -> GateRecords]
        /\ pc' \in [Calls -> Stages]
        /\ awaits' \in [Calls -> Replacers \cup {NoCall}]
    <3>1. CASE gate[g].writer # NoCall
      <4>1. /\ gate' = [gate EXCEPT ![g] = now(g)]
            /\ pc' = [pc EXCEPT ![w] = "queued"]
            /\ awaits' = [awaits EXCEPT ![w] = gate[g].writer]
        BY <2>1, <3>1
      <4>2. gate[g].writer \in Replacers
        BY <2>4, <3>1
      <4> QED
        BY <2>2, <2>3, <2>4, <4>1, <4>2 DEF TypeOK
    <3>2. CASE gate[g].writer = NoCall
      <4>1. Drained(w, g, now(g)) /\ awaits' = awaits
        BY <2>1, <3>2
      <4>2. gate' \in [Gates -> GateRecords] /\ pc' \in [Calls -> Stages]
        BY <2>3, <4>1, DrainedType
      <4> QED
        BY <4>1, <4>2 DEF TypeOK
    <3> QED
      BY <3>1, <3>2
  <2>6. current' \in Gates \cup {NoGate} /\ held' \in [Calls -> Gates \cup {NoGate}]
    BY <2>1, <2>2 DEF GateFor, TypeOK
  <2>7. entered' \in Seq(Replacers)
    <3>1. entered \in Seq(Replacers) /\ entered' = Append(entered, w)
      BY <1>6 DEF StartReplace, TypeOK
    <3> QED
      BY <3>1
  <2> QED
    BY <1>6, <2>5, <2>6, <2>7 DEF StartReplace, TypeOK
<1>7. ASSUME NEW w \in Replacers, ResumeReplace(w)
      PROVE  TypeOK'
  <2>1. w \in Calls /\ held[w] \in Gates
    BY <1>7, InsideHolds DEF ResumeReplace, Inside, Calls
  <2>2. gate[held[w]] \in GateRecords
    BY <2>1 DEF TypeOK
  <2>3. gate' \in [Gates -> GateRecords] /\ pc' \in [Calls -> Stages]
    BY <1>7, <2>1, <2>2, DrainedType DEF ResumeReplace
  <2> QED
    BY <1>7, <2>3 DEF ResumeReplace, TypeOK
<1>8. ASSUME NEW w \in Replacers, Rename(w)
      PROVE  TypeOK'
  <2>1. w \in Calls /\ {"renaming", "thrown", "renamed"} \subseteq Stages
    BY DEF Calls, Stages
  <2>2. tries[w] \in 0..MaxAttempts /\ tries[w] < MaxAttempts
    BY <1>8 DEF Rename, StagesFit, TypeOK
  <2>3. tries' \in [Replacers -> 0..MaxAttempts]
    BY <1>8, <2>2 DEF Rename, TypeOK
  <2>4. landed' \in Seq(Replacers)
    <3>1. landed \in Seq(Replacers) /\ landed' \in {landed, Append(landed, w)}
      BY <1>8 DEF Rename, TypeOK
    <3> QED
      BY <3>1
  <2>5. pc' \in [Calls -> Stages] /\ file' \in Replacers \cup {Absent, "first"}
    <3>1. \/ file' = file /\ \E x \in {"renaming", "thrown"} : pc' = [pc EXCEPT ![w] = x]
          \/ file' = w /\ pc' = [pc EXCEPT ![w] = "renamed"]
      BY <1>8 DEF Rename
    <3>2. PICK x \in Stages : pc' = [pc EXCEPT ![w] = x]
      BY <2>1, <3>1
    <3>3. pc' \in [Calls -> Stages]
      BY <2>1, <3>2 DEF TypeOK
    <3> QED
      BY <3>1, <3>3 DEF TypeOK
  <2> QED
    BY <1>8, <2>3, <2>4, <2>5 DEF Rename, TypeOK
<1>9. ASSUME NEW w \in Replacers, EndReplace(w)
      PROVE  TypeOK'
  <2>1. w \in Calls /\ held[w] \in Gates /\ {"done", "failed"} \subseteq Stages
    BY <1>9, InsideHolds DEF EndReplace, Inside, Calls, Stages
  <2>2. [gate[held[w]] EXCEPT !.writer = IF @ = w THEN NoCall ELSE @] \in GateRecords
    <3>1. gate[held[w]] \in GateRecords
      BY <2>1 DEF TypeOK
    <3> QED
      BY <3>1 DEF GateRecords
  <2>3. /\ gate' \in [Gates -> GateRecords]
        /\ current' \in Gates \cup {NoGate}
        /\ held' \in [Calls -> Gates \cup {NoGate}]
    BY <1>9, <2>1, <2>2, LeaveType DEF EndReplace
  <2>4. pc' \in [Calls -> Stages]
    BY <1>9, <2>1 DEF EndReplace, TypeOK
  <2> QED
    BY <1>9, <2>3, <2>4 DEF EndReplace, TypeOK
<1>10. ASSUME Foreign
       PROVE  TypeOK'
  BY <1>10 DEF Foreign, TypeOK
<1>11. ASSUME UNCHANGED gateVars
       PROVE  TypeOK'
  BY <1>11 DEF gateVars, TypeOK
<1> QED
  BY <1>1, <1>2, <1>3, <1>4, <1>5, <1>6, <1>7, <1>8, <1>9, <1>10, <1>11 DEF Next, Proceed

-------------------------------------------------------------------------------
\* What each action does to the gate, as far as the invariant sees it: a read comes,
\* goes on or leaves; a replacement comes, goes on or leaves.
ReadEnters(r, g) ==
  /\ gate'[g].writer = gate[g].writer
  /\ \/ /\ gate[g].writer # NoCall
        /\ pc' = [pc EXCEPT ![r] = "held"]
        /\ gate'[g].readers = gate[g].readers
     \/ /\ gate[g].writer = NoCall
        /\ pc' = [pc EXCEPT ![r] = "reading"]
        /\ gate'[g].readers = gate[g].readers \cup {r}
  /\ \A h \in Gates \ {g} : gate'[h] = gate[h]
  /\ \A w \in Replacers : awaits'[w] = awaits[w]

LEMMA AdmittedEffect ==
  ASSUME TypeOK, NEW r \in Readers, NEW g \in Gates, NEW now \in GateRecords, Admitted(r, g, now),
         now.writer = gate[g].writer, now.readers = gate[g].readers
  PROVE  ReadEnters(r, g) /\ gate'[g].users = now.users
<1>1. /\ [now EXCEPT !.readers = @ \cup {r}].readers = gate[g].readers \cup {r}
      /\ [now EXCEPT !.readers = @ \cup {r}].writer = gate[g].writer
      /\ [now EXCEPT !.readers = @ \cup {r}].users = now.users
  BY DEF GateRecords
<1>2. gate \in [Gates -> GateRecords] /\ awaits \in [Calls -> Replacers \cup {NoCall}]
  BY DEF TypeOK
<1>3. r \in Calls /\ r \notin Replacers /\ Replacers \subseteq Calls
  BY GateAssumption DEF Calls
<1>4. CASE gate[g].writer # NoCall
  <2>1. /\ gate' = [gate EXCEPT ![g] = now]
        /\ pc' = [pc EXCEPT ![r] = "held"]
        /\ awaits' = [awaits EXCEPT ![r] = now.writer]
    BY <1>4 DEF Admitted
  <2> QED
    BY <1>2, <1>3, <1>4, <2>1 DEF ReadEnters
<1>5. CASE gate[g].writer = NoCall
  <2>1. /\ gate' = [gate EXCEPT ![g] = [now EXCEPT !.readers = @ \cup {r}]]
        /\ pc' = [pc EXCEPT ![r] = "reading"]
        /\ awaits' = awaits
    BY <1>5 DEF Admitted
  <2> QED
    BY <1>1, <1>2, <1>3, <1>5, <2>1 DEF ReadEnters
<1> QED
  BY <1>4, <1>5

LEMMA EnteredFields ==
  ASSUME TypeOK, NEW c \in Calls, NEW g \in Gates
  PROVE  /\ Entered(c, g).users = gate[g].users \cup {c}
         /\ Entered(c, g).readers = gate[g].readers
         /\ Entered(c, g).writer = gate[g].writer
BY DEF TypeOK, Entered, GateRecords

LEMMA StartReadEffect ==
  ASSUME TypeOK, NEW r \in Readers, StartRead(r)
  PROVE  \E g \in Gates :
           /\ g = current \/ current = NoGate
           /\ current' = g /\ held' = [held EXCEPT ![r] = g]
           /\ gate'[g].users = gate[g].users \cup {r}
           /\ ReadEnters(r, g)
<1>1. PICK g \in Gates : GateFor(r, g) /\ Admitted(r, g, Entered(r, g))
  BY DEF StartRead
<1>2. r \in Calls
  BY DEF Calls
<1>3. ReadEnters(r, g) /\ gate'[g].users = gate[g].users \cup {r}
  BY <1>1, <1>2, EnteredType, EnteredFields, AdmittedEffect
<1> QED
  BY <1>1, <1>3 DEF GateFor

LEMMA ResumeReadEffect ==
  ASSUME TypeOK, GatesFit, NEW r \in Readers, ResumeRead(r)
  PROVE  \E g \in Gates :
           /\ g = current /\ current' = g /\ held' = held /\ held[r] = g
           /\ gate'[g].users = gate[g].users
           /\ ReadEnters(r, g)
<1>1. r \in Calls /\ held[r] \in Gates /\ held[r] = current
  BY InsideHolds DEF ResumeRead, Inside, Calls
<1>2. gate[held[r]] \in GateRecords
  BY <1>1 DEF TypeOK
<1>3. Admitted(r, held[r], gate[held[r]])
  BY DEF ResumeRead
<1>4. ReadEnters(r, held[r]) /\ gate'[held[r]].users = gate[held[r]].users
  BY <1>1, <1>2, <1>3, AdmittedEffect
<1> QED
  BY <1>1, <1>4 DEF ResumeRead

\* A replacement that is let through, or sleeps until the reads are over.
Proceeds(w, g) ==
  /\ gate'[g].readers = gate[g].readers
  /\ \/ pc' = [pc EXCEPT ![w] = "draining"]
     \/ pc' = [pc EXCEPT ![w] = "renaming"] /\ gate[g].readers = {}
  /\ \A h \in Gates \ {g} : gate'[h] = gate[h]

LEMMA DrainedEffect ==
  ASSUME TypeOK, NEW w \in Replacers, NEW g \in Gates, NEW now \in GateRecords, Drained(w, g, now),
         now.readers = gate[g].readers
  PROVE  Proceeds(w, g) /\ gate'[g].users = now.users /\ gate'[g].writer = now.writer
<1>1. /\ [now EXCEPT !.drained = @ \cup {w}].readers = gate[g].readers
      /\ [now EXCEPT !.drained = @ \cup {w}].writer = now.writer
      /\ [now EXCEPT !.drained = @ \cup {w}].users = now.users
  BY DEF GateRecords
<1>2. gate \in [Gates -> GateRecords]
  BY DEF TypeOK
<1> QED
  BY <1>1, <1>2 DEF Drained, Proceeds

LEMMA StartReplaceEffect ==
  ASSUME TypeOK, NEW w \in Replacers, StartReplace(w)
  PROVE  \E g \in Gates :
           /\ g = current \/ current = NoGate
           /\ current' = g /\ held' = [held EXCEPT ![w] = g]
           /\ gate'[g].users = gate[g].users \cup {w}
           /\ gate'[g].writer = w
           /\ \/ /\ gate[g].writer # NoCall
                 /\ pc' = [pc EXCEPT ![w] = "queued"]
                 /\ awaits' = [awaits EXCEPT ![w] = gate[g].writer]
                 /\ gate'[g].readers = gate[g].readers
                 /\ \A h \in Gates \ {g} : gate'[h] = gate[h]
              \/ gate[g].writer = NoCall /\ awaits' = awaits /\ Proceeds(w, g)
<1> DEFINE now(g) == [Entered(w, g) EXCEPT !.writer = w]
<1>1. PICK g \in Gates :
        /\ GateFor(w, g)
        /\ IF gate[g].writer # NoCall
             THEN /\ gate' = [gate EXCEPT ![g] = now(g)]
                  /\ pc' = [pc EXCEPT ![w] = "queued"]
                  /\ awaits' = [awaits EXCEPT ![w] = gate[g].writer]
             ELSE Drained(w, g, now(g)) /\ UNCHANGED awaits
  BY DEF StartReplace
<1>2. w \in Calls
  BY DEF Calls
<1>3. /\ now(g) \in GateRecords
      /\ now(g).users = gate[g].users \cup {w}
      /\ now(g).readers = gate[g].readers
      /\ now(g).writer = w
  <2>1. Entered(w, g) \in GateRecords
    BY <1>2, EnteredType
  <2> QED
    BY <1>2, <2>1, EnteredFields DEF GateRecords
<1>4. gate \in [Gates -> GateRecords]
  BY DEF TypeOK
<1> HIDE DEF now
<1>5. CASE gate[g].writer # NoCall
  <2>1. /\ gate' = [gate EXCEPT ![g] = now(g)]
        /\ pc' = [pc EXCEPT ![w] = "queued"]
        /\ awaits' = [awaits EXCEPT ![w] = gate[g].writer]
    BY <1>1, <1>5
  <2>2. gate'[g] = now(g) /\ \A h \in Gates \ {g} : gate'[h] = gate[h]
    BY <1>4, <2>1
  <2> QED
    BY <1>1, <1>3, <1>5, <2>1, <2>2 DEF GateFor
<1>6. CASE gate[g].writer = NoCall
  <2>1. Drained(w, g, now(g)) /\ awaits' = awaits
    BY <1>1, <1>6
  <2>2. Proceeds(w, g) /\ gate'[g].users = now(g).users /\ gate'[g].writer = now(g).writer
    BY <1>3, <2>1, DrainedEffect
  <2> QED
    BY <1>1, <1>3, <1>6, <2>1, <2>2 DEF GateFor
<1> QED
  BY <1>5, <1>6

LEMMA ResumeReplaceEffect ==
  ASSUME TypeOK, GatesFit, NEW w \in Replacers, ResumeReplace(w)
  PROVE  \E g \in Gates :
           /\ g = current /\ current' = g /\ held' = held /\ held[w] = g
           /\ gate'[g].users = gate[g].users
           /\ gate'[g].writer = gate[g].writer
           /\ Proceeds(w, g)
<1>1. w \in Calls /\ held[w] \in Gates /\ held[w] = current
  BY InsideHolds DEF ResumeReplace, Inside, Calls
<1>2. gate[held[w]] \in GateRecords
  BY <1>1 DEF TypeOK
<1>3. Drained(w, held[w], gate[held[w]])
  BY DEF ResumeReplace
<1>4. /\ Proceeds(w, held[w]) /\ gate'[held[w]].users = gate[held[w]].users
      /\ gate'[held[w]].writer = gate[held[w]].writer
  BY <1>1, <1>2, <1>3, DrainedEffect
<1> QED
  BY <1>1, <1>4 DEF ResumeReplace

\* A call that leaves: the gate goes with the last one.
Leaves(c, g) ==
  /\ held' = [held EXCEPT ![c] = NoGate]
  /\ gate'[g].users = gate[g].users \ {c}
  /\ current' = IF gate'[g].users = {} THEN NoGate ELSE g
  /\ \A h \in Gates \ {g} : gate'[h] = gate[h]

LEMMA LeaveEffect ==
  ASSUME TypeOK, NEW c \in Calls, NEW g \in Gates, held[c] = g, current = g,
         NEW after \in GateRecords, after.users = gate[g].users, Leave(c, after)
  PROVE  /\ Leaves(c, g)
         /\ gate'[g].readers = after.readers
         /\ gate'[g].writer = after.writer
<1> DEFINE left == [after EXCEPT !.users = @ \ {c}]
<1>1. /\ left.users = gate[g].users \ {c} /\ left.readers = after.readers
      /\ left.writer = after.writer
  BY DEF GateRecords
<1>2. /\ gate' = [gate EXCEPT ![g] = left]
      /\ current' = IF left.users = {} THEN NoGate ELSE g
      /\ held' = [held EXCEPT ![c] = NoGate]
  BY DEF Leave
<1>3. gate \in [Gates -> GateRecords]
  BY DEF TypeOK
<1> HIDE DEF left
<1>4. gate'[g] = left /\ \A h \in Gates \ {g} : gate'[h] = gate[h]
  BY <1>2, <1>3
<1> QED
  BY <1>1, <1>2, <1>4 DEF Leaves

LEMMA EndReadEffect ==
  ASSUME TypeOK, GatesFit, NEW r \in Readers, EndRead(r)
  PROVE  \E g \in Gates :
           /\ g = current /\ held[r] = g
           /\ Leaves(r, g)
           /\ gate'[g].readers = gate[g].readers \ {r}
           /\ gate'[g].writer = gate[g].writer
<1>1. r \in Calls /\ held[r] \in Gates /\ held[r] = current
  BY InsideHolds DEF EndRead, Inside, Calls
<1> DEFINE g == held[r]
           rest == gate[g].readers \ {r}
           after == [gate[g] EXCEPT !.readers = rest, !.drained = IF rest = {} THEN {} ELSE @]
<1>2. gate[g] \in GateRecords
  BY <1>1 DEF TypeOK
<1>3. /\ after \in GateRecords /\ after.users = gate[g].users /\ after.readers = rest
      /\ after.writer = gate[g].writer
  BY <1>2 DEF GateRecords
<1>4. Leave(r, after)
  BY DEF EndRead
<1> HIDE DEF after
<1>5. Leaves(r, g) /\ gate'[g].readers = rest /\ gate'[g].writer = gate[g].writer
  BY <1>1, <1>3, <1>4, LeaveEffect
<1> QED
  BY <1>1, <1>5

LEMMA EndReplaceEffect ==
  ASSUME TypeOK, GatesFit, NEW w \in Replacers, EndReplace(w)
  PROVE  \E g \in Gates :
           /\ g = current /\ held[w] = g
           /\ Leaves(w, g)
           /\ gate'[g].readers = gate[g].readers
           /\ gate'[g].writer = IF gate[g].writer = w THEN NoCall ELSE gate[g].writer
<1>1. w \in Calls /\ held[w] \in Gates /\ held[w] = current
  BY InsideHolds DEF EndReplace, Inside, Calls
<1> DEFINE g == held[w]
           after == [gate[g] EXCEPT !.writer = IF @ = w THEN NoCall ELSE @]
<1>2. gate[g] \in GateRecords
  BY <1>1 DEF TypeOK
<1>3. /\ after \in GateRecords /\ after.users = gate[g].users
      /\ after.readers = gate[g].readers
      /\ after.writer = IF gate[g].writer = w THEN NoCall ELSE gate[g].writer
  BY <1>2 DEF GateRecords
<1>4. Leave(w, after)
  BY DEF EndReplace
<1> HIDE DEF after
<1>5. /\ Leaves(w, g) /\ gate'[g].readers = after.readers /\ gate'[g].writer = after.writer
  BY <1>1, <1>3, <1>4, LeaveEffect
<1> QED
  BY <1>1, <1>3, <1>5

-------------------------------------------------------------------------------
\* A read moves nothing of the replacements.
LEMMA ReadsKeepReplacements ==
  ASSUME TypeOK, GatesFit, NEW r \in Readers,
         StartRead(r) \/ ResumeRead(r) \/ OpenFile(r) \/ EndRead(r)
  PROVE  /\ \E s \in {"held", "reading", "open", "done"} : pc' = [pc EXCEPT ![r] = s]
         /\ \A w \in Replacers : pc'[w] = pc[w] /\ awaits'[w] = awaits[w]
         /\ UNCHANGED <<released, tries, entered, landed>>
<1>1. r \in Calls /\ r \notin Replacers /\ Replacers \subseteq Calls
  BY GateAssumption DEF Calls
<1>2. pc \in [Calls -> Stages]
  BY DEF TypeOK
<1>3. \E s \in {"held", "reading", "open", "done"} : pc' = [pc EXCEPT ![r] = s]
  BY StartReadEffect, ResumeReadEffect DEF ReadEnters, OpenFile, EndRead
<1>4. \A w \in Replacers : awaits'[w] = awaits[w]
  BY StartReadEffect, ResumeReadEffect DEF ReadEnters, OpenFile, EndRead
<1>5. UNCHANGED <<released, tries, entered, landed>>
  BY DEF StartRead, ResumeRead, OpenFile, EndRead
<1> QED
  BY <1>1, <1>2, <1>3, <1>4, <1>5

\* A replacement moves no read, and where it stands next is one of its own stages.
LEMMA ReplacementsKeepReads ==
  ASSUME TypeOK, GatesFit, NEW w \in Replacers,
         Access(w) \/ StartReplace(w) \/ ResumeReplace(w) \/ Rename(w) \/ EndReplace(w)
  PROVE  /\ \E s \in {"ready", "refused", "queued", "draining", "renaming", "thrown", "renamed",
                       "done", "failed"} : pc' = [pc EXCEPT ![w] = s]
         /\ \A r \in Readers : pc'[r] = pc[r]
         /\ \A v \in Replacers \ {w} : pc'[v] = pc[v]
<1>1. w \in Calls /\ w \notin Readers /\ Replacers \subseteq Calls /\ Readers \subseteq Calls
  BY GateAssumption DEF Calls
<1>2. pc \in [Calls -> Stages]
  BY DEF TypeOK
<1>3. \E s \in {"ready", "refused", "queued", "draining", "renaming", "thrown", "renamed",
                "done", "failed"} : pc' = [pc EXCEPT ![w] = s]
  <2>1. CASE Access(w)
    BY <2>1 DEF Access
  <2>2. CASE StartReplace(w)
    BY <2>2, StartReplaceEffect DEF Proceeds
  <2>3. CASE ResumeReplace(w)
    BY <2>3, ResumeReplaceEffect DEF Proceeds
  <2>4. CASE Rename(w)
    BY <2>4 DEF Rename
  <2>5. CASE EndReplace(w)
    BY <2>5 DEF EndReplace
  <2> QED
    BY <2>1, <2>2, <2>3, <2>4, <2>5
<1> QED
  BY <1>1, <1>2, <1>3

\* A call keeps to the stages of its kind.
LEMMA StagesStep == ASSUME GateInv, [Next]_gateVars PROVE StagesFit'
<1> USE GateAssumption DEF GateInv
<1>1. ASSUME NEW r \in Readers, StartRead(r) \/ ResumeRead(r) \/ OpenFile(r) \/ EndRead(r)
      PROVE  StagesFit'
  <2>1. PICK s \in {"held", "reading", "open", "done"} : pc' = [pc EXCEPT ![r] = s]
    BY <1>1, ReadsKeepReplacements
  <2>2. \A c \in Calls : pc'[c] = IF c = r THEN s ELSE pc[c]
    BY <2>1 DEF TypeOK
  <2>3. \A q \in Readers : pc'[q] \in {"idle", "held", "reading", "open", "done"}
    BY <2>2 DEF StagesFit, Calls
  <2>4. (\A w \in Replacers : pc'[w] = pc[w]) /\ tries' = tries
    BY <1>1, ReadsKeepReplacements
  <2> QED
    BY <2>3, <2>4 DEF StagesFit
<1>2. ASSUME NEW w \in Replacers,
             Access(w) \/ StartReplace(w) \/ ResumeReplace(w) \/ EndReplace(w)
      PROVE  StagesFit'
  <2>1. PICK s \in {"ready", "refused", "queued", "draining", "renaming", "thrown", "renamed",
                     "done", "failed"} : pc' = [pc EXCEPT ![w] = s]
    BY <1>2, ReplacementsKeepReads
  <2>2. pc'[w] = s /\ tries' = tries
    BY <1>2, <2>1 DEF TypeOK, Calls, Access, StartReplace, ResumeReplace, EndReplace
  <2>3. (\A r \in Readers : pc'[r] = pc[r]) /\ (\A v \in Replacers \ {w} : pc'[v] = pc[v])
    BY <1>2, ReplacementsKeepReads
  <2>4. s \in Outside \cup {"queued"} \cup Turn \cup Ended
    BY DEF Outside, Turn, Ended
  <2>5. pc[w] \in Outside \cup {"queued", "draining"} \/ s \in Ended
    <3>1. CASE EndReplace(w)
      BY <2>2, <3>1 DEF EndReplace, TypeOK, Calls, Ended
    <3> QED
      BY <1>2, <3>1 DEF Access, StartReplace, ResumeReplace, Outside
  <2>6. s \in Ended => s \notin Outside \cup {"queued", "draining", "renaming"}
    BY DEF Outside, Ended
  <2> QED
    BY <2>2, <2>3, <2>4, <2>5, <2>6 DEF StagesFit
<1>3. ASSUME NEW w \in Replacers, Rename(w)
      PROVE  StagesFit'
  <2>1. (\A r \in Readers : pc'[r] = pc[r]) /\ (\A v \in Replacers \ {w} : pc'[v] = pc[v])
    BY <1>3, ReplacementsKeepReads
  <2>2. /\ pc'[w] \in {"renaming", "thrown", "renamed"}
        /\ pc'[w] = "renaming" => tries[w] + 1 < MaxAttempts
    BY <1>3 DEF Rename, TypeOK, Calls
  <2>3. tries' = [tries EXCEPT ![w] = tries[w] + 1]
    BY <1>3 DEF Rename
  <2>4. tries'[w] = tries[w] + 1 /\ \A v \in Replacers \ {w} : tries'[v] = tries[v]
    BY <2>3 DEF TypeOK
  <2> QED
    BY <2>1, <2>2, <2>4 DEF StagesFit, Outside, Turn
<1>4. ASSUME Foreign \/ UNCHANGED gateVars
      PROVE  StagesFit'
  BY <1>4 DEF Foreign, gateVars, StagesFit
<1> QED
  BY <1>1, <1>2, <1>3, <1>4 DEF Next, Proceed, Replacers

\* The gate of the map says who is inside.
LEMMA OneGateAfter ==
  ASSUME TypeOK', NEW g \in Gates,
         \A c \in Calls : held'[c] = IF pc'[c] \in Inside THEN g ELSE NoGate,
         gate'[g].users = {c \in Calls : pc'[c] \in Inside},
         gate'[g].readers = {r \in Readers : pc'[r] \in Reading},
         \A h \in Gates \ {g} : gate'[h].users = {} /\ gate'[h].readers = {},
         current' = g \/ (current' = NoGate /\ gate'[g].users = {})
  PROVE  GatesFit'
<1> USE GateAssumption
<1>1. \A c \in Calls : held'[c] = IF pc'[c] \in Inside THEN current' ELSE NoGate
  OBVIOUS
<1>2. \A c \in Calls : pc'[c] \in Inside => current' # NoGate
  OBVIOUS
<1>3. \A h \in Gates : gate'[h].users = {c \in Calls : held'[c] = h}
  OBVIOUS
<1>4. \A h \in Gates : gate'[h].readers = {r \in Readers : held'[r] = h /\ pc'[r] \in Reading}
  <2>1. \A r \in Readers : pc'[r] \in Reading => held'[r] = g
    BY DEF Reading, Inside, Calls
  <2>2. \A h \in Gates \ {g} : \A r \in Readers : held'[r] = h => pc'[r] \notin Reading
    BY <2>1
  <2> QED
    BY <2>1, <2>2
<1> QED
  BY <1>1, <1>2, <1>3, <1>4 DEF GatesFit

\* The gate knows who is inside, whatever happens.
LEMMA GatesStep == ASSUME GateInv, [Next]_gateVars PROVE GatesFit'
<1> USE GateAssumption
<1> TypeOK /\ GatesFit /\ StagesFit
  BY DEF GateInv
<1> TypeOK'
  BY TypeStep
<1> pc \in [Calls -> Stages] /\ held \in [Calls -> Gates \cup {NoGate}]
  BY DEF TypeOK
<1>1. ASSUME NEW r \in Readers, StartRead(r)
      PROVE  GatesFit'
  <2>1. PICK g \in Gates : /\ g = current \/ current = NoGate
                           /\ current' = g /\ held' = [held EXCEPT ![r] = g]
                           /\ gate'[g].users = gate[g].users \cup {r}
                           /\ ReadEnters(r, g)
    BY <1>1, StartReadEffect
  <2>2. r \in Calls /\ pc[r] = "idle" /\ Readers \subseteq Calls
    BY <1>1 DEF StartRead, Calls
  <2>3. PICK s \in {"held", "reading"} :
          /\ pc' = [pc EXCEPT ![r] = s]
          /\ gate'[g].readers = gate[g].readers \cup (IF s = "reading" THEN {r} ELSE {})
    BY <2>1 DEF ReadEnters
  <2>4. \A c \in Calls : pc'[c] = IF c = r THEN s ELSE pc[c]
    BY <2>2, <2>3
  <2>5. s \in Inside /\ (s \in Reading <=> s = "reading")
    BY DEF Inside, Reading
  <2>6. \A c \in Calls : held'[c] = IF pc'[c] \in Inside THEN g ELSE NoGate
    BY <2>1, <2>2, <2>4, <2>5, OneGate
  <2>7. gate'[g].users = {c \in Calls : pc'[c] \in Inside}
    BY <2>1, <2>2, <2>4, <2>5, OneGate
  <2>8. gate'[g].readers = {q \in Readers : pc'[q] \in Reading}
    <3>1. gate[g].readers = {q \in Readers : pc[q] \in Reading} /\ pc[r] \notin Reading
      BY <2>1, <2>2, OneGate DEF Reading
    <3> QED
      BY <2>2, <2>3, <2>4, <2>5, <3>1
  <2>9. \A h \in Gates \ {g} : gate'[h].users = {} /\ gate'[h].readers = {}
    BY <2>1, OneGate DEF ReadEnters
  <2> QED
    BY <2>1, <2>6, <2>7, <2>8, <2>9, OneGateAfter
<1>2. ASSUME NEW r \in Readers, ResumeRead(r)
      PROVE  GatesFit'
  <2>1. PICK g \in Gates : /\ g = current /\ current' = g /\ held' = held /\ held[r] = g
                           /\ gate'[g].users = gate[g].users
                           /\ ReadEnters(r, g)
    BY <1>2, ResumeReadEffect
  <2>2. r \in Calls /\ pc[r] = "held" /\ Readers \subseteq Calls
    BY <1>2 DEF ResumeRead, Calls
  <2>3. PICK s \in {"held", "reading"} :
          /\ pc' = [pc EXCEPT ![r] = s]
          /\ gate'[g].readers = gate[g].readers \cup (IF s = "reading" THEN {r} ELSE {})
    BY <2>1 DEF ReadEnters
  <2>4. \A c \in Calls : pc'[c] = IF c = r THEN s ELSE pc[c]
    BY <2>2, <2>3
  <2>5. s \in Inside /\ pc[r] \in Inside /\ (s \in Reading <=> s = "reading")
    BY <2>2 DEF Inside, Reading
  <2>6. \A c \in Calls : held'[c] = IF pc'[c] \in Inside THEN g ELSE NoGate
    BY <2>1, <2>2, <2>4, <2>5, OneGate
  <2>7. gate'[g].users = {c \in Calls : pc'[c] \in Inside}
    BY <2>1, <2>2, <2>4, <2>5, OneGate
  <2>8. gate'[g].readers = {q \in Readers : pc'[q] \in Reading}
    <3>1. gate[g].readers = {q \in Readers : pc[q] \in Reading} /\ pc[r] \notin Reading
      BY <2>1, <2>2, OneGate DEF Reading
    <3> QED
      BY <2>2, <2>3, <2>4, <2>5, <3>1
  <2>9. \A h \in Gates \ {g} : gate'[h].users = {} /\ gate'[h].readers = {}
    BY <2>1, OneGate DEF ReadEnters
  <2> QED
    BY <2>1, <2>6, <2>7, <2>8, <2>9, OneGateAfter
<1>3. ASSUME NEW c \in Calls, NEW s \in Stages, pc' = [pc EXCEPT ![c] = s],
             UNCHANGED <<current, gate, held>>,
             pc[c] \in Inside <=> s \in Inside, c \in Readers => (pc[c] \in Reading <=> s \in Reading)
      PROVE  GatesFit'
  <2>1. \A d \in Calls : pc'[d] = IF d = c THEN s ELSE pc[d]
    BY <1>3
  <2>2. \A d \in Calls : pc'[d] \in Inside <=> pc[d] \in Inside
    BY <1>3, <2>1
  <2>3. \A r \in Readers : pc'[r] \in Reading <=> pc[r] \in Reading
    BY <1>3, <2>1 DEF Calls
  <2> QED
    BY <1>3, <2>2, <2>3 DEF GatesFit
<1>4. ASSUME NEW r \in Readers, OpenFile(r)
      PROVE  GatesFit'
  BY <1>3, <1>4 DEF OpenFile, Calls, Inside, Reading, Stages
<1>5. ASSUME NEW c \in Creators, Access(c)
      PROVE  GatesFit'
  BY <1>3, <1>5 DEF Access, Calls, Replacers, Inside, Stages
<1>6. ASSUME NEW w \in Replacers, Rename(w)
      PROVE  GatesFit'
  <2>1. PICK s \in {"renaming", "thrown", "renamed"} : pc' = [pc EXCEPT ![w] = s]
    BY <1>6 DEF Rename
  <2>2. /\ w \in Calls /\ s \in Stages /\ pc[w] \in Inside /\ s \in Inside
        /\ w \notin Readers
    BY <1>6 DEF Rename, Calls, Inside, Stages
  <2> QED
    BY <1>3, <1>6, <2>1, <2>2 DEF Rename
<1>7. ASSUME NEW r \in Readers, EndRead(r)
      PROVE  GatesFit'
  <2>1. PICK g \in Gates : /\ g = current /\ held[r] = g
                           /\ Leaves(r, g)
                           /\ gate'[g].readers = gate[g].readers \ {r}
    BY <1>7, EndReadEffect
  <2>2. r \in Calls /\ pc' = [pc EXCEPT ![r] = "done"] /\ Readers \subseteq Calls
    BY <1>7 DEF EndRead, Calls
  <2>3. \A c \in Calls : pc'[c] = IF c = r THEN "done" ELSE pc[c]
    BY <2>2
  <2>4. "done" \notin Inside /\ "done" \notin Reading
    BY DEF Inside, Reading
  <2>5. \A c \in Calls : held'[c] = IF pc'[c] \in Inside THEN g ELSE NoGate
    BY <2>1, <2>2, <2>3, <2>4, OneGate DEF Leaves
  <2>6. gate'[g].users = {c \in Calls : pc'[c] \in Inside}
    BY <2>1, <2>2, <2>3, <2>4, OneGate DEF Leaves
  <2>7. gate'[g].readers = {q \in Readers : pc'[q] \in Reading}
    <3>1. gate[g].readers = {q \in Readers : pc[q] \in Reading}
      BY <2>1, OneGate
    <3> QED
      BY <2>1, <2>2, <2>3, <2>4, <3>1
  <2>8. \A h \in Gates \ {g} : gate'[h].users = {} /\ gate'[h].readers = {}
    BY <2>1, OneGate DEF Leaves
  <2>9. current' = g \/ (current' = NoGate /\ gate'[g].users = {})
    BY <2>1 DEF Leaves
  <2> QED
    BY <2>5, <2>6, <2>7, <2>8, <2>9, OneGateAfter
<1>8. ASSUME NEW w \in Replacers, StartReplace(w)
      PROVE  GatesFit'
  <2>1. PICK g \in Gates : /\ g = current \/ current = NoGate
                           /\ current' = g /\ held' = [held EXCEPT ![w] = g]
                           /\ gate'[g].users = gate[g].users \cup {w}
                           /\ gate'[g].readers = gate[g].readers
                           /\ \A h \in Gates \ {g} : gate'[h] = gate[h]
                           /\ \E s \in {"queued", "draining", "renaming"} :
                                pc' = [pc EXCEPT ![w] = s]
    BY <1>8, StartReplaceEffect DEF Proceeds
  <2>2. PICK s \in {"queued", "draining", "renaming"} : pc' = [pc EXCEPT ![w] = s]
    BY <2>1
  <2>3. w \in Calls /\ w \notin Readers /\ Readers \subseteq Calls
    BY DEF Calls
  <2>4. \A c \in Calls : pc'[c] = IF c = w THEN s ELSE pc[c]
    BY <2>2, <2>3
  <2>5. s \in Inside
    BY DEF Inside
  <2>6. \A c \in Calls : held'[c] = IF pc'[c] \in Inside THEN g ELSE NoGate
    BY <2>1, <2>3, <2>4, <2>5, OneGate
  <2>7. gate'[g].users = {c \in Calls : pc'[c] \in Inside}
    BY <2>1, <2>3, <2>4, <2>5, OneGate
  <2>8. gate'[g].readers = {q \in Readers : pc'[q] \in Reading}
    BY <2>1, <2>3, <2>4, OneGate
  <2>9. \A h \in Gates \ {g} : gate'[h].users = {} /\ gate'[h].readers = {}
    BY <2>1, OneGate
  <2> QED
    BY <2>1, <2>6, <2>7, <2>8, <2>9, OneGateAfter
<1>9. ASSUME NEW w \in Replacers, ResumeReplace(w)
      PROVE  GatesFit'
  <2>1. PICK g \in Gates : /\ g = current /\ current' = g /\ held' = held /\ held[w] = g
                           /\ gate'[g].users = gate[g].users
                           /\ gate'[g].readers = gate[g].readers
                           /\ \A h \in Gates \ {g} : gate'[h] = gate[h]
                           /\ \E s \in {"draining", "renaming"} : pc' = [pc EXCEPT ![w] = s]
    BY <1>9, ResumeReplaceEffect DEF Proceeds
  <2>2. PICK s \in {"draining", "renaming"} : pc' = [pc EXCEPT ![w] = s]
    BY <2>1
  <2>3. w \in Calls /\ w \notin Readers /\ Readers \subseteq Calls
    BY DEF Calls
  <2>4. \A c \in Calls : pc'[c] = IF c = w THEN s ELSE pc[c]
    BY <2>2, <2>3
  <2>5. s \in Inside /\ pc[w] \in Inside
    BY <1>9 DEF Inside, ResumeReplace
  <2>6. \A c \in Calls : held'[c] = IF pc'[c] \in Inside THEN g ELSE NoGate
    BY <2>1, <2>3, <2>4, <2>5, OneGate
  <2>7. gate'[g].users = {c \in Calls : pc'[c] \in Inside}
    BY <2>1, <2>3, <2>4, <2>5, OneGate
  <2>8. gate'[g].readers = {q \in Readers : pc'[q] \in Reading}
    BY <2>1, <2>3, <2>4, OneGate
  <2>9. \A h \in Gates \ {g} : gate'[h].users = {} /\ gate'[h].readers = {}
    BY <2>1, OneGate
  <2> QED
    BY <2>1, <2>6, <2>7, <2>8, <2>9, OneGateAfter
<1>10. ASSUME NEW w \in Replacers, EndReplace(w)
       PROVE  GatesFit'
  <2>1. PICK g \in Gates : /\ g = current /\ held[w] = g
                           /\ Leaves(w, g)
                           /\ gate'[g].readers = gate[g].readers
    BY <1>10, EndReplaceEffect
  <2>2. PICK s \in {"done", "failed"} : pc' = [pc EXCEPT ![w] = s]
    BY <1>10 DEF EndReplace
  <2>3. w \in Calls /\ w \notin Readers /\ Readers \subseteq Calls
    BY DEF Calls
  <2>4. \A c \in Calls : pc'[c] = IF c = w THEN s ELSE pc[c]
    BY <2>2, <2>3
  <2>5. s \notin Inside
    BY DEF Inside
  <2>6. \A c \in Calls : held'[c] = IF pc'[c] \in Inside THEN g ELSE NoGate
    BY <2>1, <2>3, <2>4, <2>5, OneGate DEF Leaves
  <2>7. gate'[g].users = {c \in Calls : pc'[c] \in Inside}
    BY <2>1, <2>3, <2>4, <2>5, OneGate DEF Leaves
  <2>8. gate'[g].readers = {q \in Readers : pc'[q] \in Reading}
    BY <2>1, <2>3, <2>4, OneGate
  <2>9. \A h \in Gates \ {g} : gate'[h].users = {} /\ gate'[h].readers = {}
    BY <2>1, OneGate DEF Leaves
  <2>11. current' = g \/ (current' = NoGate /\ gate'[g].users = {})
    BY <2>1 DEF Leaves
  <2> QED
    BY <2>6, <2>7, <2>8, <2>9, <2>11, OneGateAfter
<1>11. ASSUME Foreign \/ UNCHANGED gateVars
       PROVE  GatesFit'
  BY <1>11 DEF Foreign, gateVars, GatesFit
<1> QED
  BY <1>1, <1>2, <1>4, <1>5, <1>6, <1>7, <1>8, <1>9, <1>10, <1>11 DEF Next, Proceed

\* The turns stay as they are while nothing is asked and nothing ends.
LEMMA TurnsKept ==
  ASSUME TypeOK, TurnsFit, UNCHANGED <<entered, released>>,
         \A w \in Replacers : awaits'[w] = awaits[w],
         \A w \in Replacers : \/ pc'[w] = pc[w]
                              \/ pc[w] \in Outside /\ pc'[w] \in Outside
                              \/ pc[w] \in Turn /\ pc'[w] \in Turn
  PROVE  TurnsFit'
<1>1. /\ Outside \cap (Turn \cup Ended \cup {"queued"}) = {}
      /\ (Turn \cup {"queued"}) \cap Ended = {} /\ "queued" \notin Turn
  BY DEF Outside, Turn, Ended
<1>2. \A w \in Replacers : /\ pc'[w] \in Outside <=> pc[w] \in Outside
                           /\ pc'[w] \in Ended <=> pc[w] \in Ended
                           /\ pc'[w] \in Turn <=> pc[w] \in Turn
                           /\ pc'[w] = "queued" <=> pc[w] = "queued"
  BY <1>1
<1>3. \A i \in DOMAIN entered : entered[i] \in Replacers
  BY DEF TypeOK
<1> QED
  BY <1>2, <1>3 DEF TurnsFit

\* Replacements take their turns in the order they asked.
LEMMA TurnsStep == ASSUME GateInv, [Next]_gateVars PROVE TurnsFit'
<1> USE GateAssumption
<1> TypeOK /\ GatesFit /\ StagesFit /\ TurnsFit
  BY DEF GateInv
<1> /\ pc \in [Calls -> Stages] /\ entered \in Seq(Replacers) /\ Replacers \subseteq Calls
    /\ awaits \in [Calls -> Replacers \cup {NoCall}] /\ released \subseteq Replacers
  BY DEF TypeOK, Calls
<1>1. ASSUME NEW r \in Readers, StartRead(r) \/ ResumeRead(r) \/ OpenFile(r) \/ EndRead(r)
      PROVE  TurnsFit'
  BY <1>1, ReadsKeepReplacements, TurnsKept
<1>2. ASSUME NEW c \in Creators, Access(c)
      PROVE  TurnsFit'
  <2>1. \A w \in Replacers : pc'[w] = pc[w] \/ (pc[w] \in Outside /\ pc'[w] \in Outside)
    BY <1>2 DEF Access, Outside
  <2> QED
    BY <1>2, <2>1, TurnsKept DEF Access
<1>3. ASSUME NEW w \in Replacers, Rename(w)
      PROVE  TurnsFit'
  <2>1. \A v \in Replacers : pc'[v] = pc[v] \/ (pc[v] \in Turn /\ pc'[v] \in Turn)
    BY <1>3 DEF Rename, Turn
  <2> QED
    BY <1>3, <2>1, TurnsKept DEF Rename
<1>4. ASSUME Foreign \/ UNCHANGED gateVars
      PROVE  TurnsFit'
  BY <1>4, TurnsKept DEF Foreign, gateVars
<1>5. ASSUME NEW w \in Replacers, ResumeReplace(w)
      PROVE  TurnsFit'
  <2>1. PICK s \in {"draining", "renaming"} : pc' = [pc EXCEPT ![w] = s]
    BY <1>5, ResumeReplaceEffect DEF Proceeds
  <2>2. s \in Turn /\ UNCHANGED <<entered, released, awaits>>
    BY <1>5 DEF Turn, ResumeReplace
  <2>3. \A v \in Replacers : pc'[v] = IF v = w THEN s ELSE pc[v]
    BY <2>1
  <2>4. CASE pc[w] = "draining"
    BY <2>2, <2>3, <2>4, TurnsKept DEF Turn
  <2>5. CASE pc[w] = "queued" /\ awaits[w] \in released
    <3>1. PICK j \in DOMAIN entered : entered[j] = w
      BY <2>5 DEF TurnsFit, Outside
    <3>2. j > 1 /\ entered[j - 1] \in released
      BY <2>5, <3>1 DEF TurnsFit
    <3>3. pc[entered[j - 1]] \in Ended
      BY <3>1, <3>2 DEF TurnsFit
    <3>4. \A i \in DOMAIN entered : i < j => entered[i] \in released
      BY <3>1, <3>2, <3>3 DEF TurnsFit
    <3>5. \A v \in Replacers : /\ pc'[v] \in Outside <=> pc[v] \in Outside
                               /\ pc'[v] \in Ended <=> pc[v] \in Ended
                               /\ v # w => pc'[v] = pc[v]
      BY <2>2, <2>3, <2>5 DEF Outside, Ended, Turn
    <3>6. \A i \in DOMAIN entered : entered[i] \in Replacers /\ (entered[i] = w => i = j)
      BY <3>1 DEF TurnsFit
    <3>7. \A i, k \in DOMAIN entered :
            i < k /\ pc'[entered[k]] \in Turn \cup Ended => entered[i] \in released
      BY <3>4, <3>5, <3>6 DEF TurnsFit
    <3>8. \A k \in DOMAIN entered :
            pc'[entered[k]] = "queued" => k > 1 /\ awaits[entered[k]] = entered[k - 1]
      BY <2>2, <2>3, <3>6 DEF TurnsFit, Turn
    <3> QED
      BY <2>2, <3>5, <3>7, <3>8 DEF TurnsFit
  <2> QED
    BY <1>5, <2>4, <2>5 DEF ResumeReplace
<1>6. ASSUME NEW w \in Replacers, EndReplace(w)
      PROVE  TurnsFit'
  <2>1. PICK s \in {"done", "failed"} : pc' = [pc EXCEPT ![w] = s]
    BY <1>6 DEF EndReplace
  <2>2. /\ s \in Ended /\ pc[w] \in Turn /\ UNCHANGED <<entered, awaits>>
        /\ released' = released \cup {w}
    BY <1>6 DEF Ended, Turn, EndReplace
  <2>3. \A v \in Replacers : pc'[v] = IF v = w THEN s ELSE pc[v]
    BY <2>1
  <2>4. \A v \in Replacers : /\ pc'[v] \in Outside <=> pc[v] \in Outside
                             /\ pc'[v] \in Turn \cup Ended <=> pc[v] \in Turn \cup Ended
                             /\ pc'[v] = "queued" <=> pc[v] = "queued"
                             /\ v \in released' <=> pc'[v] \in Ended
    BY <2>2, <2>3 DEF TurnsFit, Outside, Ended, Turn
  <2>5. \A i \in DOMAIN entered : entered[i] \in Replacers
    OBVIOUS
  <2> QED
    BY <2>2, <2>4, <2>5 DEF TurnsFit
<1>7. ASSUME NEW w \in Replacers, StartReplace(w)
      PROVE  TurnsFit'
  <2>1. PICK g \in Gates :
          /\ g = current \/ current = NoGate
          /\ \/ /\ gate[g].writer # NoCall
                /\ pc' = [pc EXCEPT ![w] = "queued"]
                /\ awaits' = [awaits EXCEPT ![w] = gate[g].writer]
             \/ /\ gate[g].writer = NoCall /\ awaits' = awaits
                /\ \E s \in {"draining", "renaming"} : pc' = [pc EXCEPT ![w] = s]
    BY <1>7, StartReplaceEffect DEF Proceeds
  <2>2. PICK s \in {"queued", "draining", "renaming"} : pc' = [pc EXCEPT ![w] = s]
    BY <2>1
  <2>3. /\ pc[w] \in Outside /\ released' = released /\ s \notin Outside /\ s \notin Ended
        /\ entered' = Append(entered, w)
    BY <1>7 DEF StartReplace, Outside, Ended
  <2>4. \A v \in Replacers : pc'[v] = IF v = w THEN s ELSE pc[v]
    BY <2>2
  <2> DEFINE n == Len(entered)
  <2>5. /\ n \in Nat /\ DOMAIN entered = 1..n /\ DOMAIN entered' = 1..(n + 1)
        /\ entered'[n + 1] = w /\ \A i \in 1..n : entered'[i] = entered[i]
        /\ \A i \in 1..n : entered[i] \in Replacers
    BY <2>3
  <2>6. \A i \in 1..n : entered[i] # w
    BY <2>3, <2>5 DEF TurnsFit
  <2>7. \A i \in 1..n : pc'[entered[i]] = pc[entered[i]]
    BY <2>4, <2>5, <2>6
  <2>8. \A v \in Replacers : awaits'[v] = awaits[v] \/ v = w
    BY <2>1
  <2>9. \A v \in Replacers : v \in released' <=> pc'[v] \in Ended
    BY <2>3, <2>4 DEF TurnsFit, Outside, Ended
  <2>10. CASE s = "queued"
    <3>1. pc'[w] = "queued"
      BY <2>4, <2>10
    <3>2. gate[g].writer # NoCall /\ awaits'[w] = gate[g].writer
      BY <2>1, <3>1
    <3>3. n >= 1 /\ awaits'[w] = entered[n]
      BY <2>1, <2>5, <3>2, OneGate
    <3> HIDE DEF n
    <3>4. \A v \in Replacers : pc'[v] \in Outside <=> \A i \in 1..(n + 1) : entered'[i] # v
      BY <2>3, <2>4, <2>5 DEF TurnsFit
    <3>5. \A i, j \in 1..(n + 1) : entered'[i] = entered'[j] => i = j
      BY <2>5, <2>6, SMTT(30) DEF TurnsFit
    <3>6. \A i, j \in 1..(n + 1) :
            i < j /\ pc'[entered'[j]] \in Turn \cup Ended => entered'[i] \in released'
      BY <2>3, <2>5, <2>7, <3>1, SMTT(30) DEF TurnsFit, Turn, Ended
    <3>7. \A j \in 1..(n + 1) :
            pc'[entered'[j]] = "queued" => j > 1 /\ awaits'[entered'[j]] = entered'[j - 1]
      BY <2>5, <2>6, <2>7, <2>8, <3>3 DEF TurnsFit
    <3> QED
      BY <2>5, <2>9, <3>4, <3>5, <3>6, <3>7 DEF TurnsFit
  <2>11. CASE s \in Turn
    <3>1. pc'[w] \in Turn
      BY <2>4, <2>11
    <3>2. gate[g].writer = NoCall
      BY <2>1, <3>1 DEF Turn
    <3>3. \A i \in 1..n : entered[i] \in released
      BY <2>1, <2>5, <3>2, OneGate DEF AllEnded
    <3> HIDE DEF n
    <3>4. \A v \in Replacers : pc'[v] \in Outside <=> \A i \in 1..(n + 1) : entered'[i] # v
      BY <2>3, <2>4, <2>5 DEF TurnsFit
    <3>5. \A i, j \in 1..(n + 1) : entered'[i] = entered'[j] => i = j
      BY <2>5, <2>6, SMTT(30) DEF TurnsFit
    <3>6. \A i, j \in 1..(n + 1) :
            i < j /\ pc'[entered'[j]] \in Turn \cup Ended => entered'[i] \in released'
      BY <2>3, <2>5, <3>3 DEF TurnsFit
    <3>7. pc'[w] # "queued"
      BY <3>1 DEF Turn
    <3>8. ASSUME NEW j \in 1..(n + 1), pc'[entered'[j]] = "queued"
          PROVE  j > 1 /\ awaits'[entered'[j]] = entered'[j - 1]
      <4>1. j \in 1..n /\ j # n + 1
        BY <2>5, <3>8, <3>7
      <4>2. /\ entered'[j] = entered[j] /\ pc[entered[j]] = "queued"
            /\ entered[j] \in Replacers /\ entered[j] # w
        BY <2>5, <2>6, <2>7, <3>8, <4>1
      <4>3. j > 1 /\ awaits[entered[j]] = entered[j - 1]
        BY <2>5, <4>1, <4>2 DEF TurnsFit
      <4>4. j - 1 \in 1..n
        BY <2>5, <4>1, <4>3
      <4> QED
        BY <2>5, <2>8, <4>2, <4>3, <4>4
    <3> QED
      BY <2>5, <2>9, <3>4, <3>5, <3>6, <3>8 DEF TurnsFit
  <2> QED
    BY <2>10, <2>11 DEF Turn
<1> QED
  BY <1>1, <1>2, <1>3, <1>4, <1>5, <1>6, <1>7 DEF Next, Proceed

\* A replacement that entered and is not over is inside.
LEMMA LastIsInside ==
  ASSUME GateInv, NEW g \in Gates, g = current \/ current = NoGate, gate[g].writer # NoCall
  PROVE  /\ gate[g].writer \in Replacers /\ gate[g].writer \in Calls
         /\ gate[g].writer \notin released
         /\ pc[gate[g].writer] \in Inside
<1>1. /\ entered # <<>> /\ entered[Len(entered)] \notin released
      /\ gate[g].writer = entered[Len(entered)]
  BY OneGate
<1>2. Len(entered) \in DOMAIN entered
  BY <1>1 DEF GateInv, TypeOK
<1> QED
  BY <1>1, <1>2, EnteredIsInsideOrEnded DEF GateInv

LEMMA WriterAfter ==
  ASSUME NEW g \in Gates, current' \in {g, NoGate},
         \A h \in Gates \ {g} : gate'[h].writer = NoCall,
         \/ gate'[g].writer = NoCall /\ AllEnded'
         \/ /\ current' = g /\ entered' # <<>> /\ entered'[Len(entered')] \notin released'
            /\ gate'[g].writer = entered'[Len(entered')]
  PROVE  WriterIsLast'
BY GateAssumption DEF WriterIsLast

\* The gate's writer is the replacement that asked last.
LEMMA WriterStep == ASSUME GateInv, [Next]_gateVars PROVE WriterIsLast'
<1> USE GateAssumption
<1> TypeOK /\ GatesFit /\ StagesFit /\ TurnsFit
  BY DEF GateInv
<1> /\ pc \in [Calls -> Stages] /\ entered \in Seq(Replacers) /\ Replacers \subseteq Calls
    /\ released \subseteq Replacers
  BY DEF TypeOK, Calls
<1>1. ASSUME NEW r \in Readers, StartRead(r) \/ ResumeRead(r)
      PROVE  WriterIsLast'
  <2>1. PICK g \in Gates : /\ g = current \/ current = NoGate
                           /\ current' = g
                           /\ ReadEnters(r, g)
    BY <1>1, StartReadEffect, ResumeReadEffect
  <2>2. /\ gate'[g].writer = gate[g].writer
        /\ \A h \in Gates \ {g} : gate'[h].writer = NoCall
    BY <2>1, OneGate DEF ReadEnters
  <2>3. UNCHANGED <<entered, released>>
    BY <1>1, ReadsKeepReplacements
  <2>4. AllEnded' <=> AllEnded
    BY <2>3 DEF AllEnded
  <2> QED
    BY <2>1, <2>2, <2>3, <2>4, OneGate, WriterAfter
<1>2. ASSUME NEW r \in Readers, EndRead(r)
      PROVE  WriterIsLast'
  <2>1. PICK g \in Gates : /\ g = current /\ Leaves(r, g)
                           /\ gate'[g].writer = gate[g].writer
    BY <1>2, EndReadEffect
  <2>2. UNCHANGED <<entered, released>>
    BY <1>2, ReadsKeepReplacements
  <2>3. AllEnded' <=> AllEnded
    BY <2>2 DEF AllEnded
  <2>4. gate[g].writer # NoCall => current' = g
    <3>1. SUFFICES ASSUME gate[g].writer # NoCall
                   PROVE  gate'[g].users # {}
      BY <2>1 DEF Leaves
    <3>2. gate[g].writer \in gate[g].users /\ gate[g].writer # r
      BY <2>1, <3>1, LastIsInside, OneGate
    <3> QED
      BY <2>1, <3>2 DEF Leaves
  <2>5. \A h \in Gates \ {g} : gate'[h].writer = NoCall
    BY <2>1, OneGate DEF Leaves
  <2>6. current' \in {g, NoGate}
    BY <2>1 DEF Leaves
  <2> QED
    BY <2>1, <2>2, <2>3, <2>4, <2>5, <2>6, OneGate, WriterAfter
<1>3. ASSUME UNCHANGED <<current, gate, entered, released>>
      PROVE  WriterIsLast'
  BY <1>3 DEF GateInv, WriterIsLast, AllEnded
<1>4. ASSUME NEW w \in Replacers, StartReplace(w)
      PROVE  WriterIsLast'
  <2>1. PICK g \in Gates : /\ g = current \/ current = NoGate
                           /\ current' = g /\ gate'[g].writer = w
                           /\ \A h \in Gates \ {g} : gate'[h] = gate[h]
    BY <1>4, StartReplaceEffect DEF Proceeds
  <2>2. /\ entered' = Append(entered, w) /\ released' = released
        /\ pc[w] \in Outside
    BY <1>4 DEF StartReplace, Outside
  <2>3. entered' # <<>> /\ entered'[Len(entered')] = w /\ w \notin released
    BY <2>2 DEF TurnsFit, Outside, Ended
  <2>4. \A h \in Gates \ {g} : gate'[h].writer = NoCall
    BY <2>1, OneGate
  <2> QED
    BY <2>1, <2>2, <2>3, <2>4, WriterAfter
<1>5. ASSUME NEW w \in Replacers, ResumeReplace(w)
      PROVE  WriterIsLast'
  <2>1. PICK g \in Gates : /\ g = current /\ current' = g
                           /\ gate'[g].writer = gate[g].writer
                           /\ \A h \in Gates \ {g} : gate'[h] = gate[h]
    BY <1>5, ResumeReplaceEffect DEF Proceeds
  <2>2. UNCHANGED <<entered, released>>
    BY <1>5 DEF ResumeReplace
  <2>3. AllEnded' <=> AllEnded
    BY <2>2 DEF AllEnded
  <2>4. \A h \in Gates \ {g} : gate'[h].writer = NoCall
    BY <2>1, OneGate
  <2> QED
    BY <2>1, <2>2, <2>3, <2>4, OneGate, WriterAfter
<1>6. ASSUME NEW w \in Replacers, EndReplace(w)
      PROVE  WriterIsLast'
  <2>1. PICK g \in Gates :
          /\ g = current /\ Leaves(w, g)
          /\ gate'[g].writer = IF gate[g].writer = w THEN NoCall ELSE gate[g].writer
    BY <1>6, EndReplaceEffect
  <2>2. entered' = entered /\ released' = released \cup {w} /\ pc[w] \in Turn
    BY <1>6 DEF EndReplace, Turn
  <2>3. \A h \in Gates \ {g} : gate'[h].writer = NoCall
    BY <2>1, OneGate DEF Leaves
  <2>4. current' \in {g, NoGate}
    BY <2>1 DEF Leaves
  <2>5. CASE gate[g].writer = NoCall
    <3>1. AllEnded'
      BY <2>1, <2>2, <2>5, OneGate DEF AllEnded
    <3> QED
      BY <2>1, <2>3, <2>4, <2>5, <3>1, WriterAfter
  <2>6. CASE gate[g].writer = w
    <3>1. entered # <<>> /\ entered[Len(entered)] = w
      BY <2>1, <2>6, OneGate
    <3>2. AllEnded'
      BY <2>2, <3>1 DEF AllEnded, TurnsFit
    <3> QED
      BY <2>1, <2>3, <2>4, <2>6, <3>2, WriterAfter
  <2>7. CASE gate[g].writer \notin {NoCall, w}
    <3>1. gate[g].writer \in gate[g].users /\ gate[g].writer \notin released'
      BY <2>1, <2>2, <2>7, LastIsInside, OneGate
    <3>2. current' = g /\ gate'[g].writer = gate[g].writer
      BY <2>1, <2>7, <3>1 DEF Leaves
    <3>3. /\ entered # <<>> /\ gate[g].writer = entered[Len(entered)]
      BY <2>1, <2>7, OneGate
    <3> QED
      BY <2>2, <2>3, <3>1, <3>2, <3>3, WriterAfter
  <2> QED
    BY <2>5, <2>6, <2>7
<1>7. ASSUME NEW c \in Calls, OpenFile(c) \/ Access(c) \/ Rename(c)
      PROVE  WriterIsLast'
  BY <1>3, <1>7 DEF OpenFile, Access, Rename
<1>8. ASSUME Foreign \/ UNCHANGED gateVars
      PROVE  WriterIsLast'
  BY <1>3, <1>8 DEF Foreign, gateVars
<1> QED
  BY <1>1, <1>2, <1>4, <1>5, <1>6, <1>7, <1>8 DEF Next, Proceed, Calls, Replacers

\* A replacement past its wait meets no read.
LEMMA ReadsStep == ASSUME GateInv, [Next]_gateVars PROVE ReadsAreOver'
<1> USE GateAssumption
<1> TypeOK /\ GatesFit /\ StagesFit /\ TurnsFit /\ ReadsAreOver
  BY DEF GateInv
<1> /\ pc \in [Calls -> Stages] /\ Replacers \subseteq Calls /\ Readers \subseteq Calls
  BY DEF TypeOK, Calls
<1>1. ASSUME NEW r \in Readers, StartRead(r) \/ ResumeRead(r)
      PROVE  ReadsAreOver'
  <2>1. PICK g \in Gates : (g = current \/ current = NoGate) /\ ReadEnters(r, g)
    BY <1>1, StartReadEffect, ResumeReadEffect
  <2>2. /\ \A w \in Replacers : pc'[w] = pc[w]
        /\ \A q \in Readers \ {r} : pc'[q] = pc[q]
    BY <1>1, ReadsKeepReplacements
  <2>3. CASE gate[g].writer # NoCall
    <3>1. pc'[r] = "held"
      BY <2>1, <2>3 DEF ReadEnters
    <3> QED
      BY <2>2, <3>1 DEF ReadsAreOver, Reading
  <2>4. CASE gate[g].writer = NoCall
    <3>1. AllEnded
      BY <2>1, <2>4, OneGate
    <3>2. \A w \in Replacers : pc[w] \notin Turn
      BY <3>1 DEF AllEnded, TurnsFit, Turn, Ended, Outside
    <3> QED
      BY <2>2, <3>2 DEF ReadsAreOver, Turn
  <2> QED
    BY <2>3, <2>4
<1>2. ASSUME NEW r \in Readers, OpenFile(r) \/ EndRead(r)
      PROVE  ReadsAreOver'
  <2>1. /\ \A w \in Replacers : pc'[w] = pc[w]
        /\ \A q \in Readers \ {r} : pc'[q] = pc[q]
    BY <1>2, ReadsKeepReplacements
  <2>2. pc[r] \in Reading
    BY <1>2 DEF OpenFile, EndRead, Reading
  <2> QED
    BY <2>1, <2>2 DEF ReadsAreOver
<1>3. ASSUME NEW w \in Replacers, StartReplace(w) \/ ResumeReplace(w)
      PROVE  ReadsAreOver'
  <2>1. /\ \A r \in Readers : pc'[r] = pc[r]
        /\ \A v \in Replacers \ {w} : pc'[v] = pc[v]
    BY <1>3, ReplacementsKeepReads
  <2>2. PICK g \in Gates :
          /\ g = current \/ current = NoGate
          /\ \/ pc' = [pc EXCEPT ![w] = "queued"]
             \/ pc' = [pc EXCEPT ![w] = "draining"]
             \/ pc' = [pc EXCEPT ![w] = "renaming"] /\ gate[g].readers = {}
    BY <1>3, StartReplaceEffect, ResumeReplaceEffect DEF Proceeds
  <2>3. CASE pc' = [pc EXCEPT ![w] = "renaming"] /\ gate[g].readers = {}
    <3>1. \A r \in Readers : pc[r] \notin Reading
      BY <2>2, <2>3, OneGate
    <3> QED
      BY <2>1, <3>1 DEF ReadsAreOver
  <2>4. CASE pc'[w] \in {"queued", "draining"}
    BY <2>1, <2>4 DEF ReadsAreOver
  <2> QED
    BY <2>2, <2>3, <2>4
<1>4. ASSUME NEW w \in Replacers, Access(w) \/ Rename(w) \/ EndReplace(w)
      PROVE  ReadsAreOver'
  <2>1. /\ \A r \in Readers : pc'[r] = pc[r]
        /\ \A v \in Replacers \ {w} : pc'[v] = pc[v]
    BY <1>4, ReplacementsKeepReads
  <2>2. \/ pc[w] \in {"renaming", "renamed", "thrown"}
        \/ pc'[w] \notin {"renaming", "renamed", "thrown"}
    BY <1>4 DEF Access, Rename, EndReplace
  <2> QED
    BY <2>1, <2>2 DEF ReadsAreOver
<1>5. ASSUME Foreign \/ UNCHANGED gateVars
      PROVE  ReadsAreOver'
  BY <1>5 DEF Foreign, gateVars, ReadsAreOver
<1> QED
  BY <1>1, <1>2, <1>3, <1>4, <1>5 DEF Next, Proceed, Replacers

\* What has landed is what was renamed.
LEMMA LandedStep == ASSUME GateInv, [Next]_gateVars PROVE LandedFit'
<1> USE GateAssumption
<1> TypeOK /\ GatesFit /\ LandedFit
  BY DEF GateInv
<1> pc \in [Calls -> Stages] /\ landed \in Seq(Replacers) /\ Replacers \subseteq Calls
  BY DEF TypeOK, Calls
<1>1. ASSUME NEW r \in Readers, StartRead(r) \/ ResumeRead(r) \/ OpenFile(r) \/ EndRead(r)
      PROVE  LandedFit'
  BY <1>1, ReadsKeepReplacements DEF LandedFit
<1>2. ASSUME NEW w \in Replacers,
             Access(w) \/ StartReplace(w) \/ ResumeReplace(w) \/ EndReplace(w)
      PROVE  LandedFit'
  <2>1. \A v \in Replacers \ {w} : pc'[v] = pc[v]
    BY <1>2, ReplacementsKeepReads
  <2>2. landed' = landed
    BY <1>2 DEF Access, StartReplace, ResumeReplace, EndReplace
  <2>3. pc'[w] \in {"renamed", "done"} <=> pc[w] \in {"renamed", "done"}
    <3>1. CASE Access(w)
      BY <3>1 DEF Access
    <3>2. CASE StartReplace(w)
      <4>1. PICK s \in {"queued", "draining", "renaming"} : pc' = [pc EXCEPT ![w] = s]
        BY <3>2, StartReplaceEffect DEF Proceeds
      <4> QED
        BY <3>2, <4>1 DEF StartReplace
    <3>3. CASE ResumeReplace(w)
      <4>1. PICK s \in {"draining", "renaming"} : pc' = [pc EXCEPT ![w] = s]
        BY <3>3, ResumeReplaceEffect DEF Proceeds
      <4> QED
        BY <3>3, <4>1 DEF ResumeReplace
    <3>4. CASE EndReplace(w)
      BY <3>4 DEF EndReplace
    <3> QED
      BY <1>2, <3>1, <3>2, <3>3, <3>4
  <2> QED
    BY <2>1, <2>2, <2>3 DEF LandedFit
<1>3. ASSUME NEW w \in Replacers, Rename(w)
      PROVE  LandedFit'
  <2>1. \A v \in Replacers \ {w} : pc'[v] = pc[v]
    BY <1>3, ReplacementsKeepReads
  <2>2. CASE landed' = landed /\ pc'[w] \notin {"renamed", "done"}
    BY <1>3, <2>1, <2>2 DEF LandedFit, Rename
  <2>3. CASE landed' = Append(landed, w) /\ pc'[w] = "renamed"
    <3>1. \A v \in Replacers :
            (\E i \in DOMAIN landed' : landed'[i] = v) <=>
              v = w \/ \E i \in DOMAIN landed : landed[i] = v
      BY <2>3
    <3> QED
      BY <2>1, <2>3, <3>1 DEF LandedFit
  <2> QED
    BY <1>3, <2>2, <2>3 DEF Rename
<1>4. ASSUME Foreign \/ UNCHANGED gateVars
      PROVE  LandedFit'
  BY <1>4 DEF Foreign, gateVars, LandedFit
<1> QED
  BY <1>1, <1>2, <1>3, <1>4 DEF Next, Proceed, Replacers

\* A replacement that lands asked after everything that has landed.
LEMMA OrderStep == ASSUME GateInv, [Next]_gateVars PROVE LandInOrder'
<1> TypeOK /\ GatesFit /\ StagesFit /\ TurnsFit /\ LandedFit /\ LandInOrder
  BY DEF GateInv
<1> /\ pc \in [Calls -> Stages] /\ Replacers \subseteq Calls
    /\ entered \in Seq(Replacers) /\ landed \in Seq(Replacers)
  BY DEF TypeOK, Calls
<1>1. ASSUME landed' = landed, NEW w \in Replacers, entered' \in {entered, Append(entered, w)}
      PROVE  LandInOrder'
  <2>1. /\ DOMAIN entered \subseteq DOMAIN entered'
        /\ \A i \in DOMAIN entered : entered'[i] = entered[i]
    BY <1>1, SMTT(30)
  <2> QED
    BY <1>1, <2>1 DEF LandInOrder
<1>2. ASSUME UNCHANGED <<entered, landed>>
      PROVE  LandInOrder'
  BY <1>2 DEF LandInOrder
<1>3. ASSUME NEW w \in Replacers, pc[w] = "renaming", landed' = Append(landed, w),
             entered' = entered
      PROVE  LandInOrder'
  <2>1. PICK q \in DOMAIN entered : entered[q] = w
    BY <1>3 DEF TurnsFit, Outside
  <2>2. ASSUME NEW i \in DOMAIN landed
        PROVE  \E p \in DOMAIN entered : p < q /\ entered[p] = landed[i]
    <3>1. landed[i] \in Replacers /\ pc[landed[i]] \in {"renamed", "done"}
      BY DEF LandedFit
    <3>2. PICK p \in DOMAIN entered : entered[p] = landed[i]
      BY <3>1 DEF TurnsFit, Outside
    <3>3. p # q
      BY <1>3, <2>1, <3>1, <3>2
    <3>4. ~(q < p)
      BY <1>3, <2>1, <3>1, <3>2 DEF TurnsFit, Turn, Ended
    <3> QED
      BY <3>2, <3>3, <3>4
  <2>3. ASSUME NEW i \in DOMAIN landed', NEW j \in DOMAIN landed', i < j
        PROVE  \E p, k \in DOMAIN entered :
                 p < k /\ entered[p] = landed'[i] /\ entered[k] = landed'[j]
    <3>1. i \in DOMAIN landed /\ landed'[i] = landed[i]
      BY <1>3, <2>3
    <3>2. CASE j \in DOMAIN landed
      <4>1. landed'[j] = landed[j]
        BY <1>3, <3>2
      <4> QED
        BY <2>3, <3>1, <3>2, <4>1 DEF LandInOrder
    <3>3. CASE j = Len(landed) + 1
      <4>1. landed'[j] = w
        BY <1>3, <3>3
      <4> QED
        BY <2>1, <2>2, <3>1, <4>1
    <3> QED
      BY <1>3, <2>3, <3>2, <3>3
  <2> QED
    BY <1>3, <2>3 DEF LandInOrder
<1>4. ASSUME NEW w \in Replacers, StartReplace(w)
      PROVE  LandInOrder'
  BY <1>1, <1>4 DEF StartReplace
<1>5. ASSUME NEW w \in Replacers, Rename(w)
      PROVE  LandInOrder'
  BY <1>2, <1>3, <1>5 DEF Rename
<1>6. ASSUME NEW c \in Calls, \/ StartRead(c) \/ ResumeRead(c) \/ OpenFile(c) \/ EndRead(c)
                              \/ Access(c) \/ ResumeReplace(c) \/ EndReplace(c)
      PROVE  LandInOrder'
  BY <1>2, <1>6 DEF StartRead, ResumeRead, OpenFile, EndRead, Access, ResumeReplace, EndReplace
<1>7. ASSUME Foreign \/ UNCHANGED gateVars
      PROVE  LandInOrder'
  BY <1>2, <1>7 DEF Foreign, gateVars
<1> QED
  BY <1>4, <1>5, <1>6, <1>7 DEF Next, Proceed, Calls, Replacers

\* The invariant holds in every reachable state.
LEMMA GateInvariant == Spec => []GateInv
<1>1. Init => GateInv
  BY GateInit
<1>2. GateInv /\ [Next]_gateVars => GateInv'
  <2> SUFFICES ASSUME GateInv, [Next]_gateVars PROVE GateInv'
    OBVIOUS
  <2>1. TypeOK'
    BY TypeStep DEF GateInv
  <2> QED
    BY <2>1, StagesStep, GatesStep, TurnsStep, WriterStep, ReadsStep, LandedStep, OrderStep
       DEF GateInv
<1> QED
  BY <1>1, <1>2, PTL DEF Spec

-------------------------------------------------------------------------------
\* TypeOK: the variables keep their values' types; the attempts of a replacement never
\* exceed the limit (renameReplacing).
THEOREM GateTypes == Spec => []TypeOK
<1>1. GateInv => TypeOK
  BY DEF GateInv
<1> QED
  BY <1>1, GateInvariant, PTL

\* CallsShareOneGate: a gate is not dropped from the map while a call is inside it, so
\* two calls on one file never pass each other in different gates (gateFor, leave).
THEOREM CallsMeetInOneGate == Spec => []CallsShareOneGate
<1>1. GateInv => CallsShareOneGate
  BY GateAssumption DEF GateInv, GatesFit, CallsShareOneGate
<1> QED
  BY <1>1, GateInvariant, PTL

\* RenameIsAlone: no read of this process has the file open when a replacement renames
\* over it, and no other replacement is renaming (reading, replacing).
THEOREM RenameMeetsNobody == Spec => []RenameIsAlone
<1>1. GateInv => RenameIsAlone
  <2> SUFFICES ASSUME GateInv, NEW w \in Replacers, pc[w] = "renaming"
               PROVE  /\ \A r \in Readers : pc[r] \notin {"reading", "open"}
                      /\ \A v \in Replacers \ {w} : pc[v] # "renaming"
    BY DEF RenameIsAlone
  <2>1. \A r \in Readers : pc[r] \notin {"reading", "open"}
    BY DEF GateInv, ReadsAreOver, Reading
  <2>2. ASSUME NEW v \in Replacers \ {w}, pc[v] = "renaming"
        PROVE  FALSE
    <3>1. PICK i \in DOMAIN entered : entered[i] = w
      BY DEF GateInv, TurnsFit, Outside
    <3>2. PICK j \in DOMAIN entered : entered[j] = v
      BY <2>2 DEF GateInv, TurnsFit, Outside
    <3>3. i \in Nat /\ j \in Nat /\ i # j
      BY <2>2, <3>1, <3>2 DEF GateInv, TypeOK
    <3>4. v \notin released /\ w \notin released
      BY <2>2 DEF GateInv, TurnsFit, Ended
    <3> QED
      BY <2>2, <3>1, <3>2, <3>3, <3>4 DEF GateInv, TurnsFit, Turn
  <2> QED
    BY <2>1, <2>2
<1> QED
  BY <1>1, GateInvariant, PTL

\* LandInOrder: whatever fails and whatever overlaps, replacements happen in the order
\* they asked (replacing).
THEOREM ReplacementsLandInOrder == Spec => []LandInOrder
<1>1. GateInv => LandInOrder
  BY DEF GateInv
<1> QED
  BY <1>1, GateInvariant, PTL

\* ReportsAreTrue: a replacement reports success exactly when it happened (durableWrite).
THEOREM ReplacementsReportTruly == Spec => []ReportsAreTrue
<1>1. GateInv => ReportsAreTrue
  BY DEF GateInv, LandedFit, ReportsAreTrue
<1> QED
  BY <1>1, GateInvariant, PTL
===============================================================================
