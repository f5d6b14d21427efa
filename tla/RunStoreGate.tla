----------------------------- MODULE RunStoreGate -----------------------------
(***************************************************************************)
(* One run file of the harness store (server/harness/run-store.ts): reads  *)
(* of it overlap, a replacement waits for the reads in flight and makes    *)
(* new ones wait, because Windows refuses to rename over a file that is    *)
(* open.  The gate that arranges this is an object in a map, made by the   *)
(* first call that needs it and dropped by the last one that leaves it;    *)
(* every await of the code is a place where other calls run.               *)
(*                                                                         *)
(* A call is one read, write or create.  What a write puts in the file is  *)
(* known by the call that wrote it.                                        *)
(***************************************************************************)
EXTENDS Naturals, Sequences, FiniteSets

CONSTANTS
  Readers,      \* calls of read and has
  Writers,      \* calls of write
  Creators,     \* calls of create
  Gates,        \* gate objects
  NoGate, NoCall,
  Absent,       \* the file is not there
  MaxAttempts,  \* renames of one replacement before it gives up
  MaxForeign    \* times another program opens the file

Replacers == Writers \cup Creators
Calls == Readers \cup Replacers

ASSUME GateAssumption ==
  /\ Readers \cap Replacers = {} /\ Writers \cap Creators = {}
  /\ NoGate \notin Gates /\ NoCall \notin Calls /\ Absent \notin Calls
  /\ MaxAttempts \in Nat \ {0} /\ MaxForeign \in Nat

VARIABLES
  current,   \* the gate the map holds for the file
  gate,      \* the gate objects: who reads, who may replace next, who waits, who uses it
  pc,        \* where each call stands
  held,      \* the gate each call entered
  awaits,    \* the replacement whose end each call awaits
  released,  \* the replacements that have ended
  tries,     \* the renames each replacement has tried
  file,      \* whose text the file holds
  seen,      \* what each read found
  foreign,   \* another program has the file open
  opened,    \* how often it opened it
  entered,   \* history: the replacements in the order they asked
  landed     \* history: the replacements in the order they happened

gateVars == <<current, gate, pc, held, awaits, released, tries, file, seen, foreign, opened,
              entered, landed>>

Unused == [readers |-> {}, writer |-> NoCall, drained |-> {}, users |-> {}]

\* Another program's handle, or one of this store, forbids the rename.
Open == foreign \/ \E r \in Readers : pc[r] = "open"

-------------------------------------------------------------------------------
\* gateFor: the gate of the map, or a new one.
GateFor(c, g) ==
  /\ g = current \/ (current = NoGate /\ gate[g].users = {})
  /\ current' = g
  /\ held' = [held EXCEPT ![c] = g]

\* The gate once c has entered it.
Entered(c, g) == [gate[g] EXCEPT !.users = @ \cup {c}]

\* Mutant of Leave: the gate is dropped by whoever leaves it.
LeaveDropping(c, after) ==
  /\ gate' = [gate EXCEPT ![held[c]] = [after EXCEPT !.users = @ \ {c}]]
  /\ current' = IF current = held[c] THEN NoGate ELSE current
  /\ held' = [held EXCEPT ![c] = NoGate]

\* leave: the last call to leave a gate drops it from the map.
Leave(c, after) ==
  LET left == [after EXCEPT !.users = @ \ {c}]
  IN /\ gate' = [gate EXCEPT ![held[c]] = left]
     /\ current' = IF left.users = {} /\ current = held[c] THEN NoGate ELSE current
     /\ held' = [held EXCEPT ![c] = NoGate]

-------------------------------------------------------------------------------
\* Mutant of Admitted: a read does not look for a replacement.
AdmittedAnyway(r, g, now) ==
  /\ gate' = [gate EXCEPT ![g] = [now EXCEPT !.readers = @ \cup {r}]]
  /\ pc' = [pc EXCEPT ![r] = "reading"]
  /\ UNCHANGED awaits

\* reading: while there is a replacement the read awaits its end, and looks again.
Admitted(r, g, now) ==
  IF now.writer # NoCall
    THEN /\ gate' = [gate EXCEPT ![g] = now]
         /\ pc' = [pc EXCEPT ![r] = "held"]
         /\ awaits' = [awaits EXCEPT ![r] = now.writer]
    ELSE /\ gate' = [gate EXCEPT ![g] = [now EXCEPT !.readers = @ \cup {r}]]
         /\ pc' = [pc EXCEPT ![r] = "reading"]
         /\ UNCHANGED awaits

StartRead(r) ==
  /\ pc[r] = "idle"
  /\ \E g \in Gates : GateFor(r, g) /\ Admitted(r, g, Entered(r, g))
  /\ UNCHANGED <<released, tries, file, seen, foreign, opened, entered, landed>>

ResumeRead(r) ==
  /\ pc[r] = "held"
  /\ awaits[r] \in released
  /\ Admitted(r, held[r], gate[held[r]])
  /\ UNCHANGED <<current, held, released, tries, file, seen, foreign, opened, entered, landed>>

\* The file is opened: what is read is what it holds now.
OpenFile(r) ==
  /\ pc[r] = "reading"
  /\ seen' = [seen EXCEPT ![r] = file]
  /\ pc' = [pc EXCEPT ![r] = "open"]
  /\ UNCHANGED <<current, gate, held, awaits, released, tries, file, foreign, opened, entered,
                 landed>>

\* Mutant of EndRead: the replacements that wait are not woken.
EndReadSilently(r) ==
  /\ pc[r] = "open"
  /\ Leave(r, [gate[held[r]] EXCEPT !.readers = @ \ {r}])
  /\ pc' = [pc EXCEPT ![r] = "done"]
  /\ UNCHANGED <<awaits, released, tries, file, seen, foreign, opened, entered, landed>>

\* The last read in flight wakes the replacements that wait for it.
EndRead(r) ==
  /\ pc[r] = "open"
  /\ LET rest == gate[held[r]].readers \ {r}
     IN Leave(r, [gate[held[r]] EXCEPT !.readers = rest,
                                       !.drained = IF rest = {} THEN {} ELSE @])
  /\ pc' = [pc EXCEPT ![r] = "done"]
  /\ UNCHANGED <<awaits, released, tries, file, seen, foreign, opened, entered, landed>>

-------------------------------------------------------------------------------
\* create: the file must not be there; the gate is not asked.
Access(c) ==
  /\ pc[c] = "idle"
  /\ pc' = [pc EXCEPT ![c] = IF file = Absent THEN "ready" ELSE "refused"]
  /\ UNCHANGED <<current, gate, held, awaits, released, tries, file, seen, foreign, opened,
                 entered, landed>>

\* replacing: while reads are in flight the replacement waits to be woken.
Drained(w, g, now) ==
  IF now.readers # {}
    THEN /\ gate' = [gate EXCEPT ![g] = [now EXCEPT !.drained = @ \cup {w}]]
         /\ pc' = [pc EXCEPT ![w] = "draining"]
    ELSE /\ gate' = [gate EXCEPT ![g] = now]
         /\ pc' = [pc EXCEPT ![w] = "renaming"]

\* Mutant of StartReplace: a replacement does not await the one before it.
StartReplaceAtOnce(w) ==
  /\ pc[w] = IF w \in Creators THEN "ready" ELSE "idle"
  /\ \E g \in Gates :
       /\ GateFor(w, g)
       /\ Drained(w, g, [Entered(w, g) EXCEPT !.writer = w])
  /\ entered' = Append(entered, w)
  /\ UNCHANGED <<awaits, released, tries, file, seen, foreign, opened, landed>>

\* The new text is in a temporary file; the replacement takes its place behind the
\* last one that asked.
StartReplace(w) ==
  /\ pc[w] = IF w \in Creators THEN "ready" ELSE "idle"
  /\ \E g \in Gates :
       LET now == [Entered(w, g) EXCEPT !.writer = w]
       IN /\ GateFor(w, g)
          /\ IF gate[g].writer # NoCall
               THEN /\ gate' = [gate EXCEPT ![g] = now]
                    /\ pc' = [pc EXCEPT ![w] = "queued"]
                    /\ awaits' = [awaits EXCEPT ![w] = gate[g].writer]
               ELSE Drained(w, g, now) /\ UNCHANGED awaits
  /\ entered' = Append(entered, w)
  /\ UNCHANGED <<released, tries, file, seen, foreign, opened, landed>>

\* The replacement before it has ended, or the last read has woken it.
ResumeReplace(w) ==
  /\ \/ pc[w] = "queued" /\ awaits[w] \in released
     \/ pc[w] = "draining" /\ w \notin gate[held[w]].drained
  /\ Drained(w, held[w], gate[held[w]])
  /\ UNCHANGED <<current, held, awaits, released, tries, file, seen, foreign, opened, entered,
                 landed>>

\* Mutant of Rename: the attempts are counted and not limited.
RenameForEver(w) ==
  /\ pc[w] = "renaming"
  /\ tries' = [tries EXCEPT ![w] = @ + 1]
  /\ IF Open
       THEN UNCHANGED <<pc, file, landed>>
       ELSE /\ pc' = [pc EXCEPT ![w] = "renamed"]
            /\ file' = w
            /\ landed' = Append(landed, w)
  /\ UNCHANGED <<current, gate, held, awaits, released, seen, foreign, opened, entered>>

\* Mutant of Rename: giving up is not an error.
RenameQuietly(w) ==
  /\ pc[w] = "renaming"
  /\ tries' = [tries EXCEPT ![w] = @ + 1]
  /\ file' = IF Open THEN file ELSE w
  /\ landed' = IF Open THEN landed ELSE Append(landed, w)
  /\ pc' = [pc EXCEPT ![w] = IF Open /\ tries[w] + 1 < MaxAttempts THEN "renaming" ELSE "renamed"]
  /\ UNCHANGED <<current, gate, held, awaits, released, seen, foreign, opened, entered>>

\* durableWrite's rename: tried again while the file is open elsewhere, then reported.
Rename(w) ==
  /\ pc[w] = "renaming"
  /\ tries' = [tries EXCEPT ![w] = @ + 1]
  /\ IF Open
       THEN /\ pc' = [pc EXCEPT ![w] = IF tries[w] + 1 < MaxAttempts THEN "renaming" ELSE "thrown"]
            /\ UNCHANGED <<file, landed>>
       ELSE /\ pc' = [pc EXCEPT ![w] = "renamed"]
            /\ file' = w
            /\ landed' = Append(landed, w)
  /\ UNCHANGED <<current, gate, held, awaits, released, seen, foreign, opened, entered>>

\* Mutant of EndReplace: the gate is cleared although another replacement has asked.
EndReplaceClearing(w) ==
  /\ pc[w] \in {"renamed", "thrown"}
  /\ Leave(w, [gate[held[w]] EXCEPT !.writer = NoCall])
  /\ released' = released \cup {w}
  /\ pc' = [pc EXCEPT ![w] = IF @ = "renamed" THEN "done" ELSE "failed"]
  /\ UNCHANGED <<awaits, tries, file, seen, foreign, opened, entered, landed>>

\* The replacement ends either way: the gate is free unless another has asked, and
\* whoever awaits this one goes on.
EndReplace(w) ==
  /\ pc[w] \in {"renamed", "thrown"}
  /\ Leave(w, [gate[held[w]] EXCEPT !.writer = IF @ = w THEN NoCall ELSE @])
  /\ released' = released \cup {w}
  /\ pc' = [pc EXCEPT ![w] = IF @ = "renamed" THEN "done" ELSE "failed"]
  /\ UNCHANGED <<awaits, tries, file, seen, foreign, opened, entered, landed>>

\* A scanner, a backup or another process opens the file, or closes it.
Foreign ==
  /\ \/ ~foreign /\ file # Absent /\ opened < MaxForeign /\ opened' = opened + 1
     \/ foreign /\ UNCHANGED opened
  /\ foreign' = ~foreign
  /\ UNCHANGED <<current, gate, pc, held, awaits, released, tries, file, seen, entered, landed>>

-------------------------------------------------------------------------------
\* The run may be there already.
Init ==
  /\ current = NoGate
  /\ gate = [g \in Gates |-> Unused]
  /\ pc = [c \in Calls |-> "idle"]
  /\ held = [c \in Calls |-> NoGate]
  /\ awaits = [c \in Calls |-> NoCall]
  /\ released = {}
  /\ tries = [w \in Replacers |-> 0]
  /\ file \in {Absent, "first"}
  /\ seen = [r \in Readers |-> Absent]
  /\ foreign = FALSE
  /\ opened = 0
  /\ entered = <<>>
  /\ landed = <<>>

Proceed(c) ==
  \/ c \in Readers /\ (ResumeRead(c) \/ OpenFile(c) \/ EndRead(c))
  \/ c \in Replacers /\ (ResumeReplace(c) \/ Rename(c) \/ EndReplace(c))

Next ==
  \/ \E r \in Readers : StartRead(r)
  \/ \E c \in Creators : Access(c)
  \/ \E w \in Replacers : StartReplace(w)
  \/ \E c \in Calls : Proceed(c)
  \/ Foreign

Spec == Init /\ [][Next]_gateVars

\* The event loop runs whatever is ready; nothing is assumed of other programs.
FairSpec == Spec /\ \A c \in Calls : WF_gateVars(Proceed(c))

-------------------------------------------------------------------------------
GateRecords ==
  [readers : SUBSET Readers, writer : Replacers \cup {NoCall}, drained : SUBSET Replacers,
   users : SUBSET Calls]

Stages == {"idle", "held", "reading", "open", "done", "ready", "refused", "queued", "draining",
           "renaming", "renamed", "thrown", "failed"}

\* The values of the variables.
TypeOK ==
  /\ current \in Gates \cup {NoGate}
  /\ gate \in [Gates -> GateRecords]
  /\ pc \in [Calls -> Stages]
  /\ held \in [Calls -> Gates \cup {NoGate}]
  /\ awaits \in [Calls -> Replacers \cup {NoCall}]
  /\ released \subseteq Replacers
  /\ tries \in [Replacers -> 0..MaxAttempts]
  /\ file \in Replacers \cup {Absent, "first"}
  /\ seen \in [Readers -> Replacers \cup {Absent, "first"}]
  /\ foreign \in BOOLEAN /\ opened \in Nat
  /\ entered \in Seq(Replacers) /\ landed \in Seq(Replacers)

\* A rename is attempted while nobody in this process reads the file and nobody else
\* attempts one: it can only fail for another program's handle (reading, replacing).
RenameIsAlone ==
  \A w \in Replacers :
    pc[w] = "renaming" => /\ \A r \in Readers : pc[r] \notin {"reading", "open"}
                          /\ \A v \in Replacers \ {w} : pc[v] # "renaming"

\* Everybody who is inside a gate is inside the one the map holds: a gate is not
\* dropped while a call still uses it (gateFor, leave).
CallsShareOneGate ==
  \A c \in Calls : held[c] # NoGate => held[c] = current

\* Replacements happen in the order they asked, so the record a run service saved
\* last is the one that stays (replacing's chain of promises).
LandInOrder ==
  \A i, j \in DOMAIN landed :
    i < j => \E p, q \in DOMAIN entered :
               p < q /\ entered[p] = landed[i] /\ entered[q] = landed[j]

\* A replacement that reported success happened, and one that reported a failure did
\* not: the caller's idea of the saved record is right (durableWrite).
ReportsAreTrue ==
  \A w \in Replacers :
    /\ pc[w] = "done" => \E i \in DOMAIN landed : landed[i] = w
    /\ pc[w] \in {"failed", "refused"} => \A i \in DOMAIN landed : landed[i] # w

\* Every call comes back: no wake-up is lost between reads and replacements.
EveryCallReturns ==
  \A c \in Calls :
    pc[c] \notin {"idle", "ready"} ~> pc[c] \in {"done", "failed", "refused"}
===============================================================================
