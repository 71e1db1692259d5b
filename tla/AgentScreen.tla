------------------------------ MODULE AgentScreen ------------------------------
(* The screen layer of the desktop agent (apps/agent): readings of the window in  *)
(* front, the pictures they lead to, and the one model that reads the pictures.   *)
(* A picture is known by its number, in the order they were asked for.            *)
EXTENDS Integers, Sequences, FiniteSets, SequencesExt

CONSTANTS
  Listed,       \* the programs somebody listed for photographing
  Other,        \* a program nobody listed
  None,         \* nothing
  Interval,     \* DM_AGENT_CAPTURE_MS, in ticks
  MaxWaiting,   \* MAX_PENDING_READS
  MaxShots,     \* bound: pictures asked for
  MaxTime       \* bound: the clock

ASSUME ScreenAssumption ==
  /\ Other \notin Listed /\ None \notin Listed \cup {Other} /\ None \notin Nat
  /\ {Interval, MaxWaiting, MaxShots, MaxTime} \subseteq Nat \ {0}

VARIABLES
  now,      \* the clock
  claimed,  \* CaptureSchedule.lastClaimed
  shots,    \* every picture asked for: its program and when
  camera,   \* the lock `photographing`: the picture being taken and how far it is
  disk,     \* the pictures on disk
  told,     \* the pictures the runtime was told of, in order
  waiting,  \* the pictures waiting for a model, oldest first
  reading,  \* the picture a model is looking at
  dropped,  \* createReadQueue's count of pictures never read
  unread,   \* pictures whose reading failed
  readings  \* the readings sent, in order

vars == <<now, claimed, shots, camera, disk, told, waiting, reading, dropped, unread, readings>>
watch == <<claimed, shots>>
queue == <<waiting, reading, dropped, unread, readings>>

Shots == 1 .. MaxShots
Apps == Listed \cup {Other}

Init ==
  /\ now = 0 /\ claimed = [a \in Listed |-> None]
  /\ shots = <<>> /\ camera = None /\ disk = {} /\ told = <<>>
  /\ waiting = <<>> /\ reading = None /\ dropped = 0 /\ unread = {} /\ readings = <<>>

----
(* A program may be photographed once its interval is over, counted from when a  *)
(* picture of it was last asked for.                                             *)
MayAtOnce(app) == claimed[app] = None \/ now >= claimed[app]
MayAgain(app) == claimed[app] = None \/ now - claimed[app] >= Interval

\* CaptureSchedule.claim, and what photograph does with it: a claim made while another
\* picture is being taken is used up without a picture.
Claim(app) ==
  IF app \in Listed /\ MayAgain(app) /\ Len(shots) < MaxShots
  THEN /\ claimed' = [claimed EXCEPT ![app] = now]
       /\ IF camera = None
          THEN /\ shots' = Append(shots, [app |-> app, at |-> now])
               /\ camera' = [shot |-> Len(shots) + 1, saved |-> FALSE]
          ELSE UNCHANGED <<shots, camera>>
  ELSE UNCHANGED <<claimed, shots, camera>>

\* A line of the window reader: every reading may lead to a picture, not only a change.
Line(app) ==
  /\ Claim(app)
  /\ UNCHANGED <<now, disk, told, queue>>

----
(* The camera: a process that draws the window, writes the file, reports, ends.  *)
(* Whatever comes of it, the lock is let go of at the end.                       *)
LetGo == camera' = None

Saves ==
  /\ camera # None /\ ~camera.saved
  /\ camera' = [camera EXCEPT !.saved = TRUE]
  /\ disk' = disk \cup {camera.shot}
  /\ UNCHANGED <<now, watch, told, queue>>

\* A minimised window, a program that is not running, a process that ended without a word.
Refused ==
  /\ camera # None /\ ~camera.saved
  /\ LetGo
  /\ UNCHANGED <<now, watch, disk, told, queue>>

\* The deadline: the process is killed, and the answer is that there is no picture.
Deadline ==
  /\ camera # None
  /\ LetGo
  /\ UNCHANGED <<now, watch, disk, told, queue>>

\* The queue of readings: pump, run after a push and after every reading.
PumpLatest(line, busy) ==
  IF busy # None \/ line = <<>>
  THEN waiting' = line /\ reading' = busy
  ELSE waiting' = Front(line) /\ reading' = Last(line)
Pump(line, busy) ==
  IF busy # None \/ line = <<>>
  THEN waiting' = line /\ reading' = busy
  ELSE waiting' = Tail(line) /\ reading' = Head(line)

\* At the ceiling the oldest goes.
Room(line) == IF Len(line) >= MaxWaiting THEN Tail(line) ELSE line

Push(shot) ==
  /\ Pump(Append(Room(waiting), shot), reading)
  /\ dropped' = dropped + (Len(waiting) - Len(Room(waiting)))

\* The process ended and reported a picture that is there: it is told, and queued.
Reported ==
  /\ camera # None /\ camera.saved
  /\ LetGo
  /\ IF camera.shot \in disk
     THEN told' = Append(told, camera.shot) /\ Push(camera.shot)
     ELSE UNCHANGED <<told, waiting, reading, dropped>>
  /\ UNCHANGED <<now, watch, disk, unread, readings>>

\* Somebody deletes a picture.
Deletes(shot) ==
  /\ disk' = disk \ {shot}
  /\ UNCHANGED <<now, watch, camera, told, queue>>

----
(* One reading at a time.  Whatever becomes of it, the next one is taken up.     *)
TakesUpTheNext == Pump(waiting, None)

\* The file is opened, a brain is chosen, and it answers with a reading.
Reads ==
  /\ reading # None /\ reading \in disk
  /\ readings' = Append(readings, reading)
  /\ TakesUpTheNext
  /\ UNCHANGED <<now, watch, camera, disk, told, dropped, unread>>

\* The file is gone, no brain could be chosen, or what came back is not a reading.
ReadFails ==
  /\ reading # None
  /\ unread' = unread \cup {reading}
  /\ TakesUpTheNext
  /\ UNCHANGED <<now, watch, camera, disk, told, dropped, readings>>

Tick ==
  /\ now < MaxTime
  /\ now' = now + 1
  /\ UNCHANGED <<watch, camera, disk, told, queue>>

Next ==
  \/ \E app \in Apps : Line(app)
  \/ Saves \/ Refused \/ Deadline \/ Reported
  \/ \E shot \in disk : Deletes(shot)
  \/ Reads \/ ReadFails
  \/ Tick

Spec == Init /\ [][Next]_vars

\* The capture has a deadline and a model's call one of its own, so both end.
FairSpec == Spec /\ WF_vars(Deadline) /\ WF_vars(ReadFails)

----
TypeOK ==
  /\ now \in 0 .. MaxTime
  /\ claimed \in [Listed -> 0 .. MaxTime \cup {None}]
  /\ shots \in Seq([app : Listed, at : 0 .. MaxTime]) /\ Len(shots) <= MaxShots
  /\ camera \in [shot : Shots, saved : BOOLEAN] \cup {None}
  /\ disk \subseteq Shots /\ unread \subseteq Shots
  /\ IsInjective(told) /\ IsInjective(readings)
  /\ Len(waiting) <= MaxWaiting
  /\ reading \in Shots \cup {None}
  /\ dropped \in 0 .. MaxShots

\* No two pictures of one program are asked for within its interval, however often its
\* window is read and whatever else is being photographed (README of the agent: one picture
\* per app per DM_AGENT_CAPTURE_MS).
OnePerInterval ==
  \A i, j \in DOMAIN shots :
    i < j /\ shots[i].app = shots[j].app => shots[j].at - shots[i].at >= Interval

\* Every picture the runtime was told of has been read, has failed to be, is waiting, is
\* being looked at, or is counted as dropped: the read queue loses none without counting it.
EveryPictureIsAccountedFor ==
  Len(told) = Len(waiting) + (IF reading = None THEN 0 ELSE 1) + dropped + Cardinality(unread) + Len(readings)

\* Readings reach the runtime in the order the pictures were taken, though pictures are
\* dropped and readings fail in between.
ReadInOrder == \A i, j \in DOMAIN readings : i < j => readings[i] < readings[j]

\* When readings fall behind it is the oldest that go: what waits is always the last
\* pictures taken.
NewestKept == IsSuffix(waiting, told)

\* No picture goes astray between the camera and the model (shape.ts, createReadQueue): each is
\* accounted for, they are read in order, and the newest are the ones kept.
PicturesAreKept == EveryPictureIsAccountedFor /\ ReadInOrder /\ NewestKept

\* A picture taken is read or given up in the end: the camera never stops the readings, nor
\* a failed reading the ones after it.
EveryPictureIsLookedAt ==
  \A shot \in Shots : (reading = shot \/ shot \in ToSet(waiting)) ~> (reading # shot /\ shot \notin ToSet(waiting))

\* The lock is let go of: one picture that hangs does not end the camera.
CameraIsFreed == camera # None ~> camera = None

\* index.ts:248-250: a picture that is on disk and is not being taken has been told of.
EveryPictureIsReported ==
  \A shot \in disk : (camera # None /\ camera.shot = shot) \/ shot \in ToSet(told)
================================================================================
