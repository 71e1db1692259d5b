----------------------------- MODULE Cameras_proofs -----------------------------
(* Theorems about Cameras, for any set of backends handed in and any noise: that    *)
(* either camera takes one picture as OnePicture says, and of what somebody chose.  *)
(* They rest on what a settled camera can still do, which is nothing.               *)
EXTENDS Cameras, TLAPS, WellFoundedInduction

----
(* The inductive invariant *)

Lines == Reports \cup {"noise"}

CameraTypes ==
  /\ config \in Configs
  /\ camera \in {None, "windows", "obs"}
  /\ child = None \/ child \in Seq(Lines)
  /\ answer \in {"none", "ok", "refused"}
  /\ file \in BOOLEAN

\* Whoever has answered has no process and no socket left.
SettledIsDeaf ==
  answer # "none" =>
    /\ camera = "windows" => child = None
    /\ camera = "obs" => wire = None

ChosenIsAtWork == camera # None => camera = Chosen(config)

\* Only a window that can be worked in is reported as taken.
ReportsAreTrue ==
  camera = "windows" /\ child # None =>
    \A i \in DOMAIN child : child[i] = "ok" => config.window = "big"

TakenWasBig == answer = "ok" /\ camera = "windows" => config.window = "big"

OnlyProcessesWriteAhead == camera # "windows" /\ answer # "ok" => ~file

CameraInv ==
  /\ CameraTypes
  /\ SettledIsDeaf
  /\ ChosenIsAtWork
  /\ ReportsAreTrue
  /\ TakenWasBig
  /\ OnlyProcessesWriteAhead

----
(* The line that counts is a line that was printed.                                 *)

LEMMA LeastExists ==
  ASSUME NEW T \in SUBSET Nat, T # {}
  PROVE  \E i \in T : \A j \in T : i <= j
<1> DEFINE Below == {p \in Nat \X Nat : p[1] < p[2]}
<1>1. IsWellFoundedOn(Below, Nat)
  BY NatLessThanWellFounded DEF OpToRel
<1>2. \A j, k \in Nat : j < k => <<j, k>> \in Below
  OBVIOUS
<1> HIDE DEF Below
<1>3. PICK i \in T : \A j \in T : <<j, i>> \notin Below
  BY <1>1, WFMin
<1>4. \A j \in T : ~(j < i)
  BY <1>2, <1>3
<1> QED
  BY <1>4

LEMMA GreatestExists ==
  ASSUME NEW n \in Nat, NEW S \in SUBSET (1..n), S # {}
  PROVE  Max(S) \in S
<1> DEFINE Back == {m \in Nat : n - m \in S}
<1>1. PICK i \in S : TRUE
  OBVIOUS
<1>2. n - i \in Back
  OBVIOUS
<1>3. Back \in SUBSET Nat /\ Back # {}
  BY <1>2
<1>4. PICK least \in Back : \A m \in Back : least <= m
  BY <1>3, LeastExists
<1>5. \A j \in S : n - j \in Back
  OBVIOUS
<1>6. n - least \in S /\ least \in Nat
  BY <1>4
<1>7. \A j \in S : n - least >= j
  <2> SUFFICES ASSUME NEW j \in S PROVE n - least >= j
    OBVIOUS
  <2>1. least <= n - j /\ j \in Nat
    BY <1>4, <1>5
  <2> QED
    BY <1>6, <2>1
<1> QED
  BY <1>6, <1>7 DEF Max

LEMMA ReadingWasPrinted ==
  ASSUME NEW printed \in Seq(Lines), ParseCaptureReading(printed) = "ok"
  PROVE  \E i \in DOMAIN printed : printed[i] = "ok"
<1> DEFINE reports == {i \in DOMAIN printed : printed[i] \in Reports}
<1>1. CASE reports = {}
  BY <1>1, CamerasAssumption DEF ParseCaptureReading
<1>2. CASE reports # {}
  <2>1. reports \in SUBSET (1..Len(printed)) /\ Len(printed) \in Nat
    OBVIOUS
  <2>2. Max(reports) \in reports
    BY <1>2, <2>1, GreatestExists
  <2> QED
    BY <1>2, <2>2 DEF ParseCaptureReading
<1> QED
  BY <1>1, <1>2

LEMMA InvariantHoldsAtFirst == Init => CameraInv
<1> SUFFICES ASSUME Init PROVE CameraInv
  OBVIOUS
<1> QED
  BY CamerasAssumption DEF Init, CameraInv, CameraTypes, SettledIsDeaf, ChosenIsAtWork,
     ReportsAreTrue, TakenWasBig, OnlyProcessesWriteAhead

LEMMA InvariantIsKept == CameraInv /\ [Next]_vars => CameraInv'
<1> SUFFICES ASSUME CameraInv, [Next]_vars PROVE CameraInv'
  OBVIOUS
<1> USE CamerasAssumption DEF CameraInv, CameraTypes, SettledIsDeaf, ChosenIsAtWork, Settle,
    TakenWasBig, OnlyProcessesWriteAhead
<1>1. CASE NoCamera
  BY <1>1 DEF NoCamera, ReportsAreTrue
<1>2. CASE Starts
  <2>1. Chosen(config) \in {"windows", "obs"}
    BY <1>2 DEF Starts, Chosen
  <2>2. <<>> \in Seq(Lines) /\ DOMAIN <<>> = {}
    OBVIOUS
  <2>3. ReportsAreTrue'
    BY <1>2, <2>1, <2>2 DEF Starts, ReportsAreTrue
  <2>4. CameraTypes'
    BY <1>2, <2>1, <2>2 DEF Starts
  <2>5. ChosenIsAtWork'
    BY <1>2 DEF Starts, Chosen
  <2> QED
    BY <1>2, <2>1, <2>3, <2>4, <2>5 DEF Starts
<1>3. CASE Saves
  BY <1>3 DEF Saves, Running, ReportsAreTrue
<1>4. CASE Prints
  <2>1. PICK line \in Lines : /\ child' = Append(child, line)
                              /\ line = "ok" => config.window = "big"
    BY <1>4 DEF Prints, Lines, Reports
  <2>2. child \in Seq(Lines) /\ camera = "windows" /\ child # None
    BY <1>4 DEF Prints, Running
  <2>3. child' \in Seq(Lines)
    BY <2>1, <2>2
  <2>4. ReportsAreTrue'
    <3> SUFFICES ASSUME NEW i \in DOMAIN child', child'[i] = "ok" PROVE config.window = "big"
      BY <1>4 DEF Prints, ReportsAreTrue
    <3>1. CASE i = Len(child) + 1
      BY <2>1, <2>2, <3>1
    <3>2. CASE i # Len(child) + 1
      BY <2>1, <2>2, <3>2 DEF ReportsAreTrue
    <3> QED
      BY <3>1, <3>2
  <2> QED
    BY <1>4, <2>2, <2>3, <2>4 DEF Prints, Chosen
<1>5. CASE Ends
  <2>1. child \in Seq(Lines) /\ camera = "windows" /\ child # None /\ answer = "none"
    BY <1>5 DEF Ends, Running
  <2>2. answer' = "ok" => config.window = "big"
    BY <1>5, <2>1, ReadingWasPrinted DEF Ends, ReportsAreTrue
  <2>3. answer' \in {"ok", "refused"}
    BY <1>5, <2>1 DEF Ends
  <2> QED
    BY <1>5, <2>1, <2>2, <2>3 DEF Ends, ReportsAreTrue, Chosen
<1>6. CASE Deletes
  BY <1>6 DEF Deletes, ReportsAreTrue
<1>7. CASE ObsSpeaks
  BY <1>7 DEF ObsSpeaks, Connected, Says, ReportsAreTrue, Noisy
<1>8. CASE Hears
  <2>1. camera = "obs" /\ wire # None /\ answer = "none" /\ ~file
    BY <1>8 DEF Hears, Connected
  <2>2. /\ UNCHANGED <<config, camera, child>>
        /\ \/ UNCHANGED <<answer, file>>
           \/ Finish("ok") /\ file' = TRUE
           \/ Finish("refused") /\ UNCHANGED file
    BY <1>8 DEF Hears
  <2>3. CASE UNCHANGED <<answer, file>>
    BY <2>1, <2>2, <2>3 DEF ReportsAreTrue, Chosen
  <2>4. CASE ~UNCHANGED <<answer, file>>
    <3>1. answer' = "ok" \/ (answer' = "refused" /\ ~file')
      BY <2>1, <2>2, <2>4 DEF Finish
    <3>2. wire' = None /\ file' \in BOOLEAN
      BY <2>1, <2>2, <2>4 DEF Finish, Hangs
    <3> QED
      BY <2>1, <2>2, <3>1, <3>2 DEF ReportsAreTrue, Chosen
  <2> QED
    BY <2>3, <2>4
<1>9. CASE HangsUp
  BY <1>9 DEF HangsUp, Connected, ReportsAreTrue, Finish, Hangs
<1>10. CASE Deadline
  BY <1>10 DEF Deadline, Due, ReportsAreTrue, Killed, Hangs
<1>11. CASE UNCHANGED vars
  BY <1>11 DEF vars, ReportsAreTrue
<1> QED
  BY <1>1, <1>2, <1>3, <1>4, <1>5, <1>6, <1>7, <1>8, <1>9, <1>10, <1>11 DEF Next

\* The inductive invariant of Cameras: what runs was chosen, what was refused left nothing, and what
\* was answered is there.
THEOREM CameraInvariant == Spec => []CameraInv
BY InvariantHoldsAtFirst, InvariantIsKept, PTL DEF Spec

\* A picture told of is of a window somebody works in, on the camera they chose and turned on
\* (capture.ts: off means off, and a backend nobody handed in is not replaced).
THEOREM OnlyTheChosenCameraRuns == Spec => []OnlyWhatWasChosen
<1>1. CameraInv => OnlyWhatWasChosen
  BY CamerasAssumption DEF CameraInv, ChosenIsAtWork, TakenWasBig, OnlyWhatWasChosen, Chosen
<1> QED
  BY <1>1, CameraInvariant, PTL

\* A refusal of OBS leaves no file behind.
THEOREM ObsLeavesNothing == Spec => []RefusedLeavesNothing
<1>1. CameraInv => RefusedLeavesNothing
  BY DEF CameraInv, OnlyProcessesWriteAhead, RefusedLeavesNothing
<1> QED
  BY <1>1, CameraInvariant, PTL

\* Either camera is one: it answers once, of a picture only where the file is there, and writes
\* nothing once it has answered.
THEOREM CamerasTakeOnePicture == Spec => ImplementsOnePicture
<1>1. Init => OnePictureIsTaken!Init
  BY DEF Init, OnePictureIsTaken!Init
<1>2. CameraInv /\ [Next]_vars => [OnePictureIsTaken!Next]_(OnePictureIsTaken!vars)
  <2> SUFFICES ASSUME CameraInv, [Next]_vars
               PROVE  OnePictureIsTaken!Next \/ UNCHANGED <<answer, file>>
    BY DEF OnePictureIsTaken!vars
  <2> USE DEF OnePictureIsTaken!Next, OnePictureIsTaken!Writes, OnePictureIsTaken!Tells,
              OnePictureIsTaken!Refuses, OnePictureIsTaken!Vanishes
  <2>1. CASE NoCamera \/ Deadline \/ HangsUp
    BY <2>1 DEF NoCamera, Deadline, Due, HangsUp, Finish, Connected, Settle, CameraInv,
       SettledIsDeaf
  <2>2. CASE Saves
    BY <2>2 DEF Saves, Running, CameraInv, SettledIsDeaf
  <2>3. CASE Ends
    <3>1. answer = "none" /\ UNCHANGED file
      BY <2>3 DEF Ends, Running, CameraInv, SettledIsDeaf
    <3>2. answer' = "refused" \/ (answer' = "ok" /\ file)
      BY <2>3, <3>1 DEF Ends, Settle
    <3>3. file \in BOOLEAN
      BY DEF CameraInv, CameraTypes
    <3> QED
      BY <3>1, <3>2, <3>3
  <2>4. CASE Deletes
    BY <2>4 DEF Deletes
  <2>5. CASE Hears
    <3>1. answer = "none"
      BY <2>5 DEF Hears, Connected, CameraInv, SettledIsDeaf
    <3>2. \/ UNCHANGED <<answer, file>>
          \/ Finish("ok") /\ file' = TRUE
          \/ Finish("refused") /\ UNCHANGED file
      BY <2>5 DEF Hears
    <3> QED
      BY <3>1, <3>2 DEF Finish, Settle
  <2>6. CASE Starts \/ Prints \/ ObsSpeaks \/ UNCHANGED vars
    BY <2>6 DEF Starts, Prints, ObsSpeaks, vars
  <2> QED
    BY <2>1, <2>2, <2>3, <2>4, <2>5, <2>6 DEF Next
<1> QED
  BY <1>1, <1>2, CameraInvariant, PTL DEF Spec, ImplementsOnePicture, OnePictureIsTaken!Spec
================================================================================
