-------------------------------- MODULE Cameras --------------------------------
(* Taking one picture (packages/screen-capture): the camera somebody chose, which is *)
(* a process that draws a window (windows.ts) or a talk with OBS over a socket       *)
(* (packages/screen-capture-obs).  A settled camera hears nothing more: a process    *)
(* that was killed prints no line, a closed socket delivers no message.              *)
EXTENDS Integers, Sequences, FiniteSetsExt

CONSTANTS
  None,      \* nothing
  Handed,      \* the backends handed to this process
  MaxNoise   \* bound: lines and messages that mean nothing to the camera

ASSUME CamerasAssumption ==
  Handed \subseteq {"windows", "obs"} /\ None \notin {"windows", "obs", "ok"} /\ MaxNoise \in Nat

VARIABLES
  config,  \* the switch, the backend named, what it is pointed at and given
  camera,  \* the camera at work, or None
  child,   \* the lines the capture process printed, or None when there is no process
  wire,    \* what OBS sent that has not arrived, or None when there is no socket
  obs,     \* how far OBS is with this client
  noise,   \* how much noise there was
  answer, file
vars == <<config, camera, child, wire, obs, noise, answer, file>>

Windows == {"big", "small", "minimised"}
Configs ==
  [enabled : BOOLEAN, backend : {"windows", "obs", "other"}, window : Windows,
   usable : BOOLEAN,      \* the path, the program's name, the address of OBS
   password : BOOLEAN]    \* there is one, where OBS asks for one

Init ==
  /\ config \in Configs
  /\ camera = None /\ child = None /\ wire = None /\ obs = "idle" /\ noise = 0
  /\ answer = "none" /\ file = FALSE

----
(* Which camera: off means off, and a backend nobody handed in is not replaced.      *)
Chosen(c) == IF c.enabled /\ c.backend \in Handed THEN c.backend ELSE None

\* Only the first result counts.
Settle(result) == answer' = IF answer = "none" THEN result ELSE answer

NoCamera ==
  /\ answer = "none" /\ camera = None
  /\ Chosen(config) = None \/ ~config.usable
  /\ Settle("refused")
  /\ UNCHANGED <<config, camera, child, wire, obs, noise, file>>

Starts ==
  /\ answer = "none" /\ camera = None
  /\ Chosen(config) # None /\ config.usable
  /\ camera' = Chosen(config)
  /\ child' = IF camera' = "windows" THEN <<>> ELSE None
  /\ wire' = IF camera' = "obs" THEN <<>> ELSE None
  /\ UNCHANGED <<config, obs, noise, answer, file>>

Noisy == noise < MaxNoise /\ noise' = noise + 1

----
(* The capture process: it draws, saves, reports in one line among others, and ends. *)
Reports == {"ok", "small", "refusal"}
Running == camera = "windows" /\ child # None
Reported == \E i \in DOMAIN child : child[i] \in Reports

\* A foreground window is saved whatever its size.
Saves ==
  /\ Running /\ ~file /\ ~Reported /\ config.window # "minimised"
  /\ file' = TRUE
  /\ UNCHANGED <<config, camera, child, wire, obs, noise, answer>>

Prints ==
  /\ Running
  /\ \/ /\ ~Reported /\ UNCHANGED noise
        /\ \/ file /\ config.window = "big" /\ child' = Append(child, "ok")
           \/ file /\ config.window = "small" /\ child' = Append(child, "small")
           \/ ~file /\ child' = Append(child, "refusal")
     \/ Noisy /\ child' = Append(child, "noise")
  /\ UNCHANGED <<config, camera, wire, obs, answer, file>>

\* parseCaptureReading: the last line that is a report.
ParseCaptureReading(printed) ==
  LET reports == {i \in DOMAIN printed : printed[i] \in Reports}
  IN IF reports = {} THEN None ELSE printed[Max(reports)]

\* The process ended, by itself or not: a picture it reports is there or is not told of.
Ends ==
  /\ Running
  /\ Settle(IF ParseCaptureReading(child) = "ok" /\ file THEN "ok" ELSE "refused")
  /\ child' = None
  /\ UNCHANGED <<config, camera, wire, obs, noise, file>>

\* Somebody deletes the file.
Deletes == file /\ file' = FALSE /\ UNCHANGED <<config, camera, child, wire, obs, noise, answer>>

----
(* OBS: it greets, welcomes whoever knows the password, and answers a request with a *)
(* picture, with something that is none, or with a refusal.                          *)
Connected == camera = "obs" /\ wire # None
Says(message, stage) == wire' = Append(wire, message) /\ obs' = stage

ObsSpeaks ==
  /\ Connected
  /\ \/ obs = "idle" /\ Says("hello", "greeted") /\ UNCHANGED noise
     \/ obs = "identified" /\ Says("identified", "ready") /\ UNCHANGED noise
     \/ obs = "asked" /\ UNCHANGED noise
          /\ \E message \in {"picture", "no png", "nothing", "refusal"} : Says(message, "answered")
     \/ Noisy /\ \E message \in {"event", "answer to another"} : Says(message, obs)
  /\ UNCHANGED <<config, camera, child, answer, file>>

IsPicture(message) == message = "picture"

\* finish: one result, and the socket is closed.
Hangs == wire' = None
Finish(result) == Settle(result) /\ Hangs

\* What the camera does with the message that arrives.
Hears ==
  /\ Connected /\ wire # <<>>
  /\ LET message == Head(wire) IN
     \/ /\ message = "hello" /\ config.password
        /\ obs' = "identified" /\ wire' = Tail(wire) /\ UNCHANGED <<answer, file>>
     \/ /\ message = "hello" /\ ~config.password
        /\ Finish("refused") /\ UNCHANGED <<obs, file>>
     \/ /\ message = "identified"
        /\ obs' = "asked" /\ wire' = Tail(wire) /\ UNCHANGED <<answer, file>>
     \/ /\ message \in {"picture", "no png", "nothing", "refusal"} /\ IsPicture(message)
        /\ \/ file' = TRUE /\ Finish("ok")
           \/ UNCHANGED file /\ Finish("refused")   \* the file could not be written
        /\ UNCHANGED obs
     \/ /\ message \in {"picture", "no png", "nothing", "refusal"} /\ ~IsPicture(message)
        /\ Finish("refused") /\ UNCHANGED <<obs, file>>
     \/ /\ message \in {"event", "answer to another"}
        /\ wire' = Tail(wire) /\ UNCHANGED <<obs, answer, file>>
  /\ UNCHANGED <<config, camera, child, noise>>

\* The connection fails, or OBS closes it.
HangsUp ==
  /\ Connected
  /\ Finish("refused")
  /\ UNCHANGED <<config, camera, child, obs, noise, file>>

----
(* The deadline: the process is killed, the socket closed.                           *)
Survives == UNCHANGED child
Killed == child' = None
Due == camera # None /\ answer = "none"

Deadline ==
  /\ Due
  /\ Settle("refused")
  /\ IF camera = "windows" THEN Killed /\ UNCHANGED wire ELSE Hangs /\ UNCHANGED child
  /\ UNCHANGED <<config, camera, obs, noise, file>>

Next ==
  \/ NoCamera \/ Starts \/ Saves \/ Prints \/ Ends \/ Deletes
  \/ ObsSpeaks \/ Hears \/ HangsUp \/ Deadline
Spec == Init /\ [][Next]_vars
\* Asked for a picture, the chosen camera is started or refused, and its timer fires.
FairSpec == Spec /\ WF_vars(NoCamera) /\ WF_vars(Starts) /\ WF_vars(Deadline)

----
\* Whichever camera it is, it is a camera: one answer, a picture only where there is a file, and
\* nothing written after the answer - a process that was given up on, or an answer that comes
\* late, among the ways it could be.
OnePictureIsTaken == INSTANCE OnePicture
ImplementsOnePicture == OnePictureIsTaken!Spec

\* OBS writes nothing it would not tell of: a refusal leaves no file.
RefusedLeavesNothing == camera = "obs" /\ answer = "refused" => ~file

\* A picture told of is of a window somebody works in, on the camera they chose and turned on.
OnlyWhatWasChosen ==
  /\ camera # None => config.enabled /\ camera = config.backend
  /\ answer = "ok" /\ camera = "windows" => config.window = "big"

\* Whoever asks is answered, though OBS says nothing or the process hangs.
EveryCaptureIsAnswered == <>(answer # "none")
================================================================================
