------------------------------- MODULE OnePicture -------------------------------
(* What a camera promises whoever asks it for a picture                              *)
(* (packages/screen-capture/src/capture.ts): one answer, of a picture only where the *)
(* file is there, and nothing written once it has answered.                          *)

VARIABLES
  answer,  \* "none", "ok" or "refused"
  file     \* the picture is on disk
vars == <<answer, file>>

Init == answer = "none" /\ file = FALSE

Writes == answer = "none" /\ file' = TRUE /\ UNCHANGED answer
Tells == answer = "none" /\ answer' = "ok" /\ file' = TRUE
Refuses == answer = "none" /\ answer' = "refused" /\ UNCHANGED file
\* Somebody deletes it.
Vanishes == file' = FALSE /\ UNCHANGED answer

Next == Writes \/ Tells \/ Refuses \/ Vanishes
Spec == Init /\ [][Next]_vars
================================================================================
