------------------------------ MODULE Session ------------------------------
(***************************************************************************)
(* What the process promises whoever starts it, with no file, buffer or    *)
(* clock in sight: it runs one image, which is never exchanged or written  *)
(* to, or none; and an exit code of 0 means that it ran none.              *)
(***************************************************************************)
CONSTANT Images  \* what can be run

VARIABLES phase,  \* "starting", "running", "over" or "killed"
          image,  \* what is run: a set of one, or of none
          code    \* the exit code, once the process is over

sessionVars == <<phase, image, code>>

Init == phase = "starting" /\ image = {} /\ code = 0

\* Whatever fails before the image runs may be reported or not.
Fail ==
  /\ phase = "starting" /\ phase' = "over"
  /\ code' \in {0, 1} /\ image' = image

Run ==
  /\ phase = "starting" /\ phase' = "running"
  /\ \E i \in Images : image' = {i}
  /\ code' = code

\* The program has stopped, which is reported as an error.
End ==
  /\ phase = "running" /\ phase' = "over"
  /\ code' = 1 /\ image' = image

Crash ==
  /\ phase = "running" /\ phase' = "killed"
  /\ UNCHANGED <<image, code>>

Next == Fail \/ Run \/ End \/ Crash

Spec == Init /\ [][Next]_sessionVars
=============================================================================
