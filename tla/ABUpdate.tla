------------------------------ MODULE ABUpdate ------------------------------
(***************************************************************************)
(* What an update over the air promises, whatever the slots, the otadata   *)
(* entries and the bootloader do to keep it: there is always one committed *)
(* image; a new one is a candidate until it has been booted once, and then *)
(* either replaces the committed image or is given up.                     *)
(***************************************************************************)
CONSTANTS
  Good,        \* the images the device may run
  NoImage

VARIABLES
  committed,   \* the image the device falls back to
  candidate,   \* the image on trial
  trial        \* "none", "waiting" for its first boot, or "running"

abVars == <<committed, candidate, trial>>

Init ==
  /\ committed \in Good
  /\ candidate = NoImage /\ trial = "none"

Offer ==
  /\ trial = "none"
  /\ candidate' \in Good /\ trial' = "waiting"
  /\ UNCHANGED committed

FirstBoot ==
  /\ trial = "waiting"
  /\ trial' = "running"
  /\ UNCHANGED <<committed, candidate>>

Commit ==
  /\ trial = "running"
  /\ committed' = candidate
  /\ candidate' = NoImage /\ trial' = "none"

GiveUp ==
  /\ trial = "running"
  /\ candidate' = NoImage /\ trial' = "none"
  /\ UNCHANGED committed

Next == Offer \/ FirstBoot \/ Commit \/ GiveUp

Spec == Init /\ [][Next]_abVars
=============================================================================
