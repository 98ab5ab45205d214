-------------------------- MODULE OtaUpdateProofs --------------------------
(***************************************************************************)
(* Proofs about OtaUpdate.  BootsOwnImage is not inductive: that a reset   *)
(* finds a good image depends on who selected the slot, in which state its *)
(* otadata entry was left, and on what update_post has checked so far.     *)
(* SlotInv says so for each of these.                                      *)
(***************************************************************************)
EXTENDS OtaUpdate, TLAPS

\* The otadata entry selects the running slot until update_post switches it,
\* and no image is on probation while an upload is under way.
Selection ==
  /\ boot = IF upd = "restart" THEN target ELSE running
  /\ state[running] \in {"UNDEFINED", "PENDING_VERIFY", "VALID"}
  /\ upd # "idle" => state[running] # "PENDING_VERIFY"
  /\ upd = "restart" => state[target] = "NEW"

\* The running image is one for this board, and so is the other one once
\* update_post has compared the boards.
Contents ==
  /\ OwnImage(running)
  /\ upd = "board" => slot[target] # NoImage
  /\ upd \in {"set_boot", "restart"} => OwnImage(target)

SlotInv == TypeOK /\ Selection /\ Contents /\ FallbackKept

\* What Other returns.
LEMMA OtherSlot ==
  ASSUME NEW s \in Slots
  PROVE  Other(s) \in Slots /\ Other(s) # s /\ Other(Other(s)) = s
<1>1. \E o \in Slots : o # s
  BY DEF Slots
<1>2. Other(s) \in Slots /\ Other(s) # s
  BY <1>1 DEF Other
<1>3. Other(Other(s)) \in Slots /\ Other(Other(s)) # Other(s)
  <2>1. \E o \in Slots : o # Other(s)
    BY <1>2
  <2> QED BY <2>1 DEF Other
<1> QED BY <1>2, <1>3 DEF Slots

\* A reset finds a good image: the one update_post selected, the one on its way
\* back from probation, or the running one.
LEMMA ChosenIsOwn ==
  ASSUME SlotInv
  PROVE  /\ Chosen \in Slots /\ OwnImage(Chosen)
         /\ Chosen = IF RolledBack THEN Other(running) ELSE boot
<1>1. running \in Slots /\ boot \in Slots
  BY DEF SlotInv, TypeOK
<1>2. Other(running) \in Slots /\ Other(running) # running
  BY <1>1, OtherSlot
<1>3. CASE RolledBack
  <2>1. upd # "restart"
    BY <1>3 DEF SlotInv, Selection, RolledBack
  <2>2. boot = running /\ OwnImage(Other(running))
    BY <1>3, <2>1 DEF SlotInv, Selection, RolledBack, FallbackKept
  <2> QED BY <1>2, <1>3, <2>2 DEF Chosen, OwnImage
<1>4. CASE ~RolledBack
  <2>1. OwnImage(boot)
    BY DEF SlotInv, Selection, Contents, target
  <2> QED BY <1>1, <1>4, <2>1 DEF Chosen, OwnImage
<1> QED BY <1>3, <1>4

\* A reset at any point of any task preserves the invariant.
LEMMA ResetKeeps ==
  ASSUME SlotInv, Reset,
         uploads' \in 0..MaxUploads, resets' \in 0..MaxResets
  PROVE  SlotInv'
<1>1. running \in Slots /\ boot \in Slots /\ Chosen \in Slots /\ OwnImage(Chosen)
  BY ChosenIsOwn DEF SlotInv, TypeOK
<1>2. /\ Other(running) \in Slots /\ Other(running) # running
      /\ Other(Other(running)) = running
  BY <1>1, OtherSlot
<1>3. TypeOK'
  <2>1. state' \in [Slots -> {"UNDEFINED", "NEW", "PENDING_VERIFY", "VALID", "ABORTED"}]
    BY DEF SlotInv, TypeOK, Reset
  <2>2. remaining' \in 0..Chunks
    BY OtaAssumption DEF Reset
  <2> QED BY <1>1, <2>1, <2>2 DEF SlotInv, TypeOK, Reset
<1>4. Contents'
  BY <1>1 DEF Reset, Contents, OwnImage
<1>5. Selection' /\ FallbackKept'
  <2>1. CASE RolledBack
    <3>1. /\ upd # "restart" /\ boot = running
          /\ state[running] = "PENDING_VERIFY" /\ Chosen = Other(running)
      BY <2>1, ChosenIsOwn DEF SlotInv, Selection, RolledBack
    <3>2. state'[Chosen] \in {"VALID", "UNDEFINED"}
      BY <1>2, <3>1 DEF SlotInv, FallbackKept, Reset
    <3> QED BY <3>2 DEF Reset, Selection, FallbackKept
  <2>2. CASE ~RolledBack /\ upd = "restart"
    <3>1. Chosen = Other(running) /\ boot = Other(running)
      BY <2>2, ChosenIsOwn DEF SlotInv, Selection, target
    <3>2. state[Chosen] = "NEW" /\ state[running] \in {"UNDEFINED", "VALID"}
      BY <2>2, <3>1 DEF SlotInv, Selection, target
    <3>3. state'[Chosen] = "PENDING_VERIFY" /\ state'[running] \in {"UNDEFINED", "VALID"}
      BY <1>1, <1>2, <2>2, <3>1, <3>2 DEF Reset
    <3>4. Other(Chosen) = running /\ OwnImage(running)
      BY <1>2, <3>1 DEF SlotInv, Contents
    <3> QED BY <3>3, <3>4 DEF Reset, Selection, FallbackKept, OwnImage
  <2>3. CASE ~RolledBack /\ upd # "restart"
    <3>1. Chosen = running /\ boot = running
      BY <2>3, ChosenIsOwn DEF SlotInv, Selection
    <3>2. state[running] \in {"UNDEFINED", "VALID"}
      BY <2>3, <3>1 DEF SlotInv, Selection, RolledBack
    <3>3. state'[running] = state[running]
      BY <1>1, <2>3, <3>1, <3>2 DEF Reset
    <3> QED BY <3>1, <3>2, <3>3 DEF Reset, Selection, FallbackKept
  <2> QED BY <2>1, <2>2, <2>3
<1> QED BY <1>3, <1>4, <1>5 DEF SlotInv

LEMMA SlotInvInit == Init => SlotInv
<1> SUFFICES ASSUME Init PROVE SlotInv
  OBVIOUS
<1>1. [board |-> Mine, once_booted |-> "comes up"] \in Image
  BY OtaAssumption DEF Image
<1>2. TypeOK
  <2>1. 0 \in 0..Chunks /\ 0 \in 0..MaxUploads /\ 0 \in 0..MaxResets
    BY OtaAssumption
  <2>2. slot \in [Slots -> Image \cup {NoImage}]
    BY <1>1 DEF Init
  <2> QED BY <2>1, <2>2 DEF Init, TypeOK, Slots
<1>3. OwnImage(running)
  <2>1. slot[running] = [board |-> Mine, once_booted |-> "comes up"]
    BY DEF Init, Slots
  <2>2. slot[running] # NoImage
    BY <1>1, <2>1, NoImageAssumption
  <2>3. slot[running].board = Mine
    <3>1. [board |-> Mine, once_booted |-> "comes up"].board = Mine
      OBVIOUS
    <3> QED BY <2>1, <3>1, Zenon
  <2> QED BY <2>2, <2>3 DEF OwnImage
<1> QED BY <1>2, <1>3 DEF Init, SlotInv, Selection, Contents, FallbackKept, Slots

LEMMA SlotInvNext == SlotInv /\ [Next]_vars => SlotInv'
<1> SUFFICES ASSUME SlotInv, [Next]_vars PROVE SlotInv'
  OBVIOUS
<1> USE OtaAssumption
<1>0. /\ running \in Slots /\ boot \in Slots
      /\ target \in Slots /\ target # running
  BY OtherSlot DEF SlotInv, TypeOK, target
<1>1. CASE PowerCycle
  BY <1>1, ResetKeeps DEF PowerCycle, SlotInv, TypeOK
<1>2. CASE Crash \/ Restart
  BY <1>2, ResetKeeps DEF Crash, Restart, SlotInv, TypeOK
<1>3. CASE StartServices
  BY <1>3 DEF StartServices, flash, post, SlotInv, TypeOK, Selection, Contents,
              FallbackKept, OwnImage, target, once_booted
<1>4. CASE ota_mark_valid
  <2>1. TypeOK'
    BY <1>0, <1>4 DEF ota_mark_valid, post, SlotInv, TypeOK
  <2>2. state'[running] \in {"UNDEFINED", "VALID"}
    BY <1>0, <1>4 DEF ota_mark_valid, SlotInv, TypeOK, Selection
  <2>3. state'[target] = state[target]
    BY <1>0, <1>4 DEF ota_mark_valid, SlotInv, TypeOK
  <2> QED BY <1>4, <2>1, <2>2, <2>3 DEF ota_mark_valid, post, SlotInv, Selection,
             Contents, FallbackKept, OwnImage, target
<1>5. CASE Begin
  <2>1. TypeOK'
    BY <1>0, <1>5 DEF Begin, app, SlotInv, TypeOK
  <2>2. slot'[running] = slot[running]
    BY <1>0, <1>5 DEF Begin, SlotInv, TypeOK
  <2> QED BY <1>5, <2>1, <2>2 DEF Begin, app, SlotInv, Selection, Contents,
             FallbackKept, OwnImage, target
<1>6. CASE Recv
  <2>1. TypeOK'
    BY <1>0, <1>6 DEF Recv, app, SlotInv, TypeOK
  <2>2. slot'[running] = slot[running]
    BY <1>0, <1>6 DEF Recv, SlotInv, TypeOK
  <2> QED BY <1>6, <2>1, <2>2 DEF Recv, app, SlotInv, Selection, Contents,
             FallbackKept, OwnImage, target
<1>7. CASE RecvDone \/ End \/ Fail
  BY <1>7 DEF RecvDone, End, Fail, flash, app, SlotInv, TypeOK, Selection,
              Contents, FallbackKept, OwnImage, target
<1>8. CASE CheckBoard
  BY <1>8 DEF CheckBoard, same_board, flash, app, SlotInv, TypeOK, Selection,
              Contents, FallbackKept, OwnImage, target
<1>9. CASE SetBoot
  <2>1. TypeOK'
    BY <1>0, <1>9 DEF SetBoot, app, SlotInv, TypeOK
  <2>2. state'[target] = "NEW" /\ state'[running] = state[running]
    BY <1>0, <1>9 DEF SetBoot, SlotInv, TypeOK
  <2> QED BY <1>9, <2>1, <2>2 DEF SetBoot, app, SlotInv, Selection, Contents,
             FallbackKept, OwnImage, target
<1>10. CASE UNCHANGED vars
  BY <1>10 DEF vars, flash, app, post, SlotInv, TypeOK, Selection, Contents,
               FallbackKept, OwnImage, target
<1> QED BY <1>1, <1>2, <1>3, <1>4, <1>5, <1>6, <1>7, <1>8, <1>9, <1>10
        DEF Next, app_main, update_post

LEMMA SlotInvAlways == Spec => []SlotInv
BY SlotInvInit, SlotInvNext, PTL DEF Spec

\* Every variable of ota.c, app_main, the slots and otadata stays in range.
THEOREM TypeCorrect == Spec => []TypeOK
<1>1. SlotInv => TypeOK
  BY DEF SlotInv
<1> QED BY <1>1, SlotInvAlways, PTL

\* A reset between any two steps of an upload, a confirmation or a rollback
\* boots a complete image for this board.
THEOREM ResetsBootOwnImage == Spec => []BootsOwnImage
<1>1. SlotInv => BootsOwnImage
  BY ChosenIsOwn DEF BootsOwnImage
<1> QED BY <1>1, SlotInvAlways, PTL

\* An image on probation always has a confirmed one to be rolled back to.
THEOREM ProbationHasFallback == Spec => []FallbackKept
<1>1. SlotInv => FallbackKept
  BY DEF SlotInv
<1> QED BY <1>1, SlotInvAlways, PTL

-----------------------------------------------------------------------------
(* The abstract update *)

\* What the mapping gives: a switched slot is a trial that waits, probation is
\* one that runs, and the committed image is the one a reset would go back to.
ABView ==
  /\ upd = "restart" =>
       trial = "waiting" /\ candidate = slot[target] /\ committed = slot[running]
  /\ upd # "restart" /\ state[running] = "PENDING_VERIFY" =>
       /\ trial = "running" /\ candidate = slot[running]
       /\ committed = slot[Other(running)]
  /\ upd # "restart" /\ state[running] # "PENDING_VERIFY" =>
       trial = "none" /\ candidate = NoImage /\ committed = slot[running]

LEMMA ViewHolds == SlotInv => ABView
<1> SUFFICES ASSUME SlotInv PROVE ABView
  OBVIOUS
<1>0. running \in Slots
  BY DEF SlotInv, TypeOK
<1>1. Other(Other(running)) = running
  BY <1>0, OtherSlot
<1>2. CASE upd = "restart"
  <2>1. boot = Other(running) /\ state[boot] = "NEW"
    BY <1>2 DEF SlotInv, Selection, target
  <2>2. trial = "waiting"
    BY <2>1 DEF trial
  <2> QED BY <1>1, <1>2, <2>1, <2>2 DEF ABView, candidate, committed, target
<1>3. CASE upd # "restart"
  <2>1. boot = running /\ state[boot] \in {"UNDEFINED", "PENDING_VERIFY", "VALID"}
    BY <1>3 DEF SlotInv, Selection
  <2>2. trial = IF state[running] = "PENDING_VERIFY" THEN "running" ELSE "none"
    BY <2>1 DEF trial
  <2> QED BY <1>3, <2>1, <2>2 DEF ABView, candidate, committed
<1> QED BY <1>2, <1>3

LEMMA ABInit == Init => AB!Init
<1> SUFFICES ASSUME Init PROVE AB!Init
  OBVIOUS
<1>1. SlotInv /\ ABView
  BY SlotInvInit, ViewHolds
<1>2. slot[running] \in Good
  BY <1>1, NoImageAssumption DEF SlotInv, TypeOK, Contents, OwnImage, Good
<1>3. upd # "restart" /\ state[running] # "PENDING_VERIFY"
  BY DEF Init, Slots
<1> QED BY <1>1, <1>2, <1>3 DEF AB!Init, ABView

\* A reset starts a waiting trial, gives a running one up, or changes nothing.
LEMMA ResetABStep ==
  ASSUME SlotInv, SlotInv', Reset
  PROVE  [AB!Next]_AB!abVars
<1>1. running \in Slots /\ boot \in Slots /\ Chosen \in Slots
  BY ChosenIsOwn DEF SlotInv, TypeOK
<1>2. /\ Other(running) \in Slots /\ Other(running) # running
      /\ Other(Other(running)) = running
  BY <1>1, OtherSlot
<1>3. ABView
  BY ViewHolds
<1>4. ABView'
  BY ViewHolds, PTL
<1>5. upd' # "restart" /\ slot' = slot /\ running' = Chosen
  BY DEF Reset
<1>6. CASE upd = "restart"
  <2>1. /\ boot = Other(running) /\ state[boot] = "NEW" /\ ~RolledBack
        /\ Chosen = Other(running)
    BY <1>6, ChosenIsOwn DEF SlotInv, Selection, target, RolledBack
  <2>2. state'[running'] = "PENDING_VERIFY"
    BY <1>1, <1>5, <2>1 DEF Reset
  <2>3. Other(running)' = running
    BY <1>2, <1>5, <2>1 DEF Other
  <2>4. /\ trial = "waiting" /\ candidate = slot[Other(running)]
        /\ committed = slot[running]
    BY <1>3, <1>6 DEF ABView, target
  <2>5. /\ trial' = "running" /\ candidate' = slot[Other(running)]
        /\ committed' = slot[running]
    BY <1>4, <1>5, <2>1, <2>2, <2>3 DEF ABView
  <2> QED BY <2>4, <2>5 DEF AB!Next, AB!FirstBoot
<1>7. CASE upd # "restart" /\ state[running] = "PENDING_VERIFY"
  <2>1. boot = running /\ RolledBack /\ Chosen = Other(running)
    BY <1>7, ChosenIsOwn DEF SlotInv, Selection, RolledBack
  <2>2. state'[running'] # "PENDING_VERIFY"
    BY <1>1, <1>2, <1>5, <1>7, <2>1 DEF Reset, SlotInv, FallbackKept
  <2>3. trial = "running" /\ committed = slot[Other(running)]
    BY <1>3, <1>7 DEF ABView
  <2>4. trial' = "none" /\ candidate' = NoImage /\ committed' = slot[Other(running)]
    BY <1>4, <1>5, <2>1, <2>2 DEF ABView
  <2> QED BY <2>3, <2>4 DEF AB!Next, AB!GiveUp
<1>8. CASE upd # "restart" /\ state[running] # "PENDING_VERIFY"
  <2>1. boot = running /\ ~RolledBack /\ Chosen = running
    BY <1>8, ChosenIsOwn DEF SlotInv, Selection, RolledBack
  <2>2. state[running] \in {"UNDEFINED", "VALID"}
    BY <1>8 DEF SlotInv, Selection
  <2>3. state'[running'] # "PENDING_VERIFY"
    BY <1>1, <1>5, <2>1, <2>2 DEF Reset
  <2>4. trial = "none" /\ candidate = NoImage /\ committed = slot[running]
    BY <1>3, <1>8 DEF ABView
  <2>5. trial' = "none" /\ candidate' = NoImage /\ committed' = slot[running]
    BY <1>4, <1>5, <2>1, <2>3 DEF ABView
  <2> QED BY <2>4, <2>5 DEF AB!abVars
<1> QED BY <1>6, <1>7, <1>8

\* A step that keeps the running slot, what it and its fallback hold, and their
\* otadata entries, without switching the boot slot, is a stutter.
LEMMA QuietABStep ==
  ASSUME SlotInv, SlotInv', upd # "restart", upd' # "restart",
         running' = running, slot'[running] = slot[running],
         state'[running] = state[running],
         state[running] = "PENDING_VERIFY" => slot' = slot
  PROVE  [AB!Next]_AB!abVars
<1>1. ABView
  BY ViewHolds
<1>2. ABView'
  BY ViewHolds, PTL
<1>3. Other(running)' = Other(running)
  BY DEF Other
<1> QED BY <1>1, <1>2, <1>3 DEF ABView, AB!abVars

LEMMA ABNext == SlotInv /\ SlotInv' /\ [Next]_vars => [AB!Next]_AB!abVars
<1> SUFFICES ASSUME SlotInv, SlotInv', [Next]_vars PROVE [AB!Next]_AB!abVars
  OBVIOUS
<1>0. /\ running \in Slots /\ target \in Slots /\ target # running
  BY OtherSlot DEF SlotInv, TypeOK, target
<1>1. ABView
  BY ViewHolds
<1>2. ABView'
  BY ViewHolds, PTL
<1>3. CASE PowerCycle \/ Crash \/ Restart
  BY <1>3, ResetABStep DEF PowerCycle, Crash, Restart
<1>4. CASE StartServices \/ UNCHANGED vars
  BY <1>4, <1>1, <1>2
     DEF StartServices, vars, flash, app, post, AB!abVars, trial, candidate, committed
<1>5. CASE ota_mark_valid
  <2>1. CASE state[running] = "PENDING_VERIFY"
    <3>1. upd # "restart" /\ upd' = upd /\ running' = running /\ slot' = slot
      BY <1>5, <2>1 DEF ota_mark_valid, post, SlotInv, Selection
    <3>2. state'[running] = "VALID"
      BY <1>0, <1>5, <2>1 DEF ota_mark_valid, SlotInv, TypeOK
    <3>3. trial = "running" /\ candidate = slot[running]
      BY <1>1, <2>1, <3>1 DEF ABView
    <3>4. trial' = "none" /\ candidate' = NoImage /\ committed' = slot[running]
      BY <1>2, <3>1, <3>2 DEF ABView
    <3> QED BY <3>3, <3>4 DEF AB!Next, AB!Commit
  <2>2. CASE state[running] # "PENDING_VERIFY"
    <3>1. state' = state
      BY <1>0, <1>5, <2>2 DEF ota_mark_valid, SlotInv, TypeOK
    <3> QED BY <1>5, <3>1
            DEF ota_mark_valid, AB!abVars, trial, candidate, committed
  <2> QED BY <2>1, <2>2
<1>6. CASE Begin \/ Recv
  <2>1. /\ upd # "restart" /\ upd' # "restart" /\ running' = running
        /\ state' = state
    BY <1>6 DEF Begin, Recv, app
  <2>2. slot'[running] = slot[running]
    BY <1>0, <1>6 DEF Begin, Recv, SlotInv, TypeOK
  <2>3. state[running] # "PENDING_VERIFY"
    BY <1>6 DEF Begin, Recv, SlotInv, Selection
  <2> QED BY <2>1, <2>2, <2>3, QuietABStep
<1>7. CASE RecvDone \/ End \/ CheckBoard \/ Fail
  <2>1. /\ upd # "restart" /\ upd' # "restart"
        /\ running' = running /\ slot' = slot /\ state' = state
    BY <1>7 DEF RecvDone, End, CheckBoard, Fail, flash, app
  <2> QED BY <2>1, QuietABStep
<1>8. CASE SetBoot
  <2>1. /\ upd # "restart" /\ upd' = "restart" /\ running' = running
        /\ slot' = slot /\ state[running] # "PENDING_VERIFY"
        /\ OwnImage(target)
    BY <1>8 DEF SetBoot, app, SlotInv, Selection, Contents
  <2>2. target' = target
    BY <2>1 DEF target, Other
  <2>3. slot[target] \in Good
    BY <1>0, <2>1 DEF SlotInv, TypeOK, OwnImage, Good
  <2>4. trial = "none" /\ committed = slot[running]
    BY <1>1, <2>1 DEF ABView
  <2>5. trial' = "waiting" /\ candidate' = slot[target] /\ committed' = slot[running]
    BY <1>2, <2>1, <2>2 DEF ABView
  <2> QED BY <2>3, <2>4, <2>5 DEF AB!Next, AB!Offer
<1> QED BY <1>3, <1>4, <1>5, <1>6, <1>7, <1>8 DEF Next, app_main, update_post

\* The slots, otadata and update_post implement the abstract update: every step
\* is one of its steps or a stutter, a reset at any point included.
THEOREM ImplementsABUpdate == Spec => ImplementsAB
<1>1. SlotInv /\ SlotInv' /\ [Next]_vars => [AB!Next]_AB!abVars
  BY ABNext
<1> QED BY ABInit, SlotInvAlways, <1>1, PTL DEF Spec, ImplementsAB, AB!Spec
=============================================================================
