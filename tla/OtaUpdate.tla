----------------------------- MODULE OtaUpdate -----------------------------
(***************************************************************************)
(* main/ota.c, and the part of main/main.c that decides whether a freshly  *)
(* uploaded image is kept.  update_post streams an upload into the spare   *)
(* slot, checks it and switches the boot slot; app_main marks the running  *)
(* image valid at its end; the bootloader, which is external, rolls an     *)
(* image back that was reset before that.  A reset may come at any step.   *)
(*                                                                         *)
(* An image is the board it was built for and how it behaves once booted:  *)
(* it comes up, it crashes before the end of app_main, or it comes up      *)
(* except that its HTTP server does not start.  A slot that was erased, is *)
(* partly written or was filled with something that is no image holds      *)
(* NoImage.  A receive that times out is retried and changes nothing, so   *)
(* it is left out.                                                         *)
(***************************************************************************)
EXTENDS Integers

CONSTANTS
  Boards,
  Mine,            \* the board of this device
  NoImage,
  Chunks,          \* bound: receives that make up an upload
  MaxUploads,      \* bound: uploads
  MaxResets        \* bound: resets nobody asked for

ASSUME OtaAssumption ==
  /\ Mine \in Boards
  /\ Chunks \in Nat \ {0}
  /\ {MaxUploads, MaxResets} \subseteq Nat

Slots == {"ota_0", "ota_1"}
Image == [board : Boards, once_booted : {"comes up", "crashes", "no http"}]
ASSUME NoImageAssumption == NoImage \notin Image

VARIABLES
  slot,            \* what each slot holds
  state,           \* esp_ota_img_states_t of each slot, in the otadata partition
  boot,            \* the slot the otadata partition selects
  running,         \* the slot the running image was booted from
  stage,           \* where app_main is
  http_server,     \* the HTTP server is up
  upd,             \* where update_post is
  file,            \* the upload
  remaining,       \* receives still to come
  uploads, resets

flash == <<slot, state, boot>>
app   == <<running, stage, http_server>>
post  == <<upd, file, remaining>>
vars  == <<flash, app, post, uploads, resets>>

TypeOK ==
  /\ slot \in [Slots -> Image \cup {NoImage}]
  /\ state \in [Slots -> {"UNDEFINED", "NEW", "PENDING_VERIFY", "VALID", "ABORTED"}]
  /\ {boot, running} \subseteq Slots
  /\ stage \in {"starting", "started", "ready"}
  /\ http_server \in BOOLEAN
  /\ upd \in {"idle", "recv", "end", "board", "set_boot", "restart"}
  /\ file \in Image \cup {NoImage}
  /\ remaining \in 0..Chunks
  /\ uploads \in 0..MaxUploads /\ resets \in 0..MaxResets

-----------------------------------------------------------------------------
(* The bootloader, with rollback enabled (sdkconfig.defaults:38) *)

Other(s) == CHOOSE o \in Slots : o # s

RolledBack == state[boot] = "PENDING_VERIFY"

\* The slot a reset would boot: the selected one, unless its image was booted
\* once and not confirmed, or is no image.
Chosen ==
  LET s == IF RolledBack THEN Other(boot) ELSE boot
  IN  IF slot[s] # NoImage THEN s ELSE Other(s)

Reset ==
  /\ boot' = Chosen
  /\ running' = Chosen
  /\ state' = [s \in Slots |->
       IF s = Chosen /\ state[s] = "NEW" THEN "PENDING_VERIFY"
       ELSE IF s = boot /\ RolledBack THEN "ABORTED"
       ELSE state[s]]
  /\ stage' = "starting" /\ http_server' = FALSE
  /\ upd' = "idle" /\ file' = NoImage /\ remaining' = 0
  /\ UNCHANGED slot

\* The image flashed over the cable, before the first upload.
Init ==
  /\ slot = [s \in Slots |->
       IF s = "ota_0" THEN [board |-> Mine, once_booted |-> "comes up"] ELSE NoImage]
  /\ state = [s \in Slots |-> "UNDEFINED"]
  /\ boot = "ota_0" /\ running = "ota_0"
  /\ stage = "starting" /\ http_server = FALSE
  /\ upd = "idle" /\ file = NoImage /\ remaining = 0
  /\ uploads = 0 /\ resets = 0

\* A power cut or the reset button.
PowerCycle ==
  /\ resets < MaxResets
  /\ resets' = resets + 1
  /\ Reset
  /\ UNCHANGED uploads

-----------------------------------------------------------------------------
(* app_main *)

once_booted == slot[running].once_booted

\* From bridge_init to leds_start: http_status_start logs that the server did
\* not start, and returns.
StartServices ==
  /\ stage = "starting"
  /\ once_booted # "crashes"
  /\ http_server' = (once_booted # "no http")
  /\ stage' = "started"
  /\ UNCHANGED <<flash, running, post, uploads, resets>>

\* ESP_ERROR_CHECK, a panic or a watchdog.
Crash ==
  /\ stage = "starting"
  /\ once_booted = "crashes"
  /\ Reset
  /\ UNCHANGED <<uploads, resets>>

\* Mutant: the image is confirmed before the services are started.
MarkAtOnce ==
  /\ stage # "ready"
  /\ stage' = IF stage = "started" THEN "ready" ELSE stage
  /\ state' = [state EXCEPT ![running] = IF @ = "PENDING_VERIFY" THEN "VALID" ELSE @]
  /\ UNCHANGED <<slot, boot, running, http_server, post, uploads, resets>>

ota_mark_valid ==
  /\ stage = "started"
  /\ stage' = "ready"
  /\ state' = [state EXCEPT ![running] = IF @ = "PENDING_VERIFY" THEN "VALID" ELSE @]
  /\ UNCHANGED <<slot, boot, running, http_server, post, uploads, resets>>

-----------------------------------------------------------------------------
(* update_post, in the HTTP task *)

\* Mutant of target: always the second slot.
TargetFixed == "ota_1"

target == Other(running)

\* Mutant: the board is not compared.
AnyBoard(a, b) == TRUE

same_board(a, b) == a.board = b.board

\* esp_ota_begin refuses while the running image is not confirmed, and erases
\* the target slot otherwise.
Begin ==
  /\ http_server
  /\ upd = "idle"
  /\ uploads < MaxUploads
  /\ uploads' = uploads + 1
  /\ state[running] # "PENDING_VERIFY"
  /\ slot' = [slot EXCEPT ![target] = NoImage]
  /\ file' \in Image \cup {NoImage}
  /\ remaining' = Chunks
  /\ upd' = "recv"
  /\ UNCHANGED <<state, boot, app, resets>>

\* Mutant: one receive too many.
RecvPastEnd ==
  /\ upd = "recv"
  /\ remaining >= 0
  /\ remaining' = remaining - 1
  /\ slot' = [slot EXCEPT ![target] = IF remaining = 1 THEN file ELSE NoImage]
  /\ UNCHANGED <<state, boot, app, upd, file, uploads, resets>>

\* httpd_req_recv and esp_ota_write: the image is there with its last chunk.
Recv ==
  /\ upd = "recv"
  /\ remaining > 0
  /\ remaining' = remaining - 1
  /\ slot' = [slot EXCEPT ![target] = IF remaining = 1 THEN file ELSE NoImage]
  /\ UNCHANGED <<state, boot, app, upd, file, uploads, resets>>

RecvDone ==
  /\ upd = "recv"
  /\ remaining = 0
  /\ upd' = "end"
  /\ UNCHANGED <<flash, app, file, remaining, uploads, resets>>

\* Mutant: the validated image is booted without a look at its board.
EndThenBoot ==
  /\ upd = "end"
  /\ slot[target] # NoImage
  /\ upd' = "set_boot"
  /\ UNCHANGED <<flash, app, file, remaining, uploads, resets>>

End ==
  /\ upd = "end"
  /\ slot[target] # NoImage
  /\ upd' = "board"
  /\ UNCHANGED <<flash, app, file, remaining, uploads, resets>>

CheckBoard ==
  /\ upd = "board"
  /\ same_board(slot[running], slot[target])
  /\ upd' = "set_boot"
  /\ UNCHANGED <<flash, app, file, remaining, uploads, resets>>

SetBoot ==
  /\ upd = "set_boot"
  /\ boot' = target
  /\ state' = [state EXCEPT ![target] = "NEW"]
  /\ upd' = "restart"
  /\ UNCHANGED <<slot, app, file, remaining, uploads, resets>>

\* The client aborts, a write fails, the image or its board is wrong, or
\* otadata cannot be written: the handler answers and returns.
Fail ==
  /\ \/ upd = "recv" /\ remaining > 0
     \/ upd = "end"
     \/ upd = "board" /\ ~same_board(slot[running], slot[target])
     \/ upd = "set_boot"
  /\ upd' = "idle" /\ file' = NoImage /\ remaining' = 0
  /\ UNCHANGED <<flash, app, uploads, resets>>

Restart ==
  /\ upd = "restart"
  /\ Reset
  /\ UNCHANGED <<uploads, resets>>

update_post ==
  Begin \/ Recv \/ RecvDone \/ End \/ CheckBoard \/ SetBoot \/ Fail \/ Restart

app_main == StartServices \/ ota_mark_valid

Next == app_main \/ Crash \/ update_post \/ PowerCycle

Spec == Init /\ [][Next]_vars

\* app_main runs to its end, a crash resets, and so does a finished update.
FairSpec == Spec /\ WF_vars(app_main) /\ WF_vars(Crash) /\ WF_vars(Restart)

-----------------------------------------------------------------------------
(* Properties *)

OwnImage(s) == slot[s] # NoImage /\ slot[s].board = Mine

\* Whenever a reset comes, between any two steps of an upload too, the device
\* boots a complete image built for its board (ota.c:70-90).
BootsOwnImage == OwnImage(Chosen)

\* While an image is on probation, what it would be rolled back to is complete,
\* for this board, and was confirmed or flashed over the cable.
FallbackKept ==
  state[running] = "PENDING_VERIFY" =>
    OwnImage(Other(running)) /\ state[Other(running)] \in {"VALID", "UNDEFINED"}

\* The image on trial is the selected one while its otadata entry says so; the
\* committed one is the other slot's then, and the selected one's otherwise.
trial == CASE state[boot] = "NEW"            -> "waiting"
           [] state[boot] = "PENDING_VERIFY" -> "running"
           [] OTHER                          -> "none"
candidate == IF trial = "none" THEN NoImage ELSE slot[boot]
committed == IF trial = "none" THEN slot[boot] ELSE slot[Other(boot)]

Good == {i \in Image : i.board = Mine}

AB == INSTANCE ABUpdate

\* The two slots, with resets anywhere, are an A/B update: the committed image
\* is never touched but to be replaced by one that was checked, booted once on
\* trial and confirmed, and a trial ends in that or in the image before it.
ImplementsAB == AB!Spec

\* README.md:168-169: "A bad image that fails to boot is rolled back to the
\* previous slot automatically": the device always comes up again.
ComesUpAgain == []<>(stage = "ready")

\* main.c:43-44: an image is confirmed when "everything came up", the HTTP
\* server that could replace it included.
KeptImageServes == state[running] = "VALID" /\ stage = "ready" => http_server
=============================================================================
