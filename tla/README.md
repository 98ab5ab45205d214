# A verification development for betaflight-bridge

betaflight-bridge is firmware for an ESP32-S3 that acts as USB host to a flight
controller (FC) and offers the FC's serial stream to Betaflight Configurator over
TCP port 5761, with a web UI for WiFi setup and firmware updates. This directory
holds TLA+ models of the firmware in `src/main/` (repository paths; in this
checkout `src/src/main/`), the TLC configurations that check them, and proofs
checked by TLAPS. `PROJECT.json` maps every definition to the lines it models.

## 1. The system

### 1.1 Tasks and what they share

| context | code | runs | shares |
|---|---|---|---|
| accept task | `tcp_server.c` `tcp_accept_task`, `serve_client` | listen, accept one client, recv loop, close | `s_client`, both buffers |
| TCP TX task | `tcp_server.c` `tcp_tx_task` | pop FC bytes, send to `s_client` | `s_client`, `usb_to_net` |
| connect task | `usb_cdc_host.c` `usb_connect_task` | try known IDs, open, set up, wait for disconnect | `s_cdc_dev`, `s_connected`, `s_open_*`, `s_dev_gone` |
| CDC driver task | `on_cdc_rx`, `on_cdc_event` | push FC bytes; on disconnect close, clear, give | the same |
| USB TX task | `usb_cdc_host.c` `usb_tx_task` | pop client bytes, blocking transfer to the VCP | `s_cdc_dev`, `s_connected`, `net_to_usb` |
| event task | `wifi.c` `on_wifi_event` | join, retry, fall back to the SoftAP | station state under `s_lock` |
| HTTP task | `http_status.c`, `ota.c`, `wifi_set_station` | page, status, scan, join form, update | station state; OTA slots |
| LED task | `leds.c` | shows the state every 50 ms | reads everything |
| main task | `main.c` `app_main` | starts all of it, confirms the image | |

### 1.2 Components, their state, and what makes them correct

- **bridge** (`bridge.c`): two FreeRTOS stream buffers and a traffic counter.
  Push never blocks and may queue a prefix; pop blocks up to 100 ms; `bridge_reset`
  empties both, and FreeRTOS silently refuses to reset a buffer somebody is blocked
  on. The counter is added to without a lock by two tasks. Correct when a byte is never
  repeated, reordered or invented, when a reset really leaves nothing behind, and when a
  lost addition costs one flash of the LED and no more.
- **tcp_server**: one client at a time. `s_client` is written by the accept task and
  read by the TX task with no lock; socket numbers are reused. Correct when
  `s_client` never names a closed socket, a session starts with clean buffers, the
  slot comes back, and no byte reaches the wrong client.
- **usb_cdc_host**: the connect task and the driver's callbacks hand the device back
  and forth through a binary semaphore; everything else they share is unlocked.
  Correct when each open is matched by one close, clear, give and take, the handle of
  an open VCP is never lost, and an attached FC ends up connected.
- **wifi**: station first, SoftAP as the fallback. Decisions are taken under `s_lock`,
  driver calls are made after it. Credentials are two NVS keys. Correct when a
  configured station is always being connected by somebody, the state shown is real,
  and the device can always be reached.
- **ota**: streams an upload into the spare slot, checks it, switches the boot slot,
  and confirms the image at the end of `app_main`. Correct when a reset at any moment
  boots a complete image for this board and a bad image is rolled back.
- **http_status**: one httpd task answers page, status, scan, join form and update; an
  upload keeps it until the last byte. It decodes the form, cuts its fields, escapes the
  JSON. Correct when what a user typed is what is stored, loaded and shown, when an upload
  that breaks off gives the server back, and when idle browsers lock nobody out.
- **leds**: samples the WiFi state and the traffic counter every 50 ms. Correct when the
  two LEDs end up showing what is there, whatever raced before and wherever a counter wraps.
- **boards and build files**, **tools/gen_vcp_ids.py**: configuration.

### 1.3 What is hard here

Unlocked flags read before a blocking call and used after it; callbacks that run
between any two lines of the connect task; socket numbers and device handles that are
reused; events of an old network handled after a new one was configured; a reset
between two flash writes. `PROJECT.json` "hazards" lists each at its line with the
properties that cover it, or the reason none does.

## 2. Modules

| module | models | extends / instantiates |
|---|---|---|
| `Bridge` | both stream buffers: `Push`, `Block`, `Take`, `bridge_reset` | |
| `OrderedChannel` | abstract: a byte channel that may lose and does nothing else; each batch delivered is a step of its own | |
| `TcpServer` | accept and TX task, the client, any USB side | `Bridge`, `OrderedChannel` |
| `UsbCdcHost` | connect task, callbacks, TX task, the USB port, any network side | `Bridge`, `OrderedChannel` |
| `BridgeSystem` | both sides around the same buffers | `TcpServer`, `UsbCdcHost` |
| `WifiStation` | event task, `wifi_set_station`, driver, NVS, reboots | |
| `ABUpdate` | abstract: one committed image, and at most one candidate on trial | |
| `OtaUpdate` | `update_post`, `app_main`, `ota_mark_valid`, bootloader, resets | `ABUpdate` |
| `WebForm` | strings between the page, the store and the driver: encoding, fields, decoding, JSON, scan list (operators only) | |
| `HttpServer` | the httpd task, its sessions and handlers, its clients, boots | `WebForm` |
| `Display` | `s_fc_activity` with its two writers, and the LED task that samples it | |
| `MC*` | small instances for TLC | |
| `*Proofs` | theorems about the module they are named after | TLAPS |

A definition whose comment begins "Mutant" is a broken variant of the one that follows
it. It is used by no specification; it documents a plausible bug and is substituted
for the original to see that a property notices.

### 2.1 How state and actions correspond to the code

**Bridge.** A byte is its position in the stream its producer offered, so "which byte,
in which order, of which session" is visible and the value is not. `buf[d]` is the
stream buffer's content; `waiting[d]` its registered reader (`xTaskWaitingToReceive`);
`fed[d]` counts bytes offered. `Block` is the start of a pop that finds nothing, `Take`
the return of a pop. `bridge_reset` leaves a buffer alone whose reader is registered.

**TcpServer.** `acc` and `tx` are the program counters. One action per step between
which another task can interfere: `Accept`, `StartReset` (53-57), `Publish` (58),
`Recv`, `RecvEnd`, `Unpublish` (78), `EndReset` (79), `Close`; `TxPop`, `TxWake`,
`TxLoad` (the read of `s_client`, after the pop), `TxSend` (any prefix),
`TxSendFails`. `sock` is lwIP's table: which session a socket number names. `since`,
`session` and `first`, `delivered`, `turn` (the latest send) are history. Steps that
change no state (EINTR, EAGAIN, a failing accept) are left out.

**UsbCdcHost.** `con`, `drv`, `utx` are the program counters of the connect task, the
disconnect callback and the TX task. A handle is the number of the plug-in it was
opened on. `OpenOk` / `OpenFails` are one turn of the ID loop, `SetUp` .. `MarkConnected`
the lines after it, `TakeGone` the semaphore; `Disconnected`, `CloseHandle`,
`ClearDev`, `GiveGone` the callback line by line. The two reads of the TX task's check
(`s_connected`, then `s_cdc_dev`) and the transfer are separate steps.

**BridgeSystem.** A step is a step of one side's tasks, with the other side's state
unchanged. The `UsbSide` and `NetSide` environments of the components are replaced by
the real other side. `discarded` is history: what the resets of either side found in the
buffers and emptied. A chunk that a TX task popped before a reset is not among it and may
still cross into the next session; that is what `NoStaleByte` shows (section 3).

**WifiStation.** A section under `s_lock` is one step; each driver call after it is
another. `ev` is what the event task still has to do, `evq` the default event loop's
queue, `http` the position in `wifi_set_station`, `nvs` the two stored keys (an absent
key is `None`), `cfg`, `link` and `joined` the driver, `apUp` the SoftAP itself (as
opposed to `s_ap_active`). The four `Decide...` actions are the branches of the
`STA_DISCONNECTED` handler. `Reboot` may come anywhere and runs `wifi_start` on what
NVS then holds; a save interrupted between its two keys is therefore included.

**OtaUpdate.** `slot`, `state`, `boot` are the flash: contents, per-slot image state,
selected slot. `upd` is where `update_post` is, `stage` where `app_main` is. An image is
its board and how it behaves once booted. `Reset` is the bootloader; `PowerCycle`,
`Crash` and `Restart` are the three ways to it. The refinement reads `ABUpdate`'s variables
off the flash: the committed image is the one a failed trial falls back to, the candidate
is the one the otadata selects and nobody has confirmed.

**HttpServer.** A `Round` is the server's: accept the oldest waiting connection, closing the
session unused for longest when the sockets have run out (`lru_purge_enable`), then select;
`ready` is what select reported and is served before the next round. One action per handler:
`Get` (`root_get`, `status_get`), `scan_get`, `wifi_post` (`PostForm`, `PostFails`), and
`Upload`, after which the task belongs to `serving` until `UploadAborted`,
`UploadRefused` or `UploadAccepted`; `Stall`, `Resume` and `BreakOff` are what the uploading
client may do meanwhile. `wifi_set_station` is one step here, since the same task runs all of
it. `PostForm` hands `wifi_set_station` what the operators of `WebForm` make of any prefix of
the body, as `wifi_post` receives once and ignores the rest.

**WebForm.** A string is a sequence of characters, and a few characters stand for their kind.
Each operator is the loop of one function (`url_decode`, `json_escape`, `wifi_scan`) or one
library call as it is used (`strlcpy`, `KeyValue` for `httpd_query_key_value`). `Code`,
`CharOf` and `JsonRead` are the browser's side, against which the firmware's is checked. A
loop with a step of its own is that step, folded (`Listed` for one record of a scan, `Escaped`
and `EscapeAt` for one character of a string). The alphabet is what the page can send:
characters `encodeURIComponent` leaves alone (`Unreserved`, a parameter), those it escapes
(`Reserved`), the separators of the body (`Keys`) and the hexadecimal digits; `ODD` stands
for the byte of an escape the page never writes but a cut one may decode to.

**Display.** `LoadCount` and `StoreCount` are the two halves of `s_fc_activity += sent` in
the two push functions. `ShowWifi`, `Sample` and `ShowLink` are one iteration of `led_task`,
split where the counter is read. `window`, `moved` and `judged` are history: what the stores
of a tick did, so that "missed" can be told from "nothing moved".

## 3. Runs

All runs end within about two minutes on a laptop. The first seven check what holds, safety
and liveness together, under the module's `FairSpec`.

| run | checks | shows |
|---|---|---|
| `tcp_server` | `TypeOK SClientOpen CleanStart InOrder`, refinement `ToNetOrdered`, liveness `SlotFreed` | sessions start clean, the published socket is real, the FC's bytes arrive in order and at most once, the slot of a client that left is given back |
| `usb_cdc_host` | `TypeOK SearchFromClean OpenHandleKept CleanOpen`, refinement `ToUsbOrdered`, liveness `EventuallyConnected` | the disconnect handshake is exact, the client's bytes arrive in order and at most once, no wake-up of the connect task is lost |
| `bridge_system` | action property `DiscardedForGood`, refinements `ImplementsTcp`, `ImplementsUsb` | the composition implements both components; a byte that any of the three resets (`tcp_server.c:57`, `79`, `usb_cdc_host.c:132`) threw away is delivered to nobody, however often either side reconnects |
| `wifi_station` | `TypeOK ConnectNotForgotten ShownStateIsReal ApRaisedOnce ConfigIsStored`, liveness `FallbackRaised` | the WiFi state machine, with an unreachable network, or a torn save, ending with the AP up |
| `ota_update` | `TypeOK BootsOwnImage FallbackKept`, refinement `ImplementsAB`, liveness `ComesUpAgain` | resets at any step of an update; a bad image is rolled back; the image to fall back to changes only to one that was tried |
| `http_server` | `TypeOK FormTakenAsTyped BootKeepsNetwork StatusNamesNetwork ScanListsEachOnce`, liveness `EveryAskEnds EveryoneGetsIn` | names and passwords survive encoding, cutting, storing, booting and JSON where they fit; an upload that breaks off, or idle sessions, lock nobody out |
| `display` | `TypeOK CostsOneTick FlashIsTraffic`, liveness `PixelSettles WifiLedTells` | a lost addition costs the tick it happens in and no other; both LEDs settle on what is there, across both wraps |

Five runs check what a comment or a document says and the code does not do; TLC finds
the counterexample.

| run | property | what happens |
|---|---|---|
| `tcp_stale_byte` | `NoStaleByte` | the TX task pops for one client and reads `s_client` (or keeps a reused socket number) after the next was accepted |
| `usb_phantom` | `ConnectedMeansOpen` | a disconnect during set-up is followed by `s_connected = true`, with no VCP open |
| `wifi_clear` | `ClearedStaysOff` | a connect decided before a clear is made after it |
| `wifi_reachable` | `AlwaysReachable` | `s_ever_connected` survives a live reconfiguration: a new, unreachable network is retried for ever and the AP stays down |
| `ota_kept` | `KeptImageServes` | an image whose HTTP server failed to start is confirmed |

### 3.1 Bounds, and why they are enough

- Buffers of 1 or 2 bytes, chunks of 1 or 2, and up to 4 bytes offered: enough for a full
  buffer, a truncated push, a partial send, and bytes of two sessions in flight at once.
- Two client sessions over two socket numbers: a number can be reused, and a stale one
  can be unrelated. Two plug-ins over two known and one unknown ID: a second device while
  the first one's callback is still running, a search that wraps, one that never matches.
- The system run uses one byte each way, one socket number and one ID; two sessions and
  two plug-ins still meet in every order.
- WiFi: one reachable and one unreachable network, so a torn save mixes them; up to three
  requests, three spontaneous link losses and one reboot; an event queue of three (the
  driver waits while it is full), longer than any backlog one request creates. The retry
  limit is 1 or 2 instead of 5; only "below" and "reached" matter.
- OTA: two slots as in the partition tables, two boards, three uploads (one per slot and
  one more), two spontaneous resets, uploads of two chunks so that "partly written" exists.
- HTTP: three clients for two sockets: one session is closed for another, and an upload keeps
  two others waiting. Buffers keep the order of their sizes but hold a few characters, and
  the three forms are chosen to fit exactly, to be cut inside an escape, to fill the driver's
  field, and to fit the driver's field but not the form's. Two scan results: a name heard
  again after another one and more names than the list holds, and a hidden network.
- LEDs: the counter and the tick wrap at 3, which no blink divides; pushes of up to one byte
  in both directions at once; one change of the flags, after any initial ones. The counter
  does not go all the way round within one tick (2^32 bytes in 50 ms).

`CHECK_DEADLOCK FALSE` is set in the WiFi and OTA configurations: with no request left
and a settled link, nothing more has to happen.

### 3.2 Fairness

- `TcpServer!FairSpec`: weak fairness of the serving steps of the accept task only.
  FreeRTOS runs every ready task; nothing is assumed of the TX task or the USB side, which
  is the point of `SlotFreed`. No fairness of the client: one that vanishes without FIN or
  RST may block `recv` for ever (no keepalive is set), and the property does not
  claim otherwise.
- `UsbCdcHost!FairSpec`: weak fairness of the connect task and of the driver's event
  delivery; strong fairness of `OpenOk`, because the code tries again every second
  and an open on a device that stays attached is assumed not to fail for ever.
- `WifiStation!FairSpec`: weak fairness of both tasks, and of the driver answering a join
  one way or the other. Link losses and requests are never forced.
- `OtaUpdate!FairSpec`: weak fairness of `app_main`, of an image that crashes doing so,
  and of the restart that ends an update. Uploads are never forced.
- `HttpServer!FairSpec`: weak fairness of the httpd task. No client has to go on with what it
  began. An upload that pauses without breaking off is retried for ever by `ota.c`, so both
  liveness properties have the premise that no upload pauses for ever (`CalmUploads`).
- `Display!FairSpec`: weak fairness of `led_task`, a FreeRTOS task ready every 50 ms; nothing
  is assumed of the tasks it shows.

## 4. Proofs

The theorems hold for every value of the constants (buffer sizes, numbers of sessions,
sockets, devices, networks, uploads, resets), from the named ASSUMEs in the modules
(`BridgeAssumption`, `TcpAssumption`, `UsbAssumption`, `ChunkAssumption`, `WifiAssumption`,
`OtaAssumption`, `NoImageAssumption`, `DisplayAssumption`, `FormAssumption`, `HttpAssumption`),
which say that sizes are positive, the "none" values are distinct from the others, and bounds
are naturals. The last two say a little more, each from a line of the code: a driver field is
smaller than the buffer its name or password is loaded into (32 and 33, 64 and 65), a shown
name fits the JSON buffer even if every character becomes `\u00XX` (6 * 32 < 200), a character
the page leaves alone is none of those it escapes, a form has a name (`http_status.c:115`: the
page's script sends none without), and the driver sorts its scan by signal (the comment at `wifi.c:377`).

**`BridgeProofs`** has no theorem about a specification but the lemmas the two sides rest
on: what a push, a pop and a reset do to a buffer (`PushProperties`, `TakeProperties`,
`ResetProperties`), that any call keeps the types and `WaitingMeansEmpty` (a
registered reader means an empty buffer; it is why a refused reset loses nothing), and the
`Flow...` lemmas: the sequence "held by the sender, then queued" is increasing and lies
between the last byte delivered and the last one offered, and every bridge call, pop,
delivery and drop keeps it so.

**`TcpServerProofs`**
- `TypeCorrect`: by `TInv`, the type invariant with `WaitingMeansEmpty`.
- `PublishedSocketOpen` (`SClientOpen`): strengthened by `SessionSocket`, which names the
  open socket at every program counter of the accept task.
- `SessionsStartClean` (`CleanStart`): strengthened by `since <= fed`; the opening reset
  establishes it because a refused reset is of an empty buffer.
- `BytesInOrder` (`InOrder`): from `FlowInv`.
- `ImplementsChannel` (`ToNetOrdered`): every step maps to `Offer`, `Deliver` or a stutter
  of `OrderedChannel`.

**`UsbCdcHostProofs`**
- `TypeCorrect`.
- `SearchStartsClean` (`SearchFromClean`) and `OpenHandleIsKept` (`OpenHandleKept`): from
  `HandshakeInv`, which ties the positions of the connect task and of the callback to the
  open handle, `s_cdc_dev` and the semaphore: exactly one of them owes the next move.
- `OpensStartClean` (`CleanOpen`) and `ImplementsChannel` (`ToUsbOrdered`), as above.

**`WifiStationProofs`**
- `TypeCorrect`: one lemma per party (station state, tasks, queue, driver, bounds).
- `ApIsRaisedOnce` (`ApRaisedOnce`): inductive given the types.
- `ConfigSurvivesReboot` (`ConfigIsStored`): by `StoredInv`, which says at each step of a
  request what is stored and what is configured so far.
- `StationIsConnected` (`ConnectNotForgotten`) and `ShownStateAgrees` (`ShownStateIsReal`):
  from `StationInv`. `LinkInv` ties the link to the last event queued and says a start event
  is the first; `ShownInv` says when, with nothing queued, the state shown may differ from
  the link; `ConnectInv` names who is about to connect a station that shows "connecting".
  None of the three is inductive alone: an old event handled late is harmless only because
  the newest one in the queue is about the present link.

**`OtaUpdateProofs`**
- `TypeCorrect`, `ResetsBootOwnImage` (`BootsOwnImage`), `ProbationHasFallback`
  (`FallbackKept`): from `SlotInv`, which says which slot the otadata selects at each
  step of `update_post`, that no image is on probation while an upload runs, and what has
  been checked about the target slot. `ResetKeeps` treats a reset at any point once, for
  its three callers.
- `ImplementsABUpdate` (`ImplementsAB`): `ABView` says what the abstract variables are under
  `SlotInv`, with no `CHOOSE` left; each action is then one abstract step or a stutter.

**`BridgeSystemProofs`**
- `SystemImplementsTcp` (`ImplementsTcp`) and `SystemImplementsUsb` (`ImplementsUsb`): each
  step of the other side is one call the component's environment may make. `TakeCapped`
  shows that a pop with the other side's chunk size is one the environment may make, and
  `SharedInv` carries the types both sides need.
- `DiscardedStays` (`DiscardedForGood`): by `LiveInv`, which says that the chunk a TX task
  holds comes before everything queued, both in order, and that nothing of either was
  discarded. A reset moves bytes from the queue to `discarded`, and a refused one is of an
  empty buffer; what a step delivers is of the chunk.

**`DisplayProofs`**
- `TypeCorrect`, `LossCostsOneTick` (`CostsOneTick`), `FlashMeansTraffic` (`FlashIsTraffic`):
  by `CountInv`, which relates the counter, modulo its width, to the last sample and the
  bytes stored since, as long as no store overwrote another, and `JudgedInv`, which carries
  the verdict of the sample to the colour.

**`HttpServerProofs`**
- Its properties are about what loops over strings compute, so the proofs need induction over
  data. The provers cannot take an induction theorem with an operator as its parameter; they
  can take one about a set: `NatSetInduction` says that a set of naturals with 0 in it and
  closed under successor is all of them, proved from `LeastElement`, and each induction
  defines the set of lengths for which its claim holds. `LoopDefined` and `TailDefined` show,
  once for each shape of loop, that the recursive function a module writes has the equation
  it is written with; `EncodeDefined`, `DecodeDefined`, `EscapeDefined`, `ReadDefined` and
  `ScanDefined` are their instances.
- `DecodeEncode`: `url_decode` gives back what `encodeURIComponent` was given, for every
  string the page can send. A string written piece by piece has each piece where the lengths
  before it say (`PiecesPlaced`), so the decoder, wherever a piece starts, reads that piece
  (`CodeDecoded`) and goes on at the next. `DecodeShorter` bounds what it writes: never more
  than it reads, for any body whatever.
- `FormStoredAsTyped` (`FormTakenAsTyped`): `BodyFields` finds both fields of a body the page
  built, `FormRead` decodes them; what a cut body gives is only known to fit
  (`FieldsFit`, `ReceivedPart`), and the history variable `whole` tells the two apart.
- `StatusNames` (`StatusNamesNetwork`): by `ReadEscape`, that a JSON reader gets back the
  name that was escaped; the assumption on the buffer's size is what makes it so.
- `ScanLists` (`ScanListsEachOnce`): by `ScanEachOnce`. After each record the list holds
  different names, in the order heard, each with the first and so the strongest record of its
  name, and leaves one out only if the list is full (`ListedStep`).
- `BootKeeps` (`BootKeepsNetwork`): by `CredsInv`, which says that if the stored credentials
  can be loaded, the driver has what a boot would configure. `Applied` (`wifi.c:172-177`) and
  `AtBoot` (`wifi.c:279-282`) are separate definitions; `DriverStringsFit` proves them equal.
- `TypeCorrect` (`TypeOK`): by `SessionInv`, which adds that a client waits at most once and
  not while it has a session, and that every request and the upload are of an open session.

**Only model-checked.** Everything under fairness (`SlotFreed`, `EventuallyConnected`,
`FallbackRaised`, `ComesUpAgain`, `EveryAskEnds`, `EveryoneGetsIn`, `PixelSettles`,
`WifiLedTells`), which is out of the prover's reach, as is ENABLED. Every invariant and every
refinement that a passing run checks is also a theorem, and so is the action property.

## 5. Abstractions and limits

- A stream buffer call is atomic, and there is one reader and one writer per direction: the
  contract of FreeRTOS that `bridge.c` relies on. A reset in the middle of another task's
  send or receive, which FreeRTOS does not exclude for a reader that is not blocked, is not
  modelled.
- Reads and writes of `int`, `bool` and pointer variables are atomic and sequentially
  ordered (they are aligned words; the compiler's freedom with the volatile ones is not used).
- Sockets, the CDC driver, the USB host library, the WiFi driver, the event loop, NVS, the
  `esp_ota` functions and the bootloader are external, modelled from how `src/main` uses
  them. `esp_wifi_connect` is taken to do nothing when a join is under way or done,
  `esp_wifi_disconnect` to post `STA_DISCONNECTED` when there was something to end, and
  `esp_ota_begin` to refuse while the running image is pending verification. The driver is
  taken to post the `GOT_IP` of a link before the `STA_DISCONNECTED` that ends the same link;
  `ShownStateIsReal` relies on that order.
- A join fails for a reason that stays (wrong network, wrong password) or, a bounded number
  of times, for one that goes away. An `ESP_ERROR_CHECK` abort is a reboot.
- How an image behaves once booted is a property of the image.
- The web page's script is modelled as far as it encodes a form; the rest of the page, of the
  status answer and the layout of both are left out.
- A scan is the list the driver returns, sorted as it documents; the scan's own time out is
  one of the ways to an empty list.
- Both LEDs are there and their driver could be installed; a board without one shows less.
- `HttpServer` and `WifiStation` model `wifi_set_station` twice, once as one step with real
  strings and once in its steps with networks as values; they are not composed.
- lwIP's table of sockets is one for the whole device. `TcpServer` and `HttpServer` each have
  sockets of their own, so a shortage that one causes the other is not modelled; `EveryoneGetsIn`
  is about httpd's own sessions being used up.
- `FormTakenAsTyped` is about forms that arrive whole and fit their fields. A partial receive
  and a field that is cut are steps of the model, but no property says what becomes of them
  (see the list below).

What the models made plain and no run is spent on:

- `bridge.h` calls the traffic count monotonic; a stale store can lower it.
- The driver's fields are filled with `strlcpy`, so an SSID of 32 characters is configured as
  31 and a password of 64 as 63, live and at boot alike.
- The form's fields are cut before they are decoded: a name whose encoding has more than 63
  characters is cut, possibly inside an escape. A name of more than 32 or a password of more
  than 64 characters is stored, and not loaded at the next boot.
- `wifi_post` takes what one receive returns; a part of a form can store a cut name or clear
  the credentials.
- The RETRY branch keeps the address of the lost link, which `wifi.h:43-45` says is empty
  unless connected. `s_open_vid` and `s_open_pid` outlive the FC (`usb_cdc_host.h:15-16`).
- `usb_tx_task` may hand the driver a handle that was just closed.

## 6. Order of the work, and what is not modelled

The modules were written from the data path outwards: `Bridge` and the two sides around it,
their composition, `WifiStation`, `OtaUpdate`, then what shows and configures them
(`Display`, `WebForm`, `HttpServer`), each with its runs before its proofs. `OrderedChannel`
and `ABUpdate` are the abstract specifications; the composition's refinements are stated
against the components themselves.

Not modelled:

- A stream buffer taken apart into head and tail indices, with a reset in the middle of a
  send or a receive. It is FreeRTOS code outside this repository, and which interleavings it
  survives depends on its version; `bridge.c` promises nothing about it.
- The board headers, the partition tables and the build files: constants. The models take
  them as parameters (which LEDs, which slots).
- `tools/gen_vcp_ids.py`, which writes the table of known IDs at build time; `UsbCdcHost`
  takes any table.
- `usb_lib_task`, which only pumps the USB library's events.
