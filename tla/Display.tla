------------------------------- MODULE Display -------------------------------
(***************************************************************************)
(* main/leds.c, and the traffic counter of main/bridge.c it samples.  Both *)
(* push functions add to s_fc_activity with no lock, one from the USB      *)
(* driver's callback and one from the accept task: a load and a store that *)
(* the other direction, or the LED task, may come between.  The LED task   *)
(* reads the WiFi state, the VCP flag, the counter and the client slot one *)
(* by one and shows them on two LEDs, once every TICK_MS.                  *)
(*                                                                         *)
(* A push queues any number of bytes here; Bridge says how many.  The      *)
(* board has both LEDs and led_strip_new_rmt_device succeeded; without a   *)
(* driver rgb_set returns at once and the pixel stays dark.  The flags     *)
(* shown change at any time.                                               *)
(***************************************************************************)
EXTENDS Naturals

CONSTANTS
  COUNT_MOD,     \* where s_fc_activity wraps (2^32) ...
  TICK_MOD,      \* ... and where tick does (2^32)
  FAST_TICKS,    \* ticks per half blink while joining (2)
  SLOW_TICKS,    \* ticks per half blink otherwise (500 / TICK_MS)
  MaxSent,       \* bound: bytes one push queues
  MaxChanges     \* bound: changes of the flags shown

ASSUME DisplayAssumption ==
  /\ {COUNT_MOD, TICK_MOD, FAST_TICKS, SLOW_TICKS} \subseteq Nat \ {0}
  /\ MaxSent \in Nat /\ MaxSent < COUNT_MOD
  /\ MaxChanges \in Nat

Dir == {"usb_to_net", "net_to_usb"}

\* wifi_sta_state_t; the LEDs do not tell "FAILED" from "IDLE", which stands for both.
WifiState == {"IDLE", "CONNECTING", "CONNECTED"}

VARIABLES
  s_fc_activity,
  push,          \* each direction's push: where it is in the addition ...
  sent,          \* ... the bytes it queued ...
  loaded,        \* ... and the value it loaded
  s_sta_state, s_connected,
  client,        \* s_client >= 0
  led,           \* LED task: the next thing it does
  tick, last_activity, usb, traffic,
  on, rgb,       \* what the two LEDs show
  window,        \* history: what the stores since the last sample did
  moved,         \* history: the bytes they added, while none overwrote another
  judged,        \* history: window at the sample of this iteration
  changes

counterVars == <<s_fc_activity, push, sent, loaded>>
flags == <<s_sta_state, s_connected, client, changes>>
history == <<window, moved, judged>>
ledVars == <<led, tick, last_activity, usb, traffic, on, rgb>>
vars == <<counterVars, flags, history, ledVars>>

Count == 0..(COUNT_MOD - 1)

TypeOK ==
  /\ s_fc_activity \in Count /\ last_activity \in Count
  /\ push \in [Dir -> {"idle", "fresh", "stale"}]
  /\ sent \in [Dir -> 0..MaxSent] /\ loaded \in [Dir -> Count]
  /\ s_sta_state \in WifiState
  /\ {s_connected, client, usb, traffic, on} \subseteq BOOLEAN
  /\ led \in {"wifi", "sample", "show"}
  /\ tick \in 0..(TICK_MOD - 1)
  /\ rgb \in {"off", "red", "blue", "green", "amber"}
  /\ {window, judged} \subseteq {"quiet", "moved", "overwritten"}
  /\ moved \in Count
  /\ changes \in 0..MaxChanges

\* leds_start, with the other tasks already running: the counter has any value.
Init ==
  /\ s_fc_activity \in Count /\ last_activity = s_fc_activity
  /\ push = [d \in Dir |-> "idle"]
  /\ sent = [d \in Dir |-> 0] /\ loaded = [d \in Dir |-> 0]
  /\ s_sta_state \in WifiState
  /\ s_connected \in BOOLEAN /\ client \in BOOLEAN
  /\ led = "wifi" /\ tick = 0 /\ usb = FALSE /\ traffic = FALSE
  /\ on = FALSE /\ rgb = "off"
  /\ window = "quiet" /\ moved = 0 /\ judged = "quiet"
  /\ changes = 0

-----------------------------------------------------------------------------
(* s_fc_activity += sent *)

\* Mutant of Add32: the sum of a wider type.
AddWide(a, n) == a + n

\* Unsigned addition of two values below COUNT_MOD.
Add32(a, n) == IF a + n < COUNT_MOD THEN a + n ELSE a + n - COUNT_MOD

\* The push has queued n bytes and loads the counter.
LoadCount(d) ==
  /\ push[d] = "idle"
  /\ push' = [push EXCEPT ![d] = "fresh"]
  /\ \E n \in 0..MaxSent : sent' = [sent EXCEPT ![d] = n]
  /\ loaded' = [loaded EXCEPT ![d] = s_fc_activity]
  /\ UNCHANGED <<s_fc_activity, flags, history, ledVars>>

\* It stores the sum, over whatever the other direction stored since.  The link
\* is slow enough that no tick sees the counter go all the way round.
StoreCount(d) ==
  /\ push[d] # "idle"
  /\ moved + sent[d] < COUNT_MOD
  /\ s_fc_activity' = Add32(loaded[d], sent[d])
  /\ push' = [e \in Dir |-> IF e = d THEN "idle"
                            ELSE IF push[e] = "fresh" THEN "stale" ELSE push[e]]
  /\ sent' = [sent EXCEPT ![d] = 0] /\ loaded' = [loaded EXCEPT ![d] = 0]
  /\ IF push[d] = "stale" \/ window = "overwritten"
       THEN window' = "overwritten" /\ moved' = 0
       ELSE /\ window' = IF sent[d] > 0 THEN "moved" ELSE window
            /\ moved' = moved + sent[d]
  /\ UNCHANGED <<judged, flags, ledVars>>

-----------------------------------------------------------------------------
(* led_task *)

\* Solid, fast or slow.
Cadence ==
  CASE s_sta_state = "CONNECTED"  -> TRUE
    [] s_sta_state = "CONNECTING" -> (tick \div FAST_TICKS) % 2 = 1
    [] s_sta_state = "IDLE"       -> (tick \div SLOW_TICKS) % 2 = 1

\* The WiFi LED, and the read of the VCP flag for the other one: nothing
\* relates the two, so they are one step.
ShowWifi ==
  /\ led = "wifi"
  /\ led' = "sample"
  /\ on' = Cadence
  /\ usb' = s_connected
  /\ judged' = "quiet"
  /\ UNCHANGED <<counterVars, flags, window, moved, tick, last_activity, traffic,
                 rgb>>

\* Mutant: the sample is not remembered while no FC is attached.
SampleForgets ==
  /\ led = "sample"
  /\ led' = "show"
  /\ traffic' = (s_fc_activity # last_activity)
  /\ last_activity' = IF usb THEN s_fc_activity ELSE last_activity
  /\ window' = "quiet" /\ moved' = 0 /\ judged' = window
  /\ UNCHANGED <<counterVars, flags, tick, usb, on, rgb>>

\* Mutant: the sample taken when the task started is kept for good.
SampleKeepsFirst ==
  /\ led = "sample"
  /\ led' = "show"
  /\ traffic' = (s_fc_activity # last_activity)
  /\ window' = "quiet" /\ moved' = 0 /\ judged' = window
  /\ UNCHANGED <<counterVars, flags, tick, last_activity, usb, on, rgb>>

\* bridge_fc_activity, the comparison, and the sample kept for the next tick.
Sample ==
  /\ led = "sample"
  /\ led' = "show"
  /\ traffic' = (s_fc_activity # last_activity)
  /\ last_activity' = s_fc_activity
  /\ window' = "quiet" /\ moved' = 0 /\ judged' = window
  /\ UNCHANGED <<counterVars, flags, tick, usb, on, rgb>>

\* Mutant of Colour: the client is looked at before the traffic.
ColourClientFirst ==
  CASE ~usb -> "red"
    [] usb /\ client -> "green"
    [] usb /\ ~client /\ traffic -> "blue"
    [] OTHER -> "amber"

Colour ==
  CASE ~usb -> "red"
    [] usb /\ traffic -> "blue"
    [] usb /\ ~traffic /\ client -> "green"
    [] OTHER -> "amber"

\* Mutant: the loop starts over, without counting, when no FC is attached.
ShowLinkContinues ==
  /\ led = "show"
  /\ led' = "wifi"
  /\ rgb' = Colour
  /\ traffic' = FALSE
  /\ tick' = IF usb THEN (tick + 1) % TICK_MOD ELSE tick
  /\ UNCHANGED <<counterVars, flags, history, last_activity, usb, on>>

\* rgb_set, the tick and vTaskDelay.  The locals of the iteration end here
\* (usb is kept for the properties).
ShowLink ==
  /\ led = "show"
  /\ led' = "wifi"
  /\ rgb' = Colour
  /\ traffic' = FALSE
  /\ tick' = (tick + 1) % TICK_MOD
  /\ UNCHANGED <<counterVars, flags, history, last_activity, usb, on>>

led_task == ShowWifi \/ Sample \/ ShowLink

-----------------------------------------------------------------------------
\* wifi.c, usb_cdc_host.c and tcp_server.c set the flags the LED task reads.
FlagChanges ==
  /\ changes < MaxChanges
  /\ changes' = changes + 1
  /\ \/ s_sta_state' \in WifiState /\ UNCHANGED <<s_connected, client>>
     \/ s_connected' = ~s_connected /\ UNCHANGED <<s_sta_state, client>>
     \/ client' = ~client /\ UNCHANGED <<s_sta_state, s_connected>>
  /\ UNCHANGED <<counterVars, history, ledVars>>

Next ==
  \/ \E d \in Dir : LoadCount(d) \/ StoreCount(d)
  \/ led_task
  \/ FlagChanges

Spec == Init /\ [][Next]_vars

\* The LED task is a FreeRTOS task that is ready every TICK_MS.
FairSpec == Spec /\ WF_vars(led_task)

-----------------------------------------------------------------------------
(* Properties *)

\* "A missed update only costs one LED tick": bytes that moved in a tick turn
\* the pixel blue at its end, unless one of that same tick's stores overwrote
\* another.  What earlier ticks lost, and a push begun before, do no harm.
CostsOneTick ==
  led = "wifi" /\ judged = "moved" /\ usb => rgb = "blue"

\* The pixel flashes only for stores of the tick it shows, never for an old
\* difference, and not for a push that queued nothing.
FlashIsTraffic ==
  led = "wifi" /\ rgb = "blue" => judged # "quiet"

Quiet == \A d \in Dir : push[d] = "idle"

\* Whatever raced before, a link at rest ends up in its own colour.
PixelSettles ==
  /\ <>[](~s_connected) => <>[](rgb = "red")
  /\ <>[](s_connected /\ Quiet /\ client) => <>[](rgb = "green")
  /\ <>[](s_connected /\ Quiet /\ ~client) => <>[](rgb = "amber")

\* The WiFi LED tells the states apart by its cadence, also where the
\* tick counter wraps: solid when connected, and blinking for ever otherwise.
WifiLedTells ==
  /\ <>[](s_sta_state = "CONNECTED") => <>[]on
  /\ \A s \in WifiState \ {"CONNECTED"} :
       <>[](s_sta_state = s) => []<>on /\ []<>(~on)
=============================================================================
