---------------------------- MODULE WifiStation ----------------------------
(***************************************************************************)
(* main/wifi.c: station first, SoftAP as the fallback.  Three parties act  *)
(* on the shared station state: the event task, which runs on_wifi_event   *)
(* for one queued event at a time; the HTTP task, which runs               *)
(* wifi_set_station for the web form; and the WiFi driver.  A section      *)
(* under s_lock is one step; every driver call after it is another, and a  *)
(* crash or power loss may come between any two.                           *)
(*                                                                         *)
(* A network is a model value; its credentials are a pair of an SSID and a *)
(* password, each named by the network it belongs to, so that a pair of    *)
(* two networks is one that joins nothing.  The driver and NVS are         *)
(* external.  WIFI_EVENT_STA_STOP never comes: nothing here stops the      *)
(* station interface.  ESP_ERROR_CHECK aborts are crashes.                 *)
(***************************************************************************)
EXTENDS Naturals, Sequences

CONSTANTS
  Nets,            \* networks the web form may name
  Reachable,       \* those a join with the right password can succeed on
  None,            \* no network, the empty string
  STA_MAX_RETRY,
  MaxRequests,     \* bound: form submissions
  MaxBoots,        \* bound: boots
  MaxDrops,        \* bound: times a join or a link breaks by itself
  MaxEvents        \* bound: length of the event queue (the driver waits)

ASSUME WifiAssumption ==
  /\ Reachable \subseteq Nets
  /\ None \notin Nets
  /\ {STA_MAX_RETRY, MaxRequests, MaxDrops} \subseteq Nat
  /\ {MaxBoots, MaxEvents} \subseteq Nat \ {0}

VARIABLES
  s_sta_state, s_sta_configured, s_sta_started, s_ap_active, s_ever_connected,
  s_sta_retries, s_sta_ssid, s_sta_ip,
  s_sta_gw,      \* s_sta_gw and s_sta_netmask, always written together
  ev,            \* event task: what it still has to do for the event it took
  evq,           \* events posted and not yet taken, oldest first
  http,          \* HTTP task: where wifi_set_station is
  req,           \* HTTP task: the network requested, None to clear
  nvs,           \* the stored credentials, key by key
  cfg,           \* driver: the station configuration
  link,          \* driver: the station link
  joined,        \* driver: the configuration the link was started with
  apUp,          \* driver: the SoftAP is broadcasting
  boots, requests, drops

staVars == <<s_sta_state, s_sta_configured, s_sta_started, s_ap_active,
             s_ever_connected, s_sta_retries, s_sta_ssid, s_sta_ip, s_sta_gw>>
drvVars == <<cfg, link, joined, apUp>>
bounds  == <<boots, requests, drops>>
vars    == <<staVars, ev, evq, http, req, nvs, drvVars, bounds>>

MaybeNet == Nets \cup {None}
NoCreds == [ssid |-> None, pass |-> None]
Creds == [ssid : MaybeNet, pass : MaybeNet]
GotIp(n) == <<"GOT_IP", n>>
Start == <<"STA_START", None>>
Disconnected == <<"STA_DISCONNECTED", None>>
Events == {Start, Disconnected} \cup {GotIp(n) : n \in Nets}

TypeOK ==
  /\ s_sta_state \in {"IDLE", "CONNECTING", "CONNECTED", "FAILED"}
  /\ {s_sta_configured, s_sta_started, s_ap_active, s_ever_connected, apUp}
        \subseteq BOOLEAN
  /\ s_sta_retries \in Nat
  /\ s_sta_state = "CONNECTING" => s_sta_retries <= STA_MAX_RETRY
  /\ {s_sta_ssid, s_sta_ip, s_sta_gw, req} \subseteq MaybeNet
  /\ ev \in {"idle", "connect", "ensure", "raise"}
  /\ evq \in Seq(Events) /\ Len(evq) <= MaxEvents
  /\ http \in {"idle", "ssid", "pass", "config", "apply", "redo", "connect",
               "clear", "leave", "ensure", "raise"}
  /\ {nvs, cfg, joined} \subseteq Creds
  /\ link \in {"down", "joining", "up"}
  /\ boots \in 1..MaxBoots /\ requests \in 0..MaxRequests /\ drops \in 0..MaxDrops

-----------------------------------------------------------------------------
(* The driver, as wifi.c uses it *)

Post(e) ==
  /\ Len(evq) < MaxEvents
  /\ evq' = Append(evq, e)

\* esp_wifi_connect: starts a join, unless one is under way or done.
esp_wifi_connect ==
  IF link = "down" THEN link' = "joining" /\ joined' = cfg
                   ELSE UNCHANGED <<link, joined>>

\* esp_wifi_disconnect: ends a join or a link, and posts the event.
esp_wifi_disconnect ==
  IF link = "down" THEN UNCHANGED <<link, evq>>
                   ELSE link' = "down" /\ Post(Disconnected)

Joinable(c) == c.ssid = c.pass /\ c.ssid \in Reachable

JoinOk ==
  /\ link = "joining"
  /\ Joinable(joined)
  /\ link' = "up"
  /\ Post(GotIp(joined.ssid))
  /\ UNCHANGED <<staVars, ev, http, req, nvs, cfg, joined, apUp, bounds>>

JoinFails ==
  /\ link = "joining"
  /\ ~Joinable(joined)
  /\ link' = "down"
  /\ Post(Disconnected)
  /\ UNCHANGED <<staVars, ev, http, req, nvs, cfg, joined, apUp, bounds>>

\* The access point goes away for a moment, during a join or after it.
LinkDrops ==
  /\ link # "down"
  /\ Joinable(joined)
  /\ drops < MaxDrops
  /\ drops' = drops + 1
  /\ link' = "down"
  /\ Post(Disconnected)
  /\ UNCHANGED <<staVars, ev, http, req, nvs, cfg, joined, apUp, boots, requests>>

-----------------------------------------------------------------------------
(* wifi_start *)

\* load_sta_creds: both keys are there and the SSID is not empty.
load_sta_creds(store) == store.ssid # None /\ store.pass # None

\* The state wifi_start leaves behind, from the stored credentials.
wifi_start(store) ==
  LET have == load_sta_creds(store)
  IN  [state |-> IF have THEN "CONNECTING" ELSE "IDLE",
       configured |-> have,
       ap |-> ~have,
       ssid |-> IF have THEN store.ssid ELSE None,
       cfg |-> IF have THEN store ELSE NoCreds]

Init ==
  /\ nvs \in {NoCreds} \cup {[ssid |-> n, pass |-> n] : n \in Nets}
  /\ LET w == wifi_start(nvs)
     IN  /\ s_sta_state = w.state /\ s_sta_configured = w.configured
         /\ s_ap_active = w.ap /\ apUp = w.ap
         /\ s_sta_ssid = w.ssid /\ cfg = w.cfg
  /\ s_sta_started = FALSE /\ s_ever_connected = FALSE /\ s_sta_retries = 0
  /\ s_sta_ip = None /\ s_sta_gw = None
  /\ ev = "idle" /\ evq = <<Start>> /\ http = "idle" /\ req = None
  /\ link = "down" /\ joined = NoCreds
  /\ boots = 1 /\ requests = 0 /\ drops = 0

\* A crash, a power loss or an esp_restart at any point: NVS is what stays.
Reboot ==
  /\ boots < MaxBoots
  /\ boots' = boots + 1
  /\ LET w == wifi_start(nvs)
     IN  /\ s_sta_state' = w.state /\ s_sta_configured' = w.configured
         /\ s_ap_active' = w.ap /\ apUp' = w.ap
         /\ s_sta_ssid' = w.ssid /\ cfg' = w.cfg
  /\ s_sta_started' = FALSE /\ s_ever_connected' = FALSE /\ s_sta_retries' = 0
  /\ s_sta_ip' = None /\ s_sta_gw' = None
  /\ ev' = "idle" /\ evq' = <<Start>> /\ http' = "idle" /\ req' = None
  /\ link' = "down" /\ joined' = NoCreds
  /\ UNCHANGED <<nvs, requests, drops>>

-----------------------------------------------------------------------------
(* on_wifi_event *)

Take(e) ==
  /\ ev = "idle"
  /\ evq # <<>>
  /\ Head(evq) = e
  /\ evq' = Tail(evq)
  /\ UNCHANGED <<http, req, nvs, drvVars, bounds>>

\* Mutant: the handler does not note that the interface is up.
StartNotNoted ==
  /\ Take(Start)
  /\ s_sta_started' = FALSE
  /\ ev' = IF s_sta_configured THEN "connect" ELSE "idle"
  /\ UNCHANGED <<s_sta_state, s_sta_configured, s_ap_active, s_ever_connected,
                 s_sta_retries, s_sta_ssid, s_sta_ip, s_sta_gw>>

OnStart ==
  /\ Take(Start)
  /\ s_sta_started' = TRUE
  /\ ev' = IF s_sta_configured THEN "connect" ELSE "idle"
  /\ UNCHANGED <<s_sta_state, s_sta_configured, s_ap_active, s_ever_connected,
                 s_sta_retries, s_sta_ssid, s_sta_ip, s_sta_gw>>

\* Mutant: the link's end leaves the state shown.
StopLeavesState ==
  /\ ~s_sta_configured
  /\ ev' = "idle"
  /\ UNCHANGED <<s_sta_state, s_sta_retries, s_sta_ip, s_sta_gw>>

\* The decision of WIFI_EVENT_STA_DISCONNECTED, under the lock.
DecideStop ==
  /\ ~s_sta_configured
  /\ s_sta_state' = "IDLE"
  /\ ev' = "idle"
  /\ UNCHANGED <<s_sta_retries, s_sta_ip, s_sta_gw>>

\* Mutant: one retry too many.
RetryOnceMore ==
  /\ s_sta_configured
  /\ s_sta_retries <= STA_MAX_RETRY
  /\ s_sta_retries' = s_sta_retries + 1
  /\ s_sta_state' = "CONNECTING"
  /\ ev' = "connect"
  /\ UNCHANGED <<s_sta_ip, s_sta_gw>>

\* Mutant: the retry is not counted.
RetryUncounted ==
  /\ s_sta_configured
  /\ s_sta_retries < STA_MAX_RETRY
  /\ s_sta_state' = "CONNECTING"
  /\ ev' = "connect"
  /\ UNCHANGED <<s_sta_retries, s_sta_ip, s_sta_gw>>

DecideRetry ==
  /\ s_sta_configured
  /\ s_sta_retries < STA_MAX_RETRY
  /\ s_sta_retries' = s_sta_retries + 1
  /\ s_sta_state' = "CONNECTING"
  /\ ev' = "connect"
  /\ UNCHANGED <<s_sta_ip, s_sta_gw>>

DecideKeepTrying ==
  /\ s_sta_configured
  /\ s_sta_retries >= STA_MAX_RETRY
  /\ s_ever_connected
  /\ s_sta_retries' = 0
  /\ s_sta_state' = "CONNECTING"
  /\ s_sta_ip' = None /\ s_sta_gw' = None
  /\ ev' = "connect"

DecideFallback ==
  /\ s_sta_configured
  /\ s_sta_retries >= STA_MAX_RETRY
  /\ ~s_ever_connected
  /\ s_sta_retries' = s_sta_retries + 1
  /\ s_sta_state' = "FAILED"
  /\ s_sta_ip' = None /\ s_sta_gw' = None
  /\ ev' = "ensure"

OnDisconnected ==
  /\ Take(Disconnected)
  /\ DecideStop \/ DecideRetry \/ DecideKeepTrying \/ DecideFallback
  /\ UNCHANGED <<s_sta_configured, s_sta_started, s_ap_active,
                 s_ever_connected, s_sta_ssid>>

OnGotIp ==
  \E n \in Nets :
    /\ Take(GotIp(n))
    /\ s_sta_retries' = 0
    /\ s_ever_connected' = TRUE
    /\ s_sta_state' = "CONNECTED"
    /\ s_sta_ip' = n /\ s_sta_gw' = n
    /\ UNCHANGED <<ev, s_sta_configured, s_sta_started, s_ap_active, s_sta_ssid>>

\* esp_wifi_connect of STA_START, RETRY and KEEP_TRYING, after the unlock.
EvConnect ==
  /\ ev = "connect"
  /\ esp_wifi_connect
  /\ ev' = "idle"
  /\ UNCHANGED <<staVars, evq, http, req, nvs, cfg, apUp, bounds>>

\* ensure_ap: test and set under the lock, raise after it.
ensure_ap ==
  /\ s_ap_active' = TRUE
  /\ UNCHANGED <<s_sta_state, s_sta_configured, s_sta_started, s_ever_connected,
                 s_sta_retries, s_sta_ssid, s_sta_ip, s_sta_gw>>

\* Mutant: the AP is raised whoever raised it.
EnsureApAgain ==
  /\ ev = "ensure"
  /\ ensure_ap
  /\ ev' = "raise"
  /\ UNCHANGED <<evq, http, req, nvs, drvVars, bounds>>

EvEnsureAp ==
  /\ ev = "ensure"
  /\ ensure_ap
  /\ ev' = IF s_ap_active THEN "idle" ELSE "raise"
  /\ UNCHANGED <<evq, http, req, nvs, drvVars, bounds>>

\* Mode APSTA, start_ap and configure_ap_dhcp.
EvRaiseAp ==
  /\ ev = "raise"
  /\ apUp' = TRUE
  /\ ev' = "idle"
  /\ UNCHANGED <<staVars, evq, http, req, nvs, cfg, link, joined, bounds>>

EventTask ==
  OnStart \/ OnDisconnected \/ OnGotIp \/ EvConnect \/ EvEnsureAp \/ EvRaiseAp

-----------------------------------------------------------------------------
(* wifi_set_station, called by wifi_post *)

Request ==
  /\ http = "idle"
  /\ requests < MaxRequests
  /\ requests' = requests + 1
  /\ req' \in MaybeNet
  /\ http' = "ssid"
  /\ UNCHANGED <<staVars, ev, evq, nvs, drvVars, boots, drops>>

\* save_sta_creds writes or erases one key, then the other.
SaveSsid ==
  /\ http = "ssid"
  /\ nvs' = [nvs EXCEPT !.ssid = req]
  /\ http' = "pass"
  /\ UNCHANGED <<staVars, ev, evq, req, drvVars, bounds>>

SavePass ==
  /\ http = "pass"
  /\ nvs' = [nvs EXCEPT !.pass = req]
  /\ http' = IF req = None THEN "clear" ELSE "config"
  /\ UNCHANGED <<staVars, ev, evq, req, drvVars, bounds>>

\* apply_sta_config: esp_wifi_set_config, then the station state under the lock.
SetConfig ==
  /\ http = "config"
  /\ cfg' = [ssid |-> req, pass |-> req]
  /\ http' = "apply"
  /\ UNCHANGED <<staVars, ev, evq, req, nvs, link, joined, apUp, bounds>>

Apply ==
  /\ http = "apply"
  /\ s_sta_ssid' = req
  /\ s_sta_configured' = TRUE
  /\ s_sta_retries' = 0
  /\ s_sta_state' = "CONNECTING"
  /\ s_sta_ip' = None
  /\ http' = IF s_sta_started THEN "redo" ELSE "idle"
  /\ UNCHANGED <<s_sta_started, s_ap_active, s_ever_connected, s_sta_gw, ev,
                 evq, req, nvs, drvVars, bounds>>

HttpDisconnect ==
  /\ http = "redo"
  /\ esp_wifi_disconnect
  /\ http' = "connect"
  /\ UNCHANGED <<staVars, ev, req, nvs, cfg, joined, apUp, bounds>>

HttpConnect ==
  /\ http = "connect"
  /\ esp_wifi_connect
  /\ http' = "idle"
  /\ UNCHANGED <<staVars, ev, evq, req, nvs, cfg, apUp, bounds>>

\* Mutant: the station stays configured.
ClearKeepsConfigured ==
  /\ http = "clear"
  /\ s_sta_state' = "IDLE"
  /\ s_sta_ssid' = None /\ s_sta_ip' = None /\ s_sta_gw' = None
  /\ http' = "leave"
  /\ UNCHANGED <<s_sta_configured, s_sta_started, s_ap_active, s_ever_connected,
                 s_sta_retries, ev, evq, req, nvs, drvVars, bounds>>

\* The clear branch: the state under the lock, then the link, then the AP.
Clear ==
  /\ http = "clear"
  /\ s_sta_configured' = FALSE
  /\ s_sta_state' = "IDLE"
  /\ s_sta_ssid' = None /\ s_sta_ip' = None /\ s_sta_gw' = None
  /\ http' = "leave"
  /\ UNCHANGED <<s_sta_started, s_ap_active, s_ever_connected, s_sta_retries,
                 ev, evq, req, nvs, drvVars, bounds>>

Leave ==
  /\ http = "leave"
  /\ esp_wifi_disconnect
  /\ http' = "ensure"
  /\ UNCHANGED <<staVars, ev, req, nvs, cfg, joined, apUp, bounds>>

HttpEnsureAp ==
  /\ http = "ensure"
  /\ ensure_ap
  /\ http' = IF s_ap_active THEN "idle" ELSE "raise"
  /\ UNCHANGED <<ev, evq, req, nvs, drvVars, bounds>>

HttpRaiseAp ==
  /\ http = "raise"
  /\ apUp' = TRUE
  /\ http' = "idle"
  /\ UNCHANGED <<staVars, ev, evq, req, nvs, cfg, link, joined, bounds>>

wifi_set_station ==
  \/ SaveSsid \/ SavePass \/ SetConfig \/ Apply \/ HttpDisconnect
  \/ HttpConnect \/ Clear \/ Leave \/ HttpEnsureAp \/ HttpRaiseAp

Driver == JoinOk \/ JoinFails \/ LinkDrops

Next == EventTask \/ Request \/ wifi_set_station \/ Driver \/ Reboot

Spec == Init /\ [][Next]_vars

\* Both tasks keep running and the driver answers every join.
FairSpec ==
  /\ Spec
  /\ WF_vars(EventTask)
  /\ WF_vars(wifi_set_station)
  /\ WF_vars(JoinOk \/ JoinFails)

-----------------------------------------------------------------------------
(* Properties *)

\* Nothing is on its way: no event queued or being handled, no request running.
Quiet == ev = "idle" /\ evq = <<>> /\ http = "idle"

\* A configured station is never left with nobody about to connect it: between
\* the STA_START handler and apply_sta_config, each reading what the other
\* writes under the lock, one of them connects; and every lost link is retried.
ConnectNotForgotten ==
  Quiet /\ s_sta_state = "CONNECTING" => link # "down"

\* Once all events are handled, the state shown is the state of the link, also
\* after a request that interrupted a join or a link.
ShownStateIsReal == Quiet => (s_sta_state = "CONNECTED" <=> link = "up")

\* The AP is raised by one caller of ensure_ap at a time, and s_ap_active is
\* never claimed while nobody raises it.
ApRaisedOnce ==
  /\ ~(ev = "raise" /\ http = "raise")
  /\ s_ap_active <=> apUp \/ ev = "raise" \/ http = "raise"

\* Credentials in use are credentials stored: when no request is running, a
\* reboot would load what the station and the driver are configured with, also
\* after a crash between the two keys of an earlier save.
ConfigIsStored ==
  http = "idle" =>
    /\ s_sta_configured <=> load_sta_creds(nvs)
    /\ s_sta_configured => s_sta_ssid = nvs.ssid /\ cfg = nvs

\* wifi.h:3-5: a stored network that cannot be reached at boot, credentials
\* torn by a crash in the middle of a save included, ends with the AP up.
FallbackRaised == []<>(apUp \/ s_ever_connected)

\* wifi.h:64-65: clearing the credentials disconnects, so once a clear is done
\* and all events are handled, the station joins nothing.
ClearedStaysOff == Quiet /\ ~s_sta_configured => link = "down"

\* wifi.c:44-45: the AP is raised when "the stored network is unreachable, so
\* the web UI is always reachable": over the AP or over the station link.
AlwaysReachable == []<>(apUp \/ link = "up")
=============================================================================
