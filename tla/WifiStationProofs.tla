------------------------- MODULE WifiStationProofs -------------------------
(***************************************************************************)
(* Proofs about WifiStation: types, the AP handshake of the two callers of *)
(* ensure_ap, the agreement of stored and configured credentials, and that *)
(* of the state shown with the link once events are handled.               *)
(* ApRaisedOnce is inductive given the types.  ConfigIsStored speaks only  *)
(* of the moments between requests; StoredInv adds what each step of a     *)
(* request has stored and configured so far.  LinkInv says what the last   *)
(* event queued tells of the link, which is what ShownStateIsReal and      *)
(* ConnectNotForgotten need while events are still to be handled.          *)
(***************************************************************************)
EXTENDS WifiStation, SequenceTheorems, TLAPS

\* The handlers of the two tasks, for the case splits below.
Steps ==
  \/ OnStart \/ OnDisconnected \/ OnGotIp \/ EvConnect \/ EvEnsureAp \/ EvRaiseAp
  \/ Request \/ SaveSsid \/ SavePass \/ SetConfig \/ Apply \/ HttpDisconnect
  \/ HttpConnect \/ Clear \/ Leave \/ HttpEnsureAp \/ HttpRaiseAp
  \/ JoinOk \/ JoinFails \/ LinkDrops \/ Reboot

LEMMA NextSteps == Next => Steps
BY DEF Next, Steps, EventTask, wifi_set_station, Driver

-----------------------------------------------------------------------------
(* Types *)

\* What the driver and NVS hold, and what the queue may hold.
LEMMA Literals ==
  /\ None \in MaybeNet /\ NoCreds \in Creds
  /\ Start \in Events /\ Disconnected \in Events
  /\ \A n \in Nets : GotIp(n) \in Events /\ n \in MaybeNet
  /\ \A n \in MaybeNet : [ssid |-> n, pass |-> n] \in Creds
BY DEF MaybeNet, NoCreds, Creds, Events

LEMMA PostTyped ==
  ASSUME evq \in Seq(Events), NEW e \in Events, Post(e), MaxEvents \in Nat
  PROVE  evq' \in Seq(Events) /\ Len(evq') <= MaxEvents
BY DEF Post

LEMMA TakeTyped ==
  ASSUME evq \in Seq(Events), NEW e, Take(e), MaxEvents \in Nat,
         Len(evq) <= MaxEvents
  PROVE  evq' \in Seq(Events) /\ Len(evq') <= MaxEvents
BY DEF Take

\* What wifi_start computes is typed.
LEMMA StartTyped ==
  ASSUME NEW store \in Creds
  PROVE  /\ wifi_start(store).state \in {"IDLE", "CONNECTING"}
         /\ wifi_start(store).configured \in BOOLEAN
         /\ wifi_start(store).ap \in BOOLEAN
         /\ wifi_start(store).ssid \in MaybeNet
         /\ wifi_start(store).cfg \in Creds
<1>1. store.ssid \in MaybeNet
  BY DEF Creds
<1>2. load_sta_creds(store) \in BOOLEAN
  BY DEF load_sta_creds
<1> QED BY <1>1, <1>2, Literals DEF wifi_start

\* The type invariant, a part per party.
StaTyped ==
  /\ s_sta_state \in {"IDLE", "CONNECTING", "CONNECTED", "FAILED"}
  /\ s_sta_configured \in BOOLEAN /\ s_sta_started \in BOOLEAN
  /\ s_ap_active \in BOOLEAN /\ s_ever_connected \in BOOLEAN
  /\ s_sta_retries \in Nat
  /\ s_sta_state = "CONNECTING" => s_sta_retries <= STA_MAX_RETRY
  /\ s_sta_ssid \in MaybeNet /\ s_sta_ip \in MaybeNet /\ s_sta_gw \in MaybeNet

TaskTyped ==
  /\ ev \in {"idle", "connect", "ensure", "raise"}
  /\ http \in {"idle", "ssid", "pass", "config", "apply", "redo", "connect",
               "clear", "leave", "ensure", "raise"}
  /\ req \in MaybeNet

QueueTyped == evq \in Seq(Events) /\ Len(evq) <= MaxEvents

DriverTyped ==
  /\ nvs \in Creds /\ cfg \in Creds /\ joined \in Creds
  /\ link \in {"down", "joining", "up"}
  /\ apUp \in BOOLEAN

Bounded ==
  boots \in 1..MaxBoots /\ requests \in 0..MaxRequests /\ drops \in 0..MaxDrops

LEMMA TypeParts ==
  TypeOK <=> StaTyped /\ TaskTyped /\ QueueTyped /\ DriverTyped /\ Bounded
BY DEF TypeOK, StaTyped, TaskTyped, QueueTyped, DriverTyped, Bounded

LEMMA TypeInit == Init => TypeOK
<1> SUFFICES ASSUME Init PROVE TypeOK
  OBVIOUS
<1> USE WifiAssumption
<1>1. nvs \in Creds
  BY Literals DEF Init, MaybeNet
<1>2. <<Start>> \in Seq(Events) /\ Len(<<Start>>) = 1
  BY Literals
<1>3. StaTyped
  <2>1. /\ s_sta_state = wifi_start(nvs).state /\ s_sta_configured = wifi_start(nvs).configured
        /\ s_ap_active = wifi_start(nvs).ap /\ s_sta_ssid = wifi_start(nvs).ssid
        /\ s_sta_started = FALSE /\ s_ever_connected = FALSE /\ s_sta_retries = 0
        /\ s_sta_ip = None /\ s_sta_gw = None
    BY DEF Init
  <2>2. None \in MaybeNet /\ 0 <= STA_MAX_RETRY
    BY Literals
  <2> QED BY <1>1, <2>1, <2>2, StartTyped DEF StaTyped
<1>4. TaskTyped
  BY Literals DEF Init, TaskTyped
<1>5. QueueTyped
  BY <1>2 DEF Init, QueueTyped
<1>6. DriverTyped
  BY <1>1, StartTyped, Literals DEF Init, DriverTyped
<1>7. Bounded
  BY DEF Init, Bounded
<1> QED BY <1>3, <1>4, <1>5, <1>6, <1>7, TypeParts

LEMMA StaTypedNext ==
  ASSUME TypeOK, [Next]_vars PROVE StaTyped'
<1> USE WifiAssumption
<1>1. StaTyped /\ DriverTyped /\ TaskTyped
  BY TypeParts
<1>0. None \in MaybeNet /\ \A n \in Nets : n \in MaybeNet
  BY Literals
<1>2. CASE OnStart
  BY <1>1, <1>2 DEF OnStart, StaTyped
<1>9. CASE OnGotIp
  <2>1. PICK n \in Nets :
          /\ s_sta_retries' = 0 /\ s_ever_connected' = TRUE
          /\ s_sta_state' = "CONNECTED" /\ s_sta_ip' = n /\ s_sta_gw' = n
          /\ UNCHANGED <<s_sta_configured, s_sta_started, s_ap_active, s_sta_ssid>>
    BY <1>9 DEF OnGotIp
  <2> QED BY <1>0, <1>1, <2>1 DEF StaTyped
<1>3. CASE OnDisconnected
  BY <1>1, <1>3, Literals DEF OnDisconnected, DecideStop, DecideRetry,
     DecideKeepTrying, DecideFallback, StaTyped
<1>4. CASE EvEnsureAp \/ HttpEnsureAp
  BY <1>1, <1>4 DEF EvEnsureAp, HttpEnsureAp, ensure_ap, StaTyped
<1>5. CASE Apply \/ Clear
  <2>1. 0 <= STA_MAX_RETRY /\ req \in MaybeNet
    BY <1>1 DEF TaskTyped
  <2>2. CASE Apply
    BY <1>0, <1>1, <2>1, <2>2 DEF Apply, StaTyped
  <2>3. CASE Clear
    BY <1>0, <1>1, <2>3 DEF Clear, StaTyped
  <2> QED BY <1>5, <2>2, <2>3
<1>6. CASE Reboot
  <2>1. nvs \in Creds
    BY <1>1 DEF DriverTyped
  <2>2. /\ s_sta_state' = wifi_start(nvs).state
        /\ s_sta_configured' = wifi_start(nvs).configured
        /\ s_ap_active' = wifi_start(nvs).ap /\ s_sta_ssid' = wifi_start(nvs).ssid
        /\ s_sta_started' = FALSE /\ s_ever_connected' = FALSE /\ s_sta_retries' = 0
        /\ s_sta_ip' = None /\ s_sta_gw' = None
    BY <1>6 DEF Reboot
  <2>3. 0 <= STA_MAX_RETRY
    OBVIOUS
  <2> QED BY <1>0, <2>1, <2>2, <2>3, StartTyped DEF StaTyped
<1>7. CASE UNCHANGED staVars
  BY <1>1, <1>7 DEF staVars, StaTyped
<1>8. \/ OnStart \/ OnGotIp \/ OnDisconnected \/ EvEnsureAp \/ HttpEnsureAp
      \/ Apply \/ Clear \/ Reboot \/ UNCHANGED staVars
  BY NextSteps DEF Steps, vars, EvConnect, EvRaiseAp, Request, SaveSsid, SavePass,
     SetConfig, HttpDisconnect, HttpConnect, Leave, HttpRaiseAp, JoinOk, JoinFails,
     LinkDrops
<1> QED BY <1>2, <1>3, <1>4, <1>5, <1>6, <1>7, <1>8, <1>9

LEMMA TaskTypedNext ==
  ASSUME TypeOK, [Next]_vars PROVE TaskTyped'
<1>1. TaskTyped
  BY TypeParts
<1>2. CASE OnStart \/ OnDisconnected \/ OnGotIp \/ EvConnect \/ EvEnsureAp \/ EvRaiseAp
  BY <1>1, <1>2 DEF OnStart, OnDisconnected, DecideStop, DecideRetry,
     DecideKeepTrying, DecideFallback, OnGotIp, EvConnect, EvEnsureAp, EvRaiseAp,
     Take, TaskTyped
<1>3. CASE Request \/ SaveSsid \/ SavePass \/ SetConfig \/ Apply \/ HttpDisconnect
  BY <1>1, <1>3 DEF Request, SaveSsid, SavePass, SetConfig, Apply, HttpDisconnect,
     TaskTyped
<1>4. CASE HttpConnect \/ Clear \/ Leave \/ HttpEnsureAp \/ HttpRaiseAp
  BY <1>1, <1>4 DEF HttpConnect, Clear, Leave, HttpEnsureAp, HttpRaiseAp, TaskTyped
<1>5. CASE Reboot
  BY <1>5, Literals DEF Reboot, TaskTyped
<1>6. CASE UNCHANGED <<ev, http, req>>
  BY <1>1, <1>6 DEF TaskTyped
<1>7. JoinOk \/ JoinFails \/ LinkDrops \/ UNCHANGED vars => UNCHANGED <<ev, http, req>>
  BY DEF JoinOk, JoinFails, LinkDrops, vars
<1> QED BY <1>2, <1>3, <1>4, <1>5, <1>6, <1>7, NextSteps DEF Steps

LEMMA QueueTypedNext ==
  ASSUME TypeOK, [Next]_vars PROVE QueueTyped'
<1> USE WifiAssumption
<1>1. QueueTyped /\ DriverTyped
  BY TypeParts
<1>2. CASE \E e \in Events : Take(e)
  BY <1>1, <1>2, TakeTyped DEF QueueTyped
<1>3. CASE \E e \in Events : Post(e)
  BY <1>1, <1>3, PostTyped DEF QueueTyped
<1>4. CASE Reboot
  <2>1. <<Start>> \in Seq(Events) /\ Len(<<Start>>) = 1
    BY Literals
  <2> QED BY <1>4, <2>1 DEF Reboot, QueueTyped
<1>5. CASE UNCHANGED evq
  BY <1>1, <1>5 DEF QueueTyped
<1>6. OnStart \/ OnDisconnected \/ OnGotIp => \E e \in Events : Take(e)
  BY Literals DEF OnStart, OnDisconnected, OnGotIp
<1>7. JoinOk => \E e \in Events : Post(e)
  <2> SUFFICES ASSUME JoinOk PROVE \E e \in Events : Post(e)
    OBVIOUS
  <2>1. joined.ssid \in Nets
    BY WifiAssumption DEF JoinOk, Joinable
  <2> QED BY <2>1, Literals DEF JoinOk
<1>8. JoinFails \/ LinkDrops => \E e \in Events : Post(e)
  BY Literals DEF JoinFails, LinkDrops
<1>9. HttpDisconnect \/ Leave => UNCHANGED evq \/ \E e \in Events : Post(e)
  BY Literals DEF HttpDisconnect, Leave, esp_wifi_disconnect
<1>10. EvConnect \/ EvEnsureAp \/ EvRaiseAp \/ Request \/ SaveSsid \/ SavePass \/ SetConfig
         \/ Apply \/ HttpConnect \/ Clear \/ HttpEnsureAp \/ HttpRaiseAp \/ UNCHANGED vars
       => UNCHANGED evq
  BY DEF EvConnect, EvEnsureAp, EvRaiseAp, Request, SaveSsid, SavePass, SetConfig,
     Apply, HttpConnect, Clear, HttpEnsureAp, HttpRaiseAp, vars
<1> QED BY <1>2, <1>3, <1>4, <1>5, <1>6, <1>7, <1>8, <1>9, <1>10, NextSteps DEF Steps

LEMMA DriverTypedNext ==
  ASSUME TypeOK, [Next]_vars PROVE DriverTyped'
<1>1. DriverTyped /\ TaskTyped
  BY TypeParts
<1>2. CASE JoinOk \/ JoinFails \/ LinkDrops
  BY <1>1, <1>2 DEF JoinOk, JoinFails, LinkDrops, DriverTyped
<1>3. CASE EvConnect \/ HttpConnect \/ HttpDisconnect \/ Leave
  BY <1>1, <1>3 DEF EvConnect, HttpConnect, HttpDisconnect, Leave, esp_wifi_connect,
     esp_wifi_disconnect, DriverTyped
<1>4. CASE EvRaiseAp \/ HttpRaiseAp
  BY <1>1, <1>4 DEF EvRaiseAp, HttpRaiseAp, DriverTyped
<1>5. CASE SaveSsid \/ SavePass
  <2>1. nvs' \in Creds
    BY <1>1, <1>5 DEF SaveSsid, SavePass, DriverTyped, TaskTyped, Creds
  <2> QED BY <1>1, <1>5, <2>1 DEF SaveSsid, SavePass, drvVars, DriverTyped
<1>6. CASE SetConfig
  BY <1>1, <1>6, Literals DEF SetConfig, DriverTyped, TaskTyped
<1>7. CASE Reboot
  BY <1>1, <1>7, StartTyped, Literals DEF Reboot, DriverTyped
<1>8. CASE UNCHANGED <<nvs, drvVars>>
  BY <1>1, <1>8 DEF drvVars, DriverTyped
<1>9. OnStart \/ OnDisconnected \/ OnGotIp \/ EvEnsureAp \/ Request \/ Apply \/ Clear
        \/ HttpEnsureAp \/ UNCHANGED vars => UNCHANGED <<nvs, drvVars>>
  BY DEF OnStart, OnDisconnected, OnGotIp, Take, EvEnsureAp, Request, Apply, Clear,
     HttpEnsureAp, vars
<1> QED BY <1>2, <1>3, <1>4, <1>5, <1>6, <1>7, <1>8, <1>9, NextSteps DEF Steps

LEMMA BoundedNext ==
  ASSUME TypeOK, [Next]_vars PROVE Bounded'
<1> USE WifiAssumption
<1>1. Bounded
  BY TypeParts
<1>2. CASE Request
  BY <1>1, <1>2 DEF Request, Bounded
<1>3. CASE LinkDrops
  BY <1>1, <1>3 DEF LinkDrops, Bounded
<1>4. CASE Reboot
  BY <1>1, <1>4 DEF Reboot, Bounded
<1>5. CASE UNCHANGED bounds
  BY <1>1, <1>5 DEF bounds, Bounded
<1>6. Request \/ LinkDrops \/ Reboot \/ UNCHANGED bounds
  BY NextSteps DEF Steps, vars, OnStart, OnDisconnected, OnGotIp, Take, EvConnect,
     EvEnsureAp, EvRaiseAp, SaveSsid, SavePass, SetConfig, Apply, HttpDisconnect,
     HttpConnect, Clear, Leave, HttpEnsureAp, HttpRaiseAp, JoinOk, JoinFails
<1> QED BY <1>2, <1>3, <1>4, <1>5, <1>6

LEMMA TypeNext == TypeOK /\ [Next]_vars => TypeOK'
<1>1. ASSUME TypeOK, [Next]_vars
      PROVE StaTyped' /\ TaskTyped' /\ QueueTyped' /\ DriverTyped' /\ Bounded'
  BY <1>1, StaTypedNext, TaskTypedNext, QueueTypedNext, DriverTypedNext, BoundedNext
<1>2. (StaTyped /\ TaskTyped /\ QueueTyped /\ DriverTyped /\ Bounded)' => TypeOK'
  BY TypeParts, PTL
<1> QED BY <1>1, <1>2

\* Every variable of wifi.c, its two tasks and the driver keeps its type, and
\* the retries counted while connecting never pass STA_MAX_RETRY.
THEOREM TypeCorrect == Spec => []TypeOK
BY TypeInit, TypeNext, PTL DEF Spec

-----------------------------------------------------------------------------
(* The SoftAP *)

\* ensure_ap tests and sets s_ap_active in one section, so a caller that finds
\* it clear is the only one that goes on to raise the AP.
LEMMA ApNext == TypeOK /\ ApRaisedOnce /\ [Next]_vars => ApRaisedOnce'
<1> SUFFICES ASSUME TypeOK, ApRaisedOnce, [Next]_vars PROVE ApRaisedOnce'
  OBVIOUS
<1>1. CASE EvEnsureAp \/ HttpEnsureAp
  BY <1>1 DEF EvEnsureAp, HttpEnsureAp, ensure_ap, drvVars, ApRaisedOnce
<1>2. CASE EvRaiseAp \/ HttpRaiseAp
  BY <1>2 DEF EvRaiseAp, HttpRaiseAp, staVars, ApRaisedOnce
<1>3. CASE Reboot
  BY <1>3 DEF Reboot, ApRaisedOnce
<1>4. CASE OnStart \/ OnDisconnected \/ OnGotIp
  BY <1>4 DEF OnStart, OnDisconnected, DecideStop, DecideRetry, DecideKeepTrying,
     DecideFallback, OnGotIp, Take, drvVars, ApRaisedOnce
<1>5. CASE Request \/ SaveSsid \/ SavePass \/ SetConfig \/ Apply \/ HttpDisconnect
  BY <1>5 DEF Request, SaveSsid, SavePass, SetConfig, Apply, HttpDisconnect,
     staVars, drvVars, ApRaisedOnce
<1>6. CASE HttpConnect \/ Clear \/ Leave \/ EvConnect \/ JoinOk \/ JoinFails \/ LinkDrops
  BY <1>6 DEF HttpConnect, Clear, Leave, EvConnect, JoinOk, JoinFails, LinkDrops,
     staVars, drvVars, ApRaisedOnce
<1>7. CASE UNCHANGED vars
  BY <1>7 DEF vars, staVars, drvVars, ApRaisedOnce
<1> QED BY <1>1, <1>2, <1>3, <1>4, <1>5, <1>6, <1>7, NextSteps DEF Steps

\* s_ap_active is set exactly when the AP is up or one task, and only one, is
\* raising it.
THEOREM ApIsRaisedOnce == Spec => []ApRaisedOnce
<1>1. Init => ApRaisedOnce
  BY DEF Init, ApRaisedOnce
<1> QED BY <1>1, ApNext, TypeCorrect, PTL DEF Spec

-----------------------------------------------------------------------------
(* Stored and configured credentials *)

\* What wifi_set_station has stored and configured at each of its steps.
StoredInv ==
  /\ http = "pass" => nvs.ssid = req
  /\ http \in {"config", "apply", "redo", "connect"} =>
       req # None /\ nvs = [ssid |-> req, pass |-> req]
  /\ http \in {"apply", "redo", "connect"} => cfg = nvs
  /\ http \in {"redo", "connect"} => s_sta_configured /\ s_sta_ssid = req
  /\ http \in {"clear", "leave", "ensure", "raise"} => nvs.ssid = None
  /\ http \in {"leave", "ensure", "raise"} => ~s_sta_configured

\* The variables StoredInv and ConfigIsStored are about.
credVars == <<http, req, nvs, cfg, s_sta_configured, s_sta_ssid>>

\* The event task and the driver touch none of them.
LEMMA OthersKeepCreds ==
  ASSUME [Next]_vars
  PROVE  \/ Request \/ SaveSsid \/ SavePass \/ SetConfig \/ Apply \/ HttpDisconnect
         \/ HttpConnect \/ Clear \/ Leave \/ HttpEnsureAp \/ HttpRaiseAp \/ Reboot
         \/ UNCHANGED credVars
<1>1. OnStart \/ OnDisconnected \/ OnGotIp \/ EvConnect => UNCHANGED credVars
  BY DEF OnStart, OnDisconnected, DecideStop, DecideRetry, DecideKeepTrying,
     DecideFallback, OnGotIp, EvConnect, Take, staVars, drvVars, credVars
<1>2. EvEnsureAp \/ EvRaiseAp \/ JoinOk \/ JoinFails \/ LinkDrops => UNCHANGED credVars
  BY DEF EvEnsureAp, ensure_ap, EvRaiseAp, JoinOk, JoinFails, LinkDrops, staVars,
     drvVars, credVars
<1>3. UNCHANGED vars => UNCHANGED credVars
  BY DEF vars, staVars, drvVars, credVars
<1> QED BY <1>1, <1>2, <1>3, NextSteps DEF Steps

LEMMA StoredNext ==
  TypeOK /\ StoredInv /\ ConfigIsStored /\ [Next]_vars => StoredInv' /\ ConfigIsStored'
<1> SUFFICES ASSUME TypeOK, StoredInv, ConfigIsStored, [Next]_vars
             PROVE  StoredInv' /\ ConfigIsStored'
  OBVIOUS
<1>0. nvs \in Creds /\ None \notin Nets
  BY TypeParts, WifiAssumption DEF DriverTyped
<1>1. CASE Request
  BY <1>1 DEF Request, StoredInv, ConfigIsStored
<1>2. CASE SaveSsid
  BY <1>0, <1>2 DEF SaveSsid, Creds, StoredInv, ConfigIsStored
<1>3. CASE SavePass
  <2>1. nvs' = [ssid |-> req, pass |-> req]
    BY <1>0, <1>3 DEF SavePass, Creds, StoredInv
  <2> QED BY <1>3, <2>1 DEF SavePass, StoredInv, ConfigIsStored
<1>4. CASE SetConfig
  BY <1>4 DEF SetConfig, staVars, StoredInv, ConfigIsStored
<1>5. CASE Apply
  <2>1. nvs.ssid = req /\ nvs.pass = req /\ req # None /\ cfg = nvs
    BY <1>5 DEF Apply, StoredInv
  <2>2. s_sta_configured' = TRUE /\ s_sta_ssid' = req /\ UNCHANGED <<nvs, cfg, req>>
    BY <1>5 DEF Apply, drvVars
  <2>3. load_sta_creds(nvs')
    BY <2>1, <2>2 DEF load_sta_creds
  <2>4. http' \in {"redo", "idle"}
    BY <1>5 DEF Apply
  <2>5. nvs = [ssid |-> req, pass |-> req]
    BY <1>5 DEF Apply, StoredInv
  <2> QED BY <2>1, <2>2, <2>3, <2>4, <2>5 DEF StoredInv, ConfigIsStored
<1>6. CASE HttpDisconnect
  BY <1>6 DEF HttpDisconnect, staVars, StoredInv, ConfigIsStored
<1>7. CASE HttpConnect
  <2>1. nvs.ssid = req /\ nvs.pass = req /\ req # None /\ cfg = nvs
    BY <1>7 DEF HttpConnect, StoredInv
  <2>2. load_sta_creds(nvs)
    BY <2>1 DEF load_sta_creds
  <2>3. s_sta_configured /\ s_sta_ssid = req
    BY <1>7 DEF HttpConnect, StoredInv
  <2>4. http' = "idle" /\ UNCHANGED <<req, nvs, cfg, s_sta_configured, s_sta_ssid>>
    BY <1>7 DEF HttpConnect, staVars
  <2> QED BY <2>1, <2>2, <2>3, <2>4 DEF StoredInv, ConfigIsStored
<1>8. CASE Clear
  BY <1>8 DEF Clear, drvVars, StoredInv, ConfigIsStored
<1>9. CASE Leave
  BY <1>9 DEF Leave, staVars, StoredInv, ConfigIsStored
<1>10. CASE HttpEnsureAp \/ HttpRaiseAp
  BY <1>10 DEF HttpEnsureAp, HttpRaiseAp, ensure_ap, staVars, drvVars, load_sta_creds,
     StoredInv, ConfigIsStored
<1>11. CASE Reboot
  BY <1>11 DEF Reboot, wifi_start, StoredInv, ConfigIsStored
<1>12. CASE UNCHANGED credVars
  BY <1>12 DEF credVars, load_sta_creds, StoredInv, ConfigIsStored
<1> QED BY <1>1, <1>2, <1>3, <1>4, <1>5, <1>6, <1>7, <1>8, <1>9, <1>10, <1>11, <1>12,
           OthersKeepCreds

\* Whenever no request runs, a reboot loads exactly what is configured now.
THEOREM ConfigSurvivesReboot == Spec => []ConfigIsStored
<1>1. Init => StoredInv /\ ConfigIsStored
  BY DEF Init, wifi_start, StoredInv, ConfigIsStored
<1> QED BY <1>1, StoredNext, TypeCorrect, PTL DEF Spec
-----------------------------------------------------------------------------
(* The event queue and the link *)

\* The event posted last, of those not handled yet.
Last == evq[Len(evq)]

IsGotIp(e) == e[1] = "GOT_IP"

LEMMA PostEffect ==
  ASSUME QueueTyped, NEW e \in Events, Post(e)
  PROVE  /\ evq' # <<>> /\ Last' = e
         /\ \A i \in 1..Len(evq') : evq'[i] = e \/ \E j \in 1..Len(evq) : evq'[i] = evq[j]
<1>1. evq \in Seq(Events) /\ evq' = Append(evq, e) /\ Len(evq) \in Nat
  BY LenProperties DEF QueueTyped, Post
<1>2. /\ Len(evq') = Len(evq) + 1 /\ evq'[Len(evq) + 1] = e
      /\ \A i \in 1..Len(evq) : evq'[i] = evq[i]
  BY <1>1, AppendProperties
<1>3. \A i \in 1..Len(evq') : i = Len(evq) + 1 \/ i \in 1..Len(evq)
  BY <1>1, <1>2
<1>4. evq' # <<>>
  BY <1>1, <1>2
<1> QED BY <1>2, <1>3, <1>4 DEF Last

LEMMA TakeEffect ==
  ASSUME QueueTyped, NEW e, Take(e)
  PROVE  /\ evq # <<>> /\ evq[1] = e /\ 1 \in 1..Len(evq)
         /\ IF evq' = <<>> THEN Last = e ELSE Last' = Last
         /\ \A i \in 1..Len(evq') : \E j \in 1..Len(evq) : evq'[i] = evq[j]
<1>1. /\ evq \in Seq(Events) /\ evq # <<>> /\ evq' = Tail(evq) /\ Head(evq) = e
      /\ Len(evq) \in Nat
  BY LenProperties DEF QueueTyped, Take
<1>2. /\ evq' \in Seq(Events) /\ Len(evq') = Len(evq) - 1
      /\ \A i \in 1..Len(evq') : evq'[i] = evq[i + 1]
      /\ evq[1] = e /\ Len(evq) >= 1
  BY <1>1
<1>3. \A i \in 1..Len(evq') : i + 1 \in 1..Len(evq)
  BY <1>1, <1>2
<1>4. CASE evq' = <<>>
  <2>0. Len(evq') = 0
    BY <1>4
  <2>1. Len(evq) = 1
    <3>1. Len(evq') = Len(evq) - 1 /\ Len(evq) \in Nat
      BY <1>1, <1>2
    <3> QED BY <2>0, <3>1
  <2> QED BY <1>1, <1>2, <1>3, <1>4, <2>1 DEF Last
<1>5. CASE evq' # <<>>
  <2>1. Len(evq') \in 1..Len(evq')
    BY <1>2, <1>5, EmptySeq, LenProperties
  <2>2. evq'[Len(evq')] = evq[Len(evq') + 1] /\ Len(evq') + 1 = Len(evq)
    BY <1>1, <1>2, <2>1
  <2> QED BY <1>2, <1>3, <1>1, <1>5, <2>2 DEF Last
<1> QED BY <1>4, <1>5

\* What a step does to queue and link.
Handled == \E e \in Events : Take(e) /\ UNCHANGED link
CameUp == /\ link = "joining" /\ link' = "up"
          /\ \E n \in Nets : Post(GotIp(n))
WentDown == link # "down" /\ link' = "down" /\ Post(Disconnected)
Joining == link' \in {link, "joining"} /\ (link' # link => link = "down") /\ UNCHANGED evq

LEMMA LinkSteps ==
  ASSUME TypeOK, Next
  PROVE  \/ OnStart \/ OnDisconnected \/ OnGotIp
         \/ CameUp /\ UNCHANGED <<staVars, ev, http>>
         \/ WentDown /\ UNCHANGED <<staVars, ev, http>>
         \/ WentDown /\ (HttpDisconnect \/ Leave)
         \/ Joining /\ (EvConnect \/ HttpConnect)
         \/ UNCHANGED <<evq, link>> /\ Steps
         \/ Reboot
<1>1. JoinOk => CameUp /\ UNCHANGED <<staVars, ev, http>>
  BY WifiAssumption DEF JoinOk, Joinable, CameUp
<1>2. JoinFails \/ LinkDrops => WentDown /\ UNCHANGED <<staVars, ev, http>>
  BY DEF JoinFails, LinkDrops, WentDown
<1>3. HttpDisconnect \/ Leave => WentDown \/ UNCHANGED <<evq, link>>
  BY DEF HttpDisconnect, Leave, esp_wifi_disconnect, WentDown
<1>4. EvConnect \/ HttpConnect => Joining
  BY DEF EvConnect, HttpConnect, esp_wifi_connect, Joining
<1>5. EvEnsureAp \/ EvRaiseAp \/ Request \/ SaveSsid \/ SavePass \/ SetConfig \/ Apply
        \/ Clear \/ HttpEnsureAp \/ HttpRaiseAp => UNCHANGED <<evq, link>>
  BY DEF EvEnsureAp, EvRaiseAp, Request, SaveSsid, SavePass, SetConfig, Apply, Clear,
     HttpEnsureAp, HttpRaiseAp, drvVars
<1> QED BY <1>1, <1>2, <1>3, <1>4, <1>5, NextSteps DEF Steps

\* Before the STA_START handler nothing has happened; after it, that event does
\* not come again; and the last event posted tells whether the link is up.
LinkInv ==
  /\ ~s_sta_started =>
       /\ evq = <<Start>> /\ link = "down" /\ s_sta_state # "CONNECTED"
       /\ ev = "idle" /\ http \notin {"redo", "connect"}
  /\ s_sta_started => \A i \in 1..Len(evq) : evq[i] # Start
  /\ evq # <<>> => (link = "up" <=> IsGotIp(Last))

\* With nothing queued the state shown is right, but for the time in which a
\* request has changed it and not touched the link yet.
ShownInv ==
  evq = <<>> =>
    /\ s_sta_state = "CONNECTED" => link = "up"
    /\ link = "up" /\ http \notin {"redo", "leave"} => s_sta_state = "CONNECTED"

\* A station that shows "connecting" with its link down is configured, and an
\* event or a task is on its way to connect it.
ConnectInv ==
  s_sta_state = "CONNECTING" =>
    /\ s_sta_configured
    /\ link = "down" =>
         ev = "connect" \/ evq # <<>> \/ http \in {"redo", "connect"}

StationInv == LinkInv /\ ShownInv /\ ConnectInv

LEMMA EventsDiffer ==
  /\ Start # Disconnected /\ ~IsGotIp(Start) /\ ~IsGotIp(Disconnected)
  /\ \A n \in Nets : IsGotIp(GotIp(n)) /\ GotIp(n) # Start /\ GotIp(n) # Disconnected
BY DEF Start, Disconnected, GotIp, IsGotIp

\* Posting an event on a started station.
LEMMA PostKeepsLink ==
  ASSUME TypeOK, LinkInv, s_sta_started, NEW e \in Events, e # Start, Post(e),
         link' = "up" <=> IsGotIp(e), s_sta_started' = s_sta_started
  PROVE  LinkInv'
<1>1. QueueTyped
  BY TypeParts
<1>2. /\ evq' # <<>> /\ Last' = e
      /\ \A i \in 1..Len(evq') : evq'[i] = e \/ \E j \in 1..Len(evq) : evq'[i] = evq[j]
  BY <1>1, PostEffect
<1>3. \A i \in 1..Len(evq') : evq'[i] # Start
  BY <1>2 DEF LinkInv
<1>4. s_sta_started' /\ (link' = "up" <=> IsGotIp(Last'))
  BY <1>2
<1> QED BY <1>3, <1>4 DEF LinkInv, IsGotIp

\* Handling an event: the STA_START one is the first, and what is left tells
\* the same of the link.
LEMMA TakeKeepsLink ==
  ASSUME TypeOK, LinkInv, NEW e \in Events, Take(e), s_sta_started'
  PROVE  LinkInv'
<1>1. QueueTyped /\ UNCHANGED link
  BY TypeParts DEF Take, drvVars
<1>2. /\ evq # <<>> /\ evq[1] = e /\ 1 \in 1..Len(evq)
      /\ IF evq' = <<>> THEN Last = e ELSE Last' = Last
      /\ \A i \in 1..Len(evq') : \E j \in 1..Len(evq) : evq'[i] = evq[j]
  BY <1>1, TakeEffect
<1>3. \A i \in 1..Len(evq') : evq'[i] # Start
  <2>1. CASE s_sta_started
    BY <1>2, <2>1 DEF LinkInv
  <2>2. CASE ~s_sta_started
    <3>1. evq' = <<>>
      BY <2>2 DEF LinkInv, Take
    <3> QED BY <3>1
  <2> QED BY <2>1, <2>2
<1>4. evq' # <<>> => (link' = "up" <=> IsGotIp(Last'))
  BY <1>1, <1>2 DEF LinkInv
<1> QED BY <1>3, <1>4 DEF LinkInv, IsGotIp

\* Handling the last event leaves the link as that event says.
LEMMA LastTaken ==
  ASSUME TypeOK, LinkInv, NEW e \in Events, Take(e), evq' = <<>>
  PROVE  link' = "up" <=> IsGotIp(e)
<1>1. QueueTyped /\ UNCHANGED link
  BY TypeParts DEF Take, drvVars
<1>2. evq # <<>> /\ Last = e
  BY <1>1, TakeEffect
<1> QED BY <1>1, <1>2 DEF LinkInv
\* The three events and their handlers.
LEMMA HandlersKeep ==
  ASSUME TypeOK, StationInv, OnStart \/ OnDisconnected \/ OnGotIp
  PROVE  StationInv'
<1>0. LinkInv /\ ShownInv /\ ConnectInv
  BY DEF StationInv
<1>1. CASE OnStart
  <2>1. /\ Take(Start) /\ Start \in Events /\ s_sta_started'
        /\ UNCHANGED <<s_sta_state, s_sta_configured, link, http>>
        /\ ev' = IF s_sta_configured THEN "connect" ELSE "idle"
    BY <1>1, Literals DEF OnStart, Take, drvVars
  <2>2. LinkInv'
    BY <1>0, <2>1, TakeKeepsLink
  <2>3. ~s_sta_started
    <3>1. evq[1] = Start /\ 1 \in 1..Len(evq)
      BY <2>1, TypeParts, TakeEffect
    <3> QED BY <3>1, <1>0 DEF LinkInv
  <2>4. ShownInv'
    BY <1>0, <2>1, <2>3 DEF LinkInv, ShownInv
  <2>5. ConnectInv'
    BY <1>0, <2>1 DEF ConnectInv
  <2> QED BY <2>2, <2>4, <2>5 DEF StationInv
<1>2. CASE OnDisconnected
  <2>1. /\ Take(Disconnected) /\ Disconnected \in Events
        /\ UNCHANGED <<s_sta_started, s_sta_configured, link, http>>
        /\ evq[1] = Disconnected /\ 1 \in 1..Len(evq)
    BY <1>2, Literals, TypeParts, TakeEffect DEF OnDisconnected, Take, drvVars
  <2>2. s_sta_started
    BY <1>0, <2>1, EventsDiffer DEF LinkInv
  <2>3. LinkInv'
    BY <1>0, <2>1, <2>2, TakeKeepsLink
  <2>4. /\ s_sta_state' \in {"IDLE", "CONNECTING", "FAILED"}
        /\ s_sta_state' = "CONNECTING" => s_sta_configured /\ ev' = "connect"
    BY <1>2 DEF OnDisconnected, DecideStop, DecideRetry, DecideKeepTrying,
       DecideFallback
  <2>5. ShownInv'
    <3>1. evq' = <<>> => link' # "up"
      BY <1>0, <2>1, LastTaken, EventsDiffer
    <3> QED BY <2>4, <3>1 DEF ShownInv
  <2>6. ConnectInv'
    BY <2>1, <2>4 DEF ConnectInv
  <2> QED BY <2>3, <2>5, <2>6 DEF StationInv
<1>3. CASE OnGotIp
  <2>1. PICK n \in Nets : Take(GotIp(n)) /\ s_sta_state' = "CONNECTED"
    BY <1>3 DEF OnGotIp
  <2>2. /\ GotIp(n) \in Events /\ UNCHANGED <<s_sta_started, link, http>>
        /\ evq[1] = GotIp(n) /\ 1 \in 1..Len(evq)
    BY <1>3, <2>1, Literals, TypeParts, TakeEffect DEF OnGotIp, Take, drvVars
  <2>3. s_sta_started
    BY <1>0, <2>2, EventsDiffer DEF LinkInv
  <2>4. LinkInv'
    BY <1>0, <2>1, <2>2, <2>3, TakeKeepsLink
  <2>5. ShownInv'
    <3>1. evq' = <<>> => link' = "up"
      BY <1>0, <2>1, <2>2, LastTaken, EventsDiffer
    <3> QED BY <2>1, <3>1 DEF ShownInv
  <2>6. ConnectInv'
    BY <2>1 DEF ConnectInv
  <2> QED BY <2>4, <2>5, <2>6 DEF StationInv
<1> QED BY <1>1, <1>2, <1>3

\* The steps that move the link: the driver's, and the driver calls.
LEMMA LinkMovesKeep ==
  ASSUME TypeOK, StationInv,
         \/ CameUp /\ UNCHANGED <<staVars, ev, http>>
         \/ WentDown /\ UNCHANGED <<staVars, ev, http>>
         \/ WentDown /\ (HttpDisconnect \/ Leave)
         \/ Joining /\ (EvConnect \/ HttpConnect)
  PROVE  StationInv'
<1>0. LinkInv /\ ShownInv /\ ConnectInv /\ QueueTyped
  BY TypeParts DEF StationInv
<1>1. CASE CameUp /\ UNCHANGED <<staVars, ev, http>>
  <2>1. PICK n \in Nets : Post(GotIp(n))
    BY <1>1 DEF CameUp
  <2>2. /\ s_sta_started /\ GotIp(n) \in Events /\ link' = "up"
        /\ UNCHANGED <<s_sta_started, s_sta_state, s_sta_configured>>
    BY <1>0, <1>1, Literals DEF CameUp, LinkInv, staVars
  <2>3. LinkInv'
    BY <1>0, <2>1, <2>2, PostKeepsLink, EventsDiffer
  <2>4. evq' # <<>>
    BY <1>0, <2>1, <2>2, PostEffect
  <2> QED BY <1>0, <2>2, <2>3, <2>4 DEF StationInv, ShownInv, ConnectInv
<1>2. ASSUME WentDown, UNCHANGED <<s_sta_started, s_sta_state, s_sta_configured>>
      PROVE  StationInv'
  <2>1. /\ Post(Disconnected) /\ Disconnected \in Events /\ link' = "down"
        /\ s_sta_started
    BY <1>0, <1>2, Literals DEF WentDown, LinkInv
  <2>2. LinkInv'
    BY <1>0, <1>2, <2>1, PostKeepsLink, EventsDiffer
  <2>3. evq' # <<>>
    BY <1>0, <2>1, PostEffect
  <2> QED BY <1>0, <1>2, <2>2, <2>3 DEF StationInv, ShownInv, ConnectInv
<1>3. CASE WentDown /\ (UNCHANGED <<staVars, ev, http>> \/ HttpDisconnect \/ Leave)
  BY <1>2, <1>3 DEF HttpDisconnect, Leave, staVars
<1>4. CASE Joining /\ (EvConnect \/ HttpConnect)
  <2>1. /\ s_sta_started /\ link' # "down"
        /\ UNCHANGED <<s_sta_started, s_sta_state, s_sta_configured, evq>>
        /\ link' = "up" <=> link = "up"
        /\ http' \in {"redo", "leave"} <=> http \in {"redo", "leave"}
    BY <1>0, <1>4 DEF Joining, EvConnect, HttpConnect, esp_wifi_connect, LinkInv, staVars
  <2>2. LinkInv'
    BY <1>0, <2>1 DEF LinkInv, Last
  <2>3. ShownInv' /\ ConnectInv'
    BY <1>0, <2>1 DEF ShownInv, ConnectInv
  <2> QED BY <2>2, <2>3 DEF StationInv
<1> QED BY <1>1, <1>3, <1>4

\* The steps that leave queue and link alone, and a reboot.
LEMMA OthersKeep ==
  ASSUME TypeOK, StationInv, Steps,
         UNCHANGED <<evq, link>>, ~(OnStart \/ OnDisconnected \/ OnGotIp),
         ~Reboot
  PROVE  StationInv'
<1>0. LinkInv /\ ShownInv /\ ConnectInv
  BY DEF StationInv
<1>1. CASE Apply
  <2>1. /\ s_sta_state' = "CONNECTING" /\ s_sta_configured' = TRUE
        /\ UNCHANGED <<s_sta_started, ev, evq, link>>
        /\ http' = IF s_sta_started THEN "redo" ELSE "idle"
    BY <1>1 DEF Apply, drvVars
  <2>2. LinkInv'
    BY <1>0, <2>1 DEF LinkInv, Last
  <2>3. ShownInv'
    BY <1>0, <2>1 DEF LinkInv, ShownInv
  <2>4. ConnectInv'
    BY <1>0, <2>1 DEF LinkInv, ConnectInv
  <2> QED BY <2>2, <2>3, <2>4 DEF StationInv
<1>2. CASE Clear
  <2>1. /\ s_sta_state' = "IDLE" /\ http' = "leave"
        /\ UNCHANGED <<s_sta_started, ev, evq, link>>
    BY <1>2 DEF Clear, drvVars
  <2>2. LinkInv'
    BY <1>0, <2>1 DEF LinkInv, Last
  <2> QED BY <1>0, <2>1, <2>2 DEF ShownInv, ConnectInv, StationInv
<1>3. CASE EvEnsureAp \/ EvRaiseAp
  <2>1. /\ UNCHANGED <<s_sta_started, s_sta_state, s_sta_configured, http, evq, link>>
        /\ ev # "connect" /\ ev # "idle"
    BY <1>3 DEF EvEnsureAp, EvRaiseAp, ensure_ap, staVars, drvVars
  <2>2. LinkInv'
    BY <1>0, <2>1 DEF LinkInv, Last
  <2> QED BY <1>0, <2>1, <2>2 DEF ShownInv, ConnectInv, StationInv
<1>4. CASE HttpDisconnect \/ Leave
  <2>1. /\ UNCHANGED <<s_sta_started, s_sta_state, s_sta_configured, ev, evq, link>>
        /\ link = "down"
        /\ http = "redo" => http' = "connect"
        /\ http \in {"redo", "leave"}
        /\ http' \in {"connect", "ensure"}
        /\ http' = "connect" => s_sta_started
    BY <1>0, <1>4 DEF HttpDisconnect, Leave, esp_wifi_disconnect, staVars, LinkInv
  <2>2. LinkInv'
    BY <1>0, <2>1 DEF LinkInv, Last
  <2> QED BY <1>0, <2>1, <2>2 DEF ShownInv, ConnectInv, StationInv
<1>5. CASE EvConnect \/ HttpConnect
  <2>1. Joining
    BY <1>5 DEF EvConnect, HttpConnect, esp_wifi_connect, Joining
  <2> QED BY <1>5, <2>1, LinkMovesKeep
<1>6. CASE Request \/ SaveSsid \/ SavePass \/ SetConfig \/ HttpEnsureAp \/ HttpRaiseAp
  <2>1. /\ UNCHANGED <<s_sta_started, s_sta_state, s_sta_configured, ev, evq, link>>
        /\ http \notin {"redo", "leave", "connect"}
        /\ http' \notin {"redo", "leave", "connect"}
    BY <1>6 DEF Request, SaveSsid, SavePass, SetConfig, HttpEnsureAp, HttpRaiseAp,
       ensure_ap, staVars, drvVars
  <2>2. LinkInv'
    BY <1>0, <2>1 DEF LinkInv, Last
  <2> QED BY <1>0, <2>1, <2>2 DEF ShownInv, ConnectInv, StationInv
<1>7. ~(JoinOk \/ JoinFails \/ LinkDrops)
  BY DEF JoinOk, JoinFails, LinkDrops
<1> QED BY <1>1, <1>2, <1>3, <1>4, <1>5, <1>6, <1>7 DEF Steps

\* A reboot starts over with the STA_START event.
LEMMA RebootKeeps == Reboot => StationInv'
<1> SUFFICES ASSUME Reboot PROVE StationInv'
  OBVIOUS
<1>1. /\ s_sta_started' = FALSE /\ evq' = <<Start>> /\ link' = "down"
      /\ ev' = "idle" /\ http' = "idle"
      /\ s_sta_state' # "CONNECTED"
      /\ s_sta_state' = "CONNECTING" => s_sta_configured'
  BY DEF Reboot, wifi_start
<1>2. Last' = Start /\ evq' # <<>>
  BY <1>1 DEF Last
<1> QED BY <1>1, <1>2, EventsDiffer DEF StationInv, LinkInv, ShownInv, ConnectInv, IsGotIp

LEMMA StationNext == TypeOK /\ StationInv /\ [Next]_vars => StationInv'
<1> SUFFICES ASSUME TypeOK, StationInv, [Next]_vars PROVE StationInv'
  OBVIOUS
<1>1. CASE Next
  <2>1. CASE UNCHANGED <<evq, link>> /\ Steps
    BY <2>1, HandlersKeep, RebootKeeps, OthersKeep
  <2> QED BY <1>1, <2>1, LinkSteps, HandlersKeep, LinkMovesKeep, RebootKeeps
<1>2. CASE UNCHANGED vars
  BY <1>2 DEF vars, staVars, drvVars, StationInv, LinkInv, ShownInv, ConnectInv, Last
<1> QED BY <1>1, <1>2

LEMMA StationAlways == Spec => []StationInv
<1>1. Init => StationInv
  <2> SUFFICES ASSUME Init PROVE StationInv
    OBVIOUS
  <2>1. /\ s_sta_started = FALSE /\ evq = <<Start>> /\ link = "down"
        /\ ev = "idle" /\ http = "idle"
        /\ s_sta_state # "CONNECTED"
        /\ s_sta_state = "CONNECTING" => s_sta_configured
    BY DEF Init, wifi_start
  <2>2. Last = Start /\ evq # <<>>
    BY <2>1 DEF Last
  <2> QED BY <2>1, <2>2, EventsDiffer DEF StationInv, LinkInv, ShownInv, ConnectInv
<1> QED BY <1>1, StationNext, TypeCorrect, PTL DEF Spec

\* A station that shows "connecting" is never left with its link down and
\* nobody about to connect it: the STA_START handler and apply_sta_config do
\* not both leave it to the other, and no disconnect goes unanswered.
THEOREM StationIsConnected == Spec => []ConnectNotForgotten
<1>1. StationInv => ConnectNotForgotten
  BY DEF StationInv, ConnectInv, ConnectNotForgotten, Quiet
<1> QED BY <1>1, StationAlways, PTL

\* Once every event is handled and no request runs, the page shows "connected"
\* exactly when the link is up, whatever events of an earlier network were
\* handled after the station was configured for a new one.
THEOREM ShownStateAgrees == Spec => []ShownStateIsReal
<1>1. StationInv => ShownStateIsReal
  BY DEF StationInv, ShownInv, ShownStateIsReal, Quiet
<1> QED BY <1>1, StationAlways, PTL
=============================================================================
