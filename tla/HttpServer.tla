----------------------------- MODULE HttpServer -----------------------------
(***************************************************************************)
(* main/http_status.c: the web UI.  One httpd task serves all clients: it  *)
(* answers every session that had sent a request, one after the other, and *)
(* then accepts one new connection, closing the session unused for longest *)
(* when its sockets have run out.  A handler that waits keeps everybody    *)
(* waiting; only update_post (main/ota.c) does, for the rest of an upload. *)
(*                                                                         *)
(* esp_http_server is external, modelled as http_status_start sets it up.  *)
(* wifi_set_station is one step here (WifiStation takes it apart), and so  *)
(* is an upload's end (OtaUpdate).  What a request asks for is chosen when *)
(* it is served.                                                           *)
(***************************************************************************)
EXTENDS WebForm

CONSTANTS
  Clients,
  Nobody,        \* no client
  MaxSockets,    \* max_open_sockets of HTTPD_DEFAULT_CONFIG (7)
  Forms,         \* the name and password pairs a user may enter
  Heard          \* what a scan may find, strongest first

ASSUME HttpAssumption ==
  /\ Nobody \notin Clients
  /\ MaxSockets \in Nat \ {0}
  /\ Forms \subseteq [ssid : Seq(Char), pass : Seq(Char)]
  /\ \A f \in Forms : f.ssid # <<>>      \* the page asks for a name
  /\ Heard \subseteq Seq([ssid : Seq(Char), rssi : Int])
  /\ \A recs \in Heard : \A i, j \in 1..Len(recs) :
       i < j => recs[i].rssi >= recs[j].rssi

VARIABLES
  pending,       \* connections the task has not accepted yet, oldest first
  sess,          \* the open sessions, the one unused for longest first
  asks,          \* clients with a request on the way
  ready,         \* sessions select reported, still to be served this round
  serving,       \* the client whose upload is being received
  sender,        \* that client: sending, silent, or gone
  nvs,           \* the stored credentials
  cfg,           \* the station configuration the driver has
  s_sta_ssid,
  scan,          \* if the last request was for /scan: what it heard and answered
  typed,         \* history: what the last form was made of
  whole          \* history: all of it was received

netVars == <<pending, sess, asks, ready, serving, sender>>
staVars == <<nvs, cfg, s_sta_ssid>>
formVars == <<typed, whole>>
vars == <<netVars, staVars, formVars, scan>>

Open == {sess[i] : i \in 1..Len(sess)}
Waiting == {pending[i] : i \in 1..Len(pending)}
NoScan == [heard |-> <<>>, list |-> <<>>]

TypeOK ==
  /\ Open \subseteq Clients /\ Len(sess) <= MaxSockets
  /\ Waiting \subseteq Clients \ Open
  /\ asks \subseteq Open /\ ready \subseteq asks
  /\ serving \in Open \cup {Nobody} /\ serving \notin asks
  /\ sender \in {"sending", "silent", "gone"}
  /\ Len(nvs.ssid) < SSID_FIELD /\ Len(nvs.pass) < PASS_FIELD
  /\ Len(cfg.ssid) < DRV_SSID /\ Len(cfg.pass) < DRV_PASS
  /\ Len(s_sta_ssid) < SHOWN_SSID
  /\ scan.heard \in Heard \cup {<<>>}
  /\ whole \in BOOLEAN

Init ==
  /\ pending = <<>> /\ sess = <<>> /\ asks = {} /\ ready = {}
  /\ serving = Nobody /\ sender = "sending"
  /\ nvs = Nothing /\ cfg = Nothing /\ s_sta_ssid = <<>>
  /\ scan = NoScan
  /\ typed = Nothing /\ whole = TRUE

\* A sequence of distinct clients, one of them c, without c.
Without(s, c) ==
  LET i == CHOOSE i \in 1..Len(s) : s[i] = c
  IN  SubSeq(s, 1, i - 1) \o SubSeq(s, i + 1, Len(s))

-----------------------------------------------------------------------------
(* The clients *)

Connect(c) ==
  /\ c \notin Open \cup Waiting
  /\ pending' = Append(pending, c)
  /\ UNCHANGED <<sess, asks, ready, serving, sender, staVars, formVars, scan>>

Ask(c) ==
  /\ c \in Open \ (asks \cup {serving})
  /\ asks' = asks \cup {c}
  /\ UNCHANGED <<pending, sess, ready, serving, sender, staVars, formVars, scan>>

\* The uploading client pauses, goes on, or breaks off.
Stall ==
  /\ serving # Nobody
  /\ sender = "sending"
  /\ sender' = "silent"
  /\ UNCHANGED <<pending, sess, asks, ready, serving, staVars, formVars, scan>>

Resume ==
  /\ sender = "silent"
  /\ sender' = "sending"
  /\ UNCHANGED <<pending, sess, asks, ready, serving, staVars, formVars, scan>>

BreakOff ==
  /\ serving # Nobody /\ sender # "gone"
  /\ sender' = "gone"
  /\ UNCHANGED <<pending, sess, asks, ready, serving, staVars, formVars, scan>>

-----------------------------------------------------------------------------
(* The httpd task *)

\* Mutant of Kept: nothing is closed to make room.
KeptAll == sess

\* lru_purge_enable: the sessions that stay when one more is accepted.
Kept == IF Len(sess) < MaxSockets THEN sess ELSE Tail(sess)

AcceptOldest ==
  /\ pending # <<>>
  /\ sess' = Append(Kept, Head(pending))
  /\ pending' = Tail(pending)
  /\ asks' = asks \cap {Kept[i] : i \in 1..Len(Kept)}

\* Mutant: lru_purge_enable is not set, and a full table accepts nobody.
RoundPurgesNobody ==
  /\ serving = Nobody /\ ready = {}
  /\ \/ AcceptOldest /\ Len(sess) < MaxSockets
     \/ asks # {} /\ UNCHANGED <<pending, sess, asks>>
  /\ ready' = asks'
  /\ UNCHANGED <<serving, sender, staVars, formVars, scan>>

\* The end of a round: accept the oldest connection, then select again.
Round ==
  /\ serving = Nobody /\ ready = {}
  /\ \/ AcceptOldest
     \/ pending = <<>> /\ asks # {} /\ UNCHANGED <<pending, sess, asks>>
  /\ ready' = asks'
  /\ UNCHANGED <<serving, sender, staVars, formVars, scan>>

\* Taking up a request makes the session the one used last.
Serve(c) ==
  /\ serving = Nobody /\ c \in ready
  /\ ready' = ready \ {c} /\ asks' = asks \ {c}
  /\ UNCHANGED pending

\* The handler returned ESP_OK; if it did not, the session is closed.
Keeps(c) == sess' = Append(Without(sess, c), c)
Closes(c) == sess' = Without(sess, c)

\* root_get and status_get: they read, and answer.
Get(c) ==
  /\ Serve(c) /\ Keeps(c)
  /\ UNCHANGED <<serving, sender, staVars, formVars>>
  /\ scan' = NoScan

\* A scan that cannot start, or finds nothing, lists nothing.
scan_get(c) ==
  /\ Serve(c) /\ Keeps(c)
  /\ \E recs \in Heard \cup {<<>>} :
       scan' = [heard |-> recs, list |-> wifi_scan(recs, MAX_SCAN_APS)]
  /\ UNCHANGED <<serving, sender, staVars, formVars>>

\* The client closed its end.
Hangup(c) ==
  /\ Serve(c) /\ Closes(c)
  /\ UNCHANGED <<serving, sender, staVars, formVars>>
  /\ scan' = NoScan

\* wifi_set_station: the driver keeps its configuration when it is cleared.
wifi_set_station(creds) ==
  IF creds.ssid # <<>>
  THEN /\ nvs' = creds
       /\ cfg' = Applied(creds)
       /\ s_sta_ssid' = strlcpy(creds.ssid, SHOWN_SSID)
  ELSE /\ nvs' = Nothing
       /\ s_sta_ssid' = <<>>
       /\ UNCHANGED cfg

\* What wifi_post makes of a body: one receive, which may return any part.
Posted(f, body) ==
  {[typed |-> f, whole |-> got = Len(body), creds |-> Fields(SubSeq(body, 1, got))] :
     got \in 1..Asked(body)}

\* The page's join() and forget().
Joins == UNION {Posted(f, FormBody(f.ssid, f.pass)) : f \in Forms}
Forgets == Posted(Nothing, ForgetBody)

PostForm(c) ==
  /\ Serve(c) /\ Keeps(c)
  /\ \E post \in Joins \cup Forgets :
       /\ wifi_set_station(post.creds)
       /\ typed' = post.typed /\ whole' = post.whole
  /\ scan' = NoScan
  /\ UNCHANGED <<serving, sender>>

\* The receive failed: "no body", and nothing is stored.
PostFails(c) ==
  /\ Serve(c) /\ Closes(c)
  /\ UNCHANGED <<serving, sender, staVars, formVars>>
  /\ scan' = NoScan

wifi_post(c) == PostForm(c) \/ PostFails(c)

\* update_post starts: the task is the uploading client's until it ends.
Upload(c) ==
  /\ Serve(c)
  /\ sess' = sess
  /\ serving' = c /\ sender' = "sending"
  /\ scan' = NoScan
  /\ UNCHANGED <<staVars, formVars>>

\* Its loop is left with an error, or refuses the image: the session closes.
EndUpload ==
  /\ Closes(serving)
  /\ serving' = Nobody /\ sender' = "sending"
  /\ UNCHANGED <<pending, asks, ready, staVars, formVars, scan>>

\* Mutant: every failed receive is taken for a timeout.
UploadRetriesAll == FALSE /\ EndUpload

\* A receive that fails for another reason than a timeout ends the loop; a
\* timeout only starts it over.
UploadAborted == serving # Nobody /\ sender = "gone" /\ EndUpload

\* The last chunk was received (those before it change nothing here).
UploadRefused == serving # Nobody /\ sender = "sending" /\ EndUpload

\* esp_restart or a power cut: wifi_start with what is stored; the server and
\* its clients start over.
Boot ==
  /\ IF Loads(nvs) THEN /\ cfg' = AtBoot(nvs)
                        /\ s_sta_ssid' = strlcpy(nvs.ssid, SHOWN_SSID)
     ELSE cfg' = Nothing /\ s_sta_ssid' = <<>>
  /\ pending' = <<>> /\ sess' = <<>> /\ asks' = {} /\ ready' = {}
  /\ serving' = Nobody /\ sender' = "sending"
  /\ scan' = NoScan
  /\ UNCHANGED <<nvs, formVars>>

UploadAccepted == serving # Nobody /\ sender = "sending" /\ Boot

Handler(c) ==
  Get(c) \/ scan_get(c) \/ wifi_post(c) \/ Upload(c) \/ Hangup(c)

HttpTask ==
  \/ Round
  \/ \E c \in Clients : Handler(c)
  \/ UploadAborted \/ UploadRefused \/ UploadAccepted

Next ==
  \/ HttpTask
  \/ \E c \in Clients : Connect(c) \/ Ask(c)
  \/ Stall \/ Resume \/ BreakOff
  \/ Boot

Spec == Init /\ [][Next]_vars

\* The httpd task runs; no client has to go on with what it began.
FairSpec == Spec /\ WF_vars(HttpTask)

-----------------------------------------------------------------------------
(* Properties *)

\* A form that was received as a whole, and whose fields fit once encoded, is
\* stored exactly as it was typed, whatever characters it is made of.
FormTakenAsTyped ==
  /\ whole
  /\ Len(encodeURIComponent(typed.ssid)) < SSID_FIELD
  /\ Len(encodeURIComponent(typed.pass)) < PASS_FIELD
  => nvs = typed

\* The longest names and passwords there are: they fill the driver's fields.
Possible(c) == c.ssid # <<>> /\ Len(c.ssid) <= DRV_SSID /\ Len(c.pass) <= DRV_PASS

\* What is stored and what was applied live agree: the next boot reads it back
\* and configures the driver, and names the network, as they are now.
BootKeepsNetwork ==
  Possible(nvs) => /\ Loads(nvs)
                   /\ cfg = AtBoot(nvs)
                   /\ s_sta_ssid = nvs.ssid

\* The name in the answer to /status, read as JSON, is the configured one: it
\* is escaped, and the buffer is large enough for every name.
StatusNamesNetwork == JsonRead(json_escape(s_sta_ssid)) = s_sta_ssid

\* "Deduped by SSID, strongest first": an entry of the list is the strongest
\* one heard of its name, no name is listed twice, the order is kept, and a
\* name that was heard is only missing from a full list.
ScanListsEachOnce ==
  LET heard == scan.heard
      list == scan.list
  IN  /\ \A i, j \in 1..Len(list) : i < j =>
           list[i].ssid # list[j].ssid /\ list[i].rssi >= list[j].rssi
      /\ \A j \in 1..Len(list) : \E i \in 1..Len(heard) : list[j] = heard[i]
      /\ \A i \in 1..Len(heard) : heard[i].ssid # <<>> =>
           \/ \E j \in 1..Len(list) :
                list[j].ssid = heard[i].ssid /\ list[j].rssi >= heard[i].rssi
           \/ Len(list) = MAX_SCAN_APS

CalmUploads == <>[](sender # "silent")

\* If uploads do not pause for ever, every request is served, or its session
\* is given up: one upload that breaks off does not take the server with it.
EveryAskEnds == CalmUploads => \A c \in Clients : c \in asks ~> c \notin asks

\* "Free idle sockets so the page stays reachable": whoever connects is
\* accepted, however many sessions are open and idle.
EveryoneGetsIn ==
  CalmUploads => \A c \in Clients : c \in Waiting ~> c \notin Waiting
=============================================================================
