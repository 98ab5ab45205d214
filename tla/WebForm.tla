------------------------------- MODULE WebForm -------------------------------
(***************************************************************************)
(* What happens to a network's name and password between the page and the  *)
(* driver: the page's encoding, the form fields and url_decode of          *)
(* main/http_status.c, the stored and the configured strings of            *)
(* main/wifi.c, and json_escape and the scan list on the way back.         *)
(*                                                                         *)
(* A string is the sequence of its characters.  A few characters stand for *)
(* their kind: one that is sent as it is, a hexadecimal digit, those that  *)
(* must be written %XX, those JSON escapes, and a control character.       *)
(***************************************************************************)
EXTENDS Integers, Sequences

CONSTANTS
  Unreserved,    \* the characters the page sends as they are
  BODY_BUF,      \* buf of wifi_post (256)
  SSID_FIELD,    \* ssid of wifi_post (64)
  PASS_FIELD,    \* pass of wifi_post (128)
  DRV_SSID,      \* wifi_config_t's sta.ssid (32)
  DRV_PASS,      \* wifi_config_t's sta.password (64)
  SHOWN_SSID,    \* s_sta_ssid, and ssid of wifi_start (33)
  LOAD_PASS,     \* pass of wifi_start (65)
  ESC_BUF,       \* ssid_esc of status_get and scan_get (200)
  MAX_SCAN_APS   \* entries of the list scan_get asks for (20)

TAB == "TAB"

\* The characters that are sent as an escape, the keys of a form and what they
\* are made of here, and the digits of an escape that isxdigit is asked about.
Reserved == {"%", "+", " ", "\"", "\\", TAB}
Keys == {"ssid=", "&pass="}
HexDigits == {"0", "2", "5", "9", "B", "C"}

\* What an escape stands for that the page never sends.
ODD == "ODD"

\* What a user may type, and what may be in a buffer of the firmware.
Char == Unreserved \cup Reserved
Byte == Char \cup Keys \cup HexDigits \cup {ODD}

ASSUME FormAssumption ==
  /\ {BODY_BUF, SSID_FIELD, PASS_FIELD, DRV_SSID, DRV_PASS, SHOWN_SSID, LOAD_PASS,
      ESC_BUF, MAX_SCAN_APS} \subseteq Nat \ {0}
  /\ Unreserved \cap (Reserved \cup Keys) = {}
  /\ DRV_SSID < SHOWN_SSID /\ DRV_PASS < LOAD_PASS
  /\ 6 * (SHOWN_SSID - 1) < ESC_BUF

\* The first size - 1 characters: strlcpy into a buffer of that size.
strlcpy(s, size) == SubSeq(s, 1, IF Len(s) < size THEN Len(s) ELSE size - 1)

-----------------------------------------------------------------------------
(* The page *)

\* encodeURIComponent of one character.
Code(c) ==
  CASE c = "%"  -> <<"%", "2", "5">>
    [] c = "+"  -> <<"%", "2", "B">>
    [] c = " "  -> <<"%", "2", "0">>
    [] c = "\"" -> <<"%", "2", "2">>
    [] c = "\\" -> <<"%", "5", "C">>
    [] c = TAB  -> <<"%", "0", "9">>
    [] OTHER    -> <<c>>

\* The reverse, as strtol(hex, NULL, 16) gives it.
CharOf(h, l) ==
  CASE <<h, l>> = <<"2", "5">> -> "%"
    [] <<h, l>> = <<"2", "B">> -> "+"
    [] <<h, l>> = <<"2", "0">> -> " "
    [] <<h, l>> = <<"2", "2">> -> "\""
    [] <<h, l>> = <<"5", "C">> -> "\\"
    [] <<h, l>> = <<"0", "9">> -> TAB
    [] OTHER                   -> ODD

encodeURIComponent(s) ==
  LET enc[i \in 0..Len(s)] == IF i = 0 THEN <<>> ELSE enc[i - 1] \o Code(s[i])
  IN  enc[Len(s)]

\* The body join() sends; a key is one character here, since one that is cut
\* is one that is missing.  forget() sends the first key and nothing else.
FormBody(ssid, pass) ==
  <<"ssid=">> \o encodeURIComponent(ssid) \o <<"&pass=">> \o encodeURIComponent(pass)

ForgetBody == <<"ssid=">>

-----------------------------------------------------------------------------
(* wifi_post *)

isxdigit(c) == c \in HexDigits

\* A whole escape begins at i.
EscapeAt(s, i) ==
  s[i] = "%" /\ i + 2 <= Len(s) /\ isxdigit(s[i + 1]) /\ isxdigit(s[i + 2])

\* Mutant: the digits of an escape are read again as text.
DecodeStaysBehind(s) ==
  LET dec[i \in 1..(Len(s) + 1)] ==
        IF i > Len(s) THEN <<>>
        ELSE IF EscapeAt(s, i) THEN <<CharOf(s[i + 1], s[i + 2])>> \o dec[i + 1]
        ELSE <<IF s[i] = "+" THEN " " ELSE s[i]>> \o dec[i + 1]
  IN  dec[1]

\* In place, left to right; an escape that was cut stays as it is.
url_decode(s) ==
  LET dec[i \in 1..(Len(s) + 1)] ==
        IF i > Len(s) THEN <<>>
        ELSE IF EscapeAt(s, i) THEN <<CharOf(s[i + 1], s[i + 2])>> \o dec[i + 3]
        ELSE <<IF s[i] = "+" THEN " " ELSE s[i]>> \o dec[i + 1]
  IN  dec[1]

\* httpd_query_key_value: what follows the key, up to the next one and cut to
\* the field; an absent key leaves the field empty.
KeyValue(body, key, size) ==
  LET at == {i \in 1..Len(body) : body[i] = key}
      to(i) == CHOOSE j \in i..Len(body) :
                 /\ \A k \in (i + 1)..j : body[k] \notin Keys
                 /\ j = Len(body) \/ body[j + 1] \in Keys
  IN  IF at = {} THEN <<>>
      ELSE LET i == CHOOSE i \in at : TRUE
           IN  strlcpy(SubSeq(body, i + 1, to(i)), size)

\* How much of a body one httpd_req_recv is asked for.
Asked(body) == IF Len(body) < BODY_BUF - 1 THEN Len(body) ELSE BODY_BUF - 1

\* The credentials read from the part of a body that was received.
Fields(body) ==
  [ssid |-> url_decode(KeyValue(body, "ssid=", SSID_FIELD)),
   pass |-> url_decode(KeyValue(body, "&pass=", PASS_FIELD))]

-----------------------------------------------------------------------------
(* wifi.c *)

Nothing == [ssid |-> <<>>, pass |-> <<>>]

\* What apply_sta_config hands to the driver.
Applied(c) ==
  [ssid |-> strlcpy(c.ssid, DRV_SSID), pass |-> strlcpy(c.pass, DRV_PASS)]

\* Mutant: wifi_start leaves room for a terminator strlcpy already counts.
AtBootShort(c) ==
  [ssid |-> strlcpy(c.ssid, DRV_SSID - 1), pass |-> strlcpy(c.pass, DRV_PASS)]

\* What wifi_start hands to it.
AtBoot(c) ==
  [ssid |-> strlcpy(c.ssid, DRV_SSID), pass |-> strlcpy(c.pass, DRV_PASS)]

\* Mutant of Loads: buffers of the size of the driver's fields.
LoadsTight(c) ==
  /\ c.ssid # <<>>
  /\ Len(c.ssid) < DRV_SSID /\ Len(c.pass) < DRV_PASS

\* load_sta_creds: nvs_get_str fails when the buffer is too small.
Loads(c) ==
  /\ c.ssid # <<>>
  /\ Len(c.ssid) < SHOWN_SSID /\ Len(c.pass) < LOAD_PASS

-----------------------------------------------------------------------------
(* The answers *)

\* Mutant: a name is only compared with the last one listed.
ListedLooksBack(list, rec, max) ==
  IF /\ Len(list) < max /\ rec.ssid # <<>>
     /\ list # <<>> => list[Len(list)].ssid # rec.ssid
  THEN Append(list, rec) ELSE list

\* The list after one more record: hidden networks and names already listed are
\* skipped, and everything is once the list is full.
Listed(list, rec, max) ==
  IF /\ Len(list) < max /\ rec.ssid # <<>>
     /\ \A j \in 1..Len(list) : list[j].ssid # rec.ssid
  THEN Append(list, rec) ELSE list

\* The loop of wifi_scan over what the driver found, strongest first.
wifi_scan(recs, max) ==
  LET list[i \in 0..Len(recs)] ==
        IF i = 0 THEN <<>> ELSE Listed(list[i - 1], recs[i], max)
  IN  list[Len(recs)]

\* Mutant: the backslash is passed as it is.
EscapeQuoteOnly(c) ==
  CASE c = "\"" -> <<"\\", c>>
    [] c = TAB  -> <<"\\", "u", "0", "0", "0", "9">>
    [] OTHER    -> <<c>>

\* How json_escape writes one character.
Escape(c) ==
  CASE c \in {"\"", "\\"} -> <<"\\", c>>
    [] c = TAB            -> <<"\\", "u", "0", "0", "0", "9">>
    [] OTHER              -> <<c>>

\* The buffer after one more character: json_escape stops, between two
\* characters, where the next may not fit.
Escaped(buf, c) ==
  IF \/ buf.full
     \/ Len(buf.out) + 2 >= ESC_BUF
     \/ c = TAB /\ Len(buf.out) + 6 >= ESC_BUF
  THEN [buf EXCEPT !.full = TRUE]
  ELSE [buf EXCEPT !.out = @ \o Escape(c)]

json_escape(s) ==
  LET esc[i \in 0..Len(s)] ==
        IF i = 0 THEN [out |-> <<>>, full |-> FALSE] ELSE Escaped(esc[i - 1], s[i])
  IN  esc[Len(s)].out

\* What a reader of JSON makes of a string body; "?" marks one it refuses.
JsonRead(s) ==
  LET read[i \in 1..(Len(s) + 1)] ==
        IF i > Len(s) THEN <<>>
        ELSE IF s[i] \in {"\"", TAB} THEN <<"?">>
        ELSE IF s[i] # "\\" THEN <<s[i]>> \o read[i + 1]
        ELSE IF i + 1 <= Len(s) /\ s[i + 1] \in {"\"", "\\"}
             THEN <<s[i + 1]>> \o read[i + 2]
        ELSE IF i + 5 <= Len(s) /\ s[i + 1] = "u"
             THEN <<CharOf(s[i + 4], s[i + 5])>> \o read[i + 6]
        ELSE <<"?">>
  IN  read[1]
=============================================================================
