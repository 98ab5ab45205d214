----------------------------- MODULE UsbCdcHost -----------------------------
(***************************************************************************)
(* main/usb_cdc_host.c: the connect task, which looks for a flight         *)
(* controller (FC) VCP and reconnects after a disconnect; the callbacks    *)
(* that run in the CDC driver's task; and the TX task, which drains the    *)
(* client's bytes to the open VCP.  They share s_cdc_dev, s_connected and  *)
(* s_open_vid/pid without a lock, and the binary semaphore s_dev_gone.     *)
(*                                                                         *)
(* A handle is named by the number of the plug-in it was opened on.  The   *)
(* CDC driver and the USB host library (and usb_lib_task, which only pumps *)
(* the library's events) are external: a device is plugged and unplugged,  *)
(* an open succeeds only on an attached device with the wanted ID, and     *)
(* each open handle whose device has gone gets one disconnect callback.    *)
(***************************************************************************)
EXTENDS Bridge, Integers

CONSTANTS
  VcpIds,       \* k_vcp_ids: the VID/PID pairs to try, in order
  OtherIds,     \* VID/PID pairs of devices that are no known VCP
  NoId,         \* VID/PID 0, and "nothing plugged in"
  USB_CHUNK,    \* size of usb_tx_task's buffer
  MaxPlugs      \* bound: how often a device is plugged in

KnownIds == {VcpIds[i] : i \in 1..Len(VcpIds)}

ASSUME UsbAssumption ==
  /\ VcpIds \in Seq(KnownIds) /\ VcpIds # <<>>
  /\ NoId \notin KnownIds \cup OtherIds
  /\ USB_CHUNK \in Nat \ {0}
  /\ MaxPlugs \in Nat

VARIABLES
  s_cdc_dev,      \* the handle of the open VCP, 0 for NULL
  s_connected,
  s_open_id,      \* s_open_vid and s_open_pid, NoId for zero
  s_dev_gone,     \* binary semaphore: TRUE when it can be taken
  con,            \* connect task: where it is
  idx,            \* connect task: the entry of VcpIds it tries
  drv,            \* driver task: where its disconnect callback is, or idle
  drvHdl,         \* driver task: the handle the callback is about
  opened,         \* CDC driver: the open handles
  attached,       \* the ID of the device plugged in now, or NoId
  plugs,          \* history: devices plugged in so far
  sinceOpen,      \* history: fed when the latest VCP was opened
  utx,            \* TX task: where it is
  utxBuf,         \* TX task: the popped chunk
  utxHdl,         \* TX task: the handle it read from s_cdc_dev
  wfirst,         \* history: the first byte of the latest write
  written,        \* history: the last byte written to an FC
  wturn           \* history: parity of the number of writes

conVars == <<s_cdc_dev, s_connected, s_open_id, s_dev_gone, con, idx, sinceOpen>>
drvVars == <<drv, drvHdl, opened>>
devVars == <<attached, plugs>>
wVars   == <<wfirst, written, wturn>>
utxVars == <<utx, utxBuf, utxHdl, wVars>>
usbVars == <<conVars, drvVars, devVars, utxVars>>
vars    == <<bridgeVars, usbVars>>

Handles == 1..MaxPlugs
Null == 0

TypeOK ==
  /\ BridgeTypeOK
  /\ s_cdc_dev \in Handles \cup {Null}
  /\ s_connected \in BOOLEAN
  /\ s_open_id \in KnownIds \cup {NoId}
  /\ s_dev_gone \in BOOLEAN
  /\ con \in {"open", "setup", "reset", "ids", "mark", "take"}
  /\ idx \in 1..Len(VcpIds)
  /\ drv \in {"idle", "close", "null", "give"}
  /\ drvHdl \in Handles \cup {Null}
  /\ opened \subseteq Handles
  /\ attached \in KnownIds \cup OtherIds \cup {NoId}
  /\ plugs \in 0..MaxPlugs
  /\ sinceOpen \in [Dir -> Nat]
  /\ utx \in {"pop", "blocked", "connected", "dev", "call", "busy"}
  /\ utxBuf \in Seq(Nat)
  /\ utxHdl \in Handles \cup {Null}
  /\ wfirst \in Nat
  /\ written \in Nat
  /\ wturn \in {0, 1}

usb_cdc_host_start ==
  /\ s_cdc_dev = Null /\ s_connected = FALSE /\ s_open_id = NoId
  /\ s_dev_gone = FALSE
  /\ con = "open" /\ idx = 1
  /\ drv = "idle" /\ drvHdl = Null /\ opened = {}
  /\ attached = NoId /\ plugs = 0
  /\ sinceOpen = [d \in Dir |-> 0]
  /\ utx = "pop" /\ utxBuf = <<>> /\ utxHdl = Null
  /\ wfirst = 0 /\ written = 0 /\ wturn = 0

Init == bridge_init /\ usb_cdc_host_start

\* The device behind an open handle has been unplugged.
Lost(h) == attached = NoId \/ h # plugs

-----------------------------------------------------------------------------
(* usb_connect_task *)

\* cdc_acm_host_open succeeds; the driver writes the handle to s_cdc_dev.
OpenOk ==
  /\ con = "open"
  /\ attached = VcpIds[idx]
  /\ s_cdc_dev' = plugs
  /\ opened' = opened \cup {plugs}
  /\ sinceOpen' = fed
  /\ con' = "setup"
  /\ UNCHANGED <<bridgeVars, s_connected, s_open_id, s_dev_gone, idx, drv,
                 drvHdl, devVars, utxVars>>

\* It fails: try the next entry, and after the last one (and a delay) the first.
OpenFails ==
  /\ con = "open"
  /\ idx' = (idx % Len(VcpIds)) + 1
  /\ UNCHANGED <<bridgeVars, s_cdc_dev, s_connected, s_open_id, s_dev_gone,
                 con, sinceOpen, drvVars, devVars, utxVars>>

\* Line coding and DTR/RTS: their results are ignored, with the device gone too.
SetUp ==
  /\ con = "setup"
  /\ con' = "reset"
  /\ UNCHANGED <<bridgeVars, s_cdc_dev, s_connected, s_open_id, s_dev_gone,
                 idx, sinceOpen, drvVars, devVars, utxVars>>

\* Mutant of OpenReset: the buffers are left alone.
OpenWithoutReset ==
  /\ con = "reset"
  /\ con' = "ids"
  /\ UNCHANGED <<bridgeVars, s_cdc_dev, s_connected, s_open_id, s_dev_gone,
                 idx, sinceOpen, drvVars, devVars, utxVars>>

OpenReset ==
  /\ con = "reset"
  /\ bridge_reset
  /\ con' = "ids"
  /\ UNCHANGED <<s_cdc_dev, s_connected, s_open_id, s_dev_gone, idx,
                 sinceOpen, drvVars, devVars, utxVars>>

SetIds ==
  /\ con = "ids"
  /\ s_open_id' = VcpIds[idx]
  /\ con' = "mark"
  /\ UNCHANGED <<bridgeVars, s_cdc_dev, s_connected, s_dev_gone, idx,
                 sinceOpen, drvVars, devVars, utxVars>>

MarkConnected ==
  /\ con = "mark"
  /\ s_connected' = TRUE
  /\ con' = "take"
  /\ UNCHANGED <<bridgeVars, s_cdc_dev, s_open_id, s_dev_gone, idx, sinceOpen,
                 drvVars, devVars, utxVars>>

\* xSemaphoreTake(s_dev_gone, portMAX_DELAY), then the search starts over.
TakeGone ==
  /\ con = "take"
  /\ s_dev_gone
  /\ s_dev_gone' = FALSE
  /\ idx' = 1
  /\ con' = "open"
  /\ UNCHANGED <<bridgeVars, s_cdc_dev, s_connected, s_open_id, sinceOpen,
                 drvVars, devVars, utxVars>>

ConnectTask ==
  \/ OpenOk \/ OpenFails \/ SetUp \/ OpenReset
  \/ SetIds \/ MarkConnected \/ TakeGone

-----------------------------------------------------------------------------
(* The CDC driver's task: on_cdc_rx and on_cdc_event, one callback at a time *)

\* on_cdc_rx: push and report the data consumed, however much was queued.
on_cdc_rx ==
  /\ drv = "idle"
  /\ \E h \in opened : ~Lost(h)
  /\ \E n \in 1..MaxFed["usb_to_net"] : Push("usb_to_net", n)
  /\ UNCHANGED usbVars

\* CDC_ACM_HOST_DEVICE_DISCONNECTED, in the four steps of its case.
Disconnected ==
  /\ drv = "idle"
  /\ \E h \in opened : Lost(h) /\ drvHdl' = h
  /\ s_connected' = FALSE
  /\ drv' = "close"
  /\ UNCHANGED <<bridgeVars, s_cdc_dev, s_open_id, s_dev_gone, con, idx,
                 sinceOpen, opened, devVars, utxVars>>

\* Mutant of CloseHandle: s_dev_gone is given before s_cdc_dev is cleared.
CloseAndGive ==
  /\ drv = "close"
  /\ opened' = opened \ {drvHdl}
  /\ s_dev_gone' = TRUE
  /\ drv' = "null"
  /\ UNCHANGED <<bridgeVars, s_cdc_dev, s_connected, s_open_id, con, idx,
                 sinceOpen, drvHdl, devVars, utxVars>>

CloseHandle ==
  /\ drv = "close"
  /\ opened' = opened \ {drvHdl}
  /\ drv' = "null"
  /\ UNCHANGED <<bridgeVars, conVars, drvHdl, devVars, utxVars>>

ClearDev ==
  /\ drv = "null"
  /\ s_cdc_dev' = Null
  /\ drv' = "give"
  /\ UNCHANGED <<bridgeVars, s_connected, s_open_id, s_dev_gone, con, idx,
                 sinceOpen, drvHdl, opened, devVars, utxVars>>

\* Mutant of GiveGone: s_dev_gone is not given.
NoGive ==
  /\ drv = "give"
  /\ drv' = "idle"
  /\ UNCHANGED <<bridgeVars, conVars, drvHdl, opened, devVars, utxVars>>

GiveGone ==
  /\ drv = "give"
  /\ s_dev_gone' = TRUE
  /\ drv' = "idle"
  /\ UNCHANGED <<bridgeVars, s_cdc_dev, s_connected, s_open_id, con, idx,
                 sinceOpen, drvHdl, opened, devVars, utxVars>>

on_cdc_event == Disconnected \/ CloseHandle \/ ClearDev \/ GiveGone

-----------------------------------------------------------------------------
(* usb_tx_task *)

\* Mutant of UtxPop: drain the other direction.
UtxPopWrongWay ==
  /\ utx = "pop"
  /\ buf["usb_to_net"] # <<>>
  /\ utxBuf' = Available("usb_to_net", USB_CHUNK)
  /\ Take("usb_to_net", USB_CHUNK)
  /\ utx' = "connected"
  /\ UNCHANGED <<conVars, drvVars, devVars, utxHdl, wVars>>

UtxPop ==
  /\ utx = "pop"
  /\ \/ /\ buf["net_to_usb"] # <<>>
        /\ utxBuf' = Available("net_to_usb", USB_CHUNK)
        /\ Take("net_to_usb", USB_CHUNK)
        /\ utx' = "connected"
     \/ /\ Block("net_to_usb")
        /\ utx' = "blocked"
        /\ UNCHANGED utxBuf
  /\ UNCHANGED <<conVars, drvVars, devVars, utxHdl, wVars>>

\* The blocked pop returns: woken, or after 100 ms.
UtxWake ==
  /\ utx = "blocked"
  /\ utxBuf' = Available("net_to_usb", USB_CHUNK)
  /\ Take("net_to_usb", USB_CHUNK)
  /\ utx' = IF utxBuf' = <<>> THEN "pop" ELSE "connected"
  /\ UNCHANGED <<conVars, drvVars, devVars, utxHdl, wVars>>

\* The chunk is given up: there is no retry.
Drop ==
  /\ utx' = "pop"
  /\ utxBuf' = <<>>

\* !s_connected || s_cdc_dev == NULL, evaluated left to right.
UtxCheckConnected ==
  /\ utx = "connected"
  /\ IF s_connected THEN utx' = "dev" /\ UNCHANGED utxBuf ELSE Drop
  /\ UNCHANGED <<bridgeVars, conVars, drvVars, devVars, utxHdl, wVars>>

UtxCheckDev ==
  /\ utx = "dev"
  /\ IF s_cdc_dev # Null THEN utx' = "call" /\ UNCHANGED utxBuf ELSE Drop
  /\ utxHdl' = s_cdc_dev
  /\ UNCHANGED <<bridgeVars, conVars, drvVars, devVars, wVars>>

\* cdc_acm_host_data_tx_blocking(s_cdc_dev, ...): s_cdc_dev is not volatile, so
\* the argument is the value the check read or the value it has now.  The
\* driver rejects NULL and takes anything else for a handle.
UtxCall ==
  /\ utx = "call"
  /\ utxHdl' \in {utxHdl, s_cdc_dev}
  /\ IF utxHdl' # Null THEN utx' = "busy" /\ UNCHANGED utxBuf ELSE Drop
  /\ UNCHANGED <<bridgeVars, conVars, drvVars, devVars, wVars>>

\* Mutant of UtxWrites: a transfer cut short is repeated from its start.
UtxWritesAgain ==
  /\ utx = "busy"
  /\ utxHdl \in opened /\ ~Lost(utxHdl)
  /\ \E k \in 1..Len(utxBuf) :
       /\ written' = utxBuf[k]
       /\ IF k = Len(utxBuf) THEN Drop
                              ELSE utx' = "connected" /\ UNCHANGED utxBuf
  /\ wfirst' = Head(utxBuf) /\ wturn' = 1 - wturn
  /\ UNCHANGED <<bridgeVars, conVars, drvVars, devVars, utxHdl>>

\* The transfer reached the FC, all of it or (an error, a timeout) its first k bytes.
UtxWrites ==
  /\ utx = "busy"
  /\ utxHdl \in opened /\ ~Lost(utxHdl)
  /\ \E k \in 1..Len(utxBuf) : written' = utxBuf[k]
  /\ wfirst' = Head(utxBuf) /\ wturn' = 1 - wturn
  /\ Drop
  /\ UNCHANGED <<bridgeVars, conVars, drvVars, devVars, utxHdl>>

\* It failed or timed out with nothing written.
UtxFails ==
  /\ utx = "busy"
  /\ Drop
  /\ UNCHANGED <<bridgeVars, conVars, drvVars, devVars, utxHdl, wVars>>

UsbTxTask ==
  \/ UtxPop \/ UtxWake \/ UtxCheckConnected \/ UtxCheckDev
  \/ UtxCall \/ UtxWrites \/ UtxFails

-----------------------------------------------------------------------------
(* Environment: the USB port, and the network side of the bridge *)

Plug ==
  /\ attached = NoId
  /\ plugs < MaxPlugs
  /\ attached' \in KnownIds \cup OtherIds
  /\ plugs' = plugs + 1
  /\ UNCHANGED <<bridgeVars, conVars, drvVars, utxVars>>

Unplug ==
  /\ attached # NoId
  /\ attached' = NoId
  /\ UNCHANGED <<bridgeVars, conVars, drvVars, plugs, utxVars>>

Port == Plug \/ Unplug

NetPush == \E n \in 1..MaxFed["net_to_usb"] : Push("net_to_usb", n)

NetPop == Block("usb_to_net") \/ \E n \in 1..BUF_SIZE : Take("usb_to_net", n)

NetSide ==
  /\ NetPush \/ NetPop \/ bridge_reset
  /\ UNCHANGED usbVars

Tasks == ConnectTask \/ on_cdc_rx \/ on_cdc_event \/ UsbTxTask \/ Port

Next == Tasks \/ NetSide

Spec == Init /\ [][Next]_vars

\* The scheduler keeps running the connect task, the driver keeps delivering
\* disconnect events, and an open that is tried again and again on a device
\* that stays attached does not fail forever.
FairSpec ==
  /\ Spec
  /\ WF_vars(ConnectTask)
  /\ SF_vars(OpenOk)
  /\ WF_vars(on_cdc_event)

-----------------------------------------------------------------------------
(* Properties *)

\* While the connect task searches, the previous device is completely gone:
\* its handle closed, s_cdc_dev cleared, its callback finished and its one
\* s_dev_gone consumed, so the next device's disconnect cannot be missed or
\* counted twice (lines 61-64 against 148).
SearchFromClean ==
  con = "open" =>
    opened = {} /\ s_cdc_dev = Null /\ drv = "idle" /\ ~s_dev_gone

\* At most one handle is open, and as long as it is, s_cdc_dev names it: no
\* disconnect callback of an old device clears the handle of a newer one
\* (the clear on line 63 precedes the give on line 64).
OpenHandleKept == opened \subseteq {s_cdc_dev}

\* After the bridge_reset of an open (line 132) the buffers hold only bytes
\* offered since that open: nothing queued while no FC was there is left for it.
CleanOpen ==
  con \in {"ids", "mark", "take"} =>
    \A d \in Dir : \A i \in 1..Len(buf[d]) : sinceOpen[d] < buf[d][i]

\* The client-to-FC direction implements the abstract channel: bytes are lost
\* while no FC is there or a transfer fails, but never repeated or reordered.
ToUsb == INSTANCE OrderedChannel
           WITH offered <- fed["net_to_usb"], first <- wfirst,
                delivered <- written, turn <- wturn
ToUsbOrdered == ToUsb!ChannelSpec

\* A known FC that stays attached ends up, and stays, connected: whatever
\* disconnects and races came before, no wake-up of the connect task is lost.
EventuallyConnected ==
  <>[](attached \in KnownIds) => <>[](s_connected /\ s_cdc_dev \in opened)

\* usb_cdc_host.h:13: usb_cdc_host_is_connected is "True while a FC VCP is open
\* and ready to carry traffic".
ConnectedMeansOpen == s_connected => opened # {}
=============================================================================
