---------------------------- MODULE BridgeSystem ----------------------------
(***************************************************************************)
(* The whole bridge: the tasks of TcpServer and of UsbCdcHost around the   *)
(* same two stream buffers, with a real client on one side and a real USB  *)
(* port on the other.  Each component's specification leaves the other     *)
(* side of the buffers to an arbitrary environment; the system implements  *)
(* both, so whatever holds of a component holds here, and what takes both  *)
(* sides to go wrong is stated here.                                       *)
(***************************************************************************)
EXTENDS Bridge, Integers

CONSTANTS Fds, NoFd, TX_CHUNK, MaxSessions
CONSTANTS VcpIds, OtherIds, NoId, USB_CHUNK, MaxPlugs

ASSUME ChunkAssumption == TX_CHUNK \in Nat \ {0} /\ USB_CHUNK \in Nat \ {0}

VARIABLES s_client, acc, fd, sock, session, peer, since, tx, txBuf, txFd,
          first, delivered, turn
VARIABLES s_cdc_dev, s_connected, s_open_id, s_dev_gone, con, idx, drv, drvHdl,
          opened, attached, plugs, sinceOpen, utx, utxBuf, utxHdl, wfirst,
          written, wturn
VARIABLE discarded   \* history: the bytes queued when a bridge_reset ran

Tcp == INSTANCE TcpServer
Usb == INSTANCE UsbCdcHost

tcpVars == <<s_client, acc, fd, sock, session, peer, since, tx, txBuf, txFd,
             first, delivered, turn>>
usbVars == <<s_cdc_dev, s_connected, s_open_id, s_dev_gone, con, idx, drv,
             drvHdl, opened, attached, plugs, sinceOpen, utx, utxBuf, utxHdl,
             wfirst, written, wturn>>
vars    == <<bridgeVars, tcpVars, usbVars, discarded>>

\* app_main: bridge_init, then both sides are started.
Init ==
  /\ bridge_init /\ Tcp!tcp_server_start /\ Usb!usb_cdc_host_start
  /\ discarded = [d \in Dir |-> {}]

TcpStep == Tcp!Tasks /\ UNCHANGED usbVars
UsbStep == Usb!Tasks /\ UNCHANGED tcpVars

\* The steps in which a task calls bridge_reset.
Resets == Tcp!StartReset \/ Tcp!EndReset \/ Usb!OpenReset

Queued(d) == {buf[d][i] : i \in 1..Len(buf[d])}

Next ==
  /\ TcpStep \/ UsbStep
  /\ discarded' = IF Resets THEN [d \in Dir |-> discarded[d] \cup Queued(d)]
                            ELSE discarded

Spec == Init /\ [][Next]_vars

-----------------------------------------------------------------------------
(* Properties *)

\* The system implements each component's specification: the other component
\* is one of the environments it was checked with.
ImplementsTcp == Tcp!Spec
ImplementsUsb == Usb!Spec

\* What a step hands to a socket, or to an FC: a prefix of the popped chunk.
Sends == {txBuf[i] : i \in {i \in 1..Len(txBuf) : turn' # turn /\ txBuf[i] <= delivered'}}
Writes == {utxBuf[i] : i \in {i \in 1..Len(utxBuf) : wturn' # wturn /\ utxBuf[i] <= written'}}

\* What a bridge_reset discards stays discarded, whichever task calls it, with
\* the TX tasks anywhere, and although FreeRTOS may refuse it: no byte queued
\* when it ran is ever sent to a client or written to an FC (tcp_server.c:57 and
\* 79, usb_cdc_host.c:132, bridge.h:30-31).  What crosses a reset is at most the
\* chunk a TX task had popped, which NoStaleByte of TcpServer is about.
DiscardedForGood ==
  [][ /\ Sends \cap discarded["usb_to_net"] = {}
      /\ Writes \cap discarded["net_to_usb"] = {} ]_vars
=============================================================================
