-------------------------- MODULE UsbCdcHostProofs --------------------------
(***************************************************************************)
(* Proofs about UsbCdcHost, for every list of VCP IDs, every buffer size,  *)
(* every sequence of plug-ins and every environment on the network side.   *)
(***************************************************************************)
EXTENDS UsbCdcHost, BridgeProofs

\* A step calls the bridge once or leaves it alone.
LEMMA StepCalls == [Next]_vars => BridgeCall
<1> SUFFICES ASSUME [Next]_vars PROVE BridgeCall
  OBVIOUS
<1>0. /\ \A d \in Dir : 1..MaxFed[d] \subseteq Nat
      /\ 1..BUF_SIZE \subseteq Nat /\ USB_CHUNK \in Nat
  BY BridgeAssumption, UsbAssumption
<1>1. CASE OpenOk \/ OpenFails \/ SetUp \/ SetIds \/ MarkConnected \/ TakeGone
  BY <1>1 DEF OpenOk, OpenFails, SetUp, SetIds, MarkConnected, TakeGone, BridgeCall
<1>2. CASE OpenReset
  BY <1>2 DEF OpenReset, BridgeCall
<1>3. CASE on_cdc_rx
  BY <1>0, <1>3 DEF on_cdc_rx, BridgeCall, Dir
<1>4. CASE on_cdc_event
  BY <1>4 DEF on_cdc_event, Disconnected, CloseHandle, ClearDev, GiveGone, BridgeCall
<1>5. CASE UtxPop \/ UtxWake
  BY <1>0, <1>5 DEF UtxPop, UtxWake, BridgeCall, Dir
<1>6. CASE UtxCheckConnected \/ UtxCheckDev \/ UtxCall \/ UtxWrites \/ UtxFails
  BY <1>6 DEF UtxCheckConnected, UtxCheckDev, UtxCall, UtxWrites, UtxFails, BridgeCall
<1>7. CASE Port
  BY <1>7 DEF Port, Plug, Unplug, BridgeCall
<1>8. CASE NetSide
  <2>1. CASE NetPush
    BY <1>0, <2>1 DEF NetPush, BridgeCall, Dir
  <2>2. CASE NetPop
    BY <1>0, <2>2 DEF NetPop, BridgeCall, Dir
  <2> QED BY <1>8, <2>1, <2>2 DEF NetSide, BridgeCall
<1>9. CASE UNCHANGED vars
  BY <1>9 DEF vars, BridgeCall
<1> QED BY <1>1, <1>2, <1>3, <1>4, <1>5, <1>6, <1>7, <1>8, <1>9
        DEF Next, Tasks, ConnectTask, UsbTxTask

-----------------------------------------------------------------------------
(* Type correctness *)

TInv ==
  /\ TypeOK
  /\ WaitingMeansEmpty
  /\ attached # NoId => plugs \in Handles

\* The entries of k_vcp_ids are known IDs, and the search wraps around.
LEMMA IdFacts ==
  /\ Len(VcpIds) \in Nat \ {0}
  /\ \A i \in 1..Len(VcpIds) :
       /\ VcpIds[i] \in KnownIds
       /\ VcpIds[i] # NoId
       /\ (i % Len(VcpIds)) + 1 \in 1..Len(VcpIds)
<1>1. VcpIds \in Seq(KnownIds) /\ VcpIds # <<>> /\ NoId \notin KnownIds
  BY UsbAssumption
<1>2. Len(VcpIds) \in Nat \ {0}
  BY <1>1, EmptySeq
<1>3. \A i \in 1..Len(VcpIds) : VcpIds[i] \in KnownIds
  BY <1>1, ElementOfSeq
<1>4. \A i \in 1..Len(VcpIds) : (i % Len(VcpIds)) + 1 \in 1..Len(VcpIds)
  BY <1>2
<1> QED BY <1>1, <1>2, <1>3, <1>4

LEMMA TInvInit == Init => TInv
<1>1. 1 \in 1..Len(VcpIds)
  BY IdFacts
<1>2. 0 \in 0..MaxPlugs
  BY UsbAssumption
<1> SUFFICES ASSUME Init PROVE TInv
  OBVIOUS
<1>3. BridgeTypeOK /\ WaitingMeansEmpty
  BY InitType DEF Init
<1>4. /\ sinceOpen \in [Dir -> Nat] /\ utxBuf \in Seq(Nat)
      /\ wfirst \in Nat /\ written \in Nat /\ wturn \in {0, 1}
  BY EmptySeq DEF Init, usb_cdc_host_start
<1>5. attached = NoId
  BY DEF Init, usb_cdc_host_start
<1>6. TypeOK
  BY <1>1, <1>2, <1>3, <1>4 DEF Init, usb_cdc_host_start, TypeOK, Null
<1> QED BY <1>3, <1>5, <1>6 DEF TInv

LEMMA TInvNext == TInv /\ [Next]_vars => TInv'
<1> SUFFICES ASSUME TInv, [Next]_vars PROVE TInv'
  OBVIOUS
<1>0. BridgeTypeOK /\ WaitingMeansEmpty /\ BridgeCall /\ USB_CHUNK \in Nat
  BY StepCalls, UsbAssumption DEF TInv, TypeOK
<1>1. BridgeTypeOK' /\ WaitingMeansEmpty'
  BY <1>0, BridgeCallType
<1> USE <1>1 DEF TInv, TypeOK, Null
<1>2. CASE OpenOk
  <2>1. attached # NoId
    BY <1>2, IdFacts DEF OpenOk
  <2>2. sinceOpen' \in [Dir -> Nat]
    BY <1>2, <1>0 DEF OpenOk, BridgeTypeOK
  <2> QED BY <1>2, <2>1, <2>2 DEF OpenOk, devVars, utxVars, wVars
<1>3. CASE OpenFails
  <2>1. idx' \in 1..Len(VcpIds)
    BY <1>3, IdFacts DEF OpenFails
  <2> QED BY <1>3, <2>1 DEF OpenFails, drvVars, devVars, utxVars, wVars
<1>4. CASE SetUp \/ OpenReset \/ MarkConnected
  BY <1>4 DEF SetUp, OpenReset, MarkConnected, drvVars, devVars, utxVars, wVars
<1>5. CASE SetIds
  BY <1>5, IdFacts DEF SetIds, drvVars, devVars, utxVars, wVars
<1>6. CASE TakeGone
  <2>1. 1 \in 1..Len(VcpIds)
    BY IdFacts
  <2> QED BY <1>6, <2>1 DEF TakeGone, drvVars, devVars, utxVars, wVars
<1>7. CASE on_cdc_event
  BY <1>7 DEF on_cdc_event, Disconnected, CloseHandle, ClearDev, GiveGone,
              conVars, devVars, utxVars, wVars
<1>8. CASE UtxPop
  <2>1. CASE Take("net_to_usb", USB_CHUNK) /\ utxBuf' = Available("net_to_usb", USB_CHUNK)
    <3>1. utxBuf' \in Seq(Nat)
      BY <2>1, <1>0, TakeProperties DEF Dir
    <3> QED BY <1>8, <3>1 DEF UtxPop, conVars, drvVars, devVars, wVars
  <2>2. CASE UNCHANGED utxBuf
    BY <1>8, <2>2 DEF UtxPop, conVars, drvVars, devVars, wVars
  <2> QED BY <1>8, <2>1, <2>2 DEF UtxPop
<1>9. CASE UtxWake
  <2>1. utxBuf' \in Seq(Nat)
    BY <1>9, <1>0, TakeProperties DEF UtxWake, Dir
  <2> QED BY <1>9, <2>1 DEF UtxWake, conVars, drvVars, devVars, wVars
<1>10. CASE UtxCheckConnected \/ UtxCheckDev \/ UtxCall \/ UtxFails
  <2>1. utxBuf' \in Seq(Nat)
    BY <1>10, EmptySeq DEF UtxCheckConnected, UtxCheckDev, UtxCall, UtxFails, Drop
  <2>2. CASE UtxCheckConnected
    BY <2>1, <2>2 DEF UtxCheckConnected, Drop, conVars, drvVars, devVars, wVars
  <2>3. CASE UtxCheckDev
    BY <2>1, <2>3 DEF UtxCheckDev, Drop, conVars, drvVars, devVars, wVars
  <2>4. CASE UtxCall
    BY <2>1, <2>4 DEF UtxCall, Drop, conVars, drvVars, devVars, wVars
  <2>5. CASE UtxFails
    BY <2>1, <2>5 DEF UtxFails, Drop, conVars, drvVars, devVars, wVars
  <2> QED BY <1>10, <2>2, <2>3, <2>4, <2>5
<1>11. CASE UtxWrites
  <2>1. written' \in Nat /\ wfirst' \in Nat /\ wturn' \in {0, 1}
    BY <1>11, ElementOfSeq, HeadTailProperties, LenProperties DEF UtxWrites
  <2> QED BY <1>11, <2>1, EmptySeq DEF UtxWrites, Drop, conVars, drvVars, devVars, wVars
<1>12. CASE Plug
  <2>1. plugs' \in 0..MaxPlugs /\ plugs' \in Handles
    BY <1>12, UsbAssumption DEF Plug, Handles
  <2> QED BY <1>12, <2>1 DEF Plug, conVars, drvVars, utxVars, wVars
<1>13. CASE Unplug
  BY <1>13 DEF Unplug, conVars, drvVars, utxVars, wVars
<1>14. CASE on_cdc_rx \/ NetSide \/ UNCHANGED vars
  BY <1>14 DEF on_cdc_rx, NetSide, vars, usbVars, conVars, drvVars, devVars, utxVars, wVars
<1> QED BY <1>2, <1>3, <1>4, <1>5, <1>6, <1>7, <1>8, <1>9, <1>10, <1>11, <1>12,
           <1>13, <1>14
        DEF Next, Tasks, ConnectTask, UsbTxTask, Port

LEMMA TInvAlways == Spec => []TInv
BY TInvInit, TInvNext, PTL DEF Spec

\* Every variable of usb_cdc_host.c and bridge.c keeps its type, and no buffer
\* ever holds more than its capacity.
THEOREM TypeCorrect == Spec => []TypeOK
BY TInvAlways, PTL DEF TInv

-----------------------------------------------------------------------------
(* The disconnect handshake *)

\* An open is in force: s_cdc_dev names the one open handle.
Held == s_cdc_dev \in Handles /\ opened = {s_cdc_dev} /\ ~s_dev_gone
\* The handle is closed, s_cdc_dev may still name it.
Closed == opened = {} /\ ~s_dev_gone

\* Where the callback is decides what is left of the open the connect task is
\* waiting on: the inductive form of SearchFromClean and OpenHandleKept.
HandshakeInv ==
  /\ con = "open" => drv = "idle" /\ Closed /\ s_cdc_dev = Null
  /\ con # "open" =>
       \/ drv = "idle" /\ Held
       \/ drv = "close" /\ Held /\ drvHdl = s_cdc_dev
       \/ drv = "null" /\ Closed
       \/ drv = "give" /\ Closed /\ s_cdc_dev = Null
       \/ drv = "idle" /\ opened = {} /\ s_cdc_dev = Null /\ s_dev_gone

LEMMA HandshakeNext == TInv /\ HandshakeInv /\ [Next]_vars => HandshakeInv'
<1> SUFFICES ASSUME TInv, HandshakeInv, [Next]_vars PROVE HandshakeInv'
  OBVIOUS
<1> USE DEF HandshakeInv, Held, Closed
<1>1. CASE OpenOk
  <2>1. plugs \in Handles
    BY <1>1, IdFacts DEF OpenOk, TInv, TypeOK
  <2> QED BY <1>1, <2>1 DEF OpenOk
<1>2. CASE OpenFails
  BY <1>2 DEF OpenFails, drvVars
<1>3. CASE SetUp \/ OpenReset \/ SetIds \/ MarkConnected
  BY <1>3 DEF SetUp, OpenReset, SetIds, MarkConnected, drvVars
<1>4. CASE TakeGone
  BY <1>4 DEF TakeGone, drvVars
<1>5. CASE Disconnected
  BY <1>5 DEF Disconnected
<1>6. CASE CloseHandle
  BY <1>6 DEF CloseHandle, conVars
<1>7. CASE ClearDev
  BY <1>7 DEF ClearDev
<1>8. CASE GiveGone
  BY <1>8 DEF GiveGone
<1>9. CASE on_cdc_rx \/ NetSide \/ UNCHANGED vars
  BY <1>9 DEF on_cdc_rx, NetSide, vars, usbVars, conVars, drvVars
<1>10. CASE Port
  BY <1>10 DEF Port, Plug, Unplug, conVars, drvVars
<1>11. CASE UsbTxTask
  BY <1>11 DEF UsbTxTask, UtxPop, UtxWake, UtxCheckConnected, UtxCheckDev, UtxCall,
               UtxWrites, UtxFails, conVars, drvVars
<1> QED BY <1>1, <1>2, <1>3, <1>4, <1>5, <1>6, <1>7, <1>8, <1>9, <1>10, <1>11
        DEF Next, Tasks, ConnectTask, on_cdc_event

LEMMA HandshakeAlways == Spec => []HandshakeInv
<1>1. Init => HandshakeInv
  BY DEF Init, usb_cdc_host_start, HandshakeInv, Closed
<1> QED BY <1>1, HandshakeNext, TInvAlways, PTL DEF Spec

\* The connect task searches only when nothing is left of the previous device:
\* every open is followed by exactly one close, clear, give and take.
THEOREM SearchStartsClean == Spec => []SearchFromClean
<1>1. HandshakeInv => SearchFromClean
  BY DEF HandshakeInv, SearchFromClean, Closed
<1> QED BY <1>1, HandshakeAlways, PTL

\* At most one handle is open, and s_cdc_dev names it for as long as it is: no
\* callback clears the handle of a newer device.
THEOREM OpenHandleIsKept == Spec => []OpenHandleKept
<1>1. HandshakeInv => OpenHandleKept
  BY DEF HandshakeInv, OpenHandleKept, Held, Closed
<1> QED BY <1>1, HandshakeAlways, PTL

-----------------------------------------------------------------------------
(* The buffers after an open *)

OpenInv == CleanOpen /\ \A d \in Dir : sinceOpen[d] <= fed[d]

LEMMA OpenInvNext == TInv /\ OpenInv /\ [Next]_vars => OpenInv'
<1> SUFFICES ASSUME TInv, OpenInv, [Next]_vars PROVE OpenInv'
  OBVIOUS
<1> DEFINE Opened == {"ids", "mark", "take"}
<1>0. /\ BridgeTypeOK /\ WaitingMeansEmpty /\ BridgeCall /\ BridgeTypeOK'
      /\ sinceOpen \in [Dir -> Nat] /\ fed \in [Dir -> Nat] /\ fed' \in [Dir -> Nat]
  BY StepCalls, TInvNext DEF TInv, TypeOK, BridgeTypeOK
<1>1. \A d \in Dir : fed[d] <= fed'[d]
  BY <1>0, BridgeCallBytes
<1>2. \A d \in Dir : \A i \in 1..Len(buf'[d]) :
        (\E j \in 1..Len(buf[d]) : buf'[d][i] = buf[d][j]) \/ fed[d] < buf'[d][i]
  BY <1>0, BridgeCallBytes
<1>3. CASE OpenOk
  <2>1. sinceOpen' = fed /\ fed' = fed /\ con' = "setup"
    BY <1>3 DEF OpenOk, bridgeVars
  <2> QED BY <2>1, <1>0 DEF OpenInv, CleanOpen
<1>4. CASE OpenReset
  <2>1. (\A d \in Dir : buf'[d] = <<>>) /\ fed' = fed /\ sinceOpen' = sinceOpen
    BY <1>4, <1>0, ResetProperties DEF OpenReset
  <2> QED BY <2>1 DEF OpenInv, CleanOpen
<1>5. ASSUME sinceOpen' = sinceOpen, con' \in Opened => con \in Opened
      PROVE  OpenInv'
  <2>1. \A d \in Dir : sinceOpen'[d] <= fed'[d]
    BY <1>0, <1>1, <1>5 DEF OpenInv
  <2>2. ASSUME con' \in Opened, NEW d \in Dir, NEW i \in 1..Len(buf'[d])
        PROVE  sinceOpen'[d] < buf'[d][i]
    <3>1. sinceOpen[d] \in Nat /\ fed[d] \in Nat /\ sinceOpen[d] <= fed[d]
      BY <1>0 DEF OpenInv
    <3>2. CASE \E j \in 1..Len(buf[d]) : buf'[d][i] = buf[d][j]
      BY <3>2, <1>5, <2>2 DEF OpenInv, CleanOpen
    <3>3. CASE fed[d] < buf'[d][i]
      <4>1. buf'[d][i] \in Nat
        BY <1>0, ElementOfSeq DEF BridgeTypeOK
      <4> QED BY <3>1, <3>3, <4>1, <1>5
    <3> QED BY <3>2, <3>3, <1>2
  <2> QED BY <2>1, <2>2 DEF OpenInv, CleanOpen
<1>6. CASE OpenFails \/ SetUp \/ SetIds \/ MarkConnected \/ TakeGone
  BY <1>5, <1>6 DEF OpenFails, SetUp, SetIds, MarkConnected, TakeGone
<1>7. CASE on_cdc_rx \/ NetSide \/ UNCHANGED vars
  BY <1>5, <1>7 DEF on_cdc_rx, NetSide, vars, usbVars, conVars
<1>8. CASE on_cdc_event \/ Port
  BY <1>5, <1>8 DEF on_cdc_event, Disconnected, CloseHandle, ClearDev, GiveGone,
                    Port, Plug, Unplug, conVars
<1>9. CASE UsbTxTask
  BY <1>5, <1>9 DEF UsbTxTask, UtxPop, UtxWake, UtxCheckConnected, UtxCheckDev,
                    UtxCall, UtxWrites, UtxFails, conVars
<1> QED BY <1>3, <1>4, <1>6, <1>7, <1>8, <1>9 DEF Next, Tasks, ConnectTask

\* After the bridge_reset of an open, the buffers hold only bytes offered since.
THEOREM OpensStartClean == Spec => []CleanOpen
<1>1. Init => OpenInv
  BY DEF Init, bridge_init, usb_cdc_host_start, OpenInv, CleanOpen
<1>2. Spec => []OpenInv
  BY <1>1, OpenInvNext, TInvAlways, PTL DEF Spec
<1>3. OpenInv => CleanOpen
  BY DEF OpenInv
<1> QED BY <1>2, <1>3, PTL

-----------------------------------------------------------------------------
(* Bytes reach FCs in order, and at most once *)

Queue == buf["net_to_usb"]
Offered == fed["net_to_usb"]

FlowInv == Flow(utxBuf, Queue, written, Offered)

\* A transfer writes the head of the chunk, and the rest is given up.
LEMMA WriteStep ==
  ASSUME TInv, FlowInv, UtxWrites
  PROVE  /\ FlowInv' /\ Offered' = Offered
         /\ wfirst' \in (written + 1)..Offered /\ written' \in wfirst'..Offered
         /\ wturn' = 1 - wturn
<1>1. PICK k \in 1..Len(utxBuf) :
        written' = utxBuf[k] /\ wfirst' = Head(utxBuf) /\ wturn' = 1 - wturn
  BY DEF UtxWrites
<1>2. /\ utxBuf \in Seq(Nat) /\ written \in Nat
      /\ Offered \in Nat /\ Queue \in Seq(Nat)
  BY DEF TInv, TypeOK, BridgeTypeOK, Offered, Queue, Dir
<1>3. Queue' = Queue /\ Offered' = Offered /\ utxBuf' = <<>>
  BY DEF UtxWrites, Drop, bridgeVars, Queue, Offered
<1>4. /\ Flow(SubSeq(utxBuf, k + 1, Len(utxBuf)), Queue, utxBuf[k], Offered)
      /\ utxBuf[1] = Head(utxBuf)
      /\ utxBuf[1] \in (written + 1)..Offered /\ utxBuf[k] \in utxBuf[1]..Offered
  BY <1>2, FlowDelivers DEF FlowInv
<1>5. Flow(<<>>, Queue, utxBuf[k], Offered)
  BY <1>4, FlowDrops
<1> QED BY <1>1, <1>3, <1>4, <1>5 DEF FlowInv

LEMMA FlowInvNext == TInv /\ FlowInv /\ [Next]_vars => FlowInv'
<1> SUFFICES ASSUME TInv, FlowInv, [Next]_vars PROVE FlowInv'
  OBVIOUS
<1>0. /\ BridgeTypeOK /\ WaitingMeansEmpty
      /\ utxBuf \in Seq(Nat) /\ written \in Nat /\ USB_CHUNK \in Nat
      /\ "net_to_usb" \in Dir /\ "usb_to_net" \in Dir \ {"net_to_usb"}
      /\ \A d \in Dir : 1..MaxFed[d] \subseteq Nat
      /\ 1..BUF_SIZE \subseteq Nat
  BY UsbAssumption, BridgeAssumption DEF TInv, TypeOK, Dir
<1> DEFINE OtherCall == \/ \E e \in Dir, n \in Nat : Push(e, n)
                        \/ \E e \in Dir : Block(e)
                        \/ \E e \in Dir \ {"net_to_usb"}, n \in Nat : Take(e, n)
                        \/ bridge_reset
                        \/ UNCHANGED bridgeVars
<1>1. ASSUME UNCHANGED <<utxBuf, written>>, OtherCall
      PROVE  FlowInv'
  <2>1. Flow(utxBuf, buf'["net_to_usb"], written, fed'["net_to_usb"])
    BY <1>0, <1>1, FlowCall DEF FlowInv, Queue, Offered
  <2> QED BY <1>1, <2>1 DEF FlowInv, Queue, Offered
<1>2. ASSUME Take("net_to_usb", USB_CHUNK), UNCHANGED written,
             utxBuf' = Available("net_to_usb", USB_CHUNK)
      PROVE  FlowInv'
  <2>1. Flow(Available("net_to_usb", USB_CHUNK), buf'["net_to_usb"], written,
             fed'["net_to_usb"])
    BY <1>0, <1>2, FlowTake DEF FlowInv, Queue, Offered
  <2> QED BY <1>2, <2>1 DEF FlowInv, Queue, Offered
<1>3. ASSUME UNCHANGED bridgeVars, UNCHANGED written,
             utxBuf' = <<>> \/ UNCHANGED utxBuf
      PROVE  FlowInv'
  <2>1. Flow(<<>>, Queue, written, Offered)
    BY FlowDrops DEF FlowInv
  <2> QED BY <1>3, <2>1 DEF FlowInv, Queue, Offered, bridgeVars
<1>4. CASE OpenOk \/ OpenFails \/ SetUp \/ SetIds \/ MarkConnected \/ TakeGone
  BY <1>1, <1>4 DEF OpenOk, OpenFails, SetUp, SetIds, MarkConnected, TakeGone, utxVars, wVars
<1>5. CASE OpenReset
  BY <1>1, <1>5 DEF OpenReset, utxVars, wVars
<1>6. CASE on_cdc_rx
  BY <1>0, <1>1, <1>6 DEF on_cdc_rx, usbVars, utxVars, wVars
<1>7. CASE on_cdc_event \/ Port
  BY <1>1, <1>7 DEF on_cdc_event, Disconnected, CloseHandle, ClearDev, GiveGone,
                    Port, Plug, Unplug, utxVars, wVars
<1>8. CASE UtxPop
  <2>1. CASE Block("net_to_usb") /\ UNCHANGED utxBuf
    BY <1>0, <1>1, <1>8, <2>1 DEF UtxPop, wVars
  <2> QED BY <1>2, <1>8, <2>1 DEF UtxPop, wVars
<1>9. CASE UtxWake
  BY <1>2, <1>9 DEF UtxWake, wVars
<1>10. CASE UtxCheckConnected \/ UtxCheckDev \/ UtxCall \/ UtxFails
  BY <1>3, <1>10 DEF UtxCheckConnected, UtxCheckDev, UtxCall, UtxFails, Drop, wVars
<1>11. CASE UtxWrites
  BY <1>11, WriteStep
<1>12. CASE NetSide
  <2>1. CASE NetPush
    BY <1>0, <1>1, <1>12, <2>1 DEF NetSide, NetPush, usbVars, utxVars, wVars
  <2>2. CASE NetPop
    BY <1>0, <1>1, <1>12, <2>2 DEF NetSide, NetPop, usbVars, utxVars, wVars
  <2>3. CASE bridge_reset
    BY <1>1, <1>12, <2>3 DEF NetSide, usbVars, utxVars, wVars
  <2> QED BY <1>12, <2>1, <2>2, <2>3 DEF NetSide
<1>13. CASE UNCHANGED vars
  BY <1>1, <1>13 DEF vars, usbVars, utxVars, wVars
<1> QED BY <1>4, <1>5, <1>6, <1>7, <1>8, <1>9, <1>10, <1>11, <1>12, <1>13
        DEF Next, Tasks, ConnectTask, UsbTxTask

LEMMA FlowInvAlways == Spec => []FlowInv
<1>1. Init => FlowInv
  BY DEF Init, bridge_init, usb_cdc_host_start, FlowInv, Flow, Increasing, Queue,
         Offered, Dir
<1> QED BY <1>1, FlowInvNext, TInvAlways, PTL DEF Spec

\* Every step is an offer, a delivery or a stutter of the abstract channel.
LEMMA ChannelStep ==
  TInv /\ FlowInv /\ [Next]_vars
    => [ToUsb!ChannelNext]_<<Offered, wfirst, written, wturn>>
<1> SUFFICES ASSUME TInv, FlowInv, [Next]_vars
             PROVE  [ToUsb!ChannelNext]_<<Offered, wfirst, written, wturn>>
  OBVIOUS
<1>0. /\ BridgeTypeOK /\ WaitingMeansEmpty /\ BridgeTypeOK' /\ BridgeCall
      /\ Offered \in Nat /\ Offered' \in Nat
  BY StepCalls, TInvNext DEF TInv, TypeOK, BridgeTypeOK, Offered, Dir
<1>1. CASE UtxWrites
  BY <1>1, WriteStep DEF ToUsb!ChannelNext, ToUsb!Deliver, Offered
<1>2. ASSUME UNCHANGED wVars
      PROVE  [ToUsb!ChannelNext]_<<Offered, wfirst, written, wturn>>
  <2>1. Offered <= Offered'
    BY <1>0, BridgeCallBytes DEF Offered, Dir
  <2>2. CASE Offered' = Offered
    BY <1>2, <2>2 DEF wVars
  <2>3. CASE Offered' # Offered
    <3>1. Offered' > Offered
      BY <1>0, <2>1, <2>3
    <3> QED BY <1>0, <1>2, <3>1 DEF ToUsb!ChannelNext, ToUsb!Offer, Offered, wVars
  <2> QED BY <2>2, <2>3
<1>3. CASE ConnectTask \/ on_cdc_rx \/ on_cdc_event \/ Port \/ NetSide \/ UNCHANGED vars
  <2>1. UNCHANGED wVars
    BY <1>3 DEF ConnectTask, OpenOk, OpenFails, SetUp, OpenReset, SetIds,
                MarkConnected, TakeGone, on_cdc_rx, on_cdc_event, Disconnected,
                CloseHandle, ClearDev, GiveGone, Port, Plug, Unplug, NetSide,
                vars, usbVars, utxVars, wVars
  <2> QED BY <1>2, <2>1
<1>4. CASE UtxPop \/ UtxWake \/ UtxCheckConnected \/ UtxCheckDev \/ UtxCall \/ UtxFails
  BY <1>2, <1>4 DEF UtxPop, UtxWake, UtxCheckConnected, UtxCheckDev, UtxCall, UtxFails
<1> QED BY <1>1, <1>3, <1>4 DEF Next, Tasks, UsbTxTask

\* The client-to-FC direction implements the abstract channel: a byte may be
\* lost, but none is repeated, reordered or made up, whatever the disconnects,
\* failed transfers and resets.
THEOREM ImplementsChannel == Spec => ToUsbOrdered
<1>1. Init => ToUsb!ChannelInit
  BY DEF Init, bridge_init, usb_cdc_host_start, ToUsb!ChannelInit, Dir
<1>2. TInv /\ FlowInv /\ [Next]_vars
        => [ToUsb!ChannelNext]_<<fed["net_to_usb"], wfirst, written, wturn>>
  BY ChannelStep DEF Offered
<1> QED BY <1>1, <1>2, TInvAlways, FlowInvAlways, PTL
        DEF Spec, ToUsbOrdered, ToUsb!ChannelSpec
=============================================================================
