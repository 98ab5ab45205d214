------------------------- MODULE BridgeSystemProofs -------------------------
(***************************************************************************)
(* Proofs about the composition, for every buffer and chunk size and every *)
(* number of sessions and plug-ins: each component finds in the other one  *)
(* of the environments it was specified with, and what a bridge_reset of   *)
(* either side discards is never delivered.                                *)
(***************************************************************************)
EXTENDS BridgeSystem, BridgeProofs

\* A side may pop at most a buffer of the capacity's size: more is the same.
LEMMA TakeCapped ==
  ASSUME BridgeTypeOK, NEW d \in Dir, NEW max \in Nat \ {0}, Take(d, max)
  PROVE  \E n \in 1..BUF_SIZE : Take(d, n)
<1>1. BUF_SIZE \in Nat \ {0} /\ Len(buf[d]) \in Nat /\ Len(buf[d]) <= BUF_SIZE
  BY BridgeAssumption, LenProperties DEF BridgeTypeOK
<1>2. CASE max <= BUF_SIZE
  BY <1>1, <1>2
<1>3. CASE max > BUF_SIZE
  <2>1. Available(d, max) = Available(d, BUF_SIZE)
    <3>1. (IF Len(buf[d]) < max THEN Len(buf[d]) ELSE max)
            = (IF Len(buf[d]) < BUF_SIZE THEN Len(buf[d]) ELSE BUF_SIZE)
      BY <1>1, <1>3
    <3> QED BY <3>1 DEF Available
  <2>2. Take(d, BUF_SIZE)
    BY <2>1 DEF Take
  <2>3. BUF_SIZE \in 1..BUF_SIZE
    BY <1>1
  <2> QED BY <2>2, <2>3
<1> QED BY <1>1, <1>2, <1>3

-----------------------------------------------------------------------------
(* What a step of each side does to the buffers *)

\* A step of the network side: one call of the bridge at most.
NetCall ==
  \/ \E n \in 1..MaxFed["net_to_usb"] : Push("net_to_usb", n)
  \/ Block("usb_to_net")
  \/ Take("usb_to_net", TX_CHUNK)
  \/ bridge_reset
  \/ UNCHANGED bridgeVars

\* A step of the USB side.
UsbCall ==
  \/ \E n \in 1..MaxFed["usb_to_net"] : Push("usb_to_net", n)
  \/ Block("net_to_usb")
  \/ Take("net_to_usb", USB_CHUNK)
  \/ bridge_reset
  \/ UNCHANGED bridgeVars

\* The bridge of each component is the bridge of the system.
LEMMA SameBridge ==
  /\ \A d, n : Tcp!Push(d, n) = Push(d, n) /\ Usb!Push(d, n) = Push(d, n)
  /\ \A d : Tcp!Block(d) = Block(d) /\ Usb!Block(d) = Block(d)
  /\ \A d, n : Tcp!Take(d, n) = Take(d, n) /\ Usb!Take(d, n) = Take(d, n)
  /\ Tcp!bridge_reset = bridge_reset /\ Usb!bridge_reset = bridge_reset
  /\ Tcp!bridge_init = bridge_init /\ Usb!bridge_init = bridge_init
  /\ (UNCHANGED Tcp!bridgeVars) = (UNCHANGED bridgeVars)
  /\ (UNCHANGED Usb!bridgeVars) = (UNCHANGED bridgeVars)
BY DEF Push, Tcp!Push, Usb!Push, Sent, Tcp!Sent, Usb!Sent,
       BRIDGE_TRIGGER, Tcp!BRIDGE_TRIGGER, Usb!BRIDGE_TRIGGER,
       Block, Tcp!Block, Usb!Block,
       Take, Tcp!Take, Usb!Take, Available, Tcp!Available, Usb!Available,
       bridge_reset, Tcp!bridge_reset, Usb!bridge_reset,
       bridge_init, Tcp!bridge_init, Usb!bridge_init,
       bridgeVars, Tcp!bridgeVars, Usb!bridgeVars, Dir, Tcp!Dir, Usb!Dir

LEMMA TcpStepCalls == TcpStep => NetCall
<1> SUFFICES ASSUME Tcp!Tasks PROVE NetCall
  BY DEF TcpStep
<1>1. CASE Tcp!Recv
  BY <1>1, SameBridge DEF Tcp!Recv, NetCall
<1>2. CASE Tcp!StartReset \/ Tcp!EndReset
  BY <1>2, SameBridge DEF Tcp!StartReset, Tcp!EndReset, NetCall
<1>3. CASE Tcp!Listen \/ Tcp!Accept \/ Tcp!Publish \/ Tcp!RecvEnd
           \/ Tcp!Unpublish \/ Tcp!Close
  BY <1>3, SameBridge DEF Tcp!Listen, Tcp!Accept, Tcp!Publish, Tcp!RecvEnd,
                          Tcp!Unpublish, Tcp!Close, NetCall
<1>4. CASE Tcp!TxPop \/ Tcp!TxWake
  BY <1>4, SameBridge DEF Tcp!TxPop, Tcp!TxWake, NetCall
<1>5. CASE Tcp!TxLoad \/ Tcp!TxSend \/ Tcp!TxSendFails \/ Tcp!Client
  BY <1>5, SameBridge DEF Tcp!TxLoad, Tcp!TxSend, Tcp!TxSendFails, Tcp!Client,
                          Tcp!PeerLeaves, Tcp!PeerVanishes, NetCall
<1> QED BY <1>1, <1>2, <1>3, <1>4, <1>5
        DEF Tcp!Tasks, Tcp!AcceptTask, Tcp!ServeClient, Tcp!TxTask

LEMMA UsbStepCalls == UsbStep => UsbCall
<1> SUFFICES ASSUME Usb!Tasks PROVE UsbCall
  BY DEF UsbStep
<1>1. CASE Usb!on_cdc_rx
  BY <1>1, SameBridge DEF Usb!on_cdc_rx, UsbCall
<1>2. CASE Usb!OpenReset
  BY <1>2, SameBridge DEF Usb!OpenReset, UsbCall
<1>3. CASE Usb!OpenOk \/ Usb!OpenFails \/ Usb!SetUp \/ Usb!SetIds
           \/ Usb!MarkConnected \/ Usb!TakeGone
  BY <1>3, SameBridge DEF Usb!OpenOk, Usb!OpenFails, Usb!SetUp, Usb!SetIds,
                          Usb!MarkConnected, Usb!TakeGone, UsbCall
<1>4. CASE Usb!on_cdc_event
  BY <1>4, SameBridge DEF Usb!on_cdc_event, Usb!Disconnected, Usb!CloseHandle,
                          Usb!ClearDev, Usb!GiveGone, UsbCall
<1>5. CASE Usb!UtxPop \/ Usb!UtxWake
  BY <1>5, SameBridge DEF Usb!UtxPop, Usb!UtxWake, UsbCall
<1>6. CASE Usb!UtxCheckConnected \/ Usb!UtxCheckDev \/ Usb!UtxCall
           \/ Usb!UtxWrites \/ Usb!UtxFails \/ Usb!Port
  BY <1>6, SameBridge DEF Usb!UtxCheckConnected, Usb!UtxCheckDev, Usb!UtxCall,
                          Usb!UtxWrites, Usb!UtxFails, Usb!Port, Usb!Plug,
                          Usb!Unplug, UsbCall
<1> QED BY <1>1, <1>2, <1>3, <1>4, <1>5, <1>6
        DEF Usb!Tasks, Usb!ConnectTask, Usb!UsbTxTask

\* Both kinds of step are among those BridgeProofs treats.
LEMMA StepCalls == [Next]_vars => BridgeCall
<1>0. \A d \in Dir : 1..MaxFed[d] \subseteq Nat
  BY BridgeAssumption
<1>1. NetCall => BridgeCall
  BY <1>0, ChunkAssumption DEF NetCall, BridgeCall, Dir
<1>2. UsbCall => BridgeCall
  BY <1>0, ChunkAssumption DEF UsbCall, BridgeCall, Dir
<1>3. UNCHANGED vars => BridgeCall
  BY DEF vars, BridgeCall
<1> QED BY <1>1, <1>2, <1>3, TcpStepCalls, UsbStepCalls DEF Next

-----------------------------------------------------------------------------
(* Types of what the two sides share *)

SharedInv == BridgeTypeOK /\ WaitingMeansEmpty

LEMMA SharedInvAlways == Spec => []SharedInv
<1>1. Init => SharedInv
  BY InitType DEF Init, SharedInv
<1>2. SharedInv /\ [Next]_vars => SharedInv'
  BY StepCalls, BridgeCallType DEF SharedInv
<1> QED BY <1>1, <1>2, PTL DEF Spec

-----------------------------------------------------------------------------
(* The system implements each component's specification *)

\* What the USB side does to the buffers, TcpServer allows its environment.
LEMMA UsbStepIsUsbSide ==
  SharedInv /\ UsbStep => [Tcp!Next]_(Tcp!vars)
<1> SUFFICES ASSUME SharedInv, UsbStep PROVE [Tcp!Next]_(Tcp!vars)
  OBVIOUS
<1>1. UNCHANGED Tcp!tcpVars
  BY DEF UsbStep, tcpVars, Tcp!tcpVars, Tcp!accVars, Tcp!txVars, Tcp!sentVars
<1>2. UsbCall
  BY UsbStepCalls
<1>3. CASE UNCHANGED bridgeVars
  BY <1>1, <1>3, SameBridge DEF Tcp!vars
<1>4. ASSUME Tcp!UsbPush \/ Tcp!UsbPop \/ Tcp!bridge_reset
      PROVE  [Tcp!Next]_(Tcp!vars)
  BY <1>1, <1>4 DEF Tcp!Next, Tcp!UsbSide
<1>5. CASE \E n \in 1..MaxFed["usb_to_net"] : Push("usb_to_net", n)
  BY <1>4, <1>5, SameBridge DEF Tcp!UsbPush
<1>6. CASE Block("net_to_usb")
  BY <1>4, <1>6, SameBridge DEF Tcp!UsbPop
<1>7. CASE Take("net_to_usb", USB_CHUNK)
  <2>1. \E n \in 1..BUF_SIZE : Take("net_to_usb", n)
    BY <1>7, TakeCapped, ChunkAssumption DEF SharedInv, Dir
  <2> QED BY <1>4, <2>1, SameBridge DEF Tcp!UsbPop
<1>8. CASE bridge_reset
  BY <1>4, <1>8, SameBridge
<1> QED BY <1>2, <1>3, <1>5, <1>6, <1>7, <1>8 DEF UsbCall

\* What the network side does to the buffers, UsbCdcHost allows its environment.
LEMMA TcpStepIsNetSide ==
  SharedInv /\ TcpStep => [Usb!Next]_(Usb!vars)
<1> SUFFICES ASSUME SharedInv, TcpStep PROVE [Usb!Next]_(Usb!vars)
  OBVIOUS
<1>1. UNCHANGED Usb!usbVars
  BY DEF TcpStep, usbVars, Usb!usbVars, Usb!conVars, Usb!drvVars, Usb!devVars,
         Usb!utxVars, Usb!wVars
<1>2. NetCall
  BY TcpStepCalls
<1>3. CASE UNCHANGED bridgeVars
  BY <1>1, <1>3, SameBridge DEF Usb!vars
<1>4. ASSUME Usb!NetPush \/ Usb!NetPop \/ Usb!bridge_reset
      PROVE  [Usb!Next]_(Usb!vars)
  BY <1>1, <1>4 DEF Usb!Next, Usb!NetSide
<1>5. CASE \E n \in 1..MaxFed["net_to_usb"] : Push("net_to_usb", n)
  BY <1>4, <1>5, SameBridge DEF Usb!NetPush
<1>6. CASE Block("usb_to_net")
  BY <1>4, <1>6, SameBridge DEF Usb!NetPop
<1>7. CASE Take("usb_to_net", TX_CHUNK)
  <2>1. \E n \in 1..BUF_SIZE : Take("usb_to_net", n)
    BY <1>7, TakeCapped, ChunkAssumption DEF SharedInv, Dir
  <2> QED BY <1>4, <2>1, SameBridge DEF Usb!NetPop
<1>8. CASE bridge_reset
  BY <1>4, <1>8, SameBridge
<1> QED BY <1>2, <1>3, <1>5, <1>6, <1>7, <1>8 DEF NetCall

\* Whatever the USB side does, the TCP side lives in an environment TcpServer
\* was specified with: every property of TcpServer is one of the system.
THEOREM SystemImplementsTcp == Spec => ImplementsTcp
<1>1. Init => Tcp!Init
  BY SameBridge DEF Init, Tcp!Init
<1>2. SharedInv /\ [Next]_vars => [Tcp!Next]_(Tcp!vars)
  <2>1. TcpStep => Tcp!Next
    BY DEF TcpStep, Tcp!Next
  <2>2. UNCHANGED vars => UNCHANGED Tcp!vars
    BY SameBridge DEF vars, tcpVars, Tcp!vars, Tcp!tcpVars, Tcp!accVars,
                      Tcp!txVars, Tcp!sentVars
  <2> QED BY <2>1, <2>2, UsbStepIsUsbSide DEF Next
<1> QED BY <1>1, <1>2, SharedInvAlways, PTL DEF Spec, ImplementsTcp, Tcp!Spec

\* Whatever the network side does, the USB side lives in an environment
\* UsbCdcHost was specified with.
THEOREM SystemImplementsUsb == Spec => ImplementsUsb
<1>1. Init => Usb!Init
  BY SameBridge DEF Init, Usb!Init
<1>2. SharedInv /\ [Next]_vars => [Usb!Next]_(Usb!vars)
  <2>1. UsbStep => Usb!Next
    BY DEF UsbStep, Usb!Next
  <2>2. UNCHANGED vars => UNCHANGED Usb!vars
    BY SameBridge DEF vars, usbVars, Usb!vars, Usb!usbVars, Usb!conVars,
                      Usb!drvVars, Usb!devVars, Usb!utxVars, Usb!wVars
  <2> QED BY <2>1, <2>2, TcpStepIsNetSide DEF Next
<1> QED BY <1>1, <1>2, SharedInvAlways, PTL DEF Spec, ImplementsUsb, Usb!Spec
-----------------------------------------------------------------------------
(* What a reset discards is never delivered *)

\* Of one direction: the popped chunk c comes before the queue q, both are in
\* order and among the hi bytes offered, and nothing in them was discarded.
Live(c, q, hi, gone) ==
  /\ Flow(c, q, 0, hi)
  /\ gone \subseteq 0..hi
  /\ \A i \in 1..Len(c) : c[i] \notin gone
  /\ \A i \in 1..Len(q) : q[i] \notin gone

\* A reset discards the queue, of which nothing is in the chunk.
LEMMA ResetLive ==
  ASSUME SharedInv, NEW d \in Dir, NEW c \in Seq(Nat),
         Live(c, buf[d], fed[d], discarded[d]), bridge_reset
  PROVE  Live(c, buf'[d], fed'[d], discarded[d] \cup Queued(d))
<1>1. /\ buf'[d] = <<>> /\ fed' = fed
      /\ buf[d] \in Seq(Nat) /\ fed[d] \in Nat
  BY ResetProperties DEF SharedInv, BridgeTypeOK
<1>2. Flow(c, buf'[d], 0, fed'[d])
  BY <1>1, FlowDrops DEF Live
<1>3. \A i \in 1..Len(buf[d]) : buf[d][i] \in 0..fed[d]
  BY <1>1, ElementOfSeq DEF Live, Flow, Increasing
<1>4. Queued(d) \subseteq 0..fed[d]
  BY <1>3 DEF Queued
<1>5. \A i \in 1..Len(c) : c[i] \notin Queued(d)
  <2> SUFFICES ASSUME NEW i \in 1..Len(c), NEW j \in 1..Len(buf[d]), c[i] = buf[d][j]
               PROVE  FALSE
    BY DEF Queued
  <2>1. c[i] < buf[d][j] /\ c[i] \in Nat
    BY ElementOfSeq DEF Live, Flow
  <2> QED BY <2>1, <1>3
<1>6. \A i \in 1..Len(buf'[d]) : FALSE
  BY <1>1
<1> QED BY <1>1, <1>2, <1>4, <1>5, <1>6 DEF Live

\* A call that is neither a reset nor a pop of d adds to the queue only what is new.
LEMMA CallLive ==
  ASSUME SharedInv, NEW d \in Dir, NEW c \in Seq(Nat),
         Live(c, buf[d], fed[d], discarded[d]),
         \/ \E e \in Dir, n \in Nat : Push(e, n)
         \/ \E e \in Dir : Block(e)
         \/ \E e \in Dir \ {d}, n \in Nat : Take(e, n)
         \/ UNCHANGED bridgeVars
  PROVE  Live(c, buf'[d], fed'[d], discarded[d])
<1>1. Flow(c, buf'[d], 0, fed'[d])
  BY FlowCall DEF Live, SharedInv
<1>2. BridgeCall
  BY DEF BridgeCall
<1>3. /\ fed[d] <= fed'[d] /\ fed[d] \in Nat /\ fed'[d] \in Nat
      /\ \A i \in 1..Len(buf'[d]) :
           \/ \E j \in 1..Len(buf[d]) : buf'[d][i] = buf[d][j]
           \/ fed[d] < buf'[d][i]
  BY <1>2, BridgeCallBytes, BridgeCallType DEF SharedInv, BridgeTypeOK
<1>4. discarded[d] \subseteq 0..fed'[d]
  BY <1>3 DEF Live
<1>5. \A i \in 1..Len(buf'[d]) : buf'[d][i] \notin discarded[d]
  BY <1>3 DEF Live
<1> QED BY <1>1, <1>4, <1>5 DEF Live

\* A pop makes a prefix of the queue the chunk.
LEMMA TakeLive ==
  ASSUME SharedInv, NEW d \in Dir, NEW max \in Nat, NEW c,
         Live(c, buf[d], fed[d], discarded[d]), Take(d, max)
  PROVE  /\ Live(Available(d, max), buf'[d], fed'[d], discarded[d])
         /\ Available(d, max) \in Seq(Nat)
<1> DEFINE a == Available(d, max)
<1>1. /\ UNCHANGED fed
      /\ a \in Seq(Nat)
      /\ Len(a) + Len(buf'[d]) = Len(buf[d])
      /\ \A i \in 1..Len(a) : a[i] = buf[d][i]
      /\ \A i \in 1..Len(buf'[d]) : buf'[d][i] = buf[d][Len(a) + i]
      /\ buf[d] \in Seq(Nat) /\ buf'[d] \in Seq(Nat)
  BY TakeProperties DEF SharedInv, BridgeTypeOK
<1>2. Flow(a, buf'[d], 0, fed'[d])
  BY FlowTake DEF Live, SharedInv
<1> HIDE DEF a
<1>3. Len(a) \in Nat /\ Len(buf'[d]) \in Nat /\ Len(buf[d]) \in Nat
  BY <1>1, LenProperties
<1>4. \A i \in 1..Len(a) : i \in 1..Len(buf[d])
  BY <1>1, <1>3
<1>5. \A i \in 1..Len(buf'[d]) : Len(a) + i \in 1..Len(buf[d])
  BY <1>1, <1>3
<1>6. \A i \in 1..Len(a) : a[i] \notin discarded[d]
  BY <1>1, <1>4 DEF Live
<1>7. \A i \in 1..Len(buf'[d]) : buf'[d][i] \notin discarded[d]
  BY <1>1, <1>5 DEF Live
<1>8. Live(a, buf'[d], fed'[d], discarded[d])
  BY <1>1, <1>2, <1>6, <1>7 DEF Live
<1> QED BY <1>1, <1>8 DEF a

\* A delivery leaves a suffix of the chunk, a failed one nothing.
LEMMA DropLive ==
  ASSUME NEW c \in Seq(Nat), NEW q \in Seq(Nat), NEW hi \in Nat, NEW gone,
         Live(c, q, hi, gone)
  PROVE  /\ Live(<<>>, q, hi, gone)
         /\ \A k \in 1..Len(c) :
              /\ Live(SubSeq(c, k + 1, Len(c)), q, hi, gone)
              /\ SubSeq(c, k + 1, Len(c)) \in Seq(Nat)
<1>1. Live(<<>>, q, hi, gone)
  BY FlowDrops DEF Live
<1>2. ASSUME NEW k \in 1..Len(c)
      PROVE  /\ Live(SubSeq(c, k + 1, Len(c)), q, hi, gone)
             /\ SubSeq(c, k + 1, Len(c)) \in Seq(Nat)
  <2> DEFINE r == SubSeq(c, k + 1, Len(c))
  <2>1. r \in Seq(Nat) /\ Flow(r, q, c[k], hi)
    BY FlowDelivers DEF Live
  <2>2. /\ Len(c) \in Nat /\ k \in Nat /\ Len(r) \in Nat
        /\ Len(r) = Len(c) - k
        /\ \A i \in 1..Len(r) : r[i] = c[k + i]
    BY SubSeqProperties, LenProperties
  <2>3. c[k] \in Nat /\ \A i \in 1..Len(q) : q[i] \in Nat
    BY ElementOfSeq
  <2> HIDE DEF r
  <2>4. \A i \in 1..Len(r) : k + i \in 1..Len(c) /\ r[i] \in Nat
    BY <2>1, <2>2, ElementOfSeq
  <2>5. Flow(r, q, 0, hi)
    BY <2>1, <2>3, <2>4 DEF Flow, Increasing
  <2>6. \A i \in 1..Len(r) : r[i] \notin gone
    BY <2>2, <2>4 DEF Live
  <2>7. Live(r, q, hi, gone)
    BY <2>5, <2>6 DEF Live
  <2> QED BY <2>1, <2>7 DEF r
<1> QED BY <1>1, <1>2

\* The inductive form of DiscardedForGood.
LiveInv ==
  /\ txBuf \in Seq(Nat) /\ utxBuf \in Seq(Nat)
  /\ Live(txBuf, buf["usb_to_net"], fed["usb_to_net"], discarded["usb_to_net"])
  /\ Live(utxBuf, buf["net_to_usb"], fed["net_to_usb"], discarded["net_to_usb"])

\* A step that resets pops and delivers nothing.
LEMMA ResetStepLive ==
  SharedInv /\ LiveInv /\ Next /\ Resets => LiveInv'
<1> SUFFICES ASSUME SharedInv, LiveInv, Next, Resets PROVE LiveInv'
  OBVIOUS
<1>1. bridge_reset
  BY SameBridge DEF Resets, Tcp!StartReset, Tcp!EndReset, Usb!OpenReset
<1>2. txBuf' = txBuf /\ utxBuf' = utxBuf
  <2>1. CASE TcpStep /\ (Tcp!StartReset \/ Tcp!EndReset)
    BY <2>1 DEF TcpStep, usbVars, Tcp!StartReset, Tcp!EndReset, Tcp!txVars
  <2>2. CASE UsbStep /\ Usb!OpenReset
    BY <2>2 DEF UsbStep, tcpVars, Usb!OpenReset, Usb!utxVars
  <2>3. ~(TcpStep /\ Usb!OpenReset)
    BY DEF TcpStep, usbVars, Usb!OpenReset
  <2>4. ~(UsbStep /\ (Tcp!StartReset \/ Tcp!EndReset))
    BY DEF UsbStep, tcpVars, Tcp!StartReset, Tcp!EndReset
  <2> QED BY <2>1, <2>2, <2>3, <2>4 DEF Next, Resets
<1>3. discarded' = [d \in Dir |-> discarded[d] \cup Queued(d)]
  BY DEF Next
<1>4. \A d \in Dir : discarded'[d] = discarded[d] \cup Queued(d)
  BY <1>3
<1>5. Live(txBuf, buf'["usb_to_net"], fed'["usb_to_net"], discarded'["usb_to_net"])
  BY <1>1, <1>4, ResetLive DEF LiveInv, Dir
<1>6. Live(utxBuf, buf'["net_to_usb"], fed'["net_to_usb"], discarded'["net_to_usb"])
  BY <1>1, <1>4, ResetLive DEF LiveInv, Dir
<1> QED BY <1>2, <1>5, <1>6 DEF LiveInv

\* A step of the network side pops, or delivers or drops, the FC's bytes.
LEMMA TcpStepLive ==
  SharedInv /\ LiveInv /\ TcpStep /\ ~Resets /\ discarded' = discarded => LiveInv'
<1> SUFFICES ASSUME SharedInv, LiveInv, TcpStep, ~Resets, discarded' = discarded
             PROVE  LiveInv'
  OBVIOUS
<1>0. /\ utxBuf' = utxBuf
      /\ "usb_to_net" \in Dir \ {"net_to_usb"} /\ "net_to_usb" \in Dir
      /\ TX_CHUNK \in Nat
      /\ \A d \in Dir : buf[d] \in Seq(Nat) /\ fed[d] \in Nat /\ 1..MaxFed[d] \subseteq Nat
  BY ChunkAssumption, BridgeAssumption
     DEF TcpStep, usbVars, Dir, SharedInv, BridgeTypeOK
<1>1. ASSUME txBuf' = txBuf,
             \/ \E e \in Dir, n \in Nat : Push(e, n)
             \/ \E e \in Dir : Block(e)
             \/ UNCHANGED bridgeVars
      PROVE  LiveInv'
  BY <1>0, <1>1, CallLive DEF LiveInv
<1>2. ASSUME Take("usb_to_net", TX_CHUNK),
             txBuf' = Available("usb_to_net", TX_CHUNK)
      PROVE  LiveInv'
  <2>1. /\ Live(txBuf', buf'["usb_to_net"], fed'["usb_to_net"], discarded["usb_to_net"])
        /\ txBuf' \in Seq(Nat)
    BY <1>0, <1>2, TakeLive DEF LiveInv
  <2>2. Live(utxBuf, buf'["net_to_usb"], fed'["net_to_usb"], discarded["net_to_usb"])
    BY <1>0, <1>2, CallLive DEF LiveInv
  <2> QED BY <1>0, <2>1, <2>2 DEF LiveInv
<1>3. ASSUME UNCHANGED bridgeVars,
             \/ txBuf' = <<>>
             \/ \E k \in 1..Len(txBuf) : txBuf' = SubSeq(txBuf, k + 1, Len(txBuf))
      PROVE  LiveInv'
  <2>1. /\ Live(txBuf', buf["usb_to_net"], fed["usb_to_net"], discarded["usb_to_net"])
        /\ txBuf' \in Seq(Nat)
    <3>1. /\ Live(<<>>, buf["usb_to_net"], fed["usb_to_net"], discarded["usb_to_net"])
          /\ \A k \in 1..Len(txBuf) :
               /\ Live(SubSeq(txBuf, k + 1, Len(txBuf)), buf["usb_to_net"],
                       fed["usb_to_net"], discarded["usb_to_net"])
               /\ SubSeq(txBuf, k + 1, Len(txBuf)) \in Seq(Nat)
      BY <1>0, DropLive DEF LiveInv
    <3>2. CASE txBuf' = <<>>
      <4>1. txBuf' \in Seq(Nat)
        BY <3>2
      <4> QED BY <3>1, <3>2, <4>1
    <3>3. CASE \E k \in 1..Len(txBuf) : txBuf' = SubSeq(txBuf, k + 1, Len(txBuf))
      BY <3>1, <3>3, Zenon
    <3> QED BY <1>3, <3>2, <3>3
  <2> QED BY <1>0, <1>3, <2>1 DEF LiveInv, bridgeVars
<1>4. CASE Tcp!Listen \/ Tcp!Accept \/ Tcp!Publish \/ Tcp!RecvEnd
           \/ Tcp!Unpublish \/ Tcp!Close \/ Tcp!Client
  BY <1>1, <1>4, SameBridge
     DEF Tcp!Listen, Tcp!Accept, Tcp!Publish, Tcp!RecvEnd, Tcp!Unpublish, Tcp!Close,
         Tcp!Client, Tcp!PeerLeaves, Tcp!PeerVanishes, Tcp!txVars
<1>5. CASE Tcp!Recv
  BY <1>0, <1>1, <1>5, SameBridge DEF Tcp!Recv, Tcp!tcpVars, Tcp!txVars
<1>6. CASE Tcp!TxPop
  <2>1. CASE Block("usb_to_net") /\ txBuf' = txBuf
    BY <1>0, <1>1, <2>1
  <2>2. CASE Take("usb_to_net", TX_CHUNK) /\ txBuf' = Available("usb_to_net", TX_CHUNK)
    BY <1>2, <2>2
  <2> QED BY <1>6, <2>1, <2>2, SameBridge DEF Tcp!TxPop, Tcp!Available, Available
<1>7. CASE Tcp!TxWake
  BY <1>2, <1>7, SameBridge DEF Tcp!TxWake, Tcp!Available, Available
<1>8. CASE Tcp!TxLoad
  BY <1>1, <1>3, <1>8, SameBridge DEF Tcp!TxLoad
<1>9. CASE Tcp!TxSend \/ Tcp!TxSendFails
  BY <1>3, <1>9, SameBridge DEF Tcp!TxSend, Tcp!TxSendFails
<1> QED BY <1>4, <1>5, <1>6, <1>7, <1>8, <1>9
        DEF TcpStep, Resets, Tcp!Tasks, Tcp!AcceptTask, Tcp!ServeClient, Tcp!TxTask

\* A step of the USB side pops, or writes or drops, the client's bytes.
LEMMA UsbStepLive ==
  SharedInv /\ LiveInv /\ UsbStep /\ ~Resets /\ discarded' = discarded => LiveInv'
<1> SUFFICES ASSUME SharedInv, LiveInv, UsbStep, ~Resets, discarded' = discarded
             PROVE  LiveInv'
  OBVIOUS
<1>0. /\ txBuf' = txBuf
      /\ "usb_to_net" \in Dir /\ "net_to_usb" \in Dir \ {"usb_to_net"}
      /\ USB_CHUNK \in Nat
      /\ \A d \in Dir : buf[d] \in Seq(Nat) /\ fed[d] \in Nat /\ 1..MaxFed[d] \subseteq Nat
  BY ChunkAssumption, BridgeAssumption
     DEF UsbStep, tcpVars, Dir, SharedInv, BridgeTypeOK
<1>1. ASSUME utxBuf' = utxBuf,
             \/ \E e \in Dir, n \in Nat : Push(e, n)
             \/ \E e \in Dir : Block(e)
             \/ UNCHANGED bridgeVars
      PROVE  LiveInv'
  BY <1>0, <1>1, CallLive DEF LiveInv
<1>2. ASSUME Take("net_to_usb", USB_CHUNK),
             utxBuf' = Available("net_to_usb", USB_CHUNK)
      PROVE  LiveInv'
  <2>1. /\ Live(utxBuf', buf'["net_to_usb"], fed'["net_to_usb"], discarded["net_to_usb"])
        /\ utxBuf' \in Seq(Nat)
    BY <1>0, <1>2, TakeLive DEF LiveInv
  <2>2. Live(txBuf, buf'["usb_to_net"], fed'["usb_to_net"], discarded["usb_to_net"])
    BY <1>0, <1>2, CallLive DEF LiveInv
  <2> QED BY <1>0, <2>1, <2>2 DEF LiveInv
<1>3. ASSUME UNCHANGED bridgeVars, utxBuf' = <<>>
      PROVE  LiveInv'
  <2>1. Live(utxBuf', buf["net_to_usb"], fed["net_to_usb"], discarded["net_to_usb"])
    BY <1>0, <1>3, DropLive DEF LiveInv
  <2> QED BY <1>0, <1>3, <2>1 DEF LiveInv, bridgeVars
<1>4. CASE Usb!OpenOk \/ Usb!OpenFails \/ Usb!SetUp \/ Usb!SetIds
           \/ Usb!MarkConnected \/ Usb!TakeGone \/ Usb!Port
  BY <1>1, <1>4, SameBridge
     DEF Usb!OpenOk, Usb!OpenFails, Usb!SetUp, Usb!SetIds, Usb!MarkConnected,
         Usb!TakeGone, Usb!Port, Usb!Plug, Usb!Unplug, Usb!utxVars
<1>5. CASE Usb!on_cdc_rx
  BY <1>0, <1>1, <1>5, SameBridge DEF Usb!on_cdc_rx, Usb!usbVars, Usb!utxVars
<1>6. CASE Usb!on_cdc_event
  BY <1>1, <1>6, SameBridge
     DEF Usb!on_cdc_event, Usb!Disconnected, Usb!CloseHandle, Usb!ClearDev,
         Usb!GiveGone, Usb!utxVars
<1>7. CASE Usb!UtxPop
  <2>1. CASE Block("net_to_usb") /\ utxBuf' = utxBuf
    BY <1>0, <1>1, <2>1
  <2>2. CASE Take("net_to_usb", USB_CHUNK) /\ utxBuf' = Available("net_to_usb", USB_CHUNK)
    BY <1>2, <2>2
  <2> QED BY <1>7, <2>1, <2>2, SameBridge DEF Usb!UtxPop, Usb!Available, Available
<1>8. CASE Usb!UtxWake
  BY <1>2, <1>8, SameBridge DEF Usb!UtxWake, Usb!Available, Available
<1>9. CASE Usb!UtxCheckConnected \/ Usb!UtxCheckDev \/ Usb!UtxCall
           \/ Usb!UtxWrites \/ Usb!UtxFails
  BY <1>1, <1>3, <1>9, SameBridge
     DEF Usb!UtxCheckConnected, Usb!UtxCheckDev, Usb!UtxCall, Usb!UtxWrites,
         Usb!UtxFails, Usb!Drop
<1> QED BY <1>4, <1>5, <1>6, <1>7, <1>8, <1>9
        DEF UsbStep, Resets, Usb!Tasks, Usb!ConnectTask, Usb!UsbTxTask

LEMMA LiveInvAlways == Spec => []LiveInv
<1>1. Init => LiveInv
  BY DEF Init, bridge_init, Tcp!tcp_server_start, Usb!usb_cdc_host_start, LiveInv,
         Live, Flow, Increasing, Dir
<1>2. SharedInv /\ LiveInv /\ [Next]_vars => LiveInv'
  <2> SUFFICES ASSUME SharedInv, LiveInv, [Next]_vars PROVE LiveInv'
    OBVIOUS
  <2>1. CASE Next /\ Resets
    BY <2>1, ResetStepLive
  <2>2. CASE Next /\ ~Resets
    <3>1. discarded' = discarded
      BY <2>2 DEF Next
    <3> QED BY <2>2, <3>1, TcpStepLive, UsbStepLive DEF Next
  <2>3. CASE UNCHANGED vars
    BY <2>3 DEF vars, bridgeVars, tcpVars, usbVars, LiveInv
  <2> QED BY <2>1, <2>2, <2>3
<1> QED BY <1>1, <1>2, SharedInvAlways, PTL DEF Spec

\* No byte that was queued when some task called bridge_reset is sent or written
\* later: every reset empties the queues, since one that is refused is of an
\* empty queue, and what a TX task holds was popped before.
THEOREM DiscardedStays == Spec => DiscardedForGood
<1>1. LiveInv => /\ Sends \cap discarded["usb_to_net"] = {}
                 /\ Writes \cap discarded["net_to_usb"] = {}
  BY DEF LiveInv, Live, Sends, Writes
<1> QED BY <1>1, LiveInvAlways, PTL DEF DiscardedForGood
=============================================================================
