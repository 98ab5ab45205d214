--------------------------- MODULE TcpServerProofs ---------------------------
(***************************************************************************)
(* Proofs about TcpServer, for every buffer size, every number of sockets  *)
(* and sessions, and every environment on the USB side.                    *)
(***************************************************************************)
EXTENDS TcpServer, BridgeProofs

\* The steps that leave the bridge and the socket state alone or call it once.
LEMMA StepCalls == [Next]_vars => BridgeCall
<1> SUFFICES ASSUME [Next]_vars PROVE BridgeCall
  OBVIOUS
<1>0. \A d \in Dir : 1..MaxFed[d] \subseteq Nat
  BY BridgeAssumption
<1>1. CASE Recv
  BY <1>1, <1>0 DEF Recv, BridgeCall, Dir
<1>2. CASE StartReset \/ EndReset
  BY <1>2 DEF StartReset, EndReset, BridgeCall
<1>3. CASE Listen \/ Accept \/ Publish \/ RecvEnd \/ Unpublish \/ Close
  BY <1>3 DEF Listen, Accept, Publish, RecvEnd, Unpublish, Close, BridgeCall
<1>4. CASE TxPop \/ TxWake
  BY <1>4, TcpAssumption DEF TxPop, TxWake, BridgeCall, Dir
<1>5. CASE TxLoad \/ TxSend \/ TxSendFails \/ Client
  BY <1>5 DEF TxLoad, TxSend, TxSendFails, Client, PeerLeaves, PeerVanishes,
              BridgeCall
<1>6. CASE UsbSide
  <2>1. CASE UsbPush
    BY <2>1, <1>0 DEF UsbPush, BridgeCall, Dir
  <2>2. CASE UsbPop
    BY <2>2, BridgeAssumption DEF UsbPop, BridgeCall, Dir
  <2> QED BY <1>6, <2>1, <2>2 DEF UsbSide, BridgeCall
<1>7. CASE UNCHANGED vars
  BY <1>7 DEF vars, BridgeCall
<1> QED BY <1>1, <1>2, <1>3, <1>4, <1>5, <1>6, <1>7
        DEF Next, Tasks, AcceptTask, ServeClient, TxTask

-----------------------------------------------------------------------------
(* Type correctness *)

TInv == TypeOK /\ WaitingMeansEmpty

LEMMA TInvInit == Init => TInv
BY InitType, TcpAssumption, EmptySeq
   DEF Init, tcp_server_start, TInv, TypeOK, Sessions

\* Each step keeps the types of the variables of tcp_server.c.
LEMMA TInvNext == TInv /\ [Next]_vars => TInv'
<1> SUFFICES ASSUME TInv, [Next]_vars PROVE TInv'
  OBVIOUS
<1>0. BridgeTypeOK /\ WaitingMeansEmpty /\ BridgeCall
  BY StepCalls DEF TInv, TypeOK
<1>1. BridgeTypeOK' /\ WaitingMeansEmpty'
  BY <1>0, BridgeCallType
<1> USE <1>1 DEF TInv, TypeOK, Sessions, Serving
<1>2. CASE Listen
  BY <1>2 DEF Listen, txVars, sentVars
<1>3. CASE Accept
  <2>1. session + 1 \in 0..MaxSessions
    BY <1>3, TcpAssumption DEF Accept
  <2>2. since' \in [Dir -> Nat]
    BY <1>3, <1>0 DEF Accept, BridgeTypeOK
  <2> QED BY <1>3, <2>1, <2>2 DEF Accept, txVars, sentVars
<1>4. CASE StartReset \/ Publish \/ RecvEnd \/ Unpublish \/ EndReset
  BY <1>4 DEF StartReset, Publish, RecvEnd, Unpublish, EndReset, txVars, sentVars
<1>5. CASE Recv
  BY <1>5 DEF Recv, tcpVars, accVars, txVars, sentVars
<1>6. CASE Close
  <2>1. 0 \in 0..MaxSessions
    BY TcpAssumption
  <2>2. sock' \in [Fds -> 0..MaxSessions]
    BY <1>6, <2>1 DEF Close
  <2> QED BY <1>6, <2>2 DEF Close, txVars, sentVars
<1>7. CASE TxPop
  <2>1. CASE Take("usb_to_net", TX_CHUNK) /\ txBuf' = Available("usb_to_net", TX_CHUNK)
    <3>1. txBuf' \in Seq(Nat)
      BY <2>1, <1>0, TcpAssumption, TakeProperties DEF Dir
    <3> QED BY <1>7, <3>1 DEF TxPop, accVars, sentVars
  <2>2. CASE UNCHANGED txBuf
    BY <1>7, <2>2 DEF TxPop, accVars, sentVars
  <2> QED BY <1>7, <2>1, <2>2 DEF TxPop
<1>8. CASE TxWake
  <2>1. txBuf' \in Seq(Nat)
    BY <1>8, <1>0, TcpAssumption, TakeProperties DEF TxWake, Dir
  <2> QED BY <1>8, <2>1 DEF TxWake, accVars, sentVars
<1>9. CASE TxLoad
  BY <1>9, EmptySeq DEF TxLoad, accVars, sentVars
<1>10. CASE TxSend
  <2>1. PICK k \in 1..Len(txBuf) :
          /\ delivered' = txBuf[k]
          /\ txBuf' = SubSeq(txBuf, k + 1, Len(txBuf))
          /\ tx' = IF k = Len(txBuf) THEN "pop" ELSE "send"
          /\ first' = Head(txBuf) /\ turn' = 1 - turn
    BY <1>10 DEF TxSend
  <2>2. /\ Len(txBuf) \in Nat /\ \A i \in 1..Len(txBuf) : txBuf[i] \in Nat
        /\ Head(txBuf) \in Nat
    BY <2>1, LenProperties, ElementOfSeq, HeadTailProperties
  <2>3. txBuf' \in Seq(Nat)
    BY <2>1, <2>2, SubSeqProperties
  <2> QED BY <1>10, <2>1, <2>2, <2>3 DEF TxSend, accVars
<1>11. CASE TxSendFails
  BY <1>11, EmptySeq DEF TxSendFails, accVars, sentVars
<1>12. CASE Client
  BY <1>12 DEF Client, PeerLeaves, PeerVanishes, txVars, sentVars
<1>13. CASE UsbSide
  BY <1>13 DEF UsbSide, tcpVars, accVars, txVars, sentVars
<1>14. CASE UNCHANGED vars
  BY <1>14 DEF vars, tcpVars, accVars, txVars, sentVars
<1> QED BY <1>2, <1>3, <1>4, <1>5, <1>6, <1>7, <1>8, <1>9, <1>10, <1>11,
           <1>12, <1>13, <1>14
        DEF Next, Tasks, AcceptTask, ServeClient, TxTask

LEMMA TInvAlways == Spec => []TInv
BY TInvInit, TInvNext, PTL DEF Spec

\* Every variable of tcp_server.c and bridge.c keeps its type, and no buffer
\* ever holds more than its capacity.
THEOREM TypeCorrect == Spec => []TypeOK
BY TInvAlways, PTL DEF TInv

-----------------------------------------------------------------------------
(* The published socket *)

\* While a session runs, its socket number is taken and names that session.
SessionSocket ==
  acc \in {"reset"} \cup Serving => fd \in Fds /\ sock[fd] = session

SockInv == SClientOpen /\ SessionSocket

LEMMA SockInvNext == TInv /\ SockInv /\ [Next]_vars => SockInv'
<1> SUFFICES ASSUME TInv, SockInv, [Next]_vars PROVE SockInv'
  OBVIOUS
<1> USE DEF SockInv, SClientOpen, SessionSocket, Serving
<1>1. CASE Listen
  BY <1>1 DEF Listen
<1>2. CASE Accept
  <2>1. s_client = NoFd
    BY <1>2 DEF Accept
  <2>2. fd' \in Fds /\ sock'[fd'] = session'
    BY <1>2 DEF Accept, TInv, TypeOK
  <2> QED BY <1>2, <2>1, <2>2 DEF Accept
<1>3. CASE StartReset
  BY <1>3 DEF StartReset
<1>4. CASE Publish
  BY <1>4 DEF Publish
<1>5. CASE RecvEnd
  BY <1>5 DEF RecvEnd
<1>6. CASE Unpublish
  BY <1>6 DEF Unpublish
<1>7. CASE EndReset
  BY <1>7 DEF EndReset
<1>8. CASE Close
  BY <1>8 DEF Close
<1>9. CASE UNCHANGED <<s_client, acc, fd, session, sock>>
  BY <1>9
<1>10. CASE Recv \/ UsbSide \/ UNCHANGED vars
  BY <1>9, <1>10 DEF Recv, UsbSide, vars, tcpVars, accVars
<1>11. CASE TxTask \/ Client
  BY <1>9, <1>11 DEF TxTask, TxPop, TxWake, TxLoad, TxSend, TxSendFails, Client,
                     PeerLeaves, PeerVanishes, accVars
<1> QED BY <1>1, <1>2, <1>3, <1>4, <1>5, <1>6, <1>7, <1>8, <1>10, <1>11
        DEF Next, Tasks, AcceptTask, ServeClient

\* The TX task never finds a closed socket, or one of another session, in
\* s_client: serve_client withdraws it before it closes the socket.
THEOREM PublishedSocketOpen == Spec => []SClientOpen
<1>1. Init => SockInv
  BY DEF Init, tcp_server_start, SockInv, SClientOpen, SessionSocket, Serving
<1>2. Spec => []SockInv
  BY <1>1, SockInvNext, TInvAlways, PTL DEF Spec
<1>3. SockInv => SClientOpen
  BY DEF SockInv
<1> QED BY <1>2, <1>3, PTL

-----------------------------------------------------------------------------
(* Sessions start clean *)

StartInv == CleanStart /\ \A d \in Dir : since[d] <= fed[d]

LEMMA StartInvNext == TInv /\ StartInv /\ [Next]_vars => StartInv'
<1> SUFFICES ASSUME TInv, StartInv, [Next]_vars PROVE StartInv'
  OBVIOUS
<1>0. /\ BridgeTypeOK /\ WaitingMeansEmpty /\ BridgeCall /\ BridgeTypeOK'
      /\ since \in [Dir -> Nat] /\ fed \in [Dir -> Nat] /\ fed' \in [Dir -> Nat]
  BY StepCalls, TInvNext DEF TInv, TypeOK, BridgeTypeOK
<1>1. \A d \in Dir : fed[d] <= fed'[d]
  BY <1>0, BridgeCallBytes
<1>2. \A d \in Dir : \A i \in 1..Len(buf'[d]) :
        (\E j \in 1..Len(buf[d]) : buf'[d][i] = buf[d][j]) \/ fed[d] < buf'[d][i]
  BY <1>0, BridgeCallBytes
<1>3. CASE Accept
  <2>1. since' = fed /\ fed' = fed /\ acc' = "reset"
    BY <1>3 DEF Accept, bridgeVars
  <2> QED BY <2>1, <1>0 DEF StartInv, CleanStart, Serving
<1>4. CASE StartReset
  <2>1. (\A d \in Dir : buf'[d] = <<>>) /\ fed' = fed /\ since' = since
    BY <1>4, <1>0, ResetProperties DEF StartReset
  <2> QED BY <2>1 DEF StartInv, CleanStart
<1>5. ASSUME since' = since, acc' \in Serving => acc \in Serving
      PROVE  StartInv'
  <2>1. \A d \in Dir : since'[d] <= fed'[d]
    BY <1>0, <1>1, <1>5 DEF StartInv
  <2>2. ASSUME acc' \in Serving, NEW d \in Dir, NEW i \in 1..Len(buf'[d])
        PROVE  since'[d] < buf'[d][i]
    <3>1. since[d] \in Nat /\ fed[d] \in Nat /\ since[d] <= fed[d]
      BY <1>0 DEF StartInv
    <3>2. CASE \E j \in 1..Len(buf[d]) : buf'[d][i] = buf[d][j]
      BY <3>2, <1>5, <2>2 DEF StartInv, CleanStart
    <3>3. CASE fed[d] < buf'[d][i]
      <4>1. buf'[d][i] \in Nat
        BY <1>0, ElementOfSeq DEF BridgeTypeOK
      <4> QED BY <3>1, <3>3, <4>1, <1>5
    <3> QED BY <3>2, <3>3, <1>2
  <2> QED BY <2>1, <2>2 DEF StartInv, CleanStart
<1>6. CASE Listen \/ Publish \/ RecvEnd \/ Unpublish \/ EndReset \/ Close
  BY <1>5, <1>6 DEF Listen, Publish, RecvEnd, Unpublish, EndReset, Close, Serving
<1>7. CASE Recv \/ UsbSide \/ UNCHANGED vars
  BY <1>5, <1>7 DEF Recv, UsbSide, vars, tcpVars, accVars
<1>8. CASE TxTask \/ Client
  BY <1>5, <1>8 DEF TxTask, TxPop, TxWake, TxLoad, TxSend, TxSendFails, Client,
                    PeerLeaves, PeerVanishes, accVars
<1> QED BY <1>3, <1>4, <1>6, <1>7, <1>8 DEF Next, Tasks, AcceptTask, ServeClient

\* Once a session's opening bridge_reset is done, the buffers hold only bytes
\* offered after its client was accepted, refused resets included.
THEOREM SessionsStartClean == Spec => []CleanStart
<1>1. Init => StartInv
  BY DEF Init, bridge_init, tcp_server_start, StartInv, CleanStart, Serving
<1>2. Spec => []StartInv
  BY <1>1, StartInvNext, TInvAlways, PTL DEF Spec
<1>3. StartInv => CleanStart
  BY DEF StartInv
<1> QED BY <1>2, <1>3, PTL

-----------------------------------------------------------------------------
(* Bytes reach sockets in order, and at most once *)

Queue == buf["usb_to_net"]
Offered == fed["usb_to_net"]

\* The inductive form of InOrder: the chunk and the queue are in order, and the
\* whole chunk comes before the queue.
FlowInv == Flow(txBuf, Queue, delivered, Offered)

LEMMA FlowImpliesInOrder == TInv /\ FlowInv => InOrder
<1> SUFFICES ASSUME TInv, FlowInv PROVE InOrder
  OBVIOUS
<1> DEFINE m == Len(txBuf)
           n == Len(Queue)
<1>1. txBuf \in Seq(Nat) /\ Queue \in Seq(Nat)
  BY DEF TInv, TypeOK, BridgeTypeOK, Queue, Dir
<1>2. m \in Nat /\ n \in Nat
  BY <1>1, LenProperties
<1>3. /\ Len(ToSend) = m + n
      /\ \A i \in 1..(m + n) : ToSend[i] = IF i <= m THEN txBuf[i] ELSE Queue[i - m]
  BY <1>1, ConcatProperties DEF ToSend, Queue
<1>4. delivered \in Nat /\ Offered \in Nat
  BY DEF TInv, TypeOK, BridgeTypeOK, Offered, Dir
<1>5. /\ \A i \in 1..m : txBuf[i] \in Nat
      /\ \A i \in 1..n : Queue[i] \in Nat
  BY <1>1, ElementOfSeq
<1> HIDE DEF m, n
<1>6. ASSUME NEW i \in 1..(m + n), NEW j \in 1..(m + n), i < j
      PROVE  ToSend[i] < ToSend[j]
  <2>1. CASE j <= m
    <3>1. i \in 1..m /\ j \in 1..m /\ ToSend[i] = txBuf[i] /\ ToSend[j] = txBuf[j]
      BY <1>2, <1>3, <1>6, <2>1
    <3> QED BY <3>1, <1>6 DEF FlowInv, Flow, Increasing, m
  <2>2. CASE i <= m /\ m < j
    <3>1. /\ i \in 1..m /\ j - m \in 1..n
          /\ ToSend[i] = txBuf[i] /\ ToSend[j] = Queue[j - m]
      BY <1>2, <1>3, <2>2
    <3> QED BY <3>1 DEF FlowInv, Flow, m, n
  <2>3. CASE m < i
    <3>1. /\ i - m \in 1..n /\ j - m \in 1..n /\ i - m < j - m
          /\ ToSend[i] = Queue[i - m] /\ ToSend[j] = Queue[j - m]
      BY <1>2, <1>3, <1>6, <2>3
    <3> QED BY <3>1 DEF FlowInv, Flow, Increasing, n
  <2> QED BY <2>1, <2>2, <2>3, <1>2
<1>7. ASSUME NEW i \in 1..(m + n)
      PROVE  ToSend[i] \in (delivered + 1)..Offered
  <2>1. CASE i <= m
    <3>1. i \in 1..m /\ ToSend[i] = txBuf[i]
      BY <1>2, <1>3, <2>1
    <3> QED BY <3>1, <1>4, <1>5 DEF FlowInv, Flow, Increasing, m
  <2>2. CASE m < i
    <3>1. i - m \in 1..n /\ ToSend[i] = Queue[i - m]
      BY <1>2, <1>3, <2>2
    <3> QED BY <3>1, <1>4, <1>5 DEF FlowInv, Flow, Increasing, n
  <2> QED BY <2>1, <2>2, <1>2
<1> QED BY <1>3, <1>6, <1>7 DEF InOrder, Offered, FlowInv, Flow

\* A send hands over the head of the chunk: what stays comes after it.
LEMMA SendStep ==
  ASSUME TInv, FlowInv, TxSend
  PROVE  /\ FlowInv' /\ Offered' = Offered
         /\ first' \in (delivered + 1)..Offered /\ delivered' \in first'..Offered
         /\ turn' = 1 - turn
<1>1. PICK k \in 1..Len(txBuf) :
        /\ delivered' = txBuf[k]
        /\ txBuf' = SubSeq(txBuf, k + 1, Len(txBuf))
        /\ first' = Head(txBuf) /\ turn' = 1 - turn
  BY DEF TxSend
<1>2. /\ txBuf \in Seq(Nat) /\ delivered \in Nat
      /\ Offered \in Nat /\ Queue \in Seq(Nat)
  BY DEF TInv, TypeOK, BridgeTypeOK, Offered, Queue, Dir
<1>3. Queue' = Queue /\ Offered' = Offered
  BY DEF TxSend, bridgeVars, Queue, Offered
<1>4. /\ Flow(SubSeq(txBuf, k + 1, Len(txBuf)), Queue, txBuf[k], Offered)
      /\ txBuf[1] = Head(txBuf)
      /\ txBuf[1] \in (delivered + 1)..Offered /\ txBuf[k] \in txBuf[1]..Offered
  BY <1>2, FlowDelivers DEF FlowInv
<1>5. FlowInv'
  BY <1>1, <1>3, <1>4 DEF FlowInv
<1> QED BY <1>1, <1>3, <1>4, <1>5

LEMMA FlowInvNext == TInv /\ FlowInv /\ [Next]_vars => FlowInv'
<1> SUFFICES ASSUME TInv, FlowInv, [Next]_vars PROVE FlowInv'
  OBVIOUS
<1>0. /\ BridgeTypeOK /\ WaitingMeansEmpty
      /\ txBuf \in Seq(Nat) /\ delivered \in Nat /\ TX_CHUNK \in Nat
      /\ "usb_to_net" \in Dir /\ "net_to_usb" \in Dir \ {"usb_to_net"}
      /\ \A d \in Dir : 1..MaxFed[d] \subseteq Nat
      /\ 1..BUF_SIZE \subseteq Nat
  BY TcpAssumption, BridgeAssumption DEF TInv, TypeOK, Dir
<1> DEFINE OtherCall == \/ \E e \in Dir, n \in Nat : Push(e, n)
                        \/ \E e \in Dir : Block(e)
                        \/ \E e \in Dir \ {"usb_to_net"}, n \in Nat : Take(e, n)
                        \/ bridge_reset
                        \/ UNCHANGED bridgeVars
<1>1. ASSUME UNCHANGED <<txBuf, delivered>>, OtherCall
      PROVE  FlowInv'
  <2>1. Flow(txBuf, buf'["usb_to_net"], delivered, fed'["usb_to_net"])
    BY <1>0, <1>1, FlowCall DEF FlowInv, Queue, Offered
  <2> QED BY <1>1, <2>1 DEF FlowInv, Queue, Offered
<1>2. ASSUME Take("usb_to_net", TX_CHUNK), UNCHANGED delivered,
             txBuf' = Available("usb_to_net", TX_CHUNK)
      PROVE  FlowInv'
  <2>1. Flow(Available("usb_to_net", TX_CHUNK), buf'["usb_to_net"], delivered,
             fed'["usb_to_net"])
    BY <1>0, <1>2, FlowTake DEF FlowInv, Queue, Offered
  <2> QED BY <1>2, <2>1 DEF FlowInv, Queue, Offered
<1>3. ASSUME UNCHANGED bridgeVars, UNCHANGED delivered, txBuf' = <<>>
      PROVE  FlowInv'
  <2>1. Flow(<<>>, Queue, delivered, Offered)
    BY FlowDrops DEF FlowInv
  <2> QED BY <1>3, <2>1 DEF FlowInv, Queue, Offered, bridgeVars
<1>4. CASE Listen \/ Accept \/ Publish \/ RecvEnd \/ Unpublish \/ Close
  BY <1>1, <1>4 DEF Listen, Accept, Publish, RecvEnd, Unpublish, Close, txVars, sentVars
<1>5. CASE StartReset \/ EndReset
  BY <1>1, <1>5 DEF StartReset, EndReset, txVars, sentVars
<1>6. CASE Recv
  BY <1>0, <1>1, <1>6 DEF Recv, tcpVars, txVars, sentVars
<1>7. CASE TxPop
  <2>1. CASE Block("usb_to_net") /\ UNCHANGED txBuf
    BY <1>0, <1>1, <1>7, <2>1 DEF TxPop, sentVars
  <2> QED BY <1>2, <1>7, <2>1 DEF TxPop, sentVars
<1>8. CASE TxWake
  BY <1>2, <1>8 DEF TxWake, sentVars
<1>9. CASE TxLoad
  BY <1>1, <1>3, <1>9 DEF TxLoad, sentVars
<1>10. CASE TxSend
  BY <1>10, SendStep
<1>11. CASE TxSendFails
  BY <1>3, <1>11 DEF TxSendFails, sentVars
<1>12. CASE Client \/ UNCHANGED vars
  BY <1>1, <1>12 DEF Client, PeerLeaves, PeerVanishes, vars, tcpVars, txVars, sentVars
<1>13. CASE UsbSide
  <2>1. CASE UsbPush
    BY <1>0, <1>1, <1>13, <2>1 DEF UsbSide, UsbPush, tcpVars, txVars, sentVars
  <2>2. CASE UsbPop
    BY <1>0, <1>1, <1>13, <2>2 DEF UsbSide, UsbPop, tcpVars, txVars, sentVars
  <2>3. CASE bridge_reset
    BY <1>1, <1>13, <2>3 DEF UsbSide, tcpVars, txVars, sentVars
  <2> QED BY <1>13, <2>1, <2>2, <2>3 DEF UsbSide
<1> QED BY <1>4, <1>5, <1>6, <1>7, <1>8, <1>9, <1>10, <1>11, <1>12, <1>13
        DEF Next, Tasks, AcceptTask, ServeClient, TxTask

LEMMA FlowInvAlways == Spec => []FlowInv
<1>1. Init => FlowInv
  BY DEF Init, bridge_init, tcp_server_start, FlowInv, Flow, Increasing, Queue,
         Offered, Dir
<1> QED BY <1>1, FlowInvNext, TInvAlways, PTL DEF Spec

\* What is still to be sent to the client is in order and follows everything
\* already handed to a socket.
THEOREM BytesInOrder == Spec => []InOrder
BY FlowInvAlways, TInvAlways, FlowImpliesInOrder, PTL

-----------------------------------------------------------------------------
(* The abstract channel *)

\* Every step is an offer, a delivery or a stutter of the abstract channel.
LEMMA ChannelStep ==
  TInv /\ FlowInv /\ [Next]_vars
    => [ToNet!ChannelNext]_<<Offered, first, delivered, turn>>
<1> SUFFICES ASSUME TInv, FlowInv, [Next]_vars
             PROVE  [ToNet!ChannelNext]_<<Offered, first, delivered, turn>>
  OBVIOUS
<1>0. /\ BridgeTypeOK /\ WaitingMeansEmpty /\ BridgeTypeOK' /\ BridgeCall
      /\ Offered \in Nat /\ Offered' \in Nat
  BY StepCalls, TInvNext DEF TInv, TypeOK, BridgeTypeOK, Offered, Dir
<1>1. CASE TxSend
  BY <1>1, SendStep DEF ToNet!ChannelNext, ToNet!Deliver, Offered
<1>2. ASSUME UNCHANGED sentVars
      PROVE  [ToNet!ChannelNext]_<<Offered, first, delivered, turn>>
  <2>1. Offered <= Offered'
    BY <1>0, BridgeCallBytes DEF Offered, Dir
  <2>2. CASE Offered' = Offered
    BY <1>2, <2>2 DEF sentVars
  <2>3. CASE Offered' # Offered
    <3>1. Offered' > Offered
      BY <1>0, <2>1, <2>3
    <3> QED BY <1>0, <1>2, <3>1 DEF ToNet!ChannelNext, ToNet!Offer, Offered, sentVars
  <2> QED BY <2>2, <2>3
<1>3. CASE AcceptTask \/ Client \/ UsbSide \/ UNCHANGED vars
  <2>1. UNCHANGED sentVars
    BY <1>3 DEF AcceptTask, ServeClient, Listen, Accept, StartReset, Publish, Recv,
                RecvEnd, Unpublish, EndReset, Close, Client, PeerLeaves,
                PeerVanishes, UsbSide, vars, tcpVars, txVars, sentVars
  <2> QED BY <1>2, <2>1
<1>4. CASE TxPop \/ TxWake \/ TxLoad \/ TxSendFails
  BY <1>2, <1>4 DEF TxPop, TxWake, TxLoad, TxSendFails
<1> QED BY <1>1, <1>3, <1>4 DEF Next, Tasks, TxTask

\* The FC-to-client direction implements the abstract channel: a byte may be
\* lost, but none is repeated, reordered or made up, whatever the interleaving
\* of pops, partial sends, failures and resets.
THEOREM ImplementsChannel == Spec => ToNetOrdered
<1>1. Init => ToNet!ChannelInit
  BY DEF Init, bridge_init, tcp_server_start, ToNet!ChannelInit, Dir
<1>2. TInv /\ FlowInv /\ [Next]_vars
        => [ToNet!ChannelNext]_<<fed["usb_to_net"], first, delivered, turn>>
  BY ChannelStep DEF Offered
<1> QED BY <1>1, <1>2, TInvAlways, FlowInvAlways, PTL
        DEF Spec, ToNetOrdered, ToNet!ChannelSpec
=============================================================================
