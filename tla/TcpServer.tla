----------------------------- MODULE TcpServer -----------------------------
(***************************************************************************)
(* main/tcp_server.c: the accept task, which serves one Configurator       *)
(* client at a time, and the TX task, which drains the FC's bytes to that  *)
(* client.  The two share s_client, the bridge buffers and the socket      *)
(* table of the network stack (lwIP, external), which hands out the number *)
(* of a closed socket again.                                               *)
(*                                                                         *)
(* Left out because it changes no state: the EINTR retry of recv, the      *)
(* EAGAIN delay of send and a failing accept (all three stutter).          *)
(***************************************************************************)
EXTENDS Bridge, Integers

CONSTANTS
  Fds,           \* socket numbers the stack may give a client
  NoFd,          \* "no client" (-1 in the code)
  TX_CHUNK,      \* size of tcp_tx_task's buffer
  MaxSessions    \* bound: clients ever accepted

ASSUME TcpAssumption ==
  /\ NoFd \notin Fds
  /\ TX_CHUNK \in Nat \ {0}
  /\ MaxSessions \in Nat

VARIABLES
  s_client,    \* published socket of the connected client, or NoFd
  acc,         \* accept task: where it is
  fd,          \* accept task: the socket it serves
  sock,        \* network stack: the session each socket number names, 0 if closed
  session,     \* history: number of the latest accepted client
  peer,        \* the latest client: up, gone (recv reports it), or silent
  since,       \* history: fed when the latest client was accepted
  tx,          \* TX task: where it is
  txBuf,       \* TX task: popped bytes not yet handed to a socket
  txFd,        \* TX task: the socket it read from s_client
  first,       \* history: the first byte of the latest send
  delivered,   \* history: the last byte handed to a socket
  turn         \* history: parity of the number of sends

accVars == <<s_client, acc, fd, session, peer, since>>
sentVars == <<first, delivered, turn>>
txVars  == <<tx, txBuf, txFd, sentVars>>
tcpVars == <<accVars, sock, txVars>>
vars    == <<bridgeVars, tcpVars>>

Sessions == 0..MaxSessions
\* Between the reset that opens a session and the close that ends it.
Serving == {"publish", "recv", "unpublish", "reset2", "close"}

TypeOK ==
  /\ BridgeTypeOK
  /\ s_client \in Fds \cup {NoFd}
  /\ acc \in {"listen", "deleted", "accept", "reset"} \cup Serving
  /\ fd \in Fds \cup {NoFd}
  /\ sock \in [Fds -> Sessions]
  /\ session \in Sessions
  /\ peer \in {"none", "up", "silent", "gone"}
  /\ since \in [Dir -> Nat]
  /\ tx \in {"pop", "blocked", "load", "send"}
  /\ txBuf \in Seq(Nat)
  /\ txFd \in Fds \cup {NoFd}
  /\ first \in Nat
  /\ delivered \in Nat
  /\ turn \in {0, 1}

tcp_server_start ==
  /\ s_client = NoFd
  /\ acc = "listen"
  /\ fd = NoFd
  /\ sock = [f \in Fds |-> 0]
  /\ session = 0
  /\ peer = "none"
  /\ since = [d \in Dir |-> 0]
  /\ tx = "pop"
  /\ txBuf = <<>>
  /\ txFd = NoFd
  /\ first = 0 /\ delivered = 0 /\ turn = 0

Init == bridge_init /\ tcp_server_start

-----------------------------------------------------------------------------
(* tcp_accept_task and serve_client *)

\* socket, bind and listen; when one of them fails the task deletes itself.
Listen ==
  /\ acc = "listen"
  /\ acc' \in {"accept", "deleted"}
  /\ UNCHANGED <<bridgeVars, s_client, fd, session, peer, since, sock, txVars>>

Accept ==
  /\ acc = "accept"
  /\ session < MaxSessions
  /\ \E f \in Fds :
       /\ sock[f] = 0
       /\ fd' = f
       /\ sock' = [sock EXCEPT ![f] = session + 1]
  /\ session' = session + 1
  /\ peer' = "up"
  /\ since' = fed
  /\ acc' = "reset"
  /\ UNCHANGED <<bridgeVars, s_client, txVars>>

StartReset ==
  /\ acc = "reset"
  /\ bridge_reset
  /\ acc' = "publish"
  /\ UNCHANGED <<s_client, fd, session, peer, since, sock, txVars>>

Publish ==
  /\ acc = "publish"
  /\ s_client' = fd
  /\ acc' = "recv"
  /\ UNCHANGED <<bridgeVars, fd, session, peer, since, sock, txVars>>

\* recv returned n > 0 bytes; the count the push returns is ignored.
Recv ==
  /\ acc = "recv"
  /\ peer # "silent"
  /\ \E n \in 1..MaxFed["net_to_usb"] : Push("net_to_usb", n)
  /\ UNCHANGED tcpVars

\* Mutant of RecvEnd: s_client is not withdrawn.
RecvEndStaysPublished ==
  /\ acc = "recv"
  /\ peer = "gone"
  /\ acc' = "reset2"
  /\ UNCHANGED <<bridgeVars, s_client, fd, session, peer, since, sock, txVars>>

\* recv returned 0 or an error: the client is gone.
RecvEnd ==
  /\ acc = "recv"
  /\ peer = "gone"
  /\ acc' = "unpublish"
  /\ UNCHANGED <<bridgeVars, s_client, fd, session, peer, since, sock, txVars>>

Unpublish ==
  /\ acc = "unpublish"
  /\ s_client' = NoFd
  /\ acc' = "reset2"
  /\ UNCHANGED <<bridgeVars, fd, session, peer, since, sock, txVars>>

\* Mutant of EndReset: wait until the TX task has left send.
EndResetJoinsTx ==
  /\ acc = "reset2"
  /\ tx # "send"
  /\ bridge_reset
  /\ acc' = "close"
  /\ UNCHANGED <<s_client, fd, session, peer, since, sock, txVars>>

\* Mutant of EndReset: the buffers are left to the reset of the next session.
EndWithoutReset ==
  /\ acc = "reset2"
  /\ acc' = "close"
  /\ UNCHANGED <<bridgeVars, s_client, fd, session, peer, since, sock, txVars>>

EndReset ==
  /\ acc = "reset2"
  /\ bridge_reset
  /\ acc' = "close"
  /\ UNCHANGED <<s_client, fd, session, peer, since, sock, txVars>>

Close ==
  /\ acc = "close"
  /\ sock' = [sock EXCEPT ![fd] = 0]
  /\ fd' = NoFd
  /\ peer' = "none"
  /\ acc' = "accept"
  /\ UNCHANGED <<bridgeVars, s_client, session, since, txVars>>

ServeClient ==
  \/ StartReset \/ Publish \/ Recv \/ RecvEnd
  \/ Unpublish \/ EndReset \/ Close

AcceptTask == Listen \/ Accept \/ ServeClient

-----------------------------------------------------------------------------
(* tcp_tx_task *)

\* Mutant of TxPop: drain the other direction.
TxPopWrongWay ==
  /\ tx = "pop"
  /\ buf["net_to_usb"] # <<>>
  /\ txBuf' = Available("net_to_usb", TX_CHUNK)
  /\ Take("net_to_usb", TX_CHUNK)
  /\ tx' = "load"
  /\ UNCHANGED <<accVars, sock, txFd, sentVars>>

\* bridge_usb_to_net_pop: bytes at once, or block.
TxPop ==
  /\ tx = "pop"
  /\ \/ /\ buf["usb_to_net"] # <<>>
        /\ txBuf' = Available("usb_to_net", TX_CHUNK)
        /\ Take("usb_to_net", TX_CHUNK)
        /\ tx' = "load"
     \/ /\ Block("usb_to_net")
        /\ tx' = "blocked"
        /\ UNCHANGED txBuf
  /\ UNCHANGED <<accVars, sock, txFd, sentVars>>

\* The blocked pop returns: the task was woken, or 100 ms passed.
TxWake ==
  /\ tx = "blocked"
  /\ txBuf' = Available("usb_to_net", TX_CHUNK)
  /\ Take("usb_to_net", TX_CHUNK)
  /\ tx' = IF txBuf' = <<>> THEN "pop" ELSE "load"
  /\ UNCHANGED <<accVars, sock, txFd, sentVars>>

\* int fd = s_client, read after the pop; without a client the bytes are dropped.
TxLoad ==
  /\ tx = "load"
  /\ \/ /\ s_client = NoFd
        /\ tx' = "pop"
        /\ txBuf' = <<>>
        /\ UNCHANGED txFd
     \/ /\ s_client # NoFd
        /\ tx' = "send"
        /\ txFd' = s_client
        /\ UNCHANGED txBuf
  /\ UNCHANGED <<bridgeVars, accVars, sock, sentVars>>

\* Mutant of TxSend: send the rest from the start of the buffer again.
TxSendNoOffset ==
  /\ tx = "send"
  /\ sock[txFd] # 0
  /\ \E k \in 1..Len(txBuf) :
       /\ delivered' = txBuf[k]
       /\ IF k = Len(txBuf) THEN txBuf' = <<>> /\ tx' = "pop"
                             ELSE UNCHANGED <<txBuf, tx>>
  /\ first' = Head(txBuf) /\ turn' = 1 - turn
  /\ UNCHANGED <<bridgeVars, accVars, sock, txFd>>

\* send took k bytes: into whichever connection the number txFd names now.
TxSend ==
  /\ tx = "send"
  /\ sock[txFd] # 0
  /\ \E k \in 1..Len(txBuf) :
       /\ delivered' = txBuf[k]
       /\ txBuf' = SubSeq(txBuf, k + 1, Len(txBuf))
       /\ tx' = IF k = Len(txBuf) THEN "pop" ELSE "send"
  /\ first' = Head(txBuf) /\ turn' = 1 - turn
  /\ UNCHANGED <<bridgeVars, accVars, sock, txFd>>

\* send failed (a closed socket, a reset connection): drop the rest.
TxSendFails ==
  /\ tx = "send"
  /\ tx' = "pop"
  /\ txBuf' = <<>>
  /\ UNCHANGED <<bridgeVars, accVars, sock, txFd, sentVars>>

TxTask == TxPop \/ TxWake \/ TxLoad \/ TxSend \/ TxSendFails

-----------------------------------------------------------------------------
(* Environment: the client's end of the connection, and the USB side of the  *)
(* bridge, whose tasks may push, pop and reset at any time.                  *)

\* The client closes or resets the connection, or the stack gives up on it.
PeerLeaves ==
  /\ peer \in {"up", "silent"}
  /\ peer' = "gone"
  /\ UNCHANGED <<bridgeVars, s_client, acc, fd, session, since, sock, txVars>>

\* The client disappears without a FIN or RST: recv just blocks.
PeerVanishes ==
  /\ peer = "up"
  /\ peer' = "silent"
  /\ UNCHANGED <<bridgeVars, s_client, acc, fd, session, since, sock, txVars>>

UsbPush == \E n \in 1..MaxFed["usb_to_net"] : Push("usb_to_net", n)

UsbPop == Block("net_to_usb") \/ \E n \in 1..BUF_SIZE : Take("net_to_usb", n)

UsbSide ==
  /\ UsbPush \/ UsbPop \/ bridge_reset
  /\ UNCHANGED tcpVars

Client == PeerLeaves \/ PeerVanishes

Tasks == AcceptTask \/ TxTask \/ Client

Next == Tasks \/ UsbSide

Spec == Init /\ [][Next]_vars

\* The scheduler keeps running the accept task, whatever the others do.
FairSpec == Spec /\ WF_vars(ServeClient)

-----------------------------------------------------------------------------
(* Properties *)

\* s_client, which the TX task writes to, never names a socket that is closed
\* or belongs to another session: serve_client publishes after accept and
\* withdraws before close (lines 58 and 78-80).
SClientOpen ==
  s_client # NoFd =>
    /\ acc \in {"recv", "unpublish"}
    /\ s_client = fd
    /\ sock[fd] = session

\* Once a session's opening bridge_reset is done the buffers hold only bytes
\* offered after its client was accepted, although FreeRTOS refuses to reset a
\* buffer whose reader is blocked: with a trigger level of one byte, a blocked
\* reader means an empty buffer (bridge.c:11, bridge.h:30-31).
CleanStart ==
  acc \in Serving =>
    \A d \in Dir : \A i \in 1..Len(buf[d]) : since[d] < buf[d][i]

\* The bytes that are still to be sent, in the order they will be.
ToSend == txBuf \o buf["usb_to_net"]

\* No byte is repeated or overtakes another on its way to the client: partial
\* sends, failed sends and resets included, what is still to be sent is in
\* order and follows everything already handed to a socket.
InOrder ==
  /\ \A i, j \in 1..Len(ToSend) : i < j => ToSend[i] < ToSend[j]
  /\ \A i \in 1..Len(ToSend) : ToSend[i] \in (delivered + 1)..fed["usb_to_net"]
  /\ delivered <= fed["usb_to_net"]

\* The FC-to-client direction implements the abstract channel: it loses bytes,
\* and does nothing else wrong to them.
ToNet == INSTANCE OrderedChannel WITH offered <- fed["usb_to_net"]
ToNetOrdered == ToNet!ChannelSpec

\* After the client closes, the accept task comes back to accept the next one,
\* whatever the TX task and the USB side are doing (a TX task stuck in send or
\* a full buffer cannot stall the recv loop: bridge.h:2-3).
SlotFreed == peer = "gone" ~> acc = "accept"

\* bridge.h:30-31: the reset discards buffered data "so a new session starts
\* clean (avoids replaying stale MSP bytes)": no byte offered before a client
\* was accepted is ever handed to that client's socket.
NoStaleByte ==
  [][delivered' # delivered => since["usb_to_net"] < Head(txBuf)]_vars
=============================================================================
