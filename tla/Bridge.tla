------------------------------- MODULE Bridge -------------------------------
(***************************************************************************)
(* main/bridge.c: the two FreeRTOS stream buffers between the USB side     *)
(* (flight controller, FC) and the network side (Configurator).  This      *)
(* module owns the buffers; TcpServer and UsbCdcHost call its operators.   *)
(*                                                                         *)
(* A byte is represented by its position in the stream its producer        *)
(* offered in that direction (1, 2, 3, ...): what the properties need to   *)
(* tell apart is which byte arrives, in which order and from which         *)
(* session, never its value.                                               *)
(*                                                                         *)
(* The stream buffer itself is FreeRTOS code.  It is modelled as bridge.c  *)
(* relies on it: one writer and one reader per direction, each call        *)
(* atomic, a receive that finds nothing registers its task as the waiting  *)
(* reader, a send that brings the buffer to the trigger level unregisters  *)
(* it, and a reset is refused while a reader is registered.                *)
(***************************************************************************)
EXTENDS Naturals, Sequences

CONSTANTS
  BUF_SIZE,   \* capacity of each stream buffer (8 KB in the code)
  MaxFed      \* bound: bytes the producer of a direction ever offers

Dir == {"usb_to_net", "net_to_usb"}

ASSUME BridgeAssumption ==
  /\ BUF_SIZE \in Nat \ {0}
  /\ MaxFed \in [Dir -> Nat]

VARIABLES
  buf,        \* the bytes queued in each direction, oldest first
  waiting,    \* a reader is registered in the direction's stream buffer
  fed         \* history: how many bytes the producer has offered so far

bridgeVars == <<buf, waiting, fed>>

\* Mutant of BRIDGE_TRIGGER: wait for two bytes.
TriggerTwo == 2

\* The buffer level that wakes a registered reader.
BRIDGE_TRIGGER == 1

BridgeTypeOK ==
  /\ buf \in [Dir -> Seq(Nat)]
  /\ \A d \in Dir : Len(buf[d]) <= BUF_SIZE
  /\ waiting \in [Dir -> BOOLEAN]
  /\ fed \in [Dir -> Nat]

bridge_init ==
  /\ buf = [d \in Dir |-> <<>>]
  /\ waiting = [d \in Dir |-> FALSE]
  /\ fed = [d \in Dir |-> 0]

-----------------------------------------------------------------------------
\* Mutant of Sent: no check of the space left.
SentUnbounded(d, n) == n

\* How many of n offered bytes a push with zero timeout queues: it never
\* blocks, so what does not fit is lost to the caller that ignores the count.
Sent(d, n) == IF n <= BUF_SIZE - Len(buf[d]) THEN n ELSE BUF_SIZE - Len(buf[d])

\* bridge_usb_to_net_push and bridge_net_to_usb_push: offer the next n bytes.
Push(d, n) ==
  LET sent == Sent(d, n)
      queued == buf[d] \o [i \in 1..sent |-> fed[d] + i]
  IN  /\ fed[d] + n <= MaxFed[d]
      /\ buf' = [buf EXCEPT ![d] = queued]
      /\ fed' = [fed EXCEPT ![d] = @ + n]
      /\ waiting' = [waiting EXCEPT
                       ![d] = @ /\ (sent = 0 \/ Len(queued) < BRIDGE_TRIGGER)]

\* A receive that finds the buffer empty registers its task and blocks.
Block(d) ==
  /\ buf[d] = <<>>
  /\ waiting' = [waiting EXCEPT ![d] = TRUE]
  /\ UNCHANGED <<buf, fed>>

\* The bytes a receive of at most max bytes returns.
Available(d, max) ==
  SubSeq(buf[d], 1, IF Len(buf[d]) < max THEN Len(buf[d]) ELSE max)

\* Mutant of Take: the bytes are copied out and stay queued.
TakePeeks(d, max) ==
  /\ waiting' = [waiting EXCEPT ![d] = FALSE]
  /\ UNCHANGED <<buf, fed>>

\* bridge_usb_to_net_pop and bridge_net_to_usb_pop, once they return: at once
\* when bytes are queued, else after the wake-up or the timeout (in which case
\* nothing may be there to take).
Take(d, max) ==
  /\ buf' = [buf EXCEPT ![d] = SubSeq(@, Len(Available(d, max)) + 1, Len(@))]
  /\ waiting' = [waiting EXCEPT ![d] = FALSE]
  /\ UNCHANGED fed

\* Both resets in one step: they touch different buffers, and every other step
\* touches one.  FreeRTOS refuses to reset a buffer that has a waiting reader.
bridge_reset ==
  /\ buf' = [d \in Dir |-> IF waiting[d] THEN buf[d] ELSE <<>>]
  /\ UNCHANGED <<waiting, fed>>
=============================================================================
