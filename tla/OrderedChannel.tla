--------------------------- MODULE OrderedChannel ---------------------------
(***************************************************************************)
(* What one direction of the bridge promises its two ends: a byte channel  *)
(* that may lose bytes (a full buffer, a reset, a failed write) but never  *)
(* repeats one, never swaps two and never delivers one that was not        *)
(* offered.  Bytes are numbered 1, 2, 3, ... as they are offered, and are   *)
(* delivered in batches; a batch shows its first and its last byte, and    *)
(* turn tells it from the one before, so that delivering the same batch    *)
(* again is a step and not a stutter.                                      *)
(***************************************************************************)
EXTENDS Integers

VARIABLES
  offered,     \* bytes offered so far
  first,       \* the first byte of the latest batch (0: none yet)
  delivered,   \* the last byte of the latest batch (0: none yet)
  turn         \* 0 or 1: the parity of the number of batches

ChannelInit == offered = 0 /\ first = 0 /\ delivered = 0 /\ turn = 0

Offer ==
  /\ offered' \in Nat
  /\ offered' > offered
  /\ UNCHANGED <<first, delivered, turn>>

\* A batch that begins after every byte delivered so far; what was skipped is
\* lost for good.
Deliver ==
  /\ first' \in (delivered + 1)..offered
  /\ delivered' \in first'..offered
  /\ turn' = 1 - turn
  /\ UNCHANGED offered

ChannelNext == Offer \/ Deliver

ChannelSpec == ChannelInit /\ [][ChannelNext]_<<offered, first, delivered, turn>>
=============================================================================
