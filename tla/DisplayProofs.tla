---------------------------- MODULE DisplayProofs ----------------------------
(***************************************************************************)
(* Proofs about Display, for every width of the counter and of the ticks,  *)
(* every cadence and every size of a push.                                 *)
(***************************************************************************)
EXTENDS Display, TLAPS

\* What ties the counter to the sample kept: until a store overwrites another
\* one, the counter is the sample plus the bytes added since.
CountInv ==
  /\ \A d \in Dir : push[d] = "fresh" => loaded[d] = s_fc_activity
  /\ window = "quiet" => moved = 0 /\ s_fc_activity = last_activity
  /\ window = "moved" => moved > 0 /\ s_fc_activity = Add32(last_activity, moved)

\* What the comparison said of the window it closed, until it is shown.
JudgedInv ==
  led = "show" => /\ judged = "quiet" => ~traffic
                  /\ judged = "moved" => traffic

DInv == TypeOK /\ CountInv /\ JudgedInv /\ CostsOneTick /\ FlashIsTraffic

-----------------------------------------------------------------------------
\* A sum of two values below COUNT_MOD is one, adding nothing changes nothing,
\* adding less than COUNT_MOD changes the value, and additions add up.
LEMMA Add32Properties ==
  ASSUME NEW a \in Count, NEW n \in Count
  PROVE  /\ Add32(a, n) \in Count
         /\ n = 0 => Add32(a, n) = a
         /\ n > 0 => Add32(a, n) # a
         /\ \A m \in Count : n + m < COUNT_MOD =>
              Add32(Add32(a, n), m) = Add32(a, n + m)
BY DisplayAssumption DEF Count, Add32

LEMMA SentIsCount == TypeOK => \A d \in Dir : sent[d] \in Count
BY DisplayAssumption DEF TypeOK, Count

LEMMA DInvInit == Init => DInv
<1> SUFFICES ASSUME Init PROVE DInv
  OBVIOUS
<1>1. /\ 0 \in Count /\ 0 \in 0..MaxSent /\ 0 \in 0..(TICK_MOD - 1)
      /\ 0 \in 0..MaxChanges
  BY DisplayAssumption DEF Count
<1>2. TypeOK
  BY <1>1 DEF Init, TypeOK
<1>3. CountInv /\ JudgedInv /\ CostsOneTick /\ FlashIsTraffic
  BY DEF Init, CountInv, JudgedInv, CostsOneTick, FlashIsTraffic
<1> QED BY <1>2, <1>3 DEF DInv

-----------------------------------------------------------------------------
\* The load notes the counter as it is.
LEMMA LoadStep ==
  ASSUME DInv, NEW d \in Dir, LoadCount(d) PROVE DInv'
BY DEF DInv, TypeOK, CountInv, JudgedInv, CostsOneTick, FlashIsTraffic,
       LoadCount, flags, history, ledVars, Count, Dir

\* The store adds to the sum, or overwrites one and says so.
LEMMA StoreStep ==
  ASSUME DInv, NEW d \in Dir, StoreCount(d) PROVE DInv'
<1> USE DEF DInv
<1>1. /\ s_fc_activity \in Count /\ last_activity \in Count /\ moved \in Count
      /\ loaded[d] \in Count /\ sent[d] \in Count
  BY SentIsCount DEF TypeOK
<1>2. s_fc_activity' \in Count
  BY <1>1, Add32Properties DEF StoreCount
<1>3. moved' \in Count /\ window' \in {"quiet", "moved", "overwritten"}
  BY <1>1, DisplayAssumption DEF StoreCount, Count, TypeOK
<1>4. TypeOK'
  <2>1. 0 \in 0..MaxSent /\ 0 \in Count
    BY DisplayAssumption DEF Count
  <2> QED BY <1>1, <1>2, <1>3, <2>1 DEF StoreCount, TypeOK, flags, ledVars
<1>5. \A e \in Dir : push'[e] # "fresh"
  BY DEF StoreCount, TypeOK, Dir
<1>6. push[d] = "stale" \/ window = "overwritten" => CountInv'
  BY <1>5 DEF StoreCount, CountInv
<1>7. ASSUME push[d] # "stale" /\ window # "overwritten" PROVE CountInv'
  <2>1. /\ s_fc_activity' = Add32(s_fc_activity, sent[d])
        /\ moved' = moved + sent[d] /\ moved + sent[d] < COUNT_MOD
        /\ window' = IF sent[d] > 0 THEN "moved" ELSE window
        /\ last_activity' = last_activity
    BY <1>7 DEF StoreCount, TypeOK, CountInv, ledVars
  <2>2. window \in {"quiet", "moved"}
    BY <1>7 DEF TypeOK
  <2>3. s_fc_activity = Add32(last_activity, moved)
    BY <1>1, <2>2, Add32Properties DEF CountInv
  <2>4. s_fc_activity' = Add32(last_activity, moved + sent[d])
    BY <1>1, <2>1, <2>3, Add32Properties
  <2>5. s_fc_activity' = Add32(last_activity, moved)'
    BY <2>1, <2>4 DEF Add32
  <2>6. window' = "quiet" => moved' = 0 /\ s_fc_activity' = last_activity'
    <3>1. SUFFICES ASSUME window' = "quiet"
                   PROVE  moved' = 0 /\ s_fc_activity' = last_activity'
      OBVIOUS
    <3>2. window = "quiet" /\ sent[d] = 0
      BY <1>1, <2>1, <3>1 DEF Count
    <3>3. moved = 0 /\ s_fc_activity = last_activity
      BY <3>2 DEF CountInv
    <3>4. s_fc_activity' = s_fc_activity
      BY <1>1, <2>1, <3>2, Add32Properties
    <3> QED BY <2>1, <3>2, <3>3, <3>4
  <2>7. window' = "moved" => moved' > 0
    BY <1>1, <2>1, <2>2 DEF CountInv, Count
  <2> QED BY <1>5, <2>5, <2>6, <2>7 DEF CountInv
<1>8. CountInv'
  BY <1>6, <1>7
<1>9. JudgedInv' /\ CostsOneTick' /\ FlashIsTraffic'
  BY DEF StoreCount, JudgedInv, CostsOneTick, FlashIsTraffic, ledVars
<1> QED BY <1>4, <1>8, <1>9

\* The comparison tells a window that moved the counter from a quiet one.
LEMMA SampleStep == DInv /\ Sample => DInv'
<1> SUFFICES ASSUME DInv, Sample PROVE DInv'
  OBVIOUS
<1> USE DEF DInv
<1>1. TypeOK'
  BY DisplayAssumption DEF Sample, TypeOK, counterVars, flags, Count
<1>2. CountInv'
  BY DEF Sample, CountInv, counterVars
<1>3. window = "moved" => s_fc_activity # last_activity
  BY Add32Properties DEF CountInv, TypeOK
<1>4. JudgedInv' /\ CostsOneTick' /\ FlashIsTraffic'
  BY <1>3 DEF Sample, JudgedInv, CountInv, CostsOneTick, FlashIsTraffic, TypeOK
<1> QED BY <1>1, <1>2, <1>4

LEMMA ShowWifiStep == DInv /\ ShowWifi => DInv'
<1> SUFFICES ASSUME DInv, ShowWifi PROVE DInv'
  OBVIOUS
<1>1. Cadence \in BOOLEAN
  BY DEF Cadence, DInv, TypeOK, WifiState
<1> QED BY <1>1
        DEF DInv, TypeOK, CountInv, JudgedInv, CostsOneTick, FlashIsTraffic,
            ShowWifi, counterVars, flags, Add32

LEMMA ShowLinkStep == DInv /\ ShowLink => DInv'
<1> SUFFICES ASSUME DInv, ShowLink PROVE DInv'
  OBVIOUS
<1> USE DEF DInv
<1>1. tick' \in 0..(TICK_MOD - 1)
  BY DisplayAssumption DEF ShowLink, TypeOK
<1>2. /\ Colour \in {"red", "blue", "green", "amber"}
      /\ usb /\ traffic => Colour = "blue"
      /\ Colour = "blue" => traffic
  BY DEF Colour, TypeOK
<1>3. TypeOK' /\ CountInv' /\ JudgedInv'
  BY <1>1, <1>2
     DEF ShowLink, TypeOK, CountInv, JudgedInv, counterVars, flags, history, Add32
<1>4. CostsOneTick' /\ FlashIsTraffic'
  BY <1>2 DEF ShowLink, JudgedInv, CostsOneTick, FlashIsTraffic, history, TypeOK
<1> QED BY <1>3, <1>4

LEMMA FlagStep == DInv /\ FlagChanges => DInv'
<1> SUFFICES ASSUME DInv, FlagChanges PROVE DInv'
  OBVIOUS
<1>1. /\ UNCHANGED <<counterVars, history, ledVars>>
      /\ s_sta_state' \in WifiState /\ s_connected' \in BOOLEAN
      /\ client' \in BOOLEAN /\ changes' \in 0..MaxChanges
  <2>1. changes' \in 0..MaxChanges
    BY DisplayAssumption DEF DInv, TypeOK, FlagChanges
  <2>2. /\ s_connected \in BOOLEAN /\ client \in BOOLEAN
        /\ s_sta_state \in WifiState
    BY DEF DInv, TypeOK
  <2>3. s_connected' \in BOOLEAN /\ client' \in BOOLEAN
    BY <2>2, Zenon DEF FlagChanges
  <2>4. s_sta_state' \in WifiState
    BY <2>2 DEF FlagChanges
  <2> QED BY <2>1, <2>3, <2>4 DEF FlagChanges
<1> QED BY <1>1
        DEF DInv, TypeOK, CountInv, JudgedInv, CostsOneTick, FlashIsTraffic,
            counterVars, history, ledVars, flags, Add32

LEMMA DInvNext == DInv /\ [Next]_vars => DInv'
<1> SUFFICES ASSUME DInv, [Next]_vars PROVE DInv'
  OBVIOUS
<1>1. CASE UNCHANGED vars
  BY <1>1 DEF DInv, TypeOK, CountInv, JudgedInv, CostsOneTick, FlashIsTraffic,
              vars, counterVars, flags, history, ledVars, Add32
<1> QED BY <1>1, LoadStep, StoreStep, SampleStep, ShowWifiStep, ShowLinkStep,
           FlagStep DEF Next, led_task

LEMMA DInvAlways == Spec => []DInv
BY DInvInit, DInvNext, PTL DEF Spec

\* Every variable of the indicator keeps its type: the counter and the tick
\* stay in their width.
THEOREM TypeCorrect == Spec => []TypeOK
BY DInvAlways, PTL DEF DInv

\* Bytes that moved within a tick are shown at its end, unless two additions of
\* that tick collided (bridge.c's comment on the unlocked counter).
THEOREM LossCostsOneTick == Spec => []CostsOneTick
BY DInvAlways, PTL DEF DInv

\* The pixel shows traffic only for stores of the tick it closes.
THEOREM FlashMeansTraffic == Spec => []FlashIsTraffic
BY DInvAlways, PTL DEF DInv
=============================================================================
