---------------------------- MODULE RtcPathProofs ----------------------------
(***************************************************************************)
(* Proofs about RtcPath, for every width of the counter, every set of      *)
(* offsets and of accesses and every ratio of PCLK to CLK1HZ: the types,   *)
(* a parked FSM has its alarm armed, every pulse answers an alarm, and a   *)
(* pause takes effect.  The driver's runs are runs of RtcPath.  Then the   *)
(* times: an alarm of a parked FSM is serviced within three cycles, a      *)
(* transfer is held for at most two re-arms, the armed alarm is still to   *)
(* come, and the access of a helper of the driver is never held.           *)
(***************************************************************************)
EXTENDS SensingDriver, TLAPS

-------------------------------------------------------------------------------
(* The inductive invariant.                                                *)

EnableWrite == Ctl!Write("access", "RTCCR", 1)
UnmaskWrite == Ctl!Write("access", "RTCIMSC", 1)

\* A transfer of the FSM is on the bus a cycle after the state that drives it.
Driven ==
  /\ state \in {"S_IDLE", "S_ENABLE_SETUP", "S_CALC", "S_MATCH_SETUP", "S_ICR_SETUP"}
       => fsm_bus = Ctl!IdleBus
  /\ state = "S_ENABLE_ACCESS" => fsm_bus = Ctl!Write("setup", "RTCCR", 1)
  /\ state = "S_READ_SETUP"    => fsm_bus \in {Ctl!IdleBus, EnableWrite}
  /\ state = "S_READ_ACCESS"   => fsm_bus = Ctl!Read("setup", "RTCDR")
  /\ state = "S_READ_CAPTURE"  => fsm_bus = Ctl!Read("access", "RTCDR")
  /\ state = "S_MATCH_ACCESS"  => fsm_bus = Ctl!Write("setup", "RTCMR", alarm_target)
  /\ state = "S_IMSC_SETUP"    => fsm_bus = Ctl!Write("access", "RTCMR", alarm_target)
  /\ state = "S_IMSC_ACCESS"   => fsm_bus = Ctl!Write("setup", "RTCIMSC", 1)
  /\ state = "S_WAITING"       => fsm_bus \in {Ctl!IdleBus, UnmaskWrite}
  /\ state = "S_ICR_ACCESS"    => fsm_bus = Ctl!Write("setup", "RTCICR", 1)
  /\ state = "S_PULSE_TRIG"    => fsm_bus = Ctl!Write("access", "RTCICR", 1)

\* The counter runs, or the write that starts it is on the bus.
Enabled ==
  rtc_enabled \/ state \notin {"S_IDLE", "S_ENABLE_SETUP", "S_ENABLE_ACCESS"}
    => running \/ (state = "S_READ_SETUP" /\ fsm_bus = EnableWrite)

\* The match is set from S_IMSC_ACCESS on; the mask is, or is being, set too.
Armed ==
  /\ state \in {"S_IMSC_ACCESS", "S_WAITING"} => match = alarm_target
  /\ state = "S_WAITING" => imsc \/ fsm_bus = UnmaskWrite

\* An interrupt, and the FSM on its way to the pulse, owe a pulse.
Owed ==
  /\ ris => due
  /\ state \in {"S_ICR_SETUP", "S_ICR_ACCESS", "S_PULSE_TRIG"} => due

\* The alarm was accepted with the polling enabled: each state on the way to
\* the pulse is a cycle further from that.
Pausing ==
  /\ state = "S_ICR_SETUP"  => paused_for = 0
  /\ state = "S_ICR_ACCESS" => paused_for <= 1
  /\ state = "S_PULSE_TRIG" => paused_for <= 2
  /\ QuietWhenPaused

\* A period on its way to alarm_offset_reg is one that the firmware uses.
PeriodWritten == access = "alarm_offset_wr" => wdata \in Offsets

Inv == TypeOK /\ PeriodWritten /\ Driven /\ Enabled /\ Armed /\ Owed /\ Pausing

LEMMA TimeFacts == TimeMod \in Nat /\ TimeMod > 1 /\ {0, 1} \subseteq Ctl!Time
                   /\ Ctl!Time = Rtc!Time /\ Offsets \subseteq Ctl!Time
                   /\ TickMin \in Nat
BY PathAssumption DEF Ctl!Time, Rtc!Time

LEMMA BusTyped ==
  /\ Ctl!IdleBus \in Ctl!Bus
  /\ \A p \in {"setup", "access"}, r \in Ctl!Regs :
       /\ Ctl!Read(p, r) \in Ctl!Bus
       /\ \A d \in Ctl!Time : Ctl!Write(p, r, d) \in Ctl!Bus
BY TimeFacts DEF Ctl!IdleBus, Ctl!Read, Ctl!Write, Ctl!Bus, Ctl!Regs

-------------------------------------------------------------------------------
(* What reaches the PL031.                                                 *)

\* The master's transfers read RTCDR and write RTCLR only, and reach the PL031
\* only while the FSM's bus is idle.
LEMMA OnlyTheFsmWrites ==
  \/ bus = fsm_bus
  \/ fsm_bus.phase = "idle" /\ bus.reg \in {"RTCDR", "RTCLR"}
<1>1. CASE Ctl!grant(ext)
  <2>1. fsm_bus.phase = "idle"
    BY <1>1 DEF Ctl!grant, Ctl!bus_free
  <2>2. bus.reg = ext.reg
    BY <1>1 DEF bus, Ctl!RtcBus, ext, Ctl!Read, Ctl!Write, Ctl!IdleBus
  <2>3. ext.reg \in {"RTCDR", "RTCLR"}
    BY DEF ext, Ctl!Read, Ctl!Write, Ctl!IdleBus
  <2> QED
    BY <2>1, <2>2, <2>3
<1>2. CASE ~Ctl!grant(ext)
  BY <1>2 DEF bus, Ctl!RtcBus
<1> QED
  BY <1>1, <1>2

LEMMA BusData == ASSUME TypeOK PROVE bus.data \in Ctl!Time
<1>1. ext.data \in Ctl!Time
  BY TimeFacts DEF ext, Ctl!Read, Ctl!Write, Ctl!IdleBus, TypeOK
<1>2. CASE Ctl!grant(ext)
  BY <1>1, <1>2 DEF bus, Ctl!RtcBus, ext, Ctl!Read, Ctl!Write, Ctl!IdleBus
<1>3. CASE ~Ctl!grant(ext)
  BY <1>3 DEF bus, Ctl!RtcBus, TypeOK, Ctl!TypeOK, Ctl!Bus
<1> QED
  BY <1>2, <1>3

\* One cycle of the PL031.
LEMMA RtcClk ==
  ASSUME TypeOK, Rtc!Clk(bus)
  PROVE  /\ Rtc!TypeOK'
         /\ running => running'
         /\ fsm_bus = EnableWrite => running'
         /\ match' = IF Rtc!WriteReg(fsm_bus, "RTCMR") THEN fsm_bus.data ELSE match
         /\ imsc' = IF Rtc!WriteReg(fsm_bus, "RTCIMSC") THEN fsm_bus.data # 0 ELSE imsc
         /\ fsm_bus = Ctl!Write("access", "RTCICR", 1) => ~ris'
<1>1. Rtc!TypeOK'
  BY BusData, TimeFacts DEF Rtc!Clk, TypeOK, Rtc!TypeOK
<1>2. /\ running => running'
      /\ match' = IF Rtc!WriteReg(fsm_bus, "RTCMR") THEN fsm_bus.data ELSE match
      /\ imsc' = IF Rtc!WriteReg(fsm_bus, "RTCIMSC") THEN fsm_bus.data # 0 ELSE imsc
  BY OnlyTheFsmWrites DEF Rtc!Clk, Rtc!WriteReg
<1>3. ASSUME fsm_bus = EnableWrite PROVE running'
  <2>1. /\ fsm_bus.phase = "access" /\ fsm_bus.write /\ fsm_bus.reg = "RTCCR"
        /\ fsm_bus.data = 1
    BY <1>3 DEF EnableWrite, Ctl!Write
  <2>2. bus = fsm_bus
    BY <2>1, OnlyTheFsmWrites
  <2>3. Rtc!WriteReg(bus, "RTCCR") /\ bus.data # 0
    BY <2>1, <2>2 DEF Rtc!WriteReg
  <2> QED
    BY <2>3, Zenon DEF Rtc!Clk
<1>4. ASSUME fsm_bus = Ctl!Write("access", "RTCICR", 1) PROVE ~ris'
  <2>1. /\ fsm_bus.phase = "access" /\ fsm_bus.write /\ fsm_bus.reg = "RTCICR"
        /\ fsm_bus.data = 1
    BY <1>4 DEF Ctl!Write
  <2>2. bus = fsm_bus
    BY <2>1, OnlyTheFsmWrites
  <2> QED
    BY <2>1, <2>2 DEF Rtc!Clk, Rtc!WriteReg
<1> QED
  BY <1>1, <1>2, <1>3, <1>4

-------------------------------------------------------------------------------
(* Every step keeps the invariant.                                         *)

LEMMA InitInv == Init => Inv
<1> SUFFICES ASSUME Init PROVE Inv
  OBVIOUS
<1>1. Ctl!TypeOK /\ Rtc!TypeOK
  BY TimeFacts DEF Init, Ctl!Init, Rtc!Init, Ctl!TypeOK, Rtc!TypeOK, Ctl!States,
     Ctl!IdleBus, Ctl!Bus, Ctl!Regs
<1>2. /\ wdata \in Ctl!Time /\ since_tick \in 0 .. TickMin
      /\ paused_for \in 0 .. PausedMax /\ stalled \in 0 .. StalledMax
      /\ deferred \in 0 .. DeferredMax
  BY TimeFacts DEF Init, PausedMax, StalledMax, DeferredMax
<1>3. TypeOK
  BY <1>1, <1>2 DEF Init, TypeOK
<1> QED
  BY <1>3 DEF Inv, Init, Ctl!Init, Rtc!Init, Driven, Enabled, Armed, Owed, Pausing,
     QuietWhenPaused, PeriodWritten

LEMMA ResetInv == Inv /\ (Reset \/ PowerOn) => Inv'
<1> SUFFICES ASSUME Inv, Reset \/ PowerOn PROVE Inv'
  OBVIOUS
<1>1. /\ Ctl!ClearRegs /\ BusReset
      /\ due' \in BOOLEAN /\ loaded' \in BOOLEAN /\ crossed' \in BOOLEAN /\ (ris' => due')
      /\ nRTCRST_ff1' \in BOOLEAN /\ nRTCRST_ff2' \in BOOLEAN
  <2>1. due \in BOOLEAN /\ loaded \in BOOLEAN /\ crossed \in BOOLEAN /\ (ris => due)
        /\ nRTCRST_ff1 \in BOOLEAN /\ nRTCRST_ff2 \in BOOLEAN
    BY DEF Inv, TypeOK, Ctl!TypeOK, Owed
  <2>2. CASE Reset
    <3>1. Ctl!ClearRegs /\ BusReset
      BY <2>2 DEF Reset, Ctl!Reset
    <3>2. /\ UNCHANGED << due, loaded, crossed, nRTCRST_ff1, nRTCRST_ff2 >>
          /\ ris' = ris \/ ris' = FALSE
      BY <2>2 DEF Reset, Ctl!Reset, Ctl!rstVars, Rtc!Reset
    <3> QED
      BY <2>1, <3>1, <3>2
  <2>3. CASE PowerOn
    BY <2>3 DEF PowerOn, Ctl!PowerOn, Rtc!PowerOn
  <2> QED
    BY <2>2, <2>3
<1>2. Rtc!TypeOK'
  BY TimeFacts DEF Reset, PowerOn, Rtc!Reset, Rtc!PowerOn, Inv, TypeOK, Rtc!TypeOK
<1>3. Ctl!TypeOK'
  BY <1>1, TimeFacts DEF Ctl!ClearRegs, Ctl!TypeOK, Ctl!States, Ctl!IdleBus, Ctl!Bus, Ctl!Regs
<1>4. TypeOK'
  BY <1>1, <1>2, <1>3, TimeFacts DEF BusReset, TypeOK, Inv, PausedMax, StalledMax, DeferredMax
<1> QED
  BY <1>1, <1>4 DEF BusReset, Inv, Ctl!ClearRegs, Driven, Enabled, Armed, Owed, Pausing,
     QuietWhenPaused, PeriodWritten

LEMMA TickInv == Inv /\ Tick => Inv'
<1> SUFFICES ASSUME Inv, Tick PROVE Inv'
  OBVIOUS
<1>1. UNCHANGED << state, fsm_bus, alarm_target, rtc_enabled, ctrl_time_value, rtc_trig,
                   ctrl_intr_flag, pt_setup_done, match, running, imsc, regVars, apbVars,
                   paused_for, stalled, deferred, loaded >>
  BY DEF Tick, Ctl!Tick, Rtc!Tick, Ctl!fsmVars
<1>2. counter' \in Rtc!Time /\ ris' \in BOOLEAN
  BY TimeFacts DEF Tick, Rtc!Tick, Inv, TypeOK, Rtc!TypeOK, Rtc!Time
<1>3. nRTCRST_ff1' \in BOOLEAN /\ nRTCRST_ff2' \in BOOLEAN
  BY DEF Tick, Ctl!Tick, Inv, TypeOK, Ctl!TypeOK
<1>4. /\ since_tick' \in 0 .. TickMin /\ due' \in BOOLEAN
      /\ crossed' \in BOOLEAN
      /\ due => due'
      /\ ris' => due'
  BY <1>2, TimeFacts DEF Tick, Inv, TypeOK, Owed
<1>5. TypeOK'
  BY <1>1, <1>2, <1>3, <1>4 DEF Inv, TypeOK, Ctl!TypeOK, Rtc!TypeOK, regVars, apbVars
<1> QED
  BY <1>1, <1>4, <1>5
     DEF apbVars, Inv, Driven, PeriodWritten, Enabled, Armed, Owed, Pausing, QuietWhenPaused

-------------------------------------------------------------------------------
(* One edge of PCLK.                                                       *)

\* Everything but the FSM keeps its types.
LEMMA RestTyped ==
  ASSUME Inv, PosEdge
  PROVE  /\ Rtc!TypeOK'
         /\ alarm_offset_reg' \in Offsets /\ poll_enable_reg' \in BOOLEAN
         /\ phase' \in {"idle", "setup", "access"}
         /\ access' \in Accesses \cup {"none"} /\ wdata' \in Ctl!Time
         /\ PeriodWritten'
         /\ since_tick' \in 0 .. TickMin
         /\ due' \in BOOLEAN /\ loaded' \in BOOLEAN /\ crossed' \in BOOLEAN
         /\ paused_for' \in 0 .. PausedMax
         /\ stalled' \in 0 .. StalledMax /\ deferred' \in 0 .. DeferredMax
<1>1. Rtc!TypeOK'
  BY RtcClk DEF Inv, PosEdge
<1>2. alarm_offset_reg' \in Offsets /\ poll_enable_reg' \in BOOLEAN
  <2>1. /\ alarm_offset_reg \in Offsets /\ poll_enable_reg \in BOOLEAN
        /\ access = "alarm_offset_wr" => wdata \in Offsets
    BY DEF Inv, TypeOK, PeriodWritten
  <2> QED
    BY <2>1 DEF PosEdge, WrapperRegs, Written
<1>3. /\ phase' \in {"idle", "setup", "access"}
      /\ access' \in Accesses \cup {"none"} /\ wdata' \in Ctl!Time
      /\ PeriodWritten'
  BY TimeFacts DEF PeriodWritten,  Inv, TypeOK, PosEdge, Master, apbVars, WriteData
<1>4. since_tick' \in 0 .. TickMin
  BY TimeFacts DEF Inv, TypeOK, PosEdge, UpTo
<1>5. due' \in BOOLEAN /\ loaded' \in BOOLEAN /\ crossed' \in BOOLEAN
  BY <1>1 DEF Inv, TypeOK, PosEdge, HistClk, Rtc!TypeOK
<1>6. /\ paused_for' \in 0 .. PausedMax
      /\ stalled' \in 0 .. StalledMax /\ deferred' \in 0 .. DeferredMax
  BY DEF Inv, TypeOK, PosEdge, HistClk, UpTo, PausedMax, StalledMax, DeferredMax
<1> QED
  BY <1>1, <1>2, <1>3, <1>4, <1>5, <1>6

\* The FSM, and the three facts that tie the rest to its state.
LEMMA FsmClk ==
  ASSUME Inv, PosEdge
  PROVE  Ctl!TypeOK' /\ Driven' /\ Enabled' /\ Armed' /\ Owed' /\ Pausing'
<1>1. /\ Ctl!TypeOK /\ Driven /\ Enabled /\ Armed /\ Owed /\ Pausing
      /\ alarm_offset_reg \in Ctl!Time /\ Offsets \subseteq Ctl!Time
  BY TimeFacts DEF Inv, TypeOK
<1>2. /\ running => running'
      /\ fsm_bus = EnableWrite => running'
      /\ match' = IF Rtc!WriteReg(fsm_bus, "RTCMR") THEN fsm_bus.data ELSE match
      /\ imsc' = IF Rtc!WriteReg(fsm_bus, "RTCIMSC") THEN fsm_bus.data # 0 ELSE imsc
      /\ fsm_bus = Ctl!Write("access", "RTCICR", 1) => ~ris'
  BY RtcClk DEF Inv, PosEdge
<1>3. ~rtc_trig' => (due => due') /\ (ris' => due')
  BY <1>1 DEF PosEdge, HistClk, Owed
<1>4. /\ paused_for \in Nat /\ paused_for' \in Nat /\ paused_for' <= paused_for + 1
      /\ poll_enable_reg => paused_for' = 0
  BY DEF Inv, TypeOK, PosEdge, HistClk, UpTo, PausedMax
<1>5. /\ ctrl_intr_flag' \in BOOLEAN /\ pt_setup_done' \in BOOLEAN
      /\ nRTCRST_ff1' \in BOOLEAN /\ nRTCRST_ff2' \in BOOLEAN
  <2>1. pt_setup_done' \in BOOLEAN
    BY <1>1 DEF PosEdge, Ctl!Clk, Ctl!Passthrough, Ctl!TypeOK
  <2>2. ctrl_intr_flag' \in BOOLEAN
    BY DEF PosEdge, Ctl!Clk, Rtc!RTCINTR, Inv, TypeOK, Rtc!TypeOK
  <2> QED
    BY <1>1, <2>1, <2>2 DEF PosEdge, Ctl!Clk, Ctl!rstVars, Ctl!TypeOK
<1>6. Rtc!Prdata(bus) \in Ctl!Time
  BY TimeFacts DEF Rtc!Prdata, Inv, TypeOK, Rtc!TypeOK
<1>7. CASE Ctl!Idle
  BY <1>1, <1>2, <1>3, <1>4, <1>5, <1>6, <1>7, TimeFacts
     DEF Ctl!Idle, Ctl!Quiet, Ctl!Drive, Ctl!Goto, Ctl!IdleBus, Ctl!Read,
         Ctl!Write, Ctl!TypeOK, Ctl!Bus, Ctl!Regs, Ctl!States, Driven, Enabled, Armed,
         Owed, Pausing, QuietWhenPaused,
         EnableWrite, UnmaskWrite, Rtc!WriteReg, Rtc!RTCINTR, Ctl!Time
<1>8. CASE Ctl!EnableSetup
  BY <1>1, <1>2, <1>3, <1>4, <1>5, <1>6, <1>8, TimeFacts
     DEF Ctl!EnableSetup, Ctl!Quiet, Ctl!Drive, Ctl!Goto, Ctl!IdleBus, Ctl!Read,
         Ctl!Write, Ctl!TypeOK, Ctl!Bus, Ctl!Regs, Ctl!States, Driven, Enabled, Armed,
         Owed, Pausing, QuietWhenPaused,
         EnableWrite, UnmaskWrite, Rtc!WriteReg, Rtc!RTCINTR, Ctl!Time
<1>9. CASE Ctl!EnableAccess
  BY <1>1, <1>2, <1>3, <1>4, <1>5, <1>6, <1>9, TimeFacts
     DEF Ctl!EnableAccess, Ctl!Quiet, Ctl!Drive, Ctl!Goto, Ctl!IdleBus, Ctl!Read,
         Ctl!Write, Ctl!TypeOK, Ctl!Bus, Ctl!Regs, Ctl!States, Driven, Enabled, Armed,
         Owed, Pausing, QuietWhenPaused,
         EnableWrite, UnmaskWrite, Rtc!WriteReg, Rtc!RTCINTR, Ctl!Time
<1>10. CASE Ctl!ReadTime
  <2>1. Ctl!TypeOK'
    <3>1. /\ state' \in Ctl!States /\ fsm_bus' \in Ctl!Bus
          /\ alarm_target' \in Ctl!Time /\ ctrl_time_value' \in Ctl!Time
          /\ rtc_enabled' \in BOOLEAN /\ rtc_trig' \in BOOLEAN
      BY <1>1, <1>6, <1>10, BusTyped, TimeFacts
         DEF Ctl!ReadTime, Ctl!Quiet, Ctl!Drive, Ctl!Goto, Ctl!TypeOK, Ctl!States, Ctl!Regs
    <3> QED
      BY <1>5, <3>1 DEF Ctl!TypeOK
  <2>2. Driven' /\ Enabled'
    BY <1>1, <1>2, <1>10
       DEF Ctl!ReadTime, Ctl!Quiet, Ctl!Drive, Ctl!Goto, Ctl!IdleBus, Ctl!Read, Ctl!Write,
           Driven, Enabled, EnableWrite, UnmaskWrite
  <2>3. Armed'
    BY <1>1, <1>2, <1>10
       DEF Ctl!ReadTime, Ctl!Quiet, Ctl!Drive, Ctl!Goto, Ctl!IdleBus, Ctl!Read, Ctl!Write,
           Driven, Armed, EnableWrite, UnmaskWrite, Rtc!WriteReg
  <2>4. Owed' /\ Pausing'
    BY <1>1, <1>2, <1>3, <1>4, <1>10
       DEF Ctl!ReadTime, Ctl!Quiet, Ctl!Drive, Ctl!Goto, Ctl!IdleBus, Ctl!Read, Ctl!Write,
           Driven, Owed, Pausing, QuietWhenPaused, Rtc!RTCINTR
  <2> QED
    BY <2>1, <2>2, <2>3, <2>4
<1>11. CASE Ctl!Capture(Rtc!Prdata(bus))
  <2>1. Ctl!TypeOK'
    <3>1. /\ state' \in Ctl!States /\ fsm_bus' \in Ctl!Bus
          /\ alarm_target' \in Ctl!Time /\ ctrl_time_value' \in Ctl!Time
          /\ rtc_enabled' \in BOOLEAN /\ rtc_trig' \in BOOLEAN
      BY <1>1, <1>6, <1>11, BusTyped, TimeFacts
         DEF Ctl!Capture, Ctl!Quiet, Ctl!Drive, Ctl!Goto, Ctl!TypeOK, Ctl!States
    <3> QED
      BY <1>5, <3>1 DEF Ctl!TypeOK
  <2>2. Driven' /\ Enabled'
    BY <1>1, <1>2, <1>11
       DEF Ctl!Capture, Ctl!Quiet, Ctl!Drive, Ctl!Goto, Ctl!IdleBus, Ctl!Read, Ctl!Write,
           Driven, Enabled, EnableWrite, UnmaskWrite
  <2>3. Armed'
    BY <1>1, <1>2, <1>11
       DEF Ctl!Capture, Ctl!Quiet, Ctl!Drive, Ctl!Goto, Ctl!IdleBus, Ctl!Read, Ctl!Write,
           Driven, Armed, EnableWrite, UnmaskWrite, Rtc!WriteReg
  <2>4. Owed' /\ Pausing'
    BY <1>1, <1>2, <1>3, <1>4, <1>11
       DEF Ctl!Capture, Ctl!Quiet, Ctl!Drive, Ctl!Goto, Ctl!IdleBus, Ctl!Read, Ctl!Write,
           Driven, Owed, Pausing, QuietWhenPaused, Rtc!RTCINTR
  <2> QED
    BY <2>1, <2>2, <2>3, <2>4
<1>12. CASE Ctl!Calc(alarm_offset_reg)
  <2>1. Ctl!TypeOK'
    <3>1. alarm_target' = (ctrl_time_value + alarm_offset_reg) % TimeMod
      BY <1>12 DEF Ctl!Calc
    <3>2. ctrl_time_value \in Nat /\ alarm_offset_reg \in Nat
      BY <1>1, TimeFacts DEF Ctl!TypeOK, Ctl!Time
    <3>3. alarm_target' \in Ctl!Time
      BY <3>1, <3>2, TimeFacts DEF Ctl!Time
    <3>4. /\ state' \in Ctl!States /\ fsm_bus' \in Ctl!Bus /\ ctrl_time_value' \in Ctl!Time
          /\ rtc_enabled' \in BOOLEAN /\ rtc_trig' \in BOOLEAN
      BY <1>1, <1>12, BusTyped
         DEF Ctl!Calc, Ctl!Quiet, Ctl!Drive, Ctl!Goto, Ctl!TypeOK, Ctl!States
    <3> QED
      BY <1>5, <3>3, <3>4 DEF Ctl!TypeOK
  <2>2. Driven' /\ Enabled' /\ Armed'
    BY <1>1, <1>2, <1>12
       DEF Ctl!Calc, Ctl!Quiet, Ctl!Drive, Ctl!Goto, Ctl!IdleBus, Driven, Enabled, Armed,
           EnableWrite
  <2>4. Owed' /\ Pausing'
    BY <1>1, <1>3, <1>4, <1>12
       DEF Ctl!Calc, Ctl!Quiet, Ctl!Drive, Ctl!Goto, Owed, Pausing, QuietWhenPaused
  <2> QED
    BY <2>1, <2>2, <2>4
<1>13. CASE Ctl!WriteMatch
  <2>1. Ctl!TypeOK'
    <3>1. /\ state' \in Ctl!States /\ fsm_bus' \in Ctl!Bus
          /\ alarm_target' \in Ctl!Time /\ ctrl_time_value' \in Ctl!Time
          /\ rtc_enabled' \in BOOLEAN /\ rtc_trig' \in BOOLEAN
      BY <1>1, <1>6, <1>13, BusTyped, TimeFacts
         DEF Ctl!WriteMatch, Ctl!Quiet, Ctl!Drive, Ctl!Goto, Ctl!TypeOK, Ctl!States, Ctl!Regs
    <3> QED
      BY <1>5, <3>1 DEF Ctl!TypeOK
  <2>2. Driven' /\ Enabled'
    BY <1>1, <1>2, <1>13
       DEF Ctl!WriteMatch, Ctl!Quiet, Ctl!Drive, Ctl!Goto, Ctl!IdleBus, Ctl!Read, Ctl!Write,
           Driven, Enabled, EnableWrite, UnmaskWrite
  <2>3. Armed'
    BY <1>1, <1>2, <1>13
       DEF Ctl!WriteMatch, Ctl!Quiet, Ctl!Drive, Ctl!Goto, Ctl!IdleBus, Ctl!Read, Ctl!Write,
           Driven, Armed, EnableWrite, UnmaskWrite, Rtc!WriteReg
  <2>4. Owed' /\ Pausing'
    BY <1>1, <1>2, <1>3, <1>4, <1>13
       DEF Ctl!WriteMatch, Ctl!Quiet, Ctl!Drive, Ctl!Goto, Ctl!IdleBus, Ctl!Read, Ctl!Write,
           Driven, Owed, Pausing, QuietWhenPaused, Rtc!RTCINTR
  <2> QED
    BY <2>1, <2>2, <2>3, <2>4
<1>14. CASE Ctl!Unmask
  <2>1. Ctl!TypeOK'
    <3>1. /\ state' \in Ctl!States /\ fsm_bus' \in Ctl!Bus
          /\ alarm_target' \in Ctl!Time /\ ctrl_time_value' \in Ctl!Time
          /\ rtc_enabled' \in BOOLEAN /\ rtc_trig' \in BOOLEAN
      BY <1>1, <1>6, <1>14, BusTyped, TimeFacts
         DEF Ctl!Unmask, Ctl!Quiet, Ctl!Drive, Ctl!Goto, Ctl!TypeOK, Ctl!States, Ctl!Regs
    <3> QED
      BY <1>5, <3>1 DEF Ctl!TypeOK
  <2>2. Driven' /\ Enabled'
    BY <1>1, <1>2, <1>14
       DEF Ctl!Unmask, Ctl!Quiet, Ctl!Drive, Ctl!Goto, Ctl!IdleBus, Ctl!Read, Ctl!Write,
           Driven, Enabled, EnableWrite, UnmaskWrite
  <2>3. Armed'
    BY <1>1, <1>2, <1>14
       DEF Ctl!Unmask, Ctl!Quiet, Ctl!Drive, Ctl!Goto, Ctl!IdleBus, Ctl!Read, Ctl!Write,
           Driven, Armed, EnableWrite, UnmaskWrite, Rtc!WriteReg
  <2>4. Owed' /\ Pausing'
    BY <1>1, <1>2, <1>3, <1>4, <1>14
       DEF Ctl!Unmask, Ctl!Quiet, Ctl!Drive, Ctl!Goto, Ctl!IdleBus, Ctl!Read, Ctl!Write,
           Driven, Owed, Pausing, QuietWhenPaused, Rtc!RTCINTR
  <2> QED
    BY <2>1, <2>2, <2>3, <2>4
<1>15. CASE Ctl!Waiting(ext, Rtc!RTCINTR, poll_enable_reg)
  <2>1. Ctl!TypeOK'
    <3>1. /\ state' \in Ctl!States /\ fsm_bus' \in Ctl!Bus
          /\ alarm_target' \in Ctl!Time /\ ctrl_time_value' \in Ctl!Time
          /\ rtc_enabled' \in BOOLEAN /\ rtc_trig' \in BOOLEAN
      BY <1>1, <1>6, <1>15, BusTyped, TimeFacts
         DEF Ctl!Waiting, Ctl!Quiet, Ctl!Drive, Ctl!Goto, Ctl!TypeOK, Ctl!States, Ctl!Regs
    <3> QED
      BY <1>5, <3>1 DEF Ctl!TypeOK
  <2>2. Driven' /\ Enabled'
    BY <1>1, <1>2, <1>15
       DEF Ctl!Waiting, Ctl!Quiet, Ctl!Drive, Ctl!Goto, Ctl!IdleBus, Ctl!Read, Ctl!Write,
           Driven, Enabled, EnableWrite, UnmaskWrite
  <2>3. Armed'
    <3>1. state = "S_WAITING" /\ alarm_target' = alarm_target
      BY <1>15 DEF Ctl!Waiting, Ctl!Quiet, Ctl!Drive, Ctl!Goto
    <3>2. match' = match
      BY <1>1, <1>2, <3>1 DEF Driven, UnmaskWrite, Ctl!IdleBus, Ctl!Write, Rtc!WriteReg
    <3>3. CASE fsm_bus = UnmaskWrite
      <4>1. imsc'
        <5>1. Rtc!WriteReg(fsm_bus, "RTCIMSC") /\ fsm_bus.data # 0
          BY <3>3 DEF UnmaskWrite, Ctl!Write, Rtc!WriteReg
        <5> QED
          BY <1>2, <5>1, Zenon
      <4> QED
        BY <1>1, <3>1, <3>2, <4>1 DEF Armed
    <3>4. CASE fsm_bus = Ctl!IdleBus /\ fsm_bus # UnmaskWrite
      <4>1. imsc' = imsc
        BY <1>2, <3>4 DEF Ctl!IdleBus, Rtc!WriteReg
      <4> QED
        BY <1>1, <3>1, <3>2, <3>4, <4>1 DEF Armed
    <3> QED
      BY <1>1, <3>1, <3>3, <3>4 DEF Driven
  <2>4. Owed' /\ Pausing'
    BY <1>1, <1>2, <1>3, <1>4, <1>15
       DEF Ctl!Waiting, Ctl!Quiet, Ctl!Drive, Ctl!Goto, Ctl!IdleBus, Ctl!Read, Ctl!Write,
           Driven, Owed, Pausing, QuietWhenPaused, Rtc!RTCINTR
  <2> QED
    BY <2>1, <2>2, <2>3, <2>4
<1>16. CASE Ctl!ClearInterrupt
  <2>1. Ctl!TypeOK'
    <3>1. /\ state' \in Ctl!States /\ fsm_bus' \in Ctl!Bus
          /\ alarm_target' \in Ctl!Time /\ ctrl_time_value' \in Ctl!Time
          /\ rtc_enabled' \in BOOLEAN /\ rtc_trig' \in BOOLEAN
      BY <1>1, <1>6, <1>16, BusTyped, TimeFacts
         DEF Ctl!ClearInterrupt, Ctl!Quiet, Ctl!Drive, Ctl!Goto, Ctl!TypeOK, Ctl!States, Ctl!Regs
    <3> QED
      BY <1>5, <3>1 DEF Ctl!TypeOK
  <2>2. Driven' /\ Enabled'
    BY <1>1, <1>2, <1>16
       DEF Ctl!ClearInterrupt, Ctl!Quiet, Ctl!Drive, Ctl!Goto, Ctl!IdleBus, Ctl!Read, Ctl!Write,
           Driven, Enabled, EnableWrite, UnmaskWrite
  <2>3. Armed'
    BY <1>1, <1>2, <1>16
       DEF Ctl!ClearInterrupt, Ctl!Quiet, Ctl!Drive, Ctl!Goto, Ctl!IdleBus, Ctl!Read, Ctl!Write,
           Driven, Armed, EnableWrite, UnmaskWrite, Rtc!WriteReg
  <2>4. Owed' /\ Pausing'
    BY <1>1, <1>2, <1>3, <1>4, <1>16
       DEF Ctl!ClearInterrupt, Ctl!Quiet, Ctl!Drive, Ctl!Goto, Ctl!IdleBus, Ctl!Read, Ctl!Write,
           Driven, Owed, Pausing, QuietWhenPaused, Rtc!RTCINTR
  <2> QED
    BY <2>1, <2>2, <2>3, <2>4
<1>17. CASE Ctl!PulseTrig
  <2>1. Ctl!TypeOK'
    <3>1. /\ state' \in Ctl!States /\ fsm_bus' \in Ctl!Bus
          /\ alarm_target' \in Ctl!Time /\ ctrl_time_value' \in Ctl!Time
          /\ rtc_enabled' \in BOOLEAN /\ rtc_trig' \in BOOLEAN
      BY <1>1, <1>6, <1>17, BusTyped, TimeFacts
         DEF Ctl!PulseTrig, Ctl!Quiet, Ctl!Drive, Ctl!Goto, Ctl!TypeOK, Ctl!States, Ctl!Regs
    <3> QED
      BY <1>5, <3>1 DEF Ctl!TypeOK
  <2>2. Driven' /\ Enabled'
    BY <1>1, <1>2, <1>17
       DEF Ctl!PulseTrig, Ctl!Quiet, Ctl!Drive, Ctl!Goto, Ctl!IdleBus, Ctl!Read, Ctl!Write,
           Driven, Enabled, EnableWrite, UnmaskWrite
  <2>3. Armed'
    BY <1>1, <1>2, <1>17
       DEF Ctl!PulseTrig, Ctl!Quiet, Ctl!Drive, Ctl!Goto, Ctl!IdleBus, Ctl!Read, Ctl!Write,
           Driven, Armed, EnableWrite, UnmaskWrite, Rtc!WriteReg
  <2>4. Owed' /\ Pausing'
    BY <1>1, <1>2, <1>3, <1>4, <1>17
       DEF Ctl!PulseTrig, Ctl!Quiet, Ctl!Drive, Ctl!Goto, Ctl!IdleBus, Ctl!Read, Ctl!Write,
           Driven, Owed, Pausing, QuietWhenPaused, Rtc!RTCINTR
  <2> QED
    BY <2>1, <2>2, <2>3, <2>4
<1> QED
  BY <1>7, <1>8, <1>9, <1>10, <1>11, <1>12, <1>13, <1>14, <1>15, <1>16, <1>17 DEF PosEdge, Ctl!Clk

LEMMA PosEdgeInv == Inv /\ PosEdge => Inv'
<1> SUFFICES ASSUME Inv, PosEdge PROVE Inv'
  OBVIOUS
<1>1. TypeOK'
  BY RestTyped, FsmClk DEF TypeOK
<1> QED
  BY <1>1, RestTyped, FsmClk DEF Inv

LEMMA StutterInv == Inv /\ UNCHANGED vars => Inv'
<1> SUFFICES ASSUME Inv, UNCHANGED vars PROVE Inv'
  OBVIOUS
<1>1. TypeOK'
  BY DEF vars, ctlVars, rtcVars, regVars, apbVars, histVars, Inv, TypeOK, Ctl!TypeOK, Rtc!TypeOK
<1> QED
  BY <1>1 DEF vars, ctlVars, rtcVars, regVars, apbVars, histVars, Inv, PeriodWritten, Driven,
     Enabled, Armed, Owed, Pausing, QuietWhenPaused

\* The inductive invariant holds: at every state of rtc_control_2 the writes of
\* the re-arm that should have reached the PL031 are in it or on the bus.
THEOREM InvHolds == Spec => []Inv
<1>1. Inv /\ [Next]_vars => Inv'
  BY PosEdgeInv, TickInv, ResetInv, StutterInv DEF Next
<1> QED
  BY InitInv, <1>1, PTL DEF Spec

-------------------------------------------------------------------------------
(* The properties.                                                         *)

\* Every register of the timing path keeps to its range (rtc_control_2, the
\* PL031's time and match, the registers and the master's transfer).
THEOREM PathTypeOK == Spec => []TypeOK
<1>1. Inv => TypeOK
  BY DEF Inv
<1> QED
  BY <1>1, InvHolds, PTL

\* A parked FSM has its alarm in the PL031: the writes of S_ENABLE, S_MATCH and
\* S_IMSC arrive although they are on the bus a cycle late and the bus is shared.
THEOREM PathAlarmArmed == Spec => []AlarmArmed
<1>1. Inv => AlarmArmed
  <2> SUFFICES ASSUME Inv, Parked PROVE running /\ imsc /\ match = alarm_target
    BY DEF AlarmArmed
  <2>1. state = "S_WAITING" /\ fsm_bus.phase = "idle"
    BY DEF Parked
  <2>2. fsm_bus # UnmaskWrite
    BY <2>1 DEF UnmaskWrite, Ctl!Write
  <2> QED
    BY <2>1, <2>2 DEF Inv, Enabled, Armed
<1> QED
  BY <1>1, InvHolds, PTL

\* A pulse to the sampling FSM answers an alarm that no pulse has answered yet
\* (S_ICR and S_PULSE_TRIG).
THEOREM PathTriggerAnswersAlarm == Spec => []TriggerAnswersAlarm
<1>1. Inv => TriggerAnswersAlarm
  BY DEF Inv, Owed, TriggerAnswersAlarm
<1> QED
  BY <1>1, InvHolds, PTL

\* Three cycles after the polling is disabled the pulses have stopped
\* (S_WAITING checks poll_enable once, three states before the pulse).
THEOREM PathQuietWhenPaused == Spec => []QuietWhenPaused
<1>1. Inv => QuietWhenPaused
  BY DEF Inv, Pausing
<1> QED
  BY <1>1, InvHolds, PTL

\* The driver is one of RtcPath's masters: whatever its calls do, the four
\* results hold of it.
THEOREM DriverIsMaster == DSpec => Spec
<1>1. DInit => Init
  BY DEF DInit
<1>2. [DNext]_allVars => [Next]_vars
  <2> SUFFICES ASSUME [DNext]_allVars PROVE [Next]_vars
    OBVIOUS
  <2>1. CASE DPosEdge
    BY <2>1 DEF DPosEdge, Next
  <2>2. CASE DTick
    BY <2>2 DEF DTick, Next
  <2>3. CASE DReset
    BY <2>3 DEF DReset, Next
  <2>4. CASE UNCHANGED allVars
    BY <2>4 DEF allVars
  <2> QED
    BY <2>1, <2>2, <2>3, <2>4 DEF DNext
<1> QED
  BY <1>1, <1>2, PTL DEF DSpec, Spec

-----------------------------------------------------------------------------
(* The times: how long an alarm waits for its service, and a transfer for *)
(* the bus, and which alarms are still to come.                            *)

\* The master's accesses that pass through rtc_control_2.
RtcAccess == access \in {"rtc_dr_rd", "rtc_lr_wr"}

\* The bus of the master: idle but for the transfers of the RTC region.
LEMMA ExtPhase ==
  ASSUME TypeOK
  PROVE  /\ RtcAccess => ext.phase = phase
         /\ ~RtcAccess => ext.phase = "idle"
         /\ RtcAccess \/ phase # "access" => (PREADY <=> (phase = "access" => Ctl!PREADY(ext)))
         /\ ~RtcAccess => PREADY
<1>1. /\ RtcAccess => ext.phase = phase
      /\ ~RtcAccess => ext.phase = "idle"
  BY DEF RtcAccess, ext, Ctl!Read, Ctl!Write, Ctl!IdleBus
<1> QED
  BY <1>1 DEF RtcAccess, PREADY, Ctl!PREADY

\* A parked FSM services its alarm or stays.
LEMMA WaitingStep ==
  ASSUME PosEdge, state = "S_WAITING"
  PROVE  /\ fsm_bus' = Ctl!IdleBus
         /\ state' = IF Rtc!RTCINTR /\ ~Ctl!grant(ext) /\ poll_enable_reg
                     THEN "S_ICR_SETUP" ELSE "S_WAITING"
BY DEF PosEdge, Ctl!Clk, Ctl!Idle, Ctl!EnableSetup, Ctl!EnableAccess, Ctl!ReadTime,
       Ctl!Capture, Ctl!Calc, Ctl!WriteMatch, Ctl!Unmask, Ctl!Waiting, Ctl!ClearInterrupt,
       Ctl!PulseTrig, Ctl!Quiet, Ctl!Drive, Ctl!Goto

-------------------------------------------------------------------------------
(* A pending alarm waits for one transfer, its SETUP and its ACCESS, and    *)
(* gets in when the bus goes idle behind it.                                *)

Deferring ==
  /\ deferred <= 3
  /\ deferred > 0 /\ state = "S_WAITING" =>
       /\ fsm_bus.phase = "idle"
       /\ \/ phase = "idle" /\ deferred <= 2
          \/ phase = "access" /\ RtcAccess /\ pt_setup_done /\ deferred <= 1

LEMMA DeferringClk ==
  ASSUME Inv, Deferring, PosEdge
  PROVE  Deferring'
<1>1. CASE Parked /\ Rtc!RTCINTR /\ poll_enable_reg
  <2>1. deferred' = UpTo(deferred, DeferredMax) /\ deferred \in Nat
    BY <1>1 DEF PosEdge, HistClk, Inv, TypeOK, DeferredMax
  <2>2. CASE ~Ctl!grant(ext)
    <3>1. state' = "S_ICR_SETUP"
      BY <1>1, <2>2, WaitingStep DEF Parked
    <3>2. deferred <= 2
      BY <1>1, <2>1 DEF Deferring, Parked
    <3> QED
      BY <2>1, <3>1, <3>2 DEF Deferring, UpTo, DeferredMax
  <2>3. CASE Ctl!grant(ext)
    <3>1. RtcAccess /\ ext.phase = phase /\ phase \in {"setup", "access"}
      BY <2>3, ExtPhase DEF Ctl!grant, Inv, TypeOK
    <3>2. fsm_bus'.phase = "idle"
      BY <1>1, WaitingStep DEF Parked, Ctl!IdleBus
    <3>3. CASE phase = "access" /\ pt_setup_done
      <4>1. PREADY
        BY <2>3, <3>1, <3>3, ExtPhase DEF Ctl!PREADY, Ctl!ext_done, Ctl!ext_access, Inv
      <4>2. phase' = "idle"
        BY <3>3, <4>1 DEF PosEdge, Master
      <4>3. deferred <= 1
        BY <1>1, <2>1, <3>3 DEF Deferring, Parked
      <4> QED
        BY <2>1, <3>2, <4>2, <4>3 DEF Deferring, UpTo, DeferredMax
    <3>4. CASE ~(phase = "access" /\ pt_setup_done)
      <4>1. ~Ctl!ext_done(ext) /\ ext.phase # "idle"
        BY <3>1, <3>4 DEF Ctl!ext_done, Ctl!ext_access
      <4>2. pt_setup_done'
        BY <2>3, <4>1 DEF PosEdge, Ctl!Clk, Ctl!Passthrough
      <4>3. phase' = "access" /\ access' = access
        <5>1. CASE phase = "setup"
          BY <5>1 DEF PosEdge, Master
        <5>2. CASE phase = "access"
          <6>1. ~PREADY
            BY <3>1, <4>1, <5>2, ExtPhase DEF Ctl!PREADY, Inv
          <6> QED
            BY <5>2, <6>1 DEF PosEdge, Master, apbVars
        <5> QED
          BY <3>1, <5>1, <5>2
      <4>4. deferred = 0
        BY <1>1, <2>1, <3>1, <3>4 DEF Deferring, Parked
      <4> QED
        BY <2>1, <3>1, <3>2, <4>2, <4>3, <4>4 DEF Deferring, RtcAccess, UpTo, DeferredMax
    <3> QED
      BY <3>3, <3>4
  <2> QED
    BY <2>2, <2>3
<1>2. CASE ~(Parked /\ Rtc!RTCINTR /\ poll_enable_reg)
  BY <1>2 DEF PosEdge, HistClk, Deferring
<1> QED
  BY <1>1, <1>2

LEMMA DeferringNext == Inv /\ Deferring /\ [Next]_vars => Deferring'
<1> SUFFICES ASSUME Inv, Deferring, [Next]_vars PROVE Deferring'
  OBVIOUS
<1>1. CASE PosEdge
  BY <1>1, DeferringClk
<1>2. CASE Tick
  BY <1>2 DEF Tick, Ctl!Tick, Ctl!fsmVars, apbVars, Deferring, RtcAccess
<1>3. CASE Reset \/ PowerOn
  BY <1>3 DEF Reset, PowerOn, BusReset, Deferring
<1>4. CASE UNCHANGED vars
  BY <1>4 DEF vars, ctlVars, apbVars, histVars, Deferring, RtcAccess
<1> QED
  BY <1>1, <1>2, <1>3, <1>4 DEF Next

\* An alarm that is pending while the FSM is parked is serviced within three
\* cycles, whatever the master does: grant needs a transfer on the bus, and the
\* master leaves the bus idle for a cycle behind each one.
THEOREM PathAlarmServedSoon == Spec => []AlarmServedSoon
<1>1. Init => Deferring
  BY DEF Init, Deferring
<1>2. Deferring => AlarmServedSoon
  BY DEF Deferring, AlarmServedSoon
<1> QED
  BY <1>1, <1>2, DeferringNext, InvHolds, PTL DEF Spec

-------------------------------------------------------------------------------
(* A transfer is held while the FSM has the bus: through the rest of one    *)
(* re-arm, in whose S_IDLE it gets its SETUP, and through the next one.     *)

\* A transfer of the RTC region is in its ACCESS phase.
InAccess == phase = "access" /\ RtcAccess

\* The mask stays clear until the FSM has enabled the counter.
Masked ==
  /\ ~rtc_enabled => ~imsc /\ state \in {"S_IDLE", "S_ENABLE_SETUP", "S_ENABLE_ACCESS"}
  /\ state \in {"S_ENABLE_SETUP", "S_ENABLE_ACCESS"} => ~rtc_enabled

\* The cycles a transfer has been held when it has had its SETUP, and when it
\* has not; two more in the re-arm behind a reset, which no other follows at once.
Held(done, not_done) == stalled <= IF pt_setup_done THEN done ELSE not_done
HeldInRearm(done, not_done) ==
  IF imsc THEN Held(done, not_done) ELSE Held(done + 2, not_done + 2)

HeldAt ==
  /\ state = "S_ICR_SETUP"     => Held(21, 8)
  /\ state = "S_ICR_ACCESS"    => Held(22, 9)
  /\ state = "S_PULSE_TRIG"    => Held(23, 10)
  /\ state = "S_IDLE"          => Held(24, 11)
  /\ state = "S_ENABLE_SETUP"  => pt_setup_done /\ stalled <= 12
  /\ state = "S_ENABLE_ACCESS" => Held(13, 0)
  /\ state = "S_READ_SETUP"    => IF imsc THEN pt_setup_done /\ stalled <= 12 ELSE Held(14, 1)
  /\ state = "S_READ_ACCESS"   => HeldInRearm(13, 0)
  /\ state = "S_READ_CAPTURE"  => HeldInRearm(14, 1)
  /\ state = "S_CALC"          => HeldInRearm(15, 2)
  /\ state = "S_MATCH_SETUP"   => HeldInRearm(16, 3)
  /\ state = "S_MATCH_ACCESS"  => HeldInRearm(17, 4)
  /\ state = "S_IMSC_SETUP"    => HeldInRearm(18, 5)
  /\ state = "S_IMSC_ACCESS"   => HeldInRearm(19, 6)
  /\ state = "S_WAITING"       => IF fsm_bus.phase = "idle" THEN Held(23, 10)
                                                            ELSE HeldInRearm(20, 7)

Stalling ==
  /\ Masked
  /\ IF InAccess THEN HeldAt ELSE stalled = 0 /\ ~pt_setup_done

\* One cycle of the transfer.
LEMMA TransferStep ==
  ASSUME Inv, Stalling, PosEdge
  PROVE  /\ InAccess' => \/ /\ phase = "setup" /\ RtcAccess
                            /\ stalled' = 0
                            /\ pt_setup_done' <=> Ctl!bus_free
                         \/ /\ InAccess
                            /\ stalled' <= stalled + 1
                            /\ pt_setup_done' <=> (pt_setup_done \/ Ctl!bus_free)
                            /\ ~(pt_setup_done /\ Ctl!bus_free)
         /\ ~InAccess' => stalled' = 0 /\ ~pt_setup_done'
<1>0. /\ stalled \in Nat /\ pt_setup_done \in BOOLEAN /\ TypeOK
      /\ phase \in {"idle", "setup", "access"}
  BY DEF Inv, TypeOK, Ctl!TypeOK, StalledMax
<1>1. Ctl!Passthrough(ext) /\ Master
      /\ stalled' = IF phase = "access" /\ ~PREADY THEN UpTo(stalled, StalledMax) ELSE 0
  BY DEF PosEdge, Ctl!Clk, HistClk
<1>2. CASE InAccess
  <2>1. ext.phase = "access" /\ RtcAccess /\ phase = "access"
    BY <1>0, <1>2, ExtPhase DEF InAccess
  <2>2. Ctl!grant(ext) <=> Ctl!bus_free
    BY <2>1 DEF Ctl!grant
  <2>3. PREADY <=> Ctl!bus_free /\ pt_setup_done
    BY <1>0, <2>1, <2>2, ExtPhase DEF Ctl!PREADY, Ctl!ext_done, Ctl!ext_access
  <2>4. CASE PREADY
    <3>1. phase' = "idle" /\ stalled' = 0
      BY <1>1, <2>1, <2>4 DEF Master
    <3>2. ~pt_setup_done'
      BY <1>1, <2>1, <2>2, <2>3, <2>4 DEF Ctl!Passthrough, Ctl!ext_done, Ctl!ext_access
    <3> QED
      BY <3>1, <3>2 DEF InAccess
  <2>5. CASE ~PREADY
    <3>1. /\ phase' = phase /\ access' = access
          /\ stalled' <= stalled + 1
      BY <1>0, <1>1, <2>1, <2>5 DEF Master, apbVars, UpTo, StalledMax
    <3>2. pt_setup_done' <=> (pt_setup_done \/ Ctl!bus_free)
      BY <1>0, <1>1, <2>1, <2>2, <2>3, <2>5 DEF Ctl!Passthrough, Ctl!ext_done, Ctl!ext_access
    <3> QED
      BY <1>2, <2>3, <2>5, <3>1, <3>2 DEF InAccess, RtcAccess
  <2> QED
    BY <2>4, <2>5
<1>3. CASE ~InAccess
  <2>1. ~pt_setup_done
    BY <1>3 DEF Stalling
  <2>2. stalled' = 0
    BY <1>0, <1>1, <1>3, ExtPhase DEF InAccess
  <2>3. CASE phase = "setup" /\ RtcAccess
    <3>1. ext.phase = "setup" /\ ~Ctl!ext_done(ext) /\ (Ctl!grant(ext) <=> Ctl!bus_free)
      BY <1>0, <2>3, ExtPhase DEF Ctl!grant, Ctl!ext_done, Ctl!ext_access
    <3>2. pt_setup_done' <=> Ctl!bus_free
      BY <1>1, <2>1, <3>1 DEF Ctl!Passthrough
    <3>3. InAccess'
      BY <1>1, <2>3 DEF Master, InAccess, RtcAccess
    <3> QED
      BY <2>2, <2>3, <3>2, <3>3
  <2>4. CASE ~(phase = "setup" /\ RtcAccess)
    <3>1. ext.phase = "idle"
      BY <1>0, <1>3, <2>4, ExtPhase DEF InAccess
    <3>2. ~pt_setup_done'
      BY <1>1, <3>1 DEF Ctl!Passthrough, Ctl!grant
    <3>3. ~InAccess'
      BY <1>0, <1>1, <1>3, <2>4 DEF Master, apbVars, InAccess, RtcAccess
    <3> QED
      BY <2>2, <3>2, <3>3
  <2> QED
    BY <2>3, <2>4
<1> QED
  BY <1>2, <1>3

\* One cycle of the FSM: S_IDLE and the parked FSM leave the bus to a transfer,
\* and the mask is set by the last write of the re-arm only.
After(from, to) == state = from => ~Ctl!bus_free /\ imsc' = imsc /\ state' = to

LEMMA FsmMoves ==
  ASSUME Inv, Masked, PosEdge
  PROVE  /\ Masked'
         /\ state = "S_IDLE" => /\ Ctl!bus_free /\ imsc' = imsc
                               /\ state' \in {"S_IDLE", "S_ENABLE_SETUP", "S_READ_SETUP"}
         /\ state = "S_IDLE" /\ Ctl!nRTCRST =>
              state' = IF rtc_enabled THEN "S_READ_SETUP" ELSE "S_ENABLE_SETUP"
         /\ After("S_ENABLE_SETUP", "S_ENABLE_ACCESS")
         /\ After("S_ENABLE_ACCESS", "S_READ_SETUP")
         /\ After("S_READ_SETUP", "S_READ_ACCESS")
         /\ After("S_READ_ACCESS", "S_READ_CAPTURE")
         /\ After("S_READ_CAPTURE", "S_CALC")
         /\ After("S_CALC", "S_MATCH_SETUP")
         /\ After("S_MATCH_SETUP", "S_MATCH_ACCESS")
         /\ After("S_MATCH_ACCESS", "S_IMSC_SETUP")
         /\ After("S_IMSC_SETUP", "S_IMSC_ACCESS")
         /\ After("S_IMSC_ACCESS", "S_WAITING")
         /\ state = "S_IMSC_ACCESS" => fsm_bus' = UnmaskWrite
         /\ After("S_ICR_SETUP", "S_ICR_ACCESS")
         /\ After("S_ICR_ACCESS", "S_PULSE_TRIG")
         /\ After("S_PULSE_TRIG", "S_IDLE")
<1>1. /\ Driven
      /\ imsc' = IF Rtc!WriteReg(fsm_bus, "RTCIMSC") THEN fsm_bus.data # 0 ELSE imsc
  BY RtcClk DEF Inv, PosEdge
<1>2. state # "S_WAITING" => imsc' = imsc
  <2>1. state \in Ctl!States
    BY DEF Inv, TypeOK, Ctl!TypeOK
  <2>2. state # "S_WAITING" => fsm_bus.phase # "access" \/ fsm_bus.reg # "RTCIMSC"
    <3>1. /\ Ctl!IdleBus.phase = "idle"
          /\ Ctl!Read("setup", "RTCDR").phase = "setup"
          /\ Ctl!Read("access", "RTCDR").reg = "RTCDR"
          /\ \A r, d : /\ Ctl!Write("setup", r, d).phase = "setup"
                       /\ Ctl!Write("access", r, d).reg = r
      BY DEF Ctl!IdleBus, Ctl!Read, Ctl!Write
    <3> QED
      BY <1>1, <2>1, <3>1 DEF Driven, Ctl!States, EnableWrite
  <2> QED
    BY <1>1, <2>2 DEF Rtc!WriteReg
<1>3. /\ state = "S_IDLE" => Ctl!bus_free
      /\ state \notin {"S_IDLE", "S_WAITING"} => ~Ctl!bus_free
  BY <1>1 DEF Driven, Ctl!bus_free, Ctl!IdleBus
<1>4. /\ state = "S_IDLE" =>
            /\ rtc_enabled' = rtc_enabled
            /\ state' \in {"S_IDLE", IF rtc_enabled THEN "S_READ_SETUP" ELSE "S_ENABLE_SETUP"}
            /\ Ctl!nRTCRST => state' # "S_IDLE"
      /\ state = "S_ENABLE_SETUP" => state' = "S_ENABLE_ACCESS" /\ rtc_enabled' = rtc_enabled
      /\ state = "S_ENABLE_ACCESS" => state' = "S_READ_SETUP" /\ rtc_enabled'
      /\ state \notin {"S_IDLE", "S_ENABLE_SETUP", "S_ENABLE_ACCESS"} =>
            rtc_enabled' = rtc_enabled /\ state' \notin {"S_ENABLE_SETUP", "S_ENABLE_ACCESS"}
      /\ state = "S_READ_SETUP"   => state' = "S_READ_ACCESS"
      /\ state = "S_READ_ACCESS"  => state' = "S_READ_CAPTURE"
      /\ state = "S_READ_CAPTURE" => state' = "S_CALC"
      /\ state = "S_CALC"         => state' = "S_MATCH_SETUP"
      /\ state = "S_MATCH_SETUP"  => state' = "S_MATCH_ACCESS"
      /\ state = "S_MATCH_ACCESS" => state' = "S_IMSC_SETUP"
      /\ state = "S_IMSC_SETUP"   => state' = "S_IMSC_ACCESS"
      /\ state = "S_IMSC_ACCESS"  => state' = "S_WAITING" /\ fsm_bus' = UnmaskWrite
      /\ state = "S_ICR_SETUP"    => state' = "S_ICR_ACCESS"
      /\ state = "S_ICR_ACCESS"   => state' = "S_PULSE_TRIG"
      /\ state = "S_PULSE_TRIG"   => state' = "S_IDLE"
  BY DEF PosEdge, Ctl!Clk, Ctl!Idle, Ctl!EnableSetup, Ctl!EnableAccess, Ctl!ReadTime,
         Ctl!Capture, Ctl!Calc, Ctl!WriteMatch, Ctl!Unmask, Ctl!Waiting, Ctl!ClearInterrupt,
         Ctl!PulseTrig, Ctl!Quiet, Ctl!Drive, Ctl!Goto, UnmaskWrite
<1>5. rtc_enabled \in BOOLEAN /\ imsc \in BOOLEAN
  BY DEF Inv, TypeOK, Ctl!TypeOK, Rtc!TypeOK
<1>6. Masked'
  BY <1>2, <1>4, <1>5 DEF Masked
<1> QED
  BY <1>2, <1>3, <1>4, <1>6 DEF After

LEMMA StallingClk ==
  ASSUME Inv, Stalling, PosEdge
  PROVE  Stalling'
<1>1. /\ Masked /\ Masked' /\ state \in Ctl!States
      /\ stalled \in Nat /\ stalled' \in Nat
      /\ pt_setup_done \in BOOLEAN /\ imsc \in BOOLEAN
  BY FsmMoves, RestTyped DEF Stalling, Inv, TypeOK, Ctl!TypeOK, Rtc!TypeOK, StalledMax
<1>2. SUFFICES ASSUME InAccess' PROVE HeldAt'
  BY <1>1, TransferStep DEF Stalling
<1>3. /\ phase = "setup" => RtcAccess /\ stalled' = 0 /\ (pt_setup_done' <=> Ctl!bus_free)
      /\ phase # "setup" => /\ HeldAt /\ phase = "access" /\ RtcAccess
                            /\ stalled' <= stalled + 1
                            /\ pt_setup_done' <=> (pt_setup_done \/ Ctl!bus_free)
                            /\ ~(pt_setup_done /\ Ctl!bus_free)
  BY <1>2, TransferStep DEF Stalling, InAccess
<1>4. CASE state = "S_IDLE"
  <2>1. /\ Ctl!bus_free /\ state' \in {"S_IDLE", "S_ENABLE_SETUP", "S_READ_SETUP"}
    BY <1>1, <1>4, FsmMoves
  <2>2. pt_setup_done' /\ stalled' <= 12
    BY <1>1, <1>3, <1>4, <2>1 DEF HeldAt, Held
  <2> QED
    BY <1>1, <2>1, <2>2 DEF HeldAt, Held
<1>5. CASE state = "S_WAITING" /\ Ctl!bus_free
  <2>1. Ctl!grant(ext)
    BY <1>3, <1>5, ExtPhase DEF Ctl!grant, Inv
  <2>2. state' = "S_WAITING" /\ fsm_bus'.phase = "idle"
    BY <1>5, <2>1, WaitingStep DEF Ctl!IdleBus
  <2>3. pt_setup_done' /\ stalled' <= 11
    BY <1>1, <1>3, <1>5 DEF HeldAt, Held, Ctl!bus_free
  <2> QED
    BY <1>1, <2>2, <2>3 DEF HeldAt, Held
<1>6. CASE state = "S_WAITING" /\ ~Ctl!bus_free
  <2>1. /\ fsm_bus'.phase = "idle" /\ state' \in {"S_ICR_SETUP", "S_WAITING"}
        /\ state' = "S_ICR_SETUP" => imsc
    BY <1>6, WaitingStep DEF Rtc!RTCINTR, Ctl!IdleBus
  <2> QED
    BY <1>1, <1>3, <1>6, <2>1 DEF HeldAt, Held, HeldInRearm, Ctl!bus_free
<1>7. CASE state \notin {"S_IDLE", "S_WAITING"}
  <2>1. ~Ctl!bus_free /\ imsc' = imsc
    BY <1>1, <1>7, FsmMoves DEF After, Ctl!States
  <2>2. CASE state \in {"S_ENABLE_SETUP", "S_ENABLE_ACCESS"}
    <3>1. ~imsc
      BY <1>1, <2>2 DEF Masked
    <3> QED
      BY <1>1, <1>3, <2>1, <2>2, <3>1, FsmMoves DEF After, HeldAt, Held
  <2>3. CASE state \in {"S_READ_SETUP", "S_READ_ACCESS", "S_READ_CAPTURE", "S_CALC"}
    BY <1>1, <1>3, <2>1, <2>3, FsmMoves DEF After, HeldAt, Held, HeldInRearm
  <2>4. CASE state \in {"S_MATCH_SETUP", "S_MATCH_ACCESS", "S_IMSC_SETUP"}
    BY <1>1, <1>3, <2>1, <2>4, FsmMoves DEF After, HeldAt, Held, HeldInRearm
  <2>5. CASE state = "S_IMSC_ACCESS"
    <3>1. state' = "S_WAITING" /\ fsm_bus'.phase = "access"
      BY <1>1, <2>5, FsmMoves DEF After, UnmaskWrite, Ctl!Write
    <3> QED
      BY <1>1, <1>3, <2>1, <2>5, <3>1 DEF HeldAt, Held, HeldInRearm
  <2>6. CASE state \in {"S_ICR_SETUP", "S_ICR_ACCESS", "S_PULSE_TRIG"}
    BY <1>1, <1>3, <2>1, <2>6, FsmMoves DEF After, HeldAt, Held
  <2> QED
    BY <1>1, <1>7, <2>2, <2>3, <2>4, <2>5, <2>6 DEF Ctl!States
<1> QED
  BY <1>4, <1>5, <1>6, <1>7

LEMMA StallingNext == Inv /\ Stalling /\ [Next]_vars => Stalling'
<1> SUFFICES ASSUME Inv, Stalling, [Next]_vars PROVE Stalling'
  OBVIOUS
<1>1. CASE PosEdge
  BY <1>1, StallingClk
<1>2. CASE Tick
  BY <1>2 DEF Tick, Ctl!Tick, Ctl!fsmVars, Rtc!Tick, apbVars, Stalling, Masked, InAccess,
     RtcAccess, HeldAt, Held, HeldInRearm
<1>3. CASE Reset \/ PowerOn
  <2>1. Ctl!ClearRegs /\ BusReset /\ ~imsc'
    BY <1>3 DEF Reset, PowerOn, Ctl!Reset, Ctl!PowerOn, Rtc!Reset, Rtc!PowerOn
  <2> QED
    BY <2>1 DEF Ctl!ClearRegs, BusReset, Stalling, Masked, InAccess
<1>4. CASE UNCHANGED vars
  BY <1>4 DEF vars, ctlVars, rtcVars, apbVars, histVars, Stalling, Masked, InAccess,
     RtcAccess, HeldAt, Held, HeldInRearm
<1> QED
  BY <1>1, <1>2, <1>3, <1>4 DEF Next

\* No transfer of the RTC region is held longer than two re-arms, whatever the
\* alarms do: S_IDLE grants the bus for a cycle, and what has had its SETUP there
\* completes in the next S_IDLE at the latest.
THEOREM PathStallBounded == Spec => []StallBounded
<1>1. Init => Stalling
  BY DEF Init, Ctl!Init, Rtc!Init, Stalling, Masked, InAccess
<1>2. Inv /\ Stalling => StallBounded
  <2> SUFFICES ASSUME Inv, Stalling PROVE stalled <= 24
    BY DEF StallBounded
  <2>1. state \in Ctl!States /\ stalled \in Nat /\ imsc \in BOOLEAN
    BY DEF Inv, TypeOK, Ctl!TypeOK, Rtc!TypeOK, StalledMax
  <2> QED
    BY <2>1 DEF Stalling, HeldAt, Held, HeldInRearm, Ctl!States
<1> QED
  BY <1>1, <1>2, StallingNext, InvHolds, PTL DEF Spec

-------------------------------------------------------------------------------
(* The alarm is ahead of the counter: at most one edge of CLK1HZ falls      *)
(* between the read of the time and the write of the match, and of an       *)
(* offset of two or more it leaves something to come.                       *)

SlowCLK1HZ == TickMin >= 4

\* The alarm is n seconds after the counter, or after the time read last.
Ahead(n) == counter + n \in {alarm_target, alarm_target + TimeMod}
From(n)  == ctrl_time_value + n \in {alarm_target, alarm_target + TimeMod}

\* An offset away from the time, or one second less when CLK1HZ has risen within
\* the cycles since the capture.
ComingSince(cycles) ==
  \E offset \in Offsets :
    /\ From(offset)
    /\ \/ Ahead(offset)
       \/ crossed /\ since_tick <= cycles /\ Ahead(offset - 1)

\* The alarm is armed; it was one second away and that second is over, or it is
\* still to come.
ArmedFor(offset) ==
  /\ From(offset)
  /\ \/ crossed /\ offset = 1
     \/ \E n \in 1 .. offset : Ahead(n)

Coming ==
  ~loaded =>
  /\ state = "S_CALC" =>
       \/ counter = ctrl_time_value
       \/ /\ crossed /\ since_tick = 0
          /\ ctrl_time_value + 1 \in {counter, counter + TimeMod}
  /\ state = "S_MATCH_SETUP"  => ComingSince(1)
  /\ state = "S_MATCH_ACCESS" => ComingSince(2)
  /\ state = "S_IMSC_SETUP"   => ComingSince(3)
  /\ state \in {"S_IMSC_ACCESS", "S_WAITING"} =>
       ris \/ \E offset \in Offsets : ArmedFor(offset)

\* Sums of two times, modulo the width of the counter.
LEMMA ModOnce ==
  ASSUME NEW n \in Nat, n < 2 * TimeMod
  PROVE  n % TimeMod = IF n < TimeMod THEN n ELSE n - TimeMod
<1>1. TimeMod \in Nat /\ TimeMod > 1
  BY TimeFacts
<1>2. CASE n < TimeMod
  BY <1>1, <1>2
<1>3. CASE n >= TimeMod
  <2>1. n = TimeMod + (n - TimeMod) /\ n - TimeMod \in 0 .. TimeMod - 1
    BY <1>1, <1>3
  <2>2. n % TimeMod = (n - TimeMod) % TimeMod
    BY <1>1, <1>3
  <2> QED
    BY <1>1, <1>3, <2>1, <2>2
<1> QED
  BY <1>1, <1>2, <1>3

LEMMA ComingClk ==
  ASSUME Inv, Coming, Masked, PosEdge
  PROVE  Coming'
<1> SUFFICES ASSUME ~loaded' PROVE Coming'
  BY DEF Coming
<1>1. /\ ~Rtc!WriteReg(bus, "RTCLR") /\ (~loaded \/ state = "S_READ_CAPTURE")
      /\ counter' = counter
      /\ state # "S_READ_CAPTURE" => (crossed' <=> crossed)
  BY DEF PosEdge, HistClk, Rtc!Clk
<1>2. /\ since_tick \in Nat /\ since_tick' \in Nat /\ since_tick' <= since_tick + 1
      /\ Driven /\ state \in Ctl!States /\ alarm_offset_reg \in Offsets
      /\ counter \in Ctl!Time /\ ctrl_time_value \in Ctl!Time
      /\ ris \in BOOLEAN /\ loaded \in BOOLEAN /\ crossed \in BOOLEAN
      /\ TimeMod \in Nat /\ TimeMod > 1 /\ Offsets \subseteq 1 .. TimeMod - 1
  BY TimeFacts, PathAssumption DEF Inv, TypeOK, Ctl!TypeOK, Rtc!TypeOK, PosEdge, UpTo
<1>3. /\ state \notin {"S_READ_CAPTURE"} => ctrl_time_value' = ctrl_time_value
      /\ state # "S_CALC" => alarm_target' = alarm_target
      /\ state = "S_READ_CAPTURE" => ctrl_time_value' = Rtc!Prdata(bus)
      /\ state = "S_CALC" => alarm_target' = (ctrl_time_value + alarm_offset_reg) % TimeMod
  BY DEF PosEdge, Ctl!Clk, Ctl!Idle, Ctl!EnableSetup, Ctl!EnableAccess, Ctl!ReadTime,
         Ctl!Capture, Ctl!Calc, Ctl!WriteMatch, Ctl!Unmask, Ctl!Waiting, Ctl!ClearInterrupt,
         Ctl!PulseTrig, Ctl!Quiet, Ctl!Drive, Ctl!Goto
<1>4. CASE state = "S_READ_CAPTURE"
  <2>1. fsm_bus.phase = "access" /\ ~fsm_bus.write /\ fsm_bus.reg = "RTCDR"
    BY <1>2, <1>4 DEF Driven, Ctl!Read, Ctl!IdleBus
  <2>2. bus = fsm_bus
    BY <2>1, OnlyTheFsmWrites
  <2>3. ctrl_time_value' = counter
    BY <1>3, <1>4, <2>1, <2>2, Zenon DEF Rtc!Prdata
  <2>4. state' = "S_CALC"
    BY <1>4, FsmMoves DEF After
  <2> QED
    BY <1>1, <2>3, <2>4 DEF Coming
<1>5. CASE state = "S_CALC"
  <2>1. state' = "S_MATCH_SETUP"
    BY <1>5, FsmMoves DEF After
  <2>2. \/ counter = ctrl_time_value
        \/ /\ crossed /\ since_tick = 0
           /\ ctrl_time_value + 1 \in {counter, counter + TimeMod}
    BY <1>1, <1>5 DEF Coming
  <2>3. /\ ctrl_time_value + alarm_offset_reg \in Nat
        /\ alarm_offset_reg \in 1 .. TimeMod - 1
        /\ alarm_target' = IF ctrl_time_value + alarm_offset_reg < TimeMod
                           THEN ctrl_time_value + alarm_offset_reg
                           ELSE ctrl_time_value + alarm_offset_reg - TimeMod
    BY <1>2, <1>3, <1>5, ModOnce DEF Ctl!Time
  <2>4. ComingSince(1)'
    <3>1. ctrl_time_value' + alarm_offset_reg \in {alarm_target', alarm_target' + TimeMod}
      BY <1>2, <1>3, <1>5, <2>3 DEF Ctl!Time
    <3>2. CASE counter = ctrl_time_value
      <4>1. counter + alarm_offset_reg \in {alarm_target', alarm_target' + TimeMod}
        BY <1>2, <2>3, <3>2 DEF Ctl!Time
      <4> QED
        BY <1>1, <1>2, <3>1, <4>1 DEF ComingSince, Ahead, From
    <3>3. CASE crossed /\ since_tick = 0 /\ ctrl_time_value + 1 \in {counter, counter + TimeMod}
      <4>1. counter + (alarm_offset_reg - 1) \in {alarm_target', alarm_target' + TimeMod}
        BY <1>2, <2>3, <3>3 DEF Ctl!Time
      <4>2. since_tick' <= 1 /\ crossed'
        BY <1>1, <1>2, <1>5, <3>3
      <4> QED
        BY <1>1, <1>2, <3>1, <4>1, <4>2 DEF ComingSince, Ahead, From
    <3> QED
      BY <2>2, <3>2, <3>3
  <2> QED
    BY <2>1, <2>4 DEF Coming
<1>6. ASSUME state \in {"S_MATCH_SETUP", "S_MATCH_ACCESS"} PROVE Coming'
  <2>1. alarm_target' = alarm_target /\ ctrl_time_value' = ctrl_time_value
        /\ (crossed' <=> crossed)
    BY <1>1, <1>3, <1>6
  <2>2. CASE state = "S_MATCH_SETUP"
    <3>1. state' = "S_MATCH_ACCESS" /\ ComingSince(1)
      BY <1>1, <2>2, FsmMoves DEF After, Coming
    <3>2. ComingSince(2)'
      BY <1>1, <1>2, <2>1, <3>1 DEF ComingSince, Ahead, From
    <3> QED
      BY <3>1, <3>2 DEF Coming
  <2>3. CASE state = "S_MATCH_ACCESS"
    <3>1. state' = "S_IMSC_SETUP" /\ ComingSince(2)
      BY <1>1, <2>3, FsmMoves DEF After, Coming
    <3>2. ComingSince(3)'
      BY <1>1, <1>2, <2>1, <3>1 DEF ComingSince, Ahead, From
    <3> QED
      BY <3>1, <3>2 DEF Coming
  <2> QED
    BY <1>6, <2>2, <2>3
<1>7. CASE state = "S_IMSC_SETUP"
  <2>1. /\ state' = "S_IMSC_ACCESS" /\ ComingSince(3)
        /\ alarm_target' = alarm_target /\ ctrl_time_value' = ctrl_time_value
        /\ (crossed' <=> crossed)
    BY <1>1, <1>3, <1>7, FsmMoves DEF After, Coming
  <2>2. PICK offset \in Offsets :
          From(offset) /\ (Ahead(offset) \/ (crossed /\ Ahead(offset - 1)))
    BY <2>1 DEF ComingSince
  <2>3. offset \in 1 .. TimeMod - 1
    BY <1>2
  <2>4. ArmedFor(offset)
    <3>1. CASE Ahead(offset)
      BY <1>2, <2>2, <2>3, <3>1 DEF ArmedFor
    <3>2. CASE crossed /\ Ahead(offset - 1)
      BY <1>2, <2>2, <2>3, <3>2 DEF ArmedFor
    <3> QED
      BY <2>2, <3>1, <3>2
  <2>5. ArmedFor(offset)'
    BY <1>1, <2>1, <2>4 DEF ArmedFor, From, Ahead
  <2> QED
    BY <1>1, <2>1, <2>5 DEF Coming
<1>8. CASE state \in {"S_IMSC_ACCESS", "S_WAITING"}
  <2>1. ris => ris'
    <3>1. fsm_bus.phase # "access" \/ fsm_bus.reg # "RTCICR"
      BY <1>2, <1>8 DEF Driven, Ctl!IdleBus, Ctl!Write, UnmaskWrite
    <3>2. ~Rtc!WriteReg(bus, "RTCICR")
      BY <3>1, OnlyTheFsmWrites DEF Rtc!WriteReg
    <3> QED
      BY <3>2 DEF PosEdge, Rtc!Clk
  <2>2. ris \/ \E offset \in Offsets : ArmedFor(offset)
    BY <1>1, <1>8 DEF Coming
  <2>3. state' \notin {"S_CALC", "S_MATCH_SETUP", "S_MATCH_ACCESS", "S_IMSC_SETUP"}
    <3>1. CASE state = "S_IMSC_ACCESS"
      BY <3>1, FsmMoves DEF After
    <3>2. CASE state = "S_WAITING"
      BY <3>2, WaitingStep
    <3> QED
      BY <1>8, <3>1, <3>2
  <2>4. /\ alarm_target' = alarm_target /\ ctrl_time_value' = ctrl_time_value
        /\ (crossed' <=> crossed)
    BY <1>1, <1>3, <1>8
  <2>5. ASSUME NEW offset \in Offsets, ArmedFor(offset) PROVE ArmedFor(offset)'
    BY <1>1, <2>4, <2>5 DEF ArmedFor, From, Ahead
  <2> QED
    BY <1>1, <2>1, <2>2, <2>3, <2>5 DEF Coming
<1>9. CASE state \in {"S_IDLE", "S_ENABLE_SETUP", "S_ENABLE_ACCESS", "S_READ_SETUP",
                     "S_READ_ACCESS", "S_ICR_SETUP", "S_ICR_ACCESS", "S_PULSE_TRIG"}
  <2>1. state' \notin {"S_CALC", "S_MATCH_SETUP", "S_MATCH_ACCESS", "S_IMSC_SETUP",
                      "S_IMSC_ACCESS", "S_WAITING"}
    BY <1>9, FsmMoves DEF After
  <2> QED
    BY <2>1 DEF Coming
<1> QED
  BY <1>2, <1>4, <1>5, <1>6, <1>7, <1>8, <1>9 DEF Ctl!States

\* An edge of CLK1HZ brings the alarm a second nearer; the one that reaches the
\* match raises the interrupt.
LEMMA ComingTick ==
  ASSUME Inv, Coming, SlowCLK1HZ, Tick
  PROVE  Coming'
<1> SUFFICES ASSUME ~loaded' PROVE Coming'
  BY DEF Coming
<1>1. /\ UNCHANGED << state, alarm_target, ctrl_time_value, match >>
      /\ ~loaded
      /\ since_tick \in Nat /\ since_tick >= 4 /\ since_tick' = 0
      /\ (Arming => crossed') /\ (crossed => crossed')
      /\ (ris => ris') /\ ris' \in BOOLEAN
      /\ \/ counter' = counter
         \/ counter' = (counter + 1) % TimeMod /\ (counter' = match => ris')
  <2>1. /\ UNCHANGED << state, alarm_target, ctrl_time_value, match >>
        /\ ~loaded
        /\ since_tick \in Nat /\ since_tick >= 4 /\ since_tick' = 0
        /\ (ris => ris') /\ ris' \in BOOLEAN
        /\ \/ counter' = counter
           \/ counter' = (counter + 1) % TimeMod /\ (counter' = match => ris')
    BY TimeFacts
       DEF Tick, Ctl!Tick, Ctl!fsmVars, Rtc!Tick, SlowCLK1HZ, Inv, TypeOK, Rtc!TypeOK
  <2>2. crossed' = (crossed \/ Arming)
    BY DEF Tick
  <2> QED
    BY <2>1, <2>2
<1>2. /\ counter \in 0 .. TimeMod - 1 /\ ctrl_time_value \in 0 .. TimeMod - 1
      /\ alarm_target \in 0 .. TimeMod - 1
      /\ TimeMod \in Nat /\ TimeMod > 1 /\ Offsets \subseteq 1 .. TimeMod - 1
      /\ state \in {"S_IMSC_ACCESS", "S_WAITING"} => match = alarm_target
  BY TimeFacts, PathAssumption
     DEF Inv, TypeOK, Ctl!TypeOK, Rtc!TypeOK, Ctl!Time, Rtc!Time, Armed
<1>3. \/ counter' = counter
      \/ counter + 1 \in {counter', counter' + TimeMod} /\ counter' \in 0 .. TimeMod - 1
  <2>1. CASE counter' = (counter + 1) % TimeMod
    <3>1. counter + 1 \in Nat /\ counter + 1 < 2 * TimeMod
      BY <1>2
    <3>2. counter' = IF counter + 1 < TimeMod THEN counter + 1 ELSE counter + 1 - TimeMod
      BY <1>2, <2>1, <3>1, ModOnce
    <3> QED
      BY <1>2, <3>2
  <2> QED
    BY <1>1, <2>1
<1>4. state = "S_CALC" => \/ counter' = ctrl_time_value'
                          \/ /\ crossed' /\ since_tick' = 0
                             /\ ctrl_time_value' + 1 \in {counter', counter' + TimeMod}
  BY <1>1, <1>3 DEF Coming, Arming
<1>5. ASSUME NEW k \in 1 .. 3, ComingSince(k), Arming PROVE ComingSince(k)'
  <2>1. PICK offset \in Offsets : From(offset) /\ Ahead(offset)
    BY <1>1, <1>5 DEF ComingSince
  <2>2. offset \in 1 .. TimeMod - 1
    BY <1>2
  <2>3. counter' + offset \in {alarm_target, alarm_target + TimeMod}
        \/ counter' + (offset - 1) \in {alarm_target, alarm_target + TimeMod}
    BY <1>2, <1>3, <2>1, <2>2 DEF Ahead
  <2>4. crossed' /\ From(offset)'
    BY <1>1, <1>5, <2>1 DEF From
  <2> QED
    BY <1>1, <2>2, <2>3, <2>4 DEF ComingSince, Ahead
<1>6. ASSUME state \in {"S_IMSC_ACCESS", "S_WAITING"}, ~ris'
      PROVE  \E offset \in Offsets : ArmedFor(offset)'
  <2>1. PICK offset \in Offsets : ArmedFor(offset)
    BY <1>1, <1>6 DEF Coming
  <2>2. From(offset)' /\ offset \in 1 .. TimeMod - 1 /\ (crossed => crossed')
    BY <1>1, <1>2, <2>1 DEF ArmedFor, From
  <2>3. CASE crossed /\ offset = 1
    BY <2>2, <2>3 DEF ArmedFor
  <2>4. ASSUME NEW n \in 1 .. offset, Ahead(n)
        PROVE  ArmedFor(offset)'
    <3>1. CASE counter' = counter
      <4>1. Ahead(n)'
        BY <1>1, <2>4, <3>1 DEF Ahead
      <4> QED
        BY <2>2, <4>1 DEF ArmedFor
    <3>2. CASE counter' # counter
      <4>1. counter' # alarm_target
        BY <1>1, <1>2, <1>6, <3>2
      <4>2. counter' + (n - 1) \in {alarm_target, alarm_target + TimeMod}
        BY <1>2, <1>3, <2>4, <3>2 DEF Ahead
      <4>3. n - 1 \in 1 .. offset
        BY <1>2, <1>3, <2>2, <2>4, <3>2, <4>1, <4>2
      <4>4. Ahead(n - 1)'
        BY <1>1, <4>2 DEF Ahead
      <4> QED
        BY <2>2, <4>3, <4>4 DEF ArmedFor
    <3> QED
      BY <3>1, <3>2
  <2> QED
    BY <2>1, <2>3, <2>4 DEF ArmedFor
<1> QED
  BY <1>1, <1>4, <1>5, <1>6 DEF Coming, Arming

LEMMA ComingNext ==
  ASSUME SlowCLK1HZ
  PROVE  Inv /\ Masked /\ Coming /\ [Next]_vars => Coming'
<1> SUFFICES ASSUME Inv, Masked, Coming, [Next]_vars PROVE Coming'
  OBVIOUS
<1>1. CASE PosEdge
  BY <1>1, ComingClk
<1>2. CASE Tick
  BY <1>2, ComingTick
<1>3. CASE Reset \/ PowerOn
  BY <1>3 DEF Reset, PowerOn, Ctl!Reset, Ctl!PowerOn, Ctl!ClearRegs, Coming
<1>4. CASE UNCHANGED vars
  BY <1>4 DEF vars, ctlVars, rtcVars, histVars, Coming, ComingSince, ArmedFor, Ahead, From
<1> QED
  BY <1>1, <1>2, <1>3, <1>4 DEF Next

\* A parked FSM waits for an alarm one of the offsets after the time it has read,
\* and the alarm is still to come, unless the offset is one second and that
\* second ended during the re-arm, or the time has been set since
\* (S_READ_CAPTURE .. S_MATCH_ACCESS against the counter of the PL031).  CLK1HZ
\* must not rise twice in a re-arm.
THEOREM PathAlarmAhead ==
  ASSUME SlowCLK1HZ
  PROVE  Spec => []AlarmAhead
<1>1. Init => Coming
  BY DEF Init, Ctl!Init, Coming
<1>2. Init => Stalling
  BY DEF Init, Ctl!Init, Rtc!Init, Stalling, Masked, InAccess
<1>3. Stalling => Masked
  BY DEF Stalling
<1>4. Inv /\ Coming => AlarmAhead
  <2> SUFFICES ASSUME Inv, Coming, Parked, ~ris, ~loaded
               PROVE  /\ alarm_period \in Offsets
                      /\ ComesWithin(alarm_period) \/ (alarm_period = 1 /\ crossed)
    BY DEF AlarmAhead
  <2>1. PICK offset \in Offsets : ArmedFor(offset)
    BY DEF Coming, Parked
  <2>2. /\ counter \in 0 .. TimeMod - 1 /\ alarm_target \in 0 .. TimeMod - 1
        /\ ctrl_time_value \in 0 .. TimeMod - 1
        /\ TimeMod \in Nat /\ offset \in 1 .. TimeMod - 1
    BY TimeFacts, PathAssumption DEF Inv, TypeOK, Ctl!TypeOK, Rtc!TypeOK, Ctl!Time, Rtc!Time
  <2>3. alarm_period = offset
    <3>1. alarm_target + TimeMod - ctrl_time_value \in {offset, offset + TimeMod}
      BY <2>1, <2>2 DEF ArmedFor, From
    <3>2. /\ alarm_target + TimeMod - ctrl_time_value \in Nat
          /\ alarm_target + TimeMod - ctrl_time_value < 2 * TimeMod
      BY <2>2, <3>1
    <3> QED
      BY <2>2, <3>1, <3>2, ModOnce DEF alarm_period
  <2>4. ASSUME NEW n \in 1 .. offset, Ahead(n) PROVE ComesWithin(offset)
    <3>1. counter + n \in Nat /\ counter + n < 2 * TimeMod
      BY <2>2
    <3>2. (counter + n) % TimeMod = alarm_target
      BY <2>2, <2>4, <3>1, ModOnce DEF Ahead
    <3> QED
      BY <3>2 DEF ComesWithin
  <2> QED
    BY <2>1, <2>3, <2>4 DEF ArmedFor
<1>5. Inv /\ Masked /\ Coming /\ [Next]_vars => Coming'
  BY ComingNext
<1> QED
  BY <1>1, <1>2, <1>3, <1>4, <1>5, StallingNext, InvHolds, PTL DEF Spec

-------------------------------------------------------------------------------
(* The driver's helpers: the FSM has parked when the delay is over.         *)

\* The FSM has had this many cycles to park, with the polling paused.
Parking(cycles) ==
  /\ state = "S_ICR_SETUP"     => cycles <= 0
  /\ state = "S_ICR_ACCESS"    => cycles <= 1
  /\ state = "S_PULSE_TRIG"    => cycles <= 2
  /\ state = "S_IDLE"          => cycles <= IF rtc_enabled THEN 3 ELSE 1
  /\ state = "S_ENABLE_SETUP"  => cycles <= 2
  /\ state = "S_ENABLE_ACCESS" => cycles <= 3
  /\ state = "S_READ_SETUP"    => cycles <= 4
  /\ state = "S_READ_ACCESS"   => cycles <= 5
  /\ state = "S_READ_CAPTURE"  => cycles <= 6
  /\ state = "S_CALC"          => cycles <= 7
  /\ state = "S_MATCH_SETUP"   => cycles <= 8
  /\ state = "S_MATCH_ACCESS"  => cycles <= 9
  /\ state = "S_IMSC_SETUP"    => cycles <= 10
  /\ state = "S_IMSC_ACCESS"   => cycles <= 11
  /\ state = "S_WAITING" /\ fsm_bus.phase # "idle" => cycles <= 12

LEMMA ParkingClk ==
  ASSUME Inv, Masked, PosEdge, Ctl!nRTCRST, ~poll_enable_reg,
         NEW cycles \in Nat, Parking(cycles)
  PROVE  Parking(cycles + 1)'
<1>1. state \in Ctl!States /\ rtc_enabled \in BOOLEAN /\ Masked'
  BY FsmMoves DEF Inv, TypeOK, Ctl!TypeOK
<1>2. CASE state = "S_WAITING"
  <2>1. state' = "S_WAITING" /\ fsm_bus'.phase = "idle"
    BY <1>2, WaitingStep DEF Ctl!IdleBus
  <2> QED
    BY <2>1 DEF Parking
<1>3. CASE state = "S_PULSE_TRIG"
  <2>1. state' = "S_IDLE" /\ rtc_enabled'
    <3>1. rtc_enabled /\ state' = "S_IDLE"
      BY <1>1, <1>3, FsmMoves DEF Masked, After
    <3>2. rtc_enabled' = rtc_enabled
      BY <1>3 DEF PosEdge, Ctl!Clk, Ctl!Idle, Ctl!EnableSetup, Ctl!EnableAccess, Ctl!ReadTime,
         Ctl!Capture, Ctl!Calc, Ctl!WriteMatch, Ctl!Unmask, Ctl!Waiting, Ctl!ClearInterrupt,
         Ctl!PulseTrig, Ctl!Quiet, Ctl!Drive, Ctl!Goto
    <3> QED
      BY <3>1, <3>2
  <2> QED
    BY <1>3, <2>1 DEF Parking
<1>4. CASE state \in {"S_IDLE", "S_ENABLE_SETUP", "S_ENABLE_ACCESS", "S_ICR_SETUP",
                     "S_ICR_ACCESS"}
  BY <1>1, <1>4, FsmMoves DEF Parking, After
<1>5. CASE state \in {"S_READ_SETUP", "S_READ_ACCESS", "S_READ_CAPTURE", "S_CALC",
                     "S_MATCH_SETUP", "S_MATCH_ACCESS", "S_IMSC_SETUP", "S_IMSC_ACCESS"}
  BY <1>1, <1>5, FsmMoves DEF Parking, After
<1> QED
  BY <1>1, <1>2, <1>3, <1>4, <1>5 DEF Ctl!States

\* The driver's accesses that do not pass through rtc_control_2, and those of a
\* helper that do.
Set   == Access("rtc_ctrl_set", 0)
Clear == Access("rtc_ctrl_clear", 0)
WrapperAccesses == {Set, Clear, Access("adc_cal_wr", 0)}
                   \cup {Access("alarm_offset_wr", p) : p \in Offsets}
HelperAccesses  == {Access("rtc_dr_rd", 0)} \cup {Access("rtc_lr_wr", v) : v \in Ctl!Time}

\* A transfer on the bus is the access that comes next.
Outgoing(a) == phase # "idle" => access = a.what

\* What is left of a call that does not wait, ...
AtOnce ==
  \/ todo = <<>> /\ phase = "idle"
  \/ \E a \in WrapperAccesses : /\ Outgoing(a)
                                /\ \/ todo = << a >>
                                   \/ \E b \in WrapperAccesses :
                                        \/ todo = << a, b >>
                                        \/ \E c \in WrapperAccesses : todo = << a, b, c >>

\* ... and of a helper: it has still to pause the polling, waits, or has waited.
Helping(a) ==
  \/ todo = << Clear, Delay, a, Set >> /\ Outgoing(Clear) /\ waited = 0
  \/ /\ todo = << Delay, a, Set >> /\ phase = "idle"
     /\ ~poll_enable_reg
     /\ up => Parking(waited)
  \/ /\ todo = << a, Set >> /\ Outgoing(a)
     /\ ~poll_enable_reg
     /\ up => IF phase = "idle" THEN Parking(12) ELSE Parking(13)
     /\ up /\ phase = "access" => pt_setup_done

Driving ==
  /\ nRTCRST_ff2 => nRTCRST_ff1
  /\ driver => /\ AtOnce \/ \E a \in HelperAccesses : Helping(a)
               /\ waited \in 0 .. SENSING_PARK_SETTLE
               /\ up => nRTCRST_ff2 /\ stalled = 0

\* The wait is long enough: the FSM needs 13 cycles at most, two of which pass
\* between the delay and the SETUP of the access.
LongDelay == SENSING_PARK_SETTLE >= 11

LEMMA Tuples ==
  /\ \A a : Tail(<< a >>) = << >> /\ Head(<< a >>) = a /\ << a >> # << >>
  /\ \A a, b : Tail(<< a, b >>) = << b >> /\ Head(<< a, b >>) = a /\ << a, b >> # << >>
  /\ \A a, b, c : /\ Tail(<< a, b, c >>) = << b, c >> /\ Head(<< a, b, c >>) = a
                  /\ << a, b, c >> # << >>
  /\ \A a, b, c, d : /\ Tail(<< a, b, c, d >>) = << b, c, d >> /\ Head(<< a, b, c, d >>) = a
                     /\ << a, b, c, d >> # << >>
OBVIOUS

LEMMA Words ==
  /\ \A a \in WrapperAccesses : /\ a # Delay
                                /\ a.what \notin {"rtc_dr_rd", "rtc_lr_wr"}
  /\ \A a \in HelperAccesses : /\ a # Delay
                               /\ a.what \in {"rtc_dr_rd", "rtc_lr_wr"}
  /\ Set \in WrapperAccesses /\ Clear \in WrapperAccesses /\ Clear.what = "rtc_ctrl_clear"
<1>1. \A w, d : Access(w, d).what = w
  BY DEF Access
<1>2. \A a \in WrapperAccesses : a.what \in {"rtc_ctrl_set", "rtc_ctrl_clear", "adc_cal_wr",
                                             "alarm_offset_wr"}
  BY <1>1 DEF WrapperAccesses, Set, Clear
<1>3. \A a \in HelperAccesses : a.what \in {"rtc_dr_rd", "rtc_lr_wr"}
  BY <1>1 DEF HelperAccesses
<1>4. Delay.what = "delay"
  BY <1>1 DEF Delay
<1> QED
  BY <1>1, <1>2, <1>3, <1>4 DEF WrapperAccesses, Set, Clear

\* One cycle of an access of the driver.
LEMMA AccessStep ==
  ASSUME Inv, PosEdge, AccessNext, Outgoing(Head(todo))
  PROVE  /\ \/ /\ todo' = todo /\ phase' # "idle" /\ Outgoing(Head(todo))'
               /\ \/ phase = "idle" /\ phase' = "setup"
                  \/ phase = "setup" /\ phase' = "access"
                  \/ phase = "access" /\ phase' = "access" /\ ~PREADY
            \/ todo' = Tail(todo) /\ phase' = "idle" /\ phase = "access" /\ PREADY
         /\ waited' = waited /\ up' = up
         /\ phase = "access" => access = Head(todo).what
<1>1. /\ waited' = waited /\ up' = up
      /\ phase \in {"idle", "setup", "access"}
      /\ todo' = IF phase = "access" /\ PREADY THEN Tail(todo) ELSE todo
      /\ phase = "idle" => phase' = "setup" /\ access' = Head(todo).what
      /\ phase # "idle" => access = Head(todo).what
  BY DEF AccessNext, Inv, TypeOK, Outgoing
<1>2. /\ phase = "setup" => phase' = "access" /\ access' = access
      /\ phase = "access" => IF PREADY THEN phase' = "idle"
                                       ELSE phase' = "access" /\ access' = access
  BY DEF PosEdge, Master, apbVars
<1> QED
  BY <1>1, <1>2 DEF Outgoing

LEMMA DrivingClk ==
  ASSUME Inv, Stalling, Driving, LongDelay, DPosEdge, driver
  PROVE  Driving'
<1>1. /\ PosEdge /\ driver' /\ Masked /\ TypeOK
      /\ nRTCRST_ff1' = nRTCRST_ff1 /\ nRTCRST_ff2' = nRTCRST_ff2
      /\ Begin \/ sensing_delay \/ AccessNext
      /\ waited \in 0 .. SENSING_PARK_SETTLE
      /\ up => nRTCRST_ff2 /\ Ctl!nRTCRST /\ stalled = 0
      /\ AtOnce \/ \E a \in HelperAccesses : Helping(a)
      /\ SENSING_PARK_SETTLE \in Nat
  BY SettleAssumption DEF DPosEdge, PosEdge, Ctl!Clk, Ctl!rstVars, Ctl!nRTCRST, Driving,
     Stalling, Inv
<1>2. /\ phase # "access" \/ PREADY => stalled' = 0
      /\ ~RtcAccess => PREADY
  BY <1>1, ExtPhase DEF PosEdge, HistClk
<1>3. phase # "access" \/ access \notin {"rtc_ctrl_set", "rtc_ctrl_clear"} =>
        poll_enable_reg' = poll_enable_reg
  BY <1>1 DEF PosEdge, WrapperRegs, Written
<1> SUFFICES /\ AtOnce' \/ \E a \in HelperAccesses : Helping(a)'
             /\ waited' \in 0 .. SENSING_PARK_SETTLE
             /\ up' => nRTCRST_ff2' /\ stalled' = 0
  BY <1>1 DEF Driving
<1>4. CASE todo = <<>> /\ phase = "idle"
  <2>1. Begin
    BY <1>1, <1>4 DEF sensing_delay, AccessNext
  <2>2. phase' = "idle" /\ waited' = 0 /\ stalled' = 0 /\ (up' => nRTCRST_ff2')
    BY <1>1, <1>2, <1>4, <2>1 DEF Begin, Ctl!nRTCRST
  <2>3. todo' \in Calls \cup {<<>>}
    BY <2>1 DEF Begin
  <2>4. \A a : Outgoing(a)'
    BY <2>2 DEF Outgoing
  <2>5. ASSUME todo' \in {<<>>, sensing_polling_disable, sensing_polling_enable}
        PROVE  AtOnce'
    <3>1. sensing_polling_disable = << Clear >> /\ sensing_polling_enable = << Set >>
      BY DEF sensing_polling_disable, sensing_polling_enable, Set, Clear
    <3> QED
      BY <2>2, <2>4, <2>5, <3>1, Words DEF AtOnce
  <2>6. ASSUME \E p \in Offsets : todo' = sensing_init(p)
        PROVE  AtOnce'
    <3>1. PICK p \in Offsets :
            todo' = << Access("alarm_offset_wr", p), Access("adc_cal_wr", 0), Set >>
      BY <2>6 DEF sensing_init, Set
    <3>2. /\ Access("alarm_offset_wr", p) \in WrapperAccesses
          /\ Access("adc_cal_wr", 0) \in WrapperAccesses
      BY DEF WrapperAccesses
    <3> QED
      BY <2>4, <3>1, <3>2, Words DEF AtOnce
  <2>8. ASSUME todo' = sensing_read_time \/ \E v \in Ctl!Time : todo' = sensing_set_time(v)
        PROVE  \E a \in HelperAccesses : Helping(a)'
    <3>1. PICK a \in HelperAccesses : todo' = << Clear, Delay, a, Set >>
      BY <2>8 DEF sensing_read_time, sensing_set_time, HelperAccesses, Set, Clear
    <3> QED
      BY <2>2, <2>4, <3>1 DEF Helping
  <2>7. AtOnce' \/ \E a \in HelperAccesses : Helping(a)'
    BY <2>3, <2>5, <2>6, <2>8 DEF Calls
  <2> QED
    BY <1>1, <2>2, <2>7
<1>5. ASSUME AtOnce, ~(todo = <<>> /\ phase = "idle")
      PROVE  AtOnce' /\ waited' = waited /\ up' = up /\ stalled' = 0
  <2>1. PICK a \in WrapperAccesses :
          /\ Outgoing(a)
          /\ \/ todo = << a >>
             \/ \E b \in WrapperAccesses :
                  \/ todo = << a, b >>
                  \/ \E c \in WrapperAccesses : todo = << a, b, c >>
    BY <1>5 DEF AtOnce
  <2>2. todo # <<>> /\ Head(todo) = a /\ a # Delay
    BY <2>1, Tuples, Words
  <2>3. AccessNext /\ Outgoing(Head(todo))
    BY <1>1, <2>1, <2>2 DEF Begin, sensing_delay
  <2>4. stalled' = 0
    BY <1>1, <1>2, <2>2, <2>3, AccessStep, Words DEF RtcAccess
  <2>5. CASE todo' = todo
    BY <1>1, <2>1, <2>2, <2>3, <2>4, <2>5, AccessStep, Tuples DEF AtOnce, Outgoing
  <2>6. CASE todo' = Tail(todo) /\ phase' = "idle"
    <3>1. \A b : Outgoing(b)'
      BY <2>6 DEF Outgoing
    <3>2. \/ todo' = << >>
          \/ \E b \in WrapperAccesses : \/ todo' = << b >>
                                        \/ \E c \in WrapperAccesses : todo' = << b, c >>
      <4>1. CASE todo = << a >>
        BY <2>6, <4>1, Tuples
      <4>2. ASSUME NEW b \in WrapperAccesses, todo = << a, b >> PROVE todo' = << b >>
        BY <2>6, <4>2, Tuples
      <4>3. ASSUME NEW b \in WrapperAccesses, NEW c \in WrapperAccesses, todo = << a, b, c >>
            PROVE  todo' = << b, c >>
        BY <2>6, <4>3, Tuples
      <4> QED
        BY <2>1, <4>1, <4>2, <4>3
    <3>3. AtOnce'
      BY <2>6, <3>1, <3>2 DEF AtOnce
    <3> QED
      BY <1>1, <2>3, <2>4, <3>3, AccessStep
  <2> QED
    BY <1>1, <2>3, <2>5, <2>6, AccessStep
<1>6. ASSUME NEW a \in HelperAccesses, todo = << Clear, Delay, a, Set >>, Outgoing(Clear),
             waited = 0
      PROVE  Helping(a)' /\ waited' = waited /\ up' = up /\ stalled' = 0
  <2>1. /\ todo # <<>> /\ Head(todo) = Clear /\ Clear # Delay
        /\ Tail(todo) = << Delay, a, Set >>
    BY <1>6, Tuples, Words
  <2>2. AccessNext /\ Outgoing(Head(todo))
    BY <1>1, <1>6, <2>1 DEF Begin, sensing_delay
  <2>3. stalled' = 0
    BY <1>1, <1>2, <2>1, <2>2, AccessStep, Words DEF RtcAccess
  <2>4. CASE todo' = todo
    BY <1>1, <1>6, <2>1, <2>2, <2>3, <2>4, AccessStep DEF Helping, Outgoing
  <2>5. CASE todo' = Tail(todo) /\ phase' = "idle" /\ phase = "access"
    <3>1. ~poll_enable_reg'
      BY <1>1, <2>1, <2>2, <2>5, AccessStep, Words DEF PosEdge, WrapperRegs, Written
    <3>2. Parking(0)'
      BY DEF Parking
    <3> QED
      BY <1>1, <1>6, <2>1, <2>2, <2>3, <2>5, <3>1, <3>2, AccessStep DEF Helping
  <2> QED
    BY <1>1, <2>2, <2>4, <2>5, AccessStep
<1>7. ASSUME NEW a \in HelperAccesses, todo = << Delay, a, Set >>, phase = "idle",
             ~poll_enable_reg, up => Parking(waited)
      PROVE  Helping(a)' /\ waited' \in 0 .. SENSING_PARK_SETTLE /\ up' = up /\ stalled' = 0
  <2>1. todo # <<>> /\ Head(todo) = Delay /\ Tail(todo) = << a, Set >>
    BY <1>7, Tuples
  <2>2. sensing_delay
    BY <1>1, <2>1 DEF Begin, AccessNext
  <2>3. /\ phase' = "idle" /\ up' = up /\ stalled' = 0 /\ ~poll_enable_reg'
    BY <1>2, <1>3, <1>7, <2>2 DEF sensing_delay
  <2>4. PICK k \in Nat : k = waited /\ (up => Parking(k + 1)')
    <3>1. PICK k \in Nat : k = waited
      BY <1>1
    <3>2. up => Parking(k + 1)'
      BY <1>1, <1>7, <3>1, ParkingClk
    <3> QED
      BY <3>1, <3>2
  <2>5. CASE waited < SENSING_PARK_SETTLE /\ waited' = waited + 1 /\ todo' = todo
    <3>1. up' => Parking(waited)'
      BY <2>3, <2>4, <2>5 DEF Parking
    <3> QED
      BY <1>1, <1>7, <2>3, <2>5, <3>1 DEF Helping
  <2>6. CASE waited = SENSING_PARK_SETTLE /\ waited' = 0 /\ todo' = Tail(todo)
    <3>1. up => Parking(12)'
      <4>1. k + 1 >= 12
        BY <1>1, <2>4, <2>6 DEF LongDelay
      <4> QED
        BY <2>4, <4>1 DEF Parking
    <3> QED
      BY <1>1, <2>1, <2>3, <2>6, <3>1 DEF Helping, Outgoing
  <2> QED
    BY <2>2, <2>5, <2>6 DEF sensing_delay
<1>8. ASSUME NEW a \in HelperAccesses, todo = << a, Set >>, Outgoing(a), ~poll_enable_reg,
             up => IF phase = "idle" THEN Parking(12) ELSE Parking(13),
             up /\ phase = "access" => pt_setup_done
      PROVE  /\ AtOnce' \/ Helping(a)'
             /\ waited' = waited /\ up' = up /\ (up => stalled' = 0)
  <2>1. todo # <<>> /\ Head(todo) = a /\ a # Delay /\ Tail(todo) = << Set >>
    BY <1>8, Tuples, Words
  <2>2. AccessNext /\ Outgoing(Head(todo))
    BY <1>1, <1>8, <2>1 DEF Begin, sensing_delay
  <2>3. phase # "idle" => RtcAccess
    BY <1>8, Words DEF Outgoing, RtcAccess
  <2>4. up /\ phase # "idle" => Ctl!bus_free
    <3>1. state \in Ctl!States
      BY <1>1 DEF TypeOK, Ctl!TypeOK
    <3>2. rtc_enabled \in BOOLEAN
      BY <1>1 DEF TypeOK, Ctl!TypeOK
    <3> QED
      BY <1>8, <3>1, <3>2 DEF Parking, Ctl!States, Ctl!bus_free
  <2>5. up /\ phase = "access" => PREADY
    BY <1>1, <1>8, <2>3, <2>4, ExtPhase
       DEF Ctl!PREADY, Ctl!ext_done, Ctl!ext_access, Ctl!grant
  <2>6. up => stalled' = 0
    BY <1>2, <2>5
  <2>7. ~poll_enable_reg'
    BY <1>3, <1>8, <2>3 DEF RtcAccess
  <2>8. CASE todo' = Tail(todo) /\ phase' = "idle"
    BY <1>1, <2>1, <2>2, <2>6, <2>8, AccessStep, Words DEF AtOnce, Outgoing
  <2>9. CASE todo' = todo /\ phase' # "idle"
    <3>1. up => Parking(13)'
      <4>1. CASE phase = "idle"
        BY <1>1, <1>8, <4>1, ParkingClk
      <4>2. CASE phase # "idle"
        <5>1. up => Parking(14)'
          BY <1>1, <1>8, <4>2, ParkingClk
        <5> QED
          BY <5>1 DEF Parking
      <4> QED
        BY <4>1, <4>2
    <3>2. up /\ phase' = "access" => pt_setup_done'
      BY <1>1, <1>8, <2>1, <2>2, <2>3, <2>4, <2>5, <2>9, AccessStep, TransferStep, Words
         DEF InAccess, RtcAccess, Outgoing
    <3> QED
      BY <1>1, <1>8, <2>1, <2>2, <2>6, <2>7, <2>9, <3>1, <3>2, AccessStep
         DEF Helping, Outgoing
  <2> QED
    BY <1>1, <2>2, <2>8, <2>9, AccessStep
<1>9. CASE AtOnce /\ ~(todo = <<>> /\ phase = "idle")
  BY <1>1, <1>5, <1>9
<1>10. CASE \E a \in HelperAccesses : Helping(a)
  <2>1. PICK a \in HelperAccesses : Helping(a)
    BY <1>10
  <2> QED
    BY <1>1, <1>6, <1>7, <1>8, <2>1 DEF Helping
<1> QED
  BY <1>1, <1>4, <1>9, <1>10

LEMMA DrivingNext ==
  ASSUME LongDelay
  PROVE  Inv /\ Stalling /\ Driving /\ [DNext]_allVars => Driving'
<1> SUFFICES ASSUME Inv, Stalling, Driving, [DNext]_allVars PROVE Driving'
  OBVIOUS
<1>1. CASE DPosEdge /\ driver
  BY <1>1, DrivingClk
<1>2. CASE DPosEdge /\ ~driver
  BY <1>2 DEF DPosEdge, PosEdge, Ctl!Clk, Ctl!rstVars, Driving
<1>3. CASE DTick
  <2>1. /\ UNCHANGED << state, fsm_bus, rtc_enabled, pt_setup_done, poll_enable_reg, phase,
                        access, stalled, driver, todo, waited, up >>
        /\ nRTCRST_ff1' /\ nRTCRST_ff2' = nRTCRST_ff1
    BY <1>3 DEF DTick, Tick, Ctl!Tick, Ctl!fsmVars, apbVars, regVars, fwVars
  <2>2. AtOnce => AtOnce'
    BY <2>1 DEF AtOnce, Outgoing
  <2>3. \A a : Helping(a) => Helping(a)'
    BY <2>1 DEF Helping, Outgoing, Parking
  <2> QED
    BY <2>1, <2>2, <2>3 DEF Driving
<1>4. CASE DReset
  <2>1. /\ driver' = driver /\ todo' = <<>> /\ waited' = 0 /\ ~up' /\ phase' = "idle"
        /\ nRTCRST_ff2' => nRTCRST_ff1'
    BY <1>4 DEF DReset, Reset, PowerOn, BusReset, Ctl!Reset, Ctl!rstVars, Ctl!PowerOn, Driving
  <2>2. 0 \in 0 .. SENSING_PARK_SETTLE
    BY SettleAssumption
  <2> QED
    BY <2>1, <2>2 DEF Driving, AtOnce
<1>5. CASE UNCHANGED allVars
  <2>1. UNCHANGED << state, fsm_bus, rtc_enabled, pt_setup_done, poll_enable_reg, phase,
                     access, stalled, driver, todo, waited, up, nRTCRST_ff1, nRTCRST_ff2 >>
    BY <1>5 DEF allVars, vars, ctlVars, regVars, apbVars, histVars, fwVars
  <2>2. AtOnce => AtOnce'
    BY <2>1 DEF AtOnce, Outgoing
  <2>3. \A a : Helping(a) => Helping(a)'
    BY <2>1 DEF Helping, Outgoing, Parking
  <2> QED
    BY <2>1, <2>2, <2>3 DEF Driving
<1> QED
  BY <1>1, <1>2, <1>3, <1>4, <1>5 DEF DNext

\* The access of a helper is never held (sensing_read_time, sensing_set_time):
\* whatever the FSM does when a helper pauses the polling, it has parked when the
\* delay is over.  The default of SENSING_PARK_SETTLE, 300, is long enough.
THEOREM DriverHelperNeverStalls ==
  ASSUME LongDelay
  PROVE  DSpec => []HelperNeverStalls
<1>1. DInit => Driving
  <2>1. 0 \in 0 .. SENSING_PARK_SETTLE
    BY SettleAssumption
  <2> QED
    BY <2>1 DEF DInit, Init, Ctl!Init, Driving, AtOnce
<1>2. DInit => Stalling
  BY DEF DInit, Init, Ctl!Init, Rtc!Init, Stalling, Masked, InAccess
<1>3. Driving => HelperNeverStalls
  BY DEF Driving, HelperNeverStalls
<1>4. Inv /\ Stalling /\ Driving /\ [DNext]_allVars => Driving'
  BY DrivingNext
<1> QED
  BY <1>1, <1>2, <1>3, <1>4, StallingNext, InvHolds, DriverIsMaster, PTL DEF DSpec, Spec
===============================================================================
