-------------------------------- MODULE RtcPath --------------------------------
(***************************************************************************)
(* The timing path of the sensing peripheral: rtc_control_2 (RtcControl),  *)
(* the PL031 (Pl031, external) and the registers of adc_apb_wrapper_rev2   *)
(* that steer them, alarm_offset_reg and poll_enable_reg, accessed by one  *)
(* APB master.  The master waits for PREADY and leaves the bus idle for a  *)
(* cycle between two transfers, as the AHB bridge does.                    *)
(*                                                                         *)
(* The last group of variables is history: it only records.                *)
(***************************************************************************)
EXTENDS Naturals

CONSTANTS
  TimeMod,    \* see RtcControl
  Offsets,    \* alarm offsets the firmware uses
  Accesses,   \* the accesses the master makes, of AllAccesses
  TickMin     \* fewest PCLK cycles between two edges of CLK1HZ

AllAccesses == {"rtc_dr_rd", "rtc_lr_wr", "alarm_offset_wr", "rtc_ctrl_set",
                "rtc_ctrl_clear", "adc_cal_wr"}

ASSUME PathAssumption == /\ TimeMod \in Nat \ {0, 1}
                         /\ Offsets \subseteq 1 .. TimeMod - 1 /\ Offsets # {}
                         /\ Accesses \subseteq AllAccesses
                         /\ TickMin \in Nat \ {0}

VARIABLES
  state, fsm_bus, alarm_target, rtc_enabled, ctrl_time_value, rtc_trig,
  ctrl_intr_flag, pt_setup_done, nRTCRST_ff1, nRTCRST_ff2,   \* rtc_control_2
  counter, match, running, imsc, ris,                        \* PL031
  alarm_offset_reg, poll_enable_reg,                         \* the wrapper
  phase, access, wdata,   \* the master's transfer
  since_tick,             \* PCLK cycles since the last edge of CLK1HZ
  due,                    \* an alarm has come that no pulse has answered
  paused_for,             \* PCLK cycles that polling has been disabled
  stalled,                \* PCLK cycles the transfer has been held in ACCESS
  deferred,               \* PCLK cycles a pending alarm has waited, FSM parked
  loaded,                 \* the time has been set since the alarm was computed
  crossed                 \* a second ended between the last read of the time
                          \* and the write of the match computed from it

ctlVars  == << state, fsm_bus, alarm_target, rtc_enabled, ctrl_time_value, rtc_trig,
               ctrl_intr_flag, pt_setup_done, nRTCRST_ff1, nRTCRST_ff2 >>
rtcVars  == << counter, match, running, imsc, ris >>
regVars  == << alarm_offset_reg, poll_enable_reg >>
apbVars  == << phase, access, wdata >>
histVars == << due, paused_for, stalled, deferred, loaded, crossed >>
vars     == << ctlVars, rtcVars, regVars, apbVars, since_tick, histVars >>

Ctl == INSTANCE RtcControl
Rtc == INSTANCE Pl031

\* The master's bus as rtc_control_2 sees it: selected in the RTC region only.
ext == CASE access = "rtc_dr_rd" -> Ctl!Read(phase, "RTCDR")
         [] access = "rtc_lr_wr" -> Ctl!Write(phase, "RTCLR", wdata)
         [] OTHER                -> Ctl!IdleBus

bus    == Ctl!RtcBus(ext)
PREADY == access \in {"rtc_dr_rd", "rtc_lr_wr"} => Ctl!PREADY(ext)

-------------------------------------------------------------------------------
\* A write of a register of the wrapper lands in its ACCESS cycle.
Written(a) == phase = "access" /\ access = a

WrapperRegs ==
  /\ alarm_offset_reg' = IF Written("alarm_offset_wr") THEN wdata ELSE alarm_offset_reg
  /\ poll_enable_reg' = IF Written("rtc_ctrl_set") THEN TRUE
                        ELSE IF Written("rtc_ctrl_clear") THEN FALSE
                        ELSE poll_enable_reg

\* The data a master writes matters for two registers.
WriteData(a) == CASE a = "rtc_lr_wr"       -> Ctl!Time
                  [] a = "alarm_offset_wr" -> Offsets
                  [] OTHER                 -> {0}

Master ==
  \/ /\ phase = "idle"
     /\ UNCHANGED apbVars
  \/ /\ phase = "idle"
     /\ phase' = "setup"
     /\ access' \in Accesses
     /\ wdata' \in WriteData(access')
  \/ /\ phase = "setup"
     /\ phase' = "access"
     /\ UNCHANGED << access, wdata >>
  \/ /\ phase = "access" /\ ~PREADY
     /\ UNCHANGED apbVars
  \/ /\ phase = "access" /\ PREADY
     /\ phase' = "idle"
     /\ access' = "none"
     /\ wdata' = 0

\* Bounds of the three histories that count.
PausedMax   == 4
StalledMax  == 30
DeferredMax == 8
UpTo(n, max) == IF n < max THEN n + 1 ELSE n

\* Waiting for the alarm, with the last write of the re-arm gone from the bus.
Parked == state = "S_WAITING" /\ fsm_bus.phase = "idle"

HistClk ==
  /\ due' = (IF rtc_trig' THEN FALSE ELSE due \/ (ris' /\ ~ris))
  /\ paused_for' = IF poll_enable_reg \/ poll_enable_reg' THEN 0
                   ELSE UpTo(paused_for, PausedMax)
  /\ stalled' = IF phase = "access" /\ ~PREADY THEN UpTo(stalled, StalledMax) ELSE 0
  /\ deferred' = IF Parked /\ Rtc!RTCINTR /\ poll_enable_reg
                 THEN UpTo(deferred, DeferredMax) ELSE 0
  /\ loaded' = (Rtc!WriteReg(bus, "RTCLR") \/ (loaded /\ state # "S_READ_CAPTURE"))
  /\ crossed' = (crossed /\ state # "S_READ_CAPTURE")

\* The time has been read and the match is not written: the ACCESS cycle of that
\* write is the one of S_IMSC_SETUP.
Arming == state \in {"S_CALC", "S_MATCH_SETUP", "S_MATCH_ACCESS", "S_IMSC_SETUP"}

\* One PCLK cycle ends.
PosEdge ==
  /\ Ctl!Clk(ext, Rtc!Prdata(bus), Rtc!RTCINTR, alarm_offset_reg, poll_enable_reg)
  /\ Rtc!Clk(bus)
  /\ WrapperRegs
  /\ Master
  /\ since_tick' = UpTo(since_tick, TickMin)
  /\ HistClk

\* CLK1HZ rises.
Tick ==
  /\ since_tick = TickMin
  /\ since_tick' = 0
  /\ Ctl!Tick
  /\ Rtc!Tick(Ctl!nRTCRST)
  /\ due' = (due \/ (ris' /\ ~ris))
  /\ crossed' = (crossed \/ Arming)
  /\ UNCHANGED << regVars, apbVars, paused_for, stalled, deferred, loaded >>

\* A reset ends any transfer and restores the wrapper's registers.
BusReset ==
  /\ alarm_offset_reg' \in Offsets /\ poll_enable_reg' = TRUE
  /\ phase' = "idle" /\ access' = "none" /\ wdata' = 0
  /\ paused_for' = 0
  /\ stalled' = 0
  /\ deferred' = 0
  /\ UNCHANGED since_tick

\* PRESETn: the PL031 keeps its time.
Reset == BusReset /\ Ctl!Reset /\ Rtc!Reset /\ UNCHANGED << due, loaded, crossed >>

PowerOn == /\ BusReset /\ Ctl!PowerOn /\ Rtc!PowerOn
           /\ due' = FALSE /\ loaded' = FALSE /\ crossed' = FALSE

Init ==
  /\ Ctl!Init /\ Rtc!Init
  /\ alarm_offset_reg \in Offsets /\ poll_enable_reg = TRUE
  /\ phase = "idle" /\ access = "none" /\ wdata = 0
  /\ since_tick = 0
  /\ due = FALSE
  /\ paused_for = 0
  /\ stalled = 0
  /\ deferred = 0
  /\ loaded = FALSE
  /\ crossed = FALSE

Next == PosEdge \/ Tick \/ Reset \/ PowerOn

Spec == Init /\ [][Next]_vars

-------------------------------------------------------------------------------
TypeOK ==
  /\ Ctl!TypeOK
  /\ Rtc!TypeOK
  /\ alarm_offset_reg \in Offsets
  /\ poll_enable_reg \in BOOLEAN
  /\ phase \in {"idle", "setup", "access"}
  /\ access \in Accesses \cup {"none"}
  /\ wdata \in Ctl!Time
  /\ since_tick \in 0 .. TickMin
  /\ due \in BOOLEAN
  /\ paused_for \in 0 .. PausedMax
  /\ stalled \in 0 .. StalledMax
  /\ deferred \in 0 .. DeferredMax
  /\ loaded \in BOOLEAN
  /\ crossed \in BOOLEAN

\* A parked FSM has its alarm in the PL031: no passthrough got in the way of the
\* writes that enable the counter, set the match and unmask the interrupt,
\* although each write is on the bus a cycle after the FSM has moved on.
AlarmArmed == Parked => running /\ imsc /\ match = alarm_target

\* The alarm that is armed is this long after the time it was computed from.
alarm_period == (alarm_target + TimeMod - ctrl_time_value) % TimeMod

\* Seconds from now to the alarm: one that the counter stands at or has passed
\* comes after a wrap.
ComesWithin(seconds) == \E n \in 1 .. seconds : (counter + n) % TimeMod = alarm_target

\* "No stale-offset stall": a parked FSM waits for an alarm an offset after the
\* time it has read, and that alarm is still to come, unless the offset is one
\* second and that second ended before the match was written.  (The firmware
\* may have set the time since.)  An alarm behind the counter would stop the
\* polling for TimeMod seconds.
AlarmAhead ==
  Parked /\ ~ris /\ ~loaded => /\ alarm_period \in Offsets
                               /\ ComesWithin(alarm_period) \/ (alarm_period = 1 /\ crossed)

\* "Arms a periodic alarm (period = alarm_offset seconds)", of every offset: what
\* a parked FSM waits for comes within an offset.  False for an offset of one.
AlarmIsPeriodic ==
  Parked /\ ~ris /\ ~loaded => ComesWithin(alarm_period)

\* A pulse answers an alarm, and no alarm is answered twice.
TriggerAnswersAlarm == state = "S_PULSE_TRIG" => due

\* Disabling the polling takes effect within three cycles: after that the
\* sampling FSM is not kicked until polling is enabled again.
QuietWhenPaused == rtc_trig => paused_for <= 3

\* A transfer is held for at most two re-arms of the alarm, twelve cycles each:
\* when the next alarm is already pending as the FSM parks, it is serviced in
\* the one cycle in which the parked FSM does not grant the bus.
StallBounded == stalled <= 24

\* A pending alarm is serviced within three cycles of the FSM's parking, although a master
\* may access the RTC at every opportunity: the FSM gets in between two transfers.
AlarmServedSoon == deferred <= 3
===============================================================================
