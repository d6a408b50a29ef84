------------------------------ MODULE RtcControl ------------------------------
(***************************************************************************)
(* rtc_control_2 (agriculture_soc_main/RTC/rtc_control_2.v): the FSM that  *)
(* arms and services the alarm of the PL031, and the arbitration of the    *)
(* PL031's APB between that FSM and the external master (the passthrough). *)
(*                                                                         *)
(* Clk is one rising edge of PCLK and Tick one of CLK1HZ.  A bus is a      *)
(* record: phase "idle" is PSEL low, "setup" is PSEL without PENABLE and   *)
(* "access" is both.  The bus outputs of the FSM are registers, so a       *)
(* transfer is on the bus one cycle after the state that drives it.        *)
(***************************************************************************)
EXTENDS Naturals

CONSTANT TimeMod   \* 2 ^ DATA_WIDTH: times are seconds modulo this

Time == 0 .. TimeMod - 1

Regs == {"RTCDR", "RTCMR", "RTCLR", "RTCCR", "RTCIMSC", "RTCICR"}
Bus  == [phase : {"idle", "setup", "access"}, write : BOOLEAN, reg : Regs,
         data : Time]

\* An idle bus; address and data keep their last value in the code.
IdleBus == [phase |-> "idle", write |-> FALSE, reg |-> "RTCDR", data |-> 0]

Read(phase, reg)        == [IdleBus EXCEPT !.phase = phase, !.reg = reg]
Write(phase, reg, data) == [phase |-> phase, write |-> TRUE, reg |-> reg,
                            data |-> data]

VARIABLES
  state,             \* the FSM register
  fsm_bus,           \* fsm_psel, fsm_penable, fsm_pwrite, fsm_paddr, fsm_pwdata
  alarm_target,      \* the time of the next alarm
  rtc_enabled,       \* RTCCR has been written since reset
  ctrl_time_value,   \* the last time read
  rtc_trig,          \* the pulse to the sampling FSM
  ctrl_intr_flag,    \* RTCINTR, one cycle late
  pt_setup_done,     \* the PL031 has seen a SETUP of the external transfer
  nRTCRST_ff1, nRTCRST_ff2   \* reset of the PL031, released by CLK1HZ

fsmVars == << state, fsm_bus, alarm_target, rtc_enabled, ctrl_time_value, rtc_trig >>
rstVars == << nRTCRST_ff1, nRTCRST_ff2 >>
vars    == << fsmVars, ctrl_intr_flag, pt_setup_done, rstVars >>

nRTCRST == nRTCRST_ff2

States == {"S_IDLE", "S_ENABLE_SETUP", "S_ENABLE_ACCESS", "S_READ_SETUP",
           "S_READ_ACCESS", "S_READ_CAPTURE", "S_CALC", "S_MATCH_SETUP",
           "S_MATCH_ACCESS", "S_IMSC_SETUP", "S_IMSC_ACCESS", "S_WAITING",
           "S_ICR_SETUP", "S_ICR_ACCESS", "S_PULSE_TRIG"}

TypeOK == /\ state \in States
          /\ fsm_bus \in Bus
          /\ {alarm_target, ctrl_time_value} \subseteq Time
          /\ {rtc_enabled, rtc_trig, ctrl_intr_flag, pt_setup_done, nRTCRST_ff1,
              nRTCRST_ff2} \subseteq BOOLEAN

-------------------------------------------------------------------------------
(* Arbitration; ext is the bus of the external master.                     *)

\* (bug variant) the tail of the FSM's last transfer is not waited for
BusFreeEarly == state \in {"S_IDLE", "S_WAITING"}

bus_free == state \in {"S_IDLE", "S_WAITING"} /\ fsm_bus.phase = "idle"

grant(ext)       == ext.phase # "idle" /\ bus_free
ext_access(ext)  == ext.phase = "access" /\ pt_setup_done
ext_done(ext)    == grant(ext) /\ ext_access(ext)

\* PREADY of the passthrough: low while an ACCESS waits for the bus.
PREADY(ext) == ext.phase = "access" => ext_done(ext)

\* What the PL031 sees in this cycle.
RtcBus(ext) ==
  IF grant(ext)
  THEN [ext EXCEPT !.phase = IF ext_access(ext) THEN "access" ELSE "setup"]
  ELSE fsm_bus

\* (bug variant) an access stalled into its ACCESS phase gets no SETUP cycle
PassthroughSetupOnly(ext) ==
  pt_setup_done' = (grant(ext) /\ ext.phase = "setup")

Passthrough(ext) ==
  \/ (ext_done(ext) \/ ext.phase = "idle")   /\ pt_setup_done' = FALSE
  \/ grant(ext) /\ ~ext_done(ext)            /\ pt_setup_done' = TRUE
  \/ ext.phase # "idle" /\ ~grant(ext)       /\ UNCHANGED pt_setup_done

-------------------------------------------------------------------------------
(* The FSM.                                                                *)

Goto(from, to) == state = from /\ state' = to

\* Drive the bus in the next cycle.
Drive(from, to, bus) ==
  /\ Goto(from, to)
  /\ fsm_bus' = bus
  /\ rtc_trig' = FALSE

\* A state that leaves the bus alone.
Quiet(from, to) == Drive(from, to, IdleBus)

Idle ==
  /\ \/ nRTCRST /\ ~rtc_enabled /\ Quiet("S_IDLE", "S_ENABLE_SETUP")
     \/ nRTCRST /\ rtc_enabled  /\ Quiet("S_IDLE", "S_READ_SETUP")
     \/ ~nRTCRST /\ Quiet("S_IDLE", "S_IDLE")
  /\ UNCHANGED << alarm_target, rtc_enabled, ctrl_time_value >>

EnableSetup ==
  /\ Drive("S_ENABLE_SETUP", "S_ENABLE_ACCESS", Write("setup", "RTCCR", 1))
  /\ UNCHANGED << alarm_target, rtc_enabled, ctrl_time_value >>

EnableAccess ==
  /\ Drive("S_ENABLE_ACCESS", "S_READ_SETUP", Write("access", "RTCCR", 1))
  /\ rtc_enabled' = TRUE
  /\ UNCHANGED << alarm_target, ctrl_time_value >>

ReadTime ==
  /\ \/ Drive("S_READ_SETUP", "S_READ_ACCESS", Read("setup", "RTCDR"))
     \/ Drive("S_READ_ACCESS", "S_READ_CAPTURE", Read("access", "RTCDR"))
  /\ UNCHANGED << alarm_target, rtc_enabled, ctrl_time_value >>

Capture(rtc_prdata) ==
  /\ Quiet("S_READ_CAPTURE", "S_CALC")
  /\ ctrl_time_value' = rtc_prdata
  /\ UNCHANGED << alarm_target, rtc_enabled >>

\* (bug variant) the new alarm is computed from the old one, not from the time
CalcFromTarget(alarm_offset) ==
  /\ Quiet("S_CALC", "S_MATCH_SETUP")
  /\ alarm_target' = (alarm_target + alarm_offset) % TimeMod
  /\ UNCHANGED << rtc_enabled, ctrl_time_value >>

Calc(alarm_offset) ==
  /\ Quiet("S_CALC", "S_MATCH_SETUP")
  /\ alarm_target' = (ctrl_time_value + alarm_offset) % TimeMod
  /\ UNCHANGED << rtc_enabled, ctrl_time_value >>

WriteMatch ==
  /\ \/ Drive("S_MATCH_SETUP", "S_MATCH_ACCESS", Write("setup", "RTCMR", alarm_target))
     \/ Drive("S_MATCH_ACCESS", "S_IMSC_SETUP", Write("access", "RTCMR", alarm_target))
  /\ UNCHANGED << alarm_target, rtc_enabled, ctrl_time_value >>

Unmask ==
  /\ \/ Drive("S_IMSC_SETUP", "S_IMSC_ACCESS", Write("setup", "RTCIMSC", 1))
     \/ Drive("S_IMSC_ACCESS", "S_WAITING", Write("access", "RTCIMSC", 1))
  /\ UNCHANGED << alarm_target, rtc_enabled, ctrl_time_value >>

\* (bug variant) the alarm is serviced whether polling is enabled or not
WaitingAlways(ext, RTCINTR, poll_enable) ==
  /\ \/ RTCINTR /\ ~grant(ext) /\ Quiet("S_WAITING", "S_ICR_SETUP")
     \/ ~(RTCINTR /\ ~grant(ext)) /\ Quiet("S_WAITING", "S_WAITING")
  /\ UNCHANGED << alarm_target, rtc_enabled, ctrl_time_value >>

\* (bug variant) only an interrupt that arrives while parked is serviced
WaitingForEdge(ext, RTCINTR, poll_enable) ==
  /\ LET service == RTCINTR /\ ~ctrl_intr_flag /\ ~grant(ext) /\ poll_enable
     IN \/ service  /\ Quiet("S_WAITING", "S_ICR_SETUP")
        \/ ~service /\ Quiet("S_WAITING", "S_WAITING")
  /\ UNCHANGED << alarm_target, rtc_enabled, ctrl_time_value >>

\* Parked: the alarm is serviced when polling is enabled and no external
\* transfer has the bus.
Waiting(ext, RTCINTR, poll_enable) ==
  /\ LET service == RTCINTR /\ ~grant(ext) /\ poll_enable
     IN \/ service  /\ Quiet("S_WAITING", "S_ICR_SETUP")
        \/ ~service /\ Quiet("S_WAITING", "S_WAITING")
  /\ UNCHANGED << alarm_target, rtc_enabled, ctrl_time_value >>

\* (bug variant) RTCICR gets only the SETUP cycle of the write
ClearInterruptTorn ==
  /\ \/ Drive("S_ICR_SETUP", "S_ICR_ACCESS", Write("setup", "RTCICR", 1))
     \/ Drive("S_ICR_ACCESS", "S_PULSE_TRIG", IdleBus)
  /\ UNCHANGED << alarm_target, rtc_enabled, ctrl_time_value >>

ClearInterrupt ==
  /\ \/ Drive("S_ICR_SETUP", "S_ICR_ACCESS", Write("setup", "RTCICR", 1))
     \/ Drive("S_ICR_ACCESS", "S_PULSE_TRIG", Write("access", "RTCICR", 1))
  /\ UNCHANGED << alarm_target, rtc_enabled, ctrl_time_value >>

PulseTrig ==
  /\ Goto("S_PULSE_TRIG", "S_IDLE")
  /\ rtc_trig' = TRUE
  /\ fsm_bus' = IdleBus
  /\ UNCHANGED << alarm_target, rtc_enabled, ctrl_time_value >>

\* One rising edge of PCLK with these inputs; rtc_prdata and RTCINTR are the
\* PL031's.
Clk(ext, rtc_prdata, RTCINTR, alarm_offset, poll_enable) ==
  /\ Passthrough(ext)
  /\ ctrl_intr_flag' = RTCINTR
  /\ \/ Idle
     \/ EnableSetup
     \/ EnableAccess
     \/ ReadTime
     \/ Capture(rtc_prdata)
     \/ Calc(alarm_offset)
     \/ WriteMatch
     \/ Unmask
     \/ Waiting(ext, RTCINTR, poll_enable)
     \/ ClearInterrupt
     \/ PulseTrig
  /\ UNCHANGED rstVars

\* One rising edge of CLK1HZ: nRTCRST is released on the second after nPOR.
Tick == /\ nRTCRST_ff1' = TRUE
        /\ nRTCRST_ff2' = nRTCRST_ff1
        /\ UNCHANGED << fsmVars, ctrl_intr_flag, pt_setup_done >>

Init == /\ state = "S_IDLE"
        /\ fsm_bus = IdleBus
        /\ alarm_target = 0
        /\ rtc_enabled = FALSE
        /\ ctrl_time_value = 0
        /\ rtc_trig = FALSE
        /\ ctrl_intr_flag = FALSE
        /\ pt_setup_done = FALSE
        /\ nRTCRST_ff1 = FALSE
        /\ nRTCRST_ff2 = FALSE

ClearRegs == /\ state' = "S_IDLE"
             /\ fsm_bus' = IdleBus
             /\ alarm_target' = 0
             /\ rtc_enabled' = FALSE
             /\ ctrl_time_value' = 0
             /\ rtc_trig' = FALSE
             /\ ctrl_intr_flag' = FALSE
             /\ pt_setup_done' = FALSE

\* PRESETn clears all but the reset of the PL031, nPOR that one too.
Reset   == ClearRegs /\ UNCHANGED rstVars
PowerOn == ClearRegs /\ nRTCRST_ff1' = FALSE /\ nRTCRST_ff2' = FALSE
===============================================================================
