----------------------------- MODULE SensingDriver -----------------------------
(***************************************************************************)
(* The firmware driver sensing_driver.h against the timing path: the calls *)
(* that set the polling up, pause it and resume it, and the two RTC        *)
(* helpers, which pause the polling, wait for the FSM to park, make their  *)
(* access and resume.  A behaviour has one of two masters: a program that  *)
(* calls the driver, at any time and in any order, or any other master.    *)
(*                                                                         *)
(* Calls that touch neither the RTC nor the polling (trigger, flush,       *)
(* status, drain) belong to SensingWrapper, whose master makes them in     *)
(* every order, and writes adc_cal at any time; here the write of adc_cal  *)
(* is an access that takes its place in sensing_init.                      *)
(***************************************************************************)
EXTENDS RtcPath, Sequences

CONSTANT SENSING_PARK_SETTLE   \* PCLK cycles a helper waits

ASSUME SettleAssumption == SENSING_PARK_SETTLE \in Nat \ {0}

VARIABLES
  driver,   \* this behaviour's master is the driver
  todo,     \* what the driver's call has left to do
  waited,   \* PCLK cycles of the delay that are over
  up        \* the PL031 was out of reset when the call began

fwVars  == << driver, todo, waited, up >>
allVars == << vars, fwVars >>

Access(a, data) == [what |-> a, data |-> data]
Delay == Access("delay", 0)

\* (bug variant) the polling is resumed before the access
sensing_set_timeEarly(v) ==
  << Access("rtc_ctrl_clear", 0), Delay, Access("rtc_ctrl_set", 0), Access("rtc_lr_wr", v) >>

sensing_polling_disable == << Access("rtc_ctrl_clear", 0) >>
sensing_polling_enable  == << Access("rtc_ctrl_set", 0) >>
sensing_init(period)    ==
  << Access("alarm_offset_wr", period), Access("adc_cal_wr", 0), Access("rtc_ctrl_set", 0) >>
sensing_read_time       ==
  << Access("rtc_ctrl_clear", 0), Delay, Access("rtc_dr_rd", 0), Access("rtc_ctrl_set", 0) >>
sensing_set_time(v)     ==
  << Access("rtc_ctrl_clear", 0), Delay, Access("rtc_lr_wr", v), Access("rtc_ctrl_set", 0) >>

Calls == {sensing_polling_disable, sensing_polling_enable, sensing_read_time}
         \cup {sensing_init(p) : p \in Offsets}
         \cup {sensing_set_time(v) : v \in Ctl!Time}

-------------------------------------------------------------------------------
(* The driver's program, in the cycles of PosEdge.                         *)

Begin ==
  /\ todo = <<>> /\ phase' = "idle"
  /\ todo' \in Calls \cup {<<>>}
  /\ up' = (todo' # <<>> /\ Ctl!nRTCRST)
  /\ waited' = 0

sensing_delay ==
  /\ todo # <<>> /\ Head(todo) = Delay /\ phase' = "idle"
  /\ \/ /\ waited < SENSING_PARK_SETTLE
        /\ waited' = waited + 1
        /\ UNCHANGED todo
     \/ /\ waited = SENSING_PARK_SETTLE
        /\ waited' = 0
        /\ todo' = Tail(todo)
  /\ UNCHANGED up

\* An access goes out when the bus is idle; the next thing follows its PREADY.
AccessNext ==
  /\ todo # <<>> /\ Head(todo) # Delay
  /\ phase = "idle" => /\ phase' = "setup"
                       /\ access' = Head(todo).what /\ wdata' = Head(todo).data
  /\ todo' = IF phase = "access" /\ PREADY THEN Tail(todo) ELSE todo
  /\ UNCHANGED << waited, up >>

DPosEdge ==
  /\ PosEdge
  /\ UNCHANGED driver
  /\ \/ driver /\ (Begin \/ sensing_delay \/ AccessNext)
     \/ ~driver /\ UNCHANGED << todo, waited, up >>

DTick == Tick /\ UNCHANGED fwVars

\* The resets of the peripheral are the processor's too.
DReset == /\ Reset \/ PowerOn
          /\ todo' = <<>> /\ waited' = 0 /\ up' = FALSE
          /\ UNCHANGED driver

DInit == /\ Init
         /\ driver \in BOOLEAN
         /\ todo = <<>> /\ waited = 0 /\ up = FALSE

DNext == DPosEdge \/ DTick \/ DReset

DSpec == DInit /\ [][DNext]_allVars

-------------------------------------------------------------------------------
\* "avoids the few-cycle wait-state latency by parking the FSM in WAITING (bus
\* always granted) up front": the access of a helper is never stalled, whatever
\* the FSM was doing when the helper paused the polling and whichever alarm
\* comes during the delay.  It needs the PL031 out of its power-on reset, whose
\* release starts a re-arm at any time.
HelperNeverStalls == driver /\ up => stalled = 0
===============================================================================
