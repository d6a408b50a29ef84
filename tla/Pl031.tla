--------------------------------- MODULE Pl031 ---------------------------------
(***************************************************************************)
(* The ARM PL031 real-time clock, which is not in the repository: modelled *)
(* from how rtc_control_2.v, its test benches (RTC/arm_rtc_tb.v,           *)
(* RTC/tb_rtc_control.v) and the firmware use it.  A counter of seconds is *)
(* compared for equality with a match register; the raw interrupt is       *)
(* latched, masked by RTCIMSC and cleared through RTCICR.  APB registers   *)
(* are read and written in the ACCESS cycle.                               *)
(*                                                                         *)
(* Whether a match that comes about by a write of RTCMR or RTCLR, and not  *)
(* by the counter reaching it, raises the interrupt is left open.          *)
(***************************************************************************)
EXTENDS Naturals

CONSTANT TimeMod   \* see RtcControl

VARIABLES
  counter,   \* RTCDR
  match,     \* RTCMR
  running,   \* RTCCR
  imsc,      \* RTCIMSC
  ris        \* RTCRIS

vars == << counter, match, running, imsc, ris >>

Time == 0 .. TimeMod - 1

TypeOK == /\ {counter, match} \subseteq Time
          /\ {running, imsc, ris} \subseteq BOOLEAN

RTCINTR == ris /\ imsc

\* Read data is there in the ACCESS cycle only.
Prdata(bus) ==
  IF bus.phase = "access" /\ ~bus.write
  THEN CASE bus.reg = "RTCDR" -> counter
         [] bus.reg = "RTCMR" -> match
         [] OTHER             -> 0
  ELSE 0

WriteReg(bus, reg) == bus.phase = "access" /\ bus.write /\ bus.reg = reg

\* One rising edge of PCLK with this bus.
Clk(bus) ==
  /\ counter' = IF WriteReg(bus, "RTCLR") THEN bus.data ELSE counter
  /\ match'   = IF WriteReg(bus, "RTCMR") THEN bus.data ELSE match
  /\ running' = (running \/ (WriteReg(bus, "RTCCR") /\ bus.data # 0))
  /\ imsc'    = IF WriteReg(bus, "RTCIMSC") THEN bus.data # 0 ELSE imsc
  /\ \/ /\ ~(WriteReg(bus, "RTCICR") /\ bus.data # 0)
        /\ UNCHANGED ris
     \/ /\ WriteReg(bus, "RTCICR") /\ bus.data # 0
        /\ ris' = FALSE
     \/ /\ WriteReg(bus, "RTCLR") \/ WriteReg(bus, "RTCMR")
        /\ counter' = match'
        /\ ris' = TRUE

\* One rising edge of CLK1HZ.
Tick(nRTCRST) ==
  /\ \/ /\ nRTCRST /\ running
        /\ counter' = (counter + 1) % TimeMod
        /\ ris' = (ris \/ counter' = match)
     \/ /\ ~(nRTCRST /\ running)
        /\ UNCHANGED << counter, ris >>
  /\ UNCHANGED << match, running, imsc >>

Init == /\ counter = 0
        /\ match = 0
        /\ running = FALSE
        /\ imsc = FALSE
        /\ ris = FALSE

\* PRESETn clears the mask; the time and the match register survive, and the
\* counter runs on.  A pending interrupt may survive.
Reset == /\ imsc' = FALSE
         /\ ris' \in {ris, FALSE}
         /\ UNCHANGED << counter, match, running >>

PowerOn == /\ counter' = 0
           /\ match' = 0
           /\ running' = FALSE
           /\ imsc' = FALSE
           /\ ris' = FALSE
===============================================================================
