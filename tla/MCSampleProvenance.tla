------------------------- MODULE MCSampleProvenance -------------------------
(* SampleProvenance on the smallest sampling path; the RTC triggers.  With  *)
(* one result bit and one trim bit a calibration outlasts a conversion, as  *)
(* in the real converter.                                                   *)
EXTENDS SampleProvenance

MCInputs    == {2}
\* A master that samples and drains.
Sampling    == {"measurement_lo_rd", "adc_trigger_wr"}
===============================================================================
