---------------------------- MODULE SarAdcProofs ----------------------------
(***************************************************************************)
(* Proofs about SarAdc, for every width of the result and of the trim,     *)
(* every number of calibration comparisons and every set of inputs.  The   *)
(* prover has no theory of exponentials: SarAdc assumes PowersOfTwo of its *)
(* constants, which TLC evaluates.                                         *)
(***************************************************************************)
EXTENDS SarAdc, TLAPS

-------------------------------------------------------------------------------
(* The inductive invariant.                                                *)

Types == /\ state \in Sar!States
         /\ calibrate \in BOOLEAN /\ conv_is_cal \in BOOLEAN
         /\ mask \in Nat /\ dig_result \in Nat
         /\ trim_val \in Nat /\ trim_mask \in Nat
         /\ held \in Inputs

\* A result is flagged only between conversions and while the next one samples.
ValidInv == res_valid => state \in {"sWait", "sSample"}

\* The trim bit on trial is one bit, and there is none outside a calibration.
TrimInv == IF state = "sCal" THEN \E k \in 0 .. TrimBits - 1 : trim_mask = 2 ^ k
           ELSE trim_mask = 0

\* What the result bits are at each state of a conversion.  While it runs,
\* the bits decided so far end at the bit on trial, which is one bit.
SearchInv ==
  /\ state \in {"sSample", "sCal"} => dig_result = 0
  /\ state = "sSample" => mask = Sar!Msb
  /\ state = "sCal" => conv_is_cal
  /\ state = "sConv" =>
       /\ ~conv_is_cal
       /\ \E k \in 0 .. NBits - 1 : mask = 2 ^ k
       /\ \E q \in Nat : dig_result = (2 * mask) * q
       /\ dig_result + 2 * mask <= 2 ^ NBits
       /\ dig_result <= IdealCode(held)
       /\ IdealCode(held) < dig_result + 2 * mask
  /\ ConversionIsIdeal

Inv == Types /\ ValidInv /\ TrimInv /\ SearchInv

-------------------------------------------------------------------------------
(* Arithmetic.                                                             *)

LEMMA Multiple ==
  ASSUME NEW m \in Nat \ {0}, NEW q \in Nat, NEW x \in Nat, x = m * q
  PROVE  x \div m = q /\ x % m = 0
BY SMT

LEMMA Even == ASSUME NEW q \in Nat PROVE (2 * q) % 2 = 0 /\ (2 * q) \div 2 = q
BY SMT

\* A power of two is one or twice a power of two.
LEMMA HalfPower ==
  ASSUME NEW n \in Nat, n <= NBits + TrimBits, NEW k \in 0 .. n - 1
  PROVE  /\ 2 ^ k \in Nat \ {0}
         /\ IF k = 0 THEN 2 ^ k = 1
            ELSE /\ k - 1 \in 0 .. n - 1
                 /\ (2 ^ k) % 2 = 0
                 /\ (2 ^ k) \div 2 = 2 ^ (k - 1)
                 /\ 2 ^ k = 2 * 2 ^ (k - 1)
<1>1. 2 ^ k \in Nat \ {0}
  BY PowersOfTwo, AdcAssumption
<1>2. CASE k = 0
  <2>1. 2 ^ 0 = 1
    BY SMT
  <2> QED
    BY <1>1, <1>2, <2>1
<1>3. CASE k # 0
  <2>1. k - 1 \in 0 .. n - 1 /\ k - 1 \in 0 .. NBits + TrimBits /\ (k - 1) + 1 = k
    BY <1>3, AdcAssumption
  <2>2. 2 ^ (k - 1) \in Nat /\ 2 ^ k = 2 * 2 ^ (k - 1)
    BY <2>1, PowersOfTwo
  <2> QED
    BY <1>1, <1>3, <2>1, <2>2, Even
<1> QED
  BY <1>2, <1>3

LEMMA MsbPower ==
  /\ Sar!Msb \in Nat \ {0}
  /\ Sar!Msb = 2 ^ (NBits - 1)
  /\ 2 ^ NBits = 2 * Sar!Msb
  /\ 2 ^ NBits \in Nat \ {0}
  /\ 2 ^ TrimBits \in Nat \ {0}
  /\ Sar!TrimMsb = 2 ^ (TrimBits - 1)
<1>1. NBits - 1 \in 0 .. NBits + TrimBits /\ (NBits - 1) + 1 = NBits
      /\ NBits \in 0 .. NBits + TrimBits /\ TrimBits \in 0 .. NBits + TrimBits
  BY AdcAssumption
<1> QED
  BY <1>1, PowersOfTwo DEF Sar!Msb, Sar!TrimMsb

\* The trial bit lies below the bits decided: setting it adds it.
LEMMA WithTrialBit ==
  ASSUME NEW m \in Nat \ {0}, NEW q \in Nat, NEW x \in Nat, x = (2 * m) * q
  PROVE  Sar!WithBit(x, m) = x + m
<1>1. x = m * (2 * q)
  BY SMT
<1>2. x \div m = 2 * q
  BY <1>1, Multiple
<1> QED
  BY <1>2, Even DEF Sar!WithBit

LEMMA WithBitNat ==
  ASSUME NEW x \in Nat, NEW m \in Nat
  PROVE  Sar!WithBit(x, m) \in Nat
BY DEF Sar!WithBit

-------------------------------------------------------------------------------
(* The ideal code is a code.                                               *)

LEMMA TrimOffsetInt == Types => TrimOffset \in Int
BY MsbPower, WithBitNat DEF Types, TrimOffset, Sar!trima, Sar!trimb

LEMMA IdealInRange ==
  ASSUME Types, NEW v \in Int
  PROVE  IdealCode(v) \in Nat /\ IdealCode(v) < 2 ^ NBits
BY TrimOffsetInt, MsbPower DEF IdealCode, MaxCode

-------------------------------------------------------------------------------
(* Inv holds initially and after a reset, and every clock keeps it.        *)

LEMMA InitInv == AdcInit => Inv
<1> SUFFICES ASSUME AdcInit PROVE Inv
  OBVIOUS
<1>1. Types
  BY DEF AdcInit, Types, Sar!Init, Sar!States
<1>2. ValidInv /\ TrimInv /\ SearchInv
  BY DEF AdcInit, ValidInv, TrimInv, SearchInv, ConversionIsIdeal, Sar!Init
<1> QED
  BY <1>1, <1>2 DEF Inv

LEMMA ResetInv == ASSUME Inv, NEW v \in Inputs, Reset(v) PROVE Inv'
<1>1. Types'
  BY DEF Reset, Types, Inv, Hold, Sar!Reset, Sar!States
<1>2. ValidInv' /\ TrimInv' /\ SearchInv'
  BY DEF Reset, ValidInv, TrimInv, SearchInv, ConversionIsIdeal, Sar!Reset
<1> QED
  BY <1>1, <1>2 DEF Inv

\* The steps that begin nothing and end nothing.
LEMMA InitTrimInv ==
  ASSUME Inv, NEW v \in Inputs, NEW en \in BOOLEAN, NEW cal \in BOOLEAN,
         AdcClk(en, cal, v), Sar!InitTrim
  PROVE  Inv'
<1>1. Types'
  BY MsbPower, PowersOfTwo, AdcAssumption, HalfPower
     DEF AdcClk, Types, Inv, Hold, Sar!InitTrim, Sar!States, Sar!TrimMsb
<1>2. ValidInv' /\ TrimInv' /\ SearchInv'
  BY DEF Inv, ValidInv, TrimInv, SearchInv, ConversionIsIdeal, Sar!InitTrim
<1> QED
  BY <1>1, <1>2 DEF Inv

LEMMA StartInv ==
  ASSUME Inv, NEW v \in Inputs, NEW en \in BOOLEAN, NEW cal \in BOOLEAN,
         AdcClk(en, cal, v), Sar!start_conv(cal), state \in {"sWait", "sDone"}
  PROVE  Inv'
<1>1. Types'
  BY MsbPower DEF AdcClk, Types, Inv, Hold, Sar!start_conv, Sar!States
<1>2. ValidInv' /\ TrimInv' /\ SearchInv'
  BY DEF Inv, ValidInv, TrimInv, SearchInv, ConversionIsIdeal, Sar!start_conv, Sar!Msb
<1> QED
  BY <1>1, <1>2 DEF Inv

LEMMA WaitInv ==
  ASSUME Inv, NEW v \in Inputs, NEW en \in BOOLEAN, NEW cal \in BOOLEAN,
         AdcClk(en, cal, v), Sar!Wait(en, cal)
  PROVE  Inv'
<1>1. CASE en
  BY <1>1, StartInv DEF Sar!Wait
<1>2. CASE ~en
  <2>1. UNCHANGED << state, calibrate, mask, dig_result, res_valid, trim_mask, trim_val >>
        /\ state = "sWait"
    BY <1>2 DEF Sar!Wait, Sar!vars
  <2>2. Types'
    BY <2>1 DEF AdcClk, Types, Inv, Hold
  <2>3. ValidInv' /\ TrimInv' /\ SearchInv'
    BY <2>1 DEF Inv, ValidInv, TrimInv, SearchInv, ConversionIsIdeal
  <2> QED
    BY <2>2, <2>3 DEF Inv
<1> QED
  BY <1>1, <1>2

LEMMA DoneInv ==
  ASSUME Inv, NEW v \in Inputs, NEW en \in BOOLEAN, NEW cal \in BOOLEAN,
         AdcClk(en, cal, v), Sar!Done(en, cal)
  PROVE  Inv'
<1>1. CASE en
  BY <1>1, StartInv DEF Sar!Done
<1>2. CASE ~en
  <2>1. /\ state = "sDone" /\ state' = "sWait"
        /\ UNCHANGED << calibrate, mask, dig_result, trim_mask, trim_val >>
        /\ res_valid'
    BY <1>2 DEF Sar!Done
  <2>2. Types'
    BY <2>1 DEF AdcClk, Types, Inv, Hold, Sar!States
  <2>3. ValidInv' /\ TrimInv' /\ SearchInv'
    BY <2>1 DEF Inv, ValidInv, TrimInv, SearchInv, ConversionIsIdeal
  <2> QED
    BY <2>2, <2>3 DEF Inv
<1> QED
  BY <1>1, <1>2

\* The end of the sampling: the search of a conversion begins with the whole
\* range, that of a calibration with the highest trim bit.
LEMMA SampleInv ==
  ASSUME Inv, NEW v \in Inputs, NEW en \in BOOLEAN, NEW cal \in BOOLEAN,
         AdcClk(en, cal, v), Sar!Sample
  PROVE  Inv'
<1>1. Types'
  BY MsbPower, PowersOfTwo, AdcAssumption
     DEF AdcClk, Types, Inv, Hold, Sar!Sample, Sar!States, Sar!TrimMsb
<1>2. ValidInv'
  BY DEF ValidInv, Sar!Sample
<1>3. CASE calibrate
  <2>1. state = "sSample" /\ state' = "sCal" /\ trim_mask' = Sar!TrimMsb
        /\ dig_result' = dig_result /\ conv_is_cal' = calibrate
    BY <1>3 DEF AdcClk, Sar!Sample
  <2>2. TrimBits - 1 \in 0 .. TrimBits - 1
    BY AdcAssumption
  <2>3. TrimInv' /\ SearchInv'
    BY <1>3, <2>1, <2>2, MsbPower DEF Inv, TrimInv, SearchInv, ConversionIsIdeal
  <2> QED
    BY <1>1, <1>2, <2>3 DEF Inv
<1>4. CASE ~calibrate
  <2>1. /\ state = "sSample" /\ state' = "sConv" /\ conv_is_cal' = calibrate
        /\ UNCHANGED << trim_mask, trim_val, mask, dig_result >>
    BY <1>4 DEF AdcClk, Sar!Sample
  <2>2. mask' = Sar!Msb /\ dig_result' = 0 /\ trim_mask' = 0
    BY <2>1 DEF Inv, SearchInv, TrimInv
  <2>3. mask' = 2 ^ (NBits - 1) /\ NBits - 1 \in 0 .. NBits - 1
    BY <2>2, MsbPower, AdcAssumption
  <2>4. IdealCode(held') \in Nat /\ IdealCode(held') < 2 ^ NBits
    BY <1>1, IdealInRange, AdcAssumption DEF Inv, Types
  <2>5. TrimOffset' = TrimOffset
    BY <2>1 DEF TrimOffset, Sar!trima, Sar!trimb
  <2>6. IdealCode(held)' = IdealCode(held')
    BY <2>5 DEF IdealCode
  <2>7. dig_result' = (2 * mask') * 0
    BY <2>2, <1>1 DEF Types
  <2>8. TrimInv' /\ ConversionIsIdeal'
    BY <2>1, <2>2 DEF TrimInv, ConversionIsIdeal
  <2>9. SearchInv'
    BY <1>4, <2>1, <2>2, <2>3, <2>4, <2>6, <2>7, <2>8, MsbPower DEF SearchInv
  <2> QED
    BY <1>1, <1>2, <2>8, <2>9 DEF Inv
<1> QED
  BY <1>3, <1>4

\* One comparison of a conversion: the half of the interval that holds the
\* ideal code is kept, and at the last bit it is that code alone.
LEMMA ConvInv ==
  ASSUME Inv, NEW v \in Inputs, NEW en \in BOOLEAN, NEW cal \in BOOLEAN,
         AdcClk(en, cal, v), Sar!Conv(Comparator(v))
  PROVE  Inv'
<1> DEFINE below == Sar!Msb + held - TrimOffset - 1
           kept == IF Comparator(v) THEN dig_result + mask ELSE dig_result
<1>1. /\ state = "sConv" /\ ~conv_is_cal /\ trim_mask = 0
      /\ mask \in Nat /\ dig_result \in Nat /\ held \in Int
      /\ dig_result + 2 * mask <= 2 ^ NBits
      /\ dig_result <= IdealCode(held) /\ IdealCode(held) < dig_result + 2 * mask
  BY AdcAssumption DEF Inv, Types, TrimInv, SearchInv, Sar!Conv
<1>2. PICK k \in 0 .. NBits - 1 : mask = 2 ^ k
  BY <1>1 DEF Inv, SearchInv
<1>3. PICK q \in Nat : dig_result = (2 * mask) * q
  BY <1>1 DEF Inv, SearchInv
<1>4. /\ mask \in Nat \ {0}
      /\ IF k = 0 THEN mask = 1
         ELSE /\ k - 1 \in 0 .. NBits - 1 /\ mask % 2 = 0
              /\ mask \div 2 = 2 ^ (k - 1) /\ mask = 2 * 2 ^ (k - 1)
  BY <1>2, HalfPower, AdcAssumption
<1>5. Sar!WithBit(dig_result, mask) = dig_result + mask
  BY <1>1, <1>3, <1>4, WithTrialBit
<1>6. TrimOffset \in Int /\ below \in Int
  BY <1>1, TrimOffsetInt, MsbPower DEF Inv
<1>7. Comparator(v) <=> below >= dig_result + mask
  BY <1>1, <1>5, <1>6, MsbPower DEF Comparator, Sar!sample, Sar!ctlp
<1>8. IdealCode(held) = IF below < 0 THEN 0
                        ELSE IF below > 2 ^ NBits - 1 THEN 2 ^ NBits - 1 ELSE below
  BY DEF IdealCode, MaxCode
<1>9. kept <= IdealCode(held) /\ IdealCode(held) < kept + mask
  BY <1>1, <1>4, <1>6, <1>7, <1>8, MsbPower
<1>10. /\ dig_result' = kept /\ mask' = mask \div 2
       /\ IF mask % 2 = 1 THEN state' = "sDone" ELSE state' = "sConv"
       /\ UNCHANGED << calibrate, result_q, res_valid, trim_mask, trim_val,
                       held, conv_is_cal >>
  <2>1. ~Sar!sample /\ conv_is_cal' = conv_is_cal
    BY <1>1 DEF AdcClk, Sar!sample
  <2>2. held' = held
    BY <2>1 DEF AdcClk, Hold, Sar!SampleFalls
  <2>3. dig_result' = kept
    BY <1>5 DEF Sar!Conv
  <2>4. IF mask % 2 = 1 THEN state' = "sDone" ELSE state' = "sConv"
    BY <1>1 DEF Sar!Conv, Sar!Finish
  <2> QED
    BY <2>1, <2>2, <2>3, <2>4 DEF Sar!Conv
<1>11. IdealCode(held)' = IdealCode(held)
  <2>1. TrimOffset' = TrimOffset
    BY <1>10 DEF TrimOffset, Sar!trima, Sar!trimb
  <2> QED
    BY <1>10, <2>1 DEF IdealCode
<1>12. Types'
  <2>1. kept \in Nat /\ mask \div 2 \in Nat
    BY <1>1
  <2> QED
    BY <1>10, <2>1 DEF Inv, Types, Sar!States
<1>13. ValidInv' /\ TrimInv'
  BY <1>1, <1>10 DEF Inv, ValidInv, TrimInv
<1>14. SearchInv'
  <2>1. CASE k = 0
    <3>1. mask = 1 /\ mask % 2 = 1 /\ state' = "sDone"
      BY <1>4, <1>10, <2>1
    <3>2. dig_result' = IdealCode(held)
      BY <1>9, <1>10, <3>1, <1>1, <1>8, <1>6, MsbPower
    <3> QED
      BY <1>1, <1>10, <1>11, <3>1, <3>2 DEF SearchInv, ConversionIsIdeal
  <2>2. CASE k # 0
    <3>1. /\ state' = "sConv" /\ mask = 2 * mask' /\ mask' = 2 ^ (k - 1)
          /\ k - 1 \in 0 .. NBits - 1
      BY <1>4, <1>10, <2>2
    <3>2. kept + mask <= 2 ^ NBits
      BY <1>1, MsbPower
    <3>3. \E r \in Nat : kept = mask * r
      <4>1. kept = mask * (IF Comparator(v) THEN 2 * q + 1 ELSE 2 * q)
        BY <1>3, <1>4
      <4> QED
        BY <4>1
    <3> QED
      BY <1>1, <1>9, <1>10, <1>11, <3>1, <3>2, <3>3 DEF SearchInv, ConversionIsIdeal
  <2> QED
    BY <2>1, <2>2
<1> QED
  BY <1>12, <1>13, <1>14 DEF Inv

\* A comparison or a decision of a calibration.
LEMMA CalInv ==
  ASSUME Inv, NEW v \in Inputs, NEW en \in BOOLEAN, NEW cal \in BOOLEAN,
         AdcClk(en, cal, v), Sar!Cal(Comparator(v))
  PROVE  Inv'
<1>1. /\ state = "sCal" /\ conv_is_cal /\ dig_result = 0 /\ ~res_valid
      /\ UNCHANGED << mask, dig_result, res_valid, conv_is_cal >>
  BY DEF Inv, ValidInv, SearchInv, AdcClk, Sar!Cal
<1>2. held' \in Inputs
  BY DEF Inv, Types, AdcClk, Hold
<1>3. CASE Sar!CalCompare(Comparator(v))
  <2>1. UNCHANGED << state, calibrate, trim_mask, trim_val >>
    BY <1>3 DEF Sar!CalCompare
  <2>2. Types'
    BY <1>1, <1>2, <2>1 DEF Inv, Types
  <2>3. ValidInv' /\ TrimInv' /\ SearchInv'
    BY <1>1, <2>1 DEF Inv, ValidInv, TrimInv, SearchInv, ConversionIsIdeal
  <2> QED
    BY <2>2, <2>3 DEF Inv
<1>4. CASE Sar!CalDecide
  <2>1. PICK k \in 0 .. TrimBits - 1 : trim_mask = 2 ^ k
    BY <1>1 DEF Inv, TrimInv
  <2>2. /\ trim_mask \in Nat \ {0}
        /\ IF k = 0 THEN trim_mask = 1
           ELSE /\ k - 1 \in 0 .. TrimBits - 1 /\ trim_mask % 2 = 0
                /\ trim_mask \div 2 = 2 ^ (k - 1)
    BY <2>1, HalfPower, AdcAssumption
  <2>3. Sar!trima \in Nat
    BY WithBitNat DEF Inv, Types, Sar!trima
  <2>4. /\ trim_mask' = trim_mask \div 2
        /\ trim_val' \in Nat
        /\ calibrate' \in BOOLEAN
        /\ IF trim_mask % 2 = 1 THEN state' = "sDone" ELSE state' = "sCal"
    <3>1. trim_val' \in Nat /\ trim_mask' = trim_mask \div 2
      BY <1>4, <2>3 DEF Sar!CalDecide, Inv, Types
    <3>2. calibrate' \in BOOLEAN
      BY <1>4 DEF Sar!CalDecide, Inv, Types
    <3>3. IF trim_mask % 2 = 1 THEN state' = "sDone" ELSE state' = "sCal"
      BY <1>1, <1>4 DEF Sar!CalDecide, Sar!Finish
    <3> QED
      BY <3>1, <3>2, <3>3
  <2>5. Types'
    <3>1. trim_mask \div 2 \in Nat /\ state' \in Sar!States
      BY <2>2, <2>4 DEF Sar!States
    <3> QED
      BY <1>1, <1>2, <2>4, <3>1 DEF Inv, Types
  <2>6. ValidInv'
    BY <1>1 DEF ValidInv
  <2>7. TrimInv'
    <3>1. CASE k = 0
      BY <2>2, <2>4, <3>1 DEF TrimInv
    <3>2. CASE k # 0
      BY <2>2, <2>4, <3>2 DEF TrimInv
    <3> QED
      BY <3>1, <3>2
  <2>8. SearchInv'
    <3>1. state' \in {"sDone", "sCal"}
      BY <2>4
    <3> QED
      BY <1>1, <3>1 DEF SearchInv, ConversionIsIdeal
  <2> QED
    BY <2>5, <2>6, <2>7, <2>8 DEF Inv
<1> QED
  BY <1>3, <1>4 DEF Sar!Cal

LEMMA NextInv == Inv /\ [AdcNext]_adcVars => Inv'
<1> SUFFICES ASSUME Inv, [AdcNext]_adcVars PROVE Inv'
  OBVIOUS
<1>1. ASSUME NEW en \in BOOLEAN, NEW cal \in BOOLEAN, NEW v \in Inputs, AdcClk(en, cal, v)
      PROVE  Inv'
  <2>1. CASE Sar!InitTrim
    BY <1>1, <2>1, InitTrimInv
  <2>2. CASE Sar!Wait(en, cal)
    BY <1>1, <2>2, WaitInv
  <2>3. CASE Sar!Sample
    BY <1>1, <2>3, SampleInv
  <2>4. CASE Sar!Conv(Comparator(v))
    BY <1>1, <2>4, ConvInv
  <2>5. CASE Sar!Cal(Comparator(v))
    BY <1>1, <2>5, CalInv
  <2>6. CASE Sar!Done(en, cal)
    BY <1>1, <2>6, DoneInv
  <2> QED
    BY <1>1, <2>1, <2>2, <2>3, <2>4, <2>5, <2>6 DEF AdcClk, Sar!Clk
<1>2. ASSUME NEW v \in Inputs, Reset(v) PROVE Inv'
  BY <1>2, ResetInv
<1>3. CASE UNCHANGED adcVars
  <2>1. Types' /\ ValidInv' /\ TrimInv'
    BY <1>3 DEF Inv, Types, ValidInv, TrimInv, adcVars, sarVars
  <2>2. TrimOffset' = TrimOffset
    BY <1>3 DEF TrimOffset, Sar!trima, Sar!trimb, adcVars, sarVars
  <2>3. IdealCode(held)' = IdealCode(held)
    BY <1>3, <2>2 DEF IdealCode, adcVars, sarVars
  <2>4. SearchInv'
    BY <1>3, <2>3 DEF Inv, SearchInv, ConversionIsIdeal, adcVars, sarVars
  <2> QED
    BY <2>1, <2>4 DEF Inv
<1> QED
  BY <1>1, <1>2, <1>3 DEF AdcNext

\* The inductive invariant holds: at every state of sarlogic the decided bits are
\* an interval of codes that contains the ideal one.
THEOREM InvHolds == AdcSpec => []Inv
<1>1. AdcInit => Inv
  BY InitInv
<1>2. Inv /\ [AdcNext]_adcVars => Inv'
  BY NextInv
<1> QED
  BY <1>1, <1>2, PTL DEF AdcSpec

-------------------------------------------------------------------------------
(* The properties.                                                         *)

\* A completed conversion is the ideal code of the input that was held for it
\* (sar_afe and the sConv and sDone states of sarlogic), whatever the widths.
THEOREM ConversionTheorem == AdcSpec => []ConversionIsIdeal
<1>1. Inv => ConversionIsIdeal
  BY DEF Inv, SearchInv
<1> QED
  BY <1>1, InvHolds, PTL

\* The interval the search has left always holds the ideal code (sConv).
THEOREM SearchTheorem == AdcSpec => []SearchInterval
<1>1. Inv => SearchInterval
  <2> SUFFICES ASSUME Inv, state = "sConv"
      PROVE  /\ mask > 0 /\ dig_result % (2 * mask) = 0
             /\ dig_result <= IdealCode(held)
             /\ IdealCode(held) < dig_result + 2 * mask
    BY DEF SearchInterval
  <2>1. PICK k \in 0 .. NBits - 1 : mask = 2 ^ k
    BY DEF Inv, SearchInv
  <2>2. mask \in Nat \ {0} /\ dig_result \in Nat
    BY <2>1, HalfPower, AdcAssumption DEF Inv, Types
  <2>3. PICK q \in Nat : dig_result = (2 * mask) * q
    BY DEF Inv, SearchInv
  <2>4. dig_result % (2 * mask) = 0
    BY <2>2, <2>3, Multiple
  <2> QED
    BY <2>2, <2>4 DEF Inv, SearchInv
<1> QED
  BY <1>1, InvHolds, PTL

\* The result that the wrapper captures changes only with a rise of valid.
THEOREM ResultTheorem == AdcSpec => ResultChangesWithValid
<1>1. Inv /\ [AdcNext]_adcVars
        => [result_q' # result_q => (~res_valid /\ res_valid') \/ Sar!Reset]_adcVars
  <2> SUFFICES ASSUME Inv, AdcNext, result_q' # result_q
      PROVE  (~res_valid /\ res_valid') \/ Sar!Reset
    OBVIOUS
  <2>1. ASSUME NEW en \in BOOLEAN, NEW cal \in BOOLEAN, NEW v \in Inputs, AdcClk(en, cal, v)
        PROVE  ~res_valid /\ res_valid'
    <3>1. Sar!Done(en, cal)
      BY <2>1 DEF AdcClk, Sar!Clk, Sar!InitTrim, Sar!Wait, Sar!Sample, Sar!Conv, Sar!Cal, Sar!vars
    <3> QED
      BY <3>1 DEF Sar!Done, Inv, ValidInv
  <2>2. ASSUME NEW v \in Inputs, Reset(v) PROVE Sar!Reset
    BY <2>2 DEF Reset
  <2> QED
    BY <2>1, <2>2 DEF AdcNext
<1> QED
  BY <1>1, InvHolds, PTL DEF AdcSpec, ResultChangesWithValid

===============================================================================
