----------------------------- MODULE Dma350Lib -----------------------------
(***************************************************************************)
(* The DMA-350 command library (dma_350_command_lib.c) as bus traffic.     *)
(*                                                                         *)
(* Every library function is a short straight-line program of register     *)
(* reads and writes.  Here a function is an operator that returns that     *)
(* program: the sequence of its bus accesses in the order of the code.     *)
(* Module Dma350 executes the accesses one by one, so that the DMA engine  *)
(* and an interrupt handler can act between any two of them.               *)
(*                                                                         *)
(* Abstraction of the data: a field of a register holds one of two         *)
(* representative values, so a register is the set of its fields that hold *)
(* the second one; a one-bit field is in the set when it reads 1.  A       *)
(* parameter structure p is likewise the set of its members that ask for   *)
(* the second value.                                                       *)
(***************************************************************************)
EXTENDS Naturals, Sequences

(* The fields of the registers (dma_350_reg_typedef.h).  Field names are   *)
(* unique within a frame.                                                  *)

W1SFields == {"ENABLECMD", "CLEARCMD", "DISABLECMD", "STOPCMD", "PAUSECMD",
              "RESUMECMD", "SRCSWTRIGINREQ", "DESSWTRIGINREQ", "SWTRIGOUTACK"}
CmdFields == W1SFields \cup {"SRCSWTRIGINTYPE", "DESSWTRIGINTYPE"}
W1CFlags == {"STAT_DONE", "STAT_ERR", "STAT_DISABLED", "STAT_STOPPED"}
PauseFlags == {"STAT_PAUSED", "STAT_RESUMEWAIT"}
TrigFlags == {"STAT_SRCTRIGINWAIT", "STAT_DESTRIGINWAIT", "STAT_TRIGOUTACKWAIT"}
EndIntrens == {"INTREN_DONE", "INTREN_ERR", "INTREN_DISABLED", "INTREN_STOPPED"}
TrigIntrens == {"INTREN_SRCTRIGINWAIT", "INTREN_DESTRIGINWAIT",
                "INTREN_TRIGOUTACKWAIT"}
CtrlFields == {"TRANSIZE", "CHPRIO", "XTYPE", "YTYPE", "REGRELOADTYPE",
               "DONETYPE", "DONEPAUSEEN", "USESRCTRIGIN", "USEDESTRIGIN",
               "USETRIGOUT", "USEGPO", "USESTREAM"}
SrcAttrs == {"SRCMEMATTRLO", "SRCMEMATTRHI", "SRCSHAREATTR", "SRCNONSECATTR",
             "SRCPRIVATTR"}
DesAttrs == {"DESMEMATTRLO", "DESMEMATTRHI", "DESSHAREATTR", "DESNONSECATTR",
             "DESPRIVATTR"}
SrcTrigCfg == {"SRCTRIGINSEL", "SRCTRIGINTYPE", "SRCTRIGINMODE",
               "SRCTRIGINBLKSIZE"}
DesTrigCfg == {"DESTRIGINSEL", "DESTRIGINTYPE", "DESTRIGINMODE",
               "DESTRIGINBLKSIZE"}
LinkAttrs == {"LINKMEMATTRLO", "LINKMEMATTRHI", "LINKSHAREATTR"}
ErrFields == {"BUSERR", "CFGERR", "SRCTRIGINSELERR", "DESTRIGINSELERR",
              "TRIGOUTSELERR", "STREAMERR", "ERRINFO"}
UnitFlags == {"STAT_ALLCHIDLE", "STAT_ALLCHSTOPPED", "STAT_ALLCHPAUSED"}
UnitIntrens == {"INTREN_ANYCHINTR", "INTREN_ALLCHIDLE", "INTREN_ALLCHSTOPPED",
                "INTREN_ALLCHPAUSED"}
ChCfgFields == {"CHID", "CHIDVLD", "CHPRIV"}
ScfgFields == {"INTREN_SECACCVIO", "RSPTYPE_SECACCVIO", "SEC_CFG_LCK"}
ChSecBits == <<"CHSEC0", "CHSEC1", "CHSEC2">>
TrigInSecBits == <<"TRIGINSEC0", "TRIGINSEC1">>
TrigOutSecBits == <<"TRIGOUTSEC0", "TRIGOUTSEC1">>

\* The registers of a channel, by what they are for, with their fields.
CommandRegs ==
    [CH_CMD |-> CmdFields, CH_STATUS |-> W1CFlags \cup PauseFlags \cup TrigFlags,
     CH_INTREN |-> EndIntrens \cup TrigIntrens, CH_CTRL |-> CtrlFields]
AddressRegs ==
    [CH_SRCADDR |-> {"SRCADDR"}, CH_SRCADDRHI |-> {"SRCADDRHI"},
     CH_DESADDR |-> {"DESADDR"}, CH_DESADDRHI |-> {"DESADDRHI"},
     CH_XSIZE |-> {"SRCXSIZE", "DESXSIZE"},
     CH_XSIZEHI |-> {"SRCXSIZEHI", "DESXSIZEHI"}]
TransferRegs ==
    [CH_SRCTRANSCFG |-> SrcAttrs \cup {"SRCMAXBURSTLEN"},
     CH_DESTRANSCFG |-> DesAttrs \cup {"DESMAXBURSTLEN"},
     CH_XADDRINC |-> {"SRCXADDRINC", "DESXADDRINC"},
     CH_YADDRSTRIDE |-> {"SRCYADDRSTRIDE", "DESYADDRSTRIDE"},
     CH_FILLVAL |-> {"FILLVAL"}, CH_YSIZE |-> {"SRCYSIZE", "DESYSIZE"},
     CH_TMPLTCFG |-> {"SRCTMPLTSIZE", "DESTMPLTSIZE"},
     CH_SRCTMPLT |-> {"SRCTMPLTLSB", "SRCTMPLT"},
     CH_DESTMPLT |-> {"DESTMPLTLSB", "DESTMPLT"}]
TriggerRegs ==
    [CH_SRCTRIGINCFG |-> SrcTrigCfg, CH_DESTRIGINCFG |-> DesTrigCfg,
     CH_TRIGOUTCFG |-> {"TRIGOUTSEL", "TRIGOUTTYPE"},
     CH_GPOEN0 |-> {"GPOEN0"}, CH_GPOVAL0 |-> {"GPOVAL0"},
     CH_STREAMINTCFG |-> {"STREAMTYPE"}]
LinkRegs ==
    [CH_LINKATTR |-> LinkAttrs, CH_AUTOCFG |-> {"CMDRESTARTCNT", "CMDRESTARTINFEN"},
     CH_LINKADDR |-> {"LINKADDREN", "LINKADDR"}, CH_LINKADDRHI |-> {"LINKADDRHI"}]
ErrorRegs == [CH_ERRINFO |-> ErrFields]

\* The unit frame, secure and non-secure (DMASECCTRL_, DMANSECCTRL_TypeDef).
\* CHCFG shows the configuration of the channel that CHPTR selects.
UnitRegs ==
    [STATUS |-> UnitFlags,
     CTRL |-> UnitIntrens \cup {"ALLCHSTOP", "ALLCHPAUSE", "DISMINPWR"},
     CHCFG |-> ChCfgFields]

\* The security configuration frame (DMASECCFG_TypeDef).
SecCfgRegs ==
    [SCFG_CHSEC0 |-> {ChSecBits[i] : i \in DOMAIN ChSecBits},
     SCFG_TRIGINSEC0 |-> {TrigInSecBits[i] : i \in DOMAIN TrigInSecBits},
     SCFG_TRIGOUTSEC0 |-> {TrigOutSecBits[i] : i \in DOMAIN TrigOutSecBits},
     SCFG_CTRL |-> ScfgFields, SCFG_INTRSTATUS |-> {"STAT_SECACCVIO"}]

\* The frames together (DMACH_TypeDef and the unit and security frames).
RegGroups == <<CommandRegs, AddressRegs, TransferRegs, TriggerRegs, LinkRegs,
               ErrorRegs, UnitRegs, SecCfgRegs>>
FieldsOf(reg) == UNION {IF reg \in DOMAIN g THEN g[reg] ELSE {} :
                            g \in {RegGroups[n] : n \in DOMAIN RegGroups}}

-----------------------------------------------------------------------------
(* Bus accesses.  A Write stores the word last read with the fields in     *)
(* `named` replaced by those in `on`.                                      *)

Read(reg) == [op |-> "read", reg |-> reg, named |-> {}, on |-> {}]
Write(reg, named, p) ==
    [op |-> "write", reg |-> reg, named |-> named, on |-> p \cap named]
WriteWord(reg, p) == Write(reg, FieldsOf(reg), p)
Point(ch) == [op |-> "point", reg |-> "CHPTR", named |-> {}, on |-> {}, to |-> ch]
Modify(reg, named, p) == <<Read(reg), Write(reg, named, p)>>

-----------------------------------------------------------------------------
(* Channel commands.  The word read back is written with one bit added.    *)

AdaEnable == Modify("CH_CMD", {"ENABLECMD"}, {"ENABLECMD"})
AdaStop == Modify("CH_CMD", {"STOPCMD"}, {"STOPCMD"})
AdaDisable == Modify("CH_CMD", {"DISABLECMD"}, {"DISABLECMD"})
AdaClear == Modify("CH_CMD", {"CLEARCMD"}, {"CLEARCMD"})
AdaPause == Modify("CH_CMD", {"PAUSECMD"}, {"PAUSECMD"})
AdaResume == Modify("CH_CMD", {"RESUMECMD"}, {"RESUMECMD"})

\* Bug variant: the other write-1-to-set fields keep what was read.
AdaSrcSwTrigInReqOnTop(type) ==
    Modify("CH_CMD", {"SRCSWTRIGINREQ", "SRCSWTRIGINTYPE"}, {"SRCSWTRIGINREQ"} \cup type)

\* The software triggers write 0 to every other write-1-to-set field.
AdaSrcSwTrigInReq(type) ==
    Modify("CH_CMD", W1SFields \cup {"SRCSWTRIGINTYPE"}, {"SRCSWTRIGINREQ"} \cup type)
AdaDesSwTrigInReq(type) ==
    Modify("CH_CMD", W1SFields \cup {"DESSWTRIGINTYPE"}, {"DESSWTRIGINREQ"} \cup type)
AdaSwTrigOutAck == Modify("CH_CMD", W1SFields, {"SWTRIGOUTACK"})

-----------------------------------------------------------------------------
(* Programming a transfer.                                                 *)

BaseParams == {"SRCADDR", "DESADDR", "SRCXSIZE", "DESXSIZE", "TRANSIZE"}
HighParams == {"SRCADDRHI", "DESADDRHI", "SRCXSIZEHI", "DESXSIZEHI"}
IncrParams == {"SRCXADDRINC", "DESXADDRINC"}
YParams == {"SRCYSIZE", "DESYSIZE", "SRCYADDRSTRIDE", "DESYADDRSTRIDE"}
WrapParams == {"FILLVAL", "XTYPE", "YTYPE"}
TmpltParams == {"SRCTMPLTSIZE", "DESTMPLTSIZE", "SRCTMPLT", "DESTMPLT"}
SettingsParams == {"CHPRIO", "CLEARCMD", "REGRELOADTYPE", "DONETYPE",
                   "DONEPAUSEEN", "SRCMAXBURSTLEN", "DESMAXBURSTLEN"}

Ada1DCommand(p) ==
    <<WriteWord("CH_SRCADDR", p), WriteWord("CH_DESADDR", p),
      Read("CH_CTRL"), Read("CH_XSIZE"),
      Write("CH_XSIZE", {"SRCXSIZE", "DESXSIZE"}, p),
      Write("CH_CTRL", {"TRANSIZE"}, p)>>

\* Assigns SRCXSIZEHI twice; DESXSIZEHI keeps the value read.
SetAdaLong1DRegs(p) ==
    <<WriteWord("CH_SRCADDRHI", p), WriteWord("CH_DESADDRHI", p)>>
        \o Modify("CH_XSIZEHI", {"SRCXSIZEHI"}, p)
AdaLong1DCommand(p) == Ada1DCommand(p) \o SetAdaLong1DRegs(p)

SetAda1DIncrRegs(p) == Modify("CH_XADDRINC", IncrParams, p)
Ada1DIncrCommand(p) == Ada1DCommand(p) \o SetAda1DIncrRegs(p)

SetAda2DRegs(p) ==
    <<Read("CH_YSIZE"), Read("CH_YADDRSTRIDE"),
      Write("CH_YSIZE", {"SRCYSIZE", "DESYSIZE"}, p),
      Write("CH_YADDRSTRIDE", {"SRCYADDRSTRIDE", "DESYADDRSTRIDE"}, p)>>
Ada2DCommand(p) == Ada1DCommand(p) \o SetAda2DRegs(p)

SetAdaWrapRegs(p) ==
    Append(Modify("CH_CTRL", {"XTYPE", "YTYPE"}, p), WriteWord("CH_FILLVAL", p))
AdaWrapCommand(p) == Ada1DCommand(p) \o SetAdaWrapRegs(p)
AdaWrap2DCommand(p) == Ada1DCommand(p) \o SetAda2DRegs(p) \o SetAdaWrapRegs(p)

\* SRCTMPLT and DESTMPLT are never read: the LSB fields written are the
\* uninitialised bits of the local variable, hence the parameter lsb.
SetAdaTmpltRegs(p, lsb) ==
    Append(Modify("CH_TMPLTCFG", {"SRCTMPLTSIZE", "DESTMPLTSIZE"}, p),
           WriteWord("CH_SRCTMPLT", p \cup lsb))
        \o <<WriteWord("CH_DESTMPLT", p \cup lsb)>>
AdaTmpltCommand(p, lsb) == Ada1DCommand(p) \o SetAdaTmpltRegs(p, lsb)

AdaSetSrcTranAttrs(p) == Modify("CH_SRCTRANSCFG", SrcAttrs, p)
AdaSetDesTranAttrs(p) == Modify("CH_DESTRANSCFG", DesAttrs, p)

\* Four registers are read before the first is written; CH_CMD is written
\* back with everything it held and CLEARCMD as asked.
AdaChannelSettings(p) ==
    <<Read("CH_CTRL"), Read("CH_CMD"), Read("CH_SRCTRANSCFG"),
      Read("CH_DESTRANSCFG"),
      Write("CH_CTRL", {"CHPRIO", "REGRELOADTYPE", "DONETYPE", "DONEPAUSEEN"}, p),
      Write("CH_CMD", {"CLEARCMD"}, p),
      Write("CH_SRCTRANSCFG", {"SRCMAXBURSTLEN"}, p),
      Write("CH_DESTRANSCFG", {"DESMAXBURSTLEN"}, p)>>
AdaChannelInit(p) ==
    AdaChannelSettings(p) \o AdaSetSrcTranAttrs(p) \o AdaSetDesTranAttrs(p)

AdaSetGPO(p) ==
    <<Read("CH_CTRL"), Read("CH_GPOEN0"), Read("CH_GPOVAL0"),
      Write("CH_GPOEN0", {"GPOEN0"}, p), Write("CH_GPOVAL0", {"GPOVAL0"}, p),
      Write("CH_CTRL", {"USEGPO"}, {"USEGPO"})>>

-----------------------------------------------------------------------------
(* Triggers, streams, links and restarts.                                  *)

AdaSrcTrigInInit(p) ==
    <<Read("CH_CTRL"), Read("CH_SRCTRIGINCFG"),
      Write("CH_SRCTRIGINCFG", SrcTrigCfg, p), Write("CH_CTRL", {"USESRCTRIGIN"}, p)>>
AdaSrcTrigInEnable(p) == Modify("CH_CTRL", {"USESRCTRIGIN"}, p)
AdaDesTrigInInit(p) ==
    <<Read("CH_CTRL"), Read("CH_DESTRIGINCFG"),
      Write("CH_DESTRIGINCFG", DesTrigCfg, p), Write("CH_CTRL", {"USEDESTRIGIN"}, p)>>
AdaDesTrigInEnable(p) == Modify("CH_CTRL", {"USEDESTRIGIN"}, p)
AdaTrigOutInit(p) ==
    <<Read("CH_CTRL"), Read("CH_TRIGOUTCFG"),
      Write("CH_TRIGOUTCFG", {"TRIGOUTSEL", "TRIGOUTTYPE"}, p),
      Write("CH_CTRL", {"USETRIGOUT"}, p)>>
AdaTrigOutEnable(p) == Modify("CH_CTRL", {"USETRIGOUT"}, p)
AdaStreamInit(p) ==
    <<Read("CH_CTRL"), Read("CH_STREAMINTCFG"),
      Write("CH_STREAMINTCFG", {"STREAMTYPE"}, p), Write("CH_CTRL", {}, {})>>
AdaStreamEnable(p) == Modify("CH_CTRL", {"USESTREAM"}, p)
AdaSetLinkTranAttrs(p) == Modify("CH_LINKATTR", LinkAttrs, p)
AdaSetCmdLink(p) ==
    Append(Modify("CH_LINKADDR", {"LINKADDREN", "LINKADDR"}, p),
           WriteWord("CH_LINKADDRHI", p))
AdaAutoRestart(p) == Modify("CH_AUTOCFG", {"CMDRESTARTCNT", "CMDRESTARTINFEN"}, p)
AdaSetRestartCntr(p) == Modify("CH_AUTOCFG", {"CMDRESTARTCNT"}, p)
AdaInfRestart(p) == Modify("CH_AUTOCFG", {"CMDRESTARTINFEN"}, p)

-----------------------------------------------------------------------------
(* Status and interrupts of a channel.  CH_STATUS flags are cleared by     *)
(* writing 1: the clear functions write 0 to the other three.              *)

AdaClearChDone == Modify("CH_STATUS", W1CFlags, {"STAT_DONE"})
\* Bug variant: the other flags are written back as read, which clears them.
AdaClearChErrorAndSet == Modify("CH_STATUS", {"STAT_ERR"}, {"STAT_ERR"})
AdaClearChError == Modify("CH_STATUS", W1CFlags, {"STAT_ERR"})
AdaClearChDisabled == Modify("CH_STATUS", W1CFlags, {"STAT_DISABLED"})
AdaClearChStopped == Modify("CH_STATUS", W1CFlags, {"STAT_STOPPED"})
AdaClearAllChIrq == Modify("CH_STATUS", W1CFlags, W1CFlags)

AdaSetIntEn(p) == Modify("CH_INTREN", EndIntrens, p)
\* AdaSetDoneIntEn, AdaSetErrorIntEn, AdaSetDisabledIntEn, AdaSetStoppedIntEn.
AdaSetEndIntEn(field, p) == Modify("CH_INTREN", {field}, p)
AdaSetTrigIntEn(p) == Modify("CH_INTREN", TrigIntrens, p)
\* AdaSetSrcTrigInWaitIntEn, AdaSetDestTrigInWaitIntEn, AdaSetTrigOutAckWaitIntEn.
AdaSetTrigWaitIntEn(field, p) == Modify("CH_INTREN", {field}, p)

\* The functions that only read: what each returns of the word it reads.
AdaReadStatus(word) == word \cap (W1CFlags \cup PauseFlags)
\* AdaChDoneStatus .. AdaChResumeWaitStatus.
AdaChStatus(flag, word) == flag \in word
AdaReadTrigStatus(word) == word \cap TrigFlags
\* AdaChSrcTrigInWaitStatus, AdaChDesTrigInWaitStatus, AdaChTrigOutAckWaitStatus.
AdaChTrigStatus(flag, word) == flag \in word
AdaGetEnable(word) == "ENABLECMD" \in word

\* The enable of each flag; a flag whose enable is set raises the channel's
\* interrupt (the INTR_ fields of CH_STATUS).
EnableOf ==
    [STAT_DONE |-> "INTREN_DONE", STAT_ERR |-> "INTREN_ERR",
     STAT_DISABLED |-> "INTREN_DISABLED", STAT_STOPPED |-> "INTREN_STOPPED",
     STAT_SRCTRIGINWAIT |-> "INTREN_SRCTRIGINWAIT",
     STAT_DESTRIGINWAIT |-> "INTREN_DESTRIGINWAIT",
     STAT_TRIGOUTACKWAIT |-> "INTREN_TRIGOUTACKWAIT"]
AdaReadIrqStatus(frame) == {f \in DOMAIN EnableOf : f \in frame /\ EnableOf[f] \in frame}
AdaReadErrorInfo(word) == word \cap ErrFields
\* The low 16 bits of the sizes left, of a long transfer too.
GetAdaActualSrcXSize(word) == word \cap {"SRCXSIZE"}
GetAdaActualDesXSize(word) == word \cap {"DESXSIZE"}
\* AdaSrcSwTigInState, AdaDesSwTigInState, AdaSwTrigOutState.
AdaSwTrigState(word) ==
    word \cap {"SRCSWTRIGINREQ", "SRCSWTRIGINTYPE", "DESSWTRIGINREQ",
               "DESSWTRIGINTYPE", "SWTRIGOUTACK"}

\* Two getters that compute, on words as sets of bit numbers: (HI << 4) & LO of
\* two four-bit fields, and the link address, whose 30-bit low part promotes to
\* int, so that widening it to 64 bits extends its bit 31.
AdaGetLinkTranMemAttrs(hi, lo) == {b + 4 : b \in hi} \cap lo
AdaGetCmdLinkAddr(hi, lo) ==
    LET low == {b + 2 : b \in lo}
    IN  {b + 32 : b \in hi} \cup low \cup (IF 31 \in low THEN 32 .. 63 ELSE {})

\* What they return: no memory attribute ever, since the two nibbles do not
\* meet; and the link's address, unless its bit 31 is set.
ASSUME LinkMemAttrsReadZero ==
    \A hi, lo \in SUBSET (0 .. 3) : AdaGetLinkTranMemAttrs(hi, lo) = {}
ASSUME LinkAddrUnlessBit31 ==
    \A h \in 0 .. 31, b \in 0 .. 29 :
        (AdaGetCmdLinkAddr({h}, {b}) = {h + 32, b + 2}) <=> b # 29

-----------------------------------------------------------------------------
(* The unit registers.  Each function exists once for the secure and once  *)
(* for the non-secure frame; the caller names the frame.                   *)

AdaClrCombIrq(p) == Modify("STATUS", UnitFlags, p)
AdaClrAllChIdleIrq == Modify("STATUS", UnitFlags, {"STAT_ALLCHIDLE"})
AdaClrAllChStoppedIrq == Modify("STATUS", UnitFlags, {"STAT_ALLCHSTOPPED"})
AdaClrAllChPausedIrq == Modify("STATUS", UnitFlags, {"STAT_ALLCHPAUSED"})
AdaCombIrqEn(p) == Modify("CTRL", UnitIntrens, p)
\* AdaSecCombCtrlIrqEn .. AdaNSecIrqCombine: one enable at a time.
AdaUnitIrqEn(field, p) == Modify("CTRL", {field}, p)
AdaAllChStopReq == Modify("CTRL", {"ALLCHSTOP"}, {"ALLCHSTOP"})
AdaAllChPauseReq == Modify("CTRL", {"ALLCHPAUSE"}, {"ALLCHPAUSE"})
AdaDisMinPwr(p) == Modify("CTRL", {"DISMINPWR"}, p)

\* CHCFG is read before the channel pointer is moved.
AdaSetChParams(ch, p) ==
    <<Read("CHCFG"), Point(ch), Write("CHCFG", ChCfgFields, p)>>
AdaSetChPtr(ch) == <<Point(ch)>>
\* Bug variant: the channel that the pointer happens to select is configured.
AdaSetChIdUnpointed(ch, p) ==
    Modify("CHCFG", {"CHID", "CHIDVLD"}, p \cup {"CHIDVLD"})
AdaSetChId(ch, p) ==
    AdaSetChPtr(ch) \o Modify("CHCFG", {"CHID", "CHIDVLD"}, p \cup {"CHIDVLD"})
AdaSetChPrivileged(ch, p) == AdaSetChPtr(ch) \o Modify("CHCFG", {"CHPRIV"}, p)

\* AdaReadSecCombStatus, AdaReadNSecCombStatus.
AdaReadCombStatus(word) == word \cap UnitFlags
\* AdaSecAllPausedState, AdaNSecAllPausedState.
AdaAllPausedState(word) == "STAT_ALLCHPAUSED" \in word

\* The combined interrupts: STATUS shows INTR_ of each flag whose enable is set
\* in CTRL, and INTR_ANYCHINTR when that of the channels' interrupts is; irqs
\* are the channels that raise one (CHINTRSTATUS0).
UnitEnableOf ==
    [STAT_ALLCHIDLE |-> "INTREN_ALLCHIDLE", STAT_ALLCHSTOPPED |-> "INTREN_ALLCHSTOPPED",
     STAT_ALLCHPAUSED |-> "INTREN_ALLCHPAUSED"]
\* GetSecCollIrqStat, GetNonSecCollIrqStat: a bit for each channel.
GetCollIrqStat(irqs) == irqs
\* AdaSecCombinedIrqState, AdaNSecCombinedIrqState.
AdaCombinedIrqState(frame, irqs) == "INTREN_ANYCHINTR" \in frame /\ irqs # {}
\* AdaSecAllIdleIrqState .. AdaNSecAllPausedIrqState, of one flag each.
AdaAllChIrqState(flag, frame) == flag \in frame /\ UnitEnableOf[flag] \in frame
\* AdaReadSecCombIrqStatus, AdaReadNSecCombIrqStatus: all four at once.
AdaReadCombIrqStatus(frame, irqs) ==
    [any |-> AdaCombinedIrqState(frame, irqs),
     all |-> {f \in DOMAIN UnitEnableOf : AdaAllChIrqState(f, frame)}]

-----------------------------------------------------------------------------
(* The security configuration: one bit per channel and per trigger.        *)

AdaSetChSecMappig(p) == <<WriteWord("SCFG_CHSEC0", p)>>
AdaSetChSecurity(ch, p) == Modify("SCFG_CHSEC0", {ChSecBits[ch + 1]}, p)
AdaSetTrigInSecMappig(p) == <<WriteWord("SCFG_TRIGINSEC0", p)>>
AdaSetTrigInSecurity(trig, p) == Modify("SCFG_TRIGINSEC0", {TrigInSecBits[trig + 1]}, p)
AdaSetTrigOutSecMappig(p) == <<WriteWord("SCFG_TRIGOUTSEC0", p)>>
AdaSetTrigOutSecurity(trig, p) == Modify("SCFG_TRIGOUTSEC0", {TrigOutSecBits[trig + 1]}, p)
AdaSecViolationIrqEn(p) == Modify("SCFG_CTRL", {"INTREN_SECACCVIO"}, p)
AdaSecViolationResp(p) == Modify("SCFG_CTRL", {"RSPTYPE_SECACCVIO"}, p)
AdaSecConfigLock == Modify("SCFG_CTRL", {"SEC_CFG_LCK"}, {"SEC_CFG_LCK"})
AdaClrSecViolationIrq == <<WriteWord("SCFG_INTRSTATUS", {"STAT_SECACCVIO"})>>

\* Reads a secure register through the non-secure frame.
AdaSecurityViolationTestRead ==
    <<[op |-> "trespass", reg |-> "SCFG_INTRSTATUS", named |-> {}, on |-> {}]>>

-----------------------------------------------------------------------------
(* The channel table and the build configuration.                          *)

\* Three channels have a pointer, the test against ADA_MAX_CH_NUM lets eight
\* through: an index in between reads past the end of the array.
ADA_MAX_CH_NUM == 8
PointerTable == 0 .. 2
GetChannelPtr(ch_num) ==
    IF ch_num < ADA_MAX_CH_NUM
    THEN IF ch_num \in PointerTable THEN ch_num ELSE "past the end"
    ELSE 0

\* The build's sizes, from the information frame of the world named: the
\* register holds the number of channels less one, those of triggers as they are.
AdaGetChNum(security, info)      == info[security].NUM_CHANNELS + 1
AdaGetTrigInNum(security, info)  == info[security].NUM_TRIGGER_IN
AdaGetTrigOutNum(security, info) == info[security].NUM_TRIGGER_OUT
=============================================================================
