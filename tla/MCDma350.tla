------------------------------ MODULE MCDma350 ------------------------------
(* The calls of the main program: one per library function that writes a   *)
(* register, with all parameters at their first, all at their second, or   *)
(* only the source-side ones at their second value.                        *)
EXTENDS Dma350Programs

SourceSide == {"SRCADDR", "SRCADDRHI", "SRCXSIZE", "SRCXSIZEHI", "SRCXADDRINC",
               "SRCYSIZE", "SRCYADDRSTRIDE", "SRCTMPLT", "SRCTMPLTSIZE",
               "SRCMAXBURSTLEN", "XTYPE", "DONETYPE", "INTREN_DONE",
               "INTREN_ANYCHINTR", "CHID", "LINKADDR"} \cup SrcAttrs
Params(S) == {{}, S, S \cap SourceSide}

OnChannel(fn, Prog(_), S) == {Call(fn, 0, Prog(p), 0, S, p) : p \in Params(S)}
OnUnit(u, fn, Prog(_), S) == {Call(fn, u, Prog(p), u, S, p) : p \in Params(S)}
OnSCfg(fn, Prog(_), S) == {Call(fn, SCfg, Prog(p), SCfg, S, p) : p \in Params(S)}
Command(fn, prog, on) == Call(fn, 0, prog, 0, on, on)

CommandCalls ==
    {Command("AdaEnable", AdaEnable, {"ENABLECMD"}),
     Command("AdaStop", AdaStop, {"STOPCMD"}),
     Command("AdaDisable", AdaDisable, {"DISABLECMD"}),
     Command("AdaClear", AdaClear, {"CLEARCMD"}),
     Command("AdaPause", AdaPause, {"PAUSECMD"}),
     Command("AdaResume", AdaResume, {"RESUMECMD"})}

TriggerCalls ==
    {Command("AdaSrcSwTrigInReq", AdaSrcSwTrigInReq(t), {"SRCSWTRIGINREQ"})
         : t \in {{}, {"SRCSWTRIGINTYPE"}}}
    \cup {Command("AdaDesSwTrigInReq", AdaDesSwTrigInReq(t), {"DESSWTRIGINREQ"})
         : t \in {{}, {"DESSWTRIGINTYPE"}}}
    \cup {Command("AdaSwTrigOutAck", AdaSwTrigOutAck, {"SWTRIGOUTACK"})}

FlagCalls ==
    {Command("AdaClearChDone", AdaClearChDone, {"STAT_DONE"}),
     Command("AdaClearChError", AdaClearChError, {"STAT_ERR"}),
     Command("AdaClearChDisabled", AdaClearChDisabled, {"STAT_DISABLED"}),
     Command("AdaClearChStopped", AdaClearChStopped, {"STAT_STOPPED"}),
     Command("AdaClearAllChIrq", AdaClearAllChIrq, W1CFlags)}

\* CLEARCMD is 0 in the first settings and 1 in the second, as in the tests.
InitParams == SettingsParams \cup SrcAttrs \cup DesAttrs
TransferCalls ==
    OnChannel("Ada1DCommand", Ada1DCommand, BaseParams)
    \cup OnChannel("AdaLong1DCommand", AdaLong1DCommand, BaseParams \cup HighParams)
    \cup OnChannel("Ada1DIncrCommand", Ada1DIncrCommand, BaseParams \cup IncrParams)
    \cup OnChannel("Ada2DCommand", Ada2DCommand, BaseParams \cup YParams)
    \cup OnChannel("AdaWrapCommand", AdaWrapCommand, BaseParams \cup WrapParams)
    \cup OnChannel("AdaWrap2DCommand", AdaWrap2DCommand,
                   BaseParams \cup YParams \cup WrapParams)
    \cup OnChannel("AdaTmpltCommand", LAMBDA p : AdaTmpltCommand(p, {}),
                   BaseParams \cup TmpltParams)
    \cup OnChannel("SetAdaTmpltRegs", LAMBDA p : SetAdaTmpltRegs(p,
                   {"SRCTMPLTLSB", "DESTMPLTLSB"}), TmpltParams)
    \cup OnChannel("AdaChannelInit", AdaChannelInit, InitParams)
    \cup {Call("AdaSetGPO", 0, AdaSetGPO(p), 0, {"GPOEN0", "GPOVAL0", "USEGPO"},
               p \cup {"USEGPO"}) : p \in {{}, {"GPOEN0"}, {"GPOEN0", "GPOVAL0"}}}

OptionCalls ==
    OnChannel("AdaSrcTrigInInit", AdaSrcTrigInInit, SrcTrigCfg \cup {"USESRCTRIGIN"})
    \cup OnChannel("AdaSrcTrigInEnable", AdaSrcTrigInEnable, {"USESRCTRIGIN"})
    \cup OnChannel("AdaDesTrigInInit", AdaDesTrigInInit, DesTrigCfg \cup {"USEDESTRIGIN"})
    \cup OnChannel("AdaDesTrigInEnable", AdaDesTrigInEnable, {"USEDESTRIGIN"})
    \cup OnChannel("AdaTrigOutInit", AdaTrigOutInit,
                   {"USETRIGOUT", "TRIGOUTSEL", "TRIGOUTTYPE"})
    \cup OnChannel("AdaTrigOutEnable", AdaTrigOutEnable, {"USETRIGOUT"})
    \cup OnChannel("AdaStreamInit", AdaStreamInit, {"STREAMTYPE"})
    \cup OnChannel("AdaStreamEnable", AdaStreamEnable, {"USESTREAM"})
    \cup OnChannel("AdaSetLinkTranAttrs", AdaSetLinkTranAttrs, LinkAttrs)
    \cup OnChannel("AdaSetCmdLink", AdaSetCmdLink, {"LINKADDREN", "LINKADDR", "LINKADDRHI"})
    \cup OnChannel("AdaAutoRestart", AdaAutoRestart, {"CMDRESTARTCNT", "CMDRESTARTINFEN"})
    \cup OnChannel("AdaSetRestartCntr", AdaSetRestartCntr, {"CMDRESTARTCNT"})
    \cup OnChannel("AdaInfRestart", AdaInfRestart, {"CMDRESTARTINFEN"})

IntEnCalls ==
    OnChannel("AdaSetIntEn", AdaSetIntEn, EndIntrens)
    \cup OnChannel("AdaSetTrigIntEn", AdaSetTrigIntEn, TrigIntrens)
    \cup UNION {OnChannel("AdaSetEndIntEn", LAMBDA p : AdaSetEndIntEn(e, p), {e})
                : e \in EndIntrens}
    \cup UNION {OnChannel("AdaSetTrigWaitIntEn", LAMBDA p : AdaSetTrigWaitIntEn(e, p), {e})
                : e \in TrigIntrens}

UnitCalls(u) ==
    OnUnit(u, "AdaClrCombIrq", AdaClrCombIrq, UnitFlags)
    \cup {Call("AdaClrAllChIdleIrq", u, AdaClrAllChIdleIrq, u, {"STAT_ALLCHIDLE"}, {}),
          Call("AdaClrAllChStoppedIrq", u, AdaClrAllChStoppedIrq, u,
               {"STAT_ALLCHSTOPPED"}, {}),
          Call("AdaClrAllChPausedIrq", u, AdaClrAllChPausedIrq, u,
               {"STAT_ALLCHPAUSED"}, {}),
          Call("AdaAllChStopReq", u, AdaAllChStopReq, u, {"ALLCHSTOP"}, {"ALLCHSTOP"}),
          Call("AdaAllChPauseReq", u, AdaAllChPauseReq, u, {"ALLCHPAUSE"}, {"ALLCHPAUSE"})}
    \cup OnUnit(u, "AdaCombIrqEn", AdaCombIrqEn, UnitIntrens)
    \cup UNION {OnUnit(u, "AdaUnitIrqEn", LAMBDA p : AdaUnitIrqEn(e, p), {e})
                : e \in UnitIntrens}
    \cup OnUnit(u, "AdaDisMinPwr", AdaDisMinPwr, {"DISMINPWR"})
    \cup {Call("AdaSetChParams", u, AdaSetChParams(c, p), c, ChCfgFields, p)
          : c \in Channels, p \in Params(ChCfgFields)}
    \cup {Call("AdaSetChId", u, AdaSetChId(c, p), c, {"CHID", "CHIDVLD"}, p \cup {"CHIDVLD"})
          : c \in Channels, p \in Params({"CHID"})}
    \cup {Call("AdaSetChPrivileged", u, AdaSetChPrivileged(c, p), c, {"CHPRIV"}, p)
          : c \in Channels, p \in Params({"CHPRIV"})}
    \cup {Call("AdaSetChPtr", u, AdaSetChPtr(c), u, {}, {}) : c \in Channels}

SecurityCalls ==
    OnSCfg("AdaSetChSecMappig", AdaSetChSecMappig, FieldsOf("SCFG_CHSEC0"))
    \cup UNION {OnSCfg("AdaSetChSecurity", LAMBDA p : AdaSetChSecurity(c, p),
                       {ChSecBits[c + 1]}) : c \in Channels}
    \cup OnSCfg("AdaSetTrigInSecMappig", AdaSetTrigInSecMappig, FieldsOf("SCFG_TRIGINSEC0"))
    \cup UNION {OnSCfg("AdaSetTrigInSecurity", LAMBDA p : AdaSetTrigInSecurity(t, p),
                       {TrigInSecBits[t + 1]}) : t \in 0 .. 1}
    \cup OnSCfg("AdaSetTrigOutSecMappig", AdaSetTrigOutSecMappig,
                FieldsOf("SCFG_TRIGOUTSEC0"))
    \cup UNION {OnSCfg("AdaSetTrigOutSecurity", LAMBDA p : AdaSetTrigOutSecurity(t, p),
                       {TrigOutSecBits[t + 1]}) : t \in 0 .. 1}
    \cup OnSCfg("AdaSecViolationIrqEn", AdaSecViolationIrqEn, {"INTREN_SECACCVIO"})
    \cup OnSCfg("AdaSecViolationResp", AdaSecViolationResp, {"RSPTYPE_SECACCVIO"})
    \cup {Call("AdaSecConfigLock", SCfg, AdaSecConfigLock, SCfg, {"SEC_CFG_LCK"},
               {"SEC_CFG_LCK"}),
          Call("AdaClrSecViolationIrq", SCfg, AdaClrSecViolationIrq, SCfg, {}, {}),
          Call("AdaSecurityViolationTestRead", SCfg, AdaSecurityViolationTestRead, SCfg,
               {}, {})}

AllCalls == CommandCalls \cup TriggerCalls \cup FlagCalls \cup TransferCalls
                \cup OptionCalls \cup IntEnCalls \cup UnitCalls(Sec) \cup UnitCalls(NSec)
                \cup SecurityCalls

\* A program that starts, steers and serves one channel under interrupts.
ChannelCalls ==
    CommandCalls \cup FlagCalls
    \cup {Command("AdaSrcSwTrigInReq", AdaSrcSwTrigInReq({}), {"SRCSWTRIGINREQ"}),
          Call("AdaSetIntEn", 0, AdaSetIntEn(EndIntrens), 0, EndIntrens, EndIntrens),
          Call("AdaSrcTrigInEnable", 0, AdaSrcTrigInEnable({"USESRCTRIGIN"}), 0,
               {"USESRCTRIGIN"}, {"USESRCTRIGIN"}),
          Call("AdaChannelSettings", 0, AdaChannelSettings({"DONETYPE"}), 0,
               SettingsParams, {"DONETYPE"}),
          Call("AdaChannelSettings", 0, AdaChannelSettings({"DONETYPE", "CLEARCMD"}), 0,
               SettingsParams, {"DONETYPE", "CLEARCMD"})}

\* Four calls that steer the channel, or two of any kind, or one and two.
CallCost(k) == IF k \in ChannelCalls THEN 1 ELSE 2

\* The discipline of Dma350Programs tells right from wrong: a channel configured
\* without the pointer breaks it, a flag cleared with the word as read, and a
\* trigger request that keeps the other command bits.
ASSUME BugVariantsBreakIt ==
    /\ ~Disciplined(Call("AdaSetChId", Sec, AdaSetChIdUnpointed(0, {"CHID"}), 0,
                         {"CHID", "CHIDVLD"}, {"CHID", "CHIDVLD"}))
    /\ ~Disciplined(Command("AdaClearChError", AdaClearChErrorAndSet, {"STAT_ERR"}))
    /\ ~Disciplined(Command("AdaSrcSwTrigInReq", AdaSrcSwTrigInReqOnTop({}),
                            {"SRCSWTRIGINREQ"}))
=============================================================================
