------------------------------- MODULE Dma350 -------------------------------
(***************************************************************************)
(* A main program that calls the DMA-350 command library, the DMA engine   *)
(* and the interrupt handler of the DMA tests, on the same registers.      *)
(*                                                                         *)
(* The library calls are the programs of Dma350Lib, executed one bus       *)
(* access at a time.  The handler preempts the main program between any    *)
(* two accesses and runs to its end (DMA_Handler disables interrupts); the *)
(* engine acts at any time.  The engine is not part of the repository: it  *)
(* is modelled after the comments of dma_350_regdef.h on each command and  *)
(* status bit.                                                             *)
(***************************************************************************)
EXTENDS Dma350Lib, FiniteSets

CONSTANTS Channels,   \* channel numbers, within the library's pointer table
          Sec, NSec,  \* the two unit frames
          SCfg,       \* the security configuration frame
          MainCalls,  \* the library calls the main program makes
          Cost(_),    \* what a call counts for
          MaxCalls    \* bound on the calls of the main program

Units == {Sec, NSec}
Frames == Channels \cup Units \cup {SCfg}

ASSUME ChannelAssumption == /\ \A c \in Channels : GetChannelPtr(c) = c
                            /\ 0 \in Channels
                            /\ MaxCalls \in Nat
                            /\ \A k \in MainCalls : Cost(k) \in Nat
\* No two frames are at the same address.
ASSUME FramesAssumption == /\ SCfg \notin Channels \cup Units
                           /\ Units \cap Channels = {}

VARIABLES regs,    \* frame -> the fields that hold their second value
          chptr,   \* unit frame -> the channel its CHPTR selects
          main,    \* the call the main program is in
          isr,     \* the call the interrupt handler is in
          current_channel, \* the channel the handler serves
          asked,   \* frame -> what the finished calls asked the fields to be
          wiped,   \* frame -> fields that a clear has reset since they were written
          ncalls   \* calls made so far

vars == <<regs, chptr, main, isr, current_channel, asked, wiped, ncalls>>

-----------------------------------------------------------------------------
(* A call: the frame it accesses, its program, and what its caller asks    *)
(* for: the fields `named` of frame `about` shall be as in `on`.           *)

Call(fn, frame, prog, about, named, on) ==
    [fn |-> fn, frame |-> frame, prog |-> prog, snap |-> {},
     about |-> about, named |-> named, on |-> on \cap named]

Idle(frame) == Call("idle", frame, <<>>, frame, {}, {})

\* DMAClearChIrq: read the status, then clear the first flag found.
HandlerRead(c) == Call("DMAClearChIrq", c, <<Read("CH_STATUS")>>, c, {}, {})
\* Bug variant: with the flags found, those raised since are cleared.
HandlerClearAll(c, status) ==
    LET found == {flag \in W1CFlags : AdaChStatus(flag, status)}
    IN  IF found = {} THEN Idle(c)
        ELSE Call("AdaClearAllChIrq", c, AdaClearAllChIrq, c, found, {})
\* Bug variant: the interrupt of the flag is masked, its flag left.
HandlerMask(c, status) ==
    LET found == {flag \in W1CFlags : AdaChStatus(flag, status)}
        enable == EnableOf[CHOOSE flag \in found : TRUE]
    IN  IF found = {} THEN Idle(c)
        ELSE Call("AdaSetEndIntEn", c, AdaSetEndIntEn(enable, {}), c, {enable}, {})
\* Bug variant: a stopped channel is overlooked.
HandlerClearThree(c, status) ==
    IF AdaChStatus("STAT_DONE", status)
    THEN Call("AdaClearChDone", c, AdaClearChDone, c, {"STAT_DONE"}, {})
    ELSE IF AdaChStatus("STAT_ERR", status)
    THEN Call("AdaClearChError", c, AdaClearChError, c, {"STAT_ERR"}, {})
    ELSE IF AdaChStatus("STAT_DISABLED", status)
    THEN Call("AdaClearChDisabled", c, AdaClearChDisabled, c, {"STAT_DISABLED"}, {})
    ELSE Idle(c)
HandlerClear(c, status) ==
    IF AdaChStatus("STAT_DONE", status)
    THEN Call("AdaClearChDone", c, AdaClearChDone, c, {"STAT_DONE"}, {})
    ELSE IF AdaChStatus("STAT_ERR", status)
    THEN Call("AdaClearChError", c, AdaClearChError, c, {"STAT_ERR"}, {})
    ELSE IF AdaChStatus("STAT_DISABLED", status)
    THEN Call("AdaClearChDisabled", c, AdaClearChDisabled, c, {"STAT_DISABLED"}, {})
    ELSE IF AdaChStatus("STAT_STOPPED", status)
    THEN Call("AdaClearChStopped", c, AdaClearChStopped, c, {"STAT_STOPPED"}, {})
    ELSE Idle(c)

-----------------------------------------------------------------------------
(* The registers as the bus sees them.                                     *)

AllFields == UNION {UNION {g[r] : r \in DOMAIN g} :
                        g \in {RegGroups[n] : n \in DOMAIN RegGroups}}

\* The frame that holds the fields of a register of frame f.
Home(f, reg) == IF reg = "CHCFG" THEN chptr[f] ELSE f
WordOf(f, reg) == regs[Home(f, reg)] \cap FieldsOf(reg)

\* The commands that concern a channel that is enabled.
WhileEnabled == W1SFields \ {"ENABLECMD", "CLEARCMD", "RESUMECMD"}
\* The type of a software trigger is fixed while its request waits.
TypesOf(requests) ==
    (IF "SRCSWTRIGINREQ" \in requests THEN {"SRCSWTRIGINTYPE"} ELSE {})
    \cup (IF "DESSWTRIGINREQ" \in requests THEN {"DESSWTRIGINTYPE"} ELSE {})

\* A write of CH_CMD sets bits, never clears one.  Resume releases a pause and
\* reads as 0.  A channel that gets enabled loses the flags of its last command.
AfterCommand(old, word) ==
    LET ignored == TypesOf(old) \cup (IF "ENABLECMD" \in old THEN {} ELSE WhileEnabled)
        types   == {"SRCSWTRIGINTYPE", "DESSWTRIGINTYPE"} \ TypesOf(old)
        set     == ((old \ types) \cup (word \ ignored)) \ {"RESUMECMD"}
    IN  IF "ENABLECMD" \in word \ old THEN set \ (W1CFlags \cup ErrFields)
        ELSE IF "RESUMECMD" \in word /\ "STAT_RESUMEWAIT" \in old
        THEN set \ {"PAUSECMD", "STAT_RESUMEWAIT"}
        ELSE set

\* The error information goes with its flag, a unit's request with the flag
\* that answers it.
AfterStatus(old, word) ==
    old \ ((word \cap W1CFlags) \cup (IF "STAT_ERR" \in word THEN ErrFields ELSE {}))
AfterUnitStatus(old, word) ==
    old \ (word \cup (IF "STAT_ALLCHSTOPPED" \in word \cap old THEN {"ALLCHSTOP"} ELSE {})
                \cup (IF "STAT_ALLCHPAUSED" \in word \cap old THEN {"ALLCHPAUSE"} ELSE {}))

\* Of the other registers, the security configuration can be locked, and the
\* requests of CTRL, once set, stay.
AfterWrite(reg, old, word) ==
    IF reg = "CH_CMD" THEN AfterCommand(old, word)
    ELSE IF reg = "CH_STATUS" THEN AfterStatus(old, word)
    ELSE IF reg = "STATUS" THEN AfterUnitStatus(old, word)
    ELSE IF reg = "SCFG_INTRSTATUS" THEN old \ word
    ELSE IF reg \in DOMAIN SecCfgRegs /\ "SEC_CFG_LCK" \in old THEN old
    ELSE (old \ (FieldsOf(reg) \ {"ALLCHSTOP", "ALLCHPAUSE"})) \cup word

\* One bus access of call k.
AccessRegs(k) ==
    LET a == Head(k.prog)
        f == Home(k.frame, a.reg)
        word == ((k.snap \cap FieldsOf(a.reg)) \ a.named) \cup a.on
    IN  IF a.op = "write" THEN [regs EXCEPT ![f] = AfterWrite(a.reg, @, word)]
        ELSE IF a.op = "trespass" THEN [regs EXCEPT ![SCfg] = @ \cup {"STAT_SECACCVIO"}]
        ELSE regs
AccessPtr(k) == IF Head(k.prog).op = "point"
                THEN [chptr EXCEPT ![k.frame] = Head(k.prog).to]
                ELSE chptr
AfterAccess(k) ==
    LET a == Head(k.prog)
        seen == IF a.op = "read"
                THEN (k.snap \ FieldsOf(a.reg)) \cup WordOf(k.frame, a.reg)
                ELSE k.snap
    IN  IF Len(k.prog) > 1 THEN [k EXCEPT !.prog = Tail(@), !.snap = seen]
        ELSE IF k.fn = "DMAClearChIrq" THEN HandlerClear(k.frame, AdaReadStatus(seen))
        ELSE Idle(k.frame)

Returns(k) == Len(k.prog) = 1 /\ k.fn # "DMAClearChIrq"
AskedAfter(k) ==
    IF Returns(k) THEN [asked EXCEPT ![k.about] = (@ \ k.named) \cup k.on] ELSE asked
WipedAfter(k) ==
    LET a == Head(k.prog)
    IN  IF a.op = "write" THEN [wiped EXCEPT ![Home(k.frame, a.reg)] = @ \ a.named] ELSE wiped

-----------------------------------------------------------------------------
Init ==
    /\ regs = [f \in Frames |-> {}]
    /\ chptr = [u \in Units |-> 0]
    /\ main = Idle(SCfg)
    /\ isr = Idle(SCfg)
    /\ current_channel = 0
    /\ asked = [f \in Frames |-> {}]
    /\ wiped = [f \in Frames |-> {}]
    /\ ncalls = 0

Busy(k) == k.prog # <<>>
Enabled(c) == AdaGetEnable(regs[c])
Clearing(c) == "CLEARCMD" \in regs[c]

\* The main program calls the library, also while a clear it has asked for is
\* still to come: no program of the repository waits for CLEARCMD to read 0.
MainCall(k) ==
    /\ ~Busy(main) /\ ~Busy(isr)
    /\ ncalls + Cost(k) <= MaxCalls
    /\ main' = k
    /\ current_channel' = IF k.frame \in Channels THEN k.frame ELSE current_channel
    /\ ncalls' = ncalls + Cost(k)
    /\ UNCHANGED <<regs, chptr, isr, asked, wiped>>

MainStep ==
    /\ Busy(main) /\ ~Busy(isr)
    /\ regs' = AccessRegs(main)
    /\ chptr' = AccessPtr(main)
    /\ asked' = AskedAfter(main)
    /\ wiped' = WipedAfter(main)
    /\ main' = AfterAccess(main)
    /\ UNCHANGED <<isr, current_channel, ncalls>>

\* The interrupt of a channel is taken between two accesses of the main
\* program.  The handler looks at current_channel, whichever channel it was.
DMA_Handler ==
    /\ ~Busy(isr)
    /\ \E c \in Channels : AdaReadIrqStatus(regs[c]) # {}
    /\ isr' = HandlerRead(current_channel)
    /\ UNCHANGED <<regs, chptr, main, current_channel, asked, wiped, ncalls>>

IsrStep ==
    /\ Busy(isr)
    /\ regs' = AccessRegs(isr)
    /\ chptr' = AccessPtr(isr)
    /\ asked' = AskedAfter(isr)
    /\ wiped' = WipedAfter(isr)
    /\ isr' = AfterAccess(isr)
    /\ UNCHANGED <<main, current_channel, ncalls>>

-----------------------------------------------------------------------------
(* The engine.                                                             *)

EngineStep(newRegs) ==
    /\ regs' = newRegs
    /\ UNCHANGED <<chptr, main, isr, current_channel, asked, wiped, ncalls>>

\* Channel c leaves the enabled state with the given flags raised; the last
\* channel to do so raises the all-idle flag of the units.
Ended(c, flags) ==
    [f \in Frames |->
        IF f = c THEN (regs[c] \ ({"ENABLECMD", "STOPCMD", "DISABLECMD", "PAUSECMD",
                                   "SRCSWTRIGINREQ", "DESSWTRIGINREQ"}
                                  \cup PauseFlags \cup TrigFlags)) \cup flags
        ELSE IF f \in Units /\ \A d \in Channels \ {c} : ~Enabled(d)
        THEN regs[f] \cup {"STAT_ALLCHIDLE"}
        ELSE regs[f]]

\* With DONEPAUSEEN the channel raises its done flag by a pause of its own.
PausesWhenDone(c) == {"DONETYPE", "DONEPAUSEEN"} \subseteq regs[c]
DoneFlags(c) ==
    IF "DONETYPE" \in regs[c] /\ ~PausesWhenDone(c) THEN {"STAT_DONE"} ELSE {}
Waiting(c) == AdaReadTrigStatus(regs[c]) # {} \/ AdaChStatus("STAT_PAUSED", regs[c])
Continues(c) == regs[c] \cap {"LINKADDREN", "CMDRESTARTCNT", "CMDRESTARTINFEN"} # {}

\* The command is complete: the channel goes on with a linked command or a
\* restart, or it ends; a disable request makes it end.
Complete(c) ==
    /\ Enabled(c) /\ ~Waiting(c) /\ "STOPCMD" \notin regs[c]
    /\ IF "DISABLECMD" \in regs[c]
       THEN EngineStep(Ended(c, DoneFlags(c) \cup {"STAT_DISABLED"}))
       ELSE IF Continues(c)
       THEN EngineStep([regs EXCEPT ![c] = (@ \ {"CMDRESTARTCNT", "LINKADDREN"})
                                               \cup DoneFlags(c)])
       ELSE EngineStep(Ended(c, DoneFlags(c)))

BusError(c) == Enabled(c) /\ EngineStep(Ended(c, {"STAT_ERR", "BUSERR"}))

Stopped(c) ==
    /\ Enabled(c)
    /\ \/ "STOPCMD" \in regs[c]
       \/ \E u \in Units : "ALLCHSTOP" \in regs[u]
    /\ EngineStep(Ended(c, {"STAT_STOPPED"}))

\* A pause that the channel's own request or its done flag asked for waits for
\* the software to resume; one of the unit ends with the unit's request.
Paused(c) ==
    /\ Enabled(c)
    /\ \/ /\ "PAUSECMD" \in regs[c] /\ "STAT_RESUMEWAIT" \notin regs[c]
          /\ EngineStep([regs EXCEPT ![c] = @ \cup PauseFlags])
       \/ /\ \E u \in Units : "ALLCHPAUSE" \in regs[u]
          /\ "STAT_PAUSED" \notin regs[c]
          /\ EngineStep([regs EXCEPT ![c] = @ \cup {"STAT_PAUSED"}])
DonePaused(c) ==
    /\ Enabled(c) /\ ~Waiting(c) /\ PausesWhenDone(c)
    /\ EngineStep([regs EXCEPT ![c] = @ \cup PauseFlags \cup {"STAT_DONE"}])
Resumed(c) ==
    /\ "STAT_PAUSED" \in regs[c] /\ regs[c] \cap {"PAUSECMD", "STAT_RESUMEWAIT"} = {}
    /\ \A u \in Units : "ALLCHPAUSE" \notin regs[u]
    /\ EngineStep([regs EXCEPT ![c] = @ \ {"STAT_PAUSED"}])

\* A channel that is not enabled, or not any more, is cleared; CLEARCMD returns
\* to 0 with the other registers.
Cleared(c) ==
    /\ Clearing(c) /\ ~Enabled(c)
    /\ regs' = [regs EXCEPT ![c] = @ \cap ChCfgFields]
    /\ wiped' = [wiped EXCEPT ![c] = @ \cup (AllFields \ ChCfgFields)]
    /\ UNCHANGED <<chptr, main, isr, current_channel, asked, ncalls>>

\* Triggers: use bit, wait flag, request bit.
TrigLines == {<<"USESRCTRIGIN", "STAT_SRCTRIGINWAIT", "SRCSWTRIGINREQ">>,
              <<"USEDESTRIGIN", "STAT_DESTRIGINWAIT", "DESSWTRIGINREQ">>,
              <<"USETRIGOUT", "STAT_TRIGOUTACKWAIT", "SWTRIGOUTACK">>}
TriggerWait(c) == \E t \in TrigLines :
    /\ Enabled(c) /\ t[1] \in regs[c] /\ ~AdaChTrigStatus(t[2], regs[c])
    /\ EngineStep([regs EXCEPT ![c] = @ \cup {t[2]}])
TriggerTaken(c) == \E t \in TrigLines :
    /\ AdaChTrigStatus(t[2], regs[c]) /\ t[3] \in AdaSwTrigState(regs[c])
    /\ EngineStep([regs EXCEPT ![c] = @ \ {t[2], t[3]}])

AllStopped(u) ==
    /\ "ALLCHSTOP" \in regs[u] /\ "STAT_ALLCHSTOPPED" \notin AdaReadCombStatus(regs[u])
    /\ \A c \in Channels : ~Enabled(c)
    /\ EngineStep([regs EXCEPT ![u] = @ \cup {"STAT_ALLCHSTOPPED"}])
AllPaused(u) ==
    /\ "ALLCHPAUSE" \in regs[u] /\ "STAT_ALLCHPAUSED" \notin AdaReadCombStatus(regs[u])
    /\ \A c \in Channels : Enabled(c) => "STAT_PAUSED" \in regs[c]
    /\ EngineStep([regs EXCEPT ![u] = @ \cup {"STAT_ALLCHPAUSED"}])

Engine ==
    \/ \E c \in Channels : \/ Complete(c) \/ BusError(c) \/ Stopped(c) \/ Paused(c)
                           \/ DonePaused(c) \/ Resumed(c) \/ Cleared(c) \/ TriggerWait(c) \/ TriggerTaken(c)
    \/ \E u \in Units : AllStopped(u) \/ AllPaused(u)

Next ==
    \/ \E k \in MainCalls : MainCall(k)
    \/ MainStep
    \/ DMA_Handler
    \/ IsrStep
    \/ Engine

Spec == Init /\ [][Next]_vars

\* The processor runs and takes a pending interrupt.
FairSpec == Spec /\ WF_vars(IsrStep) /\ WF_vars(DMA_Handler)

-----------------------------------------------------------------------------
\* The fields that hold what the last call to name them asked for.  Not the
\* commands, the flags, the error information and the uninitialised template
\* bits; nor DESXSIZEHI, which no function writes.
ConfigFields ==
    AllFields \ (CmdFields \cup W1CFlags \cup PauseFlags \cup TrigFlags \cup UnitFlags
                 \cup ErrFields \cup {"SRCTMPLTLSB", "DESTMPLTLSB", "DESXSIZEHI",
                 "STAT_SECACCVIO", "ALLCHSTOP", "ALLCHPAUSE", "LINKADDREN", "CMDRESTARTCNT"})

\* Whatever the order of the calls and wherever the handler and the engine
\* acted in between, a configuration field holds what the last call that
\* names it asked for: no read-modify-write undoes another function's field,
\* and the indexed channel configuration lands on the channel meant.  A field
\* that a clear came to after it was written, of a call that sets CLEARCMD
\* included, holds that or its value at reset; no stale word revives another.
Holds(f, x) == /\ x \in regs[f] => x \in asked[f]
               /\ x \in asked[f] => x \in regs[f] \/ x \in wiped[f]
ProgrammedFields ==
    ~Busy(main) =>
        \A f \in Frames :
            \/ f = SCfg /\ "SEC_CFG_LCK" \in regs[f]
            \/ \A x \in ConfigFields : Holds(f, x)

Steps(k, knext) == Busy(k) /\ knext # k

\* A status flag goes away only in a step of a call that was asked to clear
\* it, when the channel is cleared, or when it gets enabled.
FlagsClearedAsAsked ==
    \A f \in Frames : \A flag \in (W1CFlags \cup UnitFlags) :
        flag \in regs[f] /\ flag \notin regs'[f] =>
            \/ f \in Channels /\ Clearing(f) /\ ~Enabled(f)
            \/ "ENABLECMD" \in regs'[f] \ regs[f]
            \/ Steps(main, main') /\ main.frame = f /\ flag \in main.named
            \/ Steps(isr, isr') /\ isr.frame = f /\ flag \in isr.named

\* A software trigger sets no command bit but that trigger.
TriggersOnlyTrigger ==
    main.fn \in {"AdaSrcSwTrigInReq", "AdaDesSwTrigInReq", "AdaSwTrigOutAck"}
      /\ Steps(main, main') =>
        \A c \in Channels : regs'[c] \cap W1SFields \subseteq regs[c] \cup main.on

\* A read-modify-write of a register whose bits act when they are written does
\* only what its call is for: a flag raised between the read and the write is
\* not lost ("avoid clearing"), and a trigger requested while the channel ends
\* does not start it again ("Set W1S fields to 0").
BusWritesAsAsked == [][FlagsClearedAsAsked /\ TriggersOnlyTrigger]_vars

\* An enabled end-of-transfer interrupt of the channel in use is served: each
\* flag is eventually cleared, although a handler run clears only one.
FlagsServed ==
    \A flag \in W1CFlags :
        (flag \in regs[0] /\ EnableOf[flag] \in regs[0])
            ~> (flag \notin regs[0] \/ EnableOf[flag] \notin regs[0])
=============================================================================
