---------------------------- MODULE Dma350Proofs ----------------------------
(***************************************************************************)
(* Proofs about Dma350, for every number of channels and every program of  *)
(* library calls that keep the discipline of Dma350Programs: a             *)
(* configuration field holds what the last call to name it asked for, and  *)
(* a write of a register whose bits act does only what its call is for.    *)
(***************************************************************************)
EXTENDS Dma350Programs, TLAPS

-----------------------------------------------------------------------------
(* The invariant.                                                           *)

Typed ==
    /\ regs = [f \in Frames |-> regs[f]]
    /\ asked = [f \in Frames |-> asked[f]]
    /\ wiped = [f \in Frames |-> wiped[f]]
    /\ chptr \in [Units -> Channels]
    /\ current_channel \in Channels

\* The unit of the call selects the channel that the call is about.
There(k) == chptr[k.frame] = k.about

StillWrites(k, x) == \E i \in DOMAIN k.prog : k.prog[i].op = "write" /\ x \in k.prog[i].named

\* What the call has read of a field is what the register has, or what a clear
\* has reset since: then it is what was asked for, or the call will write it.
Wanted(k, x) == IF x \in k.named THEN StillWrites(k, x) \/ x \in k.on ELSE x \in asked[k.about]
Fresh(k, x) ==
    /\ x \in regs[k.about] => x \in k.snap
    /\ x \in k.snap => x \in regs[k.about] \/ (x \in wiped[k.about] /\ Wanted(k, x))

\* What the program's call still writes back is fresh, or the call will read it;
\* and a selected channel is the one meant, or will be.
UpToDate(k) ==
    \A i \in DOMAIN k.prog : k.prog[i].op = "write" =>
        /\ Selected(k.prog, 1, i, There(k))
        /\ \A x \in Kept(k.prog[i]) :
              \/ /\ k.prog[i].reg = "CHCFG" => There(k)
                 /\ Fresh(k, x)
              \/ ReadSince(k.prog, 1, i, There(k))

\* A field holds what is wanted, or has been reset by a clear.
HoldsAs(f, x, wanted) == /\ x \in regs[f] => wanted
                         /\ wanted => x \in regs[f] \/ x \in wiped[f]

\* A field the call names will be written, or holds what the call asks for;
\* every other holds what the last finished call asked for.
Locked(f) == f = SCfg /\ "SEC_CFG_LCK" \in regs[f]
Programmed(k) ==
    \A f \in Frames : Locked(f) \/
        \A x \in ConfigFields :
            IF f = k.about /\ x \in k.named
            THEN StillWrites(k, x) \/ HoldsAs(f, x, x \in k.on)
            ELSE HoldsAs(f, x, x \in asked[f])

\* The handler reads CH_STATUS and clears the flag it has found.
FlagAccess == [op : {"read", "write"}, reg : {"CH_STATUS"}, named : SUBSET W1CFlags,
               on : SUBSET W1CFlags]
Handling(k) ==
    /\ k = [fn |-> k.fn, frame |-> k.frame, prog |-> k.prog, snap |-> k.snap,
            about |-> k.about, named |-> k.named, on |-> k.on]
    /\ k.frame \in Frames /\ k.about = k.frame
    /\ k.named \subseteq W1CFlags /\ k.on \subseteq k.named
    /\ k.prog \in Seq(FlagAccess)
    /\ \A i \in DOMAIN k.prog : k.prog[i].op = "write" =>
            k.prog[i].named = W1CFlags /\ k.prog[i].on \subseteq k.named

MainInv == /\ Typed
           /\ WellFormed(main) /\ UpToDate(main) /\ Programmed(main)
Inv == MainInv /\ Handling(isr)

-----------------------------------------------------------------------------
(* The fields of the registers.                                             *)

LEMMA FieldsMember ==
  ASSUME NEW r, NEW x
  PROVE  x \in FieldsOf(r) <=> \E n \in 1 .. 8 : r \in DOMAIN RegGroups[n] /\ x \in RegGroups[n][r]
<1>1. DOMAIN RegGroups = 1 .. 8
  BY DEF RegGroups
<1> QED
  BY <1>1 DEF FieldsOf

\* The groups have no register in common.
LEMMA Groups ==
  /\ RegGroups[1] = CommandRegs /\ RegGroups[2] = AddressRegs /\ RegGroups[3] = TransferRegs
  /\ RegGroups[4] = TriggerRegs /\ RegGroups[5] = LinkRegs /\ RegGroups[6] = ErrorRegs
  /\ RegGroups[7] = UnitRegs /\ RegGroups[8] = SecCfgRegs
BY DEF RegGroups

LEMMA Domains ==
  /\ DOMAIN CommandRegs = {"CH_CMD", "CH_STATUS", "CH_INTREN", "CH_CTRL"}
  /\ DOMAIN UnitRegs = {"STATUS", "CTRL", "CHCFG"}
  /\ DOMAIN SecCfgRegs = {"SCFG_CHSEC0", "SCFG_TRIGINSEC0", "SCFG_TRIGOUTSEC0", "SCFG_CTRL",
                          "SCFG_INTRSTATUS"}
  /\ DOMAIN ErrorRegs = {"CH_ERRINFO"}
  /\ DOMAIN AddressRegs = {"CH_SRCADDR", "CH_SRCADDRHI", "CH_DESADDR", "CH_DESADDRHI",
                           "CH_XSIZE", "CH_XSIZEHI"}
  /\ DOMAIN TransferRegs = {"CH_SRCTRANSCFG", "CH_DESTRANSCFG", "CH_XADDRINC",
                            "CH_YADDRSTRIDE", "CH_FILLVAL", "CH_YSIZE", "CH_TMPLTCFG",
                            "CH_SRCTMPLT", "CH_DESTMPLT"}
  /\ DOMAIN TriggerRegs = {"CH_SRCTRIGINCFG", "CH_DESTRIGINCFG", "CH_TRIGOUTCFG",
                           "CH_GPOEN0", "CH_GPOVAL0", "CH_STREAMINTCFG"}
  /\ DOMAIN LinkRegs = {"CH_LINKATTR", "CH_AUTOCFG", "CH_LINKADDR", "CH_LINKADDRHI"}
BY DEF CommandRegs, UnitRegs, SecCfgRegs, ErrorRegs, AddressRegs, TransferRegs, TriggerRegs,
       LinkRegs

\* The flags, and the register of each group that has any.
Flags == W1CFlags \cup UnitFlags
LEMMA FlagRegisters ==
  ASSUME NEW r, NEW x \in Flags
  PROVE  /\ r \in DOMAIN CommandRegs /\ x \in CommandRegs[r] => r = "CH_STATUS"
         /\ r \in DOMAIN UnitRegs /\ x \in UnitRegs[r] => r = "STATUS"
         /\ r \in DOMAIN SecCfgRegs => x \notin SecCfgRegs[r]
         /\ r \in DOMAIN ErrorRegs => x \notin ErrorRegs[r]
         /\ r \in DOMAIN AddressRegs => x \notin AddressRegs[r]
         /\ r \in DOMAIN TransferRegs => x \notin TransferRegs[r]
         /\ r \in DOMAIN TriggerRegs => x \notin TriggerRegs[r]
         /\ r \in DOMAIN LinkRegs => x \notin LinkRegs[r]
<1>0. x \in {"STAT_DONE", "STAT_ERR", "STAT_DISABLED", "STAT_STOPPED",
             "STAT_ALLCHIDLE", "STAT_ALLCHSTOPPED", "STAT_ALLCHPAUSED"}
  BY DEF Flags, W1CFlags, UnitFlags
<1>1. r \in DOMAIN CommandRegs /\ x \in CommandRegs[r] => r = "CH_STATUS"
  BY <1>0 DEF CommandRegs, CmdFields, W1SFields, EndIntrens, TrigIntrens, CtrlFields
<1>2. r \in DOMAIN UnitRegs /\ x \in UnitRegs[r] => r = "STATUS"
  BY <1>0 DEF UnitRegs, UnitIntrens, ChCfgFields
<1>3. r \in DOMAIN SecCfgRegs => x \notin SecCfgRegs[r]
  BY <1>0 DEF SecCfgRegs, ChSecBits, TrigInSecBits, TrigOutSecBits, ScfgFields
<1>4. r \in DOMAIN ErrorRegs => x \notin ErrorRegs[r]
  BY <1>0 DEF ErrorRegs, ErrFields
<1>5. r \in DOMAIN AddressRegs => x \notin AddressRegs[r]
  BY <1>0 DEF AddressRegs
<1>6. r \in DOMAIN TransferRegs => x \notin TransferRegs[r]
  BY <1>0 DEF TransferRegs, SrcAttrs, DesAttrs
<1>7. r \in DOMAIN TriggerRegs => x \notin TriggerRegs[r]
  BY <1>0 DEF TriggerRegs, SrcTrigCfg, DesTrigCfg
<1>8. r \in DOMAIN LinkRegs => x \notin LinkRegs[r]
  BY <1>0 DEF LinkRegs, LinkAttrs
<1> QED
  BY <1>1, <1>2, <1>3, <1>4, <1>5, <1>6, <1>7, <1>8

\* A flag is in CH_STATUS or STATUS, and what these and the other acting
\* registers hold.
LEMMA FlagsInStatus ==
  ASSUME NEW r, NEW x \in Flags, x \in FieldsOf(r)
  PROVE  r \in {"CH_STATUS", "STATUS"}
<1>1. PICK n \in 1 .. 8 : r \in DOMAIN RegGroups[n] /\ x \in RegGroups[n][r]
  BY FieldsMember
<1> QED
  BY <1>1, FlagRegisters, Groups

\* The fields of a register that is in one group only.
LEMMA InGroup ==
  ASSUME NEW m \in 1 .. 8, NEW r \in DOMAIN RegGroups[m],
         \A n \in 1 .. 8 : r \in DOMAIN RegGroups[n] => n = m
  PROVE  FieldsOf(r) = RegGroups[m][r]
<1>1. ASSUME NEW x PROVE x \in FieldsOf(r) <=> x \in RegGroups[m][r]
  BY FieldsMember
<1> QED
  BY <1>1

LEMMA ActingRegisters ==
  /\ FieldsOf("CH_CMD") = CmdFields
  /\ FieldsOf("CH_STATUS") = W1CFlags \cup PauseFlags \cup TrigFlags
  /\ FieldsOf("STATUS") = UnitFlags
  /\ FieldsOf("SCFG_INTRSTATUS") = {"STAT_SECACCVIO"}
<1>1. ASSUME NEW r \in {"CH_CMD", "CH_STATUS"} PROVE FieldsOf(r) = CommandRegs[r]
  <2>1. \A n \in 1 .. 8 : r \in DOMAIN RegGroups[n] => n = 1
    BY Groups, Domains
  <2> QED
    BY <2>1, InGroup, Groups, Domains
<1>2. FieldsOf("STATUS") = UnitRegs["STATUS"]
  <2>1. \A n \in 1 .. 8 : "STATUS" \in DOMAIN RegGroups[n] => n = 7
    BY Groups, Domains
  <2> QED
    BY <2>1, InGroup, Groups, Domains
<1>3. FieldsOf("SCFG_INTRSTATUS") = SecCfgRegs["SCFG_INTRSTATUS"]
  <2>1. \A n \in 1 .. 8 : "SCFG_INTRSTATUS" \in DOMAIN RegGroups[n] => n = 8
    BY Groups, Domains
  <2> QED
    BY <2>1, InGroup, Groups, Domains
<1>4. /\ CommandRegs["CH_CMD"] = CmdFields
      /\ CommandRegs["CH_STATUS"] = W1CFlags \cup PauseFlags \cup TrigFlags
      /\ UnitRegs["STATUS"] = UnitFlags
      /\ SecCfgRegs["SCFG_INTRSTATUS"] = {"STAT_SECACCVIO"}
  BY DEF CommandRegs, UnitRegs, SecCfgRegs
<1> QED
  BY <1>1, <1>2, <1>3, <1>4

\* The configuration of a channel is in CHCFG only.
LEMMA OnlyInChcfg ==
  ASSUME NEW r, NEW x \in FieldsOf("CHCFG"), x \in FieldsOf(r)
  PROVE  r = "CHCFG"
<1>1. x \in {"CHID", "CHIDVLD", "CHPRIV"}
  <2>1. \A n \in 1 .. 8 : "CHCFG" \in DOMAIN RegGroups[n] => n = 7
    BY Groups, Domains
  <2>2. FieldsOf("CHCFG") = UnitRegs["CHCFG"]
    BY <2>1, InGroup, Groups, Domains
  <2> QED
    BY <2>2 DEF UnitRegs, ChCfgFields
<1>2. PICK n \in 1 .. 8 : r \in DOMAIN RegGroups[n] /\ x \in RegGroups[n][r]
  BY FieldsMember
<1>3. CASE n = 1
  BY <1>1, <1>2, <1>3, Groups DEF CommandRegs, CmdFields, W1SFields, W1CFlags, PauseFlags,
     TrigFlags, EndIntrens, TrigIntrens, CtrlFields
<1>4. CASE n \in {2, 3, 4}
  BY <1>1, <1>2, <1>4, Groups DEF AddressRegs, TransferRegs, TriggerRegs, SrcAttrs, DesAttrs,
     SrcTrigCfg, DesTrigCfg
<1>5. CASE n \in {5, 6}
  BY <1>1, <1>2, <1>5, Groups DEF LinkRegs, LinkAttrs, ErrorRegs, ErrFields
<1>6. CASE n = 7
  BY <1>1, <1>2, <1>6, Groups DEF UnitRegs, UnitFlags, UnitIntrens
<1>7. CASE n = 8
  BY <1>1, <1>2, <1>7, Groups DEF SecCfgRegs, ChSecBits, TrigInSecBits, TrigOutSecBits, ScfgFields
<1> QED
  BY <1>3, <1>4, <1>5, <1>6, <1>7

-----------------------------------------------------------------------------
(* What a write leaves of a frame.                                          *)

LEMMA WriteOnly ==
  ASSUME NEW r, NEW old, NEW word
  PROVE  AfterWrite(r, old, word) \subseteq old \cup word
<1>1. AfterCommand(old, word) \subseteq old \cup word
  BY DEF AfterCommand
<1>2. AfterStatus(old, word) \subseteq old /\ AfterUnitStatus(old, word) \subseteq old
  BY DEF AfterStatus, AfterUnitStatus
<1> QED
  BY <1>1, <1>2 DEF AfterWrite

\* What a command leaves alone.
LEMMA CommandKeeps ==
  ASSUME NEW old, NEW word, word \subseteq CmdFields, NEW x,
         x \notin CmdFields \cup PauseFlags,
         x \notin W1CFlags \cup ErrFields \/ "ENABLECMD" \notin word \ old
  PROVE  x \in AfterCommand(old, word) <=> x \in old
<1>1. /\ {"SRCSWTRIGINTYPE", "DESSWTRIGINTYPE", "RESUMECMD", "PAUSECMD"} \subseteq CmdFields
      /\ "STAT_RESUMEWAIT" \in PauseFlags
  BY DEF CmdFields, W1SFields, PauseFlags
<1> QED
  BY <1>1 DEF AfterCommand

\* What a write of a status register leaves alone.
LEMMA StatusKeeps ==
  ASSUME NEW old, NEW word, NEW x \in old, x \notin word
  PROVE  /\ x \notin ErrFields => x \in AfterStatus(old, word)
         /\ x \notin {"ALLCHSTOP", "ALLCHPAUSE"} => x \in AfterUnitStatus(old, word)
BY DEF AfterStatus, AfterUnitStatus

LEMMA NotConfig ==
  ASSUME NEW x \in ConfigFields
  PROVE  /\ x \notin CmdFields \cup W1CFlags \cup PauseFlags \cup TrigFlags \cup UnitFlags
         /\ x \notin ErrFields
         /\ x \notin {"STAT_SECACCVIO", "ALLCHSTOP", "ALLCHPAUSE", "LINKADDREN", "CMDRESTARTCNT"}
BY DEF ConfigFields

\* A configuration field holds what is written, if its register is, and if it
\* is not locked.
LEMMA WriteConfig ==
  ASSUME NEW r, NEW old, NEW word, word \subseteq FieldsOf(r), NEW x \in ConfigFields
  PROVE  IF x \in FieldsOf(r) /\ ~(r \in DOMAIN SecCfgRegs /\ "SEC_CFG_LCK" \in old)
         THEN x \in AfterWrite(r, old, word) <=> x \in word
         ELSE x \in AfterWrite(r, old, word) <=> x \in old
<1>1. CASE r = "CH_CMD"
  <2>1. x \in AfterCommand(old, word) <=> x \in old
    BY <1>1, NotConfig, ActingRegisters, CommandKeeps
  <2> QED
    BY <1>1, <2>1, NotConfig, ActingRegisters DEF AfterWrite
<1>2. CASE r \in {"CH_STATUS", "STATUS"}
  <2>1. x \notin FieldsOf(r)
    BY <1>2, NotConfig, ActingRegisters
  <2>2. x \in AfterWrite(r, old, word) => x \in old
    BY <2>1, WriteOnly
  <2>3. x \in old => x \in AfterWrite(r, old, word)
    BY <1>2, <2>1, NotConfig, StatusKeeps DEF AfterWrite
  <2> QED
    BY <2>1, <2>2, <2>3
<1>3. CASE r = "SCFG_INTRSTATUS"
  BY <1>3, NotConfig, ActingRegisters DEF AfterWrite
<1>4. CASE r \notin {"CH_CMD", "CH_STATUS", "STATUS", "SCFG_INTRSTATUS"}
  BY <1>4, NotConfig DEF AfterWrite
<1> QED
  BY <1>1, <1>2, <1>3, <1>4

\* A flag is cleared by a write of its register that holds it, or by a command
\* that enables the channel.
LEMMA WriteFlags ==
  ASSUME NEW r, NEW old, NEW word, word \subseteq FieldsOf(r),
         NEW x \in Flags, x \in old, x \notin AfterWrite(r, old, word)
  PROVE  \/ x \in word /\ r \in {"CH_STATUS", "STATUS"}
         \/ "ENABLECMD" \in AfterWrite(r, old, word) /\ "ENABLECMD" \notin old
<1>0. /\ x \notin CmdFields /\ x \notin PauseFlags /\ x \notin ErrFields
      /\ x \notin {"ALLCHSTOP", "ALLCHPAUSE"}
  BY DEF Flags, W1CFlags, UnitFlags, CmdFields, W1SFields, PauseFlags, ErrFields
<1>1. CASE r = "CH_CMD"
  <2>1. word \subseteq CmdFields /\ AfterWrite(r, old, word) = AfterCommand(old, word)
    BY <1>1, ActingRegisters DEF AfterWrite
  <2>2. "ENABLECMD" \in word \ old
    BY <1>0, <2>1, CommandKeeps
  <2>3. "ENABLECMD" \in AfterCommand(old, word)
    <3>1. /\ "ENABLECMD" \notin TypesOf(old) \cup WhileEnabled \cup {"RESUMECMD"}
          /\ "ENABLECMD" \notin W1CFlags \cup ErrFields
      BY DEF TypesOf, WhileEnabled, W1CFlags, ErrFields
    <3> QED
      BY <2>2, <3>1 DEF AfterCommand
  <2> QED
    BY <2>1, <2>2, <2>3
<1>2. CASE r \in {"CH_STATUS", "STATUS"}
  BY <1>0, <1>2, StatusKeeps DEF AfterWrite
<1>3. CASE r = "SCFG_INTRSTATUS"
  BY <1>3, ActingRegisters DEF AfterWrite, Flags, W1CFlags, UnitFlags
<1>4. CASE r \notin {"CH_CMD", "CH_STATUS", "STATUS", "SCFG_INTRSTATUS"}
  BY <1>4, FlagsInStatus DEF AfterWrite
<1> QED
  BY <1>1, <1>2, <1>3, <1>4

-----------------------------------------------------------------------------
(* One access of a call.                                                    *)

LEMMA Cut ==
  ASSUME NEW S, NEW s \in Seq(S), s # <<>>
  PROVE  /\ Len(s) \in Nat \ {0} /\ DOMAIN s = 1 .. Len(s) /\ 1 \in DOMAIN s
         /\ Head(s) = s[1] /\ s[1] \in S
         /\ Tail(s) \in Seq(S) /\ Len(Tail(s)) = Len(s) - 1
         /\ DOMAIN Tail(s) = 1 .. Len(s) - 1
         /\ \A i \in 1 .. Len(s) - 1 : Tail(s)[i] = s[i + 1]
OBVIOUS

LEMMA AccessFields ==
  ASSUME NEW a \in Access
  PROVE  /\ a.op \in {"read", "write", "trespass", "point"}
         /\ a.op = "point" => a.reg = "CHPTR" /\ a.to \in Channels
BY DEF Access

\* A write goes to the frame the call is about, and stores its own fields.
LEMMA WriteLands ==
  ASSUME NEW k, Typed, WellFormed(k), UpToDate(k), Busy(k), k.prog[1].op = "write"
  PROVE  LET a == k.prog[1]
             word == ((k.snap \cap FieldsOf(a.reg)) \ a.named) \cup a.on
         IN  /\ WritesAsAsked(k, a)
             /\ Home(k.frame, a.reg) = k.about
             /\ word \subseteq FieldsOf(a.reg)
             /\ AccessRegs(k) = [regs EXCEPT ![k.about] = AfterWrite(a.reg, @, word)]
             /\ \A x \in Kept(a) : Fresh(k, x) /\ (x \in word <=> x \in k.snap)
             /\ \A x \in a.named : x \in word <=> x \in a.on
<1> DEFINE a == k.prog[1]
           word == ((k.snap \cap FieldsOf(a.reg)) \ a.named) \cup a.on
<1>1. Head(k.prog) = a /\ 1 \in DOMAIN k.prog
  BY Cut DEF WellFormed, Busy
<1>2. WritesAsAsked(k, a)
  BY <1>1 DEF WellFormed
<1>3. /\ a.reg = "CHCFG" => There(k)
      /\ \A x \in Kept(a) : Fresh(k, x)
  <2>1. 1 .. 1 - 1 = {}
    OBVIOUS
  <2> QED
    BY <1>1, <2>1 DEF UpToDate, Selected, ReadSince
<1>4. Home(k.frame, a.reg) = k.about
  BY <1>2, <1>3 DEF Home, There, WritesAsAsked
<1>5. word \subseteq FieldsOf(a.reg) /\ \A x \in a.named : x \in word <=> x \in a.on
  BY <1>2 DEF WritesAsAsked
<1>6. \A x \in Kept(a) : Fresh(k, x) /\ (x \in word <=> x \in k.snap)
  BY <1>2, <1>3 DEF Kept, WritesAsAsked
<1>7. AccessRegs(k) = [regs EXCEPT ![k.about] = AfterWrite(a.reg, @, word)]
  BY <1>1, <1>4 DEF AccessRegs
<1> QED
  BY <1>2, <1>4, <1>5, <1>6, <1>7

\* A field that an access does not name stays as it is; of what a clear has
\* reset, a word that was read before may bring back what is wanted.
Stays(k, f, x) ==
    /\ x \in regs[f] => x \in regs'[f]
    /\ x \in regs'[f] => \/ x \in regs[f]
                         \/ /\ k.prog[1].op = "write" /\ f = k.about
                            /\ x \in k.snap /\ x \in wiped[f] /\ Wanted(k, x)

LEMMA MainAccess ==
  ASSUME NEW k, Typed, WellFormed(k), UpToDate(k), Busy(k),
         regs' = AccessRegs(k), wiped' = WipedAfter(k)
  PROVE  LET a == k.prog[1]
         IN  /\ regs' = [f \in Frames |-> regs'[f]]
             /\ wiped' = [f \in Frames |-> wiped'[f]]
             /\ \A f \in Frames, x \in ConfigFields :
                   ~(a.op = "write" /\ f = k.about /\ x \in a.named)
                     => Stays(k, f, x) /\ (x \in wiped'[f] <=> x \in wiped[f])
             /\ \A x \in ConfigFields :
                   a.op = "write" /\ x \in a.named
                     => Locked(k.about) \/ (x \in regs'[k.about] <=> x \in k.on)
             /\ \A f \in Frames : Locked(f) => Locked(f)'
<1> DEFINE a == k.prog[1]
           word == ((k.snap \cap FieldsOf(a.reg)) \ a.named) \cup a.on
<1>0. /\ Head(k.prog) = a /\ a \in Access /\ 1 \in DOMAIN k.prog
      /\ k.about \in Frames
  BY Cut DEF WellFormed, Busy
<1>2. CASE a.op = "write"
  <2>0. /\ WritesAsAsked(k, a)
        /\ Home(k.frame, a.reg) = k.about
        /\ word \subseteq FieldsOf(a.reg)
        /\ regs' = [regs EXCEPT ![k.about] = AfterWrite(a.reg, @, word)]
        /\ \A x \in Kept(a) : Fresh(k, x) /\ (x \in word <=> x \in k.snap)
        /\ \A x \in a.named : x \in word <=> x \in a.on
    BY <1>2, WriteLands
  <2> HIDE DEF word
  <2>1. /\ regs' = [f \in Frames |-> regs'[f]]
        /\ \A f \in Frames : f # k.about => regs'[f] = regs[f]
        /\ regs'[k.about] = AfterWrite(a.reg, regs[k.about], word)
    BY <2>0, <1>0 DEF Typed
  <2>6. /\ wiped' = [f \in Frames |-> wiped'[f]]
        /\ \A f \in Frames : f # k.about => wiped'[f] = wiped[f]
        /\ wiped'[k.about] = wiped[k.about] \ a.named
    <3>1. wiped' = [wiped EXCEPT ![k.about] = @ \ a.named]
      BY <1>0, <1>2, <2>0 DEF WipedAfter
    <3> QED
      BY <1>0, <3>1 DEF Typed
  <2>2. ASSUME NEW x \in ConfigFields, x \notin a.named
        PROVE  Stays(k, k.about, x)
    <3>1. CASE x \in FieldsOf(a.reg) /\ ~(a.reg \in DOMAIN SecCfgRegs /\ "SEC_CFG_LCK" \in regs[k.about])
      <4>1. x \in Kept(a)
        BY <2>2, <3>1 DEF Kept
      <4>2. x \in regs'[k.about] <=> x \in k.snap
        BY <2>0, <2>1, <2>2, <3>1, <4>1, WriteConfig
      <4> QED
        BY <1>2, <2>0, <4>1, <4>2 DEF Fresh, Stays
    <3>2. CASE ~(x \in FieldsOf(a.reg) /\ ~(a.reg \in DOMAIN SecCfgRegs /\ "SEC_CFG_LCK" \in regs[k.about]))
      <4>1. x \in regs'[k.about] <=> x \in regs[k.about]
        BY <2>0, <2>1, <2>2, <3>2, WriteConfig
      <4> QED
        BY <4>1 DEF Stays
    <3> QED
      BY <3>1, <3>2
  <2>3. ASSUME NEW x \in ConfigFields, x \in a.named
        PROVE  Locked(k.about) \/ (x \in regs'[k.about] <=> x \in k.on)
    <3>1. x \in FieldsOf(a.reg) /\ (x \in a.on <=> x \in k.on)
      BY <2>0, <2>3 DEF WritesAsAsked
    <3>2. CASE a.reg \in DOMAIN SecCfgRegs /\ "SEC_CFG_LCK" \in regs[k.about]
      <4>1. a.reg # "CHCFG"
        BY <3>2, Domains
      <4> QED
        BY <2>0, <3>2, <4>1 DEF Locked, WritesAsAsked
    <3>3. CASE ~(a.reg \in DOMAIN SecCfgRegs /\ "SEC_CFG_LCK" \in regs[k.about])
      BY <2>0, <2>1, <2>3, <3>1, <3>3, WriteConfig
    <3> QED
      BY <3>2, <3>3
  <2>4. ASSUME NEW f \in Frames, Locked(f) PROVE Locked(f)'
    <3>1. CASE f # k.about
      BY <2>1, <2>4, <3>1 DEF Locked
    <3>2. CASE f = k.about
      <4>1. k.frame = SCfg
        BY <2>0, <2>4, <3>2, FramesAssumption DEF Locked, WritesAsAsked
      <4>2. a.reg \in DOMAIN SecCfgRegs
        BY <2>0, <4>1 DEF WritesAsAsked
      <4>3. "SEC_CFG_LCK" \in AfterWrite(a.reg, regs[k.about], word)
        BY <2>4, <3>2, <4>2, <2>0, Domains, ActingRegisters DEF AfterWrite, Locked
      <4> QED
        BY <2>1, <2>4, <3>2, <4>3 DEF Locked
    <3> QED
      BY <3>1, <3>2
  <2>5. ASSUME NEW f \in Frames, f # k.about, NEW x PROVE Stays(k, f, x)
    BY <2>1, <2>5 DEF Stays
  <2> QED
    BY <1>2, <2>1, <2>2, <2>3, <2>4, <2>5, <2>6
<1>3. CASE a.op = "trespass"
  <2>1. /\ regs' = [regs EXCEPT ![SCfg] = @ \cup {"STAT_SECACCVIO"}]
        /\ SCfg \in Frames /\ wiped' = wiped
    BY <1>0, <1>3 DEF AccessRegs, WipedAfter, Frames
  <2>2. \A f \in Frames : \A x : x # "STAT_SECACCVIO" => (x \in regs'[f] <=> x \in regs[f])
    BY <2>1 DEF Typed
  <2>3. regs' = [f \in Frames |-> regs'[f]]
    BY <2>1 DEF Typed
  <2> QED
    BY <1>3, <2>1, <2>2, <2>3, NotConfig DEF Locked, Stays, Typed
<1>4. CASE a.op \notin {"write", "trespass"}
  <2>1. regs' = regs /\ wiped' = wiped
    BY <1>0, <1>4 DEF AccessRegs, WipedAfter
  <2> QED
    BY <1>4, <2>1 DEF Typed, Locked, Stays
<1> QED
  BY <1>2, <1>3, <1>4

-----------------------------------------------------------------------------
(* A call goes on with its next access.                                     *)

LEMMA Shift ==
  ASSUME NEW S, NEW p \in Seq(S), p # <<>>, NEW first \in Nat \ {0},
         NEW i \in 1 .. Len(p) - 1, NEW there \in BOOLEAN
  PROVE  /\ Selected(p, first + 1, i + 1, there) => Selected(Tail(p), first, i, there)
         /\ ReadSince(p, first + 1, i + 1, there) => ReadSince(Tail(p), first, i, there)
<1>0. Len(p) \in Nat /\ \A j \in 1 .. Len(p) - 1 : Tail(p)[j] = p[j + 1]
  BY Cut
<1>1. ASSUME NEW n \in 1 .. Len(p) - 1, Selected(p, first + 1, n + 1, there)
      PROVE  Selected(Tail(p), first, n, there)
  <2> SUFFICES ASSUME p[n + 1].reg = "CHCFG", ~there
               PROVE  \E j \in first .. n - 1 : Tail(p)[j].op = "point"
    BY <1>0, <1>1 DEF Selected
  <2>1. PICK j \in first + 1 .. (n + 1) - 1 : p[j].op = "point"
    BY <1>1 DEF Selected
  <2>2. j - 1 \in first .. n - 1 /\ j - 1 \in 1 .. Len(p) - 1 /\ (j - 1) + 1 = j
    BY <1>0, <1>1
  <2> QED
    BY <1>0, <2>1, <2>2
<1>2. ASSUME ReadSince(p, first + 1, i + 1, there)
      PROVE  ReadSince(Tail(p), first, i, there)
  <2>1. PICK j \in first + 1 .. (i + 1) - 1 : /\ p[j].op = "read"
                                              /\ p[j].reg = p[i + 1].reg
                                              /\ Selected(p, first + 1, j, there)
    BY <1>2 DEF ReadSince
  <2>2. j - 1 \in first .. i - 1 /\ j - 1 \in 1 .. Len(p) - 1 /\ (j - 1) + 1 = j
    BY <1>0
  <2>3. Tail(p)[j - 1] = p[j] /\ Tail(p)[i] = p[i + 1]
    BY <1>0, <2>2
  <2>4. Selected(Tail(p), first, j - 1, there)
    BY <1>1, <2>1, <2>2
  <2> QED
    BY <2>1, <2>2, <2>3, <2>4 DEF ReadSince
<1> QED
  BY <1>1, <1>2

LEMMA IdleWellFormed ==
  ASSUME NEW f \in Frames
  PROVE  WellFormed(Idle(f)) /\ ~Busy(Idle(f)) /\ Idle(f).named = {} /\ Idle(f).about = f
<1>1. <<>> \in Seq(Access) /\ DOMAIN <<>> = {}
  OBVIOUS
<1> QED
  BY <1>1 DEF WellFormed, Idle, Call, Busy

LEMMA CutRecord ==
  ASSUME NEW k, NEW seen,
         k = [fn |-> k.fn, frame |-> k.frame, prog |-> k.prog, snap |-> k.snap,
              about |-> k.about, named |-> k.named, on |-> k.on]
  PROVE  [k EXCEPT !.prog = Tail(@), !.snap = seen]
         = [fn |-> k.fn, frame |-> k.frame, prog |-> Tail(k.prog), snap |-> seen,
            about |-> k.about, named |-> k.named, on |-> k.on]
<1> DEFINE m == [k EXCEPT !.prog = Tail(@), !.snap = seen]
           parts == {"fn", "frame", "prog", "snap", "about", "named", "on"}
<1>1. DOMAIN k = parts
  OBVIOUS
<1>2. m = [f \in parts |-> IF f = "snap" THEN seen ELSE IF f = "prog" THEN Tail(k.prog) ELSE k[f]]
  BY <1>1
<1>3. /\ m.fn = k.fn /\ m.frame = k.frame /\ m.prog = Tail(k.prog) /\ m.snap = seen
      /\ m.about = k.about /\ m.named = k.named /\ m.on = k.on
  BY <1>2
<1>4. ASSUME NEW r, r = [f \in parts |-> r[f]],
             r.fn = k.fn, r.frame = k.frame, r.prog = Tail(k.prog), r.snap = seen,
             r.about = k.about, r.named = k.named, r.on = k.on
      PROVE  r = [fn |-> k.fn, frame |-> k.frame, prog |-> Tail(k.prog), snap |-> seen,
                  about |-> k.about, named |-> k.named, on |-> k.on]
  BY <1>4
<1>5. m = [f \in parts |-> m[f]]
  BY <1>2
<1> HIDE DEF m
<1>6. m = [fn |-> k.fn, frame |-> k.frame, prog |-> Tail(k.prog), snap |-> seen,
           about |-> k.about, named |-> k.named, on |-> k.on]
  BY <1>3, <1>4, <1>5
<1> QED
  BY <1>6 DEF m

LEMMA CutWellFormed ==
  ASSUME NEW k, WellFormed(k), Busy(k), Len(k.prog) > 1, NEW m,
         m = [fn |-> m.fn, frame |-> m.frame, prog |-> m.prog, snap |-> m.snap,
              about |-> m.about, named |-> m.named, on |-> m.on],
         m.prog = Tail(k.prog), m.fn = k.fn, m.frame = k.frame, m.about = k.about,
         m.named = k.named, m.on = k.on
  PROVE  WellFormed(m)
<1> DEFINE p == k.prog
           t == Tail(p)
<1>3. p \in Seq(Access) /\ p # <<>>
  BY DEF WellFormed, Busy
<1>4. /\ t \in Seq(Access) /\ DOMAIN t = 1 .. Len(p) - 1 /\ Len(t) = Len(p) - 1
      /\ Len(p) \in Nat /\ DOMAIN p = 1 .. Len(p)
      /\ \A i \in 1 .. Len(p) - 1 : t[i] = p[i + 1]
  BY <1>3, Cut
<1> HIDE DEF t
<1>5. t # <<>>
  <2>1. Len(t) > 0
    BY <1>4
  <2> QED
    BY <2>1
<1>10. ASSUME NEW first \in Nat \ {0}, NEW n \in 1 .. Len(p) - 1
       PROVE  ReadSince(p, first + 1, n + 1, FALSE) => ReadSince(t, first, n, FALSE)
  BY <1>3, Shift DEF t
<1>6. ASSUME NEW i \in DOMAIN t
      PROVE  /\ t[i].op = "write" => WritesAsAsked(m, t[i])
             /\ t[i].reg \in {"CHCFG", "CHPTR"} => k.frame \in Units
             /\ \A j \in i + 1 .. Len(t) :
                 /\ t[i].op = "point" /\ t[j].op = "write" /\ t[j].reg = "CHCFG"
                      => t[i].to = k.about
                 /\ t[i].op = "write" /\ t[j].op = "write"
                      /\ t[i].named \cap Kept(t[j]) # {}
                      => ReadSince(t, i + 1, j, FALSE)
  <2>1. i \in Nat \ {0} /\ i + 1 \in DOMAIN p /\ t[i] = p[i + 1]
    BY <1>4
  <2>2. t[i].op = "write" => WritesAsAsked(m, t[i])
    <3>1. t[i].op = "write" => WritesAsAsked(k, t[i])
      BY <2>1 DEF WellFormed
    <3> QED
      BY <3>1 DEF WritesAsAsked
  <2>3. t[i].reg \in {"CHCFG", "CHPTR"} => k.frame \in Units
    BY <2>1 DEF WellFormed
  <2>4. ASSUME NEW j \in i + 1 .. Len(t)
        PROVE  /\ t[i].op = "point" /\ t[j].op = "write" /\ t[j].reg = "CHCFG"
                    => t[i].to = k.about
               /\ t[i].op = "write" /\ t[j].op = "write"
                    /\ t[i].named \cap Kept(t[j]) # {}
                    => ReadSince(t, i + 1, j, FALSE)
    <3>1. j + 1 \in (i + 1) + 1 .. Len(p) /\ j \in 1 .. Len(p) - 1 /\ t[j] = p[j + 1]
      BY <1>4, <2>1
    <3>2. /\ p[i + 1].op = "point" /\ p[j + 1].op = "write" /\ p[j + 1].reg = "CHCFG"
               => p[i + 1].to = k.about
          /\ p[i + 1].op = "write" /\ p[j + 1].op = "write"
               /\ p[i + 1].named \cap Kept(p[j + 1]) # {}
               => ReadSince(p, (i + 1) + 1, j + 1, FALSE)
      BY <2>1, <3>1 DEF WellFormed
    <3>3. ReadSince(p, (i + 1) + 1, j + 1, FALSE) => ReadSince(t, i + 1, j, FALSE)
      <4>1. i + 1 \in Nat \ {0}
        BY <2>1
      <4> QED
        BY <3>1, <4>1, <1>10
    <3> QED
      BY <2>1, <3>1, <3>2, <3>3
  <2> QED
    BY <2>1, <2>2, <2>3, <2>4
<1>7. /\ {k.frame, k.about} \subseteq Frames /\ k.on \subseteq k.named
      /\ k.fn # "DMAClearChIrq"
  BY DEF WellFormed
<1>8. m.prog = t
  BY DEF t
<1>9. Busy(m)
  BY <1>5, <1>8 DEF Busy
<1> QED
  BY <1>4, <1>6, <1>7, <1>8, <1>9 DEF WellFormed

-----------------------------------------------------------------------------
(* A step of the program.                                                   *)

\* What the call has read after its next access.
Seen(k) == LET a == k.prog[1]
           IN  IF a.op = "read" THEN (k.snap \ FieldsOf(a.reg)) \cup WordOf(k.frame, a.reg)
               ELSE k.snap

LEMMA GoesOn ==
  ASSUME WellFormed(main), MainStep, Len(main.prog) > 1
  PROVE  /\ WellFormed(main')
         /\ main'.prog = Tail(main.prog) /\ main'.snap = Seen(main)
         /\ main'.frame = main.frame /\ main'.about = main.about
         /\ main'.named = main.named /\ main'.on = main.on
         /\ asked' = asked
<1>1. Head(main.prog) = main.prog[1] /\ Busy(main)
  BY Cut DEF WellFormed, MainStep, Busy
<1>2. main' = [main EXCEPT !.prog = Tail(@), !.snap = Seen(main)]
  BY <1>1 DEF MainStep, AfterAccess, Seen
<1>3. asked' = asked
  <2>1. Len(main.prog) \in Nat
    BY Cut DEF WellFormed, MainStep, Busy
  <2>2. ASSUME NEW n \in Nat, n > 1 PROVE n # 1
    BY <2>2
  <2>3. Len(main.prog) # 1
    BY <2>1, <2>2
  <2> QED
    BY <2>3 DEF MainStep, AskedAfter, Returns
<1>4. main = [fn |-> main.fn, frame |-> main.frame, prog |-> main.prog, snap |-> main.snap,
              about |-> main.about, named |-> main.named, on |-> main.on]
  BY DEF WellFormed
<1>5. main' = [fn |-> main.fn, frame |-> main.frame, prog |-> Tail(main.prog),
               snap |-> Seen(main), about |-> main.about, named |-> main.named, on |-> main.on]
  BY <1>2, <1>4, CutRecord
<1>6. /\ main'.prog = Tail(main.prog) /\ main'.snap = Seen(main) /\ main'.fn = main.fn
      /\ main'.frame = main.frame /\ main'.about = main.about
      /\ main'.named = main.named /\ main'.on = main.on
  BY <1>5
<1>7. main' = [fn |-> main'.fn, frame |-> main'.frame, prog |-> main'.prog,
               snap |-> main'.snap, about |-> main'.about, named |-> main'.named,
               on |-> main'.on]
  BY <1>5, <1>6
<1>8. WellFormed(main')
  BY <1>1, <1>6, <1>7, CutWellFormed
<1> QED
  BY <1>3, <1>6, <1>8

LEMMA Ends ==
  ASSUME WellFormed(main), MainStep, ~(Len(main.prog) > 1)
  PROVE  /\ main' = Idle(main.frame) /\ Len(main.prog) = 1
         /\ asked' = [asked EXCEPT ![main.about] = (@ \ main.named) \cup main.on]
<1>1. Len(main.prog) = 1
  <2>1. Len(main.prog) \in Nat /\ Len(main.prog) # 0
    BY Cut DEF WellFormed, MainStep, Busy
  <2>2. ASSUME NEW n \in Nat, n # 0, ~(n > 1) PROVE n = 1
    BY <2>2
  <2> QED
    BY <2>1, <2>2
<1> QED
  BY <1>1 DEF MainStep, AfterAccess, AskedAfter, Returns, WellFormed

\* Moving the pointer, the call selects the channel it is about.
LEMMA StaysThere ==
  ASSUME Typed, WellFormed(main), MainStep, NEW i \in 2 .. Len(main.prog),
         main.prog[i].op = "write", main.prog[i].reg = "CHCFG"
  PROVE  /\ main.prog[1].op = "point" => chptr'[main.frame] = main.about
         /\ There(main) => chptr'[main.frame] = main.about
<1>1. /\ Head(main.prog) = main.prog[1] /\ main.prog[1] \in Access
      /\ 1 \in DOMAIN main.prog /\ Len(main.prog) \in Nat
  BY Cut DEF WellFormed, MainStep, Busy
<1>2. main.prog[1].op = "point" => main.prog[1].to = main.about /\ main.frame \in Units
  <2>1. i \in 1 + 1 .. Len(main.prog)
    BY <1>1
  <2>2. main.prog[1].op = "point" => main.prog[1].reg = "CHPTR"
    BY <1>1, AccessFields
  <2> QED
    BY <1>1, <2>1, <2>2 DEF WellFormed
<1>3. chptr' = IF main.prog[1].op = "point" THEN [chptr EXCEPT ![main.frame] = main.prog[1].to]
               ELSE chptr
  BY <1>1 DEF MainStep, AccessPtr
<1> QED
  BY <1>2, <1>3 DEF Typed, There

\* What the call has yet to write it has after an access that does not write it.
LEMMA WritesStill ==
  ASSUME WellFormed(main), Busy(main), NEW x, StillWrites(main, x),
         ~(main.prog[1].op = "write" /\ x \in main.prog[1].named)
  PROVE  \E i \in 1 .. Len(main.prog) - 1 :
            main.prog[i + 1].op = "write" /\ x \in main.prog[i + 1].named
<1>1. Len(main.prog) \in Nat /\ DOMAIN main.prog = 1 .. Len(main.prog)
  BY Cut DEF WellFormed, Busy
<1>2. PICK i \in DOMAIN main.prog : main.prog[i].op = "write" /\ x \in main.prog[i].named
  BY DEF StillWrites
<1>3. i # 1
  BY <1>2
<1>4. i - 1 \in 1 .. Len(main.prog) - 1 /\ (i - 1) + 1 = i
  BY <1>1, <1>3
<1> QED
  BY <1>2, <1>4

LEMMA MainStepUpToDate ==
  ASSUME Typed, WellFormed(main), UpToDate(main), MainStep,
         Len(main.prog) > 1
  PROVE  UpToDate(main)'
<1> DEFINE p == main.prog
           a == p[1]
<1>1. /\ main'.prog = Tail(p) /\ main'.snap = Seen(main)
      /\ main'.frame = main.frame /\ main'.about = main.about
      /\ main'.named = main.named /\ main'.on = main.on /\ asked' = asked
  BY GoesOn
<1>2. /\ p \in Seq(Access) /\ p # <<>> /\ Busy(main) /\ regs' = AccessRegs(main)
      /\ wiped' = WipedAfter(main)
  BY DEF WellFormed, MainStep, Busy
<1>3. /\ Len(p) \in Nat /\ DOMAIN p = 1 .. Len(p) /\ a \in Access
      /\ DOMAIN Tail(p) = 1 .. Len(p) - 1
      /\ \A i \in 1 .. Len(p) - 1 : Tail(p)[i] = p[i + 1]
  BY <1>2, Cut
<1>4. \A f \in Frames, x \in ConfigFields :
         ~(a.op = "write" /\ f = main.about /\ x \in a.named)
           => Stays(main, f, x) /\ (x \in wiped'[f] <=> x \in wiped[f])
  BY <1>2, MainAccess
<1>5. main.about \in Frames
  BY DEF WellFormed
<1> SUFFICES ASSUME NEW i \in 1 .. Len(p) - 1, p[i + 1].op = "write"
             PROVE  /\ Selected(Tail(p), 1, i, There(main)')
                    /\ \A x \in Kept(p[i + 1]) :
                          \/ /\ p[i + 1].reg = "CHCFG" => There(main)'
                             /\ Fresh(main, x)'
                          \/ ReadSince(Tail(p), 1, i, There(main)')
  <2>1. (\A i \in DOMAIN main'.prog : main'.prog[i].op = "write" =>
           /\ Selected(main'.prog, 1, i, There(main)')
           /\ \A x \in Kept(main'.prog[i]) :
                 \/ /\ main'.prog[i].reg = "CHCFG" => There(main)'
                    /\ Fresh(main, x)'
                 \/ ReadSince(main'.prog, 1, i, There(main)'))
           => UpToDate(main)'
    BY DEF UpToDate
  <2> QED
    BY <1>1, <1>3, <2>1
<1> DEFINE there  == There(main)
           there2 == There(main)'
<1>6. There(main)' <=> chptr'[main.frame] = main.about
  BY <1>1 DEF There
<1>7. there \in BOOLEAN /\ there2 \in BOOLEAN /\ i + 1 \in 2 .. Len(p) /\ i + 1 \in DOMAIN p
  BY <1>3, <1>6 DEF There
<1>8. p[i + 1].reg = "CHCFG" => (there => there2) /\ (a.op = "point" => there2)
  BY <1>6, <1>7, StaysThere
<1> HIDE DEF there, there2, p
\* What was selected by access 1 or before is selected after it.
<1>9. ASSUME NEW n \in 1 .. i, p[n + 1].reg = p[i + 1].reg, Selected(p, 1, n + 1, there)
      PROVE  Selected(Tail(p), 1, n, there2)
  <2>1. n \in 1 .. Len(p) - 1
    BY <1>3
  <2>2. Selected(p, 1 + 1, n + 1, there2)
    <3> SUFFICES ASSUME p[n + 1].reg = "CHCFG", ~there2
                 PROVE  \E j \in 1 + 1 .. (n + 1) - 1 : p[j].op = "point"
      BY DEF Selected
    <3>1. ~there /\ a.op # "point"
      BY <1>8, <1>9
    <3>2. PICK j \in 1 .. (n + 1) - 1 : p[j].op = "point"
      BY <1>9, <3>1 DEF Selected
    <3>3. j # 1
      BY <3>1, <3>2
    <3> QED
      BY <3>2, <3>3
  <2> QED
    BY <1>2, <1>7, <2>1, <2>2, Shift
<1>10. /\ Selected(p, 1, i + 1, there)
       /\ \A x \in Kept(p[i + 1]) :
             \/ /\ p[i + 1].reg = "CHCFG" => there
                /\ Fresh(main, x)
             \/ ReadSince(p, 1, i + 1, there)
  BY <1>7 DEF UpToDate, p, there
<1>11. Selected(Tail(p), 1, i, there2)
  BY <1>9, <1>10
<1>12. WritesAsAsked(main, p[i + 1])
  BY <1>7 DEF WellFormed, p
<1>13. ASSUME NEW x \in Kept(p[i + 1])
       PROVE  \/ /\ p[i + 1].reg = "CHCFG" => there2
                 /\ Fresh(main, x)'
              \/ ReadSince(Tail(p), 1, i, there2)
  <2>1. x \in FieldsOf(p[i + 1].reg) /\ x \in ConfigFields
    BY DEF Kept
  <2>2. CASE a.op = "write" /\ x \in a.named
    <3>1. ReadSince(p, 1 + 1, i + 1, FALSE)
      <4>1. 1 \in DOMAIN p /\ i + 1 \in 1 + 1 .. Len(p)
        BY <1>3, <1>7
      <4> QED
        BY <2>2, <4>1 DEF WellFormed, p
    <3>2. ReadSince(Tail(p), 1, i, FALSE)
      <4>1. 1 \in Nat \ {0} /\ FALSE \in BOOLEAN
        OBVIOUS
      <4>2. \A b \in BOOLEAN : ReadSince(p, 1 + 1, i + 1, b) => ReadSince(Tail(p), 1, i, b)
        BY <1>2, <4>1, Shift
      <4> QED
        BY <3>1, <4>1, <4>2
    <3> QED
      BY <3>2 DEF ReadSince, Selected
  <2>3. CASE ~(a.op = "write" /\ x \in a.named)
    <3>1. Stays(main, main.about, x) /\ (x \in wiped'[main.about] <=> x \in wiped[main.about])
      BY <1>4, <1>5, <2>1, <2>3
    <3>4. Wanted(main, x) => Wanted(main, x)'
      <4>1. StillWrites(main, x) => StillWrites(main, x)'
        <5> SUFFICES ASSUME StillWrites(main, x) PROVE StillWrites(main, x)'
          OBVIOUS
        <5>1. PICK j \in 1 .. Len(p) - 1 : p[j + 1].op = "write" /\ x \in p[j + 1].named
          BY <1>2, <2>3, WritesStill DEF p
        <5>2. main'.prog = Tail(p) /\ j \in DOMAIN Tail(p) /\ Tail(p)[j] = p[j + 1]
          BY <1>1, <1>3, <5>1
        <5>3. \E n \in DOMAIN Tail(p) : Tail(p)[n].op = "write" /\ x \in Tail(p)[n].named
          BY <5>1, <5>2
        <5> QED
          BY <5>2, <5>3 DEF StillWrites
      <4> QED
        BY <1>1, <4>1 DEF Wanted
    \* What the access has just read is what the register has.
    <3>5. ASSUME a.op = "read", x \in Seen(main) <=> x \in regs[main.about]
          PROVE  Fresh(main, x)'
      <4>1. x \in regs'[main.about] <=> x \in regs[main.about]
        BY <3>1, <3>5 DEF Stays, p
      <4> QED
        BY <1>1, <3>5, <4>1 DEF Fresh
    <3>2. CASE /\ p[i + 1].reg = "CHCFG" => there
               /\ Fresh(main, x)
      <4>1. p[i + 1].reg = "CHCFG" => there2
        BY <1>8, <3>2
      <4>2. ASSUME x \in Seen(main) <=> x \in main.snap PROVE Fresh(main, x)'
        <5>1. x \in regs'[main.about] => x \in main.snap
          BY <3>1, <3>2 DEF Stays, Fresh
        <5>2. x \in main.snap => \/ x \in regs'[main.about]
                                 \/ x \in wiped'[main.about] /\ Wanted(main, x)'
          BY <3>1, <3>2, <3>4 DEF Stays, Fresh
        <5> QED
          BY <1>1, <4>2, <5>1, <5>2 DEF Fresh
      <4>5. a.op # "read" => Seen(main) = main.snap
        BY DEF Seen, p
      <4>3. CASE a.op = "read" /\ x \in FieldsOf(a.reg)
        <5>1. a.reg = "CHCFG" <=> p[i + 1].reg = "CHCFG"
          BY <2>1, <4>3, OnlyInChcfg
        <5>2. Home(main.frame, a.reg) = main.about
          BY <1>12, <3>2, <5>1 DEF Home, There, WritesAsAsked, there
        <5>3. x \in Seen(main) <=> x \in regs[main.about]
          BY <4>3, <5>2 DEF Seen, WordOf, p
        <5> QED
          BY <3>5, <4>1, <4>3, <5>3
      <4>4. CASE a.op = "read" /\ x \notin FieldsOf(a.reg)
        <5>1. x \in Seen(main) <=> x \in main.snap
          BY <4>4 DEF Seen, WordOf, p
        <5> QED
          BY <4>1, <4>2, <5>1
      <4> QED
        BY <4>1, <4>2, <4>3, <4>4, <4>5
    <3>3. CASE ReadSince(p, 1, i + 1, there)
      <4>1. PICK j \in 1 .. (i + 1) - 1 : /\ p[j].op = "read"
                                          /\ p[j].reg = p[i + 1].reg
                                          /\ Selected(p, 1, j, there)
        BY <3>3 DEF ReadSince
      <4>2. CASE j = 1
        <5>1. a.reg = "CHCFG" => there
          BY <4>1, <4>2 DEF Selected
        <5>2. Home(main.frame, a.reg) = main.about
          BY <1>12, <4>1, <4>2, <5>1 DEF Home, There, WritesAsAsked, there
        <5>3. x \in Seen(main) <=> x \in regs[main.about]
          BY <2>1, <4>1, <4>2, <5>2 DEF Seen, WordOf, p
        <5> QED
          BY <1>8, <3>5, <4>1, <4>2, <5>1, <5>3
      <4>3. CASE j # 1
        <5>1. j - 1 \in 1 .. i /\ (j - 1) + 1 = j /\ j - 1 \in 1 .. i - 1
          BY <1>3, <4>3
        <5>2. Selected(Tail(p), 1, j - 1, there2)
          BY <1>9, <4>1, <5>1
        <5>3. Tail(p)[j - 1] = p[j] /\ Tail(p)[i] = p[i + 1]
          BY <1>3, <5>1
        <5> QED
          BY <4>1, <5>1, <5>2, <5>3 DEF ReadSince
      <4> QED
        BY <4>2, <4>3
    <3> QED
      BY <1>10, <3>2, <3>3
  <2> QED
    BY <2>2, <2>3
<1> QED
  BY <1>11, <1>13 DEF there2

LEMMA MainStepProgrammed ==
  ASSUME Typed, WellFormed(main), UpToDate(main), Programmed(main), MainStep
  PROVE  Programmed(main)'
<1> DEFINE p == main.prog
           a == p[1]
<1>1. /\ p \in Seq(Access) /\ p # <<>> /\ Busy(main) /\ regs' = AccessRegs(main)
      /\ wiped' = WipedAfter(main)
      /\ main.about \in Frames /\ main.frame \in Frames
  BY DEF WellFormed, MainStep, Busy
<1>2. /\ Len(p) \in Nat \ {0} /\ DOMAIN p = 1 .. Len(p) /\ 1 \in DOMAIN p
      /\ DOMAIN Tail(p) = 1 .. Len(p) - 1
      /\ \A i \in 1 .. Len(p) - 1 : Tail(p)[i] = p[i + 1]
  BY <1>1, Cut
<1>3. /\ \A f \in Frames, x \in ConfigFields :
            ~(a.op = "write" /\ f = main.about /\ x \in a.named)
              => Stays(main, f, x) /\ (x \in wiped'[f] <=> x \in wiped[f])
      /\ \A x \in ConfigFields : a.op = "write" /\ x \in a.named
              => Locked(main.about) \/ (x \in regs'[main.about] <=> x \in main.on)
      /\ \A f \in Frames : Locked(f) => Locked(f)'
  BY <1>1, MainAccess
<1>4. \A x \in ConfigFields : a.op = "write" /\ x \in a.named => x \in main.named
  BY <1>2 DEF WellFormed, WritesAsAsked
<1> HIDE DEF p
<1> DEFINE Held(f, x, wanted) == /\ x \in regs'[f] => wanted
                                 /\ wanted => x \in regs'[f] \/ x \in wiped'[f]
\* What the step leaves of the claim, for a call that goes on.
<1>5. ASSUME NEW f \in Frames, ~Locked(f)', NEW x \in ConfigFields
      PROVE  IF f = main.about /\ x \in main.named
             THEN \/ \E i \in 1 .. Len(p) - 1 : p[i + 1].op = "write" /\ x \in p[i + 1].named
                  \/ Held(f, x, x \in main.on)
             ELSE Held(f, x, x \in asked[f])
  <2>1. ~Locked(f)
    BY <1>3, <1>5
  <2>2. IF f = main.about /\ x \in main.named
        THEN StillWrites(main, x) \/ HoldsAs(f, x, x \in main.on)
        ELSE HoldsAs(f, x, x \in asked[f])
    BY <2>1 DEF Programmed
  <2>3. CASE f = main.about /\ x \in main.named
    <3>1. CASE a.op = "write" /\ x \in a.named
      BY <1>3, <2>1, <2>3, <3>1 DEF HoldsAs
    <3>2. CASE ~(a.op = "write" /\ x \in a.named)
      <4>1. Stays(main, f, x) /\ (x \in wiped'[f] <=> x \in wiped[f])
        BY <1>3, <3>2
      <4>2. ASSUME StillWrites(main, x)
            PROVE  \E i \in 1 .. Len(p) - 1 : p[i + 1].op = "write" /\ x \in p[i + 1].named
        BY <1>1, <3>2, <4>2, WritesStill DEF p
      <4> QED
        BY <2>2, <2>3, <4>1, <4>2 DEF Stays, HoldsAs, Wanted
    <3> QED
      BY <3>1, <3>2
  <2>4. CASE ~(f = main.about /\ x \in main.named)
    BY <1>3, <1>4, <2>2, <2>4 DEF Stays, HoldsAs, Wanted
  <2> QED
    BY <2>3, <2>4
<1>6. CASE Len(p) > 1
  <2>1. /\ main'.prog = Tail(p) /\ main'.about = main.about
        /\ main'.named = main.named /\ main'.on = main.on /\ asked' = asked
    BY <1>6, GoesOn DEF p
  <2>2. ASSUME NEW x
        PROVE  (\E i \in 1 .. Len(p) - 1 : p[i + 1].op = "write" /\ x \in p[i + 1].named)
                 => StillWrites(main', x)
    BY <1>2, <2>1 DEF StillWrites
  <2> SUFFICES ASSUME NEW f \in Frames, ~Locked(f)', NEW x \in ConfigFields
               PROVE  IF f = main.about /\ x \in main.named
                      THEN StillWrites(main', x) \/ Held(f, x, x \in main.on)
                      ELSE Held(f, x, x \in asked[f])
    BY <2>1 DEF Programmed, HoldsAs, StillWrites
  <2> QED
    BY <1>5, <2>2
<1>7. CASE ~(Len(p) > 1)
  <2>1. /\ main' = Idle(main.frame) /\ Len(p) = 1
        /\ asked' = [asked EXCEPT ![main.about] = (@ \ main.named) \cup main.on]
    BY <1>7, Ends DEF p
  <2>2. main'.named = {}
    BY <1>1, <2>1, IdleWellFormed
  <2>3. 1 .. Len(p) - 1 = {}
    BY <2>1
  <2>4. ASSUME NEW f \in Frames, ~Locked(f)', NEW x \in ConfigFields
        PROVE  Held(f, x, x \in asked'[f])
    <3>1. main.on \subseteq main.named
      BY DEF WellFormed
    <3>2. x \in asked'[f] <=> IF f = main.about /\ x \in main.named THEN x \in main.on
                              ELSE x \in asked[f]
      BY <1>1, <2>1, <3>1 DEF Typed
    <3> QED
      BY <1>5, <2>3, <2>4, <3>2
  <2> SUFFICES ASSUME NEW f \in Frames, ~Locked(f)', NEW x \in ConfigFields
               PROVE  Held(f, x, x \in asked'[f])
    BY <2>2 DEF Programmed, HoldsAs
  <2> QED
    BY <2>4
<1> QED
  BY <1>6, <1>7

LEMMA MainStepRest ==
  ASSUME Typed, WellFormed(main), UpToDate(main), MainStep
  PROVE  /\ Typed' /\ WellFormed(main')
         /\ ~(Len(main.prog) > 1) => UpToDate(main)'
<1>1. /\ main.prog \in Seq(Access) /\ main.prog # <<>> /\ Busy(main)
      /\ regs' = AccessRegs(main) /\ wiped' = WipedAfter(main)
      /\ main.about \in Frames /\ main.frame \in Frames
  BY DEF WellFormed, MainStep, Busy
<1>2. Head(main.prog) = main.prog[1] /\ main.prog[1] \in Access /\ 1 \in DOMAIN main.prog
  BY <1>1, Cut
<1>3. regs' = [f \in Frames |-> regs'[f]] /\ wiped' = [f \in Frames |-> wiped'[f]]
  BY <1>1, MainAccess
<1>4. chptr' \in [Units -> Channels]
  <2>1. main.prog[1].op = "point" => main.prog[1].to \in Channels /\ main.frame \in Units
    BY <1>2, AccessFields DEF WellFormed
  <2> QED
    BY <1>2, <2>1 DEF MainStep, AccessPtr, Typed
<1>5. asked' = [f \in Frames |-> asked'[f]] /\ current_channel' = current_channel
  BY DEF MainStep, AskedAfter, Typed
<1>6. Typed'
  BY <1>3, <1>4, <1>5 DEF Typed
<1>7. CASE Len(main.prog) > 1
  BY <1>6, <1>7, GoesOn
<1>8. CASE ~(Len(main.prog) > 1)
  <2>1. main' = Idle(main.frame)
    BY <1>8, Ends
  <2>2. WellFormed(main') /\ ~Busy(main')
    BY <1>1, <2>1, IdleWellFormed
  <2>3. DOMAIN main'.prog = {}
    BY <2>2 DEF Busy
  <2>4. UpToDate(main)'
    BY <2>3 DEF UpToDate
  <2> QED
    BY <1>6, <2>2, <2>4
<1> QED
  BY <1>7, <1>8

-----------------------------------------------------------------------------
(* Steps of the others.                                                     *)

\* A step that leaves alone what the program has configured.
Harmless ==
    /\ regs' = [f \in Frames |-> regs'[f]]
    /\ \A f \in Frames : /\ \A x \in ConfigFields : x \in regs'[f] <=> x \in regs[f]
                         /\ "SEC_CFG_LCK" \in regs'[f] <=> "SEC_CFG_LCK" \in regs[f]
    /\ asked' = [f \in Frames |-> asked'[f]]
    /\ wiped' = [f \in Frames |-> wiped'[f]]
    /\ \A f \in Frames, x \in ConfigFields : /\ x \in asked'[f] <=> x \in asked[f]
                                             /\ x \in wiped'[f] <=> x \in wiped[f]
    /\ chptr' = chptr /\ main' = main /\ current_channel' = current_channel

LEMMA Undisturbed ==
  ASSUME MainInv, Harmless
  PROVE  MainInv'
<1> USE DEF Harmless
<1>1. Typed'
  BY DEF MainInv, Typed
<1>2. WellFormed(main')
  BY DEF MainInv
<1>3. UpToDate(main)'
  <2> SUFFICES ASSUME NEW i \in DOMAIN main.prog, main.prog[i].op = "write"
               PROVE  /\ Selected(main.prog, 1, i, There(main))
                      /\ \A x \in Kept(main.prog[i]) :
                            \/ /\ main.prog[i].reg = "CHCFG" => There(main)
                               /\ Fresh(main, x)'
                            \/ ReadSince(main.prog, 1, i, There(main))
    BY DEF UpToDate, There
  <2>1. main.about \in Frames
    BY DEF MainInv, WellFormed
  <2>2. ASSUME NEW x \in Kept(main.prog[i]), Fresh(main, x) PROVE Fresh(main, x)'
    <3>1. /\ x \in regs'[main.about] <=> x \in regs[main.about]
          /\ x \in wiped'[main.about] <=> x \in wiped[main.about]
          /\ x \in asked'[main.about] <=> x \in asked[main.about]
      BY <2>1 DEF Kept
    <3>2. Wanted(main, x) => Wanted(main, x)'
      BY <3>1 DEF Wanted, StillWrites
    <3> QED
      BY <2>2, <3>1, <3>2 DEF Fresh
  <2> QED
    BY <2>2 DEF MainInv, UpToDate
<1>4. Programmed(main)'
  <2> SUFFICES ASSUME NEW f \in Frames, ~Locked(f), NEW x \in ConfigFields
               PROVE  IF f = main.about /\ x \in main.named
                      THEN StillWrites(main, x) \/ HoldsAs(f, x, x \in main.on)'
                      ELSE HoldsAs(f, x, x \in asked[f])'
    BY DEF Programmed, Locked, StillWrites
  <2>1. IF f = main.about /\ x \in main.named
        THEN StillWrites(main, x) \/ HoldsAs(f, x, x \in main.on)
        ELSE HoldsAs(f, x, x \in asked[f])
    BY DEF MainInv, Programmed
  <2> QED
    BY <2>1 DEF HoldsAs
<1> QED
  BY <1>1, <1>2, <1>3, <1>4 DEF MainInv

\* The handler's accesses clear flags it was asked to clear, and with the error
\* flag the error information, nothing else.
LEMMA IsrAccess ==
  ASSUME Typed, Handling(isr), IsrStep
  PROVE  /\ regs' = [f \in Frames |-> regs'[f]]
         /\ \A f \in Frames : regs'[f] \subseteq regs[f]
         /\ \A f \in Frames : \A x : x \in regs[f] /\ x \notin regs'[f]
              => f = isr.frame /\ x \in isr.named \cup ErrFields
         /\ chptr' = chptr
         /\ wiped' = wiped \/ wiped' = [wiped EXCEPT ![isr.frame] = @ \ W1CFlags]
<1>1. /\ isr.prog \in Seq(FlagAccess) /\ isr.prog # <<>> /\ isr.frame \in Frames
      /\ regs' = AccessRegs(isr) /\ chptr' = AccessPtr(isr) /\ wiped' = WipedAfter(isr)
  BY DEF Handling, IsrStep, Busy
<1> DEFINE a == isr.prog[1]
           word == ((isr.snap \cap FieldsOf(a.reg)) \ a.named) \cup a.on
<1>2. Head(isr.prog) = a /\ a \in FlagAccess /\ 1 \in DOMAIN isr.prog
  BY <1>1, Cut
<1>3. /\ a.op \in {"read", "write"} /\ a.reg = "CH_STATUS"
      /\ a.op = "write" => a.named = W1CFlags /\ a.on \subseteq isr.named
  BY <1>2 DEF FlagAccess, Handling
<1>4. chptr' = chptr
  BY <1>1, <1>2, <1>3 DEF AccessPtr
<1>5. CASE a.op = "read"
  BY <1>1, <1>2, <1>4, <1>5 DEF AccessRegs, WipedAfter, Typed
<1>6. CASE a.op = "write"
  <2>1. word \cap W1CFlags \subseteq isr.named
    BY <1>3, <1>6
  <2>2. Home(isr.frame, a.reg) = isr.frame
    BY <1>3 DEF Home
  <2> DEFINE E == IF "STAT_ERR" \in word THEN ErrFields ELSE {}
             old == regs[isr.frame]
  <2>3. regs' = [regs EXCEPT ![isr.frame] = AfterWrite(a.reg, old, word)]
    BY <1>1, <1>2, <1>6, <2>2 DEF AccessRegs
  <2>4. AfterWrite(a.reg, old, word) = old \ ((word \cap W1CFlags) \cup E)
    BY <1>3 DEF AfterWrite, AfterStatus
  <2>5. E \subseteq ErrFields
    OBVIOUS
  <2>7. wiped' = [wiped EXCEPT ![isr.frame] = @ \ W1CFlags]
    <3>1. a.named = W1CFlags
      BY <1>3, <1>6
    <3>2. WipedAfter(isr) = [wiped EXCEPT ![isr.frame] = @ \ a.named]
      BY <1>2, <1>6, <2>2 DEF WipedAfter
    <3> QED
      BY <1>1, <3>1, <3>2
  <2> HIDE DEF word, E
  <2>6. regs' = [regs EXCEPT ![isr.frame] = @ \ ((word \cap W1CFlags) \cup E)]
    BY <2>3, <2>4
  <2> QED
    BY <1>1, <1>4, <2>1, <2>5, <2>6, <2>7 DEF Typed
<1> QED
  BY <1>3, <1>5, <1>6

LEMMA HandlingClear ==
  ASSUME NEW fn, NEW c \in Frames, NEW flag \in W1CFlags
  PROVE  Handling(Call(fn, c, Modify("CH_STATUS", W1CFlags, {flag}), c, {flag}, {}))
<1> DEFINE r == Read("CH_STATUS")
           w == Write("CH_STATUS", W1CFlags, {flag})
           k == Call(fn, c, <<r, w>>, c, {flag}, {})
<1>1. /\ r \in FlagAccess /\ w \in FlagAccess /\ r.op = "read"
      /\ w.named = W1CFlags /\ w.on \subseteq {flag}
  BY DEF Read, Write, FlagAccess
<1> HIDE DEF r, w
<1>2. /\ <<r, w>> \in Seq(FlagAccess) /\ DOMAIN <<r, w>> = {1, 2}
      /\ <<r, w>>[1] = r /\ <<r, w>>[2] = w
  BY <1>1
<1>3. /\ k = [fn |-> fn, frame |-> c, prog |-> <<r, w>>, snap |-> {}, about |-> c,
              named |-> {flag}, on |-> {} \cap {flag}]
  BY DEF Call
<1> HIDE DEF k
<1>4. /\ k.fn = fn /\ k.frame = c /\ k.prog = <<r, w>> /\ k.snap = {} /\ k.about = c
      /\ k.named = {flag} /\ k.on = {}
  BY <1>3
<1>5. k = [fn |-> k.fn, frame |-> k.frame, prog |-> k.prog, snap |-> k.snap,
           about |-> k.about, named |-> k.named, on |-> k.on]
  BY <1>3, <1>4
<1>6. Handling(k)
  BY <1>1, <1>2, <1>4, <1>5 DEF Handling
<1> QED
  BY <1>6 DEF k, r, w, Modify

LEMMA IdleHandling ==
  ASSUME NEW f \in Frames
  PROVE  Handling(Idle(f))
<1>1. <<>> \in Seq(FlagAccess) /\ DOMAIN <<>> = {}
  OBVIOUS
<1> QED
  BY <1>1 DEF Handling, Idle, Call

LEMMA HandlerReadHandling ==
  ASSUME NEW c \in Frames
  PROVE  Handling(HandlerRead(c))
<1> DEFINE r == Read("CH_STATUS")
<1>1. r \in FlagAccess /\ r.op = "read"
  BY DEF Read, FlagAccess
<1> HIDE DEF r
<1>2. <<r>> \in Seq(FlagAccess) /\ DOMAIN <<r>> = {1} /\ <<r>>[1] = r
  BY <1>1
<1>3. Handling(Call("DMAClearChIrq", c, <<r>>, c, {}, {}))
  BY <1>1, <1>2 DEF Handling, Call
<1> QED
  BY <1>3 DEF r, HandlerRead

LEMMA IsrGoesOn ==
  ASSUME Typed, Handling(isr), IsrStep
  PROVE  Handling(isr')
<1>1. /\ isr.prog \in Seq(FlagAccess) /\ isr.prog # <<>> /\ isr.frame \in Frames
      /\ isr' = AfterAccess(isr)
  BY DEF Handling, IsrStep, Busy
<1>2. CASE Len(isr.prog) > 1
  <2>1. PICK seen : isr' = [isr EXCEPT !.prog = Tail(@), !.snap = seen]
    BY <1>1, <1>2 DEF AfterAccess
  <2>2. isr = [fn |-> isr.fn, frame |-> isr.frame, prog |-> isr.prog, snap |-> isr.snap,
               about |-> isr.about, named |-> isr.named, on |-> isr.on]
    BY DEF Handling
  <2>3. isr' = [fn |-> isr.fn, frame |-> isr.frame, prog |-> Tail(isr.prog), snap |-> seen,
                about |-> isr.about, named |-> isr.named, on |-> isr.on]
    BY <2>1, <2>2, CutRecord
  <2>4. /\ isr'.prog = Tail(isr.prog) /\ isr'.snap = seen /\ isr'.fn = isr.fn
        /\ isr'.frame = isr.frame /\ isr'.about = isr.about
        /\ isr'.named = isr.named /\ isr'.on = isr.on
    BY <2>3
  <2>5. isr' = [fn |-> isr'.fn, frame |-> isr'.frame, prog |-> isr'.prog, snap |-> isr'.snap,
                about |-> isr'.about, named |-> isr'.named, on |-> isr'.on]
    BY <2>3, <2>4
  <2>6. /\ Tail(isr.prog) \in Seq(FlagAccess) /\ DOMAIN isr.prog = 1 .. Len(isr.prog)
        /\ DOMAIN Tail(isr.prog) = 1 .. Len(isr.prog) - 1
        /\ Len(isr.prog) \in Nat
        /\ \A i \in 1 .. Len(isr.prog) - 1 : Tail(isr.prog)[i] = isr.prog[i + 1]
    BY <1>1, Cut
  <2>7. ASSUME NEW i \in 1 .. Len(isr.prog) - 1, isr.prog[i + 1].op = "write"
        PROVE  isr.prog[i + 1].named = W1CFlags /\ isr.prog[i + 1].on \subseteq isr.named
    <3>1. i + 1 \in DOMAIN isr.prog
      BY <2>6
    <3> QED
      BY <2>7, <3>1 DEF Handling
  <2>8. /\ isr.frame \in Frames /\ isr.about = isr.frame
        /\ isr.named \subseteq W1CFlags /\ isr.on \subseteq isr.named
    BY DEF Handling
  <2> QED
    BY <2>4, <2>5, <2>6, <2>7, <2>8 DEF Handling
<1>3. CASE ~(Len(isr.prog) > 1)
  <2>1. ASSUME NEW status PROVE Handling(HandlerClear(isr.frame, status))
    <3>1. W1CFlags = {"STAT_DONE", "STAT_ERR", "STAT_DISABLED", "STAT_STOPPED"}
      BY DEF W1CFlags
    <3> QED
      BY <1>1, <3>1, IdleHandling, HandlingClear
         DEF HandlerClear, AdaClearChDone, AdaClearChError, AdaClearChDisabled, AdaClearChStopped
  <2> QED
    BY <1>1, <1>3, <2>1, IdleHandling DEF AfterAccess
<1> QED
  BY <1>2, <1>3

LEMMA IsrHarmless ==
  ASSUME Typed, Handling(isr), IsrStep
  PROVE  Harmless
<1>1. /\ isr.about \in Frames /\ isr.named \subseteq W1CFlags /\ isr.on \subseteq isr.named
  BY DEF Handling
<1>2. /\ asked' = IF Returns(isr)
                  THEN [asked EXCEPT ![isr.about] = (@ \ isr.named) \cup isr.on] ELSE asked
      /\ main' = main /\ current_channel' = current_channel
  BY DEF IsrStep, AskedAfter
<1>3. /\ asked' = [f \in Frames |-> asked'[f]]
      /\ \A f \in Frames, x \in ConfigFields : x \in asked'[f] <=> x \in asked[f]
  BY <1>1, <1>2, NotConfig DEF Typed
<1>6. /\ wiped' = [f \in Frames |-> wiped'[f]]
      /\ \A f \in Frames, x \in ConfigFields : x \in wiped'[f] <=> x \in wiped[f]
  BY IsrAccess, NotConfig DEF Typed
<1>4. "SEC_CFG_LCK" \notin W1CFlags \cup ErrFields
  BY DEF W1CFlags, ErrFields
<1>5. \A f \in Frames : /\ \A x \in ConfigFields : x \in regs'[f] <=> x \in regs[f]
                        /\ "SEC_CFG_LCK" \in regs'[f] <=> "SEC_CFG_LCK" \in regs[f]
  BY <1>1, <1>4, IsrAccess, NotConfig
<1> QED
  BY <1>2, <1>3, <1>5, <1>6, IsrAccess DEF Harmless

\* The engine, but for a cleared channel, changes no configuration and lowers no
\* flag.
EngineFields ==
    {"ENABLECMD", "STOPCMD", "DISABLECMD", "PAUSECMD", "BUSERR", "STAT_ALLCHIDLE",
     "CMDRESTARTCNT", "LINKADDREN", "STAT_ALLCHSTOPPED", "STAT_ALLCHPAUSED",
     "SRCSWTRIGINREQ", "DESSWTRIGINREQ", "SWTRIGOUTACK"}
    \cup PauseFlags \cup TrigFlags \cup W1CFlags
EngineOnly(newRegs) ==
    /\ newRegs = [f \in Frames |-> newRegs[f]]
    /\ \A f \in Frames : \A x : x \notin EngineFields => (x \in newRegs[f] <=> x \in regs[f])
    /\ \A f \in Frames : \A x \in Flags : x \in regs[f] => x \in newRegs[f]

LEMMA EndedOnly ==
  ASSUME Typed, NEW c \in Channels, NEW flags \in SUBSET (W1CFlags \cup {"BUSERR"})
  PROVE  EngineOnly(Ended(c, flags))
<1>1. ASSUME NEW f \in Frames
      PROVE  Ended(c, flags)[f] =
                IF f = c THEN (regs[c] \ ({"ENABLECMD", "STOPCMD", "DISABLECMD", "PAUSECMD",
                                           "SRCSWTRIGINREQ", "DESSWTRIGINREQ"}
                                          \cup PauseFlags \cup TrigFlags)) \cup flags
                ELSE IF f \in Units /\ \A d \in Channels \ {c} : ~Enabled(d)
                THEN regs[f] \cup {"STAT_ALLCHIDLE"}
                ELSE regs[f]
  BY DEF Ended
<1>2. Ended(c, flags) = [f \in Frames |-> Ended(c, flags)[f]]
  BY DEF Ended
<1>3. ASSUME NEW f \in Frames, NEW x, x \notin EngineFields
      PROVE  x \in Ended(c, flags)[f] <=> x \in regs[f]
  BY <1>1, <1>3 DEF EngineFields
<1>4. ASSUME NEW f \in Frames, NEW x \in Flags, x \in regs[f]
      PROVE  x \in Ended(c, flags)[f]
  BY <1>1, <1>4 DEF Flags, W1CFlags, UnitFlags, PauseFlags, TrigFlags
<1> QED
  BY <1>2, <1>3, <1>4 DEF EngineOnly

\* A step of one frame.
LEMMA FrameOnly ==
  ASSUME Typed, NEW f \in Frames, NEW lost \in SUBSET (EngineFields \ Flags),
         NEW raised \in SUBSET EngineFields
  PROVE  EngineOnly([regs EXCEPT ![f] = (@ \ lost) \cup raised])
BY DEF Typed, EngineOnly

LEMMA EngineStepOnly ==
  ASSUME Typed, Engine, \A c \in Channels : ~Cleared(c)
  PROVE  /\ EngineOnly(regs')
         /\ UNCHANGED <<chptr, main, isr, current_channel, asked, wiped, ncalls>>
<1> USE DEF EngineStep
<1>0. /\ Channels \subseteq Frames /\ Units \subseteq Frames
      /\ {"CMDRESTARTCNT", "LINKADDREN", "STAT_PAUSED"} \subseteq EngineFields \ Flags
      /\ PauseFlags \cup {"STAT_DONE"} \subseteq EngineFields
      /\ {"STAT_ALLCHSTOPPED", "STAT_ALLCHPAUSED", "STAT_PAUSED"} \subseteq EngineFields
  BY DEF Frames, EngineFields, Flags, W1CFlags, UnitFlags, PauseFlags
<1>1. ASSUME NEW c \in Channels, Complete(c)
      PROVE  /\ EngineOnly(regs')
             /\ UNCHANGED <<chptr, main, isr, current_channel, asked, wiped, ncalls>>
  <2>1. /\ DoneFlags(c) \in SUBSET (W1CFlags \cup {"BUSERR"})
        /\ DoneFlags(c) \cup {"STAT_DISABLED"} \in SUBSET (W1CFlags \cup {"BUSERR"})
        /\ DoneFlags(c) \in SUBSET EngineFields
    BY DEF DoneFlags, W1CFlags, EngineFields
  <2>2. CASE "DISABLECMD" \in regs[c]
    BY <1>1, <2>1, <2>2, EndedOnly DEF Complete
  <2>3. CASE "DISABLECMD" \notin regs[c] /\ Continues(c)
    <3>1. regs' = [regs EXCEPT ![c] = (@ \ {"CMDRESTARTCNT", "LINKADDREN"}) \cup DoneFlags(c)]
      BY <1>1, <2>3 DEF Complete
    <3>2. {"CMDRESTARTCNT", "LINKADDREN"} \in SUBSET (EngineFields \ Flags) /\ c \in Frames
      BY <1>0
    <3>3. EngineOnly([regs EXCEPT ![c] = (@ \ {"CMDRESTARTCNT", "LINKADDREN"})
                                            \cup DoneFlags(c)])
      BY <2>1, <3>2, FrameOnly
    <3> QED
      BY <1>1, <2>3, <3>1, <3>3 DEF Complete
  <2>4. CASE "DISABLECMD" \notin regs[c] /\ ~Continues(c)
    BY <1>1, <2>1, <2>4, EndedOnly DEF Complete
  <2> QED
    BY <2>2, <2>3, <2>4
<1>2. ASSUME NEW c \in Channels, BusError(c) \/ Stopped(c)
      PROVE  /\ EngineOnly(regs')
             /\ UNCHANGED <<chptr, main, isr, current_channel, asked, wiped, ncalls>>
  <2>1. /\ {"STAT_ERR", "BUSERR"} \in SUBSET (W1CFlags \cup {"BUSERR"})
        /\ {"STAT_STOPPED"} \in SUBSET (W1CFlags \cup {"BUSERR"})
    BY DEF W1CFlags
  <2> QED
    BY <1>2, <2>1, EndedOnly DEF BusError, Stopped
<1>3. ASSUME NEW f \in Frames, NEW lost \in SUBSET (EngineFields \ Flags),
             NEW raised \in SUBSET EngineFields,
             EngineStep([regs EXCEPT ![f] = (@ \ lost) \cup raised])
      PROVE  /\ EngineOnly(regs')
             /\ UNCHANGED <<chptr, main, isr, current_channel, asked, wiped, ncalls>>
  BY <1>3, FrameOnly
<1>4. ASSUME NEW c \in Channels, Paused(c) \/ DonePaused(c)
      PROVE  \E raised \in SUBSET EngineFields :
                EngineStep([regs EXCEPT ![c] = (@ \ {}) \cup raised])
  <2>1. \/ EngineStep([regs EXCEPT ![c] = @ \cup PauseFlags])
        \/ EngineStep([regs EXCEPT ![c] = @ \cup {"STAT_PAUSED"}])
        \/ EngineStep([regs EXCEPT ![c] = @ \cup PauseFlags \cup {"STAT_DONE"}])
    BY <1>4 DEF Paused, DonePaused
  <2>2. /\ regs[c] \cup PauseFlags = (regs[c] \ {}) \cup PauseFlags
        /\ regs[c] \cup {"STAT_PAUSED"} = (regs[c] \ {}) \cup {"STAT_PAUSED"}
        /\ regs[c] \cup PauseFlags \cup {"STAT_DONE"}
              = (regs[c] \ {}) \cup (PauseFlags \cup {"STAT_DONE"})
    OBVIOUS
  <2>3. /\ PauseFlags \in SUBSET EngineFields /\ {"STAT_PAUSED"} \in SUBSET EngineFields
        /\ PauseFlags \cup {"STAT_DONE"} \in SUBSET EngineFields
    BY <1>0
  <2> HIDE DEF EngineStep
  <2> QED
    BY <2>1, <2>2, <2>3
<1>5. ASSUME NEW c \in Channels, TriggerWait(c)
      PROVE  \E t \in TrigFlags : EngineStep([regs EXCEPT ![c] = (@ \ {}) \cup {t}])
  <2>1. PICK t \in TrigLines : EngineStep([regs EXCEPT ![c] = @ \cup {t[2]}])
    BY <1>5 DEF TriggerWait
  <2>2. t[2] \in TrigFlags
    BY DEF TrigLines, TrigFlags
  <2>3. regs[c] \cup {t[2]} = (regs[c] \ {}) \cup {t[2]}
    OBVIOUS
  <2> QED
    BY <2>1, <2>2, <2>3
<1>6. ASSUME NEW c \in Channels, TriggerTaken(c)
      PROVE  \E lost \in SUBSET (EngineFields \ Flags) :
                EngineStep([regs EXCEPT ![c] = (@ \ lost) \cup {}])
  <2>1. PICK t \in TrigLines : EngineStep([regs EXCEPT ![c] = @ \ {t[2], t[3]}])
    BY <1>6 DEF TriggerTaken
  <2>2. {t[2], t[3]} \in SUBSET (EngineFields \ Flags)
    BY DEF TrigLines, EngineFields, TrigFlags, Flags, W1CFlags, UnitFlags
  <2>3. regs[c] \ {t[2], t[3]} = (regs[c] \ {t[2], t[3]}) \cup {}
    OBVIOUS
  <2> QED
    BY <2>1, <2>2, <2>3
<1>7. ASSUME NEW c \in Channels, Resumed(c)
      PROVE  EngineStep([regs EXCEPT ![c] = (@ \ {"STAT_PAUSED"}) \cup {}])
  <2>1. regs[c] \ {"STAT_PAUSED"} = (regs[c] \ {"STAT_PAUSED"}) \cup {}
    OBVIOUS
  <2> QED
    BY <1>7, <2>1 DEF Resumed
<1>8. ASSUME NEW u \in Units, AllStopped(u) \/ AllPaused(u)
      PROVE  \E flag \in {"STAT_ALLCHSTOPPED", "STAT_ALLCHPAUSED"} :
                EngineStep([regs EXCEPT ![u] = (@ \ {}) \cup {flag}])
  <2>1. \A flag : regs[u] \cup {flag} = (regs[u] \ {}) \cup {flag}
    OBVIOUS
  <2> QED
    BY <1>8, <2>1 DEF AllStopped, AllPaused
<1>9. TrigFlags \subseteq EngineFields
  BY DEF EngineFields
<1> HIDE DEF EngineStep
<1>10. ASSUME NEW c \in Channels, \/ Paused(c) \/ DonePaused(c) \/ Resumed(c)
                                  \/ TriggerWait(c) \/ TriggerTaken(c)
       PROVE  /\ EngineOnly(regs')
              /\ UNCHANGED <<chptr, main, isr, current_channel, asked, wiped, ncalls>>
  <2>0. {} \in SUBSET (EngineFields \ Flags) /\ c \in Frames
    BY <1>0
  <2>1. CASE Paused(c) \/ DonePaused(c)
    BY <1>3, <1>4, <2>0, <2>1
  <2>4. CASE Resumed(c)
    <3>1. {"STAT_PAUSED"} \in SUBSET (EngineFields \ Flags) /\ {} \in SUBSET EngineFields
      BY <1>0
    <3> QED
      BY <1>3, <1>7, <2>0, <2>4, <3>1
  <2>2. CASE TriggerWait(c)
    <3>1. PICK t \in TrigFlags : EngineStep([regs EXCEPT ![c] = (@ \ {}) \cup {t}])
      BY <1>5, <2>2
    <3>2. {t} \in SUBSET EngineFields /\ {} \in SUBSET (EngineFields \ Flags) /\ c \in Frames
      BY <1>0, <1>9
    <3> QED
      BY <1>3, <3>1, <3>2
  <2>3. CASE TriggerTaken(c)
    <3>1. PICK lost \in SUBSET (EngineFields \ Flags) :
                EngineStep([regs EXCEPT ![c] = (@ \ lost) \cup {}])
      BY <1>6, <2>3
    <3>2. {} \in SUBSET EngineFields /\ c \in Frames
      BY <1>0
    <3> QED
      BY <1>3, <3>1, <3>2
  <2> QED
    BY <1>10, <2>1, <2>2, <2>3, <2>4
<1>11. ASSUME NEW u \in Units, AllStopped(u) \/ AllPaused(u)
       PROVE  /\ EngineOnly(regs')
              /\ UNCHANGED <<chptr, main, isr, current_channel, asked, wiped, ncalls>>
  <2>1. PICK flag \in {"STAT_ALLCHSTOPPED", "STAT_ALLCHPAUSED"} :
                EngineStep([regs EXCEPT ![u] = (@ \ {}) \cup {flag}])
    BY <1>8, <1>11
  <2>2. {flag} \in SUBSET EngineFields /\ {} \in SUBSET (EngineFields \ Flags) /\ u \in Frames
    BY <1>0
  <2> QED
    BY <1>3, <2>1, <2>2
<1> QED
  BY <1>1, <1>2, <1>10, <1>11 DEF Engine

LEMMA EngineHarmless ==
  ASSUME Typed, Engine, \A c \in Channels : ~Cleared(c)
  PROVE  Harmless
<1>1. /\ EngineOnly(regs')
      /\ asked' = asked /\ wiped' = wiped /\ chptr' = chptr /\ main' = main
      /\ current_channel' = current_channel
  BY EngineStepOnly
<1>2. \A x \in ConfigFields : x \notin EngineFields
  BY NotConfig DEF EngineFields, CmdFields, W1SFields, UnitFlags, ErrFields
<1>3. "SEC_CFG_LCK" \notin EngineFields
  BY DEF EngineFields, PauseFlags, TrigFlags, W1CFlags
<1>4. \A f \in Frames : /\ \A x \in ConfigFields : x \in regs'[f] <=> x \in regs[f]
                        /\ "SEC_CFG_LCK" \in regs'[f] <=> "SEC_CFG_LCK" \in regs[f]
  BY <1>1, <1>2, <1>3 DEF EngineOnly
<1> QED
  BY <1>1, <1>4 DEF Harmless, EngineOnly, Typed

\* A call that begins: all it will store it has yet to read, all it names it has
\* yet to write.
LEMMA CallBegins ==
  ASSUME MainInv, NEW k \in MainCalls, MainCall(k)
  PROVE  MainInv'
<1>1. Disciplined(k)
  BY ProgramsAssumption
<1>2. /\ main' = k /\ regs' = regs /\ chptr' = chptr /\ asked' = asked /\ wiped' = wiped
      /\ current_channel' = IF k.frame \in Channels THEN k.frame ELSE current_channel
      /\ ~Busy(main)
  BY DEF MainCall
<1>3. Typed'
  BY <1>2 DEF MainInv, Typed
<1>4. WellFormed(main')
  BY <1>1, <1>2 DEF Disciplined
<1>5. UpToDate(main)'
  <2> SUFFICES ASSUME NEW there \in BOOLEAN, NEW i \in DOMAIN k.prog, k.prog[i].op = "write"
               PROVE  /\ Selected(k.prog, 1, i, there)
                      /\ Kept(k.prog[i]) # {} => ReadSince(k.prog, 1, i, there)
    BY <1>2 DEF UpToDate, There
  <2>1. /\ Selected(k.prog, 1, i, FALSE)
        /\ Kept(k.prog[i]) # {} => ReadSince(k.prog, 1, i, FALSE)
    BY <1>1 DEF Disciplined
  <2>2. ASSUME NEW j, Selected(k.prog, 1, j, FALSE) PROVE Selected(k.prog, 1, j, there)
    BY <2>2 DEF Selected
  <2>3. ReadSince(k.prog, 1, i, FALSE) => ReadSince(k.prog, 1, i, there)
    BY <2>2 DEF ReadSince
  <2> QED
    BY <2>1, <2>2, <2>3
<1>6. Programmed(main)'
  <2>1. main.named = {}
    BY <1>2 DEF MainInv, WellFormed
  <2>2. \A f \in Frames : Locked(f) \/ \A x \in ConfigFields : HoldsAs(f, x, x \in asked[f])
    BY <2>1 DEF MainInv, Programmed
  <2>3. \A x \in k.named \cap ConfigFields : StillWrites(k, x)
    BY <1>1 DEF Disciplined, StillWrites
  <2>4. Programmed(k)
    BY <2>2, <2>3 DEF Programmed
  <2> QED
    BY <1>2, <2>4 DEF Programmed, Locked, StillWrites, HoldsAs
<1> QED
  BY <1>3, <1>4, <1>5, <1>6 DEF MainInv

\* A channel is cleared, also while the program is in a call that has read its
\* registers: what the call then brings back is wanted.
LEMMA ChannelCleared ==
  ASSUME MainInv, NEW c \in Channels, Cleared(c)
  PROVE  MainInv'
<1>1. /\ regs' = [regs EXCEPT ![c] = @ \cap ChCfgFields]
      /\ wiped' = [wiped EXCEPT ![c] = @ \cup (AllFields \ ChCfgFields)]
      /\ main' = main /\ chptr' = chptr /\ current_channel' = current_channel
      /\ asked' = asked /\ c \in Frames
  BY DEF Cleared, Frames
<1>2. Typed /\ main.about \in Frames
  BY DEF MainInv, WellFormed
<1>3. Typed'
  BY <1>1 DEF MainInv, Typed
<1>4. ASSUME NEW f \in Frames, f # c PROVE regs'[f] = regs[f] /\ wiped'[f] = wiped[f]
  BY <1>1, <1>4 DEF MainInv, Typed
<1>5. ASSUME NEW x \in ConfigFields
      PROVE  /\ x \in regs'[c] => x \in regs[c]
             /\ x \in wiped[c] => x \in wiped'[c]
             /\ x \in regs[c] => x \in regs'[c] \/ x \in wiped'[c]
  <2>1. regs'[c] = regs[c] \cap ChCfgFields /\ wiped'[c] = wiped[c] \cup (AllFields \ ChCfgFields)
    BY <1>1, <1>2 DEF Typed
  <2>2. x \in AllFields
    BY DEF ConfigFields
  <2> QED
    BY <2>1, <2>2
<1>6. Locked(main.about) => main.about # c
  BY FramesAssumption DEF Locked
<1>7. ASSUME NEW x \in ConfigFields, Fresh(main, x) PROVE Fresh(main, x)'
  <2>1. CASE main.about # c
    BY <1>1, <1>2, <1>4, <1>7, <2>1 DEF Fresh, Wanted, StillWrites
  <2>2. CASE main.about = c
    <3>1. x \in regs[c] => Wanted(main, x)
      BY <1>2, <1>6, <2>2 DEF MainInv, Programmed, HoldsAs, Wanted
    <3>2. Wanted(main, x) => Wanted(main, x)'
      BY <1>1 DEF Wanted, StillWrites
    <3> QED
      BY <1>1, <1>5, <1>7, <2>2, <3>1, <3>2 DEF Fresh
  <2> QED
    BY <2>1, <2>2
<1>8. UpToDate(main)'
  <2> SUFFICES ASSUME NEW i \in DOMAIN main.prog, main.prog[i].op = "write"
               PROVE  /\ Selected(main.prog, 1, i, There(main))
                      /\ \A x \in Kept(main.prog[i]) :
                            \/ /\ main.prog[i].reg = "CHCFG" => There(main)
                               /\ Fresh(main, x)'
                            \/ ReadSince(main.prog, 1, i, There(main))
    BY <1>1 DEF UpToDate, There
  <2>1. Kept(main.prog[i]) \subseteq ConfigFields
    BY DEF Kept
  <2> QED
    BY <1>7, <2>1 DEF MainInv, UpToDate
<1>9. Programmed(main)'
  <2> SUFFICES ASSUME NEW f \in Frames, ~Locked(f)', NEW x \in ConfigFields
               PROVE  IF f = main.about /\ x \in main.named
                      THEN StillWrites(main, x) \/ HoldsAs(f, x, x \in main.on)'
                      ELSE HoldsAs(f, x, x \in asked[f])'
    BY <1>1 DEF Programmed, StillWrites
  <2>1. ~Locked(f)
    BY <1>4, FramesAssumption DEF Locked
  <2>2. IF f = main.about /\ x \in main.named
        THEN StillWrites(main, x) \/ HoldsAs(f, x, x \in main.on)
        ELSE HoldsAs(f, x, x \in asked[f])
    BY <2>1 DEF MainInv, Programmed
  <2>3. /\ x \in regs'[f] => x \in regs[f]
        /\ x \in regs[f] \/ x \in wiped[f] => x \in regs'[f] \/ x \in wiped'[f]
    BY <1>4, <1>5
  <2> QED
    BY <1>1, <2>2, <2>3 DEF HoldsAs
<1>10. WellFormed(main')
  BY <1>1 DEF MainInv
<1> QED
  BY <1>3, <1>8, <1>9, <1>10 DEF MainInv

-----------------------------------------------------------------------------
(* The invariant is one.                                                    *)

LEMMA InitInv == Init => Inv
<1> SUFFICES ASSUME Init PROVE Inv
  OBVIOUS
<1>1. SCfg \in Frames /\ main = Idle(SCfg) /\ isr = Idle(SCfg)
  BY DEF Init, Frames
<1>2. WellFormed(main) /\ ~Busy(main) /\ main.named = {} /\ Handling(isr)
  BY <1>1, IdleWellFormed, IdleHandling
<1>3. Typed
  BY ChannelAssumption DEF Init, Typed
<1>4. \A f \in Frames : regs[f] = {} /\ asked[f] = {}
  BY DEF Init
<1>5. UpToDate(main) /\ Programmed(main)
  BY <1>2, <1>4 DEF UpToDate, Programmed, HoldsAs, Busy
<1> QED
  BY <1>2, <1>3, <1>5 DEF Inv, MainInv

LEMMA StepInv == Inv /\ [Next]_vars => Inv'
<1> SUFFICES ASSUME Inv, [Next]_vars PROVE Inv'
  OBVIOUS
<1>0. MainInv /\ Typed /\ Handling(isr)
  BY DEF Inv, MainInv
<1>1. ASSUME NEW k \in MainCalls, MainCall(k) PROVE Inv'
  <2>1. isr' = isr
    BY <1>1 DEF MainCall
  <2> QED
    BY <1>0, <1>1, <2>1, CallBegins DEF Inv
<1>2. CASE MainStep
  <2>1. isr' = isr
    BY <1>2 DEF MainStep
  <2>2. Programmed(main)'
    BY <1>0, <1>2, MainStepProgrammed DEF MainInv
  <2>3. /\ Typed' /\ WellFormed(main')
        /\ ~(Len(main.prog) > 1) => UpToDate(main)'
    BY <1>0, <1>2, MainStepRest DEF MainInv
  <2>4. Len(main.prog) > 1 => UpToDate(main)'
    BY <1>0, <1>2, MainStepUpToDate DEF MainInv
  <2> QED
    BY <1>0, <2>1, <2>2, <2>3, <2>4 DEF Inv, MainInv
<1>3. CASE DMA_Handler
  <2>1. Harmless
    BY <1>0, <1>3 DEF DMA_Handler, Harmless, Typed
  <2>2. isr' = HandlerRead(current_channel) /\ current_channel \in Frames
    BY <1>0, <1>3 DEF DMA_Handler, Typed, Frames
  <2> QED
    BY <1>0, <2>1, <2>2, Undisturbed, HandlerReadHandling DEF Inv
<1>4. CASE IsrStep
  BY <1>0, <1>4, IsrHarmless, IsrGoesOn, Undisturbed DEF Inv
<1>5. CASE Engine /\ \A c \in Channels : ~Cleared(c)
  <2>1. Harmless /\ isr' = isr
    BY <1>0, <1>5, EngineHarmless, EngineStepOnly
  <2> QED
    BY <1>0, <2>1, Undisturbed DEF Inv
<1>6. ASSUME NEW c \in Channels, Cleared(c) PROVE Inv'
  <2>1. isr' = isr
    BY <1>6 DEF Cleared
  <2> QED
    BY <1>0, <1>6, <2>1, ChannelCleared DEF Inv
<1>7. CASE UNCHANGED vars
  <2>1. Harmless /\ isr' = isr
    BY <1>0, <1>7 DEF vars, Harmless, Typed
  <2> QED
    BY <1>0, <2>1, Undisturbed DEF Inv
<1> QED
  BY <1>1, <1>2, <1>3, <1>4, <1>5, <1>6, <1>7 DEF Next

\* The invariant: the program's call writes back only what is still in the
\* register, or what was wanted of a field that a clear has reset meanwhile;
\* what it has not written is as the calls before asked, or reset; and the
\* handler clears one flag at a time.
THEOREM Programs == Spec => []Inv
BY InitInv, StepInv, PTL DEF Spec

\* Whatever the order of the calls, wherever DMA_Handler and the engine act in
\* between, for any number of channels, and with CLEARCMD among the settings, a
\* configuration field of dma_350_command_lib.c holds what the last call to name
\* it asked for, unless a clear came to it after it was written: then it holds
\* that or its value at reset.
THEOREM ConfigurationHolds == Spec => []ProgrammedFields
<1>1. Inv => ProgrammedFields
  <2> SUFFICES ASSUME MainInv, ~Busy(main), NEW f \in Frames, ~Locked(f)
               PROVE  \A x \in ConfigFields : Holds(f, x)
    BY DEF Inv, ProgrammedFields, Locked
  <2>1. main.named = {}
    BY DEF MainInv, WellFormed
  <2> QED
    BY <2>1 DEF MainInv, Programmed, HoldsAs, Holds
<1> QED
  BY <1>1, Programs, PTL

-----------------------------------------------------------------------------
(* What a bus access does beside the configuration.                         *)

LEMMA EngineKeepsFlags ==
  ASSUME Typed, Engine, NEW f \in Frames, NEW flag \in Flags,
         flag \in regs[f], flag \notin regs'[f]
  PROVE  f \in Channels /\ Clearing(f) /\ ~Enabled(f)
<1>1. CASE \A c \in Channels : ~Cleared(c)
  BY <1>1, EngineStepOnly DEF EngineOnly
<1>2. ASSUME NEW c \in Channels, Cleared(c)
      PROVE  f = c /\ Clearing(c) /\ ~Enabled(c)
  BY <1>2 DEF Cleared, Typed
<1> QED
  BY <1>1, <1>2

\* An access of the program stores its word, or a violation, or nothing.
LEMMA MainAccessWrites ==
  ASSUME MainInv, MainStep
  PROVE  \/ \E word : /\ main.prog[1].op = "write"
                      /\ WritesAsAsked(main, main.prog[1])
                      /\ Home(main.frame, main.prog[1].reg) = main.about
                      /\ word \subseteq FieldsOf(main.prog[1].reg)
                      /\ \A x \in main.prog[1].named : x \in word <=> x \in main.prog[1].on
                      /\ regs' = [regs EXCEPT ![main.about] =
                                     AfterWrite(main.prog[1].reg, @, word)]
         \/ regs' = [regs EXCEPT ![SCfg] = @ \cup {"STAT_SECACCVIO"}]
         \/ regs' = regs
<1>1. /\ main.prog \in Seq(Access) /\ main.prog # <<>> /\ Busy(main)
      /\ regs' = AccessRegs(main)
  BY DEF MainInv, WellFormed, MainStep, Busy
<1>2. Head(main.prog) = main.prog[1]
  BY <1>1, Cut
<1>3. CASE main.prog[1].op = "write"
  BY <1>1, <1>3, WriteLands DEF MainInv
<1>4. CASE main.prog[1].op # "write"
  BY <1>1, <1>2, <1>4 DEF AccessRegs
<1> QED
  BY <1>3, <1>4

LEMMA TailDiffers ==
  ASSUME NEW S, NEW s \in Seq(S), s # <<>>
  PROVE  Tail(s) # s
<1>1. Len(s) \in Nat /\ Len(Tail(s)) = Len(s) - 1
  BY Cut
<1>2. ASSUME NEW n \in Nat PROVE n - 1 # n
  OBVIOUS
<1>3. Len(Tail(s)) # Len(s)
  BY <1>1, <1>2
<1> QED
  BY <1>3

\* A step of a call changes the call: its program is shorter by an access.
LEMMA MainMoves ==
  ASSUME MainInv, MainStep
  PROVE  Steps(main, main')
<1>1. main.prog \in Seq(Access) /\ main.prog # <<>> /\ Busy(main)
  BY DEF MainInv, WellFormed, MainStep, Busy
<1>2. CASE Len(main.prog) > 1
  <2>1. main'.prog = Tail(main.prog)
    BY <1>2, GoesOn DEF MainInv
  <2>2. Tail(main.prog) # main.prog
    BY <1>1, TailDiffers
  <2> QED
    BY <1>1, <2>1, <2>2 DEF Steps
<1>3. CASE ~(Len(main.prog) > 1)
  <2>1. main' = Idle(main.frame)
    BY <1>3, Ends DEF MainInv
  <2>2. ~Busy(main')
    BY <2>1, IdleWellFormed DEF Idle, Call, Busy
  <2> QED
    BY <1>1, <2>2 DEF Steps
<1> QED
  BY <1>2, <1>3

LEMMA IsrMoves ==
  ASSUME Handling(isr), IsrStep
  PROVE  Steps(isr, isr')
<1>1. isr.prog \in Seq(FlagAccess) /\ isr.prog # <<>> /\ Busy(isr)
  BY DEF Handling, IsrStep, Busy
<1>2. isr' = AfterAccess(isr)
  BY DEF IsrStep
<1>3. CASE Len(isr.prog) > 1
  <2>1. isr'.prog = Tail(isr.prog)
    <3>1. PICK seen : isr' = [isr EXCEPT !.prog = Tail(@), !.snap = seen]
      BY <1>2, <1>3 DEF AfterAccess
    <3>2. isr = [fn |-> isr.fn, frame |-> isr.frame, prog |-> isr.prog, snap |-> isr.snap,
                 about |-> isr.about, named |-> isr.named, on |-> isr.on]
      BY DEF Handling
    <3>3. isr' = [fn |-> isr.fn, frame |-> isr.frame, prog |-> Tail(isr.prog), snap |-> seen,
                  about |-> isr.about, named |-> isr.named, on |-> isr.on]
      BY <3>1, <3>2, CutRecord
    <3> QED
      BY <3>3
  <2>2. Tail(isr.prog) # isr.prog
    BY <1>1, TailDiffers
  <2> QED
    BY <1>1, <2>1, <2>2 DEF Steps
<1>4. CASE ~(Len(isr.prog) > 1) /\ isr.fn # "DMAClearChIrq"
  <2>1. isr'.prog = <<>>
    BY <1>2, <1>4 DEF AfterAccess, Idle, Call
  <2> QED
    BY <1>1, <2>1 DEF Steps
<1>5. CASE ~(Len(isr.prog) > 1) /\ isr.fn = "DMAClearChIrq"
  <2>1. isr'.fn # "DMAClearChIrq"
    BY <1>2, <1>5 DEF AfterAccess, HandlerClear, Idle, Call
  <2> QED
    BY <1>1, <1>5, <2>1 DEF Steps
<1> QED
  BY <1>3, <1>4, <1>5

LEMMA FlagsCleared ==
  ASSUME Inv, [Next]_vars
  PROVE  FlagsClearedAsAsked
<1> SUFFICES ASSUME NEW f \in Frames, NEW flag \in Flags, flag \in regs[f], flag \notin regs'[f]
             PROVE  \/ f \in Channels /\ Clearing(f) /\ ~Enabled(f)
                    \/ "ENABLECMD" \in regs'[f] \ regs[f]
                    \/ Steps(main, main') /\ main.frame = f /\ flag \in main.named
                    \/ Steps(isr, isr') /\ isr.frame = f /\ flag \in isr.named
  BY DEF FlagsClearedAsAsked, Flags
<1>0. MainInv /\ Typed /\ Handling(isr)
  BY DEF Inv, MainInv
<1>1. CASE MainStep
  <2>1. PICK word : /\ WritesAsAsked(main, main.prog[1])
                    /\ Home(main.frame, main.prog[1].reg) = main.about
                    /\ word \subseteq FieldsOf(main.prog[1].reg)
                    /\ \A x \in main.prog[1].named : x \in word <=> x \in main.prog[1].on
                    /\ regs' = [regs EXCEPT ![main.about] =
                                   AfterWrite(main.prog[1].reg, @, word)]
    BY <1>0, <1>1, MainAccessWrites DEF Typed
  <2>2. /\ f = main.about
        /\ regs'[f] = AfterWrite(main.prog[1].reg, regs[f], word)
    BY <1>0, <2>1 DEF Typed
  <2> SUFFICES ASSUME "ENABLECMD" \notin regs'[f] \ regs[f]
               PROVE  Steps(main, main') /\ main.frame = f /\ flag \in main.named
    OBVIOUS
  <2>3. flag \in word /\ main.prog[1].reg \in {"CH_STATUS", "STATUS"}
    BY <2>1, <2>2, WriteFlags
  <2>4. main.frame = f
    BY <2>1, <2>2, <2>3 DEF WritesAsAsked
  <2>5. flag \in main.prog[1].named
    BY <2>1, <2>3, ActingRegisters
       DEF WritesAsAsked, Flags, W1CFlags, UnitFlags, PauseFlags, TrigFlags
  <2>6. flag \in main.named
    BY <2>1, <2>3, <2>5 DEF WritesAsAsked, Flags
  <2> QED
    BY <1>0, <1>1, <2>4, <2>6, MainMoves
<1>2. CASE IsrStep
  <2>1. flag \notin ErrFields
    BY DEF Flags, W1CFlags, UnitFlags, ErrFields
  <2> QED
    BY <1>0, <1>2, <2>1, IsrAccess, IsrMoves
<1>3. CASE Engine
  BY <1>0, <1>3, EngineKeepsFlags
<1>4. CASE \/ \E k \in MainCalls : MainCall(k)
           \/ DMA_Handler
           \/ UNCHANGED vars
  <2>1. regs' = regs
    BY <1>4 DEF MainCall, DMA_Handler, vars
  <2> QED
    BY <2>1
<1> QED
  BY <1>1, <1>2, <1>3, <1>4 DEF Next

LEMMA OnlyTrigger ==
  ASSUME Inv, [Next]_vars
  PROVE  TriggersOnlyTrigger
<1> SUFFICES ASSUME main.fn \in TriggerFns, Steps(main, main'),
                    NEW c \in Channels, NEW x \in W1SFields, x \in regs'[c], x \notin regs[c]
             PROVE  x \in main.on
  BY DEF TriggersOnlyTrigger, TriggerFns
<1>0. MainInv /\ Typed /\ c \in Frames
  BY DEF Inv, MainInv, Frames
<1>1. CASE MainStep
  <2>0. x # "STAT_SECACCVIO"
    BY DEF W1SFields
  <2>1. PICK word : /\ WritesAsAsked(main, main.prog[1])
                    /\ \A y \in main.prog[1].named : y \in word <=> y \in main.prog[1].on
                    /\ regs' = [regs EXCEPT ![main.about] =
                                   AfterWrite(main.prog[1].reg, @, word)]
    BY <1>0, <1>1, <2>0, MainAccessWrites DEF Typed
  <2>2. /\ c = main.about /\ x \in AfterWrite(main.prog[1].reg, regs[c], word)
    BY <1>0, <2>1 DEF Typed
  <2>3. x \in word
    BY <2>2, WriteOnly
  <2> QED
    BY <2>1, <2>3 DEF WritesAsAsked
<1>2. CASE main' = main
  BY <1>2 DEF Steps
<1>3. ASSUME ~Busy(main) PROVE FALSE
  BY <1>3 DEF Steps
<1>4. CASE Engine
  BY <1>2, <1>4 DEF Engine, EngineStep, Complete, BusError, Stopped, Paused, DonePaused,
     Resumed, Cleared, TriggerWait, TriggerTaken, AllStopped, AllPaused
<1>5. CASE DMA_Handler \/ IsrStep \/ UNCHANGED vars
  BY <1>2, <1>5 DEF DMA_Handler, IsrStep, vars
<1>6. CASE \E k \in MainCalls : MainCall(k)
  BY <1>3, <1>6 DEF MainCall
<1> QED
  BY <1>1, <1>4, <1>5, <1>6 DEF Next

\* A read-modify-write of CH_STATUS, STATUS or CH_CMD does only what its caller
\* asked, whatever happened between the read and the write: AdaClearChDone and
\* its like lose no flag raised meanwhile, a software trigger repeats no command.
THEOREM WritesDoAsAsked == Spec => BusWritesAsAsked
<1>1. Inv /\ [Next]_vars => FlagsClearedAsAsked /\ TriggersOnlyTrigger
  BY FlagsCleared, OnlyTrigger
<1> QED
  BY <1>1, Programs, PTL DEF Spec, BusWritesAsAsked
=============================================================================
