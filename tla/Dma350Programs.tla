--------------------------- MODULE Dma350Programs ---------------------------
(***************************************************************************)
(* What the programs of the library's functions have in common, read off   *)
(* dma_350_command_lib.c: each function reads a register before it writes  *)
(* part of it, selects a channel before it configures it, masks the bits   *)
(* that act when they are written, and writes every field its caller names.*)
(* TLC checks this discipline of every call of a run; the theorems of      *)
(* Dma350Proofs hold of every set of calls that keeps it.                  *)
(***************************************************************************)
EXTENDS Dma350

Access ==
    [op : {"read", "write", "trespass"}, reg : STRING,
     named : SUBSET AllFields, on : SUBSET AllFields]
    \cup [op : {"point"}, reg : {"CHPTR"}, named : {{}}, on : {{}}, to : Channels]

\* The configuration fields that a write stores as they were read.
Kept(a) == (FieldsOf(a.reg) \cap ConfigFields) \ a.named

\* Access i of a program selects the channel itself, after `first`, if it is to
\* a register that depends on the selection; `there`: it is selected already.
Selected(prog, first, i, there) ==
    prog[i].reg = "CHCFG" => there \/ \E j \in first .. i - 1 : prog[j].op = "point"

\* What access i writes back is read from the same register, after `first`.
ReadSince(prog, first, i, there) ==
    \E j \in first .. i - 1 : /\ prog[j].op = "read"
                              /\ prog[j].reg = prog[i].reg
                              /\ Selected(prog, first, j, there)

\* The functions that request or acknowledge a trigger.
TriggerFns == {"AdaSrcSwTrigInReq", "AdaDesSwTrigInReq", "AdaSwTrigOutAck"}

\* A write of call k changes what the call is for, and nothing else: it names
\* fields of its register, each as the caller asked; it masks the bits of a
\* register of flags or commands that are not its own.
WritesAsAsked(k, a) ==
    /\ a.on \subseteq a.named /\ a.named \subseteq FieldsOf(a.reg)
    /\ a.named \cap ConfigFields \subseteq k.named
    /\ \A x \in a.named \cap ConfigFields : x \in a.on <=> x \in k.on
    /\ IF a.reg = "CHCFG" THEN k.frame \in Units /\ k.about \in Channels
                          ELSE k.frame = k.about
    /\ a.reg \in DOMAIN SecCfgRegs <=> k.frame = SCfg
    /\ a.reg = "CH_STATUS" => W1CFlags \subseteq a.named
    /\ a.reg = "STATUS" => UnitFlags \subseteq a.named
    /\ a.on \cap (W1CFlags \cup UnitFlags) \subseteq k.named
    /\ k.fn \in TriggerFns => W1SFields \subseteq a.named /\ a.on \cap W1SFields \subseteq k.on

\* What holds of a call wherever it has got to.
WellFormed(k) ==
    /\ k = [fn |-> k.fn, frame |-> k.frame, prog |-> k.prog, snap |-> k.snap,
            about |-> k.about, named |-> k.named, on |-> k.on]
    /\ {k.frame, k.about} \subseteq Frames
    /\ k.on \subseteq k.named
    /\ k.prog \in Seq(Access)
    /\ k.fn # "DMAClearChIrq"
    /\ ~Busy(k) => k.named = {}
    /\ \A i \in DOMAIN k.prog :
        /\ k.prog[i].op = "write" => WritesAsAsked(k, k.prog[i])
        /\ k.prog[i].reg \in {"CHCFG", "CHPTR"} => k.frame \in Units
        /\ \A j \in i + 1 .. Len(k.prog) :
            /\ k.prog[i].op = "point" /\ k.prog[j].op = "write" /\ k.prog[j].reg = "CHCFG"
                 => k.prog[i].to = k.about
            /\ k.prog[i].op = "write" /\ k.prog[j].op = "write"
                 /\ k.prog[i].named \cap Kept(k.prog[j]) # {}
                 => ReadSince(k.prog, i + 1, j, FALSE)

\* What holds of a call that begins.
Disciplined(k) ==
    /\ WellFormed(k)
    /\ k.prog # <<>> /\ k.snap = {}
    /\ \A i \in DOMAIN k.prog : k.prog[i].op = "write" =>
        /\ Selected(k.prog, 1, i, FALSE)
        /\ Kept(k.prog[i]) # {} => ReadSince(k.prog, 1, i, FALSE)
    /\ \A x \in k.named \cap ConfigFields :
        \E i \in DOMAIN k.prog : k.prog[i].op = "write" /\ x \in k.prog[i].named

ASSUME ProgramsAssumption == \A k \in MainCalls : Disciplined(k)
=============================================================================
