-------------------------- MODULE InterruptsProofs --------------------------
(***************************************************************************)
(* Theorems about Interrupts for every number of terminals, every depth of *)
(* nested handlers and every set of devices and rates: no line stays in    *)
(* service, no device falls silent, no read returns early, and no process  *)
(* is disturbed while it programs the clock.                               *)
(***************************************************************************)
EXTENDS Interrupts, SequenceTheorems, TLAPS

Current == Last(stack[sched_term_id])

\* A line is in service exactly while a handler has not done its work yet, and
\* then it is the newest one's, with interrupts off.
InService ==
    /\ entered => /\ ~IF_flag
                  /\ stack[sched_term_id] # <<>>
                  /\ isr = {Current, OnMaster(Current)}
    /\ ~entered => isr = {}

\* Interrupts are off until the boot is over.
BootQuiet == ~Booted => ~IF_flag /\ ~entered

\* A process between the two halves of set_int_freq has the CPU to itself.
Programming ==
    \A t \in Terms : pc[t] = "select" =>
        Runs(t) /\ ~IF_flag /\ ~entered /\ index = "A"

\* The flag, while somebody waits, is about an interrupt since the wait began.
FlagFresh == \A t \in Terms : intr_occured /\ pc[t] = "wait" => since[t]

\* The inductive invariant.
IInv == TypeOK /\ InService /\ BootQuiet /\ Programming /\ FlagFresh /\ EdgesKept

-----------------------------------------------------------------------------
LEMMA LineFacts ==
    /\ PIT \in Lines /\ RTC \in Lines /\ Lines \subseteq Int
    /\ PIT # RTC /\ PIT # KEYBOARD /\ PIT # MOUSE
    /\ RTC # KEYBOARD /\ RTC # MOUSE /\ KEYBOARD # MOUSE
BY InterruptsAssumption DEF PIT, RTC, KEYBOARD, MOUSE

LEMMA BootLength == Len(BootLines) = 4
BY DEF BootLines

LEMMA NextTerm ==
    ASSUME NEW t \in Terms PROVE (t + 1) % MAX_TERM_NUM \in Terms
BY InterruptsAssumption DEF Terms

LEMMA ZeroTerm == 0 \in Terms
BY InterruptsAssumption DEF Terms

LEMMA LastAppended ==
    ASSUME NEW s \in Seq(Lines), NEW l \in Lines
    PROVE  Append(s, l) \in Seq(Lines) /\ Last(Append(s, l)) = l /\ Append(s, l) # <<>>
BY AppendProperties DEF Last

LEMMA FrontType ==
    ASSUME NEW s \in Seq(Lines), s # <<>>
    PROVE  Front(s) \in Seq(Lines)
<1>1. Len(s) \in Nat /\ Len(s) # 0
  BY LenProperties, EmptySeq
<1> QED
  BY <1>1, SubSeqProperties DEF Front

-----------------------------------------------------------------------------
LEMMA InitIInv == Init => IInv
<1> SUFFICES ASSUME Init PROVE IInv
  OBVIOUS
<1>1. TypeOK
  <2>1. stack \in [Terms -> Seq(Lines)]
    BY EmptySeq DEF Init
  <2> QED
    BY <2>1, ZeroTerm, BootLength DEF Init, TypeOK
<1>2. InService
  BY DEF Init, InService
<1>3. BootQuiet
  BY DEF Init, BootQuiet
<1>4. Programming /\ FlagFresh
  BY DEF Init, Programming, FlagFresh
<1>5. EdgesKept
  BY DEF Init, EdgesKept
<1> QED
  BY <1>1, <1>2, <1>3, <1>4, <1>5 DEF IInv

\* The steps of entry: what is ready when its line opens is requested.
LEMMA BootKeepsIInv ==
    ASSUME IInv, BootStep \/ BootEnd PROVE IInv'
<1>1. ~Booted /\ ~IF_flag /\ ~entered /\ isr = {} /\ boot \in 0 .. 4
  BY BootLength DEF BootStep, BootEnd, Booted, IInv, TypeOK, BootQuiet, InService
<1>2. \A t \in Terms : pc[t] # "select"
  BY <1>1 DEF IInv, Programming, Runs
<1>3. CASE BootStep
  <2>1. TypeOK'
    BY <1>1, <1>3, BootLength, LineFacts DEF BootStep, enable_irq, IInv, TypeOK, cpuVars, driverVars
  <2>2. InService' /\ BootQuiet' /\ FlagFresh'
    BY <1>1, <1>3 DEF BootStep, IInv, InService, BootQuiet, FlagFresh, Current, cpuVars, driverVars
  <2>3. Programming'
    BY <1>2, <1>3 DEF BootStep, Programming, driverVars
  <2>4. EdgesKept'
    BY <1>1, <1>3 DEF BootStep, IInv, EdgesKept, Handling, cpuVars
  <2> QED
    BY <2>1, <2>2, <2>3, <2>4 DEF IInv
<1>4. CASE BootEnd
  <2>1. TypeOK'
    BY <1>1, <1>4, BootLength DEF BootEnd, IInv, TypeOK, cpuVars, chipVars, driverVars
  <2>2. InService' /\ FlagFresh'
    BY <1>1, <1>4 DEF BootEnd, IInv, InService, FlagFresh, Current, cpuVars, driverVars
  <2>3. BootQuiet'
    BY <1>1, <1>4, BootLength DEF BootEnd, BootQuiet, Booted
  <2>4. Programming'
    BY <1>2, <1>4 DEF BootEnd, Programming, driverVars
  <2>5. EdgesKept'
    BY <1>1, <1>4 DEF BootEnd, IInv, EdgesKept, Handling, cpuVars, chipVars
  <2> QED
    BY <2>1, <2>2, <2>3, <2>4, <2>5 DEF IInv
<1> QED
  BY <1>3, <1>4

\* The devices only add requests.
LEMMA DeviceKeepsIInv ==
    ASSUME IInv, PitTick \/ PS2Byte(KEYBOARD) \/ PS2Byte(MOUSE) \/ RtcTick PROVE IInv'
<1>1. UNCHANGED <<isr, IF_flag, boot, cpuVars, driverVars, index, pie>>
  BY DEF PitTick, PS2Byte, RtcTick, chipVars
<1>2. TypeOK'
  BY <1>1, LineFacts DEF PitTick, PS2Byte, RtcTick, IInv, TypeOK, cpuVars, chipVars, driverVars
<1>3. InService' /\ BootQuiet' /\ FlagFresh' /\ Programming'
  BY <1>1 DEF IInv, InService, BootQuiet, Booted, FlagFresh, Programming, Runs, Current,
              cpuVars, driverVars
<1>4. EdgesKept'
  BY <1>1, LineFacts DEF PitTick, PS2Byte, RtcTick, IInv, EdgesKept, Handling, cpuVars, chipVars
<1> QED
  BY <1>2, <1>3, <1>4 DEF IInv

\* The CPU takes an interrupt: its line goes from requested to in service.
LEMMA AcceptKeepsIInv ==
    ASSUME IInv, NEW l \in Lines, Accept(l) PROVE IInv'
<1> USE DEF cpuVars, chipVars, driverVars
<1>1. IF_flag /\ ~entered /\ isr = {} /\ Booted
  BY DEF Accept, IInv, InService, BootQuiet
<1>2. sched_term_id \in Terms /\ stack[sched_term_id] \in Seq(Lines)
  BY DEF IInv, TypeOK
<1>3. /\ stack'[sched_term_id] = Append(stack[sched_term_id], l)
      /\ sched_term_id' = sched_term_id
  BY <1>2 DEF Accept, IInv, TypeOK
<1>4. Last(stack'[sched_term_id']) = l /\ stack'[sched_term_id'] # <<>>
  BY <1>2, <1>3, LastAppended
<1>5. TypeOK'
  <2>1. stack' \in [Terms -> Seq(Lines)]
    BY <1>2, LastAppended DEF Accept, IInv, TypeOK
  <2> QED
    BY <2>1 DEF Accept, IInv, TypeOK
<1>6. InService'
  BY <1>1, <1>4 DEF Accept, InService, Current
<1>7. BootQuiet' /\ FlagFresh'
  BY <1>1 DEF Accept, IInv, BootQuiet, Booted, FlagFresh
<1>8. Programming'
  BY <1>1 DEF Accept, IInv, Programming
<1>9. EdgesKept'
  BY <1>1, <1>4 DEF Accept, IInv, EdgesKept, Handling
<1> QED
  BY <1>5, <1>6, <1>7, <1>8, <1>9 DEF IInv

\* What the work of a handler does to the controllers: the line it came by, and
\* with a slave's line the cascade, are free again.
LEMMA WorkFrees ==
    ASSUME IInv, NEW l, Work(l)
    PROVE  /\ entered /\ Current = l /\ Booted
           /\ isr' = {} /\ IF_flag' = TRUE /\ entered' = FALSE
           /\ \A t \in Terms : pc[t] # "select"
           /\ sched_term_id \in Terms /\ stack[sched_term_id] \in Seq(Lines)
           /\ stack[sched_term_id] # <<>>
<1>1. entered /\ Current = l /\ IF_flag' = TRUE /\ entered' = FALSE
  BY DEF Work, Handling, Current
<1>2. isr = {l, OnMaster(l)} /\ stack[sched_term_id] # <<>>
  BY <1>1 DEF IInv, InService
<1>3. isr' = {}
  BY <1>2 DEF Work, send_eoi, OnMaster
<1> QED
  BY <1>1, <1>2, <1>3 DEF IInv, TypeOK, BootQuiet, Programming

\* What is left to show of a handler once WorkFrees has been used.
LEMMA AfterWork ==
    ASSUME IInv, NEW l, Work(l), TypeOK', EdgesKept',
           \A t \in Terms : pc'[t] # "select",
           FlagFresh'
    PROVE  IInv'
<1>1. Booted'
  BY WorkFrees DEF Work, Booted
<1>2. InService' /\ BootQuiet' /\ Programming'
  BY WorkFrees, <1>1 DEF InService, BootQuiet, Programming
<1> QED
  BY <1>2 DEF IInv

LEMMA PitKeepsIInv == ASSUME IInv, pit_interrupt PROVE IInv'
<1> USE DEF cpuVars, chipVars, driverVars
<1>1. Work(PIT)
  BY DEF pit_interrupt
<1>2. TypeOK'
  BY NextTerm DEF pit_interrupt, Work, IInv, TypeOK
<1>3. ~Handling(RTC) /\ ~Handling(KEYBOARD) /\ ~Handling(MOUSE)
  BY <1>1, WorkFrees, LineFacts DEF Handling, Current
<1>4. EdgesKept'
  BY <1>3 DEF pit_interrupt, Work, IInv, EdgesKept
<1>5. FlagFresh' /\ \A t \in Terms : pc'[t] # "select"
  BY <1>1, WorkFrees DEF pit_interrupt, IInv, FlagFresh
<1> QED
  BY <1>1, <1>2, <1>4, <1>5, AfterWork

LEMMA KeyboardKeepsIInv == ASSUME IInv, keyboard_interrupt PROVE IInv'
<1> USE DEF cpuVars, chipVars, driverVars
<1>1. Work(KEYBOARD)
  BY DEF keyboard_interrupt
<1>2. TypeOK'
  BY DEF keyboard_interrupt, Work, IInv, TypeOK
<1>3. ~Handling(RTC)
  BY <1>1, WorkFrees, LineFacts DEF Handling, Current
<1>4. EdgesKept'
  BY <1>3 DEF keyboard_interrupt, Work, IInv, EdgesKept
<1>5. FlagFresh' /\ \A t \in Terms : pc'[t] # "select"
  BY <1>1, WorkFrees DEF keyboard_interrupt, IInv, FlagFresh
<1> QED
  BY <1>1, <1>2, <1>4, <1>5, AfterWork

\* The clock's handler reads register C, and everybody who waits has had an
\* interrupt.
LEMMA ClockKeepsIInv == ASSUME IInv, rtc_interrupt PROVE IInv'
<1> USE DEF cpuVars, chipVars, driverVars
<1>1. Work(RTC)
  BY DEF rtc_interrupt
<1>2. TypeOK'
  BY DEF rtc_interrupt, Work, ReadC, IInv, TypeOK
<1>3. ~Handling(KEYBOARD) /\ ~Handling(MOUSE)
  BY <1>1, WorkFrees, LineFacts DEF Handling, Current
<1>4. EdgesKept'
  BY <1>3 DEF rtc_interrupt, Work, ReadC, IInv, EdgesKept
<1>5. FlagFresh' /\ \A t \in Terms : pc'[t] # "select"
  BY <1>1, WorkFrees DEF rtc_interrupt, FlagFresh
<1> QED
  BY <1>1, <1>2, <1>4, <1>5, AfterWork

LEMMA MouseKeepsIInv == ASSUME IInv, mouse_interrupt PROVE IInv'
<1> USE DEF cpuVars, chipVars, driverVars
<1>1. Work(MOUSE)
  BY DEF mouse_interrupt
<1>2. TypeOK'
  <2>1. Front(stack[sched_term_id]) \in Seq(Lines)
    BY <1>1, WorkFrees, FrontType
  <2>2. stack' \in [Terms -> Seq(Lines)]
    BY <2>1 DEF mouse_interrupt, IInv, TypeOK
  <2> QED
    BY <2>2 DEF mouse_interrupt, Work, IInv, TypeOK
<1>3. ~Handling(RTC)
  BY <1>1, WorkFrees, LineFacts DEF Handling, Current
<1>4. EdgesKept'
  BY <1>3 DEF mouse_interrupt, Work, IInv, EdgesKept
<1>5. FlagFresh' /\ \A t \in Terms : pc'[t] # "select"
  BY <1>1, WorkFrees DEF mouse_interrupt, IInv, FlagFresh
<1> QED
  BY <1>1, <1>2, <1>4, <1>5, AfterWork

\* The end of a handler, with nothing in service.
LEMMA IretKeepsIInv == ASSUME IInv, iret PROVE IInv'
<1> USE DEF picVars, chipVars, driverVars
<1>1. sched_term_id \in Terms /\ stack[sched_term_id] \in Seq(Lines) /\ ~entered
  BY DEF iret, IInv, TypeOK
<1>2. TypeOK'
  <2>1. Front(stack[sched_term_id]) \in Seq(Lines)
    BY <1>1, FrontType DEF iret
  <2>2. stack' \in [Terms -> Seq(Lines)]
    BY <2>1 DEF iret, IInv, TypeOK
  <2> QED
    BY <2>2 DEF iret, IInv, TypeOK
<1>3. InService' /\ BootQuiet' /\ FlagFresh' /\ EdgesKept'
  BY <1>1 DEF iret, IInv, InService, BootQuiet, Booted, FlagFresh, EdgesKept, Handling
<1>4. Programming'
  <2>1. \A t \in Terms : pc[t] # "select"
    BY DEF iret, IInv, Programming, Runs
  <2> QED
    BY <2>1 DEF iret, Programming
<1> QED
  BY <1>2, <1>3, <1>4 DEF IInv

-----------------------------------------------------------------------------
(* The clock driver *)

\* The steps of the driver do not touch the controllers or the stacks.
LEMMA DriverKeepsIInv ==
    ASSUME IInv, NEW t \in Terms,
           UNCHANGED <<masked, irr, isr, boot, cpuVars, obf, pie, pf>>,
           Runs(t),
           TypeOK', FlagFresh', Programming'
    PROVE  IInv'
<1>1. ~entered /\ Booted
  BY DEF Runs, IInv, InService
<1> QED
  BY <1>1 DEF IInv, InService, BootQuiet, Booted, EdgesKept, Handling, Current, cpuVars

LEMMA ReadKeepsIInv ==
    ASSUME IInv, NEW t \in Terms, ReadBegin(t) \/ ReadEnd(t) PROVE IInv'
<1> USE DEF picVars, chipVars
<1>1. TypeOK'
  BY DEF ReadBegin, ReadReset, ReadEnd, IInv, TypeOK, cpuVars
<1>2. FlagFresh'
  BY DEF ReadBegin, ReadReset, ReadEnd, IInv, TypeOK, FlagFresh
<1>3. Programming'
  BY DEF ReadBegin, ReadEnd, IInv, TypeOK, Programming, Runs, Booted, cpuVars
<1> QED
  BY <1>1, <1>2, <1>3, DriverKeepsIInv DEF ReadBegin, ReadEnd

LEMMA WriteBeginKeepsIInv ==
    ASSUME IInv, NEW t \in Terms, NEW f, WriteBegin(t, f) PROVE IInv'
<1> USE DEF picVars, chipVars
<1>1. TypeOK'
  BY DEF WriteBegin, IInv, TypeOK, cpuVars
<1>2. FlagFresh'
  BY DEF WriteBegin, IInv, TypeOK, FlagFresh
<1>3. Programming'
  BY DEF WriteBegin, IInv, TypeOK, Programming, Runs, Booted, cpuVars
<1> QED
  BY <1>1, <1>2, <1>3, DriverKeepsIInv DEF WriteBegin

\* cli, until the chip is programmed
LEMMA SelectKeepsIInv ==
    ASSUME IInv, NEW t \in Terms, SelectA(t) PROVE IInv'
<1>1. TypeOK'
  BY DEF SelectA, CliDuring, IInv, TypeOK, cpuVars
<1>2. FlagFresh'
  BY DEF SelectA, IInv, TypeOK, FlagFresh
<1>3. ~entered
  BY DEF SelectA, Runs, IInv, InService
<1>4. Programming'
  <2>1. \A o \in Terms \ {t} : pc[o] # "select"
    BY DEF SelectA, IInv, Programming, Runs
  <2> QED
    BY <1>3, <2>1 DEF SelectA, CliDuring, IInv, TypeOK, Programming, Runs, Booted, cpuVars
<1> QED
  BY <1>1, <1>2, <1>4, DriverKeepsIInv DEF SelectA

LEMMA WriteAKeepsIInv ==
    ASSUME IInv, NEW t \in Terms, WriteA(t) PROVE IInv'
<1>1. TypeOK'
  BY DEF WriteA, IInv, TypeOK, cpuVars
<1>2. FlagFresh'
  BY DEF WriteA, IInv, TypeOK, FlagFresh
<1>3. Programming'
  <2>1. \A o \in Terms \ {t} : pc[o] # "select"
    BY DEF WriteA, IInv, Programming, Runs
  <2> QED
    BY <2>1 DEF WriteA, IInv, TypeOK, Programming
<1> QED
  BY <1>1, <1>2, <1>3, DriverKeepsIInv DEF WriteA

LEMMA StutterKeepsIInv == ASSUME IInv, UNCHANGED vars PROVE IInv'
BY DEF vars, picVars, cpuVars, chipVars, driverVars, IInv, TypeOK, InService, Current, BootQuiet,
       Booted, Programming, Runs, FlagFresh, EdgesKept, Handling

LEMMA NextIInv == IInv /\ [Next]_vars => IInv'
BY BootKeepsIInv, DeviceKeepsIInv, AcceptKeepsIInv, PitKeepsIInv, KeyboardKeepsIInv,
   ClockKeepsIInv, MouseKeepsIInv, IretKeepsIInv, ReadKeepsIInv, WriteBeginKeepsIInv,
   SelectKeepsIInv, WriteAKeepsIInv, StutterKeepsIInv DEF Next

LEMMA AlwaysIInv == Spec => []IInv
BY InitIInv, NextIInv, PTL DEF Spec

-----------------------------------------------------------------------------
\* However handlers nest and terminals take turns, every line is free whenever
\* the CPU takes interrupts: each handler's send_eoi comes before its sti.
THEOREM NoLineBlocked == Spec => []LinesFree
<1>1. IInv => LinesFree
  BY DEF IInv, InService, LinesFree, TypeOK
<1> QED
  BY AlwaysIInv, <1>1, PTL

\* No device is ever left waiting without its request being kept by the
\* controllers or its handler being at work.
THEOREM NoDeviceSilent == Spec => []EdgesKept
<1>1. IInv => EdgesKept
  BY DEF IInv
<1> QED
  BY AlwaysIInv, <1>1, PTL

\* The processes whose pc changes in a step, and how.
LEMMA WaitEnds ==
    ASSUME IInv, [Next]_vars, NEW t \in Terms, pc[t] = "wait", pc'[t] = "idle"
    PROVE  since[t]
<1>1. ASSUME NEW o \in Terms, ReadEnd(o) PROVE since[t]
  <2>1. o = t
    BY <1>1 DEF ReadEnd, IInv, TypeOK
  <2> QED
    BY <1>1, <2>1 DEF ReadEnd, Occurred, IInv, FlagFresh
<1>2. ASSUME NEW o \in Terms, ReadBegin(o) \/ SelectA(o) \/ WriteA(o) PROVE FALSE
  BY <1>2 DEF ReadBegin, SelectA, WriteA, IInv, TypeOK
<1>3. ASSUME NEW o \in Terms, NEW f, WriteBegin(o, f) PROVE FALSE
  BY <1>3 DEF WriteBegin, IInv, TypeOK
<1>4. CASE UNCHANGED pc
  BY <1>4
<1> QED
  BY <1>1, <1>2, <1>3, <1>4
  DEF Next, BootStep, BootEnd, PitTick, PS2Byte, RtcTick, Accept, pit_interrupt,
      keyboard_interrupt, rtc_interrupt, mouse_interrupt, iret, vars, driverVars

\* rtc_read returns only on an interrupt that came after it was called, whatever
\* the other processes do with the one flag they share.
THEOREM ReadsWait == Spec => ReadWaits
<1>1. IInv /\ [Next]_vars => [\A t \in Terms : pc[t] = "wait" /\ pc'[t] = "idle" => since[t]]_vars
  BY WaitEnds
<1> QED
  BY AlwaysIInv, <1>1, PTL DEF Spec, ReadWaits

\* A process that programs the clock writes its own divider to register A:
\* between the selection of the register and the write to it, nobody else uses
\* the chip's index port.
OwnDivider ==
    [][\A t \in Terms : pc[t] = "select" /\ pc'[t] = "idle"
          => divider' = Divider(new_freq[t])]_vars

LEMMA SelectEnds ==
    ASSUME IInv, [Next]_vars, NEW t \in Terms, pc[t] = "select", pc'[t] = "idle"
    PROVE  divider' = Divider(new_freq[t])
<1>1. ASSUME NEW o \in Terms, WriteA(o) PROVE divider' = Divider(new_freq[t])
  <2>1. o = t
    BY <1>1 DEF WriteA, IInv, TypeOK
  <2> QED
    BY <1>1, <2>1 DEF WriteA, IInv, Programming
<1>2. ASSUME NEW o \in Terms, ReadBegin(o) \/ ReadEnd(o) \/ SelectA(o) PROVE FALSE
  BY <1>2 DEF ReadBegin, ReadEnd, SelectA, IInv, TypeOK
<1>3. ASSUME NEW o \in Terms, NEW f, WriteBegin(o, f) PROVE FALSE
  BY <1>3 DEF WriteBegin, IInv, TypeOK
<1>4. CASE UNCHANGED pc
  BY <1>4
<1> QED
  BY <1>1, <1>2, <1>3, <1>4
  DEF Next, BootStep, BootEnd, PitTick, PS2Byte, RtcTick, Accept, pit_interrupt,
      keyboard_interrupt, rtc_interrupt, mouse_interrupt, iret, vars, driverVars

\* set_int_freq programs what its caller asked for, although the clock's handler
\* and Ctrl+4 use the same ports: its cli covers both accesses.
THEOREM ProgramsOwnRate == Spec => OwnDivider
<1>1. IInv /\ [Next]_vars
        => [\A t \in Terms : pc[t] = "select" /\ pc'[t] = "idle"
               => divider' = Divider(new_freq[t])]_vars
  BY SelectEnds
<1> QED
  BY AlwaysIInv, <1>1, PTL DEF Spec, OwnDivider
=============================================================================
