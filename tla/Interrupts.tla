----------------------------- MODULE Interrupts -----------------------------
(***************************************************************************)
(* The two interrupt controllers (i8259.c), the interrupt flag of the CPU, *)
(* the handlers of the timer, the keyboard, the clock and the mouse, and   *)
(* under them the clock driver (rtc.c) as the processes of the terminals   *)
(* use it, with the chip's index port.  A handler is entered through an    *)
(* interrupt gate, with interrupts off; it does its work up to its sti;    *)
(* and from there to its iret it can be interrupted itself.  The timer's   *)
(* work is the switch to the next terminal, on whose stack it ends.        *)
(***************************************************************************)
EXTENDS Integers, SequencesExt, FiniteSetsExt

CONSTANTS
    MAX_TERM_NUM,   \* terminals, each with a process that uses the clock
    MAX_FREQ,       \* 1024, the highest rate
    Rates,          \* the rates the processes ask for
    Lines,          \* the devices' lines, of PIT, KEYBOARD, RTC and MOUSE
    DEPTH           \* bound: handlers on one kernel stack

PIT == 0
KEYBOARD == 1
CASCADE == 2
RTC == 8
MOUSE == 12

ASSUME InterruptsAssumption ==
    /\ MAX_TERM_NUM \in Nat \ {0} /\ DEPTH \in Nat \ {0}
    /\ Rates \subseteq Nat /\ MAX_FREQ \in {2^k : k \in 1 .. 10}
    /\ {PIT, RTC} \subseteq Lines /\ Lines \subseteq {PIT, KEYBOARD, RTC, MOUSE}

Terms == 0 .. MAX_TERM_NUM - 1

VARIABLES
    masked,         \* master_mask and slave_mask, as a set of lines
    irr, isr,       \* the controllers' requested and in-service registers
    IF_flag,        \* the interrupt flag of the CPU
    boot,           \* steps of entry done
    sched_term_id,
    stack,          \* the handlers each terminal's kernel stack holds, oldest first
    entered,        \* the newest of them has not done its work yet
    obf,            \* what the PS/2 controller holds: "none", "key" or "mouse"
    pie, pf,        \* the clock: interrupts enabled; a period is over (register C)
    index,          \* the register the index port selects; an access leaves it at D
    divider,        \* the low bits of register A
    intr_occured, rtc_freq,     \* the globals of rtc.c
    pc,             \* of each process: "idle", "wait", "write", "select"
    new_freq,       \* the rate a write or an open (then 2) is about
    since           \* history: a clock interrupt occurred since rtc_read began

picVars == <<masked, irr, isr, IF_flag, boot>>
cpuVars == <<sched_term_id, stack, entered>>
chipVars == <<pie, pf, index, divider>>
driverVars == <<intr_occured, rtc_freq, pc, new_freq, since>>
vars == <<picVars, cpuVars, obf, chipVars, driverVars>>

\* the chip: frequency = 32768 >> (divider - 1)
Frequency(d) == 2^(16 - d)

\* the do-while loop of rtc_write
pow2freq[f \in 0 .. 2 * MAX_FREQ] == IF f \div 2 > 1 THEN 1 + pow2freq[f \div 2] ELSE 1

\* "Invert the new frequency value"; rtc_open passes 15, which is that of 2
Divider(f) == 16 - pow2freq[f]

-----------------------------------------------------------------------------
(* The controllers *)

\* after i8259_init, with the clock as it comes up
Init ==
    /\ masked = Lines
    /\ irr = {} /\ isr = {}
    /\ IF_flag = FALSE
    /\ boot = 0
    /\ sched_term_id = 0
    /\ stack = [t \in Terms |-> <<>>]
    /\ entered = FALSE
    /\ obf = "none"
    /\ pie = FALSE /\ pf \in BOOLEAN
    /\ index = "D"
    /\ divider = Divider(MAX_FREQ)
    /\ intr_occured = FALSE
    /\ rtc_freq = MAX_FREQ
    /\ pc = [t \in Terms |-> "idle"]
    /\ new_freq = [t \in Terms |-> 0]
    /\ since = [t \in Terms |-> FALSE]

enable_irq(l) == masked' = masked \ {l}

\* Faulty: the master is not told that the slave's interrupt is over.
send_eoi_Slave(l) == isr' = isr \ {l}

\* a slave's line is acknowledged on both controllers
send_eoi(l) == isr' = isr \ (IF l < 8 THEN {l} ELSE {l, CASCADE})

\* where line l takes part in the master's order of priority
OnMaster(l) == IF l < 8 THEN l ELSE CASCADE

\* the controllers present l: nothing as urgent is in service on its way
Presented(l) ==
    /\ l \in irr \ masked
    /\ \A s \in isr : s < 8 => OnMaster(l) < s
    /\ \A s \in isr : s >= 8 /\ l >= 8 => l < s

Ready == {l \in Lines : Presented(l)}

\* the steps of entry that concern interrupts, and its sti; rtc_init allows the
\* clock to interrupt, and a period may be over already
BootLines == <<KEYBOARD, RTC, MOUSE, PIT>>

BootStep ==
    /\ boot < Len(BootLines)
    /\ LET l == BootLines[boot + 1]
       IN  /\ enable_irq(l)
           /\ pie' = (pie \/ l = RTC)
           /\ irr' = irr \cup (IF l = RTC /\ pf THEN {RTC} ELSE {})
    /\ boot' = boot + 1
    /\ UNCHANGED <<isr, IF_flag, cpuVars, obf, pf, index, divider, driverVars>>

Booted == boot > Len(BootLines)

\* sti, and the first shell
BootEnd ==
    /\ boot = Len(BootLines)
    /\ boot' = boot + 1
    /\ IF_flag' = TRUE
    /\ UNCHANGED <<masked, irr, isr, cpuVars, obf, chipVars, driverVars>>

-----------------------------------------------------------------------------
(* The devices *)

PitTick ==
    /\ irr' = irr \cup {PIT}
    /\ UNCHANGED <<masked, isr, IF_flag, boot, cpuVars, obf, chipVars, driverVars>>

\* the controller takes the next byte, of the keyboard or the mouse, when the one
\* before it has been read
PS2Byte(l) ==
    /\ l \in Lines
    /\ obf = "none"
    /\ obf' = IF l = KEYBOARD THEN "key" ELSE "mouse"
    /\ irr' = irr \cup {l}
    /\ UNCHANGED <<masked, isr, IF_flag, boot, cpuVars, chipVars, driverVars>>

\* the line rises once; it falls when register C is read
RtcTick ==
    /\ ~pf
    /\ pf' = TRUE
    /\ irr' = irr \cup (IF pie THEN {RTC} ELSE {})
    /\ UNCHANGED <<masked, isr, IF_flag, boot, cpuVars, obf, pie, index, divider, driverVars>>

-----------------------------------------------------------------------------
(* The handlers *)

Accept(l) ==
    /\ IF_flag
    /\ l \in Ready /\ l = Min(Ready)
    /\ Len(stack[sched_term_id]) < DEPTH
    /\ irr' = irr \ {l}
    /\ isr' = isr \cup {l, OnMaster(l)}
    /\ stack' = [stack EXCEPT ![sched_term_id] = Append(@, l)]
    /\ IF_flag' = FALSE
    /\ entered' = TRUE
    /\ UNCHANGED <<masked, boot, sched_term_id, obf, chipVars, driverVars>>

Handling(l) == entered /\ Last(stack[sched_term_id]) = l

\* what all of them do; interrupts come on again with their sti
Work(l) ==
    /\ Handling(l)
    /\ send_eoi(l)
    /\ IF_flag' = TRUE
    /\ entered' = FALSE
    /\ UNCHANGED <<masked, irr, boot>>

\* the stack it ends on is that of the next terminal, which was left in this
\* handler, or has not run and starts its shell
pit_interrupt ==
    /\ Work(PIT)
    /\ sched_term_id' = (sched_term_id + 1) % MAX_TERM_NUM
    /\ UNCHANGED <<stack, obf, chipVars, driverVars>>

\* The scan code is read: the status bit it is read on says that the controller
\* has taken all that was written to it, and only mouse_init writes, before the
\* first sti, and waits for the answer.  Ctrl+4 doubles the rate, through
\* set_int_freq.
keyboard_interrupt ==
    /\ Work(KEYBOARD)
    /\ obf' = "none"
    /\ \/ UNCHANGED <<rtc_freq, divider, index>>
       \/ LET doubled == IF 2 * rtc_freq > MAX_FREQ THEN 2 ELSE 2 * rtc_freq
          IN  rtc_freq' = doubled /\ divider' = Divider(doubled) /\ index' = "D"
    /\ UNCHANGED <<sched_term_id, stack, pie, pf, intr_occured, pc, new_freq, since>>

\* Faulty: register C is not read.
ReadC_Not == pf

\* register C is selected and read
ReadC == FALSE

\* Faulty: the flag the readers wait for is not set.
rtc_interrupt_Silent ==
    /\ Work(RTC)
    /\ index' = "D"
    /\ pf' = ReadC
    /\ since' = [t \in Terms |-> pc[t] = "wait"]
    /\ UNCHANGED <<sched_term_id, stack, obf, pie, divider, intr_occured, rtc_freq, pc, new_freq>>

rtc_interrupt ==
    /\ Work(RTC)
    /\ intr_occured' = TRUE
    /\ index' = "D"
    /\ pf' = ReadC
    /\ since' = [t \in Terms |-> pc[t] = "wait"]
    /\ UNCHANGED <<sched_term_id, stack, obf, pie, divider, rtc_freq, pc, new_freq>>

\* the byte is read; there is no sti, interrupts come on with the iret
mouse_interrupt ==
    /\ Work(MOUSE)
    /\ obf' = "none"
    /\ stack' = [stack EXCEPT ![sched_term_id] = Front(@)]
    /\ UNCHANGED <<sched_term_id, chipVars, driverVars>>

iret ==
    /\ ~entered
    /\ stack[sched_term_id] # <<>>
    /\ stack' = [stack EXCEPT ![sched_term_id] = Front(@)]
    /\ UNCHANGED <<picVars, sched_term_id, entered, obf, chipVars, driverVars>>

-----------------------------------------------------------------------------
(* The clock driver: system calls of the process that has the CPU *)

Runs(t) == Booted /\ sched_term_id = t /\ stack[t] = <<>>

\* Faulty: the flag of an earlier interrupt is kept.
ReadReset_Not == intr_occured

ReadReset == FALSE

\* rtc_read up to its loop
ReadBegin(t) ==
    /\ Runs(t)
    /\ pc[t] = "idle"
    /\ intr_occured' = ReadReset
    /\ pc' = [pc EXCEPT ![t] = "wait"]
    /\ since' = [since EXCEPT ![t] = FALSE]
    /\ UNCHANGED <<picVars, cpuVars, obf, chipVars, rtc_freq, new_freq>>

Occurred(t) == intr_occured

\* the loop sees the flag
ReadEnd(t) ==
    /\ Runs(t)
    /\ pc[t] = "wait"
    /\ Occurred(t)
    /\ pc' = [pc EXCEPT ![t] = "idle"]
    /\ since' = [since EXCEPT ![t] = FALSE]
    /\ UNCHANGED <<picVars, cpuVars, obf, chipVars, intr_occured, rtc_freq, new_freq>>

\* "a power of 2 and in range": f & (f - 1) is 0 for powers of 2 (and 0) only
Allowed(f) == f >= 2 /\ f <= MAX_FREQ /\ \E k \in 0 .. 30 : f = 2^k

\* rtc_write up to set_int_freq
WriteBegin(t, f) ==
    /\ Runs(t)
    /\ pc[t] = "idle"
    /\ Allowed(f)
    /\ rtc_freq' = f
    /\ new_freq' = [new_freq EXCEPT ![t] = f]
    /\ pc' = [pc EXCEPT ![t] = "write"]
    /\ UNCHANGED <<picVars, cpuVars, obf, chipVars, intr_occured, since>>

\* Faulty: interrupts stay on while the chip is programmed.
CliDuring_Not == TRUE

CliDuring == FALSE

\* set_int_freq up to its second selection of register A; rtc_open comes here at
\* once, for a rate of 2
SelectA(t) ==
    /\ Runs(t)
    /\ pc[t] \in {"idle", "write"}
    /\ index' = "A"
    /\ IF_flag' = CliDuring
    /\ new_freq' = [new_freq EXCEPT ![t] = IF pc[t] = "write" THEN @ ELSE 2]
    /\ pc' = [pc EXCEPT ![t] = "select"]
    /\ UNCHANGED <<masked, irr, isr, boot, cpuVars, obf, pie, pf, divider, intr_occured,
                   rtc_freq, since>>

\* the write to the register that is selected, and sti
WriteA(t) ==
    /\ Runs(t)
    /\ pc[t] = "select"
    /\ divider' = IF index = "A" THEN Divider(new_freq[t]) ELSE divider
    /\ index' = "D"
    /\ IF_flag' = TRUE
    /\ new_freq' = [new_freq EXCEPT ![t] = 0]
    /\ pc' = [pc EXCEPT ![t] = "idle"]
    /\ UNCHANGED <<masked, irr, isr, boot, cpuVars, obf, pie, pf, intr_occured, rtc_freq, since>>

Next ==
    \/ BootStep \/ BootEnd
    \/ PitTick \/ PS2Byte(KEYBOARD) \/ PS2Byte(MOUSE) \/ RtcTick
    \/ \E l \in Lines : Accept(l)
    \/ pit_interrupt \/ keyboard_interrupt \/ rtc_interrupt \/ mouse_interrupt \/ iret
    \/ \E t \in Terms : ReadBegin(t) \/ ReadEnd(t) \/ SelectA(t) \/ WriteA(t)
    \/ \E t \in Terms, f \in Rates : WriteBegin(t, f)

\* The clock is served again and again (its interrupts are kept until they are,
\* EdgesKept, and come more slowly than the CPU works), every terminal gets the
\* CPU again and again, and a process that polls sees the flag in the end.
Fairness ==
    /\ []<><<rtc_interrupt>>_vars
    /\ \A t \in Terms : []<>Runs(t) /\ SF_vars(ReadEnd(t))

Spec == Init /\ [][Next]_vars /\ Fairness

-----------------------------------------------------------------------------
(* Properties *)

\* The variables the proofs are about keep their types.
TypeOK ==
    /\ irr \subseteq Lines
    /\ IF_flag \in BOOLEAN /\ entered \in BOOLEAN
    /\ boot \in 0 .. Len(BootLines) + 1
    /\ sched_term_id \in Terms
    /\ stack \in [Terms -> Seq(Lines)]
    /\ obf \in {"none", "key", "mouse"}
    /\ pie \in BOOLEAN /\ pf \in BOOLEAN /\ intr_occured \in BOOLEAN
    /\ index \in {"A", "D"}
    /\ pc \in [Terms -> {"idle", "wait", "write", "select"}]
    /\ since \in [Terms -> BOOLEAN]

\* Whenever the CPU takes interrupts, no line is still in service on either
\* controller: send_eoi comes before sti in every handler, so that neither a
\* handler that is interrupted nor the timer's, which leaves for another
\* terminal for a whole round, keeps a line from being served.
LinesFree == IF_flag => isr = {}

\* No device falls silent: one that waits to be served, the PS/2 controller with
\* a byte or the clock with register C unread, which neither would interrupt
\* for again, has its request with the controllers or its handler at work;
\* also when it was ready before the boot unmasked its line.
EdgesKept ==
    /\ obf # "none" => \E l \in {KEYBOARD, MOUSE} : l \in irr \/ Handling(l)
    /\ pf /\ pie => RTC \in irr \/ Handling(RTC)

\* rtc_read "skips an interrupt cycle": it never returns on an interrupt from
\* before the call, whatever the other processes do with the shared flag.
ReadWaits ==
    [][\A t \in Terms : pc[t] = "wait" /\ pc'[t] = "idle" => since[t]]_vars

\* A write or an open that completes has programmed the rate it asked for, although
\* the clock's handler uses the same index port, and another write or Ctrl+4
\* may have come before set_int_freq.
RateAsAsked ==
    [][\A t \in Terms : pc[t] = "select" /\ pc'[t] = "idle"
          => Frequency(divider') = new_freq[t]]_vars

\* Readers that reset each other's flag cannot all be stuck: while somebody is
\* waiting, somebody's rtc_read returns again and again.
ReadersProgress ==
    <>[](\E t \in Terms : pc[t] = "wait")
        => []<><<\E t \in Terms : pc[t] = "wait" /\ pc'[t] = "idle">>_vars

\* Once an interrupt has come, the process that waits for it is free to go:
\* "0 after a cycle has been skipped" (rtc.c 81).
NoLostWakeup == \A t \in Terms : since[t] => intr_occured

\* Ctrl+4 doubles the frequency of the clock, and goes back to 2 at the top:
\* "Double the frequency" (keyboard.c 203), asked of a moment when no rtc_write
\* is half done.
DoublesRate ==
    [][keyboard_interrupt /\ rtc_freq' # rtc_freq
          /\ (\A t \in Terms : pc[t] \notin {"write", "select"})
          => Frequency(divider') \in {2 * Frequency(divider), 2}]_vars
=============================================================================
