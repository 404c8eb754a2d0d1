# LacOSIntolerant in TLA+

A model of the kernel in `src/student-distrib/`, a single-CPU x86 teaching
system with three terminals, six processes, a read-only file system, a command
history and a real-time clock, and of the user programs in `src/syscalls/` and
`src/fish/` that have something to get wrong. The modules are checked by TLC on small
instances; some results are proved by TLAPS for every size.

## 1. The system

Interrupts enter through interrupt gates, so their handlers are atomic unless
they call `sti()`. System calls enter through a trap gate: they are preempted by
the timer except between `cli()` and `sti()`. Exceptions are handled with
interrupts off and end in `sys_halt`.

| part | state | operations | what makes it hard |
|---|---|---|---|
| process table (`pcb.c`) | bitmap, PCBs with parent, terminal, stack, descriptors | take, free, count slots | a slot number is also a page and a kernel stack, reused while a halt is in progress |
| execute, halt (`syscalls.c`) | `cur_pcb`, `cur_task`, two global flags, TSS, mapped page | six outcomes of execute, seven steps of halt | halt is preemptible; visible and scheduled terminal differ; flags outlive their cause |
| scheduler (`timer.c`) | `sched_term_id`, saved contexts | tick | starts a shell in interrupt context; a full table |
| terminals (`multi_term.c`) | `vis_term_id`, `vid_mem` | switch | pages of hidden terminals, vidmap |
| boot (`kernel.c`) | | first `sys_execute` | race with the first tick |
| file data (`file_system.c`) | inode table | `read_data` | block boundaries, bad blocks |
| descriptors (`pcb.c`, `syscalls.c`) | descriptor table of a process | open, close, read, write | two notions of "free"; positions over reuse |
| lines (`keyboard.c`, `terminal.c`) | key buffer, history, indices per terminal | keys, history keys, `terminal_read` | nested interrupts, type-ahead, array ends |
| interrupts (`i8259.c`, the handlers) | masks, request and in-service registers, interrupt flag, stacks | boot, devices, acceptance, handlers | handlers nest after `sti()`; the timer's leaves for another stack; edges that come once |
| clock (`rtc.c`) | shared flag, rate, chip | interrupt, open, read, write, Ctrl+4 | one flag and one rate for all processes; one index port for driver and handler |
| modifier keys (`keyboard.c`, `key_maps.c`) | five flags | keys down and up | any order, two shift keys, releases that are not looked at |
| screen (`lib.c`), mouse (`mouse.c`) | a page of text and a position per terminal, the VGA cursor, the pointer | characters, erasing, scrolling, clearing, switching, mouse packets | lines over several rows, hidden output, a pointer drawn into the text |
| paging (`paging.c`) | page directory, page tables, TLB | map, remap, flush | what is not flushed, cleared or closed to user code |
| system call entry (`idt_handle_wrap.S`), vidmap | | range checks | both ends of two ranges |
| command line (`ece391shell.c`, `syscalls.c`, `ece391emulate.c`) | line, command, argument | prompt, execute, getargs | spaces, full buffers, two implementations of one promise |
| cat, ls, grep, syserr (`src/syscalls/`) | their buffers | main | grep cuts lines at buffer ends |
| fish (`src/fish/`) | two files, a list in a fixed array, the screen | frames, list calls, tasklet | reading in step, list surgery in assembly, signed counters |
| routines (`lib.c`, `ece391support.c`) | memory, numbers | copies, conversions | alignment, overlap, the most negative number |

The parts meet in the terminals: the scheduler resumes `cur_task` of the next
terminal, execute and halt change it, and the keyboard writes the buffers of the
visible terminal while a program reads those of the scheduled one.

## 2. The modules

| module | models |
|---|---|
| `Processes` | process table, execute, halt, exceptions, tick, terminal switch, boot |
| `TerminalJobs` | what the process manager promises: a stack of jobs per terminal, taking turns |
| `ProcessesRefine` | the refinement mapping: the jobs of a terminal are the chain of parents of its `cur_task` |
| `ProcessesProofs` | theorems about `Processes` that hold under every hazard |
| `ProcessesIsolation` | theorems about `Processes` that need some hazards excluded |
| `ProcessesRefineProofs` | theorem: `Processes` implements `TerminalJobs`, the safety part |
| `ReadData` | the loop of `read_data`, one step per block |
| `ReadDataProofs` | theorems about `ReadData` |
| `Files` | the descriptor table of a process and the calls on it, vidmap, the range of call numbers |
| `Syserr` | the program `ece391syserr` and an arbitrary program, on top of `Files` |
| `FilesProofs` | theorems about `Files` under `Syserr` |
| `LineInput` | line editing, history and `terminal_read` |
| `LineInputProofs` | theorems about `LineInput` |
| `Keys` | modifier flags and key maps |
| `Interrupts` | controllers, devices, handlers and their nesting, the clock driver |
| `InterruptsProofs` | theorems about `Interrupts` |
| `Screen` | text output, echo, cursor, the terminals' pages, the mouse pointer |
| `Paging` | `map_page`, its callers and the TLB |
| `PagingProofs` | theorems about `Paging` |
| `UserProgram` | the state of one process, common to the next four and `Keys` |
| `CommandLine` | shell, `sys_execute`'s parsing, `sys_getargs`, and the emulation library's versions |
| `Utilities` | cat, ls, grep |
| `Fish` | the fish program on top of the list |
| `Library` | memory and number routines |
| `Blink` | the list of blinking characters and its allocator |
| `Blinkers` | what the list promises: a row of blinking characters |
| `MC*` | values and bounds for TLC |

**Processes.** Each variable is a C variable or field of the same name, except:
`prog_page`, `vidmap` and `esp0` are what is mapped at `PROGRAM_VIRT` and
`VIDMAP_VIRT_ADDR` and what is in the TSS; `frame[p]` is the stack on which the
`sys_execute` frame of `p` was stored; `ctx` is what the CPU is executing,
`saved[t]` the context a terminal was switched away from. A slot number names the
PCB, the 4MB page and the kernel stack that the kernel computes from it.
`sys_execute` runs between `cli()` and the `iret` and is one step per outcome
(`ExecuteRefused`, `ExecuteNotElf`, `ExecuteChild`, `ExecuteAsShell`; `StartShell`
when the kernel itself calls it). `sys_halt` is `HaltMap`, `HaltLoad`, `HaltStore`,
`HaltClose`, `HaltTask`, `HaltCur`, and `HaltToParent` or `HaltRestart`; the load
and the store of the bitmap are separate because the compiler may separate them.
`Die` is a NULL pointer reaching a field access while there is no `cur_pcb`; the
kernel then faults in its own fault handler for ever. With a `cur_pcb` the handler
halts the caller: an execute for a visible terminal that has no task yet (only under
`"background_exec"`) takes a slot and faults, which is `ExecuteNotElf` followed by
an exception.

**Hazards.** The constant `Hazards` of `Processes` and `Screen` names the situations
in which the code is fragile. With the empty set the environment avoids them, and the full contract is checked. `halt_page` admits one of them and
shows what goes wrong; the others are in the table of further disagreements. The
invariants of `Processes` that hold regardless are proved with all of them, and
checked with all but ticks inside a halt; each of the others is proved with all
but the hazards that break it (section 4). The assumptions of the runs with the
empty set are: a tick is pending at the first `sti()`; programs are executed only
from the visible terminal and after a tick has cleared `starting_new_shell`; no
tick lands inside `sys_halt`; shells without a parent do not fault; the visible
text rests once the mouse pointer is on it. `LineInput` excludes nothing: it
records which terminals something unforeseen has happened to.

**ReadData.** A byte of the disk is a pair of block and place. A call enters with
any inode, offset and length; `CopyBlock` is one turn of the loop.

**Files.** What `read_data` delivers is abstracted to a count, justified by
`ReadData`. `held` and `got` record what the program was given and has read. A file
whose name begins with `stdin` or `stdout` opens as the terminal (`JumpTable`), and
its descriptor, whose table has no close, stays in use. A `sys_vidmap` whose store
reaches over the upper end of the page faults and ends the process; there is no
step for it.

**LineInput.** Buffers are cell by cell, because the properties are about their
ends. Rows -1 and `HIST_COM_NUM`+1 of the history are what the layout of `term_t`
puts there; `UnderOffset` and `OverOffset` say where in a key buffer they begin
(11 and 95 in the build; smaller in the runs, as the buffers are, but such that
text does reach there). A history key is one step, or three kinds of step when
interrupts come in (`HistBegin`, `HistErase`, `HistEnd`). `terminal_read` copies as
many bytes as it is asked for and returns the length of the line; both are in
`reply`. `line` and `entered` are the user's view: the line being edited, and the
line ended with Enter. Four events the code does not foresee: a key for a terminal
whose finished line is not read yet, a history key that finds text beside the rows
of the history, an interrupt inside a history key's handler, and a read on a
terminal that is not visible. `disturbed` is the set of terminals one of them has
concerned (the read concerns its own and the visible terminal). All of them are
steps of the specification; the properties about lines and histories speak of the
terminals outside the set, whatever goes on in it.

**Syserr.** Each test is a row of calls; a verdict follows the last. `u.prog`
chooses between this program and one that makes any call, so that the properties
of `Files` are about both.

**Interrupts.** The controllers and devices are modelled as the code uses them:
fully nested priorities, edges kept in `irr`, a PS/2 controller that holds one
byte, a clock whose line rises once until register C is read. A handler is
entered with interrupts off (`Accept`), does its work up to its `sti()` in one
step, and ends with `iret`; between the two others may come on top. The timer's
work ends on the stack of the next terminal. `set_int_freq` is two steps,
`SelectA` and `WriteA`, which its `cli()` protects from the clock's handler, the
other user of the index port. A refused write or a close changes nothing here (the
descriptor is in `Files`). `keyboard_interrupt` does here only what concerns the
controllers and the clock; the rest of it is `LineInput`, `Keys` and `Screen`. The
status bit on which it reads the scan code is set only while a byte written to the
controller has not been taken, and only `mouse_init` writes any, before the first
`sti()`, so the scan code is always read.

**CommandLine.** Lines are sequences of characters, as the properties are about
spaces and lengths. **Utilities.** `data` is the stack buffer of `do_one_file`
cell by cell; `junk` is what its frame held before. Names are sequences, since
those that begin with a dot are skipped, and a text may have NUL bytes, at which
what is printed of a line ends. **Fish** sees the list as
`Blinkers` describes it; the rhythm is left to `Blink`. The byte `Bad` of a frame
stands for a block that cannot be read: the read fails, `c0` or `c1` keeps its
character, and the read is tried again for ever (up to `MAX_COL` columns in the
model). **Library.** Each routine
is an operator with the loop structure of the code, applied in one step to every
input. **Keys.** One key stands for all of a kind: the tables have letters,
symbols with a second one above, characters that never change, and the minus of
the keypad, which no other key resembles.

**Blink.** `blink_array` holds the structures with their `next` field; `List` is
what loops over `next` meet. Locations are not 0, which the allocator takes for
free; `fish` asks for 40 or more.

**Screen.** One step per handler; `putc` is an operator on a terminal's position
and page, and the handlers fold it. `own` is what a terminal's page would hold
with a monitor of its own and no mouse; `start` is the column where the line being
edited was begun, or that something else was printed into it. The lines a history key recalls are any lines
(`LineInput` says which). The hazard `"pointer"` lets text change under the
pointer.

**Paging.** The five areas of memory the kernel uses lie under five directory
entries. Page tables start with unknown contents. `Lookup` is the CPU filling its
TLB at any moment; `page` and `screen` are what the kernel asked for last, and
which page that should be is the concern of `Processes`.

## 3. The runs

Passing:

| run | instance | shows |
|---|---|---|
| `processes` | 4 slots, 3 terminals, 3 descriptors | stack, page, descriptors and terminal of every process are its own; statuses are truthful; `Processes` implements `TerminalJobs`, its fairness included; every terminal runs for ever; every halt completes |
| `processes_faults` | 3 slots, 2 terminals, all hazards but ticks inside a halt | terminals may be mixed up, but no two processes share a PCB; table bound, screen owner |
| `read_data` | blocks of 3 bytes, files up to 7, one bad block number | the copy is exact, inside its bounds and ends |
| `files` | 4 descriptors, seven directory entries | descriptors and positions under any calls; `ece391syserr` passes |
| `line_input` | 2 terminals, 4-byte buffers, 2 history rows, no interrupts inside history keys | a history is damaged only by what happens to its own terminal; the place in it leaves it only beside long lines |
| `line_hazards` | 2 terminals, 3-byte buffers, 1 history row, interrupts inside history keys | strings stay terminated inside their buffers; undisturbed terminals hold the edited line and deliver the entered one |
| `screen` | 2 terminals, screens of 2 rows and 2 columns, lines of 2 | the edited line is on the screen as typed; terminals and pointer leave no trace on each other; the cursor follows |
| `paging` | 2 processes, 2 terminals | user code reaches its page and the vidmap page and nothing else; the kernel stays mapped |
| `interrupts` | 2 terminals, four devices, two handlers on a stack | no line stays in service, no device falls silent; waits, rates, and no set of readers that is stuck for ever |
| `blink` | 3 structures, lengths at the signed edge | the list implements `Blinkers`; every change of phase is shown |
| `programs` | lines of 5 characters, files of 6 with buffers of 3, frames of 3 and frames with a bad block, memory of 11 bytes, 8-bit words | arguments arrive, the emulation agrees, outputs are exact, programs end, routines are exact, keys mean what is held with them |

Each violation run checks what a comment or document says and finds a
counterexample; `PROJECT.json` quotes the line under "findings".

| run | counterexample |
|---|---|
| `halt_page` | a tick inside `sys_halt`: the parent resumes on the child's page |

The same modules show further disagreements between the code and its comments.
Each is a definition in the module; to see the counterexample, check it alone
with the constants of the run named here and, for `Processes`, exactly the hazards
named here (for the others, those of the run and the one named).

| definition | constants of, with | counterexample |
|---|---|---|
| `TaskOfTerminal` | `halt_page`, `"background_exec"` | execute from a hidden terminal is booked on the visible one |
| `NeverDies` | `halt_page`, `"boot_race"` | the first execute stores through a NULL parent when no tick came first |
| `FamilyTree` | `halt_page`, `"early_exec"` | execute with `starting_new_shell` still set: a second root on the terminal |
| `OwnPcb` | `halt_page`, `"preempt_halt"` | a tick inside `sys_halt`: slot shared with a new shell |
| `StatusTruthful` | `halt_page`, `"shell_fault"` | after a shell's fault a normal halt is reported as an exception |
| `NoSlotLeak` | `halt_page`, none | executing a file that is no program costs a slot (`bug_log.txt` 39) |
| `RefusalReported` | `halt_page`, none | a full table returns 0, the value of success |
| `VidmapOwn` | `halt_page`, none | the running task draws in the wrong page after a terminal switch |
| `ZeroOnSuccess` | `read_data` | a count where the header promises 0 |
| `ReadFits` | `files` | a directory read returns more bytes than asked |
| `NeverWiped` | `line_hazards` | Enter, Ctrl+L, and then the read: the line is empty, and `add_to_history` passes a length of -1 |
| `ReadClearsOwn` | `line_input` | a read on a hidden terminal leaves its line in its buffer |
| `RecordsNew` | `line_input` | a command that is a prefix of the one before is dropped |
| `FullLineKept` | `line_input` | the last character of a full line is lost |
| `HistoryPlace` | `line_input` | UP on a long line takes the index below 0 |
| `AltHeld` | `programs` | Alt is never seen to be released: F1 to F3 go on switching terminals |
| `NoLostWakeup` | `interrupts` | a reader loses its interrupt to another reader |
| `DoublesRate` | `interrupts` | Ctrl+4 starts from a stale rate |
| `OwnScreen` | `screen`, `"pointer"` | the text scrolls under the pointer, and the saved character is put back where it no longer belongs |

Some deviations are part of the models and left open by the properties: a command
word longer than 32 characters is cut and its rest becomes the argument;
`sys_getargs` fails without an argument where the emulation library returns an
empty one; `sys_vidmap` accepts the upper end of the page, and faults there;
a file named after a standard descriptor opens as the terminal and cannot be closed; `terminal_read`
returns the length of the line even if fewer bytes were asked for and copied; fish
never ends on a frame with a bad block; grep prints a line only up to a NUL, and may
find in it what lies behind; caps lock turns the
keypad's minus into `_`; a sync in `blink.S` shows the off character in either
phase, because `cmovl` tests the sign; a length of 0 or above 32768 lasts one tick;
grep splits lines longer than its buffer, and reads the byte after it before it is
written.

**Bounds.** Two terminals are enough for every interaction between the visible,
the scheduled and a hidden terminal; three are used where fairness is at stake.
In `processes` four slots hold a shell on each of the three terminals and one
program, so the table fills and a further program is refused. A chain of three
needs one more slot or one terminal fewer; the same properties were checked on
both by changing the constants of `processes.cfg`: 4 slots, 2 terminals and 3
descriptors (325,976 states), and 5 slots, 3 terminals and 2 descriptors
(778,095 states, eight minutes, which is why it is not the standing run). In
`processes_faults` three slots fill at once. A buffer of three or four cells has
a first, a last and an inner cell; reads ask for less than a line and for more than
a buffer; files of up to seven bytes in blocks of three have a first, a whole middle
and a partial last block. Histories of two rows have a previous and a full state.
On a screen of two rows and columns a line of two wraps, scrolls while it is typed,
and is erased back over the start of a row. Two processes are enough for a TLB
entry to be stale. Two handlers on each of two stacks nest and are left half done
by the timer. A grep buffer of three with files of six has lines that are cut, that
end with the buffer, that fill it, and that are moved down. A command buffer of
two has words below, at and above its size. Addresses up to 10 have every alignment
of source and destination with bytes before, words between and bytes after.

**Deadlock** is checked in the passing runs except in `processes_faults`, where the
kernel may really be dead, in `line_input` and `line_hazards`, where memory may be
overrun and a bound (`InArray`) may end a behaviour, and in `files` and `programs`,
where programs end. `line_input` and `line_hazards` use a VIEW without `reply`,
which no guard reads and which the action properties see on every step, and without
the lines of disturbed terminals, which neither a guard nor a property reads.
`line_input` has two constraints: no interrupted history keys (`line_hazards` has
them), and at least one terminal that is not disturbed, as nothing is asked of the
others. In `line_hazards` history keys are interrupted as long as one terminal is not
disturbed; that strings stay terminated after that too is proved. `screen` uses a VIEW without the
backing page of the visible terminal, which is overwritten before it is read;
`blink` one without the last answer, which no step reads.

**Fairness.** The PIT free-runs and the PIC holds a tick until interrupts are on,
so the tick is strongly fair. A halt in progress proceeds whenever its terminal
has the CPU, and a time slice is longer than its steps: strong fairness of
`sys_halt`. `read_data` is a loop the CPU executes: weak fairness. The clock's
handler runs again and again, every terminal gets the CPU outside handlers again
and again (`EveryTerminalRuns` is where that comes from), and a process that polls
sees the flag in the end: strong fairness of `ReadEnd`, and no more of the
controllers than that. User programs other than the shell make progress whenever
they run: weak fairness. Nothing is assumed of
users.

## 4. The proofs

`ProcessesProofs` assumes only `ProcessesAssumption`: at least two terminals, at
least as many slots as terminals and fewer than 32, at least two descriptors.
Every hazard is admitted.

* `TypeCorrect`, `PcbTableBounded`: `Spec => []TypeOK` and `Spec => []PcbBound`.
  Neither is inductive. The bitmap a preempted halt has loaded is stored back
  later, so `TmpBound` says that every loaded bitmap, on the CPU or saved, lies
  within the table. A return to a parent uses the frame stored in its PCB, so
  `FrameStored` says that whoever is a parent has one. `IInv` is the conjunction.
  That a slot below `MAX_PROCESSES` is free whenever the count is not
  `MAX_PROCESSES` is a lemma on cardinalities.
* `OneScreenOwner`: `Spec => []ScreenOwner`, from the type invariant; only
  `switch_terminal` touches `vid_mem` or `vis_term_id`.
* `BootNeverResumed`: `Spec => BootAbandoned`, from `BootInv`: the boot context is
  on the CPU only while no terminal has a task, and is otherwise saved only for a
  terminal that has none, which will be given a shell instead.

`ProcessesIsolation` has the same assumption on the sizes. What a theorem excludes
is what breaks it, as the tables of section 3 show; all other hazards are admitted.

* `PcbOwned`: `Spec => []OwnPcb`, without ticks inside a halt. `HaltAlone` says that
  only the context on the CPU is inside `sys_halt`, that the bitmap it has loaded is
  still the bitmap, and that every other live process has its bit.
* `StatusesTruthful`: `Spec => []StatusTruthful`, without faulting shells: nobody else
  leaves `except_raised` set.
* `ProcessesIsolated`, `StacksResumed`, `FamiliesIntact`, `ParentsPageMapped`:
  `RunsAsItself`, `ResumesOwnStack`, `FamilyTree` and `RemapsParent`, under `Calm`:
  nothing is executed from a hidden terminal or with `starting_new_shell` still set,
  and no tick lands inside a halt. The invariant is `Settled`: `IInv`, `HaltAlone`
  and `Isolated`. `Isolated` relates the registers and globals to the task of the
  scheduled terminal and the saved contexts to the tasks of the others
  (`Registers`), says that the processes of a terminal form one chain (`Tree`;
  within a halt the chain still ends in the process that halts, whatever `HaltTask`
  has done to `cur_task`), and describes the time after boot in which the terminals
  get their shells one by one (`Filling`). Without `Filling` the tick could not be
  known to find a slot for a terminal that has no task.
* `KernelLives`: `Spec => []NeverDies`, if besides a tick is pending at the first
  `sti()`.

`ProcessesRefineProofs` shows the safety part of the refinement under `Calm`:

* `JobsImplemented`: `Spec => Abstract!Safety`, the initial condition and every step of
  `TerminalJobs`. The mapping follows parents at most `MAX_PROCESSES` times, so what
  must be shown is that this reaches the root: `Stacked` says that the row of each
  terminal is without repetition, linked by `parent_task` and made of exactly the
  live processes of the terminal. That a row without repetition is no longer than
  the table is wide is `StackHeight`, and that the recursion returns the row is
  `StackWalk`. There is one lemma per kind of step (`ChildImplements`,
  `EndImplements`, `TickImplements` and so on), from what it does to a row
  (`ChainsGrow`, `ChainsShrink`, `ChainsStart`, `ChainsKept`).
  `Stacked` was checked by TLC with shells that fault and the race at boot
  before it was proved (4 slots, 3 terminals, 367,692 states). The fairness of
  `Turn`, the rest of `ImplementsJobs`, is checked by `processes`.

`PagingProofs` assumes that there is a process and a terminal.

* `UserSeesItsOwn`, `KernelAlwaysMapped`: `Spec => []UserSees` and
  `Spec => []KernelStays`. `IInv` gives the whole directory and both tables
  (`Layout`), and says that what the TLB has cached is what the tables say, except
  for the program page inside `sys_halt`, which maps the parent's page first and
  flushes afterwards (`Remembered`). What the loop of `paging_init` leaves in the
  video table is shown by induction on its rounds.

`ReadDataProofs` assumes a positive block size and inodes that list a number for
each block of their file, which may be a bad one.

* `FileCopied`, `CopyInside`: `Spec => []CopiesFile` and `Spec => []StaysInside`.
  `Copying` relates the loop's variables: block number and place in it are those of
  the next byte, and every block but the first is copied from its start. The
  arithmetic of blocks is in lemmas on division.

`LineInputProofs` assumes buffers of at least three cells and a history of at least
one row; the alphabet, the sizes asked for and the places where rows -1 and
`HIST_COM_NUM`+1 fall are arbitrary. No timing is excluded: the theorems are about
`Spec`, without conditions.

* `BuffersTerminated`: `Spec => []Terminated`. `TInv` adds that rows of
  the history fit a buffer and that an interrupted history key remembers a size that
  fits one.
* `LinesEdited`, `LinesDelivered`, `HistoryKept`: `Spec => []EditFaithful`,
  `Spec => DeliversLine` and `Spec => []HistorySound`. The three need each other: a
  recalled row becomes the edited line, an edited line the entered one, and that a
  row of the history. `Fine(t)` therefore has them all for terminal `t`, and that a
  finished line stays in its buffer until it is read; `SInv` says that every
  terminal that is not disturbed is `Fine`, and that memory is not overrun before
  one is disturbed. A step changes at most the visible terminal, the one an
  interrupted history key belongs to and the one that is read; what it does to each
  is a lemma (`CharSound`, `EnterSound`, `RecordSound` and so on), and that the rest
  is left alone is `OneTerminal`, `RecallOthers` and `RecordOthers`. It is the
  latter that make the theorems more than statements about one terminal: an event
  on one never needs a condition on another.
* `PlaceKeptOrLong`: `Spec => StraysOverLongLines`. The rows beside the history are
  parts of key buffers, which by `SInv` hold what the user typed, so that a text
  shows there only if the line is longer than the offset (`TextBeyond`). The build
  has offsets 11 and 95: with up to 11 characters in the buffer UP is safe, and with
  up to 95 in that of the next terminal DOWN.

`FilesProofs` assumes `FilesAssumption`: at least two descriptors, a directory that
is not empty, entries as `IsDentry` says. Table, directory, names and counts are
arbitrary, and so is the program.

* `HandlesAlwaysAgree`, `EveryReadInOrder`: `SyserrSpec => []HandlesAgree` and
  `SyserrSpec => []DeliversInOrder`. `IInv` adds the types and `StdKept`, that
  descriptors 0 and 1 keep their tables, without which a close could free them.
  Each call has a lemma; that positions read one after the other make one row is a
  lemma about sequences.
* `StrangersRefused`: `SyserrSpec => [][StrangersFail]_vars`, half of
  `CallsAnswered`. The other half, `OpenFresh`, is not proved for every directory.

`InterruptsProofs` assumes `InterruptsAssumption`; the terminals, the rates, the
devices and the depth of nesting are arbitrary.

* `NoLineBlocked`: `Spec => []LinesFree`, from `InService`: the lines in service are
  those of the one handler that has not done its work, and none otherwise.
* `NoDeviceSilent`: `Spec => []EdgesKept`, which needs `BootQuiet`: before the boot is
  over no handler runs.
* `ReadsWait`: `Spec => ReadWaits`, from `FlagFresh`: a flag that is set is newer than
  every read that waits.
* `ProgramsOwnRate`: `Spec => OwnDivider`, from `Programming`: while a process is
  between `SelectA` and `WriteA` it has the CPU, interrupts are off and register A
  is selected. That the divider makes the rate asked for is arithmetic on a
  recursive function and stays with TLC (`RateAsAsked`).

The library's induction theorems take a predicate as a parameter, which the provers
cannot instantiate. Where induction on a number is needed (the recursive functions
of `ProcessesRefine` and `Paging`, `strlen` in `LineInput`) it is made
from the well-foundedness of `<`: the set of numbers for which the claim fails would
have a least element (`Least`).

Only model-checked: liveness and fairness (with the fairness part of
`ImplementsJobs`); that `Blink` implements `Blinkers`; `OpenFresh` and `RateAsAsked`,
see above; `ece391syserr`'s verdicts; and everything about `Screen`, `Keys` and the
user programs. `Library` and `CommandLine` use RECURSIVE operators, which
the prover does not support.
The converse holds for ticks inside a halt: no passing run admits them, and what
survives them (table bound, screen owner, boot context, types, statuses) is proved
only. `TypeOK` of `ReadData`, `Paging` and `LineInput` is proved as a part of the
inductive invariants; that of `Screen` documents the types.

## 5. Plan

Next proofs: `OpenFresh` for every directory, so that `CallsAnswered` is proved as a
whole; the steps of `Blink` that change the list as steps of `Blinkers`; that the
terminals' pages do not mix in `Screen`.

Next models: `our_popcount` bit by bit, the register frames of the wrappers.

## 6. Not modelled

The wording of messages, colours, set-up code that runs once before interrupts
are on (descriptor tables, multiboot, the programming of the PIT and the PS/2
controller), the test routines in `file_system.c`, and routines nobody calls
(`disable_irq`, `memset_dword`, `strcpy`). The programs hello, counter, pingpong,
testprint and sigtest are rows and loops of calls that print; nothing about them
depends on an order or a boundary. The rest of `ece391emulate.c` passes calls to
the host system. `createfs` and `elfconvert` are binaries.
