# MPX: TLA+ models, model checking and proofs

MPX is a small cooperative operating system for one x86 processor with one
serial port (COM1). This directory holds TLA+ models of its heap manager, its
virtual memory, its process queues and dispatcher, its context switch, its
serial driver, its commands and its C library, the TLC configurations that
check them, and machine-checked proofs about seven of them.
`PROJECT.json` lists components, runs, findings, hazards and theorems in a form
that tools can read, and maps every definition to the lines it models.

## 1. Inventory

| Component | State | Operations | Interaction | What makes it correct | Hard part |
|---|---|---|---|---|---|
| Heap manager (`lib/mem.c`) | headers laid out in one arena, flags in the low bits of the size | `initialize_heap`, `allocate_memory`, `free_memory` | called by everything through `sys_alloc_mem`/`sys_free_mem` | blocks tile the arena, free neighbours are joined, nothing is given twice or lost | long call sequences; boundaries of split and round-up |
| Virtual memory (`kernel/core-c.c`) | frame bitmap, page tables, two allocation addresses | `vm_init`, `get_page`, `new_frame`, `kmalloc` | gives the heap its arena; unmaps page 0, so a NULL access panics | no frame twice, used memory mapped to itself | the mapping needs tables, which need mapping |
| PCB queues (`kernel/pcb.c`) | three lists sharing one `next_pcb` per PCB | `pcb_insert`, `pcb_remove`, `pcb_find`, `pcb_setup`, `pcb_free` | system calls, commands and the interrupt handler call them | lists stay lists, sorted; no process lost | one link, several queues; no lock against the interrupt |
| System calls (`kernel/sys_call.c`, `user/core.c`) | `global_pcb`, `initial_context` | IDLE, READ, WRITE, EXIT | queues, driver | dispatch order, no starvation | pointers read before the queues change |
| ISR stubs (`*_isr.s`, `sys_call.h`) | saved contexts | save, switch, restore | every process | a process finds its registers and stack as it left them | four lists of registers in three files; an interrupt stub that saves none |
| Serial driver (`kernel/serial.c`) | device control block, iocb queue, UART interrupt enable | `serial_open`, `io_scheduler`, `serial_read`, `serial_write`, interrupt handlers, `serial_poll` | unblocks processes | interrupts enabled exactly when needed, operations end, the right bytes go out, lines are strings | interleaving of requests and interrupts; the ends of the line buffer |
| Process commands (`user/commhand.c`) | none of their own | loadR3, alarm, deletePCB, suspendPCB, resumePCB, setPCBpriority, showPCB, showall, showready, shutdown | change queues with interrupts enabled | what `help` says | races with the interrupt handler |
| Clock commands (`user/commhand.c`) | registers of the real-time clock | setdate, getdate, settime, gettime, alarm | `serial_poll`, `strtok`, `atoi`, heap | what is set is what is shown; interrupts come back | the clock ticks in between; error exits |
| C library (`lib/*.c`) | `strtok` position | string and number functions | - | agrees with the standard | boundaries |
| Boot (`kernel/kmain.c`) | - | creates the two system processes | - | - | - |

Hazards, each at its line, are listed in `PROJECT.json`.

## 2. Modules

| Module | Models | Instance, proofs |
|---|---|---|
| `Allocator` | what a heap promises: regions in use do not overlap and do not move | |
| `Heap` | `lib/mem.c` | `MCHeap`, `HeapProofs` |
| `Vm` | virtual memory of `kernel/core-c.c` | `MCVm`, `VmProofs` |
| `Pcb` | the queue operations on a store of PCBs, pointer by pointer | `PcbProofs` |
| `Scheduler` | what dispatching promises, on a sequence | |
| `Kernel` | system calls, commands and interrupts over `Pcb`, with `Serial` instanced as the driver | `MCKernel`, `KernelProofs` |
| `InsertRace` | `pcb_insert` and `pcb_remove` one pointer access at a time, interrupted by `unblock_pcb` or by a spoilt register | `MCInsertRace`, `InsertRaceProofs` |
| `Context` | registers and stacks through `sys_req` with its `va_arg` code, the stubs and `sys_call` | `MCContext`, `ContextProofs` |
| `Serial` | the driver under any clients | `MCSerial`, `SerialProofs` |
| `LineEditor` | what a line editor promises | |
| `SerialPoll` | one call of `serial_poll`, byte by byte | `MCSerialPoll`, `InputProofs` |
| `Tokenizer` | what `strtok` promises: the words of a line, one after the other | |
| `CLib`, `Strtok` | the C library; `strtok` one loop turn at a time | `MCStrtok`, `InputProofs` |
| `Clock` | the clock commands over the RTC registers, with `CLib` | `MCClock`, `InputProofs` |

**Heap.** `mcb` maps the address of every header on the list to its size and
its two flags. `allocate_memory` and `free_memory` are one action each, with an
action for the outcome "nothing fits" and one for "no such block", which
panics because the loop evaluates `mcb_next(NULL)` and page 0 is unmapped.
`asked` is history: what clients hold and how much they asked for.
`size_t` arithmetic wraps at the constant `SizeMod`.

**Vm.** Every turn of the loops of `vm_init` is a step. The table loop goes byte
by byte, as in the code; the other two go page by page. `kmalloc` before paging
hands out physical memory (inside `get_page`), afterwards the kernel heap.
`Aligned` keeps the code's alignment, which moves an aligned address on by a
page. Assumed: memory behind the kernel is zero (`get_page` does not clear a
table), 32-bit addresses do not wrap, the kernel heap's page numbers are
above the frame numbers (`KHEAP_PAGE >= NFRAMES`, 0xD000 against 0x4000).

**Pcb and Kernel.** A store `q` has the list heads and the fields of every PCB
that the queue code uses. A loop over a list that has become a circle sets
`hung`: in a system call this stops the machine, as interrupts are disabled.
A command that would spin is simply not taken, since an interrupt may still
change the list. System calls and interrupt handlers are atomic (interrupts
are disabled in both); commands are atomic from `pcb_find` to their last queue
operation (`InsertRace` looks inside), while every iteration of `load_r3` is a
step of its own. That the interrupt stub saves no registers is left out here, as
in all modules but `Context` and `InsertRace`: code that was interrupted goes on
as if its registers had survived. Those two modules say what that can break. `Create` is `pcb_setup` and `pcb_insert`, shared by `load_r3`
and `alarm`; a process made by `alarm` runs `alarm` again. Prompts and reports
of a command are WRITE calls of the process. What programs ask for is the
constant `Calls`. `EXIT` always panics in `pcb_free`; the rest of it is kept,
and a mutant that frees once shows that it matters.

**InsertRace.** Starts from any sorted ready queue. Every read or write of a
pointer that can be separated by an interrupt is an action; the handler, which
runs with interrupts disabled, is one. `AtomicAlone` ties the steps to the
operators of `Pcb` that `Kernel` uses. The unblocked process is one that is not
in the queue; what happens to one that is, is the subject of `Kernel`.
`serial_isr.s` saves no register, and without optimization every statement of
`pcb.c` loads its pointers into `eax`, `ecx` or `edx`. So there are two kinds of
interrupt. `unblock_pcb` comes between two statements, or while the register in
use is one that the handler happens to leave alone. `Spoil` comes while a
register in use is changed: the statement then writes any pointer, or writes
somewhere else, and `at` becomes "lost". What the command does after that is not
followed, and nothing is promised of it: TLC refutes `ListEnds` and `OldStay`
without their condition on `at`, with one insertion and one such interrupt.
Nor is anything claimed of the process that the handler inserts: it may get lost
(its predecessor's link is overwritten) or end up out of order.

**Context.** A stack is a sequence of words, `esp` its length. `Pushed`,
`Popped` and `context` are the three register lists of the sources, written
independently. Between a call of `sys_req` and its `int` the code is followed
instruction by instruction where registers matter: `va_start`, then for each of
the three arguments `va_arg` (the pointer into `eax`, the next one into a second
register) and `Fetch`, then the loads of the registers of `int`, in any order,
because the compiler chooses it. The serial interrupt may come before any of
them; `eax` and `edx` are 0x20 then and `ecx` is changed or not (the second
register of `va_arg` may be either of the two in the real code, so that in the
model it is `ecx`). `va` has `sys_req`'s locals. Histories: `va.torn`, the
arguments that an interrupt has taken; `hit`, the registers that an interrupt, or
a context that was not cleared, leaves open (load_r3 clears only the first
process's context: elsewhere `memset` gets the size of a pointer); `view`, what a
program left; `served`, what `io_scheduler` was asked for. Which ready process is
dispatched is left open; `Kernel` says which.

**Serial.** `port` is the device control block plus the UART's state: `tx`
is bit 1 of the interrupt enable register, `rx` a received byte that waits.
`wire` and `want` are history. The `status` and `initialized` tests never
fail and the ring buffer is never filled, so they are left out. The memory of
the control block is taken to be zero when it is allocated, first of all
blocks, since `serial_open` does not set `io_head`. A WRITE runs
`io_scheduler` twice, because the WRITE case of `sys_call` has no `break`.
`fault` stands for the panic when no iocb can be allocated.

**SerialPoll.** The array has one place more on either side, so that a write
outside it is visible. Any byte may be received, NUL too, which the code stores
like a letter; `nuls` is history: the NULs that were typed and not erased.
`size_t` wraps at `SizeMod`: a backspace on the empty
line takes `bytes_read` to the largest value, which the test at the foot of the
loop turns into BUFFER_OVERFLOW. The specification is called `PollSpec`, so that
one module can speak of `serial_poll` and of a command that it delivers lines to.

**CLib and Strtok.** Strings are sequences of codes that end in NUL. `int` has
the values from `-INT_MAX - 1` to `INT_MAX` and wraps. The functions that only
compute are operators, with the code's order of tests and one recursive function
for each loop; `strtok` keeps its static pointer as a variable. The specification
is called `StrtokSpec`, so that `InputProofs` can speak of the commands, the
driver's polling and the library together.

**Clock.** Each access to a register is a step, and the clock may tick between
any two. Lines come as `serial_poll` leaves them, up to the first NUL: for `strtok`
a NUL that was typed is just the end of a shorter line. Uninitialised characters
(the bytes of `seconds` that are not assigned, and the rest of `buf` in
`set_time`) are any element of `Junk`.
`stopped` is the panic after a NULL is followed or memory freed twice. The heap
is a number of blocks, since `get_time` never gives its string back.

## 3. Runs

| Run | Bounds | Shows |
|---|---|---|
| `heap` | arena of 28 bytes, `SizeMod` 64, requests 0, 1, 4, 7, 12, 40, every word address freed | tiling, coalescing, agreement with the clients, tight fit, and the refinement to `Allocator`; exact fits, splits with and without a useful remainder, empty blocks, merges on either side and both |
| `serial` | two buffers, lengths 0 to 2, 4 iocbs, keys | output interrupts enabled exactly during a write, no NULL `io_head`, index in range, own bytes once and in order, a started write ends |
| `poll` | array of 5 bytes, `SizeMod` 16, a letter and NUL, both backspaces, both enters, cleared and uncleared arrays | which byte outside the array is written and when, an entered line is terminated and has no NUL inside but those that were typed, refinement to `LineEditor` |
| `kernel_yield` | 7 PCBs, four of the processes of `load_r3` with their priorities, an alarm | nothing lost, unique names, refinement to `Scheduler` (so the queue stays sorted), no starvation |
| `kernel_full` | 3 PCBs, one loaded process (which may also be an alarm's name), 3 iocbs, all calls and commands, keys | no dangling PCB pointer; types, those of the driver's control block included |
| `insert_race` | a queue of up to 2, one process inserted or removed, 2 unblocked, priorities 1 to 3 in every order | while no register in use is spoilt: the queue stays a list, the command does its work, old processes stay; undisturbed, the steps add up to the operators of `Pcb` |
| `context` | kmain, one process with a cleared and one with an uncleared context, one local on the stack (none at the start) | registers and stacks come back; which arguments can arrive changed |
| `vm` | 30 frames, pages of 4 bytes, 5 pages to a table, heap of 3 pages, every end of the kernel from 4 to 40 | frames once, identity mapping, tables reachable, regions usable, `vm_init` ends when there is room |
| `clib` | every line of up to 4 characters over two delimiters, a digit and a letter; all 8-bit ints | `strtok` implements `Tokenizer`; `strcpy`, `strcmp`, `atoi`, `itoa` agree with references |
| `clock` | 14 lines (right, out of range, negative, wrong format, blank, erased), two moments around midnight, 16-bit ints | interrupts come back, registers valid, what is set is shown (of the time only what `TimeShown` below says), writes masked |
| `boot_hangs`, `read_never_ends` | - | refuted, see below |

The bounds reach the cases that matter: in `heap` a block has free and used
neighbours on both sides; in `serial` three requests can wait behind a write
of two bytes, so that a request arrives between any two interrupts; in `poll`
the array fills, empties and underflows; in `kernel_yield` deleted processes
are loaded again and the PCBs run out; in `kernel_full` the iocbs run out, every
list can become a circle, and a process is in several queues; in `insert_race`
the interrupt falls before, at and behind the place of the command, between its
statements and inside them; in `vm`
tables are made during the identity mapping, aligned and unaligned, and the
frames run out; in `clock` memory runs out and a command is torn by midnight.

`kernel_yield` restricts programs to IDLE: it isolates the queue and dispatch
logic, which the other calls break (next section). `NoStarvation` is exact: a
process that two others beat may never run, as the two alternate.

What some properties say exactly:

- `ArgumentsArrive`: a serial interrupt in `sys_req` changes `eax`, `edx` and
  perhaps `ecx`. While the arguments are fetched it can cost the one that is being
  fetched, or all that are still to come, as the pointer to them is lost. When
  the registers of `int` are being loaded it can cost buffer and length, if they
  were loaded before `eax`; once `eax` has the op code, that is lost with them,
  the kernel refuses the 0x20 and `sys_req` polls with its own copies. So no order
  of loading makes the calls safe. All other arguments arrive as they were
  passed, and the op code never becomes another valid one. "As passed" means as
  they lie on `sys_req`'s own stack: the caller, which computes and pushes them,
  can be interrupted as well and is not modelled.
- `LineIsString`: a NUL that was typed is stored inside the line, and the command
  then reads a shorter string than `serial_poll` returned.
- `TimeShown`: after settime, gettime shows hours from 4 to 15 four hours
  earlier, and minutes and seconds below 16 as they were set. The other values are
  left out: hours below 4 wrap, and from 16 on the binary value is read as BCD.
- `TypeOK` of `Kernel` (run `kernel_full`) includes that of `Serial`; the type
  invariants of `Heap`, `Vm` and `SerialPoll` are proved, not run.
- `RegistersKept` speaks of the running process and of those that wait, kmain
  included.
- `UniqueNames` leaves out the names of alarms: an alarm process may set an
  alarm with its own name, since a running process is in no queue.
- `ListEnds`, `OldStay`, `Done`: while interrupts come only where they change no
  register in use, what the race can lose is the process the handler has just put
  into the queue, never one that was there before. Where a register in use is
  changed, the queue can be damaged in any way, and nothing is promised.

Deadlock is not checked: a panic, a hang, a full queue or the end of the one
modelled call really stops the system.

*Fairness.* `Serial!FairSpec` has weak fairness of `Interrupt`: the UART keeps
its request up while the condition lasts and user code runs with interrupts
enabled. No fairness of keys or requests is assumed; `WriteEnds` supposes
that received bytes stop waiting, because such a byte, which the handler does
not read, masks the output interrupt. `Kernel!FairSpec` has weak fairness of
`sys_call_IDLE` together with the iterations of `load_r3`: a process runs on
until its next system call. `Vm!FairSpec` has weak fairness of `vm_init`:
sequential code runs on. `BootEnds` supposes that there is room (`Roomy`).

### Disagreements between the repository's text and the code

Two are runs that TLC must refute, and entries under `findings`:

| Run | The text | The code |
|---|---|---|
| `boot_hangs` | the menu is displayed before waiting for a command (commhand.c:1182) | a WRITE links the process into two queues; the second one loops forever |
| `read_never_ends` | a full buffer signals completion (serial.c:510) | the handler does nothing |

Others that the model shows in one or two actions have no run:

- `suspend_pcb` sets state 2, which `pcb_insert` does not know, so that nothing
  moves (commhand.c:1069 says the process is moved);
- `resume_pcb` inserts a process that is still queued and closes the queue into
  a circle;
- characters after the first come from the oldest iocb, which need not be the
  one being written (serial.c:516, "the appropriate iocb buffer");
- a request within 3 bytes of the largest `size_t` rounds to 0 and is granted
  an empty block (memory.h:13); `AlwaysGrants` therefore excludes it;
- freeing an address that is not allocated panics (memory.h:21, "non-zero on
  error");
- `set_pcb_priority` does not move the process (commhand.c:435); `delete_pcb`
  does not free the PCB (commhand.c:411); EXIT frees the PCB twice and panics,
  so shutdown does not return to main (commhand.c:450);
- the idle process is dispatched when the only other process yields
  (processes.h:43);
- every output interrupt sends a byte 0x02 (serial.c:522);
- gettime shows hours from 0 to 3 as a number far outside the day, although the
  comment says that the hours are ensured to be in the range 0-23
  (commhand.c:367): `hours` is unsigned, so that the correction by 24 never runs;
- settime and alarm take the second digit of the minutes from the seconds and
  write binary where gettime reads BCD; alarm's registers get what the
  characters of its *name* stand for;
- a name that is in use is only reported by alarm, and the failed `pcb_setup` is
  then followed;
- `itoa` of the smallest int stores characters that are no digits.

## 4. Proofs

The modules named `...Proofs` prove properties of the runs for every value of
the constants that satisfies the named assumptions of the component's module.
A theorem that needs more says so in its statement.

**Heap** (`HeapAssumption`: `SizeMod` is a multiple of 4 and the arena with its
headers is smaller than it). `TypeCorrect`, `AlwaysTiled`, `AlwaysCoalesced`,
`AlwaysAgree`, `AlwaysTight`, `AlwaysReclaimed`; `AlwaysGrants`, if no request
is within four bytes of `SizeMod`; `Refinement`: `Spec => ImplementsAllocator`.
The inductive invariant is `TypeOK /\ Tiled /\ Coalesced /\ ClientsAgree /\
TightFit`. `Tiled` carries the argument: it says that the successor of a
header is a header, that blocks do not overlap and that every block but the
first has a predecessor, which makes `Prev` and both merges well defined.
Lemmas state what `roundup`, `Split`, `SetFree` and `Merge` do to `Tiles`;
`Carve` and `Release` are compositions of them. `AllReclaimed` follows from the
invariant: with nothing in use all blocks are free, and two of them would be
free neighbours. For the refinement, `Tiled` gives that a granted block
overlaps none in use, and `ClientsAgree` that a merge only changes blocks that
no client holds.

**Vm** (`VmAssumption`). `VmTypes`, `AlwaysExclusive`, `AlwaysIdentity`,
`AlwaysReachable`, `AlwaysUsable`, from `VmInvariant`. The invariant says how
far each loop has come: during the identity mapping exactly the frames below
`i` are taken and page `p < i` has frame `p`, so that the lowest free frame is
`i` itself, and the heap pages then get consecutive frames, which makes regions
contiguous. Tables lie below `phys_alloc_addr`, whose growth the loop's bound
follows; that is why a table made during the mapping is mapped too.

**Serial** (`SerialAssumption`). `SerialTypes`, `AlwaysTx`, `AlwaysRequest`,
`AlwaysInRange`, `AlwaysOwnBytes`, from an invariant of the control block that
ties operation, event flag, counter, history and the head of the queue
together; a request only appends behind the head while an operation is under
way, which is why it cannot disturb the write.

**SerialPoll** (`PollAssumption`). `PollTypes`, `AlwaysStaysNear`,
`AlwaysString` and `PollRefinement`: for every array size and every size of
`size_t` larger than it by two. The invariant says where NULs can be in the
array while typing (those that were typed, those that an erase left behind, and
what the array held before), and what has been touched.

**Clock** (`ClockAssumption`). `AlwaysBack`, `AlwaysValid`, `AlwaysMasked`,
`AlwaysDateShown`, `AlwaysTimeShown`: for every set of lines and moments.
`ClockInv` says that the interrupt flag is off while date or time registers
are still to be written, and that the values to be written are valid for their
registers. The last two theorems need more, `ShownInv`: which registers hold
what the operator typed while a `settime` or `setdate` is half done
(`StoredInv`), and what `gettime` and `getdate` have read so far (`ReadInv`);
a tick forgets both. The rest is arithmetic: `Bcd` and back is the identity
below 100, binary values below 16 read as BCD are themselves, and an hour from 4
on survives the unsigned subtraction. What `atoi` makes of a line does not
matter, only that the checks let a number in range through.

**Pcb** (`PcbAssumption`: finitely many PCBs). Lemmas on the pointers of
`pcb.c`. `List(q, h, s)` says that the links from `h` visit the PCBs of the
sequence `s` and end. `ListWalk` and `ListShort` tie it to `Walk`, the loop
with its bound; `LinkInList` and `LinkOutList` say what the two assignments of
an insertion and the one of a removal make of a list; from them follow
`InsertInList`, `RemoveFromList`, `SearchList` (what `pcb_find` returns) and
that insertion keeps a sorted list sorted (`SortedPut`, `SortedDrop`). A
second group has no list: `Closed(q, H)` says that no pointer leaves the
allocated PCBs `H`, which every operation keeps, circles or not.

**Kernel** (`KernelAssumption`). For every number of PCBs, every set of names,
programs and commands:

- `KernelTypes`, `KernelNoDangling`, from `PointerInv`. `NoDanglingPcb` alone
  is not inductive: an insertion may link in a process whose own `next_pcb` was
  left behind by an earlier removal, so the invariant speaks of the links of all
  allocated PCBs, and of the iocbs, as the interrupt handler inserts what an
  iocb names. The driver's part is `DcbInv` of `SerialProofs`, which is cited
  through an instance.
- `KernelNoLoss`, `KernelNames`, if `Yielding` holds: programs only yield or
  exit, and suspendPCB and resumePCB are not typed. (Without it the properties
  fail, section 3.) The invariant `YieldInv` adds to `PointerInv` that the ready
  queue is a list of all live processes but the running one, and what keeps
  the other actors quiet (`Calm`): nobody is suspended or blocked, no output is
  under way. `UniqueNames` needs that list: a name is free exactly if no queued
  process has it, and the running process is the Command Handler or an alarm.
- `KernelImplementsScheduler`, if moreover no priority is changed: `OrderInv` adds
  that the list is sorted, so that the place where the loop of `pcb_insert` stops
  is the one place where the process may join. The refinement maps the list to
  the sequence; `YieldMoves`, `CreateMoves` and `DeleteMoves` say what each
  action does to that sequence, `SchedulerStep` turns them into steps of
  `Scheduler`.

**Context** (`ContextAssumption`). `ContextKeepsRegisters` and
`ContextArgumentsArrive`, for every set of processes, every depth of stack and
every order of dispatching. `Places` compares the three lists of registers:
each register has one place in `struct context`, and the pushes and the pops
agree on it. From it `SavedIs` and `RestoredIs` say that a save followed by a
restore is the identity. `KeptInv` follows each program's registers and stack
through the states it can be in: running, ready with a context on its stack,
kmain after its first yield, and not yet loaded. `ArgInv` says that only one
program is inside a call and what its call has come to: while it fetches
(`Fetching`), `ap` or the registers point to the argument whose turn it is unless
all that follow are torn; while it loads (`Loading`), each register holds its
argument unless an interrupt has hit it, and then either the argument is torn or
`eax` is no op code; and what was served for a program is what it passed
(`ServedRight`).

**InsertRace** (`InsertRaceAssumption`). `RaceListEnds`, `RaceOldStay`, `RaceDone`
and `RaceAtomicAlone`: for every queue, every order of priorities and every set
of processes that the handler unblocks, at any moment at which it changes no
register in use. `RaceInv` says that, until the command is lost (`Spoil`), the
ready queue is a list `s` and, for each place in the code, where in `s` the
command is: `prev` at the place `m`, `x` (or its link, or the pointer that
was read) at a later place `k`, and between them nothing that was there when
the command began (`Between`). That is what makes the last write harmless: it cuts
out exactly what lies between `m` and `k` (`CutList`, `JoinList`). The handler's
insertion only shifts places (`PutPlaces`, `PutBetween`), and it leaves the
link of `x` alone while `x` is not in the list. For `RaceAtomicAlone`, `Good` and
`Worse` follow the loop's comparisons, so that the place found is the one that
`InsertInList` of `PcbProofs` names. `Queued`, a recursive function, is followed
over the numbers up to the length of the queue (`QueuedIs`).

**CLib and Strtok** (`IntAssumption`, `StrtokAssumption`). `StrtokInvariant`,
`AlwaysCopyFits`, `StrtokRefinement` and `LibraryAlwaysAgrees`: for every alphabet
of characters, every length of line, every string of delimiters and every width
of `int`.

- What a loop of the library computes is first shown of loops in general:
  `LoopExists` and `LoopFinds` say that the recursive function which goes on until
  it meets a place of a set `T` exists, and that it finds the first such place.
  `StrlenIs` and `StrcmpIs` are instances (the NULs; the places where two strings
  differ or end), and `StrcmpOrders` follows.
- `StrtokInv` says that the pointers stay in the buffer, that nothing is cut from
  the cursor on, which characters the loops have ruled out so far, and that the
  word last returned is still where the returned pointer points. `CopyFits` needs
  the last part: `strlen(buf)`, measured after the cut, reaches exactly to the end
  of that word when no earlier word was cut off.
- For the refinement, `Words` gives the words by the rank of their first
  characters (`NthIs`). `SkipWords` says that stepping over a delimiter changes no
  word, `HeadAndTail` that the run which `Scan` has passed is the first word and
  that the cut leaves the others, so that a return of strtok is a step of
  `Tokenizer` and every other turn a stutter (`TokenStep`).
- For the numbers, `DigitsExist` and `DigitsUnique` make the function behind
  itoa's loop, which has all of `Int` as its domain, and `ItoaIs` says what the
  string then holds. `DigitsRead` is the heart: read from the front, the digits of
  `m` make `m` and no intermediate value leaves `int`. INT_MIN fails because its
  negative is itself: its remainders are negative, the first character behind the
  sign comes out below '0' (`NegativeLeads`), and atoi stops there.

Only model-checked: the liveness properties `WriteEnds`, `NoStarvation` and
`BootEnds`, which are out of the prover's reach. Every invariant, action property
and refinement that a passing run checks is also proved. Induction is stated with sets
throughout: the least number that violates the claim (`WFMin` of the library,
`LeastOf` in `InputProofs`) takes the place of the induction theorems.

## 5. Not modelled, and plan

- An allocation interrupted by the free of an iocb (serial.c:537): heap
  operations are atomic here. The code has no protection, so no invariant of
  `Heap` could survive; a faithful model would only show the damage.
- `showall` and `showready` hold a pointer across system calls. They change
  nothing; PCBs are never given back, so the pointer cannot dangle.
- A torn reading of the clock is possible (the code does not test the update
  flag) and nothing is claimed of it.
- What an alarm process does once it returns past the end of its stack.
- `serial_init`, `serial_out` and the unused `serial_close`; GDT, IDT, PIC
  and exception stubs: device set-up with no state afterwards.
- `user/mem.c` is not built. Wording and layout of messages are left out
  everywhere, and so are `help`, `menu` and `version`.

What a proof could still add: progress (the liveness properties above), and the
refinement of `Scheduler` without the hypothesis that programs only yield or
exit, which would need an abstract scheduler that also says what suspending,
resuming and waiting for the port do to the order.
