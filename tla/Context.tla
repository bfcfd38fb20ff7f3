------------------------------ MODULE Context -------------------------------
(***************************************************************************)
(* Registers and stacks: sys_req of user/core.c, the stubs sys_call_isr.s  *)
(* and serial_isr.s, what sys_call.c does with the saved contexts, and the *)
(* contexts that kmain, load_r3 and alarm prepare for new processes.       *)
(*                                                                         *)
(* A stack is the sequence of its words, the top first; esp is its length. *)
(* Words are tagged pairs, opaque but for the few that the code tests.     *)
(* Which ready process runs next is left open here (Kernel says which).    *)
(* The gates disable interrupts, so a stub with its C function is atomic.  *)
(***************************************************************************)
EXTENDS Integers, Sequences

CONSTANTS
  Kmain,     \* kmain(), which has a stack and no PCB
  BootProcs, \* the processes kmain sets up, their contexts cleared first
  LoadProcs, \* processes of load_r3 whose contexts are not cleared
  Gens,      \* tells the values a program has computed from its earlier ones
  Depths,    \* how many words a program may keep on its stack
  None

ASSUME ContextAssumption ==
  /\ Kmain \notin BootProcs \cup LoadProcs
  /\ BootProcs \cap LoadProcs = {}
  /\ Depths \subseteq Nat
  /\ None \notin Nat

VARIABLES
  cur,        \* whose code is running
  cpu,        \* the registers, esp apart
  stack,      \* of kmain and of every process
  stack_top,  \* process -> esp in its PCB
  ready,      \* the processes in the ready queue
  initial_context,  \* esp of kmain's context
  call,       \* where each program is: in its own code, in a call of sys_req, or
              \* back in sys_req after the int
  va,         \* sys_req's locals before the int, and where its va_arg code is
  loaded,     \* the argument registers sys_req has loaded so far
  served,     \* whose call was handed to io_scheduler, and as what (history)
  view,       \* what each program left in its registers and stack (history)
  hit,        \* registers that an interrupt has changed since (history)
  stopped     \* TRUE after kpanic()

vars == <<cur, cpu, stack, stack_top, ready, initial_context, call, va, loaded,
          served, view, hit, stopped>>

Procs == BootProcs \cup LoadProcs
Owners == Procs \cup {Kmain}

Segments == {"ds", "es", "fs", "gs", "ss"}
General == {"eax", "ebx", "ecx", "edx", "ebp", "esi", "edi"}
Arguments == {"eax", "ebx", "ecx", "edx"}
Regs == Segments \cup General \cup {"eip", "cs", "flags"}

\* struct context, from the lowest address up.
context == <<"ds", "es", "fs", "gs", "ss", "eax", "ebx", "ecx", "edx", "esp",
             "ebp", "esi", "edi", "eip", "cs", "flags">>

Ops == {"EXIT", "IDLE", "READ", "WRITE"}

OwnCode == <<"own code">>
Calling(op) == <<"calling", op>>
Returned(op) == <<"returned", op>>

Word(n) == <<"word", n>>
ERROR == Word(-1)

\* What serial_interrupt leaves in a register (its last statement is
\* outb(0x20, 0x20)); it also stands for what lies where no argument is.
Junk == Word(32)

\* The arguments behind op, by their places on the stack of sys_req: what o
\* passed there, their addresses, and what reading an address gives.
DEV == 1
BUFFER == 2
LEN == 3
Passed(o, i) ==
  CASE i = DEV -> <<"dev", o>> [] i = BUFFER -> <<"buffer", o>> [] i = LEN -> <<"len", o>>
Address(i) == <<"arg", i>>
IsArgument(a) == a \in {Address(i) : i \in DEV .. LEN}
Deref(o, a) == IF IsArgument(a) THEN Passed(o, a[2]) ELSE Junk
NextTo(a) == IF IsArgument(a) THEN Address(a[2] + 1) ELSE Junk

\* dev, buffer and len as sys_req initializes them.  torn is history: the
\* arguments that an interrupt has changed.
Locals(at, nth) ==
  [at |-> at, nth |-> nth, ap |-> Junk, args |-> [i \in DEV .. LEN |-> Word(0)],
   torn |-> {}]
Fetched == Locals("fetched", LEN + 1)

\* Reading a field of the context at the top of s.
Field(s, f) == s[CHOOSE i \in DOMAIN context : context[i] = f]

\* The context at stack_top of a new process.  Where memset gets the size of a
\* pointer, the fields that are not assigned keep what the memory held.
NewContext(p, cleared) ==
  [i \in 1 .. Len(context) |->
     LET f == context[i]
     IN  CASE f \in Segments -> Word(16)
           [] f = "cs" -> Word(8)
           [] f = "ebp" -> <<"stack", p>>
           [] f = "esp" -> <<"esp", Len(context)>>
           [] f = "eip" -> <<"entry", p>>
           [] f = "flags" -> Word(514)
           [] OTHER -> IF cleared THEN Word(0) ELSE <<"junk", f>>]

\* What a process may expect when its first instruction runs.
FirstView(p) ==
  [regs |-> [r \in Regs |-> CASE r \in Segments -> Word(16)
                              [] r = "cs" -> Word(8)
                              [] r = "eip" -> <<"entry", p>>
                              [] r = "flags" -> Word(514)
                              [] r = "ebp" -> <<"stack", p>>
                              [] OTHER -> Word(0)],
   stack |-> << >>]

KmainRegs ==
  [r \in Regs |-> IF r = "eax" THEN <<"op", "IDLE">>
                  ELSE IF r = "cs" THEN Word(8)
                  ELSE IF r \in Segments THEN Word(16) ELSE <<"kmain", r>>]

\* kmain has set up its processes and is about to yield.
Init ==
  /\ cur = Kmain
  /\ cpu = KmainRegs
  /\ stack = [o \in Owners |-> IF o \in BootProcs THEN NewContext(o, TRUE) ELSE << >>]
  /\ stack_top = [p \in Procs |-> IF p \in BootProcs THEN Len(context) ELSE 0]
  /\ ready = BootProcs
  /\ initial_context = None
  /\ call = [o \in Owners |-> IF o = Kmain THEN Calling("IDLE") ELSE OwnCode]
  /\ va = Fetched /\ loaded = Arguments
  /\ served = [o \in Owners |-> None]
  /\ view = [o \in Owners |-> IF o = Kmain THEN [regs |-> KmainRegs, stack |-> << >>]
                                           ELSE FirstView(o)]
  /\ hit = [o \in Owners |-> IF o \in LoadProcs THEN General \ {"ebp"} ELSE {}]
  /\ stopped = FALSE
-----------------------------------------------------------------------------
(***************************************************************************)
(* The code of a process.                                                  *)
(***************************************************************************)
Running == ~stopped /\ cur # Kmain

InCall == call[cur] \in {Calling(op) : op \in Ops}

\* One iteration of load_r3, as far as stacks go.
load_r3(p) ==
  /\ Running /\ call[cur] = OwnCode
  /\ p \in LoadProcs /\ stack_top[p] = 0
  /\ stack' = [stack EXCEPT ![p] = NewContext(p, FALSE)]
  /\ stack_top' = [stack_top EXCEPT ![p] = Len(context)]
  /\ ready' = ready \cup {p}
  /\ UNCHANGED <<cur, cpu, initial_context, call, va, loaded,
                 served, view, hit, stopped>>

\* A program computes, replaces its locals and then calls sys_req.  For READ and
\* WRITE, va_start begins: the address of the argument behind op is in eax.
sys_req(op, g, d) ==
  /\ Running /\ call[cur] = OwnCode
  /\ LET io == op \in {"READ", "WRITE"}
         regs == [r \in Regs |-> IF r \in Segments \cup {"cs"} THEN cpu[r]
                                 ELSE IF r = "eax" /\ io THEN Address(DEV)
                                 ELSE <<cur, r, g>>]
         locals == [i \in 1 .. d |-> <<cur, "local", g>>]
     IN  /\ cpu' = regs
         /\ stack' = [stack EXCEPT ![cur] =
                        locals \o SubSeq(@, Len(view[cur].stack) + 1, Len(@))]
         /\ view' = [view EXCEPT ![cur] = [regs |-> regs, stack |-> locals]]
         /\ va' = IF io THEN Locals("va_start", DEV) ELSE Fetched
  /\ hit' = [hit EXCEPT ![cur] = {}]
  /\ call' = [call EXCEPT ![cur] = Calling(op)]
  /\ loaded' = {}
  /\ UNCHANGED <<cur, stack_top, ready, initial_context, served, stopped>>

\* f with the values that new gives to some registers.
With(f, new) == [r \in Regs |-> IF r \in DOMAIN new THEN new[r] ELSE f[r]]

\* An instruction of the program assigns registers.
Assign(new) ==
  /\ Running /\ InCall
  /\ cpu' = With(cpu, new)
  /\ view' = [view EXCEPT ![cur].regs = With(view[cur].regs, new)]
  /\ hit' = [hit EXCEPT ![cur] = @ \ DOMAIN new]
  /\ UNCHANGED <<cur, stack, stack_top, ready, initial_context, call, served, stopped>>

\* va_start ends: ap is stored.
va_start ==
  /\ va.at = "va_start"
  /\ Assign(<< >>)
  /\ va' = [va EXCEPT !.at = "va_arg", !.ap = cpu["eax"]]
  /\ UNCHANGED loaded

\* va_arg loads ap into eax and the address behind it into a second register,
\* ecx or edx by the compiler; ecx, which an interrupt may change or not, stands
\* for both.
va_arg ==
  /\ va.at = "va_arg"
  /\ Assign([eax |-> va.ap, ecx |-> NextTo(va.ap)])
  /\ va' = [va EXCEPT !.at = "fetch"]
  /\ UNCHANGED loaded

\* Then it stores the second in ap, reads through the first and stores the
\* argument.
Fetch ==
  /\ va.at = "fetch"
  /\ LET value == Deref(cur, cpu["eax"])
     IN  /\ Assign([eax |-> value])
         /\ va' = [va EXCEPT !.at = IF va.nth = LEN THEN "fetched" ELSE "va_arg",
                             !.nth = @ + 1, !.ap = cpu["ecx"], !.args[va.nth] = value]
  /\ UNCHANGED loaded

\* What sys_req puts in a register for its int instruction: op, dev, buffer and
\* len, from where they are on its stack.
Argument(o, r) ==
  CASE r = "eax" -> <<"op", call[o][2]>>
    [] r = "ebx" -> va.args[DEV]
    [] r = "ecx" -> va.args[BUFFER]
    [] r = "edx" -> va.args[LEN]

\* The instructions before int load the registers, in the compiler's order.
LoadArgument(r) ==
  /\ va.at = "fetched"
  /\ r \in Arguments \ loaded
  /\ Assign([x \in {r} |-> Argument(cur, r)])
  /\ loaded' = loaded \cup {r}
  /\ UNCHANGED va
-----------------------------------------------------------------------------
(***************************************************************************)
(* The interrupt stubs.                                                    *)
(***************************************************************************)

\* int and sys_call_isr: what is pushed, in order.
Pushed == <<"flags", "cs", "eip", "edi", "esi", "ebp", "esp", "edx", "ecx", "ebx",
            "eax", "ss", "gs", "fs", "es", "ds">>

\* The word that the i-th last push leaves on the stack s.
PushedWord(regs, s, i) ==
  LET r == Pushed[Len(Pushed) + 1 - i]
  IN  IF r = "esp" THEN <<"esp", Len(s) + Len(Pushed) - i>> ELSE regs[r]

\* Mutant: ecx and edx swapped.
Saved_Swapped(regs, s) ==
  [i \in 1 .. Len(Pushed) |->
     PushedWord([regs EXCEPT !["ecx"] = regs["edx"], !["edx"] = regs["ecx"]], s, i)] \o s

Saved(regs, s) == [i \in 1 .. Len(Pushed) |-> PushedWord(regs, s, i)] \o s

\* The end of sys_call_isr: pops, with the saved esp skipped, and iret.
Popped == <<"ds", "es", "fs", "gs", "ss", "eax", "ebx", "ecx", "edx", "skipped",
            "ebp", "esi", "edi", "eip", "cs", "flags">>

\* Mutant: the pops of a stub that restores only what C may change.
Restored_Some(s) ==
  [r \in Regs |-> IF r \in {"esi", "edi"} THEN cpu[r]
                  ELSE s[CHOOSE i \in DOMAIN Popped : Popped[i] = r]]

Restored(s) == [r \in Regs |-> s[CHOOSE i \in DOMAIN Popped : Popped[i] = r]]

\* The stack of o from esp up.
StackAt(o, esp) == SubSeq(stack[o], Len(stack[o]) - esp + 1, Len(stack[o]))

\* mov esp, eax and what follows: o goes on from the context at the top of s,
\* every other stack is as in st.
Resume(o, s, st) ==
  /\ cur' = o
  /\ cpu' = Restored(s)
  /\ stack' = [st EXCEPT ![o] = SubSeq(s, Len(Popped) + 1, Len(s))]

\* When int returns, sys_req takes its result from eax.
IntReturns == call' = [call EXCEPT ![cur] = Returned(@[2])]
-----------------------------------------------------------------------------
(***************************************************************************)
(* sys_call, for the context that sys_call_isr has saved.                  *)
(***************************************************************************)
frame == Saved(cpu, stack[cur])

\* The int instruction of sys_req (of kmain too), with all registers loaded.
Int60(op) ==
  /\ ~stopped /\ InCall /\ loaded = Arguments
  /\ Field(frame, "eax") = <<"op", op>>

SaveContext(p, esp) == [stack_top EXCEPT ![p] = esp]

\* The IDLE case and the dispatch.
Dispatch ==
  /\ initial_context' = IF initial_context = None THEN Len(frame) ELSE initial_context
  /\ IntReturns
  /\ \/ /\ ready = {}
        /\ Resume(cur, frame, stack)
        /\ UNCHANGED <<stack_top, ready>>
     \/ \E next \in ready :
          /\ stack_top' = IF cur = Kmain THEN stack_top ELSE SaveContext(cur, Len(frame))
          /\ ready' = (ready \ {next}) \cup ({cur} \ {Kmain})
          /\ Resume(next, StackAt(next, stack_top[next]), [stack EXCEPT ![cur] = frame])
  /\ va' = Fetched /\ loaded' = {}
  /\ UNCHANGED <<view, hit, stopped>>

sys_call_IDLE == Int60("IDLE") /\ Dispatch /\ UNCHANGED served

\* What the READ and WRITE cases read from the context for io_scheduler.
Request ==
  [op |-> Field(frame, "eax"), torn |-> va.torn,
   args |-> <<Field(frame, "ebx"), Field(frame, "ecx"), Field(frame, "edx")>>]

\* READ, and WRITE, which falls through into READ.
sys_call_READ_WRITE ==
  /\ Int60("READ") \/ Int60("WRITE")
  /\ served' = [served EXCEPT ![cur] = Request]
  /\ Dispatch

\* pcb_free frees the same address twice: kpanic().
sys_call_EXIT ==
  /\ Int60("EXIT")
  /\ stopped' = TRUE
  /\ UNCHANGED <<cur, cpu, stack, stack_top, ready, initial_context, call, va,
                 loaded, served, view, hit>>

\* An op code that is none: -1 in the context's eax, and back.
sys_call_default ==
  /\ ~stopped /\ InCall /\ loaded = Arguments
  /\ Field(frame, "eax") \notin {<<"op", op>> : op \in Ops}
  /\ LET i == CHOOSE j \in DOMAIN context : context[j] = "eax"
     IN  Resume(cur, [frame EXCEPT ![i] = ERROR], stack)
  /\ view' = [view EXCEPT ![cur].regs["eax"] = ERROR]
  /\ hit' = [hit EXCEPT ![cur] = @ \ {"eax"}]
  /\ IntReturns
  /\ va' = Fetched /\ loaded' = {}
  /\ UNCHANGED <<stack_top, ready, initial_context, served, stopped>>

\* sys_req is about to test the result.
Returning == Running /\ call[cur] \in {Returned(op) : op \in Ops}

\* A READ or WRITE that the kernel refused: sys_req polls.
Refused == cpu["eax"] = ERROR /\ call[cur][2] \in {"READ", "WRITE"}

\* The rest of sys_req; serial_poll and serial_out change no context.
sys_req_return ==
  /\ Returning
  /\ call' = [call EXCEPT ![cur] = OwnCode]
  /\ served' = [served EXCEPT ![cur] = None]
  /\ UNCHANGED <<cur, cpu, stack, stack_top, ready, initial_context, va, loaded,
                 view, hit, stopped>>

\* The registers that a C function may leave changed.
Spoilt == {"eax", "ecx", "edx"}

\* The arguments that an interrupt which leaves ecx takes from sys_req.  While
\* they are fetched, eax has the address of the first, or of the next, and ecx
\* that of the one behind it.  Later they are lost in the registers of int; once
\* eax has the op code too, that is lost with them.
Torn(ecx) ==
  CASE va.at = "va_start" -> DEV .. LEN
    [] va.at = "fetch" -> IF ecx = cpu["ecx"] THEN {va.nth} ELSE va.nth .. LEN
    [] va.at = "fetched" /\ "eax" \notin loaded ->
         {i \in {BUFFER} : "ecx" \in loaded /\ ecx # cpu["ecx"]}
           \cup {i \in {LEN} : "edx" \in loaded}
    [] OTHER -> {}

\* serial_isr saves nothing but what int pushes and iret pops.
serial_isr(ecx) ==
  /\ ~stopped
  /\ cpu' = [r \in Regs |-> IF r = "ecx" THEN ecx
                            ELSE IF r \in Spoilt THEN Junk ELSE cpu[r]]
  /\ hit' = [hit EXCEPT ![cur] = @ \cup {r \in Spoilt : cpu'[r] # cpu[r]}]
  /\ va' = [va EXCEPT !.torn = @ \cup Torn(ecx)]
  /\ UNCHANGED <<cur, stack, stack_top, ready, initial_context, call, loaded,
                 served, view, stopped>>
-----------------------------------------------------------------------------
Next ==
  \/ \E p \in LoadProcs : load_r3(p)
  \/ \E op \in Ops, g \in Gens, d \in Depths : sys_req(op, g, d)
  \/ va_start \/ va_arg \/ Fetch
  \/ \E r \in Arguments : LoadArgument(r)
  \/ sys_call_IDLE
  \/ sys_call_READ_WRITE
  \/ sys_call_EXIT
  \/ sys_call_default
  \/ sys_req_return
  \/ \E ecx \in {cpu["ecx"], Junk} : serial_isr(ecx)

Spec == Init /\ [][Next]_vars
-----------------------------------------------------------------------------
\* A program finds its registers and its stack as it left them, through any
\* number of calls, switches and interrupts, and a new process finds what was
\* prepared for it; only eax, ecx and edx may be changed, by an interrupt.
\* (Registers that nobody has given a value yet do not count.)  While it waits,
\* the context that stack_top, or for kmain initial_context, points to holds
\* every register of its owner in its place, and behind it lies its stack.
RegistersKept ==
  /\ \A r \in Regs \ hit[cur] : cpu[r] = view[cur].regs[r]
  /\ stack[cur] = view[cur].stack
  /\ \A o \in (ready \cup {Kmain}) \ {cur} :
       LET s == StackAt(o, IF o = Kmain THEN initial_context ELSE stack_top[o])
       IN  /\ \A r \in Regs \ hit[o] : Field(s, r) = view[o].regs[r]
           /\ SubSeq(s, Len(context) + 1, Len(s)) = view[o].stack

\* What io_scheduler is asked for is what sys_req was passed, but for arguments
\* that an interrupt has taken: while they were fetched or waited for that, or
\* in ecx or edx while eax did not have the op code yet.  Never does a request
\* become a different operation, and it goes one way: what sys_req polls was not
\* served too.
ArgumentsArrive ==
  \A p \in Procs : served[p] # None =>
    /\ call[p] = Returned(served[p].op[2])
    /\ \A i \in DEV .. LEN : served[p].args[i] = Passed(p, i) \/ i \in served[p].torn
    /\ ~(cur = p /\ Returning /\ Refused)
=============================================================================
