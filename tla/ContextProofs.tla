--------------------------- MODULE ContextProofs ----------------------------
(***************************************************************************)
(* Proofs about Context: a program finds its registers and its stack as it *)
(* left them, and what arrives of a system call's arguments, for any number *)
(* of processes and any depth of their stacks.                             *)
(***************************************************************************)
EXTENDS Context, SequenceTheorems, TLAPS

(***************************************************************************)
(* The words that registers and stacks hold.                               *)
(***************************************************************************)
Words ==
  {<<"word", n>> : n \in Int}
    \cup {<<"esp", n>> : n \in Nat}
    \cup {<<"op", op>> : op \in Ops}
    \cup {<<t, o>> : t \in {"stack", "entry", "dev", "buffer", "len"}, o \in Owners}
    \cup {<<t, r>> : t \in {"junk", "kmain"}, r \in Regs}
    \cup {<<"arg", i>> : i \in 1 .. 4}
    \cup {<<o, t, g>> : o \in Owners, t \in Regs \cup {"local"}, g \in Gens}

Calls ==
  UNION {{OwnCode}, {Calling(op) : op \in Ops}, {Returned(op) : op \in Ops}}

Stages == {"va_start", "va_arg", "fetch", "fetched"}

\* sys_req's locals; while they are fetched there is one to fetch.
IsVa(v) ==
  /\ v \in [at : Stages, nth : 1 .. 4, ap : Words, args : [1 .. 3 -> Words],
            torn : SUBSET (1 .. 3)]
  /\ v.at # "fetched" => v.nth \in 1 .. 3

TypeInv ==
  /\ cur \in Owners
  /\ cpu \in [Regs -> Words]
  /\ stack \in [Owners -> Seq(Words)]
  /\ stack_top \in [Procs -> Nat]
  /\ ready \in SUBSET Procs
  /\ initial_context \in Nat \cup {None}
  /\ call \in [Owners -> Calls]
  /\ IsVa(va)
  /\ loaded \in SUBSET Arguments
  /\ served = [o \in Owners |-> served[o]]
  /\ view \in [Owners -> [regs : [Regs -> Words], stack : Seq(Words)]]
  /\ hit \in [Owners -> SUBSET Regs]

(***************************************************************************)
(* The place of a register in struct context, which is its place among the *)
(* pops and, counted from the last one, among the pushes.                  *)
(***************************************************************************)
At(f) == CHOOSE i \in DOMAIN context : context[i] = f

\* The context at the top of s is that of a program that left its registers
\* and its stack as in v, the registers in h apart.
Holds(s, v, h) ==
  /\ Len(s) >= 16
  /\ \A r \in Regs \ h : s[At(r)] = v.regs[r]
  /\ SubSeq(s, 17, Len(s)) = v.stack

\* Each register has one place in struct context, and both stubs agree on it.
LEMMA Places ==
  ASSUME NEW f \in Regs
  PROVE  /\ At(f) \in 1 .. 16 \ {10}
         /\ context[At(f)] = f
         /\ (CHOOSE i \in DOMAIN Popped : Popped[i] = f) = At(f)
         /\ Pushed[17 - At(f)] = f
<1> DEFINE P(f0, i) == /\ i \in 1 .. 16 \ {10}
                       /\ context[i] = f0 /\ Popped[i] = f0 /\ Pushed[17 - i] = f0
                       /\ \A j \in 1 .. 16 \ {i} : context[j] # f0 /\ Popped[j] # f0
<1>1. PICK i : P(f, i)
  <2>1. P("ds", 1) BY DEF context, Popped, Pushed
  <2>2. P("es", 2) BY DEF context, Popped, Pushed
  <2>3. P("fs", 3) BY DEF context, Popped, Pushed
  <2>4. P("gs", 4) BY DEF context, Popped, Pushed
  <2>5. P("ss", 5) BY DEF context, Popped, Pushed
  <2>6. P("eax", 6) BY DEF context, Popped, Pushed
  <2>7. P("ebx", 7) BY DEF context, Popped, Pushed
  <2>8. P("ecx", 8) BY DEF context, Popped, Pushed
  <2>9. P("edx", 9) BY DEF context, Popped, Pushed
  <2>10. P("ebp", 11) BY DEF context, Popped, Pushed
  <2>11. P("esi", 12) BY DEF context, Popped, Pushed
  <2>12. P("edi", 13) BY DEF context, Popped, Pushed
  <2>13. P("eip", 14) BY DEF context, Popped, Pushed
  <2>14. P("cs", 15) BY DEF context, Popped, Pushed
  <2>15. P("flags", 16) BY DEF context, Popped, Pushed
  <2> HIDE DEF P
  <2> QED
    BY <2>1, <2>2, <2>3, <2>4, <2>5, <2>6, <2>7, <2>8, <2>9, <2>10, <2>11, <2>12,
       <2>13, <2>14, <2>15 DEF Regs, Segments, General
<1>2. DOMAIN context = 1 .. 16 /\ DOMAIN Popped = 1 .. 16
  BY DEF context, Popped
<1>3. At(f) = i
  BY <1>1, <1>2 DEF At
<1>4. (CHOOSE j \in DOMAIN Popped : Popped[j] = f) = i
  BY <1>1, <1>2
<1> QED
  BY <1>1, <1>3, <1>4

\* A context has 16 words.
LEMMA Lengths == Len(context) = 16 /\ Len(Pushed) = 16 /\ Len(Popped) = 16
BY DEF context, Pushed, Popped

\* The words that the code makes.
LEMMA WordKinds ==
  /\ \A n \in Int : Word(n) \in Words
  /\ \A n \in Nat : <<"esp", n>> \in Words
  /\ \A op \in Ops : <<"op", op>> \in Words
  /\ \A t \in {"stack", "entry", "dev", "buffer", "len"}, o \in Owners : <<t, o>> \in Words
  /\ \A t \in {"junk", "kmain"}, r \in Regs : <<t, r>> \in Words
  /\ \A o \in Owners, t \in Regs \cup {"local"}, g \in Gens : <<o, t, g>> \in Words
  /\ \A i \in 1 .. 4 : Address(i) \in Words
<1>1. \A n \in Int : Word(n) \in Words
  BY DEF Words, Word
<1>2. \A n \in Nat : <<"esp", n>> \in Words
  BY DEF Words
<1>3. \A op \in Ops : <<"op", op>> \in Words
  BY DEF Words
<1>4. \A t \in {"stack", "entry", "dev", "buffer", "len"}, o \in Owners : <<t, o>> \in Words
  BY DEF Words
<1>5. \A t \in {"junk", "kmain"}, r \in Regs : <<t, r>> \in Words
  BY DEF Words
<1>6. \A o \in Owners, t \in Regs \cup {"local"}, g \in Gens : <<o, t, g>> \in Words
  BY DEF Words
<1>7. \A i \in 1 .. 4 : Address(i) \in Words
  BY DEF Words, Address
<1> QED
  BY <1>1, <1>2, <1>3, <1>4, <1>5, <1>6, <1>7

\* The upper part of a stack that was put together from two.
LEMMA Behind ==
  ASSUME NEW s \in Seq(Words), NEW t \in Seq(Words), Len(s) = 16
  PROVE  /\ s \o t \in Seq(Words)
         /\ Len(s \o t) = 16 + Len(t)
         /\ \A i \in 1 .. 16 : (s \o t)[i] = s[i]
         /\ SubSeq(s \o t, 17, Len(s \o t)) = t
<1>1. /\ s \o t \in Seq(Words)
      /\ Len(s \o t) = Len(s) + Len(t)
      /\ \A i \in 1 .. Len(s) + Len(t) :
           (s \o t)[i] = IF i <= Len(s) THEN s[i] ELSE t[i - Len(s)]
  BY ConcatProperties
<1>2. Len(t) \in Nat /\ \A i \in 1 .. Len(t) : t[i] \in Words
  BY LenProperties, ElementOfSeq
<1> DEFINE u == s \o t
<1> HIDE DEF u
<1>3. /\ Len(u) = 16 + Len(t)
      /\ \A i \in 1 .. 16 : u[i] = s[i]
      /\ \A i \in 17 .. Len(u) : u[i] = t[i - 16] /\ i - 16 \in 1 .. Len(t)
  BY <1>1, <1>2 DEF u
<1>4. Len(u) \in Int /\ 17 \in Int /\ \A i \in 17 .. Len(u) : u[i] \in Words
  BY <1>2, <1>3
<1>5. /\ SubSeq(u, 17, Len(u)) \in Seq(Words)
      /\ Len(SubSeq(u, 17, Len(u))) = IF 17 <= Len(u) THEN Len(u) - 17 + 1 ELSE 0
      /\ \A i \in 1 .. Len(u) - 17 + 1 : SubSeq(u, 17, Len(u))[i] = u[17 + i - 1]
  BY <1>4, SubSeqProperties
<1>6. /\ Len(SubSeq(u, 17, Len(u))) = Len(t)
      /\ \A i \in 1 .. Len(t) : SubSeq(u, 17, Len(u))[i] = t[i]
  BY <1>2, <1>3, <1>5
<1>7. SubSeq(u, 17, Len(u)) = t
  BY <1>5, <1>6, SeqEqual
<1> QED
  BY <1>1, <1>3, <1>7 DEF u

\* sys_call_isr leaves each register at its place in struct context, on top of
\* the stack it found.
LEMMA SavedIs ==
  ASSUME NEW regs \in [Regs -> Words], NEW s \in Seq(Words)
  PROVE  /\ Saved(regs, s) \in Seq(Words)
         /\ Len(Saved(regs, s)) = 16 + Len(s)
         /\ \A r \in Regs : Saved(regs, s)[At(r)] = regs[r]
         /\ SubSeq(Saved(regs, s), 17, Len(Saved(regs, s))) = s
<1> DEFINE t == [i \in 1 .. Len(Pushed) |-> PushedWord(regs, s, i)]
<1>1. \A i \in 1 .. 16 : PushedWord(regs, s, i) \in Words
  <2> SUFFICES ASSUME NEW i \in 1 .. 16
               PROVE  PushedWord(regs, s, i) \in Words
    OBVIOUS
  <2>1. Pushed[17 - i] = "esp" \/ Pushed[17 - i] \in Regs
    BY DEF Pushed, Regs, Segments, General
  <2>2. CASE Pushed[17 - i] = "esp"
    <3>1. PushedWord(regs, s, i) = <<"esp", Len(s) + 16 - i>>
      BY <2>2, Lengths DEF PushedWord
    <3>2. Len(s) + 16 - i \in Nat
      BY LenProperties
    <3> QED
      BY <3>1, <3>2, WordKinds
  <2>3. CASE Pushed[17 - i] \in Regs
    <3>1. "esp" \notin Regs
      BY DEF Regs, Segments, General
    <3>2. PushedWord(regs, s, i) = regs[Pushed[17 - i]]
      BY <2>3, <3>1, Lengths DEF PushedWord
    <3> QED
      BY <2>3, <3>2
  <2> QED
    BY <2>1, <2>2, <2>3
<1>2. t \in Seq(Words) /\ Len(t) = 16
  BY <1>1, Lengths, IsASeq, LenProperties
<1>3. \A r \in Regs : t[At(r)] = regs[r]
  <2> SUFFICES ASSUME NEW r \in Regs
               PROVE  t[At(r)] = regs[r]
    OBVIOUS
  <2>1. r # "esp"
    BY DEF Regs, Segments, General
  <2>2. At(r) \in 1 .. 16 /\ Pushed[17 - At(r)] = r
    BY Places
  <2>3. PushedWord(regs, s, At(r)) = regs[r]
    BY <2>1, <2>2, Lengths DEF PushedWord
  <2> QED
    BY <2>2, <2>3, Lengths
<1>4. Saved(regs, s) = t \o s
  BY DEF Saved
<1> HIDE DEF t
<1>5. \A r \in Regs : At(r) \in 1 .. 16
  BY Places
<1>6. /\ t \o s \in Seq(Words)
      /\ Len(t \o s) = 16 + Len(s)
      /\ \A i \in 1 .. 16 : (t \o s)[i] = t[i]
      /\ SubSeq(t \o s, 17, Len(t \o s)) = s
  BY <1>2, Behind
<1> QED
  BY <1>3, <1>4, <1>5, <1>6

\* What the end of sys_call_isr puts back is what lies at the registers' places.
LEMMA RestoredIs ==
  ASSUME NEW s
  PROVE  Restored(s) = [r \in Regs |-> s[At(r)]]
<1> DEFINE C(r) == CHOOSE i \in DOMAIN Popped : Popped[i] = r
<1>1. \A r \in Regs : C(r) = At(r)
  BY Places
<1>2. Restored(s) = [r \in Regs |-> s[C(r)]]
  BY Zenon DEF Restored
<1> HIDE DEF C
<1> QED
  BY <1>1, <1>2

\* A context prepared for a new process.
LEMMA NewContextIs ==
  ASSUME NEW p \in Procs, NEW cleared \in BOOLEAN
  PROVE  /\ NewContext(p, cleared) \in Seq(Words)
         /\ Len(NewContext(p, cleared)) = 16
         /\ \A r \in Regs \ (General \ {"ebp"}) :
              NewContext(p, cleared)[At(r)] = FirstView(p).regs[r]
         /\ cleared => \A r \in Regs :
              NewContext(p, cleared)[At(r)] = FirstView(p).regs[r]
         /\ NewContext(p, cleared)[At("eax")] # ERROR
         /\ SubSeq(NewContext(p, cleared), 17, 16) = << >>
<1> DEFINE c == NewContext(p, cleared)
           w(f) == CASE f \in Segments -> Word(16)
                     [] f = "cs" -> Word(8)
                     [] f = "ebp" -> <<"stack", p>>
                     [] f = "esp" -> <<"esp", Len(context)>>
                     [] f = "eip" -> <<"entry", p>>
                     [] f = "flags" -> Word(514)
                     [] OTHER -> IF cleared THEN Word(0) ELSE <<"junk", f>>
<1>1. c = [i \in 1 .. 16 |-> w(context[i])]
  BY Lengths DEF NewContext
<1>2. \A f \in Regs \cup {"esp"} : w(f) \in Words
  <2> SUFFICES ASSUME NEW f \in Regs \cup {"esp"}
               PROVE  w(f) \in Words
    OBVIOUS
  <2>1. /\ {Word(0), Word(8), Word(16), Word(514)} \subseteq Words
        /\ <<"esp", Len(context)>> \in Words
        /\ <<"stack", p>> \in Words /\ <<"entry", p>> \in Words
    BY WordKinds, Lengths DEF Owners
  <2>2. f \in Regs => <<"junk", f>> \in Words
    BY WordKinds
  <2> QED
    BY <2>1, <2>2
<1>3. \A i \in 1 .. 16 : context[i] \in Regs \cup {"esp"}
  BY DEF context, Regs, Segments, General
<1>4. c \in Seq(Words) /\ Len(c) = 16
  <2> HIDE DEF w
  <2> QED
    BY <1>1, <1>2, <1>3, IsASeq, LenProperties
<1>5. \A r \in Regs : c[At(r)] = w(r)
  <2> HIDE DEF w
  <2> QED
    BY <1>1, Places
<1>6. ASSUME NEW r \in Regs
      PROVE  r \notin General \ {"ebp"} \/ cleared => w(r) = FirstView(p).regs[r]
  BY DEF FirstView, Regs, Segments, General
<1>7. w("eax") # ERROR /\ "eax" \in Regs
  BY DEF Regs, Segments, General, ERROR, Word
<1>8. SubSeq(c, 17, 16) = << >>
  BY <1>4, SubSeqProperties, EmptySeq
<1> HIDE DEF w, c
<1>9. c = NewContext(p, cleared)
  BY DEF c
<1> QED
  BY <1>4, <1>5, <1>6, <1>7, <1>8, <1>9
-----------------------------------------------------------------------------
(***************************************************************************)
(* The inductive invariant.  The property says nothing of stacks that are  *)
(* longer than esp tells, of a process before load_r3 has made it, or of   *)
(* initial_context while kmain runs; the steps need all three.             *)
(***************************************************************************)

\* The program that runs has its registers and stack.
RunningKept ==
  /\ \A r \in Regs \ hit[cur] : cpu[r] = view[cur].regs[r]
  /\ stack[cur] = view[cur].stack

\* A process in the ready queue has its context at the end of its stack.
ReadyKept ==
  /\ cur \notin ready
  /\ \A o \in ready : /\ stack_top[o] = Len(stack[o])
                      /\ Holds(stack[o], view[o], hit[o])

\* kmain's context is saved by its first yield, and it never comes back.
KmainKept ==
  /\ cur = Kmain /\ InCall => initial_context = None
  /\ cur # Kmain => /\ initial_context = Len(stack[Kmain])
                    /\ Holds(stack[Kmain], view[Kmain], hit[Kmain])

\* Nothing is known of the general registers of a process that is not loaded.
UnloadedKept ==
  \A p \in Procs : stack_top[p] = 0 =>
    /\ p \notin ready /\ p # cur
    /\ view[p] = FirstView(p)
    /\ hit[p] = General \ {"ebp"}

KeptInv == TypeInv /\ RunningKept /\ ReadyKept /\ KmainKept /\ UnloadedKept

\* What lies behind a context.
LEMMA Upper ==
  ASSUME NEW s \in Seq(Words)
  PROVE  SubSeq(s, 17, Len(s)) \in Seq(Words)
<1>1. Len(s) \in Nat /\ \A i \in 1 .. Len(s) : s[i] \in Words
  BY LenProperties, ElementOfSeq
<1>2. Len(s) \in Int /\ 17 \in Int /\ \A i \in 17 .. Len(s) : s[i] \in Words
  BY <1>1
<1> QED
  BY <1>2, SubSeqProperties

\* The registers that are popped from a context.
LEMMA PoppedWords ==
  ASSUME NEW s \in Seq(Words), Len(s) >= 16
  PROVE  Restored(s) \in [Regs -> Words]
<1>1. \A r \in Regs : At(r) \in 1 .. 16
  BY Places
<1>2. Len(s) \in Nat /\ \A i \in 1 .. Len(s) : s[i] \in Words
  BY LenProperties, ElementOfSeq
<1>3. \A r \in Regs : s[At(r)] \in Words
  BY <1>1, <1>2
<1> QED
  BY <1>3, RestoredIs

\* The context that a system call finds is that of the program that called.
LEMMA FrameIs ==
  ASSUME TypeInv
  PROVE  /\ frame \in Seq(Words)
         /\ Len(frame) = 16 + Len(stack[cur])
         /\ Len(stack[cur]) \in Nat
         /\ \A r \in Regs : frame[At(r)] = cpu[r]
         /\ SubSeq(frame, 17, Len(frame)) = stack[cur]
         /\ Restored(frame) = cpu
<1>1. cpu \in [Regs -> Words] /\ stack[cur] \in Seq(Words)
  BY DEF TypeInv
<1>2. /\ frame \in Seq(Words)
      /\ Len(frame) = 16 + Len(stack[cur])
      /\ \A r \in Regs : frame[At(r)] = cpu[r]
      /\ SubSeq(frame, 17, Len(frame)) = stack[cur]
  BY <1>1, SavedIs DEF frame
<1>3. Restored(frame) = cpu
  BY <1>1, <1>2, RestoredIs
<1> QED
  BY <1>1, <1>2, <1>3, LenProperties

\* The op code of a program that is in a call.
LEMMA CallIs ==
  ASSUME NEW op
  PROVE  /\ Calling(op)[2] = op /\ Returned(op)[2] = op
         /\ Returned(op) \notin {Calling(o) : o \in Ops}
         /\ OwnCode \notin {Calling(o) : o \in Ops}
         /\ OwnCode # Returned(op)
BY DEF Calling, Returned, OwnCode

\* What a process may expect at first are registers and an empty stack.
LEMMA FirstViewIs ==
  ASSUME NEW p \in Procs
  PROVE  /\ FirstView(p) \in [regs : [Regs -> Words], stack : Seq(Words)]
         /\ FirstView(p).stack = << >>
<1>1. /\ {Word(0), Word(8), Word(16), Word(514)} \subseteq Words
      /\ <<"stack", p>> \in Words /\ <<"entry", p>> \in Words
  BY WordKinds DEF Owners
<1>2. FirstView(p).regs \in [Regs -> Words]
  BY <1>1 DEF FirstView
<1>3. << >> \in Seq(Words)
  BY EmptySeq
<1> QED
  BY <1>2, <1>3 DEF FirstView

\* The registers of kmain.
LEMMA KmainRegsIs == KmainRegs \in [Regs -> Words]
<1>1. /\ {Word(8), Word(16)} \subseteq Words
      /\ <<"op", "IDLE">> \in Words
  BY WordKinds DEF Ops
<1>2. \A r \in Regs : <<"kmain", r>> \in Words
  BY WordKinds
<1> QED
  BY <1>1, <1>2 DEF KmainRegs

\* sys_req's locals at first, and when there is nothing to fetch.
LEMMA LocalsIs == IsVa(Fetched) /\ IsVa(Locals("va_start", DEV))
<1>1. Junk \in Words /\ Word(0) \in Words
  BY WordKinds DEF Junk
<1>2. [i \in DEV .. LEN |-> Word(0)] \in [1 .. 3 -> Words]
  BY <1>1 DEF DEV, LEN
<1>3. ASSUME NEW at \in Stages, NEW nth \in 1 .. 4, at # "fetched" => nth \in 1 .. 3
      PROVE  IsVa(Locals(at, nth))
  BY <1>1, <1>2, <1>3 DEF IsVa, Locals
<1>4. "fetched" \in Stages /\ LEN + 1 \in 1 .. 4 /\ "va_start" \in Stages /\ DEV \in 1 .. 3
  BY DEF Stages, LEN, DEV
<1> QED
  BY <1>3, <1>4 DEF Fetched

\* kmain before its first yield.
LEMMA KeptInit ==
  ASSUME Init
  PROVE  KeptInv
<1> USE DEF Init
<1>1. TypeInv
  <2>1. \A o \in BootProcs : NewContext(o, TRUE) \in Seq(Words)
    BY NewContextIs DEF Procs
  <2>2. << >> \in Seq(Words)
    BY EmptySeq
  <2>3. stack \in [Owners -> Seq(Words)]
    BY <2>1, <2>2
  <2>4. view \in [Owners -> [regs : [Regs -> Words], stack : Seq(Words)]]
    <3>1. \A o \in Procs : FirstView(o) \in [regs : [Regs -> Words], stack : Seq(Words)]
      BY FirstViewIs
    <3>2. [regs |-> KmainRegs, stack |-> << >>]
            \in [regs : [Regs -> Words], stack : Seq(Words)]
      BY <2>2, KmainRegsIs
    <3> QED
      BY <3>1, <3>2 DEF Owners
  <2>5. call \in [Owners -> Calls]
    BY DEF Calls, Ops
  <2>6. General \subseteq Regs
    BY DEF Regs
  <2>7. hit \in [Owners -> SUBSET Regs] /\ stack_top \in [Procs -> Nat]
    BY <2>6, Lengths
  <2> QED
    BY <2>3, <2>4, <2>5, <2>7, KmainRegsIs, LocalsIs DEF TypeInv, Procs, Owners
<1>2. RunningKept
  BY ContextAssumption DEF RunningKept, Owners
<1>3. ReadyKept
  <2>1. cur \notin ready
    BY ContextAssumption
  <2> SUFFICES ASSUME NEW o \in BootProcs
               PROVE  /\ stack_top[o] = Len(stack[o])
                      /\ Holds(stack[o], view[o], hit[o])
    BY <2>1 DEF ReadyKept
  <2>2. /\ stack[o] = NewContext(o, TRUE) /\ stack_top[o] = 16
        /\ view[o] = FirstView(o) /\ o \in Procs
    BY ContextAssumption, Lengths DEF Procs, Owners
  <2>3. /\ Len(stack[o]) = 16
        /\ \A r \in Regs : stack[o][At(r)] = FirstView(o).regs[r]
        /\ SubSeq(stack[o], 17, 16) = << >>
    BY <2>2, NewContextIs
  <2>4. FirstView(o).stack = << >>
    BY <2>2, FirstViewIs
  <2> HIDE DEF Init
  <2>5. SubSeq(stack[o], 17, Len(stack[o])) = view[o].stack
    BY <2>2, <2>3, <2>4, Zenon
  <2>6. Len(stack[o]) >= 16
    BY <2>3
  <2>7. \A r \in Regs \ hit[o] : stack[o][At(r)] = view[o].regs[r]
    BY <2>2, <2>3
  <2> QED
    BY <2>2, <2>3, <2>5, <2>6, <2>7, Zenon DEF Holds
<1>4. KmainKept
  BY DEF KmainKept
<1>5. UnloadedKept
  <2> SUFFICES ASSUME NEW p \in Procs, stack_top[p] = 0
               PROVE  /\ p \notin ready /\ p # cur
                      /\ view[p] = FirstView(p)
                      /\ hit[p] = General \ {"ebp"}
    BY DEF UnloadedKept
  <2>1. p \in LoadProcs /\ p \notin BootProcs /\ p # Kmain /\ p \in Owners
    BY ContextAssumption, Lengths DEF Procs, Owners
  <2> QED
    BY <2>1
<1> QED
  BY <1>1, <1>2, <1>3, <1>4, <1>5 DEF KeptInv
-----------------------------------------------------------------------------
(***************************************************************************)
(* The steps.                                                              *)
(***************************************************************************)
\* load_r3 prepares a context where the stack of the new process ends.
LEMMA KeptLoadR3 ==
  ASSUME KeptInv, NEW p \in LoadProcs, load_r3(p)
  PROVE  KeptInv'
<1> DEFINE c == NewContext(p, FALSE)
<1>1. p \in Procs /\ p \in Owners
  BY DEF Procs, Owners
<1>2. /\ c \in Seq(Words) /\ Len(c) = 16
      /\ \A r \in Regs \ (General \ {"ebp"}) : c[At(r)] = FirstView(p).regs[r]
      /\ SubSeq(c, 17, 16) = << >>
  BY <1>1, NewContextIs
<1> HIDE DEF c
<1>3. /\ stack' = [stack EXCEPT ![p] = c]
      /\ stack_top' = [stack_top EXCEPT ![p] = 16]
      /\ ready' = ready \cup {p}
      /\ stack_top[p] = 0 /\ cur # Kmain
      /\ UNCHANGED <<cur, cpu, initial_context, call, va, loaded, served, view, hit>>
  BY Lengths DEF load_r3, Running, c
<1>4. p # Kmain /\ p # cur /\ p \notin ready
      /\ view[p] = FirstView(p) /\ hit[p] = General \ {"ebp"}
  BY <1>1, <1>3, ContextAssumption DEF KeptInv, UnloadedKept
<1>5. TypeInv'
  BY <1>1, <1>2, <1>3 DEF KeptInv, TypeInv
<1>6. RunningKept'
  BY <1>3, <1>4 DEF KeptInv, TypeInv, RunningKept
<1>7. ReadyKept'
  <2>1. Holds(c, view[p], hit[p])
    BY <1>2, <1>4, FirstViewIs, <1>1 DEF Holds
  <2>2. \A o \in ready : stack'[o] = stack[o] /\ stack_top'[o] = stack_top[o]
    BY <1>3, <1>4 DEF KeptInv, TypeInv, Owners
  <2>3. stack'[p] = c /\ stack_top'[p] = 16
    BY <1>1, <1>3 DEF KeptInv, TypeInv
  <2>4. \A o \in ready' : /\ stack_top'[o] = Len(stack'[o])
                          /\ Holds(stack'[o], view[o], hit[o])
    <3> TAKE o \in ready'
    <3>1. CASE o \in ready
      BY <3>1, <2>2 DEF KeptInv, ReadyKept
    <3>2. CASE o = p
      BY <3>2, <1>2, <2>1, <2>3
    <3> QED
      BY <3>1, <3>2, <1>3
  <2> QED
    BY <1>3, <1>4, <2>4 DEF KeptInv, ReadyKept
<1>8. KmainKept'
  <2>1. stack'[Kmain] = stack[Kmain]
    BY <1>3, <1>4 DEF KeptInv, TypeInv, Owners
  <2> QED
    BY <1>3, <2>1 DEF KeptInv, KmainKept, Holds
<1>9. UnloadedKept'
  BY <1>1, <1>3 DEF KeptInv, TypeInv, UnloadedKept
<1> QED
  BY <1>5, <1>6, <1>7, <1>8, <1>9 DEF KeptInv

\* The program replaces its registers and locals, and calls.
LEMMA KeptSysReq ==
  ASSUME KeptInv, NEW op \in Ops, NEW g \in Gens, NEW d \in Depths,
         sys_req(op, g, d)
  PROVE  KeptInv'
<1> DEFINE io == op \in {"READ", "WRITE"}
           regs == [r \in Regs |-> IF r \in Segments \cup {"cs"} THEN cpu[r]
                                   ELSE IF r = "eax" /\ io THEN Address(DEV)
                                   ELSE <<cur, r, g>>]
           locals == [i \in 1 .. d |-> <<cur, "local", g>>]
<1>1. regs \in [Regs -> Words]
  <2>1. \A r \in Regs : <<cur, r, g>> \in Words
    BY WordKinds DEF KeptInv, TypeInv
  <2>2. Address(DEV) \in Words
    BY WordKinds DEF DEV
  <2> QED
    BY <2>1, <2>2 DEF KeptInv, TypeInv
<1>2. locals \in Seq(Words)
  <2>1. <<cur, "local", g>> \in Words
    BY WordKinds DEF KeptInv, TypeInv
  <2> QED
    BY <2>1, ContextAssumption, IsASeq
<1>3. locals \o SubSeq(stack[cur], Len(view[cur].stack) + 1, Len(stack[cur])) = locals
  <2>1. stack[cur] = view[cur].stack /\ Len(stack[cur]) \in Nat
    BY LenProperties DEF KeptInv, TypeInv, RunningKept
  <2>2. SubSeq(stack[cur], Len(view[cur].stack) + 1, Len(stack[cur])) = << >>
    BY <2>1, SubSeqEmpty
  <2> QED
    BY <1>2, <2>2, ConcatEmptySeq
<1>4. /\ cpu' = regs
      /\ stack' = [stack EXCEPT ![cur] = locals]
      /\ view' = [view EXCEPT ![cur] = [regs |-> regs, stack |-> locals]]
      /\ hit' = [hit EXCEPT ![cur] = {}]
      /\ call' = [call EXCEPT ![cur] = Calling(op)]
      /\ va' = IF io THEN Locals("va_start", DEV) ELSE Fetched
      /\ loaded' = {}
      /\ cur # Kmain
      /\ UNCHANGED <<cur, stack_top, ready, initial_context, served>>
  BY <1>3 DEF sys_req, Running
<1> HIDE DEF regs, locals
<1>5. \A o \in Owners \ {cur} :
        stack'[o] = stack[o] /\ view'[o] = view[o] /\ hit'[o] = hit[o]
  BY <1>4 DEF KeptInv, TypeInv
<1>6. TypeInv'
  BY <1>1, <1>2, <1>4, LocalsIs DEF KeptInv, TypeInv, Calls
<1>7. RunningKept'
  BY <1>4 DEF KeptInv, TypeInv, RunningKept
<1>8. ReadyKept'
  BY <1>4, <1>5 DEF KeptInv, TypeInv, ReadyKept, Holds, Owners
<1>9. KmainKept'
  BY <1>4, <1>5 DEF KeptInv, TypeInv, KmainKept, Holds, Owners
<1>10. UnloadedKept'
  BY <1>4, <1>5 DEF KeptInv, TypeInv, UnloadedKept, Owners
<1> QED
  BY <1>6, <1>7, <1>8, <1>9, <1>10 DEF KeptInv

\* Registers that the program assigns, it knows of.
LEMMA KeptAssign ==
  ASSUME KeptInv, NEW new, DOMAIN new \subseteq Regs,
         \A r \in DOMAIN new : new[r] \in Words,
         Assign(new), IsVa(va'), loaded' \in SUBSET Arguments
  PROVE  KeptInv'
<1>1. /\ cpu' = With(cpu, new)
      /\ view' = [view EXCEPT ![cur].regs = With(view[cur].regs, new)]
      /\ hit' = [hit EXCEPT ![cur] = @ \ DOMAIN new]
      /\ cur # Kmain
      /\ UNCHANGED <<cur, stack, stack_top, ready, initial_context, call, served>>
  BY DEF Assign, Running
<1>2. cpu \in [Regs -> Words] /\ view[cur].regs \in [Regs -> Words] /\ cur \in Owners
  BY DEF KeptInv, TypeInv
<1>3. ASSUME NEW f \in [Regs -> Words]
      PROVE  /\ With(f, new) \in [Regs -> Words]
             /\ \A r \in Regs : With(f, new)[r] = IF r \in DOMAIN new THEN new[r] ELSE f[r]
  BY DEF With
<1>4. \A o \in Owners \ {cur} : view'[o] = view[o] /\ hit'[o] = hit[o]
  BY <1>1 DEF KeptInv, TypeInv
<1>5. /\ view'[cur].regs = With(view[cur].regs, new)
      /\ view'[cur].stack = view[cur].stack
      /\ hit'[cur] = hit[cur] \ DOMAIN new
  BY <1>1 DEF KeptInv, TypeInv
<1>6. TypeInv'
  <2>1. view' \in [Owners -> [regs : [Regs -> Words], stack : Seq(Words)]]
    <3> DEFINE f == With(view[cur].regs, new)
    <3>1. f \in [Regs -> Words]
      BY <1>2, <1>3
    <3>2. view' = [view EXCEPT ![cur].regs = f]
      BY <1>1
    <3> HIDE DEF f
    <3>3. view \in [Owners -> [regs : [Regs -> Words], stack : Seq(Words)]]
      BY DEF KeptInv, TypeInv
    <3>4. [view[cur] EXCEPT !.regs = f] \in [regs : [Regs -> Words], stack : Seq(Words)]
      BY <1>2, <3>1, <3>3
    <3>5. view' = [view EXCEPT ![cur] = [view[cur] EXCEPT !.regs = f]]
      BY <3>2
    <3> QED
      BY <1>2, <3>3, <3>4, <3>5
  <2>2. hit' \in [Owners -> SUBSET Regs] /\ cpu' \in [Regs -> Words]
    BY <1>1, <1>2, <1>3 DEF KeptInv, TypeInv
  <2> QED
    BY <1>1, <2>1, <2>2 DEF KeptInv, TypeInv
<1>7. RunningKept'
  <2>1. \A r \in Regs \ hit'[cur] : cpu'[r] = view'[cur].regs[r]
    BY <1>1, <1>2, <1>3, <1>5 DEF KeptInv, RunningKept
  <2> QED
    BY <1>1, <1>5, <2>1 DEF KeptInv, RunningKept
<1>8. ReadyKept'
  BY <1>1, <1>4 DEF KeptInv, TypeInv, ReadyKept, Owners
<1>9. KmainKept'
  BY <1>1, <1>4 DEF KeptInv, TypeInv, KmainKept, Owners
<1>10. UnloadedKept'
  BY <1>1, <1>4 DEF KeptInv, TypeInv, UnloadedKept, Owners
<1> QED
  BY <1>6, <1>7, <1>8, <1>9, <1>10 DEF KeptInv

\* The addresses and values that va_arg computes are words.
LEMMA VaWords ==
  /\ Junk \in Words
  /\ \A a : NextTo(a) \in Words
  /\ \A o \in Owners : \A a : Deref(o, a) \in Words
<1>1. Junk \in Words
  BY WordKinds DEF Junk
<1>2. \A i \in DEV .. LEN : Address(i)[2] = i
  BY DEF Address
<1>3. ASSUME NEW a, IsArgument(a)
      PROVE  /\ Address(a[2] + 1) \in Words
             /\ \A o \in Owners : Passed(o, a[2]) \in Words
  <2>1. PICK i \in DEV .. LEN : a = Address(i)
    BY <1>3 DEF IsArgument
  <2>2. a[2] = i /\ i \in 1 .. 3
    BY <1>2, <2>1 DEF DEV, LEN
  <2>3. \A o \in Owners : Passed(o, i) \in {<<"dev", o>>, <<"buffer", o>>, <<"len", o>>}
    BY <2>2 DEF Passed, DEV, BUFFER, LEN
  <2>4. i + 1 \in 1 .. 4
    BY <2>2
  <2> QED
    BY <2>2, <2>3, <2>4, WordKinds
<1> QED
  BY <1>1, <1>3 DEF NextTo, Deref

\* va_start stores an address.
LEMMA KeptVaStart ==
  ASSUME KeptInv, va_start
  PROVE  KeptInv'
<1>1. va' = [va EXCEPT !.at = "va_arg", !.ap = cpu["eax"]] /\ loaded' = loaded
  BY DEF va_start
<1>2. cpu["eax"] \in Words
  BY DEF KeptInv, TypeInv, Regs, General
<1>3. IsVa(va')
  BY <1>1, <1>2 DEF KeptInv, TypeInv, IsVa, Stages, va_start
<1>4. Assign(<< >>) /\ DOMAIN << >> = {}
  BY DEF va_start
<1> QED
  BY <1>1, <1>3, <1>4, KeptAssign DEF KeptInv, TypeInv

\* va_arg computes two addresses.
LEMMA KeptVaArg ==
  ASSUME KeptInv, va_arg
  PROVE  KeptInv'
<1> DEFINE new == [eax |-> va.ap, ecx |-> NextTo(va.ap)]
<1>1. va' = [va EXCEPT !.at = "fetch"] /\ loaded' = loaded /\ Assign(new)
  BY DEF va_arg
<1>2. IsVa(va')
  BY <1>1 DEF KeptInv, TypeInv, IsVa, Stages, va_arg
<1>3. va.ap \in Words
  BY DEF KeptInv, TypeInv, IsVa
<1>4. DOMAIN new \subseteq Regs /\ \A r \in DOMAIN new : new[r] \in Words
  BY <1>3, VaWords DEF Regs, General
<1> HIDE DEF new
<1> QED
  BY <1>1, <1>2, <1>4, KeptAssign DEF KeptInv, TypeInv

\* An argument is fetched.
LEMMA KeptFetch ==
  ASSUME KeptInv, Fetch
  PROVE  KeptInv'
<1> DEFINE value == Deref(cur, cpu["eax"])
           new == [eax |-> value]
<1>1. /\ va' = [va EXCEPT !.at = IF va.nth = LEN THEN "fetched" ELSE "va_arg",
                          !.nth = @ + 1, !.ap = cpu["ecx"], !.args[va.nth] = value]
      /\ loaded' = loaded /\ Assign(new) /\ va.at = "fetch"
  BY DEF Fetch
<1>2. value \in Words
  BY VaWords DEF KeptInv, TypeInv
<1>3. cpu["ecx"] \in Words
  BY DEF KeptInv, TypeInv, Regs, General
<1> HIDE DEF value
<1>4. IsVa(va')
  <2>1. IsVa(va) /\ va.nth \in 1 .. 3
    BY <1>1 DEF KeptInv, TypeInv, IsVa
  <2>2. /\ va'.at = IF va.nth = 3 THEN "fetched" ELSE "va_arg"
        /\ va'.nth = va.nth + 1 /\ va'.ap = cpu["ecx"]
        /\ va'.args = [va.args EXCEPT ![va.nth] = value] /\ va'.torn = va.torn
        /\ va' = [at |-> va'.at, nth |-> va'.nth, ap |-> va'.ap, args |-> va'.args,
                  torn |-> va'.torn]
    BY <1>1, <2>1 DEF IsVa, LEN
  <2>3. va'.args \in [1 .. 3 -> Words]
    BY <1>2, <2>1, <2>2 DEF IsVa
  <2> QED
    BY <1>3, <2>1, <2>2, <2>3 DEF IsVa, Stages
<1>5. DOMAIN new \subseteq Regs /\ \A r \in DOMAIN new : new[r] \in Words
  BY <1>2 DEF Regs, General
<1> HIDE DEF new
<1> QED
  BY <1>1, <1>4, <1>5, KeptAssign DEF KeptInv, TypeInv

\* An argument is loaded.
LEMMA KeptLoadArgument ==
  ASSUME KeptInv, NEW r \in Arguments, LoadArgument(r)
  PROVE  KeptInv'
<1> DEFINE a == Argument(cur, r)
           new == [x \in {r} |-> a]
<1>1. a \in Words /\ r \in Regs
  <2>1. PICK op \in Ops : call[cur] = Calling(op)
    BY DEF LoadArgument, Assign, InCall
  <2>2. a \in {<<"op", op>>, va.args[1], va.args[2], va.args[3]}
    BY <2>1, CallIs DEF Argument, Arguments, DEV, BUFFER, LEN
  <2>3. {<<"op", op>>, va.args[1], va.args[2], va.args[3]} \subseteq Words
    BY WordKinds DEF KeptInv, TypeInv, IsVa
  <2> QED
    BY <2>2, <2>3 DEF Arguments, Regs, General
<1>2. Assign(new) /\ loaded' = loaded \cup {r} /\ va' = va
  BY DEF LoadArgument
<1>3. DOMAIN new \subseteq Regs /\ \A x \in DOMAIN new : new[x] \in Words
  BY <1>1
<1> HIDE DEF new
<1> QED
  BY <1>2, <1>3, KeptAssign DEF KeptInv, TypeInv

\* A stack whose owner waits is full up to esp.
LEMMA WholeStack ==
  ASSUME KeptInv, NEW o \in Owners
  PROVE  StackAt(o, Len(stack[o])) = stack[o]
<1>1. stack[o] \in Seq(Words) /\ Len(stack[o]) \in Nat
  BY LenProperties DEF KeptInv, TypeInv
<1>2. Len(stack[o]) - Len(stack[o]) + 1 = 1
  BY <1>1
<1>3. StackAt(o, Len(stack[o])) = SubSeq(stack[o], 1, Len(stack[o]))
  BY <1>2 DEF StackAt
<1> QED
  BY <1>1, <1>3, SubSeqFull

\* The program that called goes on as another one that returns.
LEMMA ReturnsIs ==
  ASSUME TypeInv, InCall, IntReturns
  PROVE  /\ call' \in [Owners -> Calls]
         /\ call'[cur] \notin {Calling(op) : op \in Ops}
         /\ call'[cur] = Returned(call[cur][2])
         /\ \A o \in Owners \ {cur} : call'[o] = call[o]
<1>1. PICK op \in Ops : call[cur] = Calling(op)
  BY DEF InCall
<1>2. call' = [call EXCEPT ![cur] = Returned(op)] /\ call[cur][2] = op
  BY <1>1, CallIs DEF IntReturns
<1>3. Returned(op) \in Calls
  BY DEF Calls
<1> QED
  BY <1>2, <1>3, CallIs DEF TypeInv

\* The dispatch goes on with the caller, or leaves the caller's context on its
\* stack and takes that of a ready process from the stack of that one.
LEMMA DispatchIs ==
  ASSUME KeptInv, Dispatch
  PROVE  \/ /\ ready = {}
            /\ UNCHANGED <<cur, cpu, stack, stack_top, ready>>
         \/ \E next \in ready :
              /\ cur' = next
              /\ cpu' = Restored(stack[next])
              /\ stack' = [stack EXCEPT ![cur] = frame,
                            ![next] = SubSeq(stack[next], 17, Len(stack[next]))]
              /\ stack_top' = IF cur = Kmain THEN stack_top
                                             ELSE SaveContext(cur, Len(frame))
              /\ ready' = (ready \ {next}) \cup ({cur} \ {Kmain})
<1>1. /\ SubSeq(frame, 17, Len(frame)) = stack[cur]
      /\ Restored(frame) = cpu
  BY FrameIs DEF KeptInv
<1> HIDE DEF frame
<1>2. Len(Popped) + 1 = 17
  BY Lengths
<1>3. CASE ready = {} /\ Resume(cur, frame, stack) /\ UNCHANGED <<stack_top, ready>>
  <2>1. stack' = [stack EXCEPT ![cur] = SubSeq(frame, 17, Len(frame))]
    BY <1>2, <1>3 DEF Resume
  <2> QED
    BY <1>1, <1>3, <2>1 DEF Resume, KeptInv, TypeInv
<1>4. ASSUME NEW next \in ready,
             Resume(next, StackAt(next, stack_top[next]), [stack EXCEPT ![cur] = frame])
      PROVE  /\ cur' = next
             /\ cpu' = Restored(stack[next])
             /\ stack' = [stack EXCEPT ![cur] = frame,
                            ![next] = SubSeq(stack[next], 17, Len(stack[next]))]
  <2>1. next \in Owners /\ stack_top[next] = Len(stack[next])
    BY DEF KeptInv, TypeInv, ReadyKept, Owners
  <2>2. StackAt(next, stack_top[next]) = stack[next]
    BY <2>1, WholeStack
  <2> QED
    BY <1>2, <1>4, <2>2 DEF Resume
<1> QED
  BY <1>3, <1>4 DEF Dispatch

\* Whoever goes on, the caller or another one, finds what it left, and the caller
\* has left a context that holds what it had.
LEMMA KeptDispatch ==
  ASSUME KeptInv, InCall, Dispatch, served' = [o \in Owners |-> served'[o]]
  PROVE  KeptInv'
<1>1. /\ frame \in Seq(Words) /\ Len(frame) = 16 + Len(stack[cur])
      /\ Len(stack[cur]) \in Nat
      /\ \A r \in Regs : frame[At(r)] = cpu[r]
      /\ SubSeq(frame, 17, Len(frame)) = stack[cur]
      /\ Restored(frame) = cpu
  BY FrameIs DEF KeptInv
<1> HIDE DEF frame
<1>2. /\ call' \in [Owners -> Calls]
      /\ call'[cur] \notin {Calling(op) : op \in Ops}
  BY ReturnsIs DEF KeptInv, Dispatch
<1>3. /\ initial_context' = IF initial_context = None THEN Len(frame) ELSE initial_context
      /\ IsVa(va') /\ loaded' = {}
      /\ UNCHANGED <<view, hit>>
  BY LocalsIs DEF Dispatch
<1>4. Len(frame) \in Nat /\ Len(frame) >= 16
  BY <1>1
<1>5. CASE ready = {} /\ UNCHANGED <<cur, cpu, stack, stack_top, ready>>
  <2>1. cur' = cur /\ cpu' = cpu /\ stack' = stack
    BY <1>5
  <2>2. TypeInv'
    BY <1>2, <1>3, <1>4, <1>5, <2>1 DEF KeptInv, TypeInv
  <2>3. RunningKept'
    BY <1>3, <2>1 DEF KeptInv, RunningKept
  <2>4. ReadyKept'
    BY <1>5, <2>1 DEF ReadyKept
  <2>5. KmainKept'
    <3>1. ~InCall'
      BY <1>2, <2>1 DEF InCall
    <3>2. CASE cur = Kmain
      BY <2>1, <3>1, <3>2 DEF KmainKept
    <3>3. CASE cur # Kmain
      <4>1. initial_context = Len(stack[Kmain]) /\ Len(stack[Kmain]) \in Nat
        BY <3>3, LenProperties DEF KeptInv, KmainKept, TypeInv, Owners
      <4>2. initial_context' = initial_context
        BY <1>3, <4>1, ContextAssumption
      <4> QED
        BY <1>3, <2>1, <3>3, <4>2 DEF KeptInv, KmainKept
    <3> QED
      BY <3>2, <3>3
  <2>6. UnloadedKept'
    BY <1>3, <1>5, <2>1 DEF KeptInv, UnloadedKept
  <2> QED
    BY <2>2, <2>3, <2>4, <2>5, <2>6 DEF KeptInv
<1>6. ASSUME NEW next \in ready,
             cur' = next,
             cpu' = Restored(stack[next]),
             stack' = [stack EXCEPT ![cur] = frame,
                         ![next] = SubSeq(stack[next], 17, Len(stack[next]))],
             stack_top' = IF cur = Kmain THEN stack_top ELSE SaveContext(cur, Len(frame)),
             ready' = (ready \ {next}) \cup ({cur} \ {Kmain})
      PROVE  KeptInv'
  <2> DEFINE s == stack[next]
  <2>1. /\ next \in Procs /\ next \in Owners /\ next # cur /\ next # Kmain
        /\ cur \in Owners /\ (cur # Kmain => cur \in Procs)
        /\ Kmain \in Owners /\ Kmain \notin ready
    BY ContextAssumption DEF KeptInv, TypeInv, ReadyKept, Procs, Owners
  <2>2. s \in Seq(Words) /\ Holds(s, view[next], hit[next])
    BY <2>1 DEF KeptInv, TypeInv, ReadyKept
  <2>3. stack' = [stack EXCEPT ![cur] = frame, ![next] = SubSeq(s, 17, Len(s))]
    BY <1>6
  <2>4. cur' = next /\ cpu' = Restored(s)
    BY <1>6
  <2> HIDE DEF s
  <2>5. /\ stack'[next] = view[next].stack
        /\ stack'[cur] = frame
        /\ \A o \in Owners \ {cur, next} : stack'[o] = stack[o]
    BY <2>1, <2>2, <2>3 DEF Holds, KeptInv, TypeInv
  <2>6. \A r \in Regs \ hit[next] : cpu'[r] = view[next].regs[r]
    BY <2>2, <2>4, RestoredIs DEF Holds
  <2>7. /\ stack_top' \in [Procs -> Nat]
        /\ cur # Kmain => stack_top'[cur] = Len(frame)
        /\ \A p \in Procs \ {cur} : stack_top'[p] = stack_top[p]
    BY <1>4, <1>6, <2>1 DEF SaveContext, KeptInv, TypeInv
  <2>8. Holds(frame, view[cur], hit[cur])
    BY <1>1, <1>4 DEF Holds, KeptInv, RunningKept
  <2>9. TypeInv'
    <3>1. cpu' \in [Regs -> Words]
      BY <2>2, <2>4, PoppedWords DEF Holds
    <3>2. stack' \in [Owners -> Seq(Words)]
      BY <1>1, <2>2, <2>3, Upper DEF KeptInv, TypeInv
    <3>3. ready' \in SUBSET Procs
      BY <1>6, <2>1 DEF KeptInv, TypeInv
    <3> QED
      BY <1>2, <1>3, <1>4, <2>1, <2>4, <2>7, <3>1, <3>2, <3>3 DEF KeptInv, TypeInv
  <2>10. RunningKept'
    BY <1>3, <2>4, <2>5, <2>6 DEF RunningKept
  <2>11. ReadyKept'
    <3>1. cur' \notin ready'
      BY <1>6, <2>1, <2>4
    <3>2. \A o \in ready' : /\ stack_top'[o] = Len(stack'[o])
                            /\ Holds(stack'[o], view[o], hit[o])
      <4> TAKE o \in ready'
      <4>1. CASE o = cur /\ cur # Kmain
        BY <4>1, <2>5, <2>7, <2>8
      <4>2. CASE o \in ready \ {next, cur}
        BY <4>2, <2>5, <2>7 DEF KeptInv, TypeInv, ReadyKept, Owners
      <4> QED
        BY <1>6, <2>1, <4>1, <4>2 DEF KeptInv, ReadyKept
    <3> QED
      BY <1>3, <3>1, <3>2 DEF ReadyKept
  <2>12. KmainKept'
    <3>1. cur' # Kmain
      BY <2>1, <2>4
    <3>2. initial_context' = Len(stack'[Kmain]) /\ Holds(stack'[Kmain], view[Kmain], hit[Kmain])
      <4>1. CASE cur = Kmain
        BY <1>3, <2>5, <2>8, <4>1 DEF KeptInv, KmainKept
      <4>2. CASE cur # Kmain
        <5>1. stack'[Kmain] = stack[Kmain]
          BY <2>1, <2>5, <4>2
        <5>2. /\ initial_context = Len(stack[Kmain]) /\ Len(stack[Kmain]) \in Nat
              /\ Holds(stack[Kmain], view[Kmain], hit[Kmain])
          BY <4>2, <2>1, LenProperties DEF KeptInv, KmainKept, TypeInv
        <5> QED
          BY <1>3, <5>1, <5>2, ContextAssumption
      <4> QED
        BY <4>1, <4>2
    <3> QED
      BY <1>3, <3>1, <3>2 DEF KmainKept
  <2>13. UnloadedKept'
    <3> SUFFICES ASSUME NEW p \in Procs, stack_top'[p] = 0
                 PROVE  /\ p \notin ready' /\ p # cur'
                        /\ view[p] = FirstView(p)
                        /\ hit[p] = General \ {"ebp"}
      BY <1>3 DEF UnloadedKept
    <3>1. p # cur
      BY <1>4, <2>7, ContextAssumption DEF Procs
    <3>2. stack_top[p] = 0
      BY <2>7, <3>1
    <3> QED
      BY <1>6, <2>4, <3>1, <3>2 DEF KeptInv, UnloadedKept
  <2> QED
    BY <2>9, <2>10, <2>11, <2>12, <2>13 DEF KeptInv
<1> QED
  BY <1>5, <1>6, DispatchIs

\* The caller of no operation goes on with -1 in eax, and with all else.
LEMMA DefaultIs ==
  ASSUME TypeInv, sys_call_default
  PROVE  /\ cur' = cur /\ stack' = stack
         /\ cpu' = [cpu EXCEPT !["eax"] = ERROR]
<1> DEFINE i == At("eax")
           s == [frame EXCEPT ![i] = ERROR]
<1>1. /\ frame \in Seq(Words) /\ Len(frame) = 16 + Len(stack[cur])
      /\ Len(stack[cur]) \in Nat
      /\ \A r \in Regs : frame[At(r)] = cpu[r]
      /\ SubSeq(frame, 17, Len(frame)) = stack[cur]
  BY FrameIs
<1>2. i \in 1 .. 16 /\ context[i] = "eax" /\ ERROR \in Words /\ "eax" \in Regs
  BY Places, WordKinds DEF Regs, General, ERROR
<1>3. Resume(cur, s, stack)
  BY DEF sys_call_default, At
<1> HIDE DEF frame, i
<1>4. i \in 1 .. Len(frame)
  BY <1>1, <1>2
<1>5. /\ s \in Seq(Words) /\ Len(s) = Len(frame)
      /\ \A j \in 1 .. Len(frame) : s[j] = IF j = i THEN ERROR ELSE frame[j]
  BY <1>1, <1>2, <1>4, ExceptSeq
<1> HIDE DEF s
<1>6. \A r \in Regs : s[At(r)] = IF r = "eax" THEN ERROR ELSE cpu[r]
  <2> TAKE r \in Regs
  <2>1. At(r) \in 1 .. 16 /\ context[At(r)] = r
    BY Places
  <2>2. At(r) = i <=> r = "eax"
    BY <1>2, <2>1 DEF i
  <2> QED
    BY <1>1, <1>5, <2>1, <2>2
<1>7. Restored(s) = [cpu EXCEPT !["eax"] = ERROR]
  BY <1>6, RestoredIs DEF TypeInv
<1>8. SubSeq(s, 17, Len(s)) = stack[cur]
  <2>1. Len(s) \in Int /\ 17 \in Int /\ \A j \in 17 .. Len(s) : s[j] = frame[j]
    BY <1>1, <1>2, <1>5
  <2>2. \A j \in 17 .. Len(s) : s[j] \in Words /\ frame[j] \in Words
    BY <1>1, <1>5, <2>1, ElementOfSeq
  <2>3. /\ SubSeq(s, 17, Len(s)) \in Seq(Words)
        /\ Len(SubSeq(s, 17, Len(s))) = IF 17 <= Len(s) THEN Len(s) - 17 + 1 ELSE 0
        /\ \A j \in 1 .. Len(s) - 17 + 1 : SubSeq(s, 17, Len(s))[j] = s[17 + j - 1]
    BY <2>1, <2>2, SubSeqProperties
  <2>4. /\ SubSeq(frame, 17, Len(s)) \in Seq(Words)
        /\ Len(SubSeq(frame, 17, Len(s))) = IF 17 <= Len(s) THEN Len(s) - 17 + 1 ELSE 0
        /\ \A j \in 1 .. Len(s) - 17 + 1 : SubSeq(frame, 17, Len(s))[j] = frame[17 + j - 1]
    BY <2>1, <2>2, SubSeqProperties
  <2> DEFINE a == SubSeq(s, 17, Len(s))
             b == SubSeq(frame, 17, Len(s))
  <2>5. b = stack[cur]
    BY <1>1, <1>5
  <2> HIDE DEF a, b
  <2>6. \A j \in 1 .. Len(a) : a[j] = b[j]
    BY <1>1, <1>5, <2>1, <2>3, <2>4 DEF a, b
  <2>7. a = b
    BY <2>3, <2>4, <2>6, SeqEqual DEF a, b
  <2> QED
    BY <2>5, <2>7 DEF a
<1>9. Len(Popped) + 1 = 17
  BY Lengths
<1>10. stack' = stack
  BY <1>3, <1>8, <1>9 DEF Resume, TypeInv
<1> QED
  BY <1>3, <1>7, <1>10 DEF Resume

\* A call that is refused changes eax and no more.
LEMMA KeptDefault ==
  ASSUME KeptInv, sys_call_default
  PROVE  KeptInv'
<1>1. /\ cur' = cur /\ stack' = stack
      /\ cpu' = [cpu EXCEPT !["eax"] = ERROR]
  BY DefaultIs DEF KeptInv
<1>2. /\ view' = [view EXCEPT ![cur].regs["eax"] = ERROR]
      /\ hit' = [hit EXCEPT ![cur] = @ \ {"eax"}]
      /\ IsVa(va') /\ loaded' = {}
      /\ UNCHANGED <<stack_top, ready, initial_context, served>>
  BY LocalsIs DEF sys_call_default
<1>3. call' \in [Owners -> Calls] /\ call'[cur] \notin {Calling(op) : op \in Ops}
  BY ReturnsIs DEF KeptInv, sys_call_default
<1>4. ERROR \in Words /\ "eax" \in Regs
  BY WordKinds DEF ERROR, Regs, General
<1>5. \A o \in Owners \ {cur} : view'[o] = view[o] /\ hit'[o] = hit[o]
  BY <1>2 DEF KeptInv, TypeInv
<1>6. /\ view'[cur].regs = [view[cur].regs EXCEPT !["eax"] = ERROR]
      /\ view'[cur].stack = view[cur].stack
      /\ hit'[cur] = hit[cur] \ {"eax"}
  BY <1>2 DEF KeptInv, TypeInv
<1>7. TypeInv'
  <2>1. view' \in [Owners -> [regs : [Regs -> Words], stack : Seq(Words)]]
    BY <1>2, <1>4 DEF KeptInv, TypeInv
  <2> QED
    BY <1>1, <1>2, <1>3, <1>4, <2>1 DEF KeptInv, TypeInv
<1>8. RunningKept'
  BY <1>1, <1>4, <1>6 DEF KeptInv, TypeInv, RunningKept
<1>9. ReadyKept'
  BY <1>1, <1>2, <1>5 DEF KeptInv, TypeInv, ReadyKept, Owners
<1>10. KmainKept'
  BY <1>1, <1>2, <1>3, <1>5 DEF KeptInv, TypeInv, KmainKept, InCall, Owners
<1>11. UnloadedKept'
  BY <1>1, <1>2, <1>5 DEF KeptInv, TypeInv, UnloadedKept, Owners
<1> QED
  BY <1>7, <1>8, <1>9, <1>10, <1>11 DEF KeptInv

\* sys_req returns to the program.
LEMMA KeptReturn ==
  ASSUME KeptInv, sys_req_return
  PROVE  KeptInv'
<1>1. /\ call' = [call EXCEPT ![cur] = OwnCode]
      /\ served' = [served EXCEPT ![cur] = None]
      /\ cur # Kmain
      /\ UNCHANGED <<cur, cpu, stack, stack_top, ready, initial_context, va, loaded,
                     view, hit>>
  BY DEF sys_req_return, Returning, Running
<1>2. TypeInv'
  BY <1>1 DEF KeptInv, TypeInv, Calls
<1>3. RunningKept' /\ ReadyKept' /\ KmainKept' /\ UnloadedKept'
  BY <1>1 DEF KeptInv, RunningKept, ReadyKept, KmainKept, UnloadedKept
<1> QED
  BY <1>2, <1>3 DEF KeptInv

\* The interrupt changes registers that are marked as changed, and no stack.
LEMMA KeptSerialIsr ==
  ASSUME KeptInv, NEW ecx \in {cpu["ecx"], Junk}, serial_isr(ecx)
  PROVE  KeptInv'
<1>1. /\ cpu' = [r \in Regs |-> IF r = "ecx" THEN ecx
                                 ELSE IF r \in Spoilt THEN Junk ELSE cpu[r]]
      /\ hit' = [hit EXCEPT ![cur] = @ \cup {r \in Spoilt : cpu'[r] # cpu[r]}]
      /\ va' = [va EXCEPT !.torn = @ \cup Torn(ecx)]
      /\ UNCHANGED <<cur, stack, stack_top, ready, initial_context, call, loaded,
                     served, view>>
  BY DEF serial_isr
<1>2. Junk \in Words /\ ecx \in Words /\ Spoilt \subseteq Regs
  BY VaWords DEF KeptInv, TypeInv, Regs, General, Spoilt
<1>3. TypeInv'
  <2>1. Torn(ecx) \subseteq 1 .. 3
    BY DEF Torn, DEV, BUFFER, LEN, KeptInv, TypeInv, IsVa, Stages
  <2>2. IsVa(va')
    BY <1>1, <2>1 DEF KeptInv, TypeInv, IsVa
  <2>3. cpu' \in [Regs -> Words]
    BY <1>1, <1>2 DEF KeptInv, TypeInv
  <2>4. hit' \in [Owners -> SUBSET Regs]
    BY <1>1, <1>2 DEF KeptInv, TypeInv
  <2> QED
    BY <1>1, <2>2, <2>3, <2>4 DEF KeptInv, TypeInv
<1>4. RunningKept'
  <2>1. hit'[cur] = hit[cur] \cup {r \in Spoilt : cpu'[r] # cpu[r]}
    BY <1>1 DEF KeptInv, TypeInv
  <2>2. \A r \in Regs \ hit'[cur] : cpu'[r] = cpu[r]
    BY <1>1, <2>1 DEF Spoilt
  <2> QED
    BY <1>1, <2>1, <2>2 DEF KeptInv, RunningKept
<1>5. \A o \in Owners \ {cur} : hit'[o] = hit[o]
  BY <1>1 DEF KeptInv, TypeInv
<1>6. ReadyKept'
  BY <1>1, <1>5 DEF KeptInv, TypeInv, ReadyKept, Owners
<1>7. KmainKept'
  BY <1>1, <1>5 DEF KeptInv, KmainKept, InCall, Owners
<1>8. UnloadedKept'
  BY <1>1, <1>5 DEF KeptInv, UnloadedKept, Owners
<1> QED
  BY <1>3, <1>4, <1>6, <1>7, <1>8 DEF KeptInv

\* Every step keeps the invariant.
LEMMA KeptNext ==
  ASSUME KeptInv, [Next]_vars
  PROVE  KeptInv'
<1>1. CASE UNCHANGED vars
  BY <1>1 DEF vars, KeptInv, TypeInv, RunningKept, ReadyKept, KmainKept, UnloadedKept,
              InCall
<1>2. CASE Next
  <2>1. CASE sys_call_IDLE
    BY <2>1, KeptDispatch DEF sys_call_IDLE, Int60, KeptInv, TypeInv
  <2>2. CASE sys_call_READ_WRITE
    <3>1. served' = [o \in Owners |-> served'[o]]
      BY <2>2 DEF sys_call_READ_WRITE, KeptInv, TypeInv
    <3> QED
      BY <2>2, <3>1, KeptDispatch DEF sys_call_READ_WRITE, Int60
  <2>3. CASE sys_call_EXIT
    BY <2>3 DEF sys_call_EXIT, KeptInv, TypeInv, RunningKept, ReadyKept, KmainKept,
                UnloadedKept, InCall
  <2> QED
    BY <1>2, <2>1, <2>2, <2>3, KeptLoadR3, KeptSysReq, KeptVaStart, KeptVaArg, KeptFetch,
       KeptLoadArgument, KeptDefault, KeptReturn, KeptSerialIsr DEF Next
<1> QED
  BY <1>1, <1>2

\* The invariant holds in every state.
LEMMA KeptAlways == Spec => []KeptInv
<1>1. Init => KeptInv
  BY KeptInit
<1>2. KeptInv /\ [Next]_vars => KeptInv'
  BY KeptNext
<1> QED
  BY <1>1, <1>2, PTL DEF Spec

\* The invariant tells what the property says.
LEMMA KeptIs ==
  ASSUME KeptInv
  PROVE  RegistersKept
<1> SUFFICES ASSUME NEW o \in (ready \cup {Kmain}) \ {cur}
             PROVE  LET s == StackAt(o, IF o = Kmain THEN initial_context ELSE stack_top[o])
                    IN  /\ \A r \in Regs \ hit[o] : Field(s, r) = view[o].regs[r]
                        /\ SubSeq(s, Len(context) + 1, Len(s)) = view[o].stack
  BY DEF KeptInv, RunningKept, RegistersKept
<1> DEFINE esp == IF o = Kmain THEN initial_context ELSE stack_top[o]
<1>1. o \in Owners
  BY DEF KeptInv, TypeInv, Owners
<1>2. esp = Len(stack[o]) /\ Holds(stack[o], view[o], hit[o])
  BY DEF KeptInv, ReadyKept, KmainKept
<1>3. StackAt(o, esp) = stack[o]
  BY <1>1, <1>2, WholeStack
<1>4. Len(context) + 1 = 17
  BY Lengths
<1> HIDE DEF esp
<1>5. /\ \A r \in Regs \ hit[o] : Field(StackAt(o, esp), r) = view[o].regs[r]
      /\ SubSeq(StackAt(o, esp), Len(context) + 1, Len(StackAt(o, esp))) = view[o].stack
  BY <1>2, <1>3, <1>4 DEF Holds, Field, At
<1> QED
  BY <1>5 DEF esp

\* Whatever is switched, called or interrupted, a program finds its registers
\* and its stack as it left them: what sys_call_isr pushes, struct context, the
\* contexts of new processes and the pops agree, and stack_top and
\* initial_context point to them.  Only serial_isr changes registers.
THEOREM ContextKeepsRegisters == Spec => []RegistersKept
<1>1. KeptInv => RegistersKept
  BY KeptIs
<1> QED
  BY <1>1, KeptAlways, PTL
-----------------------------------------------------------------------------
(***************************************************************************)
(* The arguments of a call.                                                *)
(***************************************************************************)

\* Only the program that runs is between the entry of sys_req and its int.
OneCaller == \A o \in Owners : call[o] \in {Calling(op) : op \in Ops} => o = cur

\* Whoever is in a call of READ or WRITE has in eax, ecx and ap the addresses that
\* the va_arg code needs, and in its locals what it was passed, but for the
\* arguments that an interrupt has taken.
Fetching ==
  cur # Kmain /\ call[cur] \in {Calling("READ"), Calling("WRITE")} =>
    /\ va.at = "va_start" =>
         va.nth = 1 /\ (1 .. 3 \subseteq va.torn \/ cpu["eax"] = Address(1))
    /\ va.at = "va_arg" => va.nth .. 3 \subseteq va.torn \/ va.ap = Address(va.nth)
    /\ va.at = "fetch" =>
         /\ va.nth \in va.torn \/ cpu["eax"] = Address(va.nth)
         /\ va.nth + 1 .. 3 \subseteq va.torn \/ cpu["ecx"] = Address(va.nth + 1)
    /\ va.at = "fetched" => va.nth = 4
    /\ \A i \in 1 .. va.nth - 1 : va.args[i] = Passed(cur, i) \/ i \in va.torn

\* An interrupt that comes when eax has the op code takes that: the others need
\* no more care.
Loading ==
  cur # Kmain /\ InCall =>
    /\ loaded # {} => va.at = "fetched"
    /\ "ebx" \in loaded => cpu["ebx"] = va.args[1]
    /\ "eax" \in loaded => cpu["eax"] \in {Argument(cur, "eax"), Junk}
    /\ "eax" \notin loaded \/ cpu["eax"] = Argument(cur, "eax") =>
         /\ "ecx" \in loaded => cpu["ecx"] = va.args[2] \/ 2 \in va.torn
         /\ "edx" \in loaded => cpu["edx"] = va.args[3] \/ 3 \in va.torn

\* A request as its caller p, now at c, made it, but for what an interrupt took.
Made(p, c, req) ==
  /\ c = Returned(req.op[2])
  /\ \A i \in DEV .. LEN : req.args[i] = Passed(p, i) \/ i \in req.torn

\* After a call that was served, eax is no error code, wherever it is kept.
ServedRight ==
  \A p \in Procs : served[p] # None =>
    /\ Made(p, call[p], served[p])
    /\ p = cur => cpu["eax"] # ERROR
    /\ p \in ready => stack[p][At("eax")] # ERROR

ArgInv == OneCaller /\ Fetching /\ Loading /\ ServedRight

\* No op code, and not what serial_interrupt leaves in eax, is the error code.
LEMMA NoErrors ==
  /\ \A op : <<"op", op>> # ERROR /\ <<"op", op>> # Junk
  /\ Junk # ERROR
  /\ \A a, b : <<"op", a>> = <<"op", b>> => a = b
BY DEF ERROR, Junk, Word

\* Nobody whose call was served is in its own code or about to call.
LEMMA NotServed ==
  ASSUME ArgInv, NEW p \in Procs,
         call[p] = OwnCode \/ call[p] \in {Calling(op) : op \in Ops}
  PROVE  served[p] = None
<1>1. served[p] # None => call[p] = Returned(served[p].op[2])
  BY DEF ArgInv, ServedRight, Made
<1>2. \A op : Returned(op) # OwnCode /\ Returned(op) \notin {Calling(o) : o \in Ops}
  BY CallIs
<1> QED
  BY <1>1, <1>2

\* Before the first call nothing was served.
LEMMA ArgInit ==
  ASSUME Init
  PROVE  ArgInv
<1>1. OneCaller
  BY CallIs DEF Init, OneCaller
<1>2. Fetching /\ Loading
  BY DEF Init, Fetching, Loading
<1>3. ServedRight
  BY DEF Init, ServedRight, Owners
<1> QED
  BY <1>1, <1>2, <1>3 DEF ArgInv

\* A new process has no call, and no error code in its eax.
LEMMA ArgLoadR3 ==
  ASSUME KeptInv, ArgInv, NEW p \in LoadProcs, load_r3(p)
  PROVE  ArgInv'
<1>1. /\ stack' = [stack EXCEPT ![p] = NewContext(p, FALSE)]
      /\ ready' = ready \cup {p}
      /\ UNCHANGED <<cur, cpu, call, va, loaded, served>>
  BY DEF load_r3
<1>2. p \in Procs /\ p \in Owners
  BY DEF Procs, Owners
<1>3. NewContext(p, FALSE)[At("eax")] # ERROR
  BY <1>2, NewContextIs
<1>4. OneCaller' /\ Fetching' /\ Loading'
  BY <1>1 DEF ArgInv, OneCaller, Fetching, Loading, InCall, Argument
<1>5. ServedRight'
  <2>1. \A o \in ready : o # p => stack'[o] = stack[o]
    BY <1>1 DEF KeptInv, TypeInv, Owners
  <2>2. stack'[p][At("eax")] # ERROR
    BY <1>1, <1>2, <1>3 DEF KeptInv, TypeInv
  <2> QED
    BY <1>1, <2>1, <2>2 DEF ArgInv, ServedRight, Made
<1> QED
  BY <1>4, <1>5 DEF ArgInv

\* At the entry of sys_req nothing is fetched and nothing loaded.
LEMMA ArgSysReq ==
  ASSUME KeptInv, ArgInv, NEW op \in Ops, NEW g \in Gens, NEW d \in Depths,
         sys_req(op, g, d)
  PROVE  ArgInv'
<1> DEFINE io == op \in {"READ", "WRITE"}
<1>1. /\ cpu' = [r \in Regs |-> IF r \in Segments \cup {"cs"} THEN cpu[r]
                                 ELSE IF r = "eax" /\ io THEN Address(DEV)
                                 ELSE <<cur, r, g>>]
      /\ call' = [call EXCEPT ![cur] = Calling(op)]
      /\ va' = IF io THEN Locals("va_start", DEV) ELSE Fetched
      /\ loaded' = {}
      /\ cur # Kmain /\ call[cur] = OwnCode
      /\ UNCHANGED <<cur, ready, served>>
  BY DEF sys_req, Running
<1>2. cur \in Procs /\ cur \in Owners
  BY <1>1 DEF KeptInv, TypeInv, Owners
<1>3. \A o \in Owners \ {cur} : stack'[o] = stack[o] /\ call'[o] = call[o]
  BY DEF sys_req, KeptInv, TypeInv
<1>4. OneCaller'
  BY <1>1, <1>3 DEF ArgInv, OneCaller
<1>5. Loading'
  BY <1>1 DEF Loading
<1>6. Fetching'
  <2> SUFFICES ASSUME call'[cur] \in {Calling("READ"), Calling("WRITE")}
               PROVE  va'.at = "va_start" /\ va'.nth = 1 /\ cpu'["eax"] = Address(1)
    BY <1>1 DEF Fetching
  <2>1. call'[cur] = Calling(op)
    BY <1>1, <1>2 DEF KeptInv, TypeInv
  <2>2. io
    BY <2>1, CallIs
  <2> QED
    BY <1>1, <2>2 DEF Locals, DEV, Regs, General, Segments
<1>7. ServedRight'
  <2>1. served[cur] = None
    BY <1>1, <1>2, NotServed
  <2> QED
    BY <1>1, <1>3, <2>1 DEF ArgInv, ServedRight, Made, Owners
<1> QED
  BY <1>4, <1>5, <1>6, <1>7 DEF ArgInv

\* Whoever assigns registers before its int has no request, and stays in its call.
LEMMA ArgAssign ==
  ASSUME KeptInv, ArgInv, NEW new, Assign(new), Fetching', Loading'
  PROVE  ArgInv'
<1>1. /\ cur # Kmain /\ InCall
      /\ UNCHANGED <<cur, stack, ready, call, served>>
  BY DEF Assign, Running
<1>2. cur \in Procs
  BY <1>1 DEF KeptInv, TypeInv, Owners
<1>3. OneCaller'
  BY <1>1 DEF ArgInv, OneCaller
<1>4. served[cur] = None
  BY <1>1, <1>2, NotServed DEF InCall
<1>5. ServedRight'
  BY <1>1, <1>4 DEF ArgInv, ServedRight, Made
<1> QED
  BY <1>3, <1>5 DEF ArgInv

\* What is assigned.
LEMMA Assigned ==
  ASSUME NEW new, Assign(new)
  PROVE  /\ cur # Kmain /\ InCall /\ UNCHANGED <<cur, call>>
         /\ \A r \in Regs : cpu'[r] = IF r \in DOMAIN new THEN new[r] ELSE cpu[r]
BY DEF Assign, With, Running

\* va_start stores the address of the first argument, unless all are torn.
LEMMA ArgVaStart ==
  ASSUME KeptInv, ArgInv, va_start
  PROVE  ArgInv'
<1>1. /\ va.at = "va_start"
      /\ va' = [va EXCEPT !.at = "va_arg", !.ap = cpu["eax"]] /\ loaded' = loaded
      /\ Assign(<< >>)
  BY DEF va_start
<1>2. /\ cur # Kmain /\ InCall /\ UNCHANGED <<cur, call>>
  BY <1>1, Assigned
<1>3. IsVa(va)
  BY DEF KeptInv, TypeInv
<1>4. Fetching'
  BY <1>1, <1>2, <1>3 DEF ArgInv, Fetching, IsVa
<1>5. loaded = {}
  BY <1>1, <1>2 DEF ArgInv, Loading
<1>6. Loading'
  BY <1>1, <1>5 DEF Loading
<1> QED
  BY <1>1, <1>4, <1>6, ArgAssign

\* va_arg computes the address of this argument and of the next, unless this one
\* and all behind it are torn.
LEMMA ArgVaArg ==
  ASSUME KeptInv, ArgInv, va_arg
  PROVE  ArgInv'
<1> DEFINE new == [eax |-> va.ap, ecx |-> NextTo(va.ap)]
<1>1. /\ va.at = "va_arg" /\ va' = [va EXCEPT !.at = "fetch"] /\ loaded' = loaded
      /\ Assign(new)
  BY DEF va_arg
<1>2. DOMAIN new = {"eax", "ecx"} /\ new["eax"] = va.ap /\ new["ecx"] = NextTo(va.ap)
  OBVIOUS
<1> HIDE DEF new
<1>3. /\ cur # Kmain /\ InCall /\ UNCHANGED <<cur, call>>
      /\ cpu'["eax"] = va.ap /\ cpu'["ecx"] = NextTo(va.ap)
  BY <1>1, <1>2, Assigned DEF Regs, General
<1>4. IsVa(va)
  BY DEF KeptInv, TypeInv
<1>5. Fetching'
  <2> SUFFICES ASSUME call[cur] \in {Calling("READ"), Calling("WRITE")}
               PROVE  /\ va.nth \in va.torn \/ va.ap = Address(va.nth)
                      /\ \/ va.nth + 1 .. 3 \subseteq va.torn
                         \/ NextTo(va.ap) = Address(va.nth + 1)
                      /\ \A i \in 1 .. va.nth - 1 :
                           va.args[i] = Passed(cur, i) \/ i \in va.torn
    BY <1>1, <1>3, <1>4 DEF Fetching, IsVa
  <2>1. va.nth \in 1 .. 3
    BY <1>1, <1>4 DEF IsVa
  <2>2. /\ va.nth .. 3 \subseteq va.torn \/ va.ap = Address(va.nth)
        /\ \A i \in 1 .. va.nth - 1 : va.args[i] = Passed(cur, i) \/ i \in va.torn
    BY <1>1, <1>3 DEF ArgInv, Fetching
  <2>3. va.ap = Address(va.nth) => NextTo(va.ap) = Address(va.nth + 1)
    BY <2>1 DEF NextTo, IsArgument, Address, DEV, LEN
  <2> QED
    BY <2>1, <2>2, <2>3
<1>6. loaded = {}
  BY <1>1, <1>3 DEF ArgInv, Loading
<1>7. Loading'
  BY <1>1, <1>6 DEF Loading
<1> QED
  BY <1>1, <1>5, <1>7, ArgAssign

\* What is fetched from the address of an argument is that argument.
LEMMA ArgFetch ==
  ASSUME KeptInv, ArgInv, Fetch
  PROVE  ArgInv'
<1> DEFINE value == Deref(cur, cpu["eax"])
<1>1. /\ va.at = "fetch"
      /\ va' = [va EXCEPT !.at = IF va.nth = LEN THEN "fetched" ELSE "va_arg",
                          !.nth = @ + 1, !.ap = cpu["ecx"], !.args[va.nth] = value]
      /\ loaded' = loaded /\ Assign([eax |-> value])
  BY DEF Fetch
<1>2. /\ cur # Kmain /\ InCall /\ UNCHANGED <<cur, call>>
  BY <1>1, Assigned
<1>3. IsVa(va) /\ va.nth \in 1 .. 3
  BY <1>1 DEF KeptInv, TypeInv, IsVa
<1>4. cpu["eax"] = Address(va.nth) => value = Passed(cur, va.nth)
  BY <1>3 DEF Deref, IsArgument, Address, DEV, LEN
<1> HIDE DEF value
<1>5. /\ va'.at = IF va.nth = 3 THEN "fetched" ELSE "va_arg"
      /\ va'.nth = va.nth + 1 /\ va'.ap = cpu["ecx"] /\ va'.torn = va.torn
      /\ va'.args[va.nth] = value
      /\ \A i \in 1 .. va.nth - 1 : va'.args[i] = va.args[i]
  BY <1>1, <1>3 DEF IsVa, LEN
<1>6. Fetching'
  <2> SUFFICES ASSUME call[cur] \in {Calling("READ"), Calling("WRITE")}
               PROVE  /\ \/ va.nth + 1 .. 3 \subseteq va.torn
                         \/ cpu["ecx"] = Address(va.nth + 1)
                      /\ \A i \in 1 .. va.nth :
                           va'.args[i] = Passed(cur, i) \/ i \in va.torn
    BY <1>2, <1>3, <1>5 DEF Fetching
  <2>1. /\ va.nth \in va.torn \/ cpu["eax"] = Address(va.nth)
        /\ va.nth + 1 .. 3 \subseteq va.torn \/ cpu["ecx"] = Address(va.nth + 1)
        /\ \A i \in 1 .. va.nth - 1 : va.args[i] = Passed(cur, i) \/ i \in va.torn
    BY <1>1, <1>2 DEF ArgInv, Fetching
  <2>2. ASSUME NEW i \in 1 .. va.nth
        PROVE  va'.args[i] = Passed(cur, i) \/ i \in va.torn
    <3>1. CASE i = va.nth
      BY <1>4, <1>5, <2>1, <3>1
    <3>2. CASE i \in 1 .. va.nth - 1
      BY <1>5, <2>1, <3>2
    <3> QED
      BY <1>3, <3>1, <3>2
  <2> QED
    BY <2>1, <2>2
<1>7. loaded = {}
  BY <1>1, <1>2 DEF ArgInv, Loading
<1>8. Loading'
  BY <1>1, <1>7 DEF Loading
<1> QED
  BY <1>1, <1>6, <1>8, ArgAssign

\* A register is loaded with what was fetched.
LEMMA ArgLoadArgument ==
  ASSUME KeptInv, ArgInv, NEW r \in Arguments, LoadArgument(r)
  PROVE  ArgInv'
<1> DEFINE new == [x \in {r} |-> Argument(cur, r)]
<1>1. /\ Assign(new) /\ va.at = "fetched" /\ va' = va
      /\ loaded' = loaded \cup {r} /\ r \notin loaded
  BY DEF LoadArgument
<1>2. DOMAIN new = {r} /\ new[r] = Argument(cur, r)
  OBVIOUS
<1> HIDE DEF new
<1>3. /\ cur # Kmain /\ InCall /\ UNCHANGED <<cur, call>>
      /\ cpu'[r] = Argument(cur, r)
      /\ \A q \in Arguments \ {r} : cpu'[q] = cpu[q]
  BY <1>1, <1>2, Assigned DEF Arguments, Regs, General
<1>4. Fetching'
  BY <1>1, <1>3 DEF ArgInv, Fetching
<1>5. Loading'
  <2>1. \A q : Argument(cur, q)' = Argument(cur, q)
    BY <1>1, <1>3 DEF Argument
  <2>2. /\ Argument(cur, "ebx") = va.args[1]
        /\ Argument(cur, "ecx") = va.args[2]
        /\ Argument(cur, "edx") = va.args[3]
    BY DEF Argument, DEV, BUFFER, LEN
  <2>3. r \in {"eax", "ebx", "ecx", "edx"}
    BY DEF Arguments
  <2>4. Loading
    BY DEF ArgInv
  <2>5. /\ "ebx" \in loaded' => cpu'["ebx"] = va.args[1]
        /\ "eax" \in loaded' => cpu'["eax"] \in {Argument(cur, "eax"), Junk}
    BY <1>1, <1>3, <2>2, <2>3, <2>4 DEF Loading, Arguments
  <2>6. ASSUME "eax" \notin loaded' \/ cpu'["eax"] = Argument(cur, "eax")
        PROVE  /\ "ecx" \in loaded' => cpu'["ecx"] = va.args[2] \/ 2 \in va.torn
               /\ "edx" \in loaded' => cpu'["edx"] = va.args[3] \/ 3 \in va.torn
    <3>1. "eax" \notin loaded \/ cpu["eax"] = Argument(cur, "eax")
      BY <1>1, <1>3, <2>6 DEF Arguments
    <3> QED
      BY <1>1, <1>3, <2>2, <2>3, <2>4, <3>1 DEF Loading, Arguments
  <2> QED
    BY <1>1, <1>3, <2>1, <2>5, <2>6 DEF Loading
<1> QED
  BY <1>1, <1>4, <1>5, ArgAssign

\* What a switch does to the eax of whoever had a call served.
LEMMA ArgDispatch ==
  ASSUME KeptInv, ArgInv, InCall, Dispatch, cpu["eax"] # ERROR,
         \A p \in Procs \ {cur} : served'[p] = served[p],
         cur # Kmain /\ served'[cur] # None => Made(cur, call'[cur], served'[cur])
  PROVE  ArgInv'
<1>1. /\ call'[cur] \notin {Calling(op) : op \in Ops}
      /\ \A o \in Owners \ {cur} : call'[o] = call[o]
  BY ReturnsIs DEF KeptInv, Dispatch
<1>2. cur \in Owners /\ ready \subseteq Procs /\ cur \notin ready
  BY DEF KeptInv, TypeInv, ReadyKept
<1>3. /\ \A r \in Regs : frame[At(r)] = cpu[r]
      /\ "eax" \in Regs
  BY FrameIs DEF KeptInv, Regs, General
<1> HIDE DEF frame
<1>4. \A o \in Owners : call'[o] \notin {Calling(op) : op \in Ops}
  BY <1>1 DEF ArgInv, OneCaller
<1>5. cur' \in Owners
  BY <1>2, DispatchIs DEF Owners
<1>6. OneCaller' /\ Fetching' /\ Loading'
  BY <1>4, <1>5 DEF OneCaller, Fetching, Loading, InCall, Ops
<1>7. \A p \in Procs : served'[p] # None => Made(p, call'[p], served'[p])
  BY <1>1, ContextAssumption DEF ArgInv, ServedRight, Owners, Procs
<1>8. ASSUME NEW p \in Procs, served'[p] # None
      PROVE  /\ p = cur' => cpu'["eax"] # ERROR
             /\ p \in ready' => stack'[p][At("eax")] # ERROR
  <2>1. CASE UNCHANGED <<cur, cpu, stack, ready>>
    BY <1>2, <1>8, <2>1 DEF ArgInv, ServedRight
  <2>2. ASSUME NEW next \in ready,
               cur' = next,
               cpu' = Restored(stack[next]),
               stack' = [stack EXCEPT ![cur] = frame,
                           ![next] = SubSeq(stack[next], 17, Len(stack[next]))],
               ready' = (ready \ {next}) \cup ({cur} \ {Kmain})
        PROVE  /\ p = cur' => cpu'["eax"] # ERROR
               /\ p \in ready' => stack'[p][At("eax")] # ERROR
    <3>1. cpu'["eax"] = stack[next][At("eax")]
      BY <1>3, <2>2, RestoredIs
    <3>2. stack'[cur] = frame /\ \A o \in Owners \ {cur, next} : stack'[o] = stack[o]
      BY <1>2, <2>2 DEF KeptInv, TypeInv
    <3>3. CASE p = next
      BY <1>2, <1>8, <2>2, <3>1, <3>3 DEF ArgInv, ServedRight
    <3>4. CASE p = cur
      BY <1>2, <1>3, <2>2, <3>2, <3>4
    <3>5. CASE p # cur /\ p # next
      BY <1>8, <2>2, <3>2, <3>5 DEF ArgInv, ServedRight, Owners
    <3> QED
      BY <3>3, <3>4, <3>5
  <2> QED
    BY <2>1, <2>2, DispatchIs
<1>9. ServedRight'
  BY <1>7, <1>8 DEF ServedRight
<1> QED
  BY <1>6, <1>9 DEF ArgInv

\* What sys_call reads of the context is what is in the registers.
LEMMA FieldIs ==
  ASSUME KeptInv, NEW r \in Regs
  PROVE  Field(frame, r) = cpu[r]
<1>1. frame[At(r)] = cpu[r]
  BY FrameIs DEF KeptInv
<1> QED
  BY <1>1, Zenon DEF Field, At

\* A yield serves nothing.
LEMMA ArgIdle ==
  ASSUME KeptInv, ArgInv, sys_call_IDLE
  PROVE  ArgInv'
<1>1. cpu["eax"] = <<"op", "IDLE">>
  BY FieldIs DEF sys_call_IDLE, Int60, Regs, General
<1>2. cur # Kmain => served[cur] = None
  BY NotServed DEF KeptInv, TypeInv, Owners, sys_call_IDLE, Int60, InCall
<1> QED
  BY <1>1, <1>2, ArgDispatch, NoErrors DEF sys_call_IDLE, Int60

\* With the op code intact, so is what no interrupt has taken.
LEMMA ArgReadWrite ==
  ASSUME KeptInv, ArgInv, sys_call_READ_WRITE
  PROVE  ArgInv'
<1>1. PICK op \in {"READ", "WRITE"} : Int60(op)
  BY DEF sys_call_READ_WRITE
<1>2. {"eax", "ebx", "ecx", "edx"} \subseteq Regs
  BY DEF Regs, General
<1>3. Request = [op |-> cpu["eax"], torn |-> va.torn,
                 args |-> <<cpu["ebx"], cpu["ecx"], cpu["edx"]>>]
  BY <1>2, FieldIs DEF Request
<1>4. cpu["eax"] = <<"op", op>> /\ InCall /\ loaded = Arguments
  BY <1>1, <1>2, FieldIs DEF Int60
<1>5. cur \in Owners /\ served' = [served EXCEPT ![cur] = Request] /\ Dispatch
  BY DEF sys_call_READ_WRITE, KeptInv, TypeInv
<1>6. served'[cur] = Request /\ \A p \in Procs \ {cur} : served'[p] = served[p]
  BY <1>5 DEF KeptInv, TypeInv, Owners
<1>7. call'[cur] = Returned(call[cur][2])
  BY <1>4, <1>5, ReturnsIs DEF KeptInv, Dispatch
<1>8. ASSUME cur # Kmain
      PROVE  Made(cur, call'[cur], served'[cur])
  <2>1. PICK o \in Ops : call[cur] = Calling(o)
    BY <1>4 DEF InCall
  <2>2. Argument(cur, "eax") = <<"op", o>>
    BY <2>1, CallIs DEF Argument
  <2>3. /\ va.at = "fetched"
        /\ cpu["eax"] = <<"op", o>> /\ o = op
        /\ cpu["ebx"] = va.args[1]
        /\ cpu["ecx"] = va.args[2] \/ 2 \in va.torn
        /\ cpu["edx"] = va.args[3] \/ 3 \in va.torn
    BY <1>4, <1>8, <2>2, NoErrors DEF ArgInv, Loading, Arguments
  <2>4. call'[cur] = Returned(o) /\ cpu["eax"][2] = o
    BY <1>7, <2>1, <2>3, CallIs
  <2>5. \A i \in 1 .. 3 : va.args[i] = Passed(cur, i) \/ i \in va.torn
    BY <1>8, <2>1, <2>3 DEF ArgInv, Fetching
  <2>6. \A i \in DEV .. LEN : i = 1 \/ i = 2 \/ i = 3
    BY DEF DEV, LEN
  <2>7. \A i \in DEV .. LEN : Request.args[i] = Passed(cur, i) \/ i \in Request.torn
    BY <1>3, <2>3, <2>5, <2>6
  <2> QED
    BY <1>3, <1>6, <2>3, <2>4, <2>7 DEF Made
<1> QED
  BY <1>4, <1>5, <1>6, <1>8, ArgDispatch, NoErrors

\* What is refused was not served.
LEMMA ArgDefault ==
  ASSUME KeptInv, ArgInv, sys_call_default
  PROVE  ArgInv'
<1>1. /\ cur' = cur /\ stack' = stack /\ ready' = ready /\ served' = served
      /\ InCall
  BY DefaultIs DEF KeptInv, sys_call_default
<1>2. /\ call'[cur] \notin {Calling(op) : op \in Ops}
      /\ \A o \in Owners \ {cur} : call'[o] = call[o]
  BY ReturnsIs DEF KeptInv, sys_call_default
<1>3. OneCaller' /\ Fetching' /\ Loading'
  BY <1>1, <1>2 DEF ArgInv, OneCaller, Fetching, Loading, InCall, Ops
<1>4. cur \in Procs => served[cur] = None
  BY <1>1, NotServed DEF InCall
<1>5. ServedRight'
  BY <1>1, <1>2, <1>4 DEF ArgInv, ServedRight, Owners
<1> QED
  BY <1>3, <1>5 DEF ArgInv

\* The end of the call forgets the request.
LEMMA ArgReturn ==
  ASSUME KeptInv, ArgInv, sys_req_return
  PROVE  ArgInv'
<1>1. /\ call' = [call EXCEPT ![cur] = OwnCode]
      /\ served' = [served EXCEPT ![cur] = None]
      /\ UNCHANGED <<cur, cpu, stack, ready>>
      /\ cur \in Owners
  BY DEF sys_req_return, KeptInv, TypeInv
<1>2. /\ call'[cur] = OwnCode /\ served'[cur] = None
      /\ \A o \in Owners \ {cur} : call'[o] = call[o] /\ served'[o] = served[o]
  BY <1>1 DEF KeptInv, TypeInv
<1>3. OneCaller' /\ Fetching' /\ Loading'
  BY <1>1, <1>2, CallIs DEF ArgInv, OneCaller, Fetching, Loading, InCall, Ops
<1>4. ServedRight'
  BY <1>1, <1>2 DEF ArgInv, ServedRight, Owners
<1> QED
  BY <1>3, <1>4 DEF ArgInv

\* The interrupt marks the arguments it takes.  It leaves in eax neither an op
\* code nor the error code.
LEMMA ArgSerialIsr ==
  ASSUME KeptInv, ArgInv, NEW ecx \in {cpu["ecx"], Junk}, serial_isr(ecx)
  PROVE  ArgInv'
<1>1. /\ cpu' = [r \in Regs |-> IF r = "ecx" THEN ecx
                                 ELSE IF r \in Spoilt THEN Junk ELSE cpu[r]]
      /\ va' = [va EXCEPT !.torn = @ \cup Torn(ecx)]
      /\ UNCHANGED <<cur, stack, ready, call, loaded, served>>
  BY DEF serial_isr
<1>2. cpu'["eax"] = Junk /\ cpu'["ebx"] = cpu["ebx"] /\ cpu'["ecx"] = ecx
  BY <1>1 DEF Regs, General, Spoilt
<1>3. OneCaller'
  BY <1>1 DEF ArgInv, OneCaller
<1>4. IsVa(va)
  BY DEF KeptInv, TypeInv
<1>5. /\ va'.at = va.at /\ va'.nth = va.nth /\ va'.ap = va.ap /\ va'.args = va.args
      /\ va'.torn = va.torn \cup Torn(ecx)
  BY <1>1, <1>4 DEF IsVa
<1>6. Fetching'
  <2> SUFFICES ASSUME cur # Kmain, call[cur] \in {Calling("READ"), Calling("WRITE")}
               PROVE  Fetching'
    BY <1>1 DEF Fetching
  <2>1. Fetching
    BY DEF ArgInv
  <2>2. CASE va.at = "va_start"
    <3>1. va'.torn = va.torn \cup 1 .. 3
      BY <1>5, <2>2 DEF Torn, DEV, LEN
    <3> QED
      BY <1>1, <1>5, <2>1, <2>2, <3>1 DEF Fetching
  <2>3. CASE va.at = "va_arg"
    BY <1>1, <1>5, <2>1, <2>3 DEF Fetching
  <2>4. CASE va.at = "fetch"
    <3>1. va.nth \in 1 .. 3
      BY <1>4, <2>4 DEF IsVa
    <3>2. Torn(ecx) = IF ecx = cpu["ecx"] THEN {va.nth} ELSE va.nth .. 3
      BY <2>4 DEF Torn, LEN
    <3>3. va.nth \in va'.torn
      BY <1>5, <3>1, <3>2
    <3>4. va.nth + 1 .. 3 \subseteq va'.torn \/ ecx = Address(va.nth + 1)
      <4>1. CASE ecx = cpu["ecx"]
        BY <1>5, <2>1, <2>4, <4>1 DEF Fetching
      <4>2. CASE ecx # cpu["ecx"]
        BY <1>5, <3>1, <3>2, <4>2
      <4> QED
        BY <4>1, <4>2
    <3>5. \A i \in 1 .. va.nth - 1 : va.args[i] = Passed(cur, i) \/ i \in va'.torn
      BY <1>5, <2>1, <2>4 DEF Fetching
    <3> QED
      BY <1>1, <1>2, <1>5, <2>4, <3>3, <3>4, <3>5 DEF Fetching
  <2>5. CASE va.at = "fetched"
    BY <1>1, <1>5, <2>1, <2>5 DEF Fetching
  <2> QED
    BY <1>4, <2>2, <2>3, <2>4, <2>5 DEF IsVa, Stages
<1>7. Loading'
  <2> SUFFICES ASSUME cur # Kmain, InCall
               PROVE  Loading'
    BY <1>1 DEF Loading, InCall
  <2>1. Loading
    BY DEF ArgInv
  <2>2. Argument(cur, "eax")' = <<"op", call[cur][2]>>
    BY <1>1 DEF Argument
  <2>3. Junk # Argument(cur, "eax")'
    BY <2>2, NoErrors
  <2>4. CASE "eax" \in loaded
    BY <1>1, <1>2, <1>5, <2>1, <2>3, <2>4 DEF Loading
  <2>5. CASE "eax" \notin loaded
    <3>1. "ecx" \in loaded => ecx = va.args[2] \/ 2 \in va'.torn
      <4> SUFFICES ASSUME "ecx" \in loaded
                   PROVE  ecx = va.args[2] \/ 2 \in va'.torn
        OBVIOUS
      <4>1. va.at = "fetched"
        BY <2>1 DEF Loading
      <4>2. ecx # cpu["ecx"] => 2 \in Torn(ecx)
        BY <2>5, <4>1 DEF Torn, BUFFER
      <4> QED
        BY <1>5, <2>1, <2>5, <4>2 DEF Loading
    <3>2. "edx" \in loaded => 3 \in va'.torn
      <4> SUFFICES ASSUME "edx" \in loaded
                   PROVE  3 \in va'.torn
        OBVIOUS
      <4>1. va.at = "fetched"
        BY <2>1 DEF Loading
      <4> QED
        BY <1>5, <2>5, <4>1 DEF Torn, LEN
    <3> QED
      BY <1>1, <1>2, <1>5, <2>1, <2>5, <3>1, <3>2 DEF Loading
  <2> QED
    BY <2>4, <2>5
<1>8. ServedRight'
  BY <1>1, <1>2, NoErrors DEF ArgInv, ServedRight
<1> QED
  BY <1>3, <1>6, <1>7, <1>8 DEF ArgInv

\* Every step keeps the invariant.
LEMMA ArgNext ==
  ASSUME KeptInv, ArgInv, [Next]_vars
  PROVE  ArgInv'
<1>1. CASE UNCHANGED vars
  BY <1>1 DEF vars, ArgInv, OneCaller, Fetching, Loading, ServedRight, InCall, Argument
<1>2. CASE sys_call_EXIT
  BY <1>2 DEF sys_call_EXIT, ArgInv, OneCaller, Fetching, Loading, ServedRight, InCall,
              Argument
<1> QED
  BY <1>1, <1>2, ArgLoadR3, ArgSysReq, ArgVaStart, ArgVaArg, ArgFetch, ArgLoadArgument,
     ArgIdle, ArgReadWrite, ArgDefault, ArgReturn, ArgSerialIsr DEF Next

\* What io_scheduler is asked for is what sys_req was passed, but for the arguments
\* that an interrupt took while va_arg fetched them, or from ecx and edx before eax
\* had the op code; and what was served is not polled for as well.  So an
\* interrupt that saves no register can change what a call is for, and the theorem
\* tells exactly where it must come for that, but it cannot make one system call
\* into another.
THEOREM ContextArgumentsArrive == Spec => []ArgumentsArrive
<1>1. Init => ArgInv
  BY ArgInit
<1>2. KeptInv /\ ArgInv /\ [Next]_vars => ArgInv'
  BY ArgNext
<1>3. ArgInv => ArgumentsArrive
  BY DEF ArgInv, ServedRight, Made, ArgumentsArrive, Refused
<1> QED
  BY <1>1, <1>2, <1>3, KeptAlways, PTL DEF Spec
=============================================================================
