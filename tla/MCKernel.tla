------------------------------ MODULE MCKernel ------------------------------
(***************************************************************************)
(* Instances of the kernel: few PCBs, one or two loaded processes, and     *)
(* several assumptions on what processes ask for.                          *)
(***************************************************************************)
EXTENDS Kernel

CONSTANTS process1, process2, process3, process4, bell, b1

MCNames == {COMMHAND, IDLE_PROCESS, process1, process2, process3, process4, bell}
MCNamesOne == {COMMHAND, IDLE_PROCESS, process1}

\* load_r3 gives process i (here 1 to 4 of 5) the priority i: the first equals the
\* Command Handler.
MCLoad == <<[name |-> process1, priority |-> 1],
            [name |-> process2, priority |-> 2],
            [name |-> process3, priority |-> 3],
            [name |-> process4, priority |-> 4]>>

MCLoadOne == <<[name |-> process1, priority |-> 1]>>

Only(ops) == [n \in Names |-> ops]

\* Processes only yield.
MCYield == Only({"IDLE"})

\* Processes make every system call.
MCAllCalls == Only({"IDLE", "READ", "WRITE", "EXIT"})

\* The Command Handler prints its menu, the idle process yields.
MCBoot == [Only({"IDLE"}) EXCEPT ![COMMHAND] = {"WRITE"}]

MCBufs == {b1}
MCLens == {1}
=============================================================================
