----------------------------- MODULE Scheduler ------------------------------
(***************************************************************************)
(* What dispatching promises, with no pointers: the processes that wait    *)
(* form a sequence ordered by priority, first come first served among      *)
(* equals.  A process that yields joins the sequence only after its        *)
(* successor has been chosen, so it never succeeds itself.                 *)
(***************************************************************************)
EXTENDS Integers, Sequences, SequencesExt

CONSTANTS Procs, None

VARIABLES
  ready,    \* the waiting processes, the next one to run first
  running,  \* the running process, None before the first one
  rank      \* priority of every process: a low number is a good one

Init ==
  /\ ready \in Seq(Procs) /\ running = None
  /\ \A i, j \in DOMAIN ready : i < j => rank[ready[i]] <= rank[ready[j]]

\* t is s with p in its place: behind all that are at least as good and before
\* all that are worse.
Joins(s, p, r, t) ==
  \E i \in 0 .. Len(s) :
    /\ \A j \in 1 .. i : r[s[j]] <= r[p]
    /\ \A j \in i + 1 .. Len(s) : r[p] < r[s[j]]
    /\ t = InsertAt(s, i + 1, p)

\* The running process yields to the first one that waits.
Yield ==
  /\ ready # <<>>
  /\ running' = Head(ready)
  /\ IF running = None THEN ready' = Tail(ready)
                       ELSE Joins(Tail(ready), running, rank, ready')
  /\ UNCHANGED rank

Admit(p) ==
  /\ p # running /\ p \notin ToSet(ready)
  /\ \A x \in Procs \ {p} : rank'[x] = rank[x]
  /\ Joins(ready, p, rank', ready')
  /\ UNCHANGED running

Withdraw(p) ==
  /\ \E i \in DOMAIN ready : ready[i] = p /\ ready' = RemoveAt(ready, i)
  /\ UNCHANGED <<running, rank>>

Next == Yield \/ \E p \in Procs : Admit(p) \/ Withdraw(p)

Spec == Init /\ [][Next]_<<ready, running, rank>>
=============================================================================
