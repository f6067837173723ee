------------------------------ MODULE Machine ------------------------------
(***************************************************************************)
(* What a vCPU promises its host, with nothing of how it is built: no      *)
(* decode cache, no trace, no budget.  Every step does what the word that  *)
(* is in memory now does; an instruction either retires whole or traps and *)
(* leaves registers and memory exactly as they were.                       *)
(***************************************************************************)
CONSTANTS
    RegFile, Memory,
    Effect(_, _),       \* of the word at PC, in these registers and this memory
    Running,            \* a run is in progress
    BudgetExhausted     \* the last run stopped between two instructions

VARIABLES
    regs,   \* the register file
    mem,    \* guest RAM
    stop    \* Running, BudgetExhausted, or the trap that ended the last run

vars == <<regs, mem, stop>>

\* A fresh CPU is idle; run() starts it.
Init == regs \in RegFile /\ mem \in Memory /\ stop = BudgetExhausted

Retire == /\ stop = Running
          /\ Effect(regs, mem).retires
          /\ regs' = Effect(regs, mem).regs
          /\ mem'  = Effect(regs, mem).mem
          /\ UNCHANGED stop

TakeTrap == /\ stop = Running
            /\ ~Effect(regs, mem).retires
            /\ stop' = Effect(regs, mem).trap
            /\ UNCHANGED <<regs, mem>>

\* The budget may run out between any two instructions.
Pause == stop = Running /\ stop' = BudgetExhausted /\ UNCHANGED <<regs, mem>>

\* Between runs the machine belongs to the host, which also resumes it.
Host   == stop # Running /\ regs' \in RegFile /\ mem' \in Memory /\ UNCHANGED stop
Resume == stop # Running /\ stop' = Running /\ UNCHANGED <<regs, mem>>

Next == Retire \/ TakeTrap \/ Pause \/ Host \/ Resume
Spec == Init /\ [][Next]_vars
=============================================================================
