------------------------------ MODULE TrapLog ------------------------------
(***************************************************************************)
(* trap.rs, TrapLog: the unimplemented encodings a guest reached, counted  *)
(* per encoding, in a table of fixed capacity that counts what it drops.   *)
(* An entry's group is a function of its encoding and is left out.         *)
(***************************************************************************)
EXTENDS Integers, Sequences, FiniteSets

CONSTANT TRAP_LOG_CAPACITY

ASSUME TrapLogAssumption == TRAP_LOG_CAPACITY \in Nat

EmptyLog == [entries |-> <<>>, dropped |-> 0, total |-> 0]

\* find_mut: the positions whose entry is for this encoding.
find(log, encoding) == {i \in DOMAIN log.entries : log.entries[i].encoding = encoding}

\* Mutant: a full log is tested for before a known encoding is looked up.
record_full_first(log, encoding) ==
    LET known == find(log, encoding)
        log1  == [log EXCEPT !.total = @ + 1]
    IN  IF Len(log.entries) = TRAP_LOG_CAPACITY
        THEN [log1 EXCEPT !.dropped = @ + 1]
        ELSE IF known # {}
        THEN [log1 EXCEPT !.entries = [i \in DOMAIN log.entries |->
                 IF i \in known THEN [log.entries[i] EXCEPT !.count = @ + 1] ELSE log.entries[i]]]
        ELSE [log1 EXCEPT !.entries = Append(@, [encoding |-> encoding, count |-> 1])]

\* Mutant: the table is taken to be full one entry late.
record_off_by_one(log, encoding) ==
    LET known == find(log, encoding)
        log1  == [log EXCEPT !.total = @ + 1]
    IN  IF known # {}
        THEN [log1 EXCEPT !.entries = [i \in DOMAIN log.entries |->
                 IF i \in known THEN [log.entries[i] EXCEPT !.count = @ + 1] ELSE log.entries[i]]]
        ELSE IF Len(log.entries) > TRAP_LOG_CAPACITY
        THEN [log1 EXCEPT !.dropped = @ + 1]
        ELSE [log1 EXCEPT !.entries = Append(@, [encoding |-> encoding, count |-> 1])]

record(log, encoding) ==
    LET known == find(log, encoding)
        log1  == [log EXCEPT !.total = @ + 1]
    IN  IF known # {}
        THEN [log1 EXCEPT !.entries = [i \in DOMAIN log.entries |->
                 IF i \in known THEN [log.entries[i] EXCEPT !.count = @ + 1] ELSE log.entries[i]]]
        ELSE IF Len(log.entries) = TRAP_LOG_CAPACITY
        THEN [log1 EXCEPT !.dropped = @ + 1]
        ELSE [log1 EXCEPT !.entries = Append(@, [encoding |-> encoding, count |-> 1])]

\* Only an undefined instruction is a coverage gap.
record_trap(log, trap) ==
    IF trap.kind = "UndefinedInstruction" THEN record(log, trap.info) ELSE log

is_empty(log) == Len(log.entries) = 0 /\ log.dropped = 0
=============================================================================
