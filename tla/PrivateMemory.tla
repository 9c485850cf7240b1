--------------------------- MODULE PrivateMemory ----------------------------
(***************************************************************************)
(* What an address space promises to a program: a memory of its own, which *)
(* begins as the image that the header of the executable describes and     *)
(* then changes only by the program's own writes.                          *)
(***************************************************************************)
EXTENDS Integers

CONSTANTS Process, Executable, Value, NULL,
          Image(_)     \* the memory that a header describes

VARIABLE memory        \* the memory of each running process, or NULL

Init == memory = [p \in Process |-> NULL]

Load(p) ==
    /\ memory[p] = NULL
    /\ memory' \in {[memory EXCEPT ![p] = Image(h)] : h \in Executable}

\* The contents m after value has been stored in n bytes at a.
Stored(m, a, n, value) ==
    [v \in DOMAIN m |-> IF v \in a..a + n - 1 THEN value ELSE m[v]]

Write(p) ==
    LET m == memory[p] IN
    /\ m # NULL
    /\ memory' \in
          {[memory EXCEPT ![p] = Stored(m, w[1], w[2], w[3])] :
              w \in {x \in (DOMAIN m) \X {1, 2, 4} \X Value :
                        x[1] + x[2] - 1 \in DOMAIN m}}

Exit(p) == memory[p] # NULL /\ memory' = [memory EXCEPT ![p] = NULL]

Next == \E p \in Process : Load(p) \/ Write(p) \/ Exit(p)

Spec == Init /\ [][Next]_memory
=============================================================================
