---------------------------- MODULE MCInterrupts ----------------------------
(* A small machine for TLC: ticks and delays are scaled down so that a tick *)
(* of the kernel can pass several interrupts, and several can be due at the *)
(* same time.                                                               *)
EXTENDS Interrupts

MCDelay == [d \in Device |-> IF d \in Disk THEN {1, 6} ELSE {3}]
=============================================================================
