------------------------------ MODULE MCThreads ------------------------------
(* A small instance of Threads for TLC: a mutex and a device semaphore.     *)
EXTENDS Threads, TLC

CONSTANTS mutex, device

MCInitialValue == (mutex :> 1) @@ (device :> 0)
==============================================================================
