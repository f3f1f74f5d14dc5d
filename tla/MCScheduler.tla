---------------------------- MODULE MCScheduler -----------------------------
(* The machine main() boots: apic_get_cpu_count() is 2, each CPU has its   *)
(* idle task, and CPU 1's queue starts with the init task.                 *)
EXTENDS Scheduler, TLC

CONSTANTS idle0, idle1, init

MCCPUs == {0, 1}
MCIdle == (0 :> idle0) @@ (1 :> idle1)
MCBootQueue == <<init>>
=============================================================================
