----------------------------- MODULE Scheduler ------------------------------
(***************************************************************************)
(* The per-CPU preemptive scheduler: SMP_Scheduler (smp_scheduler.cpp),    *)
(* ProcessManager::schedule and sleep_current_process (process.cpp), the   *)
(* exit system call (exit_handler.cpp), the timer handlers and the boot    *)
(* sequence that fills the run queues (main.cpp).                          *)
(*                                                                         *)
(* Each CPU runs schedule() from its own timer interrupt with interrupts   *)
(* off, and only ever touches its own run queue (the only cross-CPU        *)
(* enqueue is at boot), so one step of a CPU is one whole handler.         *)
(* time_slice is an int32 that the code lets go below zero; every value    *)
(* <= 0 behaves the same until it wraps after 2^31 ticks, so it is kept at *)
(* 0 here.  sleep_ticks is written but never read, and is left out.       *)
(***************************************************************************)
EXTENDS Naturals, FiniteSets, Sequences, SequencesExt

CONSTANTS
    CPUs,               \* 0 .. apic_get_cpu_count() - 1
    Idle,               \* Idle[c]: the idle task create_idle_task makes for CPU c
    BootQueue,          \* tasks main() enqueues on CPU 1 before smp_init
    DEFAULT_TIME_SLICE, \* process.h, in ticks
    BSP                 \* apic_get_id() of the CPU that runs kernel_main

UserTasks == ToSet(BootQueue)
Tasks == UserTasks \cup {Idle[c] : c \in CPUs}

States == {"READY", "SLEEPING", "EXITED"}

VARIABLES
    current,            \* SMP_Scheduler::current_task, per CPU
    rq,                 \* SMP_Scheduler::scheduler_runqueue: runnable_list per CPU
    time_slice,         \* Task::time_slice
    state,              \* Task::state
    phase,              \* where each CPU is in bring-up (smp.cpp, main.cpp)
    smp_i,              \* the loop index i of smp_init's INIT-SIPI loop
    cpu_ready_count     \* arch::cpu_ready_count

boot_vars == <<phase, smp_i, cpu_ready_count>>
vars == <<current, rq, time_slice, state, phase, smp_i, cpu_ready_count>>

(* apic_get_cpu_count() returns the constant 2, and smp_init loops over   *)
(* the ids 0 .. count-1; CPUs is that set of ids.                          *)
CPU_COUNT == Cardinality(CPUs)
APs == CPUs \ {BSP}

(* Bring-up phases.  The BSP is in smp_init until it leaves the wait loop *)
(* and executes sti in kernel_main.  An AP waits for SIPI, runs ap_entry  *)
(* up to the atomic increment, spins, and executes sti.                   *)
Phases == {"smp_init", "reset", "ap_entry", "ready", "running"}

(* main(): the idle tasks become current (CPU 0 by set_current_task, the   *)
(* others in SMP_Scheduler::init) and the boot tasks go on CPU 1's queue;  *)
(* kernel_task and create_*_task leave every task READY with a full slice. *)
Init ==
    /\ current = [c \in CPUs |-> Idle[c]]
    /\ rq = [c \in CPUs |-> IF c = 1 THEN BootQueue ELSE <<>>]
    /\ time_slice = [t \in Tasks |-> DEFAULT_TIME_SLICE]
    /\ state = [t \in Tasks |-> "READY"]
    /\ phase = [c \in CPUs |-> IF c = BSP THEN "smp_init" ELSE "reset"]
    /\ smp_i = 0
    /\ cpu_ready_count = 0

(* SMP_Scheduler::load_balance: looks at the local queue again (no other *)
(* CPU's queue) and falls back to this CPU's idle task.                    *)
load_balance(c) == IF rq[c] # <<>> THEN Head(rq[c]) ELSE Idle[c]

(* SMP_Scheduler::pick_next_task: the head of the local queue, or what    *)
(* load_balance returns when it is empty.                                  *)
pick_next_task(c) == IF rq[c] # <<>> THEN Head(rq[c]) ELSE load_balance(c)

(* Bug variant: the picked task is not unlinked (list_del_init dropped).  *)
PoppedQueueNoDel(c) == rq[c]

(* pick_next_task/load_balance unlink the picked task (list_del_init) and  *)
(* decrement nr_running.                                                   *)
PoppedQueue(c) == IF rq[c] # <<>> THEN Tail(rq[c]) ELSE rq[c]

ScheduleNoEnqueue(c) ==
    LET cur == current[c]
        left == IF time_slice[cur] > 0 THEN time_slice[cur] - 1 ELSE 0
        next == pick_next_task(c)
    IN
    IF left > 0 \/ next = cur
    THEN /\ time_slice' = [time_slice EXCEPT ![cur] = left]
         /\ rq' = [rq EXCEPT ![c] = IF left > 0 THEN @ ELSE PoppedQueue(c)]
         /\ UNCHANGED current
    ELSE /\ time_slice' = [time_slice EXCEPT ![cur] = DEFAULT_TIME_SLICE]
         /\ rq' = [rq EXCEPT ![c] = PoppedQueue(c)]
         /\ current' = [current EXCEPT ![c] = next]

ScheduleIncrementsSlice(c) ==
    LET cur == current[c] IN
    /\ time_slice' = [time_slice EXCEPT ![cur] = @ + 1]
    /\ UNCHANGED <<current, rq>>

(* ProcessManager::schedule on CPU c.  The slice is decremented; only when *)
(* it reaches 0 is a task picked.  Picking the running task again leaves  *)
(* the slice spent; otherwise the running task, whatever its state, gets *)
(* a new slice and goes on the tail of the local queue.                    *)
schedule(c) ==
    LET cur == current[c]
        left == IF time_slice[cur] > 0 THEN time_slice[cur] - 1 ELSE 0
        next == pick_next_task(c)
    IN
    IF left > 0
    THEN /\ time_slice' = [time_slice EXCEPT ![cur] = left]
         /\ UNCHANGED <<current, rq>>
    ELSE IF next = cur
    THEN /\ time_slice' = [time_slice EXCEPT ![cur] = left]
         /\ rq' = [rq EXCEPT ![c] = PoppedQueue(c)]
         /\ UNCHANGED current
    ELSE /\ time_slice' = [time_slice EXCEPT ![cur] = DEFAULT_TIME_SLICE]
         /\ rq' = [rq EXCEPT ![c] = Append(PoppedQueue(c), cur)]
         /\ current' = [current EXCEPT ![c] = next]

(* The APIC_TIMER_VECTOR and IRQ_TIMER handlers: Kernel::tick, then       *)
(* ProcessManager::schedule.                                               *)
(* Both reach the CPU only once it has executed sti.                     *)
TimerInterrupt(c) ==
    /\ phase[c] = "running"
    /\ schedule(c)
    /\ UNCHANGED <<state, boot_vars>>

(* exitHandler, called by the running user task: mark it EXITED and call  *)
(* Scheduler::schedule, whose body is commented out; the task returns to  *)
(* user mode still current.                                                *)
Exit(c) ==
    /\ current[c] \in UserTasks
    /\ state[current[c]] # "EXITED"
    /\ state' = [state EXCEPT ![current[c]] = "EXITED"]
    /\ UNCHANGED <<current, rq, time_slice, boot_vars>>

(* nanosleepHandler -> sleep_current_process: mark the running task       *)
(* SLEEPING and call schedule().                                           *)
Sleep(c) ==
    /\ current[c] \in UserTasks
    /\ state' = [state EXCEPT ![current[c]] = "SLEEPING"]
    /\ schedule(c)
    /\ UNCHANGED boot_vars

-----------------------------------------------------------------------------
(* SMP bring-up (smp.cpp), run after main() has filled the run queues.    *)

(* One iteration of smp_init's loop: for every id but the BSP's, INIT,    *)
(* then SIPI to 0x8000, which starts the AP on its trampoline towards     *)
(* ap_entry; the second SIPI finds the AP running and has no effect.      *)
(* The pause loops only delay the BSP.                                     *)
SmpInitStartAp ==
    /\ phase[BSP] = "smp_init"
    /\ smp_i < CPU_COUNT
    /\ phase' = IF smp_i # BSP THEN [phase EXCEPT ![smp_i] = "ap_entry"] ELSE phase
    /\ smp_i' = smp_i + 1
    /\ UNCHANGED <<current, rq, time_slice, state, cpu_ready_count>>

(* Bug variant: the AP does not count itself.                             *)
ApEntryNoIncrement(c) ==
    /\ phase[c] = "ap_entry"
    /\ phase' = [phase EXCEPT ![c] = "ready"]
    /\ UNCHANGED <<current, rq, time_slice, state, smp_i, cpu_ready_count>>

(* ap_entry up to the increment: LAPIC, timer, GDT, TR and paging set up, *)
(* then the AP loads cr3 and esp0 of get_current_task(), sets task->cpu   *)
(* and does __atomic_add_fetch(&cpu_ready_count, 1).                      *)
ApEntry(c) ==
    /\ phase[c] = "ap_entry"
    /\ phase' = [phase EXCEPT ![c] = "ready"]
    /\ cpu_ready_count' = cpu_ready_count + 1
    /\ UNCHANGED <<current, rq, time_slice, state, smp_i>>

(* The AP's pause loop, then sti and the hlt loop.                         *)
ApSti(c) ==
    /\ phase[c] = "ready"
    /\ phase' = [phase EXCEPT ![c] = "running"]
    /\ UNCHANGED <<current, rq, time_slice, state, smp_i, cpu_ready_count>>

(* Bug variant: the wait loop compares with count - 2.                   *)
BspStiOffByOne ==
    /\ phase[BSP] = "smp_init"
    /\ smp_i = CPU_COUNT
    /\ ~(cpu_ready_count < CPU_COUNT - 2)
    /\ phase' = [phase EXCEPT ![BSP] = "running"]
    /\ UNCHANGED <<current, rq, time_slice, state, smp_i, cpu_ready_count>>

(* The wait loop of smp_init, left once cpu_ready_count reaches           *)
(* apic_get_cpu_count() - 1, then sti in kernel_main.                     *)
BspSti ==
    /\ phase[BSP] = "smp_init"
    /\ smp_i = CPU_COUNT
    /\ ~(cpu_ready_count < CPU_COUNT - 1)
    /\ phase' = [phase EXCEPT ![BSP] = "running"]
    /\ UNCHANGED <<current, rq, time_slice, state, smp_i, cpu_ready_count>>

BringUp ==
    \/ SmpInitStartAp
    \/ BspSti
    \/ \E c \in APs : ApEntry(c) \/ ApSti(c)

Next ==
    \/ BringUp
    \/ \E c \in CPUs :
        \/ TimerInterrupt(c)
        \/ Exit(c)
        \/ Sleep(c)

(* The local APIC timer interrupts every CPU periodically, so each CPU's  *)
(* timer handler keeps running; user tasks exit or sleep only if they     *)
(* choose to.                                                              *)
(* Bring-up is straight-line code with bounded pause loops on each CPU,  *)
(* so each of its steps, once enabled, is taken.                           *)
Fairness ==
    /\ \A c \in CPUs : WF_vars(TimerInterrupt(c))
    /\ WF_vars(SmpInitStartAp) /\ WF_vars(BspSti)
    /\ \A c \in APs : WF_vars(ApEntry(c)) /\ WF_vars(ApSti(c))

Spec == Init /\ [][Next]_vars /\ Fairness

-----------------------------------------------------------------------------
(***************************************************************************)
(* Properties                                                              *)
(***************************************************************************)

Queued(t) == \E c \in CPUs : t \in ToSet(rq[c])

TypeOK ==
    /\ current \in [CPUs -> Tasks]
    /\ rq \in [CPUs -> Seq(Tasks)]
    /\ time_slice \in [Tasks -> 0 .. DEFAULT_TIME_SLICE]
    /\ state \in [Tasks -> States]
    /\ phase \in [CPUs -> Phases]
    /\ smp_i \in 0 .. CPU_COUNT
    /\ cpu_ready_count \in 0 .. CPU_COUNT

(* spec.md 3: a task is on at most one run queue, at most once, and not    *)
(* on any queue while it is current on some CPU; no task is current on    *)
(* two CPUs.  Depends on schedule() popping next before it appends the    *)
(* previous task, and on boot enqueuing only tasks that are not current.  *)
RunQueueDiscipline ==
    /\ \A c \in CPUs : \A i, j \in 1 .. Len(rq[c]) : i # j => rq[c][i] # rq[c][j]
    /\ \A c, d \in CPUs : c # d => ToSet(rq[c]) \cap ToSet(rq[d]) = {}
    /\ \A c, d \in CPUs : current[c] \notin ToSet(rq[d])
    /\ \A c, d \in CPUs : c # d => current[c] # current[d]

(* spec.md 8: on a switch the task that ran goes on a run queue (or is    *)
(* terminal) and the task that now runs is on none.                        *)
SwitchRequeues ==
    [][\A c \in CPUs :
        current'[c] # current[c] =>
            /\ (\E d \in CPUs : current[c] \in ToSet(rq'[d])) \/ state'[current[c]] = "EXITED"
            /\ \A d \in CPUs : current'[c] \notin ToSet(rq'[d])]_vars

Up(c) == phase[c] \in {"ready", "running"}

(* spec.md 4.A (bring-up): the BSP leaves smp_init and enables interrupts *)
(* only when every AP has counted itself, and cpu_ready_count is exactly  *)
(* the number of APs past their __atomic_add_fetch: the SIPI loop starts  *)
(* each AP once and each AP counts once.                                   *)
ReadyBarrier ==
    /\ cpu_ready_count = Cardinality({a \in APs : Up(a)})
    /\ phase[BSP] = "running" => \A a \in APs : Up(a)

(* spec.md scenario 1: every CPU, the BSP and every AP, eventually        *)
(* executes sti and takes timer interrupts.                                *)
BringUpCompletes ==
    <>(\A c \in CPUs : phase[c] = "running")

(* spec.md 4.F and 7: a sleeping or exited task does not hold a CPU: exit *)
(* and nanosleep give up the processor.                                   *)
BlockedTasksDoNotRun ==
    \A c \in CPUs : state[current[c]] = "READY"
=============================================================================
