------------------------------- MODULE Mutex --------------------------------
(***************************************************************************)
(* kernel::Mutex (src/lib/mutex.cpp) used by several tasks through         *)
(* LockGuard: lock, a critical section, unlock.                            *)
(*                                                                         *)
(* Every part of lock() and unlock() runs between acquire_irqsave and      *)
(* release_irqrestore of the mutex's internal SpinLock (a test-and-set     *)
(* lock, spinlock.h), so each such segment is one atomic step here.  The   *)
(* only place a task lets go of the spin lock inside lock() is around      *)
(* sleep_current_process(1); that split is the pair Lock / Retry.          *)
(* Task::state is kept because lock and wakeNextWaiter write it.           *)
(***************************************************************************)
EXTENDS Naturals, Sequences, SequencesExt

CONSTANTS
    Tasks,              \* task ids of the tasks that use the mutex (none is 0)
    MutexTypes,         \* the types a Mutex may be constructed with
    Timeouts,           \* the timeout arguments passed to lock()
    MUTEX_WAIT_FOREVER, \* the "wait forever" timeout (0xFFFFFFFF)
    MaxNest,            \* model bound: LockGuards a task nests
    MaxLockCalls        \* model bound: lock() calls per task

MUTEX_NORMAL == "NORMAL"
MUTEX_RECURSIVE == "RECURSIVE"

VARIABLES
    type,           \* Mutex::type, fixed by the constructor
    mstate,         \* Mutex::state: "UNLOCKED" or "LOCKED"
    owner,          \* Mutex::owner (0: none)
    recursion,      \* Mutex::recursion
    wait_list,      \* Mutex::wait_list, head first
    tstate,         \* Task::state of each task: "READY" or "SLEEPING"
    pc,             \* "run", or "wait" while asleep inside lock()
    timeout,        \* lock()'s timeout argument, while in lock()
    elapsed,        \* lock()'s elapsed counter, while in lock()
    held,           \* LockGuards a task holds (lock() returned true)
    calls           \* lock() calls a task has made

vars == <<type, mstate, owner, recursion, wait_list, tstate, pc, timeout,
          elapsed, held, calls>>

(* Mutex::Mutex: unlocked, no owner, empty wait list. *)
Init ==
    /\ type \in MutexTypes
    /\ mstate = "UNLOCKED"
    /\ owner = 0
    /\ recursion = 0
    /\ wait_list = <<>>
    /\ tstate = [t \in Tasks |-> "READY"]
    /\ pc = [t \in Tasks |-> "run"]
    /\ timeout = [t \in Tasks |-> 0]
    /\ elapsed = [t \in Tasks |-> 0]
    /\ held = [t \in Tasks |-> 0]
    /\ calls = [t \in Tasks |-> 0]

(* Mutex::wouldDeadlock: the caller is already on the wait list. *)
wouldDeadlock(t) == t \in ToSet(wait_list)

(* Bug variant: removeWaiter looks only at the head of the list. *)
removeWaiterHeadOnly(wl, t) ==
    IF wl # <<>> /\ Head(wl) = t THEN Tail(wl) ELSE wl

(* Mutex::removeWaiter: unlink the first node with this pid, if any. *)
removeWaiter(wl, t) ==
    IF t \in ToSet(wl) THEN RemoveFirst(wl, t) ELSE wl

(* The end of lock(): state = LOCKED, owner = pid, recursion = 1. *)
Acquire(t) ==
    /\ mstate' = "LOCKED"
    /\ owner' = t
    /\ recursion' = 1
    /\ held' = [held EXCEPT ![t] = @ + 1]

(* addWaiter, release the spin lock, sleep_current_process(1): the task   *)
(* is appended to the wait list and marked SLEEPING.                      *)
SleepOnMutex(t, wl) ==
    /\ wait_list' = Append(wl, t)
    /\ tstate' = [tstate EXCEPT ![t] = "SLEEPING"]
    /\ pc' = [pc EXCEPT ![t] = "wait"]

(* Bug variant: the give-up test is elapsed > timeout. *)
WhileLockedOffByOne(t, to, el, wl) ==
    IF mstate = "LOCKED"
    THEN IF to = 0 \/ (to # MUTEX_WAIT_FOREVER /\ el > to)
         THEN /\ wait_list' = wl
              /\ pc' = [pc EXCEPT ![t] = "run"]
              /\ UNCHANGED <<tstate, mstate, owner, recursion, held>>
         ELSE /\ SleepOnMutex(t, wl)
              /\ UNCHANGED <<mstate, owner, recursion, held>>
    ELSE /\ Acquire(t)
         /\ wait_list' = wl
         /\ pc' = [pc EXCEPT ![t] = "run"]
         /\ UNCHANGED tstate

(* The while (state == MUTEX_LOCKED) loop of Mutex::lock from its test,  *)
(* with the list as it is after removeWaiter: give up (tryLock, or a      *)
(* finite timeout run out), sleep again, or take the mutex.               *)
WhileLocked(t, to, el, wl) ==
    IF mstate = "LOCKED"
    THEN IF to = 0 \/ (to # MUTEX_WAIT_FOREVER /\ el >= to)
         THEN /\ wait_list' = wl
              /\ pc' = [pc EXCEPT ![t] = "run"]
              /\ UNCHANGED <<tstate, mstate, owner, recursion, held>>
         ELSE /\ SleepOnMutex(t, wl)
              /\ UNCHANGED <<mstate, owner, recursion, held>>
    ELSE /\ Acquire(t)
         /\ wait_list' = wl
         /\ pc' = [pc EXCEPT ![t] = "run"]
         /\ UNCHANGED tstate

(* Mutex::lock(to) up to its first sleep: the deadlock check, the         *)
(* recursive fast path, then the while loop with elapsed = 0.             *)
Lock(t, to) ==
    /\ pc[t] = "run"
    /\ held[t] < MaxNest
    /\ type = MUTEX_NORMAL => held[t] = 0   \* callers do not nest a normal mutex
    /\ calls[t] < MaxLockCalls
    /\ calls' = [calls EXCEPT ![t] = @ + 1]
    /\ timeout' = [timeout EXCEPT ![t] = to]
    /\ elapsed' = [elapsed EXCEPT ![t] = 0]
    /\ CASE wouldDeadlock(t) ->
                UNCHANGED <<mstate, owner, recursion, wait_list, tstate, pc, held>>
         [] type = MUTEX_RECURSIVE /\ owner = t ->
                /\ recursion' = recursion + 1
                /\ held' = [held EXCEPT ![t] = @ + 1]
                /\ UNCHANGED <<mstate, owner, wait_list, tstate, pc>>
         [] OTHER ->
                WhileLocked(t, to, 0, wait_list)

(* Bug variant: "if" for "while": after one sleep the task takes the      *)
(* mutex without testing state again.                                      *)
RetryNoRecheck(t) ==
    /\ pc[t] = "wait"
    /\ elapsed' = [elapsed EXCEPT ![t] = IF timeout[t] = MUTEX_WAIT_FOREVER THEN @ ELSE @ + 1]
    /\ Acquire(t)
    /\ wait_list' = removeWaiter(wait_list, t)
    /\ pc' = [pc EXCEPT ![t] = "run"]
    /\ UNCHANGED <<tstate, type, timeout, calls>>

(* Mutex::lock after sleep_current_process returns: elapsed++ (it is      *)
(* never read with MUTEX_WAIT_FOREVER, so it is left alone then), take    *)
(* the spin lock, removeWaiter(pid), and the while loop again: give up,   *)
(* sleep once more, or take the mutex.                                    *)
Retry(t) ==
    LET el == IF timeout[t] = MUTEX_WAIT_FOREVER THEN elapsed[t] ELSE elapsed[t] + 1 IN
    /\ pc[t] = "wait"
    /\ elapsed' = [elapsed EXCEPT ![t] = el]
    /\ WhileLocked(t, timeout[t], el, removeWaiter(wait_list, t))
    /\ UNCHANGED <<type, timeout, calls>>

(* Mutex::wakeNextWaiter: pop the head of the wait list and mark that     *)
(* task READY (the task list walk always finds it).                       *)
wakeNextWaiter ==
    IF wait_list = <<>>
    THEN UNCHANGED <<wait_list, tstate>>
    ELSE /\ wait_list' = Tail(wait_list)
         /\ tstate' = [tstate EXCEPT ![Head(wait_list)] = "READY"]

(* Bug variant: unlock clears the owner but leaves state LOCKED. *)
UnlockKeepsState(t) ==
    /\ pc[t] = "run"
    /\ held[t] > 0
    /\ held' = [held EXCEPT ![t] = @ - 1]
    /\ CASE owner # t ->
                UNCHANGED <<mstate, owner, recursion, wait_list, tstate>>
         [] type = MUTEX_RECURSIVE /\ recursion > 1 ->
                /\ recursion' = recursion - 1
                /\ UNCHANGED <<mstate, owner, wait_list, tstate>>
         [] OTHER ->
                /\ owner' = 0
                /\ recursion' = 0
                /\ wakeNextWaiter
                /\ UNCHANGED mstate
    /\ UNCHANGED <<type, pc, timeout, elapsed, calls>>

(* ~LockGuard -> Mutex::unlock: only the owner may unlock; a recursive    *)
(* mutex held more than once is counted down; otherwise it is released    *)
(* and the first waiter woken.  The guard is gone whatever it returns.    *)
Unlock(t) ==
    /\ pc[t] = "run"
    /\ held[t] > 0
    /\ held' = [held EXCEPT ![t] = @ - 1]
    /\ CASE owner # t ->
                UNCHANGED <<mstate, owner, recursion, wait_list, tstate>>
         [] type = MUTEX_RECURSIVE /\ recursion > 1 ->
                /\ recursion' = recursion - 1
                /\ UNCHANGED <<mstate, owner, wait_list, tstate>>
         [] OTHER ->
                /\ mstate' = "UNLOCKED"
                /\ owner' = 0
                /\ recursion' = 0
                /\ wakeNextWaiter
    /\ UNCHANGED <<type, pc, timeout, elapsed, calls>>

(* Every task has made its lock() calls and released its guards.          *)
Finished ==
    /\ \A t \in Tasks : pc[t] = "run" /\ held[t] = 0 /\ calls[t] = MaxLockCalls
    /\ UNCHANGED vars

Next ==
    \/ \E t \in Tasks :
          \/ \E to \in Timeouts : Lock(t, to) /\ UNCHANGED type
          \/ Retry(t)
          \/ Unlock(t)
    \/ Finished

(* A sleeping waiter's sleep_current_process(1) returns after a tick, and *)
(* a task holding a LockGuard leaves its critical section (no caller of   *)
(* the mutex blocks inside one).                                           *)
Fairness == \A t \in Tasks : WF_vars(Retry(t)) /\ WF_vars(Unlock(t))

Spec == Init /\ [][Next]_vars /\ Fairness

-----------------------------------------------------------------------------
(***************************************************************************)
(* Properties                                                              *)
(***************************************************************************)

MaxFiniteTimeout ==
    LET fin == {to \in Timeouts : to # MUTEX_WAIT_FOREVER} IN
    IF fin = {} THEN 0 ELSE CHOOSE m \in fin : \A n \in fin : n <= m

(* elapsed never exceeds the largest finite timeout: a timed lock() sleeps *)
(* at most timeout ticks.                                                  *)
TypeOK ==
    /\ type \in MutexTypes
    /\ mstate \in {"UNLOCKED", "LOCKED"}
    /\ owner \in Tasks \cup {0}
    /\ recursion \in 0 .. MaxNest
    /\ wait_list \in Seq(Tasks)
    /\ tstate \in [Tasks -> {"READY", "SLEEPING"}]
    /\ pc \in [Tasks -> {"run", "wait"}]
    /\ timeout \in [Tasks -> Timeouts \cup {0}]
    /\ elapsed \in [Tasks -> 0 .. MaxFiniteTimeout]
    /\ held \in [Tasks -> 0 .. MaxNest]
    /\ calls \in [Tasks -> 0 .. MaxLockCalls]

(* Mutual exclusion, and the mutex's own record of it: at most one task   *)
(* holds a LockGuard; the mutex is LOCKED exactly while one does, that    *)
(* task is the owner, and recursion counts its guards.  Breaks if a       *)
(* waiter takes the mutex after a sleep without testing state again.      *)
MutualExclusion ==
    /\ \A t, u \in Tasks : t # u => held[t] = 0 \/ held[u] = 0
    /\ \A t \in Tasks : held[t] > 0 => /\ mstate = "LOCKED"
                                       /\ owner = t
                                       /\ recursion = held[t]
    /\ mstate = "LOCKED" => \E t \in Tasks : held[t] > 0

(* The wait list holds each sleeping waiter at most once and no task that *)
(* is running, so wouldDeadlock never rejects a lock() call: the node a   *)
(* waiter adds is always removed by it or by wakeNextWaiter before it     *)
(* returns, even when other waiters are ahead of it in the list.          *)
WaitListWellFormed ==
    /\ \A i, j \in 1 .. Len(wait_list) : i # j => wait_list[i] # wait_list[j]
    /\ \A t \in ToSet(wait_list) : pc[t] = "wait"

(* Every lock() call that goes to sleep returns: unlock() sets the state  *)
(* back to UNLOCKED and a retrying waiter sees it once the other tasks    *)
(* have stopped taking the mutex.                                          *)
LockCallReturns ==
    \A t \in Tasks : pc[t] = "wait" ~> pc[t] = "run"

=============================================================================
