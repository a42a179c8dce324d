------------------------------ MODULE KernelSem ------------------------------
(***************************************************************************)
(* A binary semaphore of the FreeRTOS kernel on one core: tasks take it    *)
(* (queue.c, xQueueSemaphoreTake), interrupts give it (xQueueGiveFromISR), *)
(* the tick ends their waiting, PendSV switches tasks.  A task that finds  *)
(* the semaphore empty suspends the scheduler and locks the queue, so that *)
(* interrupts leave the event list alone and only count what they gave;    *)
(* unlocking and resuming make up for what happened meanwhile.             *)
(***************************************************************************)
EXTENDS Integers

CONSTANTS Tasks,      (* the tasks that take the semaphore                 *)
          Idle,       (* the idle task                                     *)
          Priority,   (* uxPriority of each task                           *)
          Wait,       (* xTicksToWait of each task                         *)
          NTasks,     (* uxTaskGetNumberOfTasks()                          *)
          MaxPended   (* bound: ticks that fall within one suspension      *)

Forever == -1         (* portMAX_DELAY                                     *)

ASSUME KernelAssumption ==
    /\ Idle \notin Tasks
    /\ Priority \in [Tasks -> Nat \ {0}]
    /\ Wait \in [Tasks -> {Forever} \cup (Nat \ {0})]
    /\ NTasks \in Nat \ {0}
    /\ MaxPended \in Nat

VARIABLES
    count,      (* uxMessagesWaiting of the queue                          *)
    cTxLock,    (* Unlocked, or the gives counted since it was locked      *)
    waiting,    (* xTasksWaitingToReceive                                  *)
    ready,      (* the ready lists; the others are delayed or suspended    *)
    pending,    (* xPendingReadyList                                       *)
    suspended,  (* uxSchedulerSuspended # 0                                *)
    ticks,      (* xPendedTicks                                            *)
    yield,      (* xYieldPendings[0]                                       *)
    pendsv,     (* PendSV is pending in the NVIC                           *)
    current,    (* pxCurrentTCB                                            *)
    pc,         (* where each task is in xQueueSemaphoreTake               *)
    left,       (* ticks until its block time has passed                   *)
    way,        (* how the task inside the locked part goes on             *)
    txl         (* the copy of cTxLock in prvUnlockQueue                   *)

queue == <<count, cTxLock, waiting, txl>>
sched == <<ready, pending, suspended, ticks, yield, pendsv, current>>
task  == <<pc, left, way>>
vars  == <<queue, sched, task>>

Unlocked == -1

(* Labels of the part with the scheduler suspended, and with the queue locked. *)
Locked    == {"timeout", "empty", "place", "delay", "unlock", "drain"}
Suspended == Locked \cup {"lock", "resume"}
Labels    == Suspended \cup {"idle", "away", "ask", "check", "last", "suspend", "recheck"}

Prio(t) == IF t = Idle THEN 0 ELSE Priority[t]

NothingMasked == FALSE   \* Mutant: BASEPRI 0 masks nothing

(* A critical section raises BASEPRI: no interrupt that uses the kernel.   *)
Masked == \E t \in Tasks : pc[t] = "drain"

At(t, l) == current = t /\ pc[t] = l /\ (~pendsv \/ Masked)

Goto(t, l) == pc' = [pc EXCEPT ![t] = l]

(* The task is inside xSemaphoreTake.                                      *)
Asks(t) == pc[t] \notin {"idle", "away"}

(* The head of an event list: a task of the highest priority among them.   *)
Foremost(S) == {t \in S : \A u \in S : Prio(u) <= Prio(t)}

Init ==
    /\ count = 0 /\ cTxLock = Unlocked /\ waiting = {} /\ txl = 0
    /\ ready = Tasks /\ pending = {} /\ suspended = FALSE /\ ticks = 0
    /\ yield = FALSE /\ pendsv = FALSE
    /\ current \in Foremost(Tasks \cup {Idle})
    /\ pc = [t \in Tasks |-> "idle"] /\ left = [t \in Tasks |-> Forever]
    /\ way = "again"

-----------------------------------------------------------------------------
(* The scheduler.                                                          *)

(* xTaskRemoveFromEventList of the task w, off any event list and off this.*)
Awake(w) ==
    /\ IF suspended THEN pending' = pending \cup {w} /\ UNCHANGED ready
                    ELSE ready' = ready \cup {w} /\ UNCHANGED pending
    /\ yield' = (yield \/ Prio(w) > Prio(current))

Remove(w) == waiting' = waiting \ {w} /\ Awake(w)

ElapsedUnsigned(n) ==   \* Mutant: the difference is not compared with what is left
    [t \in Tasks |-> IF left[t] = Forever THEN Forever ELSE left[t] - n]

(* n ticks on, the tasks in the delayed list whose time has come.          *)
Elapsed(n) == [t \in Tasks |-> IF left[t] > n THEN left[t] - n
                               ELSE IF left[t] > 0 THEN 0 ELSE left[t]]
Expired(n) == {t \in Tasks \ (ready \cup pending) : left[t] \in 0..n}

(* The tick; configUSE_TIME_SLICING is 0: it shares nothing out.           *)
SysTick ==
    /\ ~Masked
    /\ \/ /\ suspended /\ ticks < MaxPended
          /\ ticks' = ticks + 1
          /\ UNCHANGED <<waiting, ready, left, pendsv>>
       \/ /\ ~suspended
          /\ left' = Elapsed(1)
          /\ ready' = ready \cup Expired(1) /\ waiting' = waiting \ Expired(1)
          /\ pendsv' = (pendsv \/ yield \/ \E t \in Expired(1) : Prio(t) > Prio(current))
          /\ UNCHANGED ticks
    /\ UNCHANGED <<count, cTxLock, txl, pending, suspended, yield, current, pc, way>>

PendSVAnyway ==   \* Mutant: it switches though the scheduler is suspended
    /\ pendsv /\ ~Masked
    /\ pendsv' = FALSE /\ yield' = FALSE
    /\ current' \in Foremost(ready \cup {Idle})
    /\ UNCHANGED <<queue, ready, pending, suspended, ticks, task>>

(* xPortPendSVHandler: vTaskSwitchContext.                                 *)
PendSV ==
    /\ pendsv /\ ~Masked
    /\ pendsv' = FALSE
    /\ yield' = suspended
    /\ IF suspended THEN UNCHANGED current ELSE current' \in Foremost(ready \cup {Idle})
    /\ UNCHANGED <<queue, ready, pending, suspended, ticks, task>>

(* A task waits for something else, and an interrupt ends that waiting.    *)
SleepElsewhere(t) ==
    /\ At(t, "idle") /\ Goto(t, "away")
    /\ ready' = ready \ {t} /\ pendsv' = TRUE
    /\ UNCHANGED <<queue, pending, suspended, ticks, yield, current, left, way>>

WakeElsewhere(t) ==
    /\ ~Masked
    /\ pc[t] = "away" /\ Goto(t, "idle")
    /\ Awake(t) /\ pendsv' = (pendsv \/ Prio(t) > Prio(current))
    /\ UNCHANGED <<queue, suspended, ticks, current, left, way>>

(* An interrupt gives the semaphore; giving it twice changes nothing.      *)
GiveFromISR ==
    /\ ~Masked
    /\ count = 0 /\ count' = 1
    /\ \/ /\ cTxLock = Unlocked /\ waiting = {}
          /\ UNCHANGED <<cTxLock, waiting, ready, pending, yield, pendsv>>
       \/ /\ cTxLock = Unlocked
          /\ \E w \in Foremost(waiting) :
                Remove(w) /\ pendsv' = (pendsv \/ Prio(w) > Prio(current))
          /\ UNCHANGED cTxLock
       \/ /\ cTxLock # Unlocked
          /\ cTxLock' = IF cTxLock < NTasks THEN cTxLock + 1 ELSE cTxLock
          /\ UNCHANGED <<waiting, ready, pending, yield, pendsv>>
    /\ UNCHANGED <<txl, suspended, ticks, current, task>>

-----------------------------------------------------------------------------
(* xQueueSemaphoreTake.                                                    *)

Call(t) ==
    /\ At(t, "idle") /\ Goto(t, "ask")
    /\ UNCHANGED <<queue, sched, left, way>>

Return(t) == Goto(t, "idle") /\ left' = [left EXCEPT ![t] = Forever]

(* The critical section at the head of the loop: "ask" is the first pass,  *)
(* "last" the one after the block time has passed.                         *)
Check(t) ==
    /\ At(t, "ask") \/ At(t, "check") \/ At(t, "last")
    /\ \/ count = 1 /\ count' = 0 /\ Return(t)
       \/ count = 0 /\ pc[t] = "last" /\ Return(t) /\ UNCHANGED count
       \/ /\ count = 0 /\ pc[t] # "last"
          /\ Goto(t, "suspend")
          /\ left' = IF pc[t] = "ask" THEN [left EXCEPT ![t] = Wait[t]] ELSE left
          /\ UNCHANGED count
    /\ UNCHANGED <<cTxLock, waiting, txl, sched, way>>

SuspendAll(t) ==
    /\ At(t, "suspend") /\ Goto(t, "lock")
    /\ suspended' = TRUE
    /\ UNCHANGED <<queue, ready, pending, ticks, yield, pendsv, current, left, way>>

LockQueue(t) ==
    /\ At(t, "lock") /\ Goto(t, "timeout")
    /\ cTxLock' = IF cTxLock = Unlocked THEN 0 ELSE cTxLock
    /\ UNCHANGED <<count, waiting, txl, sched, left, way>>

CheckForTimeOutNever(t) ==   \* Mutant: the time that has passed is not subtracted
    At(t, "timeout") /\ Goto(t, "empty") /\ UNCHANGED <<queue, sched, left, way>>

CheckForTimeOut(t) ==
    /\ At(t, "timeout")
    /\ IF left[t] = 0 THEN Goto(t, "unlock") /\ way' = "expired"
                      ELSE Goto(t, "empty") /\ UNCHANGED way
    /\ UNCHANGED <<queue, sched, left>>

IsQueueEmptyUnasked(t) ==   \* Mutant: it blocks without looking again
    At(t, "empty") /\ Goto(t, "place") /\ way' = "block" /\ UNCHANGED <<queue, sched, left>>

IsQueueEmpty(t) ==
    /\ At(t, "empty")
    /\ IF count = 0 THEN Goto(t, "place") /\ way' = "block"
                    ELSE Goto(t, "unlock") /\ way' = "again"
    /\ UNCHANGED <<queue, sched, left>>

(* vTaskPlaceOnEventList: first the event list, then the delayed list.     *)
PlaceOnEventList(t) ==
    /\ At(t, "place") /\ Goto(t, "delay")
    /\ waiting' = waiting \cup {t}
    /\ UNCHANGED <<count, cTxLock, txl, sched, left, way>>

AddToDelayedList(t) ==
    /\ At(t, "delay") /\ Goto(t, "unlock")
    /\ ready' = ready \ {t}
    /\ UNCHANGED <<queue, pending, suspended, ticks, yield, pendsv, current, left, way>>

(* prvUnlockQueue: one waiting task is released for each give that was     *)
(* counted, in one critical section.                                       *)
EnterUnlock(t) ==
    /\ At(t, "unlock") /\ Goto(t, "drain")
    /\ txl' = cTxLock
    /\ UNCHANGED <<count, cTxLock, waiting, sched, left, way>>

Drain(t) ==
    /\ At(t, "drain")
    /\ \/ /\ txl > 0
          /\ \E w \in Foremost(waiting) : Remove(w)
          /\ txl' = txl - 1
          /\ UNCHANGED <<cTxLock, pc>>
       \/ /\ txl = 0 \/ waiting = {}
          /\ cTxLock' = Unlocked /\ Goto(t, "resume")
          /\ UNCHANGED <<txl, waiting, ready, pending, yield>>
    /\ UNCHANGED <<count, suspended, ticks, pendsv, current, left, way>>

ResumeAllStaying(t) ==   \* Mutant: the task that blocked does not yield
    /\ At(t, "resume") /\ Goto(t, IF way = "expired" THEN "recheck" ELSE "check")
    /\ suspended' = FALSE /\ ticks' = 0 /\ pending' = {}
    /\ left' = Elapsed(ticks)
    /\ ready' = ready \cup pending \cup Expired(ticks)
    /\ waiting' = waiting \ Expired(ticks)
    /\ yield' = (yield \/ \E u \in pending \cup Expired(ticks) : Prio(u) > Prio(current))
    /\ pendsv' = (pendsv \/ yield')
    /\ UNCHANGED <<count, cTxLock, txl, current, way>>

(* xTaskResumeAll, and the yield of a task that blocked.                   *)
ResumeAll(t) ==
    /\ At(t, "resume") /\ Goto(t, IF way = "expired" THEN "recheck" ELSE "check")
    /\ suspended' = FALSE /\ ticks' = 0 /\ pending' = {}
    /\ left' = Elapsed(ticks)
    /\ ready' = ready \cup pending \cup Expired(ticks)
    /\ waiting' = waiting \ Expired(ticks)
    /\ yield' = (yield \/ \E u \in pending \cup Expired(ticks) : Prio(u) > Prio(current))
    /\ pendsv' = (pendsv \/ yield' \/ way = "block")
    /\ UNCHANGED <<count, cTxLock, txl, current, way>>

RecheckBlind(t) ==   \* Mutant: it gives up without looking again
    At(t, "recheck") /\ Return(t) /\ UNCHANGED <<queue, sched, way>>

(* The block time has passed: give up, unless the semaphore was given.     *)
Recheck(t) ==
    /\ At(t, "recheck")
    /\ \/ count = 0 /\ Return(t)
       \/ count = 1 /\ Goto(t, "last") /\ UNCHANGED left
    /\ UNCHANGED <<queue, sched, way>>

SemaphoreTake(t) ==
    \/ Check(t) \/ SuspendAll(t) \/ LockQueue(t) \/ CheckForTimeOut(t) \/ IsQueueEmpty(t)
    \/ PlaceOnEventList(t) \/ AddToDelayedList(t) \/ EnterUnlock(t) \/ Drain(t)
    \/ ResumeAll(t) \/ Recheck(t)

Thread == \E t \in Tasks : SleepElsewhere(t) \/ Call(t) \/ SemaphoreTake(t)

Next == SysTick \/ PendSV \/ GiveFromISR \/ Thread \/ \E t \in Tasks : WakeElsewhere(t)

Spec == Init /\ [][Next]_vars

(* Ticks keep coming, a pending switch happens, and between interrupts the *)
(* running task executes.                                                  *)
FairSpec == Spec /\ WF_vars(SysTick) /\ WF_vars(PendSV) /\ SF_vars(Thread)

-----------------------------------------------------------------------------
(* The types of the kernel's state, with cTxLock and ticks in their bounds. *)
TypeOK ==
    /\ count \in 0..1 /\ cTxLock \in {Unlocked} \cup (0..NTasks) /\ txl \in 0..NTasks
    /\ waiting \subseteq Tasks /\ ready \subseteq Tasks /\ pending \subseteq Tasks
    /\ suspended \in BOOLEAN /\ ticks \in 0..MaxPended
    /\ yield \in BOOLEAN /\ pendsv \in BOOLEAN
    /\ current \in Tasks \cup {Idle}
    /\ pc \in [Tasks -> Labels]
    /\ left \in [Tasks -> Nat \cup {Forever}]
    /\ way \in {"again", "block", "expired"}

(* No give is lost: when the semaphore is given, the queue is unlocked and *)
(* tasks wait for it, another task has been released to take it.  What is  *)
(* counted in cTxLock while the queue is locked must not be dropped when   *)
(* it is unlocked (queue.c:2502-2581).                                     *)
NoForgottenGive ==
    count = 1 /\ cTxLock = Unlocked /\ waiting # {} =>
        \E t \in (ready \cup pending) \ waiting : pc[t] \notin {"idle", "ask"}

(* Unless a context switch is pending or the scheduler is suspended, the   *)
(* running task is ready and no ready task has a higher priority: a wake-  *)
(* up while the scheduler is suspended is made good when it is resumed.    *)
HighestRuns ==
    ~suspended /\ ~pendsv =>
        /\ current \in ready \cup {Idle}
        /\ \A t \in ready : Prio(t) <= Prio(current)

(* The kernel's semaphore is the one its users rely on.                    *)
Sem == INSTANCE BinarySem WITH
         sem <- (count = 1), asking <- {t \in Tasks : Asks(t)},
         Bounded <- {t \in Tasks : Wait[t] # Forever}
Implements == Sem!SemSpec

(* The tasks that can keep t from the processor.                           *)
Above(t) == {u \in Tasks \ {t} : Priority[u] >= Priority[t]}

(* A give wakes: the task of highest priority, asleep for as long as it    *)
(* takes, has taken the semaphore soon after it is given.                  *)
Served ==
    \A t \in Tasks :
        Wait[t] = Forever /\ Above(t) = {} => (Asks(t) /\ count = 1 ~> ~Asks(t))

(* A call with a finite time returns, given or not, unless the tasks above *)
(* keep running.                                                           *)
TimesOut ==
    \A t \in Tasks :
        Wait[t] # Forever => []<>(current \in Above(t)) \/ (Asks(t) ~> ~Asks(t))
=============================================================================
