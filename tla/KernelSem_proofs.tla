-------------------------- MODULE KernelSem_proofs --------------------------
(***************************************************************************)
(* KernelInv is inductive, and what follows from it, for any set of tasks, *)
(* any priorities and waiting times.                                       *)
(***************************************************************************)
EXTENDS KernelSemInv, TLAPS

(* Priorities are numbers, and the idle task's is the lowest.              *)
LEMMA PrioType == \A t \in Tasks \cup {Idle} : Prio(t) \in Nat
  BY KernelAssumption DEF Prio

(* The head of an event list is in it, and nothing in it is above it.      *)
LEMMA ForemostTop == ASSUME NEW S, NEW x \in Foremost(S)
                     PROVE  x \in S /\ \A u \in S : Prio(u) <= Prio(x)
  BY DEF Foremost

(* What the passing of n ticks does to the times left.                     *)
LEMMA ElapsedType == ASSUME TypeOK, NEW n \in Nat
                     PROVE  /\ Elapsed(n) \in [Tasks -> Nat \cup {Forever}]
                            /\ \A t \in Tasks : Elapsed(n)[t] # Forever => left[t] # Forever
  BY DEF TypeOK, Elapsed, Forever

(* Whose time passes is asleep.                                            *)
LEMMA ExpiredType == ASSUME NEW n
                     PROVE  Expired(n) \subseteq Tasks \ (ready \cup pending)
  BY DEF Expired

(* Whose time has come is inside a call.                                   *)
LEMMA ExpiredAsks == ASSUME FiniteOnly, NEW n, NEW t \in Expired(n)
                     PROVE  pc[t] \notin {"idle", "away"}
  BY DEF Expired, FiniteOnly, Forever

(* The parts of the invariant.                                             *)
LEMMA Parts == ASSUME KernelInv
               PROVE  /\ TypeOK /\ Owner /\ QueueLocked /\ Asleep /\ HighestRuns
                      /\ YieldRemembered /\ NoForgottenGive /\ GiveOnRecord /\ FiniteOnly
  BY DEF KernelInv

(* Removing a waiting task w: where it goes, and what else moves.          *)
LEMMA RemoveEffect == ASSUME KernelInv, NEW w \in waiting, Remove(w),
                             ~(suspended /\ pc[current] = "delay")
                      PROVE  /\ w \in Tasks /\ w \notin ready /\ w \notin pending
                             /\ pc[w] = "check" \/ FallingAsleep(w)
                             /\ waiting' = waiting \ {w} /\ w \notin waiting'
                             /\ w \in ready' \cup pending'
                             /\ suspended => ready' = ready /\ pending' = pending \cup {w}
                             /\ ~suspended => ready' = ready \cup {w} /\ pending' = pending
                             /\ yield' = (yield \/ Prio(w) > Prio(current))
  BY Parts DEF Remove, Awake, TypeOK, Asleep

(* What every removal keeps, from an interrupt or by the unlocking task.   *)
LEMMA RemoveKeeps ==
    ASSUME KernelInv, NEW w \in waiting, Remove(w), ~(suspended /\ pc[current] = "delay"),
           UNCHANGED <<pc, current, suspended, left, way, cTxLock>>,
           pendsv => pendsv', ~suspended /\ Prio(w) > Prio(current) => pendsv'
    PROVE  /\ Owner' /\ QueueLocked' /\ Asleep' /\ HighestRuns' /\ YieldRemembered'
           /\ FiniteOnly' /\ Released'
           /\ waiting' \subseteq Tasks /\ ready' \subseteq Tasks /\ pending' \subseteq Tasks
           /\ yield' \in BOOLEAN
  <1>1. /\ w \in Tasks /\ w \notin ready /\ w \notin pending
        /\ pc[w] = "check" \/ FallingAsleep(w)
        /\ waiting' = waiting \ {w} /\ w \notin waiting'
        /\ w \in ready' \cup pending'
        /\ suspended => ready' = ready /\ pending' = pending \cup {w}
        /\ ~suspended => ready' = ready \cup {w} /\ pending' = pending
        /\ yield' = (yield \/ Prio(w) > Prio(current))
    BY RemoveEffect
  <1>2. Owner' /\ QueueLocked' /\ FiniteOnly'
    BY <1>1, Parts DEF Owner, QueueLocked, FiniteOnly
  <1>3. Asleep'
    BY <1>1, Parts DEF Asleep, FallingAsleep
  <1>4. HighestRuns'
    <2>1. Prio(w) \in Nat /\ Prio(current) \in Nat
      BY <1>1, Parts, PrioType DEF TypeOK
    <2> QED
      BY <2>1, <1>1, Parts DEF HighestRuns
  <1>5. YieldRemembered'
    BY <1>1, Parts DEF YieldRemembered
  <1>6. Released'
    BY <1>1 DEF Released, FallingAsleep
  <1>7. waiting' \subseteq Tasks /\ ready' \subseteq Tasks /\ pending' \subseteq Tasks
    BY <1>1, Parts DEF TypeOK
  <1>8. yield' \in BOOLEAN
    BY <1>1, Parts, Zenon DEF TypeOK
  <1> QED
    BY <1>2, <1>3, <1>4, <1>5, <1>6, <1>7, <1>8

(* A task outside the suspended part that may execute is ready.            *)
LEMMA RunningReady ==
    ASSUME KernelInv, NEW t \in Tasks, current = t, ~pendsv \/ Masked, pc[t] \notin Suspended
    PROVE  ~suspended /\ ~pendsv /\ t \in ready
  <1>1. ~suspended
    BY Parts DEF Owner
  <1>2. ~Masked
    BY <1>1, Parts DEF Masked, Owner, Suspended, Locked
  <1> QED
    BY <1>1, <1>2, Parts, KernelAssumption DEF HighestRuns

(* A tick preserves the invariant.                                         *)
LEMMA SysTickInv == ASSUME KernelInv, SysTick PROVE KernelInv'
  <1> USE KernelAssumption DEF SysTick, queue, sched, task
  <1>0. TypeOK /\ Owner /\ QueueLocked /\ Asleep /\ HighestRuns /\ YieldRemembered
        /\ NoForgottenGive /\ GiveOnRecord /\ FiniteOnly
    BY DEF KernelInv
  <1>p. pc' = pc /\ current' = current /\ count' = count /\ cTxLock' = cTxLock
        /\ suspended' = suspended /\ pending' = pending /\ yield' = yield /\ way' = way /\ txl' = txl
    OBVIOUS
  <1>q. \/ /\ suspended /\ ticks' = ticks + 1 /\ ticks < MaxPended
           /\ waiting' = waiting /\ ready' = ready /\ left' = left /\ pendsv' = pendsv
        \/ /\ ~suspended /\ left' = Elapsed(1) /\ ticks' = ticks
           /\ ready' = ready \cup Expired(1) /\ waiting' = waiting \ Expired(1)
           /\ pendsv' = (pendsv \/ yield \/ \E t \in Expired(1) : Prio(t) > Prio(current))
    OBVIOUS
  <1>l. left' \in [Tasks -> Nat \cup {Forever}] /\ \A t \in Tasks : left'[t] # Forever => left[t] # Forever
    BY <1>0, <1>q, ElapsedType DEF TypeOK
  <1>1. TypeOK'
    <2>1. ticks' \in 0..MaxPended /\ ready' \subseteq Tasks /\ waiting' \subseteq Tasks
      BY <1>0, <1>q, ExpiredType DEF TypeOK
    <2>2. pendsv' \in BOOLEAN
      BY <1>0, <1>q, Zenon DEF TypeOK
    <2> QED
      BY <1>0, <1>p, <1>l, <2>1, <2>2 DEF TypeOK
  <1>2. Owner' /\ QueueLocked'
    BY <1>0 DEF TypeOK, Owner, QueueLocked, Suspended, Locked, Unlocked
  <1>3. Asleep'
    <2>1. CASE suspended
      BY <2>1, <1>p, <1>q, <1>0 DEF Asleep, FallingAsleep
    <2>2. CASE ~suspended
      <3>1. /\ \A t \in Expired(1) : pc[t] \notin {"idle", "away"}
            /\ Expired(1) \subseteq Tasks \ (ready \cup pending)
        BY <1>0, ExpiredAsks, ExpiredType
      <3>2. ready' = ready \cup Expired(1) /\ waiting' = waiting \ Expired(1)
        BY <2>2, <1>q
      <3> HIDE DEF SysTick
      <3> QED
        BY <2>2, <3>1, <3>2, <1>p, <1>0 DEF TypeOK, Asleep, FallingAsleep
    <2> QED
      BY <2>1, <2>2
  <1>4. HighestRuns' /\ YieldRemembered'
    <2>1. CASE suspended
      BY <2>1, <1>0, <1>p, <1>q DEF HighestRuns, YieldRemembered
    <2>2. CASE ~suspended
      <3>1. ~pendsv' => ~pendsv /\ \A t \in Expired(1) : ~(Prio(t) > Prio(current))
        BY <2>2, <1>q
      <3>2. Expired(1) \subseteq Tasks /\ current \in Tasks \cup {Idle} /\ ready \subseteq Tasks
        BY <1>0, ExpiredType DEF TypeOK
      <3> QED
        BY <2>2, <3>1, <3>2, <1>0, <1>p, <1>q, PrioType DEF HighestRuns, YieldRemembered
    <2> QED
      BY <2>1, <2>2
  <1>5. NoForgottenGive' /\ GiveOnRecord'
    BY <1>0 DEF TypeOK, Owner, QueueLocked, Asleep, FallingAsleep, NoForgottenGive, GiveOnRecord,
       Released, Suspended, Locked, Unlocked
  <1>6. FiniteOnly'
    BY <1>0, <1>p, <1>l DEF FiniteOnly
  <1> QED
    BY <1>1, <1>2, <1>3, <1>4, <1>5, <1>6 DEF KernelInv

(* A context switch preserves the invariant.                               *)
LEMMA PendSVInv == ASSUME KernelInv, PendSV PROVE KernelInv'
  <1> USE KernelAssumption DEF PendSV, queue, sched, task
  <1>0. TypeOK /\ Owner /\ QueueLocked /\ Asleep /\ HighestRuns /\ YieldRemembered
        /\ NoForgottenGive /\ GiveOnRecord /\ FiniteOnly
    BY DEF KernelInv
  <1>c. /\ current' \in ready \cup {Idle} \/ (suspended /\ current' = current)
        /\ ~suspended => \A t \in ready : Prio(t) <= Prio(current')
    <2>1. CASE suspended
      BY <2>1
    <2>2. CASE ~suspended
      <3>1. current' \in Foremost(ready \cup {Idle})
        BY <2>2
      <3> HIDE DEF PendSV
      <3>2. current' \in ready \cup {Idle} /\ \A u \in ready \cup {Idle} : Prio(u) <= Prio(current')
        BY <3>1, ForemostTop
      <3> QED
        BY <2>2, <3>2
    <2> QED
      BY <2>1, <2>2
  <1>1. TypeOK'
    BY <1>0, <1>c DEF TypeOK
  <1>2. Owner' /\ QueueLocked'
    BY <1>0 DEF TypeOK, Owner, QueueLocked, Suspended, Locked, Unlocked
  <1>3. Asleep'
    BY <1>0 DEF TypeOK, Owner, Asleep, FallingAsleep, Suspended, Locked
  <1>4. HighestRuns' /\ YieldRemembered'
    BY <1>0, <1>c DEF HighestRuns, YieldRemembered, Owner
  <1>5. NoForgottenGive' /\ GiveOnRecord'
    BY <1>0 DEF TypeOK, Owner, QueueLocked, Asleep, FallingAsleep, NoForgottenGive, GiveOnRecord,
       Released, Suspended, Locked, Unlocked
  <1>6. FiniteOnly'
    BY <1>0 DEF TypeOK, Owner, FiniteOnly, Suspended, Locked, Forever
  <1> QED
    BY <1>1, <1>2, <1>3, <1>4, <1>5, <1>6 DEF KernelInv

(* A give preserves the invariant.                                         *)
LEMMA GiveFromISRInv == ASSUME KernelInv, GiveFromISR PROVE KernelInv'
  <1> USE KernelAssumption DEF GiveFromISR, Remove, queue, sched, task
  <1>0. TypeOK /\ Owner /\ QueueLocked /\ Asleep /\ HighestRuns /\ YieldRemembered
        /\ NoForgottenGive /\ GiveOnRecord /\ FiniteOnly
    BY DEF KernelInv
  <1>p. /\ pc' = pc /\ current' = current /\ suspended' = suspended /\ left' = left /\ way' = way
        /\ txl' = txl /\ ticks' = ticks /\ count = 0 /\ count' = 1
        /\ \A t \in Tasks : pc[t] # "drain"
    BY DEF Masked
  <1>n. ASSUME cTxLock = Unlocked PROVE ~(suspended /\ pc[current] = "delay")
    BY <1>n, <1>0 DEF QueueLocked, Locked
  <1>r. ASSUME NEW w \in waiting, cTxLock = Unlocked, cTxLock' = cTxLock, Remove(w),
               pendsv' = (pendsv \/ Prio(w) > Prio(current))
        PROVE  KernelInv'
    <2> HIDE DEF GiveFromISR, Remove
    <2>1. pendsv' \in BOOLEAN /\ (pendsv => pendsv') /\ (Prio(w) > Prio(current) => pendsv')
      BY <1>r, <1>0, Zenon DEF TypeOK
    <2>2. /\ Owner' /\ QueueLocked' /\ Asleep' /\ HighestRuns' /\ YieldRemembered' /\ FiniteOnly'
          /\ Released' /\ waiting' \subseteq Tasks /\ ready' \subseteq Tasks
          /\ pending' \subseteq Tasks /\ yield' \in BOOLEAN
      BY <2>1, <1>r, <1>n, <1>p, RemoveKeeps
    <2>3. TypeOK'
      BY <2>1, <2>2, <1>r, <1>0, <1>p DEF TypeOK
    <2>4. NoForgottenGive' /\ GiveOnRecord'
      BY <2>2, <1>r, <1>p DEF NoForgottenGive, GiveOnRecord, Released, Unlocked
    <2> QED
      BY <2>2, <2>3, <2>4 DEF KernelInv
  <1>o. ASSUME waiting' = waiting, ready' = ready, pending' = pending, yield' = yield,
               pendsv' = pendsv,
               \/ cTxLock = Unlocked /\ cTxLock' = cTxLock /\ waiting = {}
               \/ cTxLock # Unlocked /\ cTxLock' \in 1..NTasks
        PROVE  KernelInv'
    <2> HIDE DEF GiveFromISR, Remove
    <2>1. TypeOK'
      BY <1>o, <1>p, <1>0 DEF TypeOK
    <2>2. Owner' /\ QueueLocked'
      BY <1>o, <1>p, <1>0 DEF Owner, QueueLocked, Unlocked
    <2>3. Asleep' /\ HighestRuns' /\ YieldRemembered' /\ FiniteOnly'
      BY <1>o, <1>p, <1>0 DEF Asleep, FallingAsleep, HighestRuns, YieldRemembered, FiniteOnly
    <2>4. NoForgottenGive' /\ GiveOnRecord'
      <3>1. suspended => current \in Tasks
        BY <1>0 DEF Owner
      <3> QED
        BY <3>1, <1>o, <1>p DEF NoForgottenGive, GiveOnRecord, Unlocked
    <2> QED
      BY <2>1, <2>2, <2>3, <2>4 DEF KernelInv
  <1>1. CASE cTxLock = Unlocked /\ waiting = {}
    BY <1>1, <1>o DEF Foremost
  <1>2. CASE cTxLock = Unlocked /\ waiting # {}
    <2>1. PICK w \in Foremost(waiting) : Remove(w) /\ pendsv' = (pendsv \/ Prio(w) > Prio(current))
      BY <1>2
    <2>2. w \in waiting /\ cTxLock' = cTxLock
      BY <1>2 DEF Foremost
    <2> QED
      BY <1>2, <2>1, <2>2, <1>r
  <1>3. CASE cTxLock # Unlocked
    <2>1. cTxLock' \in 1..NTasks
      BY <1>3, <1>0 DEF TypeOK, Unlocked
    <2> QED
      BY <1>3, <2>1, <1>o
  <1> QED
    BY <1>1, <1>2, <1>3

(* A task that goes to wait for something else preserves the invariant.    *)
LEMMA SleepElsewhereInv == ASSUME KernelInv, NEW t \in Tasks, SleepElsewhere(t) PROVE KernelInv'
  <1> USE KernelAssumption DEF SleepElsewhere, At, Goto, queue, sched, task
  <1>0. TypeOK /\ Owner /\ QueueLocked /\ Asleep /\ HighestRuns /\ YieldRemembered
        /\ NoForgottenGive /\ GiveOnRecord /\ FiniteOnly
    BY DEF KernelInv
  <1>r. ~suspended /\ ~pendsv /\ t \in ready
    BY RunningReady DEF Suspended, Locked
  <1>1. TypeOK'
    BY <1>0 DEF TypeOK, Labels
  <1>2. Owner' /\ QueueLocked'
    BY <1>0, <1>r DEF TypeOK, Owner, QueueLocked, Suspended, Locked
  <1>3. Asleep'
    BY <1>0, <1>r DEF TypeOK, Owner, Asleep, FallingAsleep, Suspended, Locked
  <1>4. HighestRuns' /\ YieldRemembered'
    BY <1>0, <1>r DEF TypeOK, HighestRuns, YieldRemembered
  <1>5. NoForgottenGive' /\ GiveOnRecord'
    BY <1>0, <1>r DEF TypeOK, Owner, QueueLocked, Asleep, NoForgottenGive, GiveOnRecord, Released,
       Suspended, Locked, Unlocked
  <1>6. FiniteOnly'
    BY <1>0, <1>r DEF TypeOK, FiniteOnly
  <1> QED
    BY <1>1, <1>2, <1>3, <1>4, <1>5, <1>6 DEF KernelInv

(* An interrupt that ends such a waiting preserves the invariant.          *)
LEMMA WakeElsewhereInv == ASSUME KernelInv, NEW t \in Tasks, WakeElsewhere(t) PROVE KernelInv'
  <1> USE KernelAssumption DEF WakeElsewhere, Goto, queue, sched, task
  <1>0. TypeOK /\ Owner /\ QueueLocked /\ Asleep /\ HighestRuns /\ YieldRemembered
        /\ NoForgottenGive /\ GiveOnRecord /\ FiniteOnly
    BY DEF KernelInv
  <1>p. /\ pc[t] = "away" /\ pc' = [pc EXCEPT ![t] = "idle"]
        /\ count' = count /\ cTxLock' = cTxLock /\ waiting' = waiting /\ txl' = txl
        /\ suspended' = suspended /\ ticks' = ticks /\ current' = current
        /\ left' = left /\ way' = way
        /\ suspended => ready' = ready /\ pending' = pending \cup {t}
        /\ ~suspended => ready' = ready \cup {t} /\ pending' = pending
        /\ yield' = (yield \/ Prio(t) > Prio(current))
        /\ pendsv' = (pendsv \/ Prio(t) > Prio(current))
    BY DEF Awake
  <1>q. t \notin ready /\ t \notin waiting /\ t \notin pending /\ (suspended => current # t)
    BY <1>p, <1>0 DEF Asleep, Owner, Suspended, Locked
  <1> HIDE DEF WakeElsewhere
  <1>1. TypeOK'
    <2>1. yield' \in BOOLEAN /\ pendsv' \in BOOLEAN
      BY <1>p, <1>0, Zenon DEF TypeOK
    <2>2. ready' \subseteq Tasks /\ pending' \subseteq Tasks
      BY <1>p, <1>0 DEF TypeOK
    <2>3. pc' \in [Tasks -> Labels]
      BY <1>p, <1>0 DEF TypeOK, Labels
    <2> QED
      BY <2>1, <2>2, <2>3, <1>p, <1>0 DEF TypeOK
  <1>2. Owner' /\ QueueLocked'
    BY <1>p, <1>q, <1>0 DEF TypeOK, Owner, QueueLocked, Suspended, Locked
  <1>3. Asleep'
    BY <1>p, <1>q, <1>0 DEF TypeOK, Owner, Asleep, FallingAsleep, Suspended, Locked
  <1>4. HighestRuns' /\ YieldRemembered'
    <2>1. Prio(t) \in Nat /\ Prio(current) \in Nat
      BY <1>0, PrioType DEF TypeOK
    <2>2. HighestRuns'
      <3>1. ~pendsv' => ~pendsv /\ ~(Prio(t) > Prio(current))
        BY <1>p
      <3> QED
        BY <2>1, <3>1, <1>p, <1>0 DEF HighestRuns
    <2>3. YieldRemembered'
      BY <2>1, <1>p, <1>0 DEF YieldRemembered
    <2> QED
      BY <2>2, <2>3
  <1>5. NoForgottenGive' /\ GiveOnRecord'
    <2>1. Released => Released'
      BY <1>p, <1>q, <1>0 DEF Released, TypeOK
    <2>2. suspended => pc'[current] = pc[current]
      BY <1>p, <1>q, <1>0 DEF TypeOK
    <2>3. NoForgottenGive'
      BY <2>1, <1>p, <1>0 DEF NoForgottenGive, Released
    <2>4. GiveOnRecord'
      BY <2>1, <2>2, <1>p, <1>0 DEF GiveOnRecord, QueueLocked, Unlocked
    <2> QED
      BY <2>3, <2>4
  <1>6. FiniteOnly'
    BY <1>p, <1>q, <1>0 DEF TypeOK, FiniteOnly
  <1> QED
    BY <1>1, <1>2, <1>3, <1>4, <1>5, <1>6 DEF KernelInv

(* A task calls xQueueSemaphoreTake.                                       *)
LEMMA CallInv == ASSUME KernelInv, NEW t \in Tasks, Call(t) PROVE KernelInv'
  <1> USE KernelAssumption DEF Call, At, Goto, queue, sched, task
  <1>0. TypeOK /\ Owner /\ QueueLocked /\ Asleep /\ HighestRuns /\ YieldRemembered
        /\ NoForgottenGive /\ GiveOnRecord /\ FiniteOnly
    BY DEF KernelInv
  <1>1. TypeOK'
    BY <1>0 DEF TypeOK, Labels, Suspended, Locked
  <1>2. Owner' /\ QueueLocked'
    BY <1>0 DEF TypeOK, Owner, QueueLocked, Suspended, Locked, Unlocked
  <1>3. Asleep'
    BY <1>0 DEF TypeOK, Owner, Asleep, FallingAsleep, Suspended, Locked
  <1>4. HighestRuns' /\ YieldRemembered'
    BY <1>0 DEF TypeOK, Owner, HighestRuns, YieldRemembered, Asleep, FallingAsleep, Suspended, Locked
  <1>5. NoForgottenGive' /\ GiveOnRecord'
    BY <1>0 DEF TypeOK, Owner, QueueLocked, Asleep, FallingAsleep, NoForgottenGive, GiveOnRecord,
       Released, Suspended, Locked, Unlocked
  <1>6. FiniteOnly'
    BY <1>0 DEF TypeOK, Owner, FiniteOnly, Suspended, Locked, Forever
  <1> QED
    BY <1>1, <1>2, <1>3, <1>4, <1>5, <1>6 DEF KernelInv

(* The critical section at the head of the loop.                           *)
LEMMA CheckInv == ASSUME KernelInv, NEW t \in Tasks, Check(t) PROVE KernelInv'
  <1> USE KernelAssumption DEF Check, At, Goto, Return, queue, sched, task
  <1>0. TypeOK /\ Owner /\ QueueLocked /\ Asleep /\ HighestRuns /\ YieldRemembered
        /\ NoForgottenGive /\ GiveOnRecord /\ FiniteOnly
    BY DEF KernelInv
  <1>1. TypeOK'
    BY <1>0 DEF TypeOK, Labels, Suspended, Locked
  <1>2. Owner' /\ QueueLocked'
    BY <1>0 DEF TypeOK, Owner, QueueLocked, Suspended, Locked, Unlocked
  <1>3. Asleep'
    <2>1. t \in ready /\ ~suspended
      BY RunningReady DEF Suspended, Locked
    <2> QED
      BY <2>1, <1>0 DEF TypeOK, Asleep, FallingAsleep
  <1>4. HighestRuns' /\ YieldRemembered'
    BY <1>0 DEF TypeOK, Owner, HighestRuns, YieldRemembered, Asleep, FallingAsleep, Suspended, Locked
  <1>5. NoForgottenGive' /\ GiveOnRecord'
    BY <1>0 DEF TypeOK, Owner, QueueLocked, Asleep, FallingAsleep, NoForgottenGive, GiveOnRecord,
       Released, Suspended, Locked, Unlocked
  <1>6. FiniteOnly'
    BY <1>0 DEF TypeOK, Owner, FiniteOnly, Suspended, Locked, Forever
  <1> QED
    BY <1>1, <1>2, <1>3, <1>4, <1>5, <1>6 DEF KernelInv

(* The scheduler is suspended: HighestRuns becomes YieldRemembered.        *)
LEMMA SuspendAllInv == ASSUME KernelInv, NEW t \in Tasks, SuspendAll(t) PROVE KernelInv'
  <1> USE KernelAssumption DEF SuspendAll, At, Goto, queue, sched, task
  <1>0. TypeOK /\ Owner /\ QueueLocked /\ Asleep /\ HighestRuns /\ YieldRemembered
        /\ NoForgottenGive /\ GiveOnRecord /\ FiniteOnly
    BY DEF KernelInv
  <1>1. TypeOK'
    BY <1>0 DEF TypeOK, Labels, Suspended, Locked
  <1>2. Owner' /\ QueueLocked'
    BY <1>0 DEF TypeOK, Owner, QueueLocked, Suspended, Locked, Unlocked
  <1>3. Asleep'
    BY <1>0 DEF TypeOK, Owner, Asleep, FallingAsleep, Suspended, Locked
  <1>4. HighestRuns' /\ YieldRemembered'
    <2>1. ~suspended /\ ~pendsv
      BY RunningReady DEF Suspended, Locked
    <2> QED
      BY <2>1, <1>0 DEF HighestRuns, YieldRemembered, Owner
  <1>5. NoForgottenGive' /\ GiveOnRecord'
    BY <1>0 DEF TypeOK, Owner, QueueLocked, Asleep, FallingAsleep, NoForgottenGive, GiveOnRecord,
       Released, Suspended, Locked, Unlocked
  <1>6. FiniteOnly'
    BY <1>0 DEF TypeOK, Owner, FiniteOnly, Suspended, Locked, Forever
  <1> QED
    BY <1>1, <1>2, <1>3, <1>4, <1>5, <1>6 DEF KernelInv

(* The queue is locked.                                                    *)
LEMMA LockQueueInv == ASSUME KernelInv, NEW t \in Tasks, LockQueue(t) PROVE KernelInv'
  <1> USE KernelAssumption DEF LockQueue, At, Goto, queue, sched, task
  <1>0. TypeOK /\ Owner /\ QueueLocked /\ Asleep /\ HighestRuns /\ YieldRemembered
        /\ NoForgottenGive /\ GiveOnRecord /\ FiniteOnly
    BY DEF KernelInv
  <1>1. TypeOK'
    BY <1>0 DEF TypeOK, Labels, Suspended, Locked
  <1>2. Owner' /\ QueueLocked'
    BY <1>0 DEF TypeOK, Owner, QueueLocked, Suspended, Locked, Unlocked
  <1>3. Asleep'
    BY <1>0 DEF TypeOK, Owner, Asleep, FallingAsleep, Suspended, Locked
  <1>4. HighestRuns' /\ YieldRemembered'
    BY <1>0 DEF TypeOK, Owner, HighestRuns, YieldRemembered, Asleep, FallingAsleep, Suspended, Locked
  <1>5. NoForgottenGive' /\ GiveOnRecord'
    BY <1>0 DEF TypeOK, Owner, QueueLocked, Asleep, FallingAsleep, NoForgottenGive, GiveOnRecord,
       Released, Suspended, Locked, Unlocked
  <1>6. FiniteOnly'
    BY <1>0 DEF TypeOK, Owner, FiniteOnly, Suspended, Locked, Forever
  <1> QED
    BY <1>1, <1>2, <1>3, <1>4, <1>5, <1>6 DEF KernelInv

(* The block time is compared.                                             *)
LEMMA CheckForTimeOutInv == ASSUME KernelInv, NEW t \in Tasks, CheckForTimeOut(t) PROVE KernelInv'
  <1> USE KernelAssumption DEF CheckForTimeOut, At, Goto, queue, sched, task
  <1>0. TypeOK /\ Owner /\ QueueLocked /\ Asleep /\ HighestRuns /\ YieldRemembered
        /\ NoForgottenGive /\ GiveOnRecord /\ FiniteOnly
    BY DEF KernelInv
  <1>1. TypeOK'
    BY <1>0 DEF TypeOK, Labels, Suspended, Locked
  <1>2. Owner' /\ QueueLocked'
    BY <1>0 DEF TypeOK, Owner, QueueLocked, Suspended, Locked, Unlocked
  <1>3. Asleep'
    BY <1>0 DEF TypeOK, Owner, Asleep, FallingAsleep, Suspended, Locked
  <1>4. HighestRuns' /\ YieldRemembered'
    BY <1>0 DEF TypeOK, Owner, HighestRuns, YieldRemembered, Asleep, FallingAsleep, Suspended, Locked
  <1>5. NoForgottenGive' /\ GiveOnRecord'
    BY <1>0 DEF TypeOK, Owner, QueueLocked, Asleep, FallingAsleep, NoForgottenGive, GiveOnRecord,
       Released, Suspended, Locked, Unlocked
  <1>6. FiniteOnly'
    BY <1>0 DEF TypeOK, Owner, FiniteOnly, Suspended, Locked, Forever
  <1> QED
    BY <1>1, <1>2, <1>3, <1>4, <1>5, <1>6 DEF KernelInv

(* A task decides to sleep only while the semaphore is empty.              *)
LEMMA IsQueueEmptyInv == ASSUME KernelInv, NEW t \in Tasks, IsQueueEmpty(t) PROVE KernelInv'
  <1> USE KernelAssumption DEF IsQueueEmpty, At, Goto, queue, sched, task
  <1>0. TypeOK /\ Owner /\ QueueLocked /\ Asleep /\ HighestRuns /\ YieldRemembered
        /\ NoForgottenGive /\ GiveOnRecord /\ FiniteOnly
    BY DEF KernelInv
  <1>1. TypeOK'
    BY <1>0 DEF TypeOK, Labels, Suspended, Locked
  <1>2. Owner' /\ QueueLocked'
    BY <1>0 DEF TypeOK, Owner, QueueLocked, Suspended, Locked, Unlocked
  <1>3. Asleep'
    BY <1>0 DEF TypeOK, Owner, Asleep, FallingAsleep, Suspended, Locked
  <1>4. HighestRuns' /\ YieldRemembered'
    BY <1>0 DEF TypeOK, Owner, HighestRuns, YieldRemembered, Asleep, FallingAsleep, Suspended, Locked
  <1>5. NoForgottenGive' /\ GiveOnRecord'
    BY <1>0 DEF TypeOK, Owner, QueueLocked, Asleep, FallingAsleep, NoForgottenGive, GiveOnRecord,
       Released, Suspended, Locked, Unlocked
  <1>6. FiniteOnly'
    BY <1>0 DEF TypeOK, Owner, FiniteOnly, Suspended, Locked, Forever
  <1> QED
    BY <1>1, <1>2, <1>3, <1>4, <1>5, <1>6 DEF KernelInv

(* The task enters the event list and is still ready.                      *)
LEMMA PlaceOnEventListInv == ASSUME KernelInv, NEW t \in Tasks, PlaceOnEventList(t) PROVE KernelInv'
  <1> USE KernelAssumption DEF PlaceOnEventList, At, Goto, queue, sched, task
  <1>0. TypeOK /\ Owner /\ QueueLocked /\ Asleep /\ HighestRuns /\ YieldRemembered
        /\ NoForgottenGive /\ GiveOnRecord /\ FiniteOnly
    BY DEF KernelInv
  <1>1. TypeOK'
    BY <1>0 DEF TypeOK, Labels, Suspended, Locked
  <1>2. Owner' /\ QueueLocked'
    BY <1>0 DEF TypeOK, Owner, QueueLocked, Suspended, Locked, Unlocked
  <1>3. Asleep'
    BY <1>0 DEF TypeOK, Owner, Asleep, FallingAsleep, Suspended, Locked
  <1>4. HighestRuns' /\ YieldRemembered'
    BY <1>0 DEF TypeOK, Owner, HighestRuns, YieldRemembered, Asleep, FallingAsleep, Suspended, Locked
  <1>5. NoForgottenGive' /\ GiveOnRecord'
    BY <1>0 DEF TypeOK, Owner, QueueLocked, Asleep, FallingAsleep, NoForgottenGive, GiveOnRecord,
       Released, Suspended, Locked, Unlocked
  <1>6. FiniteOnly'
    BY <1>0 DEF TypeOK, Owner, FiniteOnly, Suspended, Locked, Forever
  <1> QED
    BY <1>1, <1>2, <1>3, <1>4, <1>5, <1>6 DEF KernelInv

(* The task leaves the ready list.                                         *)
LEMMA AddToDelayedListInv == ASSUME KernelInv, NEW t \in Tasks, AddToDelayedList(t) PROVE KernelInv'
  <1> USE KernelAssumption DEF AddToDelayedList, At, Goto, queue, sched, task
  <1>0. TypeOK /\ Owner /\ QueueLocked /\ Asleep /\ HighestRuns /\ YieldRemembered
        /\ NoForgottenGive /\ GiveOnRecord /\ FiniteOnly
    BY DEF KernelInv
  <1>1. TypeOK'
    BY <1>0 DEF TypeOK, Labels, Suspended, Locked
  <1>2. Owner' /\ QueueLocked'
    BY <1>0 DEF TypeOK, Owner, QueueLocked, Suspended, Locked, Unlocked
  <1>3. Asleep'
    <2>1. way = "block" /\ t \in waiting /\ suspended
      BY <1>0 DEF Owner, Asleep, Suspended, Locked
    <2> QED
      BY <2>1, <1>0 DEF TypeOK, Asleep, FallingAsleep
  <1>4. HighestRuns' /\ YieldRemembered'
    BY <1>0 DEF TypeOK, Owner, HighestRuns, YieldRemembered, Asleep, FallingAsleep, Suspended, Locked
  <1>5. NoForgottenGive' /\ GiveOnRecord'
    BY <1>0 DEF TypeOK, Owner, QueueLocked, Asleep, FallingAsleep, NoForgottenGive, GiveOnRecord,
       Released, Suspended, Locked, Unlocked
  <1>6. FiniteOnly'
    <2>1. way = "block"
      BY <1>0 DEF Owner, Asleep, Suspended, Locked
    <2> QED
      BY <2>1, <1>0 DEF TypeOK, FiniteOnly
  <1> QED
    BY <1>1, <1>2, <1>3, <1>4, <1>5, <1>6 DEF KernelInv

(* cTxLock is read with interrupts masked.                                 *)
LEMMA EnterUnlockInv == ASSUME KernelInv, NEW t \in Tasks, EnterUnlock(t) PROVE KernelInv'
  <1> USE KernelAssumption DEF EnterUnlock, At, Goto, queue, sched, task
  <1>0. TypeOK /\ Owner /\ QueueLocked /\ Asleep /\ HighestRuns /\ YieldRemembered
        /\ NoForgottenGive /\ GiveOnRecord /\ FiniteOnly
    BY DEF KernelInv
  <1>1. TypeOK'
    <2>1. cTxLock \in 0..NTasks
      BY <1>0 DEF TypeOK, QueueLocked, Owner, Suspended, Locked
    <2> QED
      BY <2>1, <1>0 DEF TypeOK, Labels, Suspended, Locked
  <1>2. Owner' /\ QueueLocked'
    BY <1>0 DEF TypeOK, Owner, QueueLocked, Suspended, Locked, Unlocked
  <1>3. Asleep'
    BY <1>0 DEF TypeOK, Owner, Asleep, FallingAsleep, Suspended, Locked
  <1>4. HighestRuns' /\ YieldRemembered'
    BY <1>0 DEF TypeOK, Owner, HighestRuns, YieldRemembered, Asleep, FallingAsleep, Suspended, Locked
  <1>5. NoForgottenGive' /\ GiveOnRecord'
    BY <1>0 DEF TypeOK, Owner, QueueLocked, Asleep, FallingAsleep, NoForgottenGive, GiveOnRecord,
       Released, Suspended, Locked, Unlocked
  <1>6. FiniteOnly'
    BY <1>0 DEF TypeOK, Owner, FiniteOnly, Suspended, Locked, Forever
  <1> QED
    BY <1>1, <1>2, <1>3, <1>4, <1>5, <1>6 DEF KernelInv

(* A task is released, or the queue is unlocked.                           *)
LEMMA DrainInv == ASSUME KernelInv, NEW t \in Tasks, Drain(t) PROVE KernelInv'
  <1> USE DEF At, Goto, queue, sched, task
  <1>0. /\ TypeOK /\ Owner /\ QueueLocked /\ Asleep /\ HighestRuns /\ YieldRemembered
        /\ NoForgottenGive /\ GiveOnRecord /\ FiniteOnly
    BY DEF KernelInv
  <1>p. /\ current = t /\ pc[t] = "drain" /\ suspended
        /\ count' = count /\ suspended' = suspended /\ ticks' = ticks /\ pendsv' = pendsv
        /\ current' = current /\ left' = left /\ way' = way
    BY <1>0 DEF Drain, Owner, Suspended, Locked
  <1>1. CASE txl > 0 /\ (\E w \in Foremost(waiting) : Remove(w)) /\ txl' = txl - 1
             /\ cTxLock' = cTxLock /\ pc' = pc
    <2>1. PICK w \in waiting : Remove(w)
      BY <1>1 DEF Foremost
    <2>2. /\ Owner' /\ QueueLocked' /\ Asleep' /\ HighestRuns' /\ YieldRemembered' /\ FiniteOnly'
          /\ Released' /\ waiting' \subseteq Tasks /\ ready' \subseteq Tasks
          /\ pending' \subseteq Tasks /\ yield' \in BOOLEAN
      BY <2>1, <1>1, <1>p, RemoveKeeps
    <2>3. TypeOK'
      <3>1. txl' \in 0..NTasks
        BY <1>1, <1>0, KernelAssumption DEF TypeOK
      <3> QED
        BY <2>2, <3>1, <1>1, <1>p, <1>0 DEF TypeOK
    <2>4. NoForgottenGive' /\ GiveOnRecord'
      BY <2>2, <1>0, <1>1, <1>p DEF NoForgottenGive, GiveOnRecord, Released
    <2> QED
      BY <2>2, <2>3, <2>4 DEF KernelInv
  <1>2. CASE /\ txl = 0 \/ waiting = {}
             /\ cTxLock' = Unlocked /\ pc' = [pc EXCEPT ![t] = "resume"]
             /\ UNCHANGED <<txl, waiting, ready, pending, yield>>
    <2>1. TypeOK'
      BY <1>2, <1>p, <1>0 DEF TypeOK, Labels, Suspended
    <2>2. Owner' /\ QueueLocked'
      BY <1>2, <1>p, <1>0 DEF TypeOK, Owner, QueueLocked, Suspended, Locked
    <2>3. Asleep' /\ HighestRuns' /\ YieldRemembered' /\ FiniteOnly'
      BY <1>2, <1>p, <1>0 DEF TypeOK, Asleep, FallingAsleep, HighestRuns, YieldRemembered, FiniteOnly
    <2>4. NoForgottenGive' /\ GiveOnRecord'
      <3>1. count = 1 /\ waiting # {} => Released
        BY <1>2, <1>p, <1>0 DEF GiveOnRecord
      <3>2. Released => Released'
        BY <1>2, <1>p, <1>0 DEF Released, TypeOK
      <3> QED
        BY <3>1, <3>2, <1>2, <1>p, <1>0 DEF TypeOK, NoForgottenGive, GiveOnRecord, Released, Unlocked
    <2> QED
      BY <2>1, <2>2, <2>3, <2>4 DEF KernelInv
  <1> QED
    BY <1>1, <1>2 DEF Drain

(* The scheduler resumes: YieldRemembered becomes HighestRuns.             *)
LEMMA ResumeAllInv == ASSUME KernelInv, NEW t \in Tasks, ResumeAll(t) PROVE KernelInv'
  <1> USE KernelAssumption DEF ResumeAll, At, Goto, queue, sched, task
  <1>0. TypeOK /\ Owner /\ QueueLocked /\ Asleep /\ HighestRuns /\ YieldRemembered
        /\ NoForgottenGive /\ GiveOnRecord /\ FiniteOnly
    BY DEF KernelInv
  <1>p. /\ current = t /\ pc[t] = "resume" /\ suspended /\ suspended' = FALSE /\ current' = current
        /\ cTxLock = Unlocked /\ cTxLock' = cTxLock /\ count' = count /\ txl' = txl /\ way' = way
        /\ waiting' = waiting \ Expired(ticks)
        /\ ready' = ready \cup pending \cup Expired(ticks) /\ pending' = {} /\ ticks' = 0
    BY <1>0 DEF Owner, QueueLocked, Suspended, Locked
  <1>x. Expired(ticks) \subseteq Tasks \ (ready \cup pending)
    BY ExpiredType
  <1>l. left' \in [Tasks -> Nat \cup {Forever}] /\ \A u \in Tasks : left'[u] # Forever => left[u] # Forever
    BY <1>0, ElapsedType DEF TypeOK
  <1>1. TypeOK'
    <2>1. yield' \in BOOLEAN
      BY <1>0, Zenon DEF TypeOK
    <2>2. pendsv' \in BOOLEAN
      BY <1>0, <2>1, Zenon DEF TypeOK
    <2>3. pc' \in [Tasks -> Labels]
      BY <1>0 DEF TypeOK, Labels
    <2> HIDE DEF ResumeAll, At, Goto
    <2>4. ready' \subseteq Tasks /\ waiting' \subseteq Tasks /\ pending' \subseteq Tasks
      BY <1>0, <1>p, <1>x DEF TypeOK
    <2>5. /\ count' \in 0..1 /\ cTxLock' \in {Unlocked} \cup (0..NTasks) /\ txl' \in 0..NTasks
          /\ current' \in Tasks \cup {Idle} /\ way' \in {"again", "block", "expired"}
      BY <1>0, <1>p DEF TypeOK
    <2>6. ticks' \in 0..MaxPended
      BY <1>p, <1>0 DEF TypeOK
    <2>7. suspended' \in BOOLEAN
      BY <1>p
    <2> QED
      BY <1>l, <2>1, <2>2, <2>3, <2>4, <2>5, <2>6, <2>7 DEF TypeOK
  <1>2. Owner' /\ QueueLocked'
    BY <1>0 DEF TypeOK, Owner, QueueLocked, Suspended, Locked, Unlocked
  <1>3. Asleep'
    <2>1. \A u \in Expired(ticks) : pc[u] \notin {"idle", "away"} /\ u \in Tasks
      BY <1>0, <1>x, ExpiredAsks
    <2>2. /\ pc' = [pc EXCEPT ![t] = IF way = "expired" THEN "recheck" ELSE "check"]
          /\ way = "block" \/ t \in ready
      BY <1>0, <1>p DEF Asleep, FallingAsleep, Owner
    <2> HIDE DEF ResumeAll
    <2> QED
      BY <2>1, <2>2, <1>p, <1>x, <1>0 DEF TypeOK, Asleep, FallingAsleep
  <1>4. HighestRuns' /\ YieldRemembered'
    <2>1. ~pendsv' => ~yield' /\ way # "block"
      OBVIOUS
    <2>2. ~yield' => ~yield /\ \A u \in pending \cup Expired(ticks) : ~(Prio(u) > Prio(current))
      OBVIOUS
    <2>3. \A u \in pending \cup Expired(ticks) : Prio(u) \in Nat
      BY <1>0, <1>x, PrioType DEF TypeOK
    <2>4. Prio(current) \in Nat
      BY <1>p, PrioType
    <2>5. way # "block" => t \in ready
      BY <1>0, <1>p DEF Asleep, FallingAsleep
    <2>6. \A u \in ready : Prio(u) <= Prio(current)
      BY <1>0, <1>p DEF YieldRemembered
    <2> HIDE DEF ResumeAll
    <2> QED
      BY <2>1, <2>2, <2>3, <2>4, <2>5, <2>6, <1>p DEF HighestRuns, YieldRemembered
  <1>5. NoForgottenGive' /\ GiveOnRecord'
    BY <1>0 DEF TypeOK, Owner, QueueLocked, Asleep, FallingAsleep, NoForgottenGive, GiveOnRecord,
       Released, Suspended, Locked, Unlocked
  <1>6. FiniteOnly'
    <2>1. \A u \in Tasks : pc'[u] \in {"last", "recheck"} =>
             pc[u] \in {"last", "recheck"} \/ (u = t /\ way = "expired")
      BY <1>0 DEF TypeOK
    <2> QED
      BY <2>1, <1>0, <1>p, <1>l DEF FiniteOnly
  <1> QED
    BY <1>1, <1>2, <1>3, <1>4, <1>5, <1>6 DEF KernelInv

(* A call gives up only when the semaphore is empty.                       *)
LEMMA RecheckInv == ASSUME KernelInv, NEW t \in Tasks, Recheck(t) PROVE KernelInv'
  <1> USE KernelAssumption DEF Recheck, At, Goto, Return, queue, sched, task
  <1>0. TypeOK /\ Owner /\ QueueLocked /\ Asleep /\ HighestRuns /\ YieldRemembered
        /\ NoForgottenGive /\ GiveOnRecord /\ FiniteOnly
    BY DEF KernelInv
  <1>1. TypeOK'
    BY <1>0 DEF TypeOK, Labels, Suspended, Locked
  <1>2. Owner' /\ QueueLocked'
    BY <1>0 DEF TypeOK, Owner, QueueLocked, Suspended, Locked, Unlocked
  <1>3. Asleep'
    BY <1>0 DEF TypeOK, Owner, Asleep, FallingAsleep, Suspended, Locked
  <1>4. HighestRuns' /\ YieldRemembered'
    BY <1>0 DEF TypeOK, Owner, HighestRuns, YieldRemembered, Asleep, FallingAsleep, Suspended, Locked
  <1>5. NoForgottenGive' /\ GiveOnRecord'
    BY <1>0 DEF TypeOK, Owner, QueueLocked, Asleep, FallingAsleep, NoForgottenGive, GiveOnRecord,
       Released, Suspended, Locked, Unlocked
  <1>6. FiniteOnly'
    BY <1>0 DEF TypeOK, Owner, FiniteOnly, Suspended, Locked, Forever
  <1> QED
    BY <1>1, <1>2, <1>3, <1>4, <1>5, <1>6 DEF KernelInv

(* The initial state.                                                      *)
LEMMA InitInv == Init => KernelInv
  <1> SUFFICES ASSUME Init PROVE KernelInv
    OBVIOUS
  <1> USE KernelAssumption DEF Init
  <1>1. current \in Tasks \cup {Idle} /\ \A t \in Tasks : Prio(t) <= Prio(current)
    BY DEF Foremost
  <1>2. TypeOK
    <2>1. pc \in [Tasks -> Labels] /\ left \in [Tasks -> Nat \cup {Forever}]
      BY DEF Labels
    <2>2. yield \in BOOLEAN /\ pendsv \in BOOLEAN /\ suspended \in BOOLEAN
      OBVIOUS
    <2>3. count \in 0..1 /\ txl \in 0..NTasks /\ ticks \in 0..MaxPended
      OBVIOUS
    <2> QED
      BY <1>1, <2>1, <2>2, <2>3 DEF TypeOK
  <1>3. Owner /\ QueueLocked /\ Asleep /\ YieldRemembered
    BY DEF Owner, QueueLocked, Asleep, YieldRemembered, Suspended, Locked
  <1>4. HighestRuns
    BY <1>1 DEF HighestRuns
  <1>5. NoForgottenGive /\ GiveOnRecord /\ FiniteOnly
    BY DEF NoForgottenGive, GiveOnRecord, FiniteOnly
  <1> QED
    BY <1>2, <1>3, <1>4, <1>5 DEF KernelInv

(* Every step preserves the invariant.                                     *)
LEMMA StepInv == KernelInv /\ [Next]_vars => KernelInv'
  <1> SUFFICES ASSUME KernelInv, [Next]_vars PROVE KernelInv'
    OBVIOUS
  <1>1. CASE UNCHANGED vars
    BY <1>1 DEF vars, queue, sched, task, KernelInv, TypeOK, Owner, QueueLocked, Asleep, FallingAsleep,
       HighestRuns, YieldRemembered, NoForgottenGive, GiveOnRecord, Released, FiniteOnly
  <1>2. CASE SysTick \/ GiveFromISR \/ PendSV
    BY <1>2, SysTickInv, GiveFromISRInv, PendSVInv
  <1>3. ASSUME NEW t \in Tasks,
               WakeElsewhere(t) \/ SleepElsewhere(t) \/ Call(t) \/ SemaphoreTake(t)
        PROVE  KernelInv'
    BY <1>3, WakeElsewhereInv, SleepElsewhereInv, CallInv, CheckInv, SuspendAllInv, LockQueueInv, CheckForTimeOutInv, IsQueueEmptyInv,
       PlaceOnEventListInv, AddToDelayedListInv, EnterUnlockInv, DrainInv, ResumeAllInv, RecheckInv
       DEF SemaphoreTake
  <1> QED
    BY <1>1, <1>2, <1>3 DEF Next, Thread

(* KernelInv holds in every reachable state.                               *)
THEOREM KernelInvariant == Spec => []KernelInv
  BY InitInv, StepInv, PTL DEF Spec

(* The variables of the kernel have their types, whatever the tasks, their *)
(* priorities and their times.                                             *)
THEOREM KernelTypeCorrect == Spec => []TypeOK
  <1>1. KernelInv => TypeOK
    BY DEF KernelInv
  <1> QED
    BY <1>1, KernelInvariant, PTL

(* No give is lost while the queue is locked: a waiting task and a given   *)
(* semaphore go together only when a task has been released to take it.    *)
THEOREM KernelNoForgottenGive == Spec => []NoForgottenGive
  <1>1. KernelInv => NoForgottenGive
    BY DEF KernelInv
  <1> QED
    BY <1>1, KernelInvariant, PTL

(* The scheduler misses no switch: with none pending, the highest ready    *)
(* task runs.                                                              *)
THEOREM KernelHighestRuns == Spec => []HighestRuns
  <1>1. KernelInv => HighestRuns
    BY DEF KernelInv
  <1> QED
    BY <1>1, KernelInvariant, PTL

(* A step of the kernel is a step of the semaphore, or changes neither.    *)
LEMMA StepImplements == ASSUME KernelInv, [Next]_vars
                        PROVE  [Sem!SemNext]_<<count = 1, {t \in Tasks : Asks(t)}>>
  <1> DEFINE asking == {t \in Tasks : Asks(t)}
  <1> USE DEF queue, sched, task, Asks
  <1>0. TypeOK /\ FiniteOnly
    BY DEF KernelInv
  <1>1. CASE UNCHANGED vars
    BY <1>1 DEF vars
  <1>2. CASE SysTick \/ PendSV
    BY <1>2 DEF SysTick, PendSV
  <1>7. ASSUME NEW t \in Tasks, SleepElsewhere(t) \/ WakeElsewhere(t)
        PROVE  count' = count /\ asking' = asking
    BY <1>7, <1>0 DEF SleepElsewhere, WakeElsewhere, At, Goto, TypeOK
  <1>3. CASE GiveFromISR
    BY <1>3 DEF GiveFromISR, Sem!SemNext, Sem!Give
  <1>4. ASSUME NEW t \in Tasks, Call(t)
        PROVE  Sem!Ask(t)
    BY <1>4, <1>0 DEF Call, At, Goto, TypeOK, Sem!Ask
  <1>5. ASSUME NEW t \in Tasks, Check(t) \/ Recheck(t)
        PROVE  Sem!Take(t) \/ Sem!Fail(t) \/ (count' = count /\ asking' = asking)
    <2>1. CASE count = 1 /\ count' = 0
      BY <2>1, <1>5, <1>0 DEF Check, Recheck, Return, At, Goto, TypeOK, Sem!Take
    <2>2. CASE count = 0 /\ pc[t] \in {"last", "recheck"} /\ Return(t) /\ count' = count
      BY <2>2, <1>5, <1>0 DEF Return, Goto, FiniteOnly, TypeOK, Sem!Fail
    <2>3. CASE count' = count /\ (Goto(t, "suspend") \/ Goto(t, "last")) /\ Asks(t)
      BY <2>3, <1>0 DEF Goto, TypeOK
    <2> QED
      BY <2>1, <2>2, <2>3, <1>5 DEF Check, Recheck, At
  <1>6. ASSUME NEW t \in Tasks, SemaphoreTake(t), ~Check(t), ~Recheck(t)
        PROVE  count' = count /\ asking' = asking
    BY <1>6, <1>0 DEF SemaphoreTake, SuspendAll, LockQueue, CheckForTimeOut, IsQueueEmpty,
       PlaceOnEventList, AddToDelayedList, EnterUnlock, Drain, ResumeAll, At, Goto, TypeOK
  <1> QED
    BY <1>1, <1>2, <1>3, <1>4, <1>5, <1>6, <1>7 DEF Next, Thread, SemaphoreTake, Sem!SemNext

(* FreeRTOS's binary semaphore, with its locks, lists and interrupts, is   *)
(* the abstract one: takes and gives alternate, and only a task that gave  *)
(* a finite time fails, when the semaphore is empty.                       *)
THEOREM KernelImplementsSem == Spec => Implements
  <1>1. Init => Sem!SemInit
    BY DEF Init, Asks, Sem!SemInit
  <1>2. KernelInv /\ [Next]_vars => [Sem!SemNext]_<<count = 1, {t \in Tasks : Asks(t)}>>
    BY StepImplements
  <1> QED
    BY <1>1, <1>2, KernelInvariant, PTL DEF Spec, Implements, Sem!SemSpec
=============================================================================
