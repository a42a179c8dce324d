----------------------------- MODULE KernelSemInv -----------------------------
(***************************************************************************)
(* The inductive invariant of KernelSem.                                   *)
(***************************************************************************)
EXTENDS KernelSem

(* Only the running task is in the part with the scheduler suspended.      *)
Owner ==
    /\ suspended => current \in Tasks /\ pc[current] \in Suspended
    /\ \A t \in Tasks : pc[t] \in Suspended => suspended /\ current = t
    /\ ~suspended => pending = {}

(* The queue is locked exactly between prvLockQueue and the end of         *)
(* prvUnlockQueue.                                                         *)
QueueLocked == cTxLock # Unlocked <=> suspended /\ pc[current] \in Locked

(* The task inside the locked part that has put itself to sleep.           *)
FallingAsleep(t) ==
    suspended /\ t = current /\ pc[t] \in {"unlock", "drain", "resume"} /\ way = "block"

(* A task that is not ready waits for the semaphore or for something else, *)
(* or has been released and waits for the scheduler to resume; who is      *)
(* about to leave the ready list is in the event list already.             *)
Asleep ==
    /\ \A t \in Tasks \ ready :
          \/ pc[t] = "away"
          \/ t \in pending /\ pc[t] = "idle"
          \/ t \in waiting \cup pending /\ (pc[t] = "check" \/ FallingAsleep(t))
    /\ \A t \in Tasks : pc[t] = "away" => t \notin (ready \cup waiting \cup pending)
    /\ \A t \in waiting : \/ t \notin ready /\ pc[t] # "idle"
                          \/ suspended /\ t = current /\ pc[t] = "delay"
    /\ \A t \in pending : t \notin ready /\ t \notin waiting
    /\ suspended => /\ pc[current] \in {"place", "delay"} => way = "block"
                    /\ pc[current] = "delay" => current \in waiting

(* While the scheduler is suspended no ready task is above the running     *)
(* one, and a higher one that was released is remembered.                  *)
YieldRemembered ==
    suspended => /\ \A t \in ready : Prio(t) <= Prio(current)
                 /\ (\E t \in pending : Prio(t) > Prio(current)) => yield

(* A task that has been released and will look at the semaphore.           *)
Released == \E t \in (ready \cup pending) \ waiting : pc[t] \notin {"idle", "ask"}

(* A give is on record: in a released task, in cTxLock, or in the locking  *)
(* task, which saw it and does not sleep.                                  *)
GiveOnRecord ==
    count = 1 =>
        /\ cTxLock = 0 => \/ pc[current] \in {"timeout", "empty"}
                          \/ pc[current] \in {"unlock", "drain"} /\ way # "block"
        /\ suspended /\ pc[current] = "drain" /\ txl = 0 /\ waiting # {} => Released

(* Only a call has a time left, and only one with a finite time gives up.  *)
FiniteOnly ==
    /\ \A t \in Tasks : pc[t] \in {"idle", "away"} => left[t] = Forever
    /\ \A t \in Tasks :
          left[t] # Forever \/ pc[t] \in {"last", "recheck"} => Wait[t] # Forever
    /\ suspended /\ pc[current] \in {"unlock", "drain", "resume"} /\ way = "expired"
          => Wait[current] # Forever

(* The invariant that every step of the kernel keeps.                      *)
KernelInv ==
    /\ TypeOK
    /\ Owner /\ QueueLocked
    /\ Asleep
    /\ HighestRuns /\ YieldRemembered
    /\ NoForgottenGive /\ GiveOnRecord
    /\ FiniteOnly
=============================================================================
