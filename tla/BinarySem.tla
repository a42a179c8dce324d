------------------------------ MODULE BinarySem ------------------------------
(***************************************************************************)
(* What the users of a FreeRTOS binary semaphore rely on (mb_slv.c,        *)
(* bsp_uart.c): interrupts give it, tasks ask for it and take it, one take *)
(* for one give; a take that fails found it empty, and only a task that    *)
(* gave a finite time can fail.                                            *)
(***************************************************************************)
CONSTANTS Tasks,    (* the tasks that take the semaphore                   *)
          Bounded   (* those of them that wait for a finite time           *)

VARIABLES sem,      (* whether the semaphore is given                      *)
          asking    (* the tasks inside xSemaphoreTake                     *)

SemInit == sem = FALSE /\ asking = {}

Give == sem' = TRUE /\ UNCHANGED asking

Ask(t) == t \notin asking /\ asking' = asking \cup {t} /\ UNCHANGED sem

Take(t) == sem /\ t \in asking /\ sem' = FALSE /\ asking' = asking \ {t}

Fail(t) == ~sem /\ t \in asking \cap Bounded /\ asking' = asking \ {t} /\ UNCHANGED sem

SemNext == Give \/ \E t \in Tasks : Ask(t) \/ Take(t) \/ Fail(t)

SemSpec == SemInit /\ [][SemNext]_<<sem, asking>>
=============================================================================
