------------------------------ MODULE Lifecycle ------------------------------
(***************************************************************************)
(* What src/src/fp256_init.c promises to its callers, without the lock:    *)
(* the library is either up or down; a call of fp256_init or fp256_deinit  *)
(* takes effect at one instant between its call and its return; a client   *)
(* that is inside the critical section keeps every other effect out until  *)
(* it leaves.  fp256_deinit of a library that is down returns inside.      *)
(***************************************************************************)
CONSTANTS
  Threads,    \* the threads of the client program
  NoThread    \* "nobody is inside the critical section"

VARIABLES
  up,       \* the library is initialised
  inside,   \* the client inside the critical section, or NoThread
  op,       \* op[t]: the operation thread t has under way
  phase,    \* phase[t]: called (no effect yet), applied (effect done), idle
  alive     \* FALSE once the process was aborted

vars == <<up, inside, op, phase, alive>>

Ops == {"init", "deinit", "crit"}

Init ==
  /\ up = FALSE
  /\ inside = NoThread
  /\ op = [t \in Threads |-> "none"]
  /\ phase = [t \in Threads |-> "idle"]
  /\ alive = TRUE

(* A thread calls one of the entry points. *)
Call(t) ==
  /\ alive
  /\ phase[t] = "idle"
  /\ \E o \in Ops : op' = [op EXCEPT ![t] = o]
  /\ phase' = [phase EXCEPT ![t] = "called"]
  /\ UNCHANGED <<up, inside, alive>>

(* A call of fp256_crit_leave, which has its effect when it returns.       *)
CallLeave(t) ==
  /\ alive
  /\ phase[t] = "idle"
  /\ op' = [op EXCEPT ![t] = "leave"]
  /\ phase' = [phase EXCEPT ![t] = "applied"]
  /\ UNCHANGED <<up, inside, alive>>

(* The instant at which the call of t takes effect. *)
Apply(t) ==
  /\ alive
  /\ phase[t] = "called"
  /\ inside = NoThread
  /\ phase' = [phase EXCEPT ![t] = "applied"]
  /\ \/ op[t] = "init"   /\ up' = TRUE  /\ UNCHANGED inside
     \/ op[t] = "deinit" /\ up /\ up' = FALSE /\ UNCHANGED inside
     \/ op[t] = "crit"   /\ inside' = t /\ UNCHANGED up
  /\ UNCHANGED <<op, alive>>

(* fp256_deinit finds the library down and returns at once, inside.        *)
ReturnInside(t) ==
  /\ alive
  /\ phase[t] = "called" /\ op[t] = "deinit"
  /\ inside = NoThread /\ ~up
  /\ inside' = t
  /\ phase' = [phase EXCEPT ![t] = "idle"]
  /\ op' = [op EXCEPT ![t] = "none"]
  /\ UNCHANGED <<up, alive>>

(* The call returns; a client that is inside the section leaves it.        *)
Return(t) ==
  /\ alive
  /\ phase[t] = "applied"
  /\ phase' = [phase EXCEPT ![t] = "idle"]
  /\ op' = [op EXCEPT ![t] = "none"]
  /\ inside' = IF inside = t THEN NoThread ELSE inside
  /\ UNCHANGED <<up, alive>>

(* An initialisation without a random source kills the process, and so    *)
(* does, where the section may be entered twice, a call from inside it.    *)
Abort ==
  /\ alive
  /\ \E t \in Threads :
       /\ phase[t] = "called"
       /\ \/ ~up /\ inside = NoThread /\ op[t] = "init"
          \/ inside = t
  /\ alive' = FALSE
  /\ UNCHANGED <<up, inside, op, phase>>

Next ==
  \/ \E t \in Threads : Call(t) \/ CallLeave(t) \/ Apply(t) \/ ReturnInside(t) \/ Return(t)
  \/ Abort

(* Some pending call is applied as long as one can be, and a call that has *)
(* taken effect returns.                                                   *)
Fairness ==
  /\ WF_vars(\E t \in Threads : Apply(t) \/ ReturnInside(t) \/ Return(t))
  /\ \A t \in Threads : WF_vars(Return(t))

Spec == Init /\ [][Next]_vars /\ Fairness
==============================================================================
