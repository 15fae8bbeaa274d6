---------------------------- MODULE LibInitProofs ----------------------------
(***************************************************************************)
(* Mutual exclusion in src/src/fp256_init.c for every set of threads and   *)
(* every client policy: the theorems of LibInit, from its inductive        *)
(* invariant IInv; and that every step of LibInit is a step of Lifecycle   *)
(* or changes nothing there: the safety part of ImplementsLifecycle.       *)
(***************************************************************************)
EXTENDS LibInit, TLAPS

USE NoThreadAssumption

(* The first state satisfies the invariant. *)
LEMMA InitIInv == Init => IInv
<1> SUFFICES ASSUME Init PROVE IInv
  OBVIOUS
<1>1. TypeOK
  BY DEF Init, TypeOK, Steps, Functions
<1>2. OwnerHolds /\ StrayIsAlone /\ RandMeansDown
  BY DEF Init, OwnerHolds, StrayIsAlone, RandMeansDown, Inside
<1>3. FlagTracksOwner /\ CallMatchesStep /\ CreatedOnce
  BY DEF Init, FlagTracksOwner, CallMatchesStep, CreatedOnce
<1> QED
  BY <1>1, <1>2, <1>3 DEF IInv

(* A call moves its thread from "idle" to the first step of                *)
(* fp256_crit_enter or to "stray"; the mutex and the flags are untouched.  *)
LEMMA CallsIInv ==
  ASSUME IInv, NEW t \in Threads, Calls(t)
  PROVE  IInv'
<1> USE DEF IInv, TypeOK, Steps, Functions, OwnerHolds, FlagTracksOwner,
            StrayIsAlone, CallMatchesStep, RandMeansDown, CreatedOnce, Inside, Goto
<1>1. CASE \E f \in {"init", "deinit", "crit"} :
             Call(t, f) /\ (UNCHANGED using \/ using' = {} \/ using' = using \ {t})
  <2>1. PICK f \in {"init", "deinit", "crit"} :
             Call(t, f) /\ (UNCHANGED using \/ using' = {} \/ using' = using \ {t})
    BY <1>1
  <2>2. /\ pc' = [pc EXCEPT ![t] = FirstStep]
        /\ call' = [call EXCEPT ![t] = f]
        /\ pc[t] = "idle"
        /\ UNCHANGED <<system, policy, once, mutex, locked, initialized, aborted>>
        /\ ret' = [ret EXCEPT ![t] = "none"]
        /\ \A u \in Threads : pc[u] # "stray"
    BY <2>1 DEF Call, NoStray
  <2>3. TypeOK'
    BY <2>1, <2>2 DEF FirstStep
  <2>4. OwnerHolds'
    BY <2>2 DEF FirstStep
  <2>5. FlagTracksOwner'
    BY <2>2 DEF FirstStep
  <2>6. StrayIsAlone'
    BY <2>2 DEF FirstStep
  <2>7. CallMatchesStep' /\ RandMeansDown'
    BY <2>2 DEF FirstStep
  <2>8. CreatedOnce'
    BY <2>2 DEF FirstStep
  <2> QED
    BY <2>3, <2>4, <2>5, <2>6, <2>7, <2>8
<1>2. CASE CallStrayLeave(t)
  <2>1. /\ pc' = [pc EXCEPT ![t] = "stray"]
        /\ call' = [call EXCEPT ![t] = "leave"]
        /\ ret' = [ret EXCEPT ![t] = "none"]
        /\ mutex \in {NoThread, t}
        /\ \A u \in Threads : pc[u] = "idle"
        /\ UNCHANGED <<system, policy, once, mutex, locked, initialized, using, aborted>>
    BY <1>2 DEF CallStrayLeave
  <2>2. TypeOK'
    BY <2>1
  <2>3. OwnerHolds' /\ FlagTracksOwner'
    BY <2>1
  <2>4. StrayIsAlone'
    BY <2>1
  <2>5. CallMatchesStep' /\ RandMeansDown' /\ CreatedOnce'
    BY <2>1
  <2> QED
    BY <2>2, <2>3, <2>4, <2>5
<1> QED
  BY <1>1, <1>2 DEF Calls, CallInit, CallDeinit, CallCritEnter

(* A step inside a function of fp256_init.c preserves the invariant.       *)
LEMMA BodyIInv ==
  ASSUME IInv, NEW t \in Threads, Body(t)
  PROVE  IInv'
<1> USE DEF IInv, TypeOK, Steps, Functions, OwnerHolds, FlagTracksOwner,
            StrayIsAlone, CallMatchesStep, RandMeansDown, CreatedOnce, Inside, Goto
<1>1. CASE Lock(t)
  <2>1. TypeOK'
    BY <1>1 DEF Lock
  <2>2. OwnerHolds'
    BY <1>1 DEF Lock
  <2>3. FlagTracksOwner'
    BY <1>1 DEF Lock
  <2>4. StrayIsAlone' /\ CallMatchesStep' /\ RandMeansDown'
    BY <1>1 DEF Lock
  <2>5. CreatedOnce'
    BY <1>1 DEF Lock
  <2> QED
    BY <2>1, <2>2, <2>3, <2>4, <2>5
<1>2. CASE Mark(t)
  <2>1. TypeOK'
    BY <1>2 DEF Mark, AfterEnter
  <2>2. OwnerHolds'
    BY <1>2 DEF Mark, AfterEnter
  <2>3. FlagTracksOwner'
    BY <1>2 DEF Mark, AfterEnter
  <2>4. StrayIsAlone' /\ CallMatchesStep' /\ RandMeansDown'
    BY <1>2 DEF Mark, AfterEnter
  <2>5. CreatedOnce'
    BY <1>2 DEF Mark, AfterEnter
  <2> QED
    BY <2>1, <2>2, <2>3, <2>4, <2>5
<1>3. CASE InitTest(t)
  <2>1. TypeOK'
    BY <1>3 DEF InitTest
  <2>2. OwnerHolds'
    BY <1>3 DEF InitTest
  <2>3. FlagTracksOwner'
    BY <1>3 DEF InitTest
  <2>4. StrayIsAlone' /\ CallMatchesStep' /\ RandMeansDown'
    BY <1>3 DEF InitTest
  <2>5. CreatedOnce'
    BY <1>3 DEF InitTest
  <2> QED
    BY <2>1, <2>2, <2>3, <2>4, <2>5
<1>4. CASE InitRand(t)
  <2>1. TypeOK'
    BY <1>4 DEF InitRand
  <2>2. OwnerHolds'
    BY <1>4 DEF InitRand
  <2>3. FlagTracksOwner'
    BY <1>4 DEF InitRand
  <2>4. StrayIsAlone' /\ CallMatchesStep' /\ RandMeansDown'
    BY <1>4 DEF InitRand
  <2>5. CreatedOnce'
    BY <1>4 DEF InitRand
  <2> QED
    BY <2>1, <2>2, <2>3, <2>4, <2>5
<1>5. CASE InitAbort(t)
  <2>1. TypeOK'
    BY <1>5 DEF InitAbort
  <2>2. OwnerHolds'
    BY <1>5 DEF InitAbort
  <2>3. FlagTracksOwner'
    BY <1>5 DEF InitAbort
  <2>4. StrayIsAlone' /\ CallMatchesStep' /\ RandMeansDown'
    BY <1>5 DEF InitAbort
  <2>5. CreatedOnce'
    BY <1>5 DEF InitAbort
  <2> QED
    BY <2>1, <2>2, <2>3, <2>4, <2>5
<1>6. CASE InitSet(t)
  <2>1. TypeOK'
    BY <1>6 DEF InitSet
  <2>2. OwnerHolds'
    BY <1>6 DEF InitSet
  <2>3. FlagTracksOwner'
    BY <1>6 DEF InitSet
  <2>4. StrayIsAlone' /\ CallMatchesStep' /\ RandMeansDown'
    BY <1>6 DEF InitSet
  <2>5. CreatedOnce'
    BY <1>6 DEF InitSet
  <2> QED
    BY <2>1, <2>2, <2>3, <2>4, <2>5
<1>7. CASE DeinitClear(t)
  <2>1. TypeOK'
    BY <1>7 DEF DeinitClear
  <2>2. OwnerHolds'
    BY <1>7 DEF DeinitClear
  <2>3. FlagTracksOwner'
    BY <1>7 DEF DeinitClear
  <2>4. StrayIsAlone' /\ CallMatchesStep' /\ RandMeansDown'
    BY <1>7 DEF DeinitClear
  <2>5. CreatedOnce'
    BY <1>7 DEF DeinitClear
  <2> QED
    BY <2>1, <2>2, <2>3, <2>4, <2>5
<1>8. CASE DeinitReturn(t)
  <2>1. TypeOK'
    BY <1>8 DEF DeinitReturn
  <2>2. OwnerHolds'
    BY <1>8 DEF DeinitReturn
  <2>3. FlagTracksOwner'
    BY <1>8 DEF DeinitReturn
  <2>4. StrayIsAlone' /\ CallMatchesStep' /\ RandMeansDown'
    BY <1>8 DEF DeinitReturn
  <2>5. CreatedOnce'
    BY <1>8 DEF DeinitReturn
  <2> QED
    BY <2>1, <2>2, <2>3, <2>4, <2>5
<1>9. CASE CallCritLeave(t)
  <2>1. TypeOK'
    BY <1>9 DEF CallCritLeave
  <2>2. OwnerHolds'
    BY <1>9 DEF CallCritLeave
  <2>3. FlagTracksOwner'
    BY <1>9 DEF CallCritLeave
  <2>4. StrayIsAlone' /\ CallMatchesStep' /\ RandMeansDown'
    BY <1>9 DEF CallCritLeave
  <2>5. CreatedOnce'
    BY <1>9 DEF CallCritLeave
  <2> QED
    BY <2>1, <2>2, <2>3, <2>4, <2>5
<1>10. CASE LeaveTest(t)
  <2>1. TypeOK'
    BY <1>10 DEF LeaveTest
  <2>2. OwnerHolds'
    BY <1>10 DEF LeaveTest
  <2>3. FlagTracksOwner'
    BY <1>10 DEF LeaveTest
  <2>4. StrayIsAlone' /\ CallMatchesStep' /\ RandMeansDown'
    BY <1>10 DEF LeaveTest
  <2>5. CreatedOnce'
    BY <1>10 DEF LeaveTest
  <2> QED
    BY <2>1, <2>2, <2>3, <2>4, <2>5
<1>11. CASE LeaveRefused(t)
  <2>1. TypeOK'
    BY <1>11 DEF LeaveRefused
  <2>2. OwnerHolds'
    BY <1>11 DEF LeaveRefused
  <2>3. FlagTracksOwner'
    BY <1>11 DEF LeaveRefused
  <2>4. StrayIsAlone' /\ CallMatchesStep' /\ RandMeansDown'
    BY <1>11 DEF LeaveRefused
  <2>5. CreatedOnce'
    BY <1>11 DEF LeaveRefused
  <2> QED
    BY <2>1, <2>2, <2>3, <2>4, <2>5
<1>12. CASE LeaveClear(t)
  <2>1. TypeOK'
    BY <1>12 DEF LeaveClear
  <2>2. OwnerHolds'
    BY <1>12 DEF LeaveClear
  <2>3. FlagTracksOwner'
    BY <1>12 DEF LeaveClear
  <2>4. StrayIsAlone' /\ CallMatchesStep' /\ RandMeansDown'
    BY <1>12 DEF LeaveClear
  <2>5. CreatedOnce'
    BY <1>12 DEF LeaveClear
  <2> QED
    BY <2>1, <2>2, <2>3, <2>4, <2>5
<1>13. CASE Unlock(t)
  <2>1. TypeOK'
    BY <1>13 DEF Unlock
  <2>2. OwnerHolds'
    BY <1>13 DEF Unlock
  <2>3. FlagTracksOwner'
    BY <1>13 DEF Unlock
  <2>4. StrayIsAlone' /\ CallMatchesStep' /\ RandMeansDown'
    BY <1>13 DEF Unlock
  <2>5. CreatedOnce'
    BY <1>13 DEF Unlock
  <2> QED
    BY <2>1, <2>2, <2>3, <2>4, <2>5
<1>14. CASE TestOnce(t)
  <2>1. TypeOK'
    BY <1>14 DEF TestOnce
  <2>2. OwnerHolds'
    BY <1>14 DEF TestOnce
  <2>3. FlagTracksOwner'
    BY <1>14 DEF TestOnce
  <2>4. StrayIsAlone' /\ CallMatchesStep' /\ RandMeansDown'
    BY <1>14 DEF TestOnce
  <2>5. CreatedOnce'
    BY <1>14 DEF TestOnce
  <2> QED
    BY <2>1, <2>2, <2>3, <2>4, <2>5
<1>15. CASE Create(t)
  <2>1. TypeOK'
    BY <1>15 DEF Create
  <2>2. OwnerHolds'
    BY <1>15 DEF Create
  <2>3. FlagTracksOwner'
    BY <1>15 DEF Create
  <2>4. StrayIsAlone' /\ CallMatchesStep' /\ RandMeansDown'
    BY <1>15 DEF Create
  <2>5. CreatedOnce'
    BY <1>15 DEF Create
  <2> QED
    BY <2>1, <2>2, <2>3, <2>4, <2>5
<1>16. CASE Publish(t)
  <2>1. TypeOK'
    BY <1>16 DEF Publish
  <2>2. OwnerHolds'
    BY <1>16 DEF Publish
  <2>3. FlagTracksOwner'
    BY <1>16 DEF Publish
  <2>4. StrayIsAlone' /\ CallMatchesStep' /\ RandMeansDown'
    BY <1>16 DEF Publish
  <2>5. CreatedOnce'
    BY <1>16 DEF Publish
  <2> QED
    BY <2>1, <2>2, <2>3, <2>4, <2>5
<1>17. CASE LockAgain(t)
  <2>1. TypeOK'
    BY <1>17 DEF LockAgain
  <2>2. OwnerHolds'
    BY <1>17 DEF LockAgain
  <2>3. FlagTracksOwner'
    BY <1>17 DEF LockAgain
  <2>4. StrayIsAlone' /\ CallMatchesStep' /\ RandMeansDown'
    BY <1>17 DEF LockAgain
  <2>5. CreatedOnce'
    BY <1>17 DEF LockAgain
  <2> QED
    BY <2>1, <2>2, <2>3, <2>4, <2>5
<1> QED
  BY <1>1, <1>2, <1>3, <1>4, <1>5, <1>6, <1>7, <1>8, <1>9, <1>10, <1>11, <1>12, <1>13,
     <1>14, <1>15, <1>16, <1>17 DEF Body

(* IInv is an invariant of fp256_init.c: it holds initially, and calls,    *)
(* steps of a function, a dead process and stuttering all preserve it.     *)
THEOREM InductiveInvariant == Spec => []IInv
<1>1. IInv /\ [Next]_vars => IInv'
  <2> SUFFICES ASSUME IInv, [Next]_vars PROVE IInv'
    OBVIOUS
  <2>1. CASE UNCHANGED vars
    BY <2>1 DEF vars, IInv, TypeOK, OwnerHolds, FlagTracksOwner, StrayIsAlone,
                CallMatchesStep, RandMeansDown, CreatedOnce
  <2>2. CASE \E t \in Threads : Calls(t) \/ Body(t)
    BY <2>2, CallsIInv, BodyIInv
  <2> QED
    BY <2>1, <2>2 DEF Next, Dead
<1> QED
  BY InitIInv, <1>1, PTL DEF Spec

(* The variables keep their types: in particular the mutex never has an    *)
(* owner that is not a thread, and "locked" and "initialized" stay 0 or 1. *)
THEOREM TypeCorrect == Spec => []TypeOK
<1>1. IInv => TypeOK
  BY DEF IInv
<1> QED
  BY <1>1, InductiveInvariant, PTL

(* No two threads are inside the critical section, and a thread inside it  *)
(* finds "locked" set when it gets to fp256_crit_leave, for every client,  *)
(* the one that leaks the section in fp256_deinit included.                *)
THEOREM MutualExclusion == Spec => []ExclusiveSection
<1>1. IInv => ExclusiveSection
  BY DEF IInv, TypeOK, OwnerHolds, FlagTracksOwner, ExclusiveSection, Inside
<1> QED
  BY <1>1, InductiveInvariant, PTL

(* The assertion of fp256_crit_enter never fails.                          *)
THEOREM EnterAssertion == Spec => []AssertUnlocked
<1>1. IInv => AssertUnlocked
  BY DEF IInv, TypeOK, OwnerHolds, FlagTracksOwner, AssertUnlocked
<1> QED
  BY <1>1, InductiveInvariant, PTL

(* Only fp256_init, inside the section, sets "initialized", and only       *)
(* fp256_deinit, inside the section, clears it.                            *)
THEOREM GuardedFlag == Spec => FlagChangesInSection
<1>1. IInv /\ [Next]_vars =>
        (initialized' # initialized =>
           \E t \in Threads :
             /\ mutex = t /\ locked = 1
             /\ call[t] = IF initialized = 0 THEN "init" ELSE "deinit")
  <2> SUFFICES ASSUME IInv, [Next]_vars, initialized' # initialized
               PROVE  \E t \in Threads :
                        /\ mutex = t /\ locked = 1
                        /\ call[t] = IF initialized = 0 THEN "init" ELSE "deinit"
    OBVIOUS
  <2>1. PICK t \in Threads : InitSet(t) \/ DeinitClear(t)
    BY Zenon DEF Next, vars, Dead, Calls, Body, CallInit, CallDeinit, CallCritEnter,
           CallStrayLeave, Call, TestOnce, Create, Publish, Lock, LockAgain, Mark, InitTest, InitRand, InitAbort,
           DeinitReturn, CallCritLeave, LeaveTest, LeaveRefused, LeaveClear, Unlock
  <2>2. mutex = t /\ locked = 1
    BY <2>1 DEF InitSet, DeinitClear, Goto, IInv, TypeOK, OwnerHolds,
                FlagTracksOwner, Inside
  <2>3. call[t] = IF initialized = 0 THEN "init" ELSE "deinit"
    BY <2>1 DEF InitSet, DeinitClear, Goto, IInv, CallMatchesStep, RandMeansDown
  <2> QED
    BY <2>2, <2>3
<1>2. Spec => [][initialized' # initialized =>
                   \E t \in Threads :
                     /\ mutex = t /\ locked = 1
                     /\ call[t] = IF initialized = 0 THEN "init" ELSE "deinit"]_vars
  BY <1>1, InductiveInvariant, PTL DEF Spec
<1> QED
  BY <1>2 DEF FlagChangesInSection

(***************************************************************************)
(* A client that shuts down only when nobody is in fp256_init or           *)
(* fp256_deinit: while somebody uses the library it is up.  During a       *)
(* shutdown nobody does, and nobody initialises; an fp256_init that has    *)
(* got past its test or its assignment finds the flag set when it returns. *)
(***************************************************************************)
UpWhileUsed ==
  policy = "quiescent" =>
    /\ using # {} => initialized = 1
    /\ \A t \in Threads : call[t] = "deinit" =>
         using = {} /\ \A u \in Threads : call[u] # "init"
    /\ \A t \in Threads : call[t] = "init" /\ pc[t] \in {"leave", "clear", "unlock"} =>
         initialized = 1

LEMMA CallsUpWhileUsed ==
  ASSUME IInv, UpWhileUsed, NEW t \in Threads, Calls(t)
  PROVE  UpWhileUsed'
<1> USE DEF IInv, TypeOK, CallMatchesStep, UpWhileUsed, Goto
<1>1. CASE CallInit(t)
  BY <1>1 DEF CallInit, MayInit, Call, FirstStep
<1>2. CASE CallDeinit(t)
  BY <1>2 DEF CallDeinit, MayDeinit, Call, FirstStep
<1>3. CASE CallCritEnter(t)
  BY <1>3 DEF CallCritEnter, Call, FirstStep
<1>4. CASE CallStrayLeave(t)
  BY <1>4 DEF CallStrayLeave
<1> QED
  BY <1>1, <1>2, <1>3, <1>4 DEF Calls

LEMMA BodyUpWhileUsed ==
  ASSUME IInv, UpWhileUsed, NEW t \in Threads, Body(t)
  PROVE  UpWhileUsed'
<1> USE DEF IInv, TypeOK, StrayIsAlone, CallMatchesStep, RandMeansDown, UpWhileUsed, Goto
<1>1. CASE TestOnce(t)
  BY <1>1 DEF TestOnce
<1>2. CASE Create(t)
  BY <1>2 DEF Create
<1>3. CASE Publish(t)
  BY <1>3 DEF Publish
<1>4. CASE Lock(t)
  BY <1>4 DEF Lock
<1>5. CASE LockAgain(t)
  BY <1>5 DEF LockAgain
<1>6. CASE Mark(t)
  BY <1>6 DEF Mark, AfterEnter
<1>7. CASE InitTest(t)
  BY <1>7 DEF InitTest
<1>8. CASE InitRand(t)
  BY <1>8 DEF InitRand
<1>9. CASE InitAbort(t)
  BY <1>9 DEF InitAbort
<1>10. CASE InitSet(t)
  BY <1>10 DEF InitSet
<1>11. CASE DeinitClear(t)
  BY <1>11 DEF DeinitClear
<1>12. CASE DeinitReturn(t)
  BY <1>12 DEF DeinitReturn
<1>13. CASE CallCritLeave(t)
  BY <1>13 DEF CallCritLeave
<1>14. CASE LeaveTest(t)
  BY <1>14 DEF LeaveTest
<1>15. CASE LeaveRefused(t)
  BY <1>15 DEF LeaveRefused
<1>16. CASE LeaveClear(t)
  <2>1. /\ pc' = [pc EXCEPT ![t] = "unlock"] /\ pc[t] = "clear"
        /\ UNCHANGED <<policy, initialized, call, using>>
    BY <1>16 DEF LeaveClear
  <2> QED
    BY <2>1
<1>17. CASE Unlock(t)
  <2>1. /\ pc' = [pc EXCEPT ![t] = "idle"] /\ pc[t] = "unlock"
        /\ call' = [call EXCEPT ![t] = "none"]
        /\ using' = IF call[t] = "init" THEN using \cup {t} ELSE using
        /\ UNCHANGED <<policy, initialized>>
    BY <1>17 DEF Unlock
  <2> QED
    BY <2>1
<1> QED
  BY <1>1, <1>2, <1>3, <1>4, <1>5, <1>6, <1>7, <1>8, <1>9,
     <1>10, <1>11, <1>12, <1>13, <1>14, <1>15, <1>16, <1>17 DEF Body

(* FP256_OK of fp256_init means that the library is up, and stays up until *)
(* a client that keeps the others out of fp256_init and fp256_deinit shuts *)
(* it down.                                                                *)
THEOREM OkMeansUp == Spec => []InitOkMeansUp
<1>1. Init => UpWhileUsed
  BY DEF Init, UpWhileUsed
<1>2. IInv /\ UpWhileUsed /\ [Next]_vars => UpWhileUsed'
  <2> SUFFICES ASSUME IInv, UpWhileUsed, [Next]_vars PROVE UpWhileUsed'
    OBVIOUS
  <2>1. CASE UNCHANGED vars
    BY <2>1 DEF vars, UpWhileUsed
  <2>2. CASE \E t \in Threads : Calls(t) \/ Body(t)
    BY <2>2, CallsUpWhileUsed, BodyUpWhileUsed
  <2> QED
    BY <2>1, <2>2 DEF Next, Dead
<1>3. UpWhileUsed => InitOkMeansUp
  BY DEF UpWhileUsed, InitOkMeansUp
<1> QED
  BY <1>1, <1>2, <1>3, InductiveInvariant, PTL DEF Spec

------------------------------------------------------------------------------
(* The abstract variables, under the refinement mapping of LibInit.        *)
up == initialized = 1
inside == IF ClientInside THEN mutex ELSE NoThread
phase == [t \in Threads |-> PhaseOf(t)]
alive == ~aborted

(* The first state is a first state of the life cycle. *)
LEMMA InitRefines == Init => Abstract!Init
<1> SUFFICES ASSUME Init PROVE Abstract!Init
  OBVIOUS
<1>1. inside = NoThread /\ phase = [t \in Threads |-> "idle"] /\ ~up /\ alive
  BY DEF Init, inside, phase, up, alive, ClientInside, PhaseOf
<1> QED
  BY <1>1 DEF Init, Abstract!Init, inside, phase, up, alive

(* A thread at "lock", or before it, is in no phase but "called", and who  *)
(* holds the mutex at "mark" or "test" is not inside on its own account.   *)
LEMMA StartsOutside ==
  ASSUME IInv, NEW t \in Threads, mutex = t,
         pc[t] \in {"mark", "test", "rand", "set"}
  PROVE  inside = NoThread
  BY DEF IInv, TypeOK, CallMatchesStep, inside, ClientInside, PhaseOf, Entering

(* How one step of t changes its phase, and nobody else's.                 *)
LEMMA PhaseStep ==
  ASSUME NEW t \in Threads, NEW to, pc \in [Threads -> Steps], pc' = [pc EXCEPT ![t] = to]
  PROVE  phase' = [phase EXCEPT ![t] = PhaseOf(t)']
  BY DEF phase, PhaseOf

(* A step that leaves all five of them alone is a stutter.                 *)
LEMMA Stutter ==
  ASSUME UNCHANGED <<up, inside, call, phase, alive>>
  PROVE  [Abstract!Next]_(Abstract!vars)
  BY DEF Abstract!vars, up, inside, phase, alive

(* A step that is an effect, a return or a stop of the life cycle.         *)
LEMMA Effect ==
  ASSUME NEW t \in Threads,
         alive, phase[t] = "called", inside = NoThread,
         phase' = [phase EXCEPT ![t] = "applied"],
         UNCHANGED <<call, alive>>,
         \/ call[t] = "init"   /\ up' = TRUE  /\ UNCHANGED inside
         \/ call[t] = "deinit" /\ up /\ up' = FALSE /\ UNCHANGED inside
         \/ call[t] = "crit"   /\ inside' = t /\ UNCHANGED up
  PROVE  Abstract!Next
<1>1. Abstract!Apply(t)
  BY DEF Abstract!Apply, up, inside, phase, alive
<1> QED
  BY <1>1 DEF Abstract!Next

LEMMA GoesBack ==
  ASSUME NEW t \in Threads,
         alive, phase[t] = "applied",
         phase' = [phase EXCEPT ![t] = "idle"],
         call' = [call EXCEPT ![t] = "none"],
         inside' = IF inside = t THEN NoThread ELSE inside,
         UNCHANGED <<up, alive>>
  PROVE  Abstract!Next
<1>1. Abstract!Return(t)
  BY DEF Abstract!Return, up, inside, phase, alive
<1> QED
  BY <1>1 DEF Abstract!Next

LEMMA Stops ==
  ASSUME NEW t \in Threads,
         alive, alive' = FALSE, phase[t] = "called",
         (~up /\ inside = NoThread /\ call[t] = "init") \/ inside = t,
         UNCHANGED <<up, inside, call, phase>>
  PROVE  Abstract!Next
<1>1. Abstract!Abort
  BY DEF Abstract!Abort, up, inside, phase, alive
<1> QED
  BY <1>1 DEF Abstract!Next

(* What a step of t leaves of the mapping when it leaves the mutex, the    *)
(* calls and the phase of t as they are.                                   *)
LEMMA SamePlace ==
  ASSUME IInv, NEW t \in Threads, NEW to \in Steps,
         pc' = [pc EXCEPT ![t] = to],
         UNCHANGED <<call, initialized, aborted>>,
         PhaseOf(t)' = PhaseOf(t),
         \/ mutex' = mutex /\ (mutex = t => (pc[t] \in Entering <=> to \in Entering))
         \/ mutex = NoThread /\ mutex' = t /\ to = "mark"
              /\ call[t] \in {"init", "deinit", "crit"}
  PROVE  UNCHANGED <<up, inside, call, phase, alive>>
<1>1. phase' = phase
  BY PhaseStep DEF IInv, TypeOK, phase
<1>2. inside' = inside
  <2>1. CASE mutex' = mutex /\ (mutex = t => (pc[t] \in Entering <=> to \in Entering))
    BY <2>1 DEF IInv, TypeOK, inside, ClientInside, PhaseOf, Entering
  <2>2. CASE /\ mutex = NoThread /\ mutex' = t /\ to = "mark"
             /\ call[t] \in {"init", "deinit", "crit"}
    BY <2>2 DEF IInv, TypeOK, inside, ClientInside, PhaseOf, Entering
  <2> QED
    BY <2>1, <2>2
<1> QED
  BY <1>1, <1>2 DEF up, alive

(* Calls are calls.                                                        *)
LEMMA CallsRefine ==
  ASSUME IInv, NEW t \in Threads, Calls(t)
  PROVE  Abstract!Next
<1>1. CASE \E f \in {"init", "deinit", "crit"} : Call(t, f)
  <2>1. PICK f \in {"init", "deinit", "crit"} : Call(t, f)
    BY <1>1
  <2>2. /\ pc' = [pc EXCEPT ![t] = FirstStep] /\ FirstStep \in Entering
        /\ pc[t] = "idle" /\ ~aborted
        /\ call' = [call EXCEPT ![t] = f]
        /\ UNCHANGED <<mutex, initialized, aborted>>
    BY <2>1 DEF Call, Goto, FirstStep, Entering
  <2>3. phase' = [phase EXCEPT ![t] = "called"]
    BY <2>2, PhaseStep DEF IInv, TypeOK, PhaseOf, Entering
  <2>4. inside' = inside
    BY <2>2 DEF IInv, TypeOK, inside, ClientInside, PhaseOf, Entering
  <2>5. phase[t] = "idle" /\ alive /\ UNCHANGED <<up, alive>>
    BY <2>2 DEF phase, PhaseOf, alive, up
  <2>6. Abstract!Call(t)
    BY <2>2, <2>3, <2>4, <2>5 DEF Abstract!Call, Abstract!Ops, up, inside, phase, alive
  <2> QED
    BY <2>6 DEF Abstract!Next
<1>2. CASE CallStrayLeave(t)
  <2>1. /\ pc' = [pc EXCEPT ![t] = "stray"]
        /\ pc[t] = "idle" /\ ~aborted
        /\ call' = [call EXCEPT ![t] = "leave"]
        /\ mutex \in {NoThread, t}
        /\ UNCHANGED <<mutex, initialized, aborted>>
    BY <1>2 DEF CallStrayLeave, Goto
  <2>2. phase' = [phase EXCEPT ![t] = "applied"]
    BY <2>1, PhaseStep DEF IInv, TypeOK, PhaseOf, Entering
  <2>3. inside' = inside
    BY <2>1 DEF IInv, TypeOK, inside, ClientInside, PhaseOf, Entering
  <2>4. phase[t] = "idle" /\ alive /\ UNCHANGED <<up, alive>>
    BY <2>1 DEF phase, PhaseOf, alive, up
  <2>5. Abstract!CallLeave(t)
    BY <2>1, <2>2, <2>3, <2>4 DEF Abstract!CallLeave, up, inside, phase, alive
  <2> QED
    BY <2>5 DEF Abstract!Next
<1> QED
  BY <1>1, <1>2 DEF Calls, CallInit, CallDeinit, CallCritEnter

(* Waiting for the section and handing it on is no step of the life cycle. *)
LEMMA QuietSteps ==
  ASSUME IInv, NEW t \in Threads,
         \/ TestOnce(t) \/ Create(t) \/ Publish(t) \/ Lock(t)
         \/ InitRand(t) \/ CallCritLeave(t) \/ LeaveTest(t) \/ LeaveClear(t)
  PROVE  [Abstract!Next]_(Abstract!vars)
<1>1. CASE TestOnce(t)
  <2>1. PICK to \in Steps :
          /\ pc' = [pc EXCEPT ![t] = to]
          /\ PhaseOf(t)' = PhaseOf(t)
          /\ pc[t] \in Entering <=> to \in Entering
    BY <1>1 DEF TestOnce, Goto, IInv, TypeOK, Steps, PhaseOf, Entering
  <2>2. UNCHANGED <<mutex, call, initialized, aborted>>
    BY <1>1 DEF TestOnce
  <2> QED
    BY <2>1, <2>2, SamePlace, Stutter
<1>2. CASE Create(t)
  <2>1. /\ pc' = [pc EXCEPT ![t] = "publish"] /\ PhaseOf(t)' = PhaseOf(t)
        /\ pc[t] \in Entering /\ "publish" \in Steps \cap Entering
    BY <1>2 DEF Create, Goto, IInv, TypeOK, Steps, PhaseOf, Entering
  <2>2. mutex' = mutex /\ UNCHANGED <<call, initialized, aborted>>
    BY <1>2 DEF Create, Goto, IInv, CreatedOnce
  <2> QED
    BY <2>1, <2>2, SamePlace, Stutter
<1>3. CASE Publish(t)
  <2>1. /\ pc' = [pc EXCEPT ![t] = "lock"] /\ PhaseOf(t)' = PhaseOf(t)
        /\ pc[t] \in Entering /\ "lock" \in Steps \cap Entering
        /\ UNCHANGED <<mutex, call, initialized, aborted>>
    BY <1>3 DEF Publish, Goto, IInv, TypeOK, CreatedOnce, Steps, PhaseOf, Entering
  <2> QED
    BY <2>1, SamePlace, Stutter
<1>4. CASE Lock(t)
  <2>1. /\ pc' = [pc EXCEPT ![t] = "mark"] /\ PhaseOf(t)' = PhaseOf(t)
        /\ "mark" \in Steps
        /\ mutex = NoThread /\ mutex' = t
        /\ UNCHANGED <<call, initialized, aborted>>
    BY <1>4 DEF Lock, Goto, IInv, TypeOK, Steps, PhaseOf, Entering
  <2>2. call[t] \in {"init", "deinit", "crit"}
    BY <1>4 DEF Lock, Goto, IInv, CallMatchesStep
  <2> QED
    BY <2>1, <2>2, SamePlace, Stutter
<1>5. CASE InitRand(t)
  <2>1. PICK to \in Steps :
          /\ pc' = [pc EXCEPT ![t] = to]
          /\ PhaseOf(t)' = PhaseOf(t)
          /\ pc[t] \in Entering <=> to \in Entering
    BY <1>5 DEF InitRand, Goto, IInv, TypeOK, Steps, PhaseOf, Entering
  <2>2. UNCHANGED <<mutex, call, initialized, aborted>>
    BY <1>5 DEF InitRand
  <2> QED
    BY <2>1, <2>2, SamePlace, Stutter
<1>6. CASE CallCritLeave(t)
  <2>1. PICK to \in Steps :
          /\ pc' = [pc EXCEPT ![t] = to]
          /\ PhaseOf(t)' = PhaseOf(t)
          /\ pc[t] \in Entering <=> to \in Entering
    BY <1>6 DEF CallCritLeave, Goto, IInv, TypeOK, Steps, PhaseOf, Entering
  <2>2. UNCHANGED <<mutex, call, initialized, aborted>>
    BY <1>6 DEF CallCritLeave
  <2> QED
    BY <2>1, <2>2, SamePlace, Stutter
<1>7. CASE LeaveTest(t)
  <2>1. PICK to \in Steps :
          /\ pc' = [pc EXCEPT ![t] = to]
          /\ PhaseOf(t)' = PhaseOf(t)
          /\ pc[t] \in Entering <=> to \in Entering
    BY <1>7 DEF LeaveTest, Goto, IInv, TypeOK, Steps, PhaseOf, Entering
  <2>2. UNCHANGED <<mutex, call, initialized, aborted>>
    BY <1>7 DEF LeaveTest
  <2> QED
    BY <2>1, <2>2, SamePlace, Stutter
<1>8. CASE LeaveClear(t)
  <2>1. PICK to \in Steps :
          /\ pc' = [pc EXCEPT ![t] = to]
          /\ PhaseOf(t)' = PhaseOf(t)
          /\ pc[t] \in Entering <=> to \in Entering
    BY <1>8 DEF LeaveClear, Goto, IInv, TypeOK, Steps, PhaseOf, Entering
  <2>2. UNCHANGED <<mutex, call, initialized, aborted>>
    BY <1>8 DEF LeaveClear
  <2> QED
    BY <2>1, <2>2, SamePlace, Stutter
<1> QED
  BY <1>1, <1>2, <1>3, <1>4, <1>5, <1>6, <1>7, <1>8

(* The effect of fp256_init, of fp256_deinit, and of fp256_crit_enter; the *)
(* thread owns the mutex and was not inside before.                        *)
LEMMA EffectSteps ==
  ASSUME IInv, NEW t \in Threads,
         Mark(t) \/ InitTest(t) \/ InitSet(t) \/ DeinitClear(t)
  PROVE  [Abstract!Next]_(Abstract!vars)
<1>1. mutex = t /\ mutex' = mutex
  BY DEF Mark, InitTest, InitSet, DeinitClear, Goto, IInv, OwnerHolds, Inside
<1>2. /\ alive /\ phase[t] = "called" /\ inside = NoThread
      /\ pc[t] \in {"mark", "test", "rand", "set"}
      /\ UNCHANGED <<call, alive>>
  <2>1. pc[t] \in {"mark", "test", "rand", "set"} /\ ~aborted /\ UNCHANGED <<call, aborted>>
    BY DEF Mark, InitTest, InitSet, DeinitClear, Goto
  <2> QED
    BY <2>1, <1>1, StartsOutside DEF alive, phase, PhaseOf
<1>3. CASE \E to \in {"rand", "test"} :
             pc' = [pc EXCEPT ![t] = to] /\ initialized' = initialized
  <2>1. PICK to \in {"rand", "test"} :
          pc' = [pc EXCEPT ![t] = to] /\ initialized' = initialized
    BY <1>3
  <2>2. PhaseOf(t)' = PhaseOf(t) /\ to \in Steps
        /\ pc[t] \notin Entering /\ to \notin Entering
    BY <1>2, <2>1 DEF IInv, TypeOK, Steps, PhaseOf, Entering
  <2>3. aborted' = aborted
    BY DEF Mark, InitTest, InitSet, DeinitClear
  <2> QED
    BY <1>1, <1>2, <2>1, <2>2, <2>3, SamePlace, Stutter
<1>4. CASE /\ pc' = [pc EXCEPT ![t] = "leave"]
           /\ \/ call[t] = "init" /\ initialized' = 1
              \/ call[t] = "deinit" /\ initialized = 1 /\ initialized' = 0
  <2>1. phase' = [phase EXCEPT ![t] = "applied"]
    BY <1>4, PhaseStep DEF IInv, TypeOK, PhaseOf, Entering
  <2>2. inside' = inside
    BY <1>1, <1>2, <1>4 DEF IInv, TypeOK, inside, ClientInside, PhaseOf, Entering
  <2>3. \/ call[t] = "init" /\ up' = TRUE
        \/ call[t] = "deinit" /\ up /\ up' = FALSE
    BY <1>4 DEF up
  <2> QED
    BY <1>2, <2>1, <2>2, <2>3, Effect
<1>5. CASE pc' = [pc EXCEPT ![t] = "held"] /\ call[t] = "crit" /\ initialized' = initialized
  <2>1. phase' = [phase EXCEPT ![t] = "applied"]
    BY <1>5, PhaseStep DEF IInv, TypeOK, PhaseOf, Entering
  <2>2. inside' = t
    BY <1>1, <1>2, <1>5 DEF IInv, TypeOK, inside, ClientInside, PhaseOf, Entering
  <2> QED
    BY <1>2, <1>5, <2>1, <2>2, Effect DEF up
<1>6. CASE Mark(t)
  BY <1>3, <1>5, <1>6 DEF Mark, AfterEnter, Goto
<1>7. CASE InitTest(t)
  BY <1>3, <1>4, <1>7 DEF InitTest, Goto, IInv, TypeOK
<1>8. CASE InitSet(t)
  BY <1>4, <1>8 DEF InitSet, Goto, IInv, CallMatchesStep
<1>9. CASE DeinitClear(t)
  BY <1>4, <1>9 DEF DeinitClear, Goto
<1> QED
  BY <1>6, <1>7, <1>8, <1>9

(* The ends of a call: regular, refused, inside, and by abort().           *)
LEMMA LastSteps ==
  ASSUME IInv, NEW t \in Threads,
         \/ Unlock(t) \/ LeaveRefused(t) \/ DeinitReturn(t)
         \/ InitAbort(t) \/ LockAgain(t)
  PROVE  Abstract!Next
<1>1. CASE Unlock(t) \/ LeaveRefused(t)
  <2>1. /\ pc' = [pc EXCEPT ![t] = "idle"] /\ pc[t] \in {"unlock", "leave", "stray"}
        /\ call' = [call EXCEPT ![t] = "none"]
        /\ ~aborted /\ UNCHANGED <<initialized, aborted>>
    BY <1>1 DEF Unlock, LeaveRefused, Goto
  <2>2. alive /\ phase[t] = "applied" /\ UNCHANGED <<up, alive>>
    BY <2>1 DEF alive, up, phase, PhaseOf, Entering
  <2>3. phase' = [phase EXCEPT ![t] = "idle"]
    BY <2>1, PhaseStep DEF IInv, TypeOK, PhaseOf, Entering
  <2>4. (mutex = t \/ mutex = NoThread) /\ mutex' = NoThread
    <3>1. CASE Unlock(t)
      BY <3>1 DEF Unlock, Goto, IInv, OwnerHolds
    <3>2. CASE LeaveRefused(t)
      BY <3>2 DEF LeaveRefused, Goto, IInv, TypeOK, OwnerHolds, FlagTracksOwner, StrayIsAlone, Inside
    <3> QED
      BY <1>1, <3>1, <3>2
  <2>5. inside \in {t, NoThread} /\ inside' = NoThread
    BY <2>4 DEF inside, ClientInside
  <2> QED
    BY <2>1, <2>2, <2>3, <2>5, GoesBack
<1>2. CASE DeinitReturn(t)
  <2>1. /\ pc' = [pc EXCEPT ![t] = "idle"] /\ pc[t] = "test" /\ call[t] = "deinit"
        /\ call' = [call EXCEPT ![t] = "none"]
        /\ initialized # 1 /\ ~aborted /\ UNCHANGED <<mutex, initialized, aborted>>
    BY <1>2 DEF DeinitReturn, Goto
  <2>2. mutex = t
    BY <2>1 DEF IInv, OwnerHolds, Inside
  <2>3. alive /\ phase[t] = "called" /\ ~up /\ UNCHANGED <<up, alive>> /\ inside = NoThread
    BY <2>1, <2>2, StartsOutside DEF alive, up, phase, PhaseOf
  <2>4. phase' = [phase EXCEPT ![t] = "idle"]
    BY <2>1, PhaseStep DEF IInv, TypeOK, PhaseOf
  <2>5. inside' = t
    BY <2>1, <2>2 DEF IInv, TypeOK, inside, ClientInside
  <2>6. Abstract!ReturnInside(t)
    BY <2>1, <2>3, <2>4, <2>5 DEF Abstract!ReturnInside, up, inside, phase, alive
  <2> QED
    BY <2>6 DEF Abstract!Next
<1>3. CASE InitAbort(t)
  <2>1. pc[t] = "rand" /\ ~aborted /\ aborted' = TRUE
        /\ UNCHANGED <<mutex, call, pc, initialized>>
    BY <1>3 DEF InitAbort
  <2>2. mutex = t /\ call[t] = "init" /\ initialized = 0
    BY <2>1 DEF IInv, OwnerHolds, CallMatchesStep, RandMeansDown, Inside
  <2>3. inside = NoThread /\ phase[t] = "called" /\ ~up
    BY <2>1, <2>2, StartsOutside DEF phase, PhaseOf, up
  <2>4. alive /\ alive' = FALSE /\ UNCHANGED <<up, inside, phase>>
    BY <2>1 DEF alive, up, inside, phase, ClientInside, PhaseOf
  <2> QED
    BY <2>1, <2>2, <2>3, <2>4, Stops
<1>4. CASE LockAgain(t)
  <2>1. pc[t] = "lock" /\ mutex = t /\ ~aborted /\ aborted' = TRUE
        /\ UNCHANGED <<mutex, call, pc, initialized>>
    BY <1>4 DEF LockAgain
  <2>2. inside = t /\ phase[t] = "called"
    BY <2>1 DEF inside, ClientInside, phase, PhaseOf, Entering
  <2>3. alive /\ alive' = FALSE /\ UNCHANGED <<up, inside, phase>>
    BY <2>1 DEF alive, up, inside, phase, ClientInside, PhaseOf
  <2> QED
    BY <2>1, <2>2, <2>3, Stops
<1> QED
  BY <1>1, <1>2, <1>3, <1>4

(* fp256_init.c does what Lifecycle allows: every call takes effect at one *)
(* instant, at which nobody is inside the section, for every client and    *)
(* for both builds.  This is ImplementsLifecycle without its fairness.     *)
THEOREM AtomicLifecycle ==
  Spec => Abstract!Init /\ [][Abstract!Next]_(Abstract!vars)
<1>1. IInv /\ [Next]_vars => [Abstract!Next]_(Abstract!vars)
  <2> SUFFICES ASSUME IInv, [Next]_vars PROVE [Abstract!Next]_(Abstract!vars)
    OBVIOUS
  <2>1. CASE UNCHANGED vars
    <3>1. UNCHANGED <<up, inside, call, phase, alive>>
      BY <2>1 DEF vars, up, inside, phase, alive, ClientInside, PhaseOf
    <3> QED
      BY <3>1, Stutter
  <2>2. CASE \E t \in Threads : Calls(t)
    BY <2>2, CallsRefine
  <2>3. CASE \E t \in Threads : Body(t)
    BY <2>3, QuietSteps, EffectSteps, LastSteps DEF Body
  <2> QED
    BY <2>1, <2>2, <2>3 DEF Next, Dead
<1> QED
  BY <1>1, InitRefines, InductiveInvariant, PTL DEF Spec
==============================================================================
