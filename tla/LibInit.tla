------------------------------- MODULE LibInit -------------------------------
(***************************************************************************)
(* src/src/fp256_init.c with POSIX threads and with Windows: the static     *)
(* mutex or critical section, its one-time creation on Windows, the static *)
(* flags "locked" and "initialized", and the four exported functions       *)
(* fp256_crit_enter, fp256_crit_leave, fp256_init and fp256_deinit, called *)
(* by any number of threads.  A step is one access to a shared variable,   *)
(* or one call into the system.                                             *)
(***************************************************************************)
CONSTANTS
  Threads,    \* the threads of the client program
  NoThread,   \* holder of a free mutex
  Policies,   \* the kinds of clients, see MayInit
  Systems     \* the builds, "posix" and "windows"

ASSUME NoThreadAssumption == NoThread \notin Threads
ASSUME PoliciesAssumption == Policies \subseteq {"any", "paired", "quiescent"}
ASSUME SystemsAssumption == Systems \subseteq {"posix", "windows"}

VARIABLES
  system,       \* the build; it never changes
  policy,       \* when the client calls init and deinit; it never changes
  once,         \* _lock_initialized: 0, 1 while a thread creates _lock, 2
  mutex,        \* _lock: its owner
  locked,       \* static volatile int locked
  initialized,  \* static volatile int initialized
  call,         \* call[t]: the function t is executing, "none" outside
  pc,           \* pc[t]: the next step of t
  ret,          \* ret[t]: what the last init or crit call of t returned
  using,        \* history: threads whose fp256_init returned FP256_OK and
                \* that have not given the library up again
  aborted       \* abort() was called

vars == <<system, policy, once, mutex, locked, initialized, call, pc, ret, using, aborted>>

Functions == {"init", "deinit", "crit", "leave"}

Steps == {"idle", "once", "create", "publish", "lock", "mark", "test", "rand", "set", "held",
          "leave", "stray", "clear", "unlock"}

TypeOK ==
  /\ system \in Systems
  /\ policy \in Policies
  /\ once \in {0, 1, 2}
  /\ mutex \in Threads \cup {NoThread}
  /\ locked \in {0, 1}
  /\ initialized \in {0, 1}
  /\ call \in [Threads -> Functions \cup {"none"}]
  /\ pc \in [Threads -> Steps]
  /\ ret \in [Threads -> {"none", "ok", "err"}]
  /\ using \subseteq Threads
  /\ aborted \in BOOLEAN

Init ==
  /\ system \in Systems
  /\ policy \in Policies
  /\ once = 0
  /\ mutex = NoThread
  /\ locked = 0
  /\ initialized = 0
  /\ call = [t \in Threads |-> "none"]
  /\ pc = [t \in Threads |-> "idle"]
  /\ ret = [t \in Threads |-> "none"]
  /\ using = {}
  /\ aborted = FALSE

Goto(t, from, to) ==
  /\ ~aborted
  /\ pc[t] = from
  /\ pc' = [pc EXCEPT ![t] = to]
  /\ UNCHANGED <<system, policy>>

------------------------------------------------------------------------------
(***************************************************************************)
(* The client.  "any": every thread calls init and deinit whenever it      *)
(* likes, and crit_leave without a crit_enter when no other thread is in a *)
(* call and nobody else holds the section.  "paired": a thread calls       *)
(* deinit only after an init of its own that it has not paired yet.        *)
(* "quiescent": one of the users shuts the library down on behalf of all,  *)
(* and nobody is inside init or deinit while it does.                      *)
(***************************************************************************)
NoStray == \A u \in Threads : call[u] # "leave"

MayInit(t) ==
  policy = "quiescent" => \A u \in Threads : call[u] # "deinit"

MayDeinit(t) ==
  /\ policy # "any" => t \in using
  /\ policy = "quiescent" =>
       \A u \in Threads : call[u] \notin {"init", "deinit"}

(* Where fp256_crit_enter starts. *)
FirstStep == IF system = "windows" THEN "once" ELSE "lock"

(* Mutant of Call: fp256_deinit that does not enter the section.           *)
CallWithoutSection(t, f) ==
  /\ NoStray
  /\ Goto(t, "idle", IF f = "deinit" THEN "test" ELSE FirstStep)
  /\ call' = [call EXCEPT ![t] = f]
  /\ ret' = [ret EXCEPT ![t] = "none"]
  /\ UNCHANGED <<once, mutex, locked, initialized, aborted>>

Call(t, f) ==
  /\ NoStray
  /\ Goto(t, "idle", FirstStep)
  /\ call' = [call EXCEPT ![t] = f]
  /\ ret' = [ret EXCEPT ![t] = "none"]
  /\ UNCHANGED <<once, mutex, locked, initialized, aborted>>

CallInit(t) == MayInit(t) /\ Call(t, "init") /\ UNCHANGED using

CallDeinit(t) ==
  /\ MayDeinit(t)
  /\ Call(t, "deinit")
  /\ using' = IF policy = "quiescent" THEN {} ELSE using \ {t}

CallCritEnter(t) == Call(t, "crit") /\ UNCHANGED using

CallStrayLeave(t) ==
  /\ policy = "any"
  /\ mutex \in {NoThread, t}
  /\ \A u \in Threads : call[u] = "none"
  /\ Goto(t, "idle", "stray")
  /\ call' = [call EXCEPT ![t] = "leave"]
  /\ ret' = [ret EXCEPT ![t] = "none"]
  /\ UNCHANGED <<once, mutex, locked, initialized, using, aborted>>

------------------------------------------------------------------------------
(***************************************************************************)
(* _crit_init, on Windows: the first thread creates the critical section,  *)
(* the others wait for it to say so (Sleep(0) while once is 1), and those  *)
(* that come later find it there.                                          *)
(***************************************************************************)
TestOnce(t) ==
  /\ \/ once = 0 /\ Goto(t, "once", "create") /\ once' = 1
     \/ once = 2 /\ Goto(t, "once", "lock") /\ UNCHANGED once
  /\ UNCHANGED <<mutex, locked, initialized, call, ret, using, aborted>>

(* InitializeCriticalSection: whoever had it, nobody has it now.           *)
Create(t) ==
  /\ Goto(t, "create", "publish")
  /\ mutex' = NoThread
  /\ UNCHANGED <<once, locked, initialized, call, ret, using, aborted>>

(* InterlockedExchange returns the old value, which has to be 1.           *)
Publish(t) ==
  /\ once' = 2
  /\ IF once = 1 THEN Goto(t, "publish", "lock") /\ UNCHANGED <<call, ret>>
     ELSE /\ Goto(t, "publish", "idle")
          /\ call' = [call EXCEPT ![t] = "none"]
          /\ ret' = [ret EXCEPT ![t] = "err"]
  /\ UNCHANGED <<mutex, locked, initialized, using, aborted>>

(* Mutant of Lock: the stub of builds without threads.                     *)
LockStub(t) ==
  /\ Goto(t, "lock", "mark")
  /\ mutex' = t
  /\ UNCHANGED <<once, locked, initialized, call, ret, using, aborted>>

(* fp256_crit_enter: pthread_mutex_lock blocks while the mutex has an      *)
(* owner, the caller itself included; EnterCriticalSection blocks while    *)
(* another thread has it.                                                  *)
Lock(t) ==
  /\ Goto(t, "lock", "mark")
  /\ mutex = NoThread
  /\ mutex' = t
  /\ UNCHANGED <<once, locked, initialized, call, ret, using, aborted>>

(* EnterCriticalSection lets the owner in again, one that was left inside  *)
(* by fp256_deinit; then assert(locked == 0) stops the process.            *)
LockAgain(t) ==
  /\ ~aborted
  /\ system = "windows"
  /\ pc[t] = "lock" /\ mutex = t
  /\ locked # 0
  /\ aborted' = TRUE
  /\ UNCHANGED <<system, policy, once, mutex, locked, initialized, call, pc, ret, using>>

AfterEnter(f) == IF f = "crit" THEN "held" ELSE "test"

(* assert(locked == 0); locked = 1; the assertion is AssertUnlocked below. *)
Mark(t) ==
  /\ Goto(t, "mark", AfterEnter(call[t]))
  /\ locked' = 1
  /\ UNCHANGED <<once, mutex, initialized, call, ret, using, aborted>>

(* Mutant of InitTest: "if (!initialized) goto end".                       *)
InitTestInverted(t) ==
  /\ call[t] = "init"
  /\ Goto(t, "test", IF initialized = 0 THEN "leave" ELSE "rand")
  /\ UNCHANGED <<once, mutex, locked, initialized, call, ret, using, aborted>>

(* fp256_init inside the section: an initialised library is left alone.    *)
InitTest(t) ==
  /\ call[t] = "init"
  /\ Goto(t, "test", IF initialized # 0 THEN "leave" ELSE "rand")
  /\ UNCHANGED <<once, mutex, locked, initialized, call, ret, using, aborted>>

(* Mutant of InitRand: it tries again inside the section, for ever.        *)
InitRandRetries(t) ==
  /\ Goto(t, "rand", "test")
  /\ UNCHANGED <<once, mutex, locked, initialized, call, ret, using, aborted>>

(* fp256_rand_init draws 16 bytes; without a random source init aborts.    *)
InitRand(t) ==
  /\ Goto(t, "rand", "set")
  /\ UNCHANGED <<once, mutex, locked, initialized, call, ret, using, aborted>>

InitAbort(t) ==
  /\ ~aborted
  /\ pc[t] = "rand"
  /\ aborted' = TRUE
  /\ UNCHANGED <<system, policy, once, mutex, locked, initialized, call, pc, ret, using>>

InitSet(t) ==
  /\ Goto(t, "set", "leave")
  /\ initialized' = 1
  /\ UNCHANGED <<once, mutex, locked, call, ret, using, aborted>>

(* fp256_deinit inside the section, library up. *)
DeinitClear(t) ==
  /\ call[t] = "deinit"
  /\ initialized = 1
  /\ Goto(t, "test", "leave")
  /\ initialized' = 0
  /\ UNCHANGED <<once, mutex, locked, call, ret, using, aborted>>

(* fp256_deinit inside the section, library down: "return", and the mutex  *)
(* stays with the caller.                                                  *)
DeinitReturn(t) ==
  /\ call[t] = "deinit"
  /\ initialized # 1
  /\ Goto(t, "test", "idle")
  /\ call' = [call EXCEPT ![t] = "none"]
  /\ UNCHANGED <<once, mutex, locked, initialized, ret, using, aborted>>

(* The client that entered the section itself calls fp256_crit_leave.      *)
CallCritLeave(t) ==
  /\ Goto(t, "held", "leave")
  /\ UNCHANGED <<once, mutex, locked, initialized, call, ret, using, aborted>>

(* Mutant of LeaveTest: the mutex is given up with the flag still set.     *)
LeaveTestSkipsClear(t) ==
  /\ locked # 0
  /\ Goto(t, "leave", "unlock") \/ Goto(t, "stray", "clear")
  /\ UNCHANGED <<once, mutex, locked, initialized, call, ret, using, aborted>>

(* fp256_crit_leave: the caller is trusted when locked is set, ...         *)
LeaveTest(t) ==
  /\ locked # 0
  /\ Goto(t, "leave", "clear") \/ Goto(t, "stray", "clear")
  /\ UNCHANGED <<once, mutex, locked, initialized, call, ret, using, aborted>>

(* ... and refused with EPERM when it is not; init then reports FP256_ERR. *)
LeaveRefused(t) ==
  /\ locked = 0
  /\ Goto(t, "leave", "idle") \/ Goto(t, "stray", "idle")
  /\ call' = [call EXCEPT ![t] = "none"]
  /\ ret' = [ret EXCEPT ![t] = "err"]
  /\ UNCHANGED <<once, mutex, locked, initialized, using, aborted>>

(* Mutant of LeaveClear: the flag is not reset.                            *)
LeaveClearForgets(t) ==
  /\ Goto(t, "clear", "unlock")
  /\ UNCHANGED <<once, mutex, locked, initialized, call, ret, using, aborted>>

LeaveClear(t) ==
  /\ Goto(t, "clear", "unlock")
  /\ locked' = 0
  /\ UNCHANGED <<once, mutex, initialized, call, ret, using, aborted>>

(* pthread_mutex_unlock, and the return of the calling function.           *)
Unlock(t) ==
  /\ Goto(t, "unlock", "idle")
  /\ mutex' = NoThread
  /\ call' = [call EXCEPT ![t] = "none"]
  /\ ret' = [ret EXCEPT ![t] = "ok"]
  /\ using' = IF call[t] = "init" THEN using \cup {t} ELSE using
  /\ UNCHANGED <<once, locked, initialized, aborted>>

------------------------------------------------------------------------------
Calls(t) == CallInit(t) \/ CallDeinit(t) \/ CallCritEnter(t) \/ CallStrayLeave(t)

Body(t) ==
  \/ TestOnce(t) \/ Create(t) \/ Publish(t)
  \/ Lock(t) \/ LockAgain(t) \/ Mark(t)
  \/ InitTest(t) \/ InitRand(t) \/ InitAbort(t) \/ InitSet(t)
  \/ DeinitClear(t) \/ DeinitReturn(t)
  \/ CallCritLeave(t)
  \/ LeaveTest(t) \/ LeaveRefused(t) \/ LeaveClear(t) \/ Unlock(t)

(* After abort() nothing happens any more. *)
Dead == aborted /\ UNCHANGED vars

Next == (\E t \in Threads : Calls(t) \/ Body(t)) \/ Dead

(***************************************************************************)
(* A thread that can take its next step eventually does, and a client      *)
(* leaves the section it entered.  Nobody has to call anything, and a      *)
(* thread waiting for the mutex may be overtaken for ever: POSIX promises  *)
(* no fairness between waiters.                                            *)
(***************************************************************************)
Fairness == \A t \in Threads : WF_vars(Body(t))

Spec == Init /\ [][Next]_vars /\ Fairness

------------------------------------------------------------------------------
(* The steps of a thread that is inside the critical section and has not   *)
(* got to fp256_crit_leave's "locked = 0" yet.                             *)
Inside == {"test", "rand", "set", "held", "leave", "clear"}

(* fp256_crit_enter asserts that the mutex protects "locked": whoever has  *)
(* just got the mutex finds the flag clear, whatever other threads did     *)
(* between their own lock and unlock, leaked sections included.            *)
AssertUnlocked == \A t \in Threads : pc[t] = "mark" => locked = 0

(* Two threads are never both inside the critical section, and the EPERM   *)
(* branch of fp256_crit_leave is never taken by a thread that entered:     *)
(* the flag it reads was not cleared by somebody else's leave.             *)
ExclusiveSection ==
  \A t \in Threads : pc[t] \in Inside =>
    /\ locked = 1
    /\ \A u \in Threads \ {t} : pc[u] \notin Inside \cup {"mark", "unlock"}

(* Once fp256_init has returned FP256_OK to a thread of a quiescent client, *)
(* the library stays initialised until somebody calls fp256_deinit: no     *)
(* second fp256_init and no earlier shutdown may undo it.                  *)
InitOkMeansUp ==
  policy = "quiescent" =>
  \A t \in Threads :
    t \in using /\ (\A u \in Threads : call[u] # "deinit") => initialized = 1

(* Every step that changes "initialized" is taken by a thread that is in   *)
(* the section and that called the function whose job the change is.       *)
FlagChangesInSection ==
  [][initialized' # initialized =>
       \E t \in Threads :
         /\ mutex = t /\ locked = 1
         /\ call[t] = IF initialized = 0 THEN "init" ELSE "deinit"]_vars

(* A thread of a quiescent client that gets the mutex gives it back:       *)
(* fp256_init and fp256_deinit do not return with the section still        *)
(* entered, so nobody who calls them afterwards waits for ever.            *)
SectionIsLeft ==
  \A t \in Threads :
    (mutex = t /\ policy = "quiescent") ~> (mutex # t \/ aborted)

(* include/fp256/fp256.h says of fp256_crit_enter "@return #FP256_OK if    *)
(* succeeded, #FP256_ERR otherwise.", so it returns, whoever had the       *)
(* section before: every owner gives it back.                              *)
SectionAlwaysLeft ==
  \A t \in Threads : (mutex = t) ~> (mutex # t \/ aborted)

------------------------------------------------------------------------------
(***************************************************************************)
(* The inductive invariant.  A thread between Lock and Unlock owns the     *)
(* mutex, and "locked" is set exactly while the mutex is owned and its     *)
(* owner is neither before Mark nor after LeaveClear; this is what makes   *)
(* the leaked section of DeinitReturn harmless for exclusion: its owner    *)
(* never reaches "mark" or "unlock" again.  A stray leave runs alone.      *)
(***************************************************************************)
OwnerHolds ==
  \A t \in Threads : pc[t] \in Inside \cup {"mark", "unlock"} => mutex = t

FlagTracksOwner ==
  locked = 1 <=> mutex # NoThread /\ pc[mutex] \notin {"mark", "unlock"}

StrayIsAlone ==
  \A t \in Threads : pc[t] = "stray" =>
    /\ call[t] = "leave"
    /\ mutex \in {NoThread, t}
    /\ \A u \in Threads \ {t} : pc[u] = "idle"

CallMatchesStep ==
  \A t \in Threads :
    /\ pc[t] \in {"rand", "set"} => call[t] = "init"
    /\ pc[t] = "held" => call[t] = "crit"
    /\ pc[t] = "idle" <=> call[t] = "none"
    /\ pc[t] \in {"once", "create", "publish", "lock", "mark", "test"} =>
         call[t] \in {"init", "deinit", "crit"}

(* initialized, seen from the step that is about to change it.             *)
RandMeansDown ==
  \A t \in Threads : pc[t] \in {"rand", "set"} => initialized = 0

(* Nobody locks what is not there, and only one thread creates it.         *)
CreatedOnce ==
  /\ system = "windows" /\ once # 2 =>
       mutex = NoThread /\ \A t \in Threads : pc[t] # "lock"
  /\ \A t \in Threads : pc[t] \in {"once", "create", "publish"} => system = "windows"
  /\ \A t \in Threads : pc[t] \in {"create", "publish"} =>
       once = 1 /\ \A u \in Threads \ {t} : pc[u] \notin {"create", "publish"}

IInv ==
  /\ TypeOK
  /\ OwnerHolds
  /\ FlagTracksOwner
  /\ StrayIsAlone
  /\ CallMatchesStep
  /\ RandMeansDown
  /\ CreatedOnce

------------------------------------------------------------------------------
(* The calls take effect atomically: the library is up from InitSet or, if *)
(* it was up already, from the test; it is down from DeinitClear.  A leave *)
(* takes effect when it returns.                                           *)
Entering == {"once", "create", "publish", "lock"}

PhaseOf(t) ==
  IF pc[t] = "idle" THEN "idle"
  ELSE IF pc[t] \in Entering \cup {"mark", "test", "rand", "set"} THEN "called"
  ELSE "applied"

(* The owner of the mutex entered the section for itself, or was left      *)
(* inside it by a fp256_deinit that had returned.                          *)
ClientInside ==
  /\ mutex # NoThread
  /\ \/ call[mutex] = "crit" /\ PhaseOf(mutex) = "applied"
     \/ call[mutex] = "leave"
     \/ pc[mutex] \in Entering \cup {"idle"}

Abstract == INSTANCE Lifecycle WITH
  up     <- initialized = 1,
  inside <- IF ClientInside THEN mutex ELSE NoThread,
  op     <- call,
  phase  <- [t \in Threads |-> PhaseOf(t)],
  alive  <- ~aborted

(* Every call takes effect at one instant, for every client: Lifecycle is  *)
(* all that a program can observe of fp256_init.c.                         *)
ImplementsLifecycle == Abstract!Spec
==============================================================================
