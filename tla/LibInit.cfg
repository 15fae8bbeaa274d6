\* Clients that call everything whenever they like, where a leaked section may
\* stop them all, and clients that shut the library down when nobody is using it.
CONSTANTS
  Threads = {t1, t2, t3}
  NoThread = NoThread
  Policies = {"any", "quiescent"}
  Systems = {"posix", "windows"}
SPECIFICATION Spec
INVARIANT IInv
INVARIANT AssertUnlocked
INVARIANT ExclusiveSection
INVARIANT InitOkMeansUp
PROPERTY FlagChangesInSection
PROPERTY SectionIsLeft
PROPERTY ImplementsLifecycle
CHECK_DEADLOCK FALSE
