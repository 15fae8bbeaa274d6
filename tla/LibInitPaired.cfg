\* Two modules of one program each pair their own init with their own deinit.
CONSTANTS
  Threads = {t1, t2}
  NoThread = NoThread
  Policies = {"paired"}
  Systems = {"posix"}
SPECIFICATION Spec
PROPERTY SectionAlwaysLeft
CHECK_DEADLOCK FALSE
