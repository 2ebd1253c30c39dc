SPECIFICATION Spec
CONSTANTS
  u1 = u1
  u2 = u2
  root = root
  c1 = c1
  c2 = c2
  None = None
  p1 = p1
  p2 = p2
  Proc = {p1, p2}
  User = {u1, u2}
  Root = root
  Caller = u1
  Config = {c1, c2}
  DirOwner <- MCDirOwner
  HomeConfig <- MCHomeConfig
  FileStates <- MCFileStates
  InitFiles <- MCInitFiles
  InitRegs <- MCInitRegs
  Requests <- MCRequests
  Platforms = {"systemd", "launchd", "busybox", "windows"}
  MaxEvents = 1
CHECK_DEADLOCK FALSE
INVARIANTS
  InstallWorks
PROPERTIES
  
  SystemServiceTrusted
  RetargetByConsent
