CONSTANTS
  Table <- MCTable
  SetMayGoRw = 4
  Uses <- MCUses
SPECIFICATION FairSpec
INVARIANTS DependentsRerun OfflineNotOnline
  MountRunsRequired ScheduledKept RequestKept
PROPERTIES RunTerminates
