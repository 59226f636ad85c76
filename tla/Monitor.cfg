SPECIFICATION FairSpec
CONSTANTS
  Body = {ok1, ok2, degraded, unreachable}
  OkBody = {ok1, ok2}
  None = None
INVARIANTS
  RecoveryFollowsAlarm
PROPERTIES
  RecordedIsHeard
  LastingTroubleIsHeard
  LastingStallIsHeard
  RecoveryIsHeard
