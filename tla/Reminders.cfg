\* The two processes of a deployment, one reminder of each kind, two firings
\* of the daily one, faults at any time.  All processes may be down for good.
CONSTANTS
  Procs = {web, mcp}
  Web = web
  Reminders = {once, daily}
  Daily = {daily}
  MaxDaily = 2
SPECIFICATION Spec
INVARIANT FiresAsPromised
PROPERTIES DueIsSettled RestartRecovers
CHECK_DEADLOCK FALSE
