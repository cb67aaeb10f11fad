SPECIFICATION DrmSpec
CONSTANTS
  DrmTask = {t1}
  DrmDisplay = {d1, d2}
  DrmNone = DrmNone
  DrmMaxEdid = 3
  DrmSetups <- DrmConnectedSetups
INVARIANT EdidsCounted
CHECK_DEADLOCK FALSE
