CONSTANTS
  Workers = {w1, w2}
  Cron = cron
  Page = page
  MaxLevel = 3
  Limits <- MCLimits
  Cost <- MCCost
  Usages = {1}
  Overflow = overflow
  Missing = missing
  MaxPoints = 2
  MaxRequests = 2
  MaxJobs = 1
  MaxTurns = 1
SPECIFICATION Spec
SYMMETRY Symmetry
INVARIANTS NeverInvented CountIsExact BilledOnce TierFits
CHECK_DEADLOCK FALSE
