SPECIFICATION MainSpec
CONSTANTS
  kept = kept
  hand = hand
  a = a
  b = b
  k1 = k1
  k2 = k2
  Kept = kept
  ByHand = {hand}
  Nets = {"uds", "tcp"}
  MaxByHand = 1
  MaxFaults = 2
  MaxBusy = 1
  Valid <- TwoConfigs
  Broken = Broken
  Off = Off
  Callbacks <- TwoCalls
  Gap = FALSE
  Stalls = FALSE
  MaxEdits = 3
  MaxErrors = 1
INVARIANTS Published StoreClosesLast
PROPERTIES StopEnds Reachable ConfigReloaded
CHECK_DEADLOCK FALSE
