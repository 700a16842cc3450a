SPECIFICATION FairSpec
CONSTANTS
  l1 = l1  l2 = l2
  Lane <- MCLane
  Unset = Unset
  API = API
  Window = 1
  Caps <- MCCaps
  Order <- MCOrder
  Amounts = {2}
  Delays = {1}
  Headers <- MCHeaders
  MaxUsed = 2
  Enter = 50
  Exit = 25
  Budget = 1
  MinDwell = 2
PROPERTIES DwellHeld HysteresisGap CheapWhenPossible LeavesExhausted
CHECK_DEADLOCK FALSE
