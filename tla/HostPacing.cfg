SPECIFICATION PacingSpec
CONSTANTS
  Hosts = {a, b, c}
  NoHost = NoHost
  Fetches = {f, g}
  Interval = 1
  Protected = 3
  Ttl = 1
  Limit = 2
  MaxTime = 3
SYMMETRY Alike
CHECK_DEADLOCK FALSE
PROPERTIES SlotsApart BlockHoldsBack
