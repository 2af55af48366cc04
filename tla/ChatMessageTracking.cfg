\* Two first messages of the month.
CONSTANTS
  Requests = {r1, r2}
  Users = {u1}
  Agents = {super}
  SuperAgent = super
  SeededAgents = {super}
  Nobody = Nobody
  MaxMonth = 1
SPECIFICATION QuietSpec
INVARIANT TrackingNeverBlocks
CHECK_DEADLOCK FALSE
