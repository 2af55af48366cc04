\* Two users with two agents.
CONSTANTS
  Requests = {r1, r2}
  Users = {u1, u2}
  Agents = {super, a1}
  SuperAgent = super
  SeededAgents = {super, a1}
  Nobody = Nobody
  MaxMonth = 1
SPECIFICATION QuietSpec
INVARIANT LastUsedNeverFails
CHECK_DEADLOCK FALSE
