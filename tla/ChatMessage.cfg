\* Two requests, of one user or two, and a month that may end between them: races
\* for a tracker row and for the creation of the Super Agent, deadlocks on two
\* agent rows, failed statements and crashes.
CONSTANTS
  Requests = {r1, r2}
  Users = {u1, u2}
  Agents = {super, a1}
  SuperAgent = super
  SeededAgents = {a1}
  Nobody = Nobody
  MaxMonth = 2
SPECIFICATION FairSpec
INVARIANTS
  TypeOK
  CountIsMessages
  LocksAreInUse
  OkIsComplete
PROPERTIES
  LedgerSpec
  EveryRequestAnswered
CHECK_DEADLOCK FALSE
