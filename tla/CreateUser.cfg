SPECIFICATION FairSpec
CONSTANTS
  r1 = r1
  r2 = r2
  r3 = r3
  e1 = e1
  e2 = e2
  m1 = m1
  m2 = m2
  Requests = {r1, r2, r3}
  Email <- MCEmail
  Mobile <- MCMobile
  MaxFaults = 2
CHECK_DEADLOCK FALSE
INVARIANTS
  TypeOK
  AllOrNothing
  UniqueContact
  EventsFollowCommit
PROPERTIES
  RegistersAtomically
  AllAnswered
