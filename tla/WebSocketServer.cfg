SPECIFICATION FairSpec
CONSTANTS
  c1 = c1
  c2 = c2
  Connection <- MCConnection
  MaxStarts = 2
INVARIANTS
  TypeOK
  ActiveIsCurrent
  ReportedOnce
  OneAcceptLoop
PROPERTY AcceptedIsReported
