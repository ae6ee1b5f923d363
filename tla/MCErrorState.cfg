CONSTANTS
  r1 = r1
  r2 = r2
  p1 = p1
  p2 = p2
  Reporters <- TwoReporters
  Pollers <- TwoPollers
  Owner = Owner
  MaxReports = 3
SPECIFICATION Spec
INVARIANTS TypeOK ToldOnce CallsAreSafe MixedByOverlap
CHECK_DEADLOCK FALSE
