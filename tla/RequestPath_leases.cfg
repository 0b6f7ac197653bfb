CONSTANTS
  Backends = {b1, b2}
  Churn = {b1}
  Requests = {r1, r2}
  Background = {background}
  Svc = svc
  NoCounter = nil
  HardLocalInflight = 1
  MaxChanges = 2
SPECIFICATION FairSpec
INVARIANTS CountsLeases Balanced
PROPERTY Converges
CHECK_DEADLOCK FALSE
