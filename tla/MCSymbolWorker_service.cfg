SPECIFICATION FairSpec
CONSTANTS
  c1 = c1
  c2 = c2
  c3 = c3
  c4 = c4
  Commands = {c1, c2, c3, c4}
  Failing = {c2}
  Cancellable = {c1, c3}
  Capacity = 2
  MaxStarts = 1
INVARIANTS
  TypeOK
  ServedInOrder
  AnswersAreTrue
PROPERTY
  ServedWhileRunning
CHECK_DEADLOCK FALSE
