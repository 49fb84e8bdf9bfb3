\* Two tabs, a document, two questions, two reloads.
CONSTANTS
  None = None
  t1 = t1
  t2 = t2
  d1 = d1
  d2 = d2
  q1 = q1
  q2 = q2
  Tabs = {t1, t2}
  Docs = {d1}
  Questions = {q1, q2}
  MaxReloads = 2
SPECIFICATION Spec
INVARIANTS
  TypeOK
  UploadsAreComplete
  ReadyIsPrepared
PROPERTIES
  RemovedStaysRemoved
  SettledTurnsStay
  PreparationEnds
  QuestionsEnd
\* Everything may be done.
CHECK_DEADLOCK FALSE
