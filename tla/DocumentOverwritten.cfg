\* Two tabs, each of which may upload a document.
CONSTANTS
  None = None
  t1 = t1
  t2 = t2
  d1 = d1
  d2 = d2
  q1 = q1
  q2 = q2
  Tabs = {t1, t2}
  Docs = {d1, d2}
  Questions = {q1, q2}
  MaxReloads = 2
SPECIFICATION Spec
PROPERTIES
  PersistedStays
CHECK_DEADLOCK FALSE
