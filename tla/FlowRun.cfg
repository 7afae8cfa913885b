SPECIFICATION Spec
CONSTANTS
  s1 = s1
  s2 = s2
  r1 = r1
  r2 = r2
  r3 = r3
  again = again
  k1 = k1
  k2 = k2
  k3 = k3
  out = out
  copy = copy
  log = log
  doc = doc
  Sources = {s1, s2}
  Records = {r1, r2, r3, again}
  Keys = {k1, k2, k3}
  delivered_key <- KeyOf
  Input <- Apart
  Sinks = {out, copy, log, doc}
  Routes <- EachRoute
  Buffered = {log, doc}
  Appends = {log}
  MaxRestarts = 2
  MaxErrors = 1
INVARIANTS NothingLost DuplicatesOnlyUnmarked
PROPERTIES MarkedNeverResent
CHECK_DEADLOCK FALSE
