SPECIFICATION MCSpec
CONSTANTS
  N = 2
  Item = {a, b}
  NoItem = NoItem
  Pushers = {p1, p2}
  TimedPoppers = {c}
  Poppers = {u}
  Clearers = {k}
  Driver = {p1, c, k}
  Lidars = {l1, l2}
  MaxLines = 3
INVARIANTS TypesOK
PROPERTIES KeepsPromise DriverServed LoggerServes
