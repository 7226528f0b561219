SPECIFICATION SessionSpec
CONSTANTS
  Inbound = {m1}
  Flushes = {f1}
  NoMessage = NoMessage
  Clients = {1, 2, 3, 4}
  DelayCap = 12
  Budgets <- MCFailures
INVARIANT BackoffGrows
