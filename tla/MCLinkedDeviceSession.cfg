SPECIFICATION SessionSpec
CONSTANTS
  Inbound = {m1}
  Flushes = {f1, f2}
  NoMessage = NoMessage
  Clients = {1, 2, 3}
  DelayCap = 12
  Budgets <- MCBudgets
INVARIANT SessionInv
PROPERTIES FilesOutliveRefusals FailedClientsAreReplaced SpoolDrains
