SPECIFICATION Spec
CONSTANTS
  Watches = {wa}
  Requests = {re}
INVARIANT MigrationKeepsLinks
CHECK_DEADLOCK FALSE
