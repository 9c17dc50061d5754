CONSTANTS
    Jobs = {j1}
    Durable = TRUE
SPECIFICATION Spec
INVARIANT EndedTasksSettle
