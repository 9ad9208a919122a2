\* One request, and an Airflow container that is replaced once.
CONSTANTS
  Requests = {q1}
  MaxPasswords = 2
  MaxRestarts = 0
SPECIFICATION Spec
\* The system stops when every request has ended.
CHECK_DEADLOCK FALSE
PROPERTY PasswordIsDynamic
