SPECIFICATION Spec
CONSTANTS
  None = None
  Absent = Absent
  Subject <- MCSubject
  Key <- MCKey
  Serial <- MCSerial
  Time <- MCTime
  MaxAge = 2
  Input <- AllInputs
INVARIANTS TypeOK StatusIsAuthentic VerdictIgnoresOrder
PROPERTY Termination
CHECK_DEADLOCK FALSE
