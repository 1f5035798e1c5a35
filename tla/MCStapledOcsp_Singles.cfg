SPECIFICATION Spec
CONSTANTS
  None = None
  Absent = Absent
  Subject <- MCSubject
  Key <- MCKey
  Serial <- MCSerial
  Time <- MCTime
  MaxAge = 2
  Input <- SingleInputs
INVARIANT RevocationAlwaysWins
CHECK_DEADLOCK FALSE
