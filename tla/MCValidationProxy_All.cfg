SPECIFICATION Spec
CONSTANTS
  None = None
  Absent = Absent
  Unusable = Unusable
  Subject <- MCSubject
  Key <- MCKey
  Serial <- MCSerial
  Time <- MCTime
  MaxAge = 7
  MaxOcspInterval = 256
  MaxCrlInterval = 366
  Request <- MCRequest
  OcspBody <- MCOcspBody
  CrlBody <- MCCrlBody
INVARIANTS TypeOK AnswerIsAuthentic AnswerIsCurrent AgreesWithStapled
PROPERTY RequestsAreAnswered
CHECK_DEADLOCK FALSE
