SPECIFICATION Spec
CONSTANTS
  None = None
  a = a
  b = b
  x = x
  y = y
  full = full
  partial = partial
  Addr <- MCAddr
  Name <- MCName
  Date <- MCDate
  Cert <- MCCert
  CertAddrs <- MCCertAddrs
  CertNames <- MCCertNames
  MaxDepth = 4
  Message <- AllMessages
INVARIANTS
  TypeOK
  UnwrappingIsExact
  SignersOfAllLayersAreListed
  ShownAddressHasSource
  AgreesWithVerify
  CleanResultIsComplete
PROPERTY Termination
CHECK_DEADLOCK FALSE
