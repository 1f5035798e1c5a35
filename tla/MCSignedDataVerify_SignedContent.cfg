SPECIFICATION Spec
CONSTANTS
  None = None
  alice = alice
  ALICE = ALICE
  bob = bob
  Alice = Alice
  Eve = Eve
  cAlice = cAlice
  cExpired = cExpired
  cBadKey = cBadKey
  cCorp = cCorp
  cRevoked = cRevoked
  sAlice = sAlice
  sKey = sKey
  sCorp = sCorp
  sRevoked = sRevoked
  sNobody = sNobody
  text = text
  crlf = crlf
  other = other
  Addr <- MCAddr
  Name <- MCName
  ALabel <- MCALabel
  FoldAddr <- MCFoldAddr
  FoldName <- MCFoldName
  LocalPart <- MCLocalPart
  Cert <- MCCert
  CertInfo <- MCCertInfo
  Sid <- MCSid
  SidKind <- MCSidKind
  Identifies <- MCIdentifies
  Content <- MCContent
  Date <- MCDate
  OneHour = 1
  Message <- ManySignersMessages
INVARIANT SignedContentIsWhatValidSignersSigned
CHECK_DEADLOCK FALSE
