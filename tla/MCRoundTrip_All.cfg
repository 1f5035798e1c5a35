\* Keys of every type, messages to up to three recipients, foreign messages
\* with up to two recipient infos.
CONSTANTS
  None = None
  Garbage = Garbage
  r = r
  s = s
  w = w
  p = p
  x = x
  v = v
  cr = cr
  cs = cs
  cw = cw
  cp = cp
  cx = cx
  cv = cv
  pw = pw
  kek = kek
  wrong = wrong
  fresh = fresh
  short = short
  other = other
  odd = odd
  text = text
  Key <- MCKey
  KeyType <- MCKeyType
  Secret = {pw, kek, wrong}
  Cek <- MCCek
  CekLen <- MCCekLen
  Cert <- MCCert
  CertIds <- MCCertIds
  RecipientId <- MCRecipientId
  IdBy <- MCIdBy
  Plain = {text}
  Envelope <- MCEnvelope
  KeyRing <- MCKeyRing
  CertKey <- MCCertKey
  CertIas <- MCCertIas
  FreshCek = fresh
  Request <- MCRequest
SPECIFICATION RoundTripSpec
INVARIANT TypeOK
INVARIANT OwnRecipientSuffices
INVARIANT ContentIsEarned
INVARIANT WarningsAreComplete
INVARIANT RecipientsRead
PROPERTY Termination
CHECK_DEADLOCK FALSE
