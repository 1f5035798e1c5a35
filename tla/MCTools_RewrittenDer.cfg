SPECIFICATION Spec
CONSTANTS
  None = None
  Junk = Junk
  Absent = Absent
  Garbage = Garbage
  Text = Text
  OtherText = OtherText
  RightPassword = RightPassword
  WrongPassword = WrongPassword
  EmptyPassword = EmptyPassword
  Null = Null
  Key = Key
  OtherKey = OtherKey
  Kek = Kek
  Path <- MCPath
  ReadOnly <- MCReadOnly
  P12Path <- MCP12Path
  Pem <- MCPem
  HexOf <- MCHexOf
  Anchors <- MCAnchors
  Name <- MCName
  Date <- MCDate
  Plain <- MCPlain
  Secret <- MCSecret
  Payload <- MCPayload
  Url <- MCUrl
  FetchableUrl <- MCFetchableUrl
  UrlsIn <- MCUrlsIn
  Sessions <- MCSessions
  MaxIterations = 100
  NullPassword = Null
  Empty = EmptyPassword
  Value <- MCValue
  Password = {RightPassword, WrongPassword, EmptyPassword}
INVARIANT RewrittenIsDer
