CONSTANTS
  Handlers = {g1, g2}
  Identities = {alice}
  Namespaces = {served, other}
  AuthenticationNamespace = served
  Subjects = {s1, s2}
  Homes = {h1, h2}
  Names = {n1, n2}
  Keys = {k1, k2}
  PublicKeys <- MCPublicKeys
  NoOwner = NoOwner
  NoFile = NoFile
  Unlocked = Unlocked
  NoKey = NoKey
  NoProfile = NoProfile
  NoHandler = NoHandler
  MaxLogins = 3
  MaxLate = 1
SPECIFICATION LoginSpec
VIEW View
SYMMETRY Symmetry
INVARIANTS AnsweredCanLogIn CertificatesMatchOwner RegisteredKeyIsKept ProfileLogsIn
PROPERTY RegistrationsAreImmutable
