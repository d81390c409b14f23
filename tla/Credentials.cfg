CONSTANTS
  Sessions = {s1, s2}
  Admins = {a1}
  Identities = {alice, bob}
  MaxSecrets = 4
  SingleWriter = TRUE
  NoToken = NoToken
  Unlocked = Unlocked
SPECIFICATION Spec
INVARIANTS InviteWorksOnce IssuedTokenWorks GrantsAreKept
