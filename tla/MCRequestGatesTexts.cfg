SPECIFICATION InputSpec
CONSTANTS
  t1 = t1
  t2 = t2
  o1 = o1
  plain = plain
  wide = wide
  dot = dot
  space = space
  W4 = 3
  W6 = 5
  Mapped <- MCMapped
  Bare = Bare
  Letters = {plain, wide}
  Punctuation = {dot}
  Spaces = {space}
  Utf8 <- MCUtf8
  Valid <- MCValid
  Hopeless <- MCHopeless
  Languages = {en}
  Absent = Absent
  MaxText = 4
  MaxWords = 2
  Texts <- MCTexts
  WordLists <- MCWordLists
  Tenants = {t1, t2}
  Origins = {o1}
  None = None
  Garbled = Garbled
  Keys <- MCKeys
  Hosts <- MCHosts
  Trusted <- MCTrusted
  Admins <- MCAdmins
  Calls <- MCCalls
  Bodies <- MCBodies
  Requests = {r1}
  Quota = 1
INVARIANT TextsAreAnswered
CHECK_DEADLOCK FALSE
