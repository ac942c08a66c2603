\* Two requests at a time, three tokens after the one of the installation.
CONSTANTS
  r1 = r1
  r2 = r2
  w1 = w1
  w2 = w2
  domain = domain
  Requests = {r1, r2}
  Passwords = {w1, w2}
  Domains = {domain}
  MaxFailures = 2
  MaxTokens = 3
  MaxEvents = 5
  None = None
SPECIFICATION FairSpec
INVARIANTS
  TypeOK
  SessionKnowsPassword
  EndedStaysEnded
  GuessesAreBounded
PROPERTY
  HttpsComesUp
CHECK_DEADLOCK FALSE
