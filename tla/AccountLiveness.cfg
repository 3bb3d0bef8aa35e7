SPECIFICATION FairSpec
CONSTANTS
  Users = {anna}
  NoUser = NoUser
  Attempts = {a1, a2}
  MaxPassword = 2
PROPERTIES
  AttemptsAnswered
