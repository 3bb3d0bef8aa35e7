SPECIFICATION Spec
CONSTANTS
  Users = {anna, boris}
  NoUser = NoUser
  Attempts = {a1, a2}
  MaxPassword = 2
SYMMETRY Symmetry
INVARIANTS
  AccountTypeOK
  ViewFollowsSession
  NameIsUsers
  SavedPasswordsVerified
  RegisteredMeansBoth
  AccountsComplete
