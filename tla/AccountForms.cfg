SPECIFICATION Spec
CONSTANTS
  Users = {anna}
  NoUser = NoUser
  Attempts = {a1}
  MaxPassword = 1
INVARIANTS
  AccountsFromCompleteForms
