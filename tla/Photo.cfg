SPECIFICATION FairSpec
CONSTANTS
  Users = {anna, boris}
  NoUser = NoUser
  Picks = {p1, p2}
  Before = Before
  NoPhoto = NoPhoto
  anna = anna
  boris = boris
  FormerAvatars <- MCFormerAvatars
  MaxSessions = 2
INVARIANTS PhotoTypeOK AvatarIsStoredPhoto AvatarIsOwn OwnPhotoShown
PROPERTIES UploadsEnd
CHECK_DEADLOCK FALSE
