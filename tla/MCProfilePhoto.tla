--------------------------- MODULE MCProfilePhoto ---------------------------
(* Two users and two picked photos, both of one user or one of each, in two  *)
(* sessions.  One user has an avatar from former times, the other has none.  *)
EXTENDS ProfilePhoto, TLC

CONSTANTS anna, boris

MCFormerAvatars == {anna :> Before @@ boris :> NoPhoto}
=============================================================================
