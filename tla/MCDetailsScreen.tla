--------------------------- MODULE MCDetailsScreen --------------------------
(* One visit: three loads by the tap, two by viewDidLoad.                   *)
EXTENDS DetailsScreen

MCLoads == 1 .. 5
MCUrls == {"movie", "cast", "reviews"}
=============================================================================
