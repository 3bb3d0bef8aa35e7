----------------------------- MODULE MCMainMenu -----------------------------
(* Two categories; the cells are interchangeable.                           *)
EXTENDS MainMenu, TLC

CONSTANTS popular, topRated

MCLoads == 1 .. 5
MCRows == {popular, topRated}
MCUrls == {"genres", "popular", "topRated"}
MCUrlOf == [r \in MCRows |-> IF r = popular THEN "popular" ELSE "topRated"]
CellSymmetry == Permutations(Cells)
=============================================================================
