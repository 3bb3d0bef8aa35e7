---------------------------- MODULE MCImageCells ----------------------------
(* A cell for actors and one for search results; items with and without an  *)
(* image, one of them with a long name.                                     *)
EXTENDS ImageCells

MCDownloads == 1 .. 3
=============================================================================
