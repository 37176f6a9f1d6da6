----------------------------- MODULE MCDownload ------------------------------
(* Download with files of up to MaxBlocks blocks over two contents. *)
EXTENDS Download

CONSTANTS x, y

MCBlocks == {x, y}
=============================================================================
