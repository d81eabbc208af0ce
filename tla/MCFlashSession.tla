--------------------------- MODULE MCFlashSession ---------------------------
(* Up to three start commands of any kind, at most one reopened screen.     *)
EXTENDS FlashSession
=============================================================================
