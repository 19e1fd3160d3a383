------------------------------- MODULE MCPage -------------------------------
(* An instance of Page for TLC: two photos.                                 *)
EXTENDS Page

CONSTANTS p1, p2

=============================================================================
