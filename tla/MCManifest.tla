----------------------------- MODULE MCManifest -----------------------------
(* Instances of Manifest for TLC: a Live Photo, and another photo of the    *)
(* same name and month.                                                     *)
EXTENDS Manifest, TLC

CONSTANTS image, motion, other, A, B

MCItems == {image, motion, other}
MCFolder == image :> "100" @@ motion :> "100" @@ other :> "101"
MCStem == [i \in MCItems |-> "IMG_1"]
MCExt == image :> "HEIC" @@ motion :> "MOV" @@ other :> "HEIC"
MCMonth == [i \in MCItems |-> "July"]
MCSize == image :> 2 @@ motion :> 1 @@ other :> 2
MCOnePhone == [i \in MCItems |-> A]
MCTwoPhones == [i \in MCItems |-> IF i = other THEN B ELSE A]

=============================================================================
