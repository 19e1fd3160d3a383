-------------------------- MODULE MCLibraryCleanup --------------------------
(* MCMixed: of the two pictures of the first path, one has the content of    *)
(* the pictures of the other paths and the other is only similar.            *)
(* MCCopies: every picture has the same content.                             *)
EXTENDS LibraryCleanup, TLC

CONSTANTS f1, f2, f3, a1, a2, a3, c1, d1, none

MCListing == <<f1, f2, f3>>
MCPair == <<f1, f2>>
MCHome == [p \in Pictures |-> CASE p = c1 -> f2 [] p = d1 -> f3 [] OTHER -> f1]
\* The second name of the first file is the name of the third.
MCSharedName == (f1 :> <<f3, "staged">>) @@ [f \in {f2, f3} |-> <<f, "renamed">>]
MCOwnNames == [f \in {f1, f2} |-> <<f, "renamed">>]
MCMixedHash == (a1 :> 1) @@ (a2 :> 2) @@ (c1 :> 1) @@ (d1 :> 1)
MCMixedLook == (a1 :> 0) @@ (a2 :> 1) @@ (c1 :> 0) @@ (d1 :> 0)
MCCopiesHash == [p \in Pictures |-> 1]
MCCopiesLook == [p \in Pictures |-> 0]
MCDistance == [x \in 0..1, y \in 0..1 |-> IF x = y THEN 0 ELSE 5]
=============================================================================
