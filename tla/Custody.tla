------------------------------ MODULE Custody -------------------------------
(***************************************************************************)
(* What the cleanup promises for each photo, whatever the threads do: it   *)
(* leaves the phone only while its copy on the PC is vouched for, a copy   *)
(* is vouched for only by verifying a copy that was made, and a photo that *)
(* left the phone never comes back into play.                              *)
(***************************************************************************)

CONSTANT Items

VARIABLE where   \* "phone", "both", "vouched" or "pc" for each item

Init == where = [i \in Items |-> "phone"]

CopyMade(i) == where[i] = "phone" /\ where' = [where EXCEPT ![i] = "both"]

Vouch(i) == where[i] = "both" /\ where' = [where EXCEPT ![i] = "vouched"]

\* A check finds copies wanting, several at once when the disk is rechecked.
Doubt(S) ==
    /\ \A i \in S : where[i] \in {"both", "vouched"}
    /\ where' = [i \in Items |-> IF i \in S THEN "phone" ELSE where[i]]

Release(i) == where[i] = "vouched" /\ where' = [where EXCEPT ![i] = "pc"]

Next ==
    \/ \E i \in Items : CopyMade(i) \/ Vouch(i) \/ Release(i)
    \/ \E S \in (SUBSET Items) \ {{}} : Doubt(S)

Spec == Init /\ [][Next]_where

=============================================================================
