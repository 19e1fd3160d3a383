------------------------------ MODULE Copying --------------------------------
(***************************************************************************)
(* What a copy is to those who do not look inside it: a file is due, and   *)
(* while it is, whatever is at its place on the PC may change; it is copied*)
(* when the whole file is there, and from then on neither the row nor the  *)
(* file is touched again; or it fails, until all that failed is retried.   *)
(***************************************************************************)

CONSTANT Items

VARIABLES
    stage,  \* "due", "copied" or "failed" for each item
    whole   \* whether the finished file of each is its whole remote file

vars == <<stage, whole>>

Init == /\ stage = [i \in Items |-> "due"]
        /\ whole \in [Items -> BOOLEAN]

\* Something else takes the place of the file on the PC.
Write(i) ==
    /\ stage[i] = "due"
    /\ \E b \in BOOLEAN : whole' = [whole EXCEPT ![i] = b]
    /\ UNCHANGED stage

Make(i) ==
    /\ stage[i] = "due" /\ whole[i]
    /\ stage' = [stage EXCEPT ![i] = "copied"]
    /\ UNCHANGED whole

Fail(i) ==
    /\ stage[i] = "due"
    /\ stage' = [stage EXCEPT ![i] = "failed"]
    /\ UNCHANGED whole

Retry ==
    /\ stage' = [i \in Items |-> IF stage[i] = "failed" THEN "due" ELSE stage[i]]
    /\ UNCHANGED whole

Next == Retry \/ \E i \in Items : Write(i) \/ Make(i) \/ Fail(i)

Spec == Init /\ [][Next]_vars

=============================================================================
