---------------------------- MODULE ClaimLedger ----------------------------
(***************************************************************************)
(* What the kubelet plugin promises the kubelet, claim by claim, without   *)
(* files, locks, processes, calls or failures.                             *)
(*                                                                         *)
(* The kubelet wants a claim prepared, or unprepared.  Only while it wants *)
(* one of the two may anything of the claim change on the node.  It is     *)
(* told that the claim is prepared when everything a container needs is    *)
(* there, and that it is unprepared when the plugin's records of it are    *)
(* gone; from then on nothing happens to the claim until the kubelet wants *)
(* something else.                                                         *)
(***************************************************************************)
CONSTANT Claims

VARIABLES
    view,           \* what the kubelet knows or wants of each claim
    status          \* what there is of each claim on the node

States   == {"idle", "preparing", "prepared", "unpreparing"}
Statuses == {"nothing", "partial", "usable"}

Init ==
    /\ view = [c \in Claims |-> "idle"]
    /\ status = [c \in Claims |-> "nothing"]

(* A pod needs the claim, maybe again. *)
Demand(c) ==
    /\ view[c] \in {"idle", "unpreparing"}
    /\ view' = [view EXCEPT ![c] = "preparing"]
    /\ UNCHANGED status

(* No pod needs it any more. *)
Release(c) ==
    /\ view[c] \in {"preparing", "prepared"}
    /\ view' = [view EXCEPT ![c] = "unpreparing"]
    /\ UNCHANGED status

(* The kubelet restarts, and asks again. *)
Forget ==
    /\ view' = [c \in Claims |-> IF view[c] = "prepared" THEN "preparing" ELSE view[c]]
    /\ UNCHANGED status

(* The plugin does something, or fails to, for any of the claims at hand. *)
Work ==
    /\ status' \in [Claims -> Statuses]
    /\ \A c \in Claims : status'[c] # status[c] => view[c] \in {"preparing", "unpreparing"}
    /\ UNCHANGED view

(* It answers for a batch of claims. *)
Achieved(c) ==
    \/ view[c] = "preparing" /\ status[c] = "usable"
    \/ view[c] = "unpreparing" /\ status[c] = "nothing"

Answer(batch) ==
    /\ \A c \in batch : Achieved(c)
    /\ view' = [c \in Claims |->
                   IF c \notin batch THEN view[c]
                   ELSE IF view[c] = "preparing" THEN "prepared" ELSE "idle"]
    /\ UNCHANGED status

Next ==
    \/ \E c \in Claims : Demand(c) \/ Release(c)
    \/ Forget
    \/ Work
    \/ \E batch \in SUBSET Claims : Answer(batch)

Spec == Init /\ [][Next]_<<view, status>>
=============================================================================
