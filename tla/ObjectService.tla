--------------------------- MODULE ObjectService ---------------------------
(***************************************************************************)
(* What the object API promises of one upload request and the object it    *)
(* creates, without chunks, nodes or tables.  An object may become visible *)
(* before it is complete; 201 is answered only once it was; a failed       *)
(* request may leave a partial or even a whole object behind; a complete   *)
(* object stays complete until it is deleted, and deletion is final.       *)
(***************************************************************************)
CONSTANT Objects

VARIABLES
    status,     \* status[o]: "none", "partial", "whole" or "gone"
    reply       \* reply[o]: "none", "created" or "error"

vars == <<status, reply>>

TypeOK ==
    /\ status \in [Objects -> {"none", "partial", "whole", "gone"}]
    /\ reply \in [Objects -> {"none", "created", "error"}]

Init ==
    /\ status = [o \in Objects |-> "none"]
    /\ reply = [o \in Objects |-> "none"]

\* What one database statement of the request can make of an object.
Growth(s) == CASE s = "none" -> {"none", "partial", "whole"}
               [] s = "partial" -> {"partial", "whole"}
               [] OTHER -> {s}

\* The request is still working on the object.
Grow(o) ==
    /\ reply[o] = "none"
    /\ \E s \in Growth(status[o]) : status' = [status EXCEPT ![o] = s]
    /\ UNCHANGED reply

Acknowledge(o) ==
    /\ reply[o] = "none" /\ status[o] \in {"whole", "gone"}
    /\ reply' = [reply EXCEPT ![o] = "created"]
    /\ UNCHANGED status

\* The last statement may have taken effect although it failed.
Refuse(o) ==
    /\ reply[o] = "none"
    /\ reply' = [reply EXCEPT ![o] = "error"]
    /\ \E s \in Growth(status[o]) : status' = [status EXCEPT ![o] = s]

Remove(o) ==
    /\ status[o] \in {"partial", "whole"}
    /\ status' = [status EXCEPT ![o] = "gone"]
    /\ UNCHANGED reply

\* The gateway dies: the requests in R get no answer but a broken connection.
RefuseAll(R) ==
    /\ \A o \in R : reply[o] = "none"
    /\ reply' = [o \in Objects |-> IF o \in R THEN "error" ELSE reply[o]]
    /\ UNCHANGED status

Next ==
    \/ \E o \in Objects : Grow(o) \/ Acknowledge(o) \/ Refuse(o) \/ Remove(o)
    \/ \E R \in SUBSET Objects : RefuseAll(R)

Spec == Init /\ [][Next]_vars

\* A client told 201 never has a partial object.
CreatedIsWhole == \A o \in Objects : reply[o] = "created" => status[o] \in {"whole", "gone"}
=============================================================================
