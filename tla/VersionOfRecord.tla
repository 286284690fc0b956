--------------------------- MODULE VersionOfRecord ---------------------------
(***************************************************************************)
(* What the service promises of every document it keeps in versions, with  *)
(* what the document says, and what it is checked against, forgotten.      *)
(*                                                                         *)
(* A version is drafted, submitted, approved and put in force, in this     *)
(* order.  What it says may be rewritten only while it is open, so that    *)
(* what governs is what was approved.  The version in force gives way only *)
(* to another one: never two of them, and never none again.  What was      *)
(* rejected or superseded does not come back.                              *)
(***************************************************************************)
CONSTANTS
    Versions,
    Open,      \* statuses in which a version may still be rewritten
    Alone      \* a version is prepared only while no other is

VARIABLES
    status,    \* of each version
    content    \* what it says

record == <<status, content>>

Prepared == {v \in Versions : status[v] \in {"draft", "submitted", "approved"}}

\* Only version v is written, whatever it then says.
Writes(v) == \A w \in Versions \ {v} : content'[w] = content[w]

\* v passes from one status to another and says what it said.
Passes(v, from, to) ==
    /\ status[v] \in from
    /\ status' = [status EXCEPT ![v] = to]
    /\ UNCHANGED content

Draft(v) ==
    /\ status[v] = "none"
    /\ Alone => Prepared = {}
    /\ status' = [status EXCEPT ![v] = "draft"]
    /\ Writes(v)

Rewrite(v) ==
    /\ status[v] \in Open
    /\ UNCHANGED status
    /\ Writes(v)

Submit(v) == Passes(v, {"draft"}, "submitted")
Return(v) == Passes(v, {"submitted"}, "draft")
Approve(v) == Passes(v, {"submitted"}, "approved")
Reject(v) == Passes(v, {"draft", "submitted", "approved"}, "rejected")

PutInForce(v) ==
    /\ status[v] = "approved"
    /\ status' = [w \in Versions |->
          IF w = v THEN "active"
          ELSE IF status[w] = "active" THEN "superseded" ELSE status[w]]
    /\ UNCHANGED content

Init == status = [v \in Versions |-> "none"]

Next ==
    \E v \in Versions :
        \/ Draft(v) \/ Rewrite(v) \/ Submit(v) \/ Return(v)
        \/ Approve(v) \/ Reject(v) \/ PutInForce(v)

Spec == Init /\ [][Next]_record
=============================================================================
