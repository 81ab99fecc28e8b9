-------------------------- MODULE ApprovalBoundary --------------------------
(***************************************************************************)
(* The promise of the human control boundary, stripped of every mechanism: *)
(* an operational change proposed by a recommendation reaches the          *)
(* expedition's records only after an operator has authorized that         *)
(* recommendation.  ApprovalService states it as its purpose; Replanning   *)
(* is shown to implement it.                                               *)
(***************************************************************************)
CONSTANT Rec            \* recommendations

VARIABLES authorized,   \* recommendations an operator has approved at least once
          changed       \* recommendations whose change reached the records

vars == <<authorized, changed>>

Init == authorized = {} /\ changed = {}

(* An operator approves a recommendation. *)
Authorize(r) ==
    /\ authorized' = authorized \cup {r}
    /\ UNCHANGED changed

(* The change an authorized recommendation proposes is committed. *)
Change(r) ==
    /\ r \in authorized
    /\ changed' = changed \cup {r}
    /\ UNCHANGED authorized

Next == \E r \in Rec : Authorize(r) \/ Change(r)

Spec == Init /\ [][Next]_vars
=============================================================================
