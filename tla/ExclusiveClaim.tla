--------------------------- MODULE ExclusiveClaim ---------------------------
(***************************************************************************)
(* What a claim on a database row promises to the callers that take it     *)
(* before they submit a transaction: one of them works at a time, a claim  *)
(* whose holder is gone may be taken over, and a finished row is never     *)
(* claimed again.                                                          *)
(***************************************************************************)
CONSTANT Claimants

VARIABLES holder,         \* who works under the claim: nobody or one
          phase           \* "free", "held", "lost" by its holder,
                          \* "finished" by it, or "closed" by somebody else

vars == <<holder, phase>>

Init == holder = {} /\ phase = "free"

Open == phase \in {"free", "lost"}

Take(c) == Open /\ holder' = {c} /\ phase' = "held"

(* The holder gives the claim up, finishes the work, or is gone.           *)
Leave(c) ==
    /\ holder = {c}
    /\ holder' = {}
    /\ phase' \in {"free", "finished", "lost"}

(* The row is closed without the work.                                     *)
Close == Open /\ phase' = "closed" /\ UNCHANGED holder

Next == Close \/ \E c \in Claimants : Take(c) \/ Leave(c)

Spec == Init /\ [][Next]_vars
=============================================================================
