----------------------------- MODULE Transmission -----------------------------
(***************************************************************************)
(* What the service promises those who send faxes, whatever happens to the *)
(* accounts, the connections, the computer and the service itself: a fax   *)
(* that was submitted is called once at most, no more faxes are called at  *)
(* a time than were agreed, and the sender is told once that the call has  *)
(* ended or that the fax failed; there is no other answer.                 *)
(***************************************************************************)
EXTENDS Naturals, FiniteSets

CONSTANT Sends

VARIABLES stage,    \* where each fax is
          limit     \* how many may be called at a time

(* A sender that finds the service gone is over without an answer.         *)
Follows(before) ==
    CASE before = "idle"      -> {"idle", "submitted", "over"}
      [] before = "submitted" -> {"submitted", "calling", "failed"}
      [] before = "calling"   -> {"calling", "finished", "failed"}
      [] before = "finished"  -> {"finished", "over"}
      [] before = "failed"    -> {"failed", "over"}
      [] OTHER                -> {before}

Calling == {s \in Sends : stage[s] = "calling"}

Init == stage \in [Sends -> {"idle", "over"}]

Next ==
    /\ limit' = limit
    /\ DOMAIN stage' = Sends
    /\ \A s \in Sends : stage'[s] \in Follows(stage[s])
    /\ Cardinality(Calling') <= limit

Spec == Init /\ [][Next]_<<stage, limit>>
=============================================================================
