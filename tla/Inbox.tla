-------------------------------- MODULE Inbox --------------------------------
(***************************************************************************)
(* What the service and the actor together promise of every incoming call, *)
(* whatever hang-ups, deadlines, lost connections, failed writes and stops *)
(* race with its answer: it is answered once at most, only after it was    *)
(* stored; its record ends once, as received only if it was answered and   *)
(* ended with pages, and changes after that only where its pages turn out  *)
(* to be incomplete; and no more calls are answered than may be.           *)
(***************************************************************************)
EXTENDS Naturals, FiniteSets

CONSTANTS Faxes,  \* the identities given to incoming calls
          Limit   \* how many may be answered at a time

VARIABLES stage,  \* what has become of each of them
          broken  \* whether a write or the service has failed

(* A call is stored and waits for its answer, is answered ("talking"), and *)
(* has ended with pages or without ("full", "empty"), until its record     *)
(* tells the outcome.  Where something broke, a record may be left "stale" *)
(* that nobody closes any more.                                            *)
Follows(before) ==
    CASE before = "Absent"  -> {"Absent", "stored"}
      [] before = "stored"  -> {"stored", "talking", "empty", "Interrupted", "stale"}
      [] before = "talking" -> {"talking", "full", "empty"}
      [] before = "full"    -> {"full", "Received", "stale"}
      [] before = "empty"   -> {"empty", "Failed", "Interrupted", "stale"}
      [] before \in {"Received", "Failed", "Interrupted"} -> {before, "Partial"}
      [] OTHER              -> {before}

Talking == {f \in Faxes : stage[f] = "talking"}

Init ==
    /\ stage = [f \in Faxes |-> "Absent"]
    /\ ~broken

(* One event may end many calls, as the loss of a connection does. *)
Next ==
    /\ broken => broken'
    /\ DOMAIN stage' = Faxes
    /\ \A f \in Faxes :
          /\ stage'[f] \in Follows(stage[f])
          /\ stage'[f] = "stale" => broken'
    /\ Cardinality(Talking') <= Limit

Spec == Init /\ [][Next]_<<stage, broken>>
=============================================================================
