----------------------------- MODULE JobLifecycle -----------------------------
(***************************************************************************)
(* What the outgoing queue promises of every fax, whatever crashes,        *)
(* restarts, store errors, cancels, clears and stops happen: a job is      *)
(* queued once, its life only moves forward, it may disappear from the     *)
(* history but not come back, and it is handed to a backend at most once,  *)
(* while it is active.                                                     *)
(***************************************************************************)
EXTENDS Naturals

CONSTANT Jobs

VARIABLES life,   \* where each job is in its life
          calls   \* how often it was transmitted

Lives == {"new", "queued", "active", "finished", "removed"}

(* A queued job may finish without being active: cancelled, or its thread  *)
(* did not start.                                                          *)
Follows(before) ==
    {before} \cup
    CASE before = "new"      -> {"queued"}
      [] before = "queued"   -> {"active", "finished", "removed"}
      [] before = "active"   -> {"finished", "removed"}
      [] before = "finished" -> {"removed"}
      [] before = "removed"  -> {}

Init ==
    /\ life = [j \in Jobs |-> "new"]
    /\ calls = [j \in Jobs |-> 0]

(* One request may move many jobs, as clearing does. *)
Move ==
    /\ life' \in [Jobs -> Lives]
    /\ \A j \in Jobs : life'[j] \in Follows(life[j])
    /\ UNCHANGED calls

Call(j) ==
    /\ life[j] = "active"
    /\ calls[j] = 0
    /\ calls' = [calls EXCEPT ![j] = 1]
    /\ UNCHANGED life

Next == Move \/ \E j \in Jobs : Call(j)

Spec == Init /\ [][Next]_<<life, calls>>
=============================================================================
