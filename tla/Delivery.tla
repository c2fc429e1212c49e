------------------------------- MODULE Delivery -------------------------------
(***************************************************************************)
(* What the exporter promises of every received fax, whatever crashes,     *)
(* restarts, failed writes, retries and other programs in the folder do:   *)
(* it is announced in the step that publishes it and in no other, and from *)
(* then on it is in the folder.  Where directories are synced only the     *)
(* user removes it; elsewhere a crash of the machine may undo its file,    *)
(* but nothing is announced again for that.                                *)
(***************************************************************************)
EXTENDS Naturals

CONSTANT Faxes

VARIABLES fate,    \* what has become of each reception
          shelf,   \* the published receptions whose file is in the folder
          taken,   \* those the user removed from there
          told,    \* how often each was announced
          durable  \* whether directories are synced here

Fates == {"new", "receiving", "waiting", "published", "empty"}

Init ==
    /\ fate = [f \in Faxes |-> "new"]
    /\ shelf = {}
    /\ taken = {}
    /\ told = [f \in Faxes |-> 0]
    /\ durable \in BOOLEAN

Becomes(f, before, after) ==
    /\ fate[f] = before
    /\ fate' = [fate EXCEPT ![f] = after]

Receive(f) == Becomes(f, "new", "receiving") /\ UNCHANGED <<shelf, taken, told>>

(* A restart ends all receptions that were in progress. *)
End(calls) ==
    /\ \A f \in calls : fate[f] = "receiving"
    /\ fate' = [f \in Faxes |-> IF f \in calls THEN "waiting" ELSE fate[f]]
    /\ UNCHANGED <<shelf, taken, told>>

Publish(f) ==
    /\ Becomes(f, "waiting", "published")
    /\ shelf' = shelf \cup {f}
    /\ told' = [told EXCEPT ![f] = @ + 1]
    /\ UNCHANGED taken

(* The call left no page. *)
Discard(f) == Becomes(f, "waiting", "empty") /\ UNCHANGED <<shelf, taken, told>>

Take(f) ==
    /\ f \in shelf
    /\ shelf' = shelf \ {f}
    /\ taken' = taken \cup {f}
    /\ UNCHANGED <<fate, told>>

(* The machine fails: published faxes may lose their files. *)
Vanish(lost) ==
    /\ ~durable
    /\ shelf' = shelf \ lost
    /\ UNCHANGED <<fate, taken, told>>

Next ==
    /\ UNCHANGED durable
    /\ \/ \E f \in Faxes : Receive(f) \/ Publish(f) \/ Discard(f) \/ Take(f)
       \/ \E calls \in SUBSET Faxes : End(calls)
       \/ \E lost \in SUBSET shelf : Vanish(lost)

Spec == Init /\ [][Next]_<<fate, shelf, taken, told, durable>>
=============================================================================
