--------------------------- MODULE MentionDelivery ---------------------------
(***************************************************************************)
(* What the handoff promises of each mention, whatever happens to the      *)
(* processes: it may be offered, one worker runs it, and a run ends in an  *)
(* answer, in a release (nothing was done, so it is offered again) or in   *)
(* doubt. Answers and doubts are final.                                    *)
(***************************************************************************)
CONSTANT Mentions

VARIABLE status

Statuses == {"unseen", "offered", "running", "answered", "doubt"}

Init == status \in [Mentions -> {"unseen", "offered", "doubt"}]

Move(m, from, to) == status[m] = from /\ status' = [status EXCEPT ![m] = to]

Offer(m)   == Move(m, "unseen", "offered")
Begin(m)   == /\ \A n \in Mentions : status[n] # "running"
              /\ Move(m, "offered", "running")
Answer(m)  == Move(m, "running", "answered")
Release(m) == Move(m, "running", "offered")
Doubt(m)   == Move(m, "running", "doubt")

Next == \E m \in Mentions :
          Offer(m) \/ Begin(m) \/ Answer(m) \/ Release(m) \/ Doubt(m)

Spec == Init /\ [][Next]_status
=============================================================================
