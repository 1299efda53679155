-------------------------- MODULE CompanyRegistry --------------------------
(***************************************************************************)
(* What the company manifests promise, whatever runs, cancels, failed      *)
(* saves and restarts do to the files: a book with one entry per instance, *)
(* changed in one piece. The slot of the one company is reserved when no   *)
(* other holds it; its entry only gains progress and is complete when it   *)
(* has all of it; a complete company stays so until it is cancelled, and a *)
(* cancelled one for good.                                                 *)
(***************************************************************************)
EXTENDS Integers

CONSTANTS Instances,  \* the instances there may be
          Steps,      \* provisioning steps of the template's plan
          Phases      \* phases of the lifecycle that are checkpointed

VARIABLE book

Entries ==
  [status : {"none", "in_progress", "resumable", "complete", "cancelled"},
   steps : 0..Steps, phases : SUBSET Phases, runId : BOOLEAN]

Blank(status) == [status |-> status, steps |-> 0, phases |-> {}, runId |-> FALSE]

HoldsSlot(e) == e.status \notin {"none", "cancelled"}
Unfinished(e) == e.status \in {"in_progress", "resumable"}
Earned(e) == e.steps = Steps /\ e.phases = Phases /\ e.runId

\* The entry e has everything that d has.
Gains(d, e) ==
  d.steps <= e.steps /\ d.phases \subseteq e.phases /\ (d.runId => e.runId)

Init == book = [i \in Instances |-> Blank("none")]

Reserve(i) ==
  /\ \A j \in Instances : ~HoldsSlot(book[j])
  /\ book[i].status = "none"
  /\ book' = [book EXCEPT ![i] = Blank("in_progress")]

Record(i) ==
  /\ Unfinished(book[i])
  /\ book' \in [Instances -> Entries]
  /\ \A j \in Instances \ {i} : book'[j] = book[j]
  /\ HoldsSlot(book'[i]) /\ Gains(book[i], book'[i])
  /\ book'[i].status = "complete" => Earned(book'[i])

Cancel(i) ==
  /\ HoldsSlot(book[i])
  /\ book' = [book EXCEPT ![i].status = "cancelled"]

Next == \E i \in Instances : Reserve(i) \/ Record(i) \/ Cancel(i)

Spec == Init /\ [][Next]_book
=============================================================================
