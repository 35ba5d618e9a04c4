--------------------------- MODULE PaxosConsensus ---------------------------
(***************************************************************************)
(* What the Paxos library of src/src/paxos promises its applications (the *)
(* comments of Start, Status, Done and Min in paxos.go): an instance       *)
(* decides one value, and Status(seq) on any peer reports nothing or that  *)
(* value, for as long as some application may still use the instance --   *)
(* until every peer's application has called Done(seq) or a later one.    *)
(* After that nobody asks, and the library need not remember the decision.*)
(***************************************************************************)
EXTENDS Integers

CONSTANTS Peer, Seqs, Values, Nil

VARIABLES
  chosen,   \* chosen[s]: the values instance s decided
  learned,  \* learned[q][s]: what Status(s) reports on peer q, Nil if nothing
  done      \* done[q]: the highest argument of Done() on peer q, -1 if none

vars == <<chosen, learned, done>>

\* Every application is done with instance s.
Finished(s) == \A q \in Peer : done[q] >= s

Init ==
  /\ chosen = [s \in Seqs |-> {}]
  /\ learned = [q \in Peer |-> [s \in Seqs |-> Nil]]
  /\ done = [q \in Peer |-> -1]

\* Peers learn decisions and forget instances, any number at once: every
\* report stays, is dropped, or becomes a value the instance decided.
Reports ==
  /\ learned' \in [Peer -> [Seqs -> Values \cup {Nil}]]
  /\ \A q \in Peer, s \in Seqs : learned'[q][s] \in {learned[q][s], Nil} \cup chosen[s]

\* Instance s decides v: its first decision, or one nobody will ask about
\* (the step that decides may also drop reports).
Choose(s, v) ==
  /\ chosen[s] = {} \/ Finished(s)
  /\ chosen' = [chosen EXCEPT ![s] = @ \cup {v}]
  /\ Reports
  /\ UNCHANGED done

Report == Reports /\ UNCHANGED <<chosen, done>>

\* The application on q calls Done(s); the library may forget at once.
AppDone(q, s) ==
  /\ s > done[q]
  /\ done' = [done EXCEPT ![q] = s]
  /\ Reports
  /\ UNCHANGED chosen

Next ==
  \/ \E s \in Seqs, v \in Values : Choose(s, v)
  \/ Report
  \/ \E q \in Peer, s \in Seqs : AppDone(q, s)

Spec == Init /\ [][Next]_vars
=============================================================================
