--------------------------- MODULE MCOrchestrator ---------------------------
(* A small instance of Orchestrator. *)
EXTENDS Orchestrator

CONSTANTS p1, p2

\* The second path of the first component cannot be undone.
MCIrreversible == {<<1, 2>>}

\* To begin with, a component is there as a whole, up to date or not, or not at all.
WholeComponents ==
  {t \in [Paths -> {"absent", "old", "new"}] : \A q \in 1..N, i \in 1..M : t[<<q, i>>] = t[<<q, 1>>]}

=============================================================================
