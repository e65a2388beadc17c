------------------------------ MODULE PrdQueue ------------------------------
(***************************************************************************)
(* What the writers of prd.toon promise their callers: one task queue, on  *)
(* which every command (`samuel run done|skip|reset|enqueue|task add`) and  *)
(* every save of the loop takes effect at one instant and at most once, or *)
(* has no effect and says so.  PrdStore, which models the files, the lock  *)
(* and the crashes, is shown to implement this.                            *)
(*                                                                         *)
(* queue is <<doc>>, or <<>> while the project has no prd.toon.            *)
(***************************************************************************)
EXTENDS Sequences

CONSTANTS
  Accepts(_, _),      \* whether a document admits a command
  Mutated(_, _),      \* the document the command leaves
  Recorded(_, _, _),  \* the document an iteration's bookkeeping leaves
  FreshPRD,           \* the document of an empty queue
  Clients,       \* the command invocations, one process each
  Savers,        \* the other writers: the loop's bookkeeping, run init, run pilot
  Requests,      \* the ways the clients may be asked to do something
  Job,           \* what each saver does: "record", "init" or "pilot"
  NewQueue,      \* the document each init makes
  InitialQueues  \* the queues the project may start from

VARIABLES
  queue,   \* the current document
  cmd,     \* the command of each client
  answer   \* what each process has come to: open, applied or refused

vars == <<queue, cmd, answer>>

Writers == Clients \cup Savers

Init ==
  /\ queue \in InitialQueues
  /\ cmd \in Requests
  /\ answer = [w \in Writers |-> "open"]

Answer(w, a) ==
  /\ answer[w] = "open"
  /\ answer' = [answer EXCEPT ![w] = a]
  /\ UNCHANGED cmd

\* The command takes effect.  Its caller may still die before hearing of it.
Apply(c) ==
  /\ queue # <<>>
  /\ Accepts(queue[1], cmd[c])
  /\ queue' = <<Mutated(queue[1], cmd[c])>>
  /\ Answer(c, "applied")

\* The loop enters a finished iteration into the rollup.
Record(s) ==
  /\ Job[s] = "record"
  /\ queue # <<>>
  /\ queue' = <<Recorded(queue[1], 1, "implementation")>>
  /\ Answer(s, "applied")

\* run init starts a new queue whatever there was, run pilot only where there is none.
Create(s) ==
  /\ \/ Job[s] = "init" /\ queue' = <<NewQueue[s]>>
     \/ Job[s] = "pilot" /\ queue = <<>> /\ queue' = <<FreshPRD>>
  /\ Answer(s, "applied")

\* A writer gives up: busy lock, no queue, unknown task, duplicate id, full disk.
Refuse(w) ==
  /\ Answer(w, "refused")
  /\ UNCHANGED queue

Next ==
  \/ \E c \in Clients : Apply(c)
  \/ \E s \in Savers : Record(s) \/ Create(s)
  \/ \E w \in Writers : Refuse(w)

Spec == Init /\ [][Next]_vars
=============================================================================
