-------------------------------- MODULE Jobs --------------------------------
(***************************************************************************)
(* What the agent promises a client, without its stores, its loop and its  *)
(* kernel: a request gets one answer, and with the answer it becomes a job *)
(* that waits, a job that runs, or nothing.  A waiting job is never lost   *)
(* and is started at most once; a job that ended does not come back.       *)
(***************************************************************************)
EXTENDS Integers, FiniteSets

CONSTANTS Request, NULL, QUEUE_SIZE

VARIABLES answer, job

vars == <<answer, job>>

\* Answers that leave a job behind: a task that could not be started stays.
Keeping == {"queued", "failed"}
Refusing == {"not_found", "ws_set", "ws_not_found", "invalid"}

Waiting == {r \in Request : job[r] = "waiting"}

Init ==
  /\ answer = [r \in Request |-> NULL]
  /\ job = [r \in Request |-> "none"]

Answer(r, a, j) ==
  /\ answer[r] = NULL
  /\ answer' = [answer EXCEPT ![r] = a]
  /\ job' = [job EXCEPT ![r] = j]

Refuse(r) == \E a \in Refusing : Answer(r, a, "none")

Keep(r) ==
  /\ \E a \in Keeping : Answer(r, a, "waiting")
  /\ Cardinality(Waiting) < QUEUE_SIZE

StartAtOnce(r) ==
  /\ Answer(r, "started", "running")
  /\ Cardinality(Waiting) < QUEUE_SIZE

Start(r) ==
  /\ UNCHANGED answer
  /\ job[r] = "waiting"
  /\ job' = [job EXCEPT ![r] = "running"]

End(r) ==
  /\ UNCHANGED answer
  /\ job[r] = "running"
  /\ job' = [job EXCEPT ![r] = "ended"]

Next == \E r \in Request : Refuse(r) \/ Keep(r) \/ StartAtOnce(r) \/ Start(r) \/ End(r)

Spec == Init /\ [][Next]_vars
=============================================================================
