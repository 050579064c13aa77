---------------------------- MODULE JobLifecycle ----------------------------
(***************************************************************************)
(* What the service promises about a job, whatever the server does inside: *)
(* the stages a client can observe through GET /v1/jobs/{id} and the only  *)
(* order in which they may follow one another.  The thirteen state strings *)
(* of main.go are grouped into the stages a client acts upon:              *)
(*                                                                         *)
(*   Waiting     PENDING                  the client polls                 *)
(*   Receiving   ADMITTED, UPLOADING      the client PUTs chunks           *)
(*   Processing  FINALIZING .. TRANSCODING  the client polls               *)
(*   Completed, Failed, Expired           the workflow is over             *)
(*                                                                         *)
(* The detailed modules implement this one: their steps move jobs only     *)
(* along these arrows, in Admission at most one job at a time, while a     *)
(* restart of Processing or Upload may move several.                       *)
(***************************************************************************)
CONSTANT Jobs

VARIABLE stage

Stages == {"Absent", "Waiting", "Receiving", "Processing",
           "Completed", "Failed", "Expired"}

Final == {"Completed", "Failed", "Expired"}

Init == stage = [j \in Jobs |-> "Absent"]

Move(j, from, to) ==
  /\ stage[j] \in from
  /\ stage' = [stage EXCEPT ![j] = to]

Accept(j)  == Move(j, {"Absent"}, "Waiting")
Admit(j)   == Move(j, {"Waiting"}, "Receiving")
Process(j) == Move(j, {"Receiving"}, "Processing")
Finish(j)  == Move(j, {"Processing"}, "Completed")
Fail(j)    == Move(j, {"Waiting", "Receiving", "Processing"}, "Failed")
Expire(j)  == Move(j, {"Waiting", "Receiving"}, "Expired")

Next == \E j \in Jobs :
          Accept(j) \/ Admit(j) \/ Process(j) \/ Finish(j) \/ Fail(j) \/ Expire(j)

Spec == Init /\ [][Next]_stage
=============================================================================
