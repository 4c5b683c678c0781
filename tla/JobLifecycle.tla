---------------------------- MODULE JobLifecycle -----------------------------
(***************************************************************************)
(* What the document queue promises whoever submits a job: the job waits   *)
(* until it has one document, has failed or is cancelled; a document is    *)
(* never replaced and a cancelled job never runs; only a failed job is     *)
(* started afresh; and what is gone does not come back.                    *)
(***************************************************************************)
CONSTANTS Jobs, Documents, NoDocument

VARIABLES status,    \* of each job
          document   \* of each job that is done

States == {"none", "waiting", "done", "failed", "cancelled", "gone"}

Init ==
  /\ status = [j \in Jobs |-> "none"]
  /\ document = [j \in Jobs |-> NoDocument]

Becomes(j, from, to) ==
  /\ status[j] \in from
  /\ status' = [status EXCEPT ![j] = to]

Submit(j) == Becomes(j, {"none"}, "waiting") /\ UNCHANGED document
Refuse(j) == Becomes(j, {"none"}, "gone") /\ UNCHANGED document
Fail(j)   == Becomes(j, {"waiting"}, "failed") /\ UNCHANGED document
Cancel(j) == Becomes(j, {"waiting"}, "cancelled") /\ UNCHANGED document
Retry(j)  == Becomes(j, {"failed"}, "waiting") /\ UNCHANGED document

Finish(j, d) ==
  /\ Becomes(j, {"waiting"}, "done")
  /\ document' = [document EXCEPT ![j] = d]

Drop(j) ==
  /\ Becomes(j, {"waiting", "done", "failed", "cancelled"}, "gone")
  /\ document' = [document EXCEPT ![j] = NoDocument]

Next == \E j \in Jobs :
  \/ Submit(j) \/ Refuse(j) \/ Fail(j) \/ Cancel(j) \/ Retry(j) \/ Drop(j)
  \/ \E d \in Documents : Finish(j, d)

Spec == Init /\ [][Next]_<<status, document>>
=============================================================================
