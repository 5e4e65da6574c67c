--------------------------- MODULE SchedulerUse ---------------------------
(***************************************************************************)
(* A StructuralScheduler under any owner: submit, cancel_pending and poll  *)
(* in every order the public interface allows, and the drop that ends it,  *)
(* against the worker thread.  Jobs are numbered in the order of their     *)
(* submission, up to the bound MaxJobs.                                    *)
(***************************************************************************)
EXTENDS StructuralScheduler

CONSTANT MaxJobs   \* bound: how many jobs are submitted

ASSUME MaxJobsAssumption == MaxJobs \in Nat

VARIABLES
  scheduler,
  submitted,    \* how many jobs were submitted
  revoked,      \* history: the jobs whose cancel_pending returned true
  presented,    \* history: the jobs poll delivered as calculated
  withdrawn,    \* history: the jobs poll delivered as cancelled
  dropped       \* the owner is in drop, which joins the worker

vars == <<scheduler, submitted, revoked, presented, withdrawn, dropped>>

Jobs == 1..MaxJobs

Results == [job: Jobs, outcome: {"calculated", "cancelled"}]

Init ==
  /\ scheduler = NewScheduler
  /\ submitted = 0
  /\ revoked = {}
  /\ presented = {}
  /\ withdrawn = {}
  /\ dropped = FALSE

(* A step that concerns the scheduler alone.                               *)
SchedulerStep(enabled, next) ==
  /\ enabled
  /\ scheduler' = next
  /\ UNCHANGED <<submitted, revoked, presented, withdrawn, dropped>>

-----------------------------------------------------------------------------
(* The owner: Submit answers Busy, and changes nothing, while a job is     *)
(* outstanding; Poll answers None, and changes nothing, while it runs.     *)

Submit ==
  /\ ~dropped
  /\ ~scheduler.busy
  /\ scheduler.thread
  /\ submitted < MaxJobs
  /\ scheduler' = Submitted(scheduler, submitted + 1)
  /\ submitted' = submitted + 1
  /\ UNCHANGED <<revoked, presented, withdrawn, dropped>>

SubmitToDeadWorker ==
  SchedulerStep(~dropped /\ ~scheduler.busy /\ ~scheduler.thread,
                SubmitRefused(scheduler))

Cancel ==
  /\ ~dropped
  /\ scheduler.busy
  /\ scheduler' = CancelPending(scheduler)
  /\ revoked' = revoked \cup {submitted}
  /\ UNCHANGED <<submitted, presented, withdrawn, dropped>>

Poll ==
  /\ ~dropped
  /\ HasAnswer(scheduler)
  /\ LET answer == Answer(scheduler) IN
       IF answer.outcome = "cancelled"
       THEN /\ withdrawn' = withdrawn \cup {answer.job}
            /\ UNCHANGED presented
       ELSE /\ presented' = presented \cup {answer.job}
            /\ UNCHANGED withdrawn
  /\ scheduler' = Drained(scheduler)
  /\ UNCHANGED <<submitted, revoked, dropped>>

PollDeadWorker ==
  SchedulerStep(~dropped /\ Disconnected(scheduler), Abandoned(scheduler))

Drop ==
  /\ ~dropped
  /\ dropped' = TRUE
  /\ scheduler' = Dropping(scheduler)
  /\ UNCHANGED <<submitted, revoked, presented, withdrawn>>

CloseSender ==
  SchedulerStep(dropped /\ scheduler.sender, SenderClosed(scheduler))

CloseReceiver ==
  SchedulerStep(dropped /\ ~scheduler.sender /\ scheduler.receiver,
                ReceiverClosed(scheduler))

-----------------------------------------------------------------------------
(* The worker: run_request loads the flag between its bounded pieces of    *)
(* work, so a job that runs while the flag is set may see it or may be     *)
(* past its last look.                                                     *)

Receive == SchedulerStep(CanReceive(scheduler), Received(scheduler))

Finish ==
  SchedulerStep(CanSend(scheduler),
    Sent(scheduler, [job |-> Head(scheduler.running), outcome |-> "calculated"]))

GiveUp ==
  SchedulerStep(CanSend(scheduler) /\ scheduler.cancelled,
    Sent(scheduler, [job |-> Head(scheduler.running), outcome |-> "cancelled"]))

Panic == SchedulerStep(Running(scheduler), Panicked(scheduler))

Exit == SchedulerStep(CanExit(scheduler), Exited(scheduler))

Worker == Receive \/ Finish \/ GiveUp \/ Panic \/ Exit

Next ==
  \/ Submit \/ SubmitToDeadWorker
  \/ Cancel
  \/ Poll \/ PollDeadWorker
  \/ Drop \/ CloseSender \/ CloseReceiver
  \/ Worker

(* The operating system runs both threads: the worker goes on, and a drop  *)
(* once begun; nothing obliges the owner to submit, cancel, poll or drop.  *)
Spec ==
  Init /\ [][Next]_vars
    /\ WF_vars(Worker) /\ WF_vars(CloseSender) /\ WF_vars(CloseReceiver)

-----------------------------------------------------------------------------
TypeOK ==
  /\ scheduler \in Schedulers(Jobs, Results)
  /\ submitted \in 0..MaxJobs
  /\ revoked \subseteq 1..submitted
  /\ presented \subseteq 1..submitted
  /\ withdrawn \subseteq 1..submitted
  /\ dropped \in BOOLEAN

(* A calculation is presented to the owner only if the owner never asked   *)
(* for its cancellation, whenever the request to cancel came, and a job    *)
(* nobody cancelled is never reported as cancelled: the shared flag of one *)
(* job does not leak into the next (structural_jobs.rs: submit, poll).     *)
CancellationIsExact ==
  /\ presented \cap revoked = {}
  /\ withdrawn \subseteq revoked

(* One job at most is anywhere in the scheduler, it is the last one        *)
(* submitted, and while it is there the owner is busy: what makes it safe  *)
(* for submit to clear the flag (structural_jobs.rs: submit's comment).    *)
OneOutstandingJob ==
  LET jobs == scheduler.jobs
      running == scheduler.running
      completed == scheduler.completed
  IN /\ Len(jobs) + Len(running) + Len(completed) <= 1
     /\ jobs # <<>> => Head(jobs) = submitted
     /\ running # <<>> => Head(running) = submitted
     /\ completed # <<>> => Head(completed).job = submitted
     /\ ~dropped /\ ~scheduler.busy =>
          jobs = <<>> /\ running = <<>> /\ completed = <<>>

(* An outstanding job of a scheduler that is kept is answered, or its      *)
(* worker is found dead: poll does not report None for ever.  Dropping the *)
(* scheduler ends the worker, so that the join in Drop returns: no job,    *)
(* however long, leaves the thread blocked on a channel whose other end is *)
(* gone (structural_jobs.rs: poll, Drop).                                  *)
WorkerNeverHangs ==
  /\ scheduler.busy ~> (HasAnswer(scheduler) \/ ~scheduler.thread \/ dropped)
  /\ dropped ~> ~scheduler.thread
=============================================================================
