------------------------ MODULE StructuralScheduler ------------------------
(***************************************************************************)
(* The StructuralScheduler (src/structural_jobs.rs): one worker thread,    *)
(* two channels of capacity one, a busy flag the owner keeps and an atomic *)
(* cancellation flag that owner and worker share and every job reuses.     *)
(*                                                                         *)
(* The scheduler is one record, so that an owner which polls and submits   *)
(* in one step (StructuralRuntime.tick) composes the operators below.  An  *)
(* answer is a record whose field "outcome" says what became of the job;   *)
(* what else requests and answers hold is the owner's business.            *)
(***************************************************************************)
EXTENDS Naturals, Sequences

(* jobs, completed: the channels; running: the request the worker holds;   *)
(* thread: whether the worker thread runs; sender, receiver: whether the   *)
(* owner still holds its end of each channel.                              *)
NewScheduler ==
  [jobs |-> <<>>, running |-> <<>>, completed |-> <<>>, busy |-> FALSE,
   cancelled |-> FALSE, thread |-> TRUE, sender |-> TRUE, receiver |-> TRUE]

(* AtMostOne(S): what a channel of capacity one, or the worker, holds.     *)
AtMostOne(S) == {q \in Seq(S) : Len(q) <= 1}

Schedulers(Requests, Answers) ==
  [jobs: AtMostOne(Requests), running: AtMostOne(Requests),
   completed: AtMostOne(Answers), busy: BOOLEAN, cancelled: BOOLEAN,
   thread: BOOLEAN, sender: BOOLEAN, receiver: BOOLEAN]

-----------------------------------------------------------------------------
(* The owner.                                                              *)

SubmittedOverOldFlag(s, request) ==
  [s EXCEPT !.jobs = Append(@, request), !.busy = TRUE]

Submitted(s, request) ==
  [s EXCEPT !.cancelled = FALSE, !.jobs = Append(@, request), !.busy = TRUE]

(* try_send finds the worker gone; the flag was already cleared.           *)
SubmitRefused(s) == [s EXCEPT !.cancelled = FALSE]

CancelPending(s) == [s EXCEPT !.cancelled = @ \/ s.busy]

HasAnswer(s) == s.completed # <<>>

(* try_recv reports Disconnected only once the channel is empty.           *)
Disconnected(s) == s.completed = <<>> /\ ~s.thread

(* A cancelled job's answer is overwritten even if it arrived in time.     *)
Answer(s) ==
  IF s.cancelled
  THEN [Head(s.completed) EXCEPT !.outcome = "cancelled"]
  ELSE Head(s.completed)

Drained(s) == [s EXCEPT !.completed = Tail(@), !.busy = FALSE]

Abandoned(s) == [s EXCEPT !.busy = FALSE]

(* Drop: cancel, close both channels and join the thread; an answer nobody *)
(* consumed goes with its channel.                                         *)
Dropping(s) == [s EXCEPT !.cancelled = TRUE]

SenderKept(s) == [s EXCEPT !.sender = TRUE]

SenderClosed(s) == [s EXCEPT !.sender = FALSE]

ReceiverClosed(s) == [s EXCEPT !.receiver = FALSE, !.completed = <<>>]

-----------------------------------------------------------------------------
(* The worker thread.                                                      *)

CanReceive(s) == s.thread /\ s.running = <<>> /\ s.jobs # <<>>

Received(s) == [s EXCEPT !.running = <<Head(s.jobs)>>, !.jobs = Tail(@)]

Running(s) == s.thread /\ s.running # <<>>

(* The completion channel holds one answer: send waits for room, and fails *)
(* when the owner is gone, which ends the thread.                          *)
CanSend(s) == Running(s) /\ (s.receiver => s.completed = <<>>)

Sent(s, answer) ==
  IF s.receiver
  THEN [s EXCEPT !.running = <<>>, !.completed = <<answer>>]
  ELSE [s EXCEPT !.running = <<>>, !.thread = FALSE]

(* A panic in run_request unwinds the thread and loses its request.        *)
Panicked(s) == [s EXCEPT !.running = <<>>, !.thread = FALSE]

(* recv fails once the owner's sender is gone and the channel is empty.    *)
CanExit(s) == s.thread /\ s.running = <<>> /\ s.jobs = <<>> /\ ~s.sender

Exited(s) == [s EXCEPT !.thread = FALSE]
=============================================================================
