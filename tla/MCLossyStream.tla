--------------------------- MODULE MCLossyStream ---------------------------
(* WorldStream under losses, in two scenarios.  In the first a client joins *)
(* while the world changes once at most and a request or a fragment of its  *)
(* snapshot is lost; in the second a client that has joined follows the     *)
(* world while deltas and requests are lost.  Snapshot 1 is the second      *)
(* client's first world, and went to a peer that left in the first.         *)
EXTENDS WorldStream

CONSTANTS p1

VARIABLE scenario

OnePeer == {p1}

ScenarioInit ==
  /\ scenario \in {"join", "follow"}
  /\ log = <<>> /\ retained = <<>> /\ repairs = <<>>
  /\ transfer = [p \in Peers |-> NoTransfer]
  /\ nextSnapshotId = 2
  /\ sinceSnapshot = [p \in Peers |-> SnapshotCooldown]
  /\ stage = "ingest" /\ served = 0 /\ built = NotBuilt /\ todo = {}
  /\ deltaNet = [p \in Peers |-> {}]
  /\ snapshotNet = [p \in Peers |-> {}]
  /\ requestNet = [p \in Peers |-> {}]
  /\ losses = 0
  /\ inbox = [p \in Peers |-> EmptyInbox(1)]
  /\ gap = [p \in Peers |-> FALSE]
  /\ fault = [p \in Peers |-> "none"]
  /\ IF scenario = "join"
     THEN /\ phase = [p \in Peers |-> "awaiting"]
          /\ assembler = [p \in Peers |-> NewAssembler]
          /\ replica = [p \in Peers |-> NewReplica]
     ELSE /\ phase = [p \in Peers |-> "ready"]
          /\ assembler = [p \in Peers |-> [NewAssembler EXCEPT !.done = 1]]
          /\ replica = [p \in Peers |-> [NewReplica EXCEPT !.world = 1]]

(* The scenarios restrict changes of the world and losses, neither of which *)
(* is fair.                                                                 *)
ScenarioNext ==
  /\ Next /\ UNCHANGED scenario
  /\ scenario = "join" => Len(log') <= 1 /\ losses' <= 1
  /\ losses' # losses => IF scenario = "join" THEN UNCHANGED deltaNet
                                              ELSE UNCHANGED snapshotNet

LossySpec ==
  ScenarioInit /\ [][ScenarioNext]_<<scenario, vars>> /\ Fairness
===========================================================================
