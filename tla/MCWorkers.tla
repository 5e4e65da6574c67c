----------------------------- MODULE MCWorkers ------------------------------
(***************************************************************************)
(* Three components that share no state, each on a small instance: the     *)
(* secure supervisor, the structural job worker and the client's mesh      *)
(* worker.  Which of them a behaviour belongs to is chosen at the start;   *)
(* fairness is asked of that one.                                          *)
(***************************************************************************)
EXTENDS SecureServer, ClientMeshes, SchedulerUse

CONSTANTS a, b

VARIABLE part

Near(c) == {n \in Chunks : n \in c - 1..c + 1}

workersVars == <<part, ServerVars, MeshVars, vars>>

WorkersInit ==
  /\ part \in {"server", "meshes", "scheduler"}
  /\ ServerInit /\ MeshInit /\ Init

ServerPart == part = "server" /\ ServerNext /\ UNCHANGED <<part, MeshVars, vars>>
MeshPart == part = "meshes" /\ MeshNext /\ UNCHANGED <<part, ServerVars, vars>>
SchedulerPart == part = "scheduler" /\ Next /\ UNCHANGED <<part, ServerVars, MeshVars>>

WorkersNext == ServerPart \/ MeshPart \/ SchedulerPart

WorkersSpec ==
  /\ WorkersInit /\ [][WorkersNext]_workersVars
  /\ WF_ServerVars(part = "server" /\ TickStep)
  /\ WF_ServerVars(part = "server" /\ Close)
  /\ \A c \in Connections :
       /\ WF_ServerVars(part = "server" /\ AdmissionStep(c) /\ task[c] # "report")
       /\ WF_ServerVars(part = "server" /\ ReceiverStep(c) /\ task[c] # "disconnect")
       /\ SF_ServerVars(part = "server" /\ Report(c))
       /\ SF_ServerVars(part = "server" /\ ReportEnd(c))
  /\ WF_MeshVars(part = "meshes" /\ TakeJob)
  /\ WF_MeshVars(part = "meshes" /\ AnswerJob)
  /\ WF_MeshVars(part = "meshes" /\ Pump)
  /\ WF_vars(part = "scheduler" /\ Worker)
  /\ WF_vars(part = "scheduler" /\ CloseSender)
  /\ WF_vars(part = "scheduler" /\ CloseReceiver)
=============================================================================
