------------------------------ MODULE MCParts -------------------------------
(***************************************************************************)
(* Components that share no state, each on a small instance: the           *)
(* delta inbox under an adversarial network, the TLS identity, the stream  *)
(* of player states, the timer of delta repairs, the falling bodies, a     *)
(* page of refined volume, its decoder, and the storage of the world,      *)
(* uniform and refined.  Which of them a behaviour belongs to is chosen at *)
(* the start.                                                              *)
(***************************************************************************)
EXTENDS InboxFeed, CertificateReload, PlayerStream, RepairTimer,
        FallingBodies, RefinedPage, GeometryWorld, TLC

CONSTANT page1

VARIABLE part

MixedPackets == <<3, 1, 2, 2>>
Down == -1
PageEdges == <<3, 2, 2>>
AroundZero == {-1, 0, 1}
ThreeLeaves == page1 :> 3
ThreeChains ==
  {[from |-> 0, until |-> 8], [from |-> 0, until |-> 12], [from |-> 3, until |-> 18]}

PartsInit ==
  /\ part \in {"inbox", "certificate", "players", "views", "timer",
               "bodies", "page", "decoder", "uniform", "geometry"}
  /\ Init /\ CertInit /\ PlayerInit /\ TimerInit /\ FallingInit
  /\ PageInit /\ GeometryInit
  /\ part # "certificate" => \A c \in Chains : chainFile.from <= c.from /\ chainFile.until <= c.until
  /\ part # "bodies" => solid = {0}
  /\ part # "page" => page = Uniform(Air)

InboxPart == part = "inbox" /\ Next
CertificatePart == part = "certificate" /\ CertNext
PlayersPart == \/ part = "players" /\ PlayerNext /\ other' = other
               \/ part = "views" /\ PlayerNext /\ inputs' = inputs
TimerPart == part = "timer" /\ TimerNext
BodiesPart == part = "bodies" /\ FallingNext
PagePart == \/ part = "page" /\ ReplaceBox
            \/ part = "decoder" /\ ReadRecord

(* The readers of a uniform world, one at a time, and the transactions and *)
(* checkpoints of a refined one.                                           *)
GeometryPart ==
  /\ part \in {"uniform", "geometry"} /\ GeometryNext
  /\ \/ /\ part = "uniform"
        /\ <<prepared, checkpoint, refined>>' = <<prepared, checkpoint, refined>>
        /\ ~(Some(snapshot') /\ Some(observed'))
     \/ /\ part = "geometry"
        /\ <<snapshot, observed>>' = <<snapshot, observed>>
        /\ refined \/ refined'
        /\ refined' \/ ~Some(prepared)

online == <<vars, CertVars, PlayerVars, TimerVars>>
matter == <<FallingVars, PageVars, GeometryVars>>
partsVars == <<part, online, matter>>

(* A part moves; the others keep their state. *)
OnlinePart ==
  \/ InboxPart /\ UNCHANGED <<CertVars, PlayerVars, TimerVars>>
  \/ CertificatePart /\ UNCHANGED <<vars, PlayerVars, TimerVars>>
  \/ PlayersPart /\ UNCHANGED <<vars, CertVars, TimerVars>>
  \/ TimerPart /\ UNCHANGED <<vars, CertVars, PlayerVars>>

MatterPart ==
  \/ BodiesPart /\ UNCHANGED <<PageVars, GeometryVars>>
  \/ PagePart /\ UNCHANGED <<FallingVars, GeometryVars>>
  \/ GeometryPart /\ UNCHANGED <<FallingVars, PageVars>>

PartsNext ==
  /\ UNCHANGED part
  /\ \/ OnlinePart /\ UNCHANGED matter
     \/ MatterPart /\ UNCHANGED online

PartsSpec == PartsInit /\ [][PartsNext]_partsVars
=============================================================================
