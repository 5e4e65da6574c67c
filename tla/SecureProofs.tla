---------------------------- MODULE SecureProofs ----------------------------
(***************************************************************************)
(* Proofs about what a client has to pass on its way into the server, and  *)
(* what ends it: the supervisor with its tasks and channels, the trust in  *)
(* the identity provider, and the TLS identity; for every number of        *)
(* connections, tokens, verifications and chains and every value of the    *)
(* limits and times.                                                       *)
(***************************************************************************)
EXTENDS SecureServer, OidcTrust, CertificateReload, SequenceTheorems, TLAPS
-----------------------------------------------------------------------------
(* The supervisor (SecureServer).                                          *)
(*                                                                         *)
(* A connection is in one place: with its admission task, announced in the *)
(* control channel, or a session.  What makes this inductive is that the   *)
(* channel never announces a connection twice and announces its end only   *)
(* after its task is over, so that whatever a tick drains concerns nobody  *)
(* else.                                                                   *)

Event == [kind: {"admitted", "disconnected"}, of: Connections]

About(kind, c) == [kind |-> kind, of |-> c]

Holds(q, kind, c) == \E i \in DOMAIN q : q[i] = About(kind, c)

AnnouncedOnce(q) ==
  \A i, j \in DOMAIN q : q[i] = q[j] /\ q[i].kind = "admitted" => i = j

(* A peer came by its credential, and while the server runs it is known to *)
(* the supervisor.                                                         *)
PeerFits(c) ==
  /\ Known(c) => peers[c].principal /\ IsActive(c)
  /\ server = "running" /\ Known(c) => c \in sessions
  /\ server = "running" /\ stage = "rest" /\ c \in sessions => Known(c)

(* What the control channel holds of a connection says where its task is.  *)
TaskFits(c) ==
  /\ c \in sessions => task[c] \in {"receive", "disconnect", "over"}
  /\ Holds(control, "admitted", c) => task[c] = "queued"
  /\ Holds(control, "disconnected", c) => task[c] = "over"
  /\ task[c] = "queued" => Holds(control, "admitted", c) \/ server # "running"
  /\ c \in sessions /\ task[c] = "over" =>
       Holds(control, "disconnected", c) \/ ~IsActive(c)

LinkFits(c) ==
  /\ link[c] = "open" => \/ c \in Admitting
                         \/ Holds(control, "admitted", c)
                         \/ c \in sessions /\ task[c] = "receive"
  /\ link[c] = "none" => task[c] = "none"

ConnectionFits(c) == PeerFits(c) /\ TaskFits(c) /\ LinkFits(c)

(* A tick is not interrupted by a shutdown, which leaves nothing open.     *)
ShutdownFits ==
  server # "running" =>
    /\ sessions = {}
    /\ stage \in {"rest", "expire"}
    /\ \A c \in Connections : link[c] \in {"none", "closed"}

ServerInv ==
  /\ ServerTypeOK
  /\ AnnouncedOnce(control)
  /\ ShutdownFits
  /\ \A c \in Connections : ConnectionFits(c)

-----------------------------------------------------------------------------
LEMMA Limits ==
  /\ MaxHandshakes \in Nat \ {0} /\ MaxPeers \in Nat \ {0}
  /\ MaxControl \in Nat \ {0} /\ MaxGameplay \in Nat \ {0}
  /\ MaxBuffered \in Nat \ {0} /\ MaxDrops \in Nat \ {0}
  /\ RateLimit \in Nat \ {0} /\ DatagramsPerTick \in Nat \ {0}
  /\ MaxIdleTicks \in Nat
  BY ServerAssumption DEF ServerAssumption

LEMMA AboutIsEvent ==
  ASSUME NEW kind \in {"admitted", "disconnected"}, NEW c \in Connections
  PROVE  About(kind, c) \in Event
  BY DEF About, Event

LEMMA AboutDiffers ==
  ASSUME NEW k, NEW c, NEW l, NEW d, About(k, c) = About(l, d)
  PROVE  k = l /\ c = d
  BY DEF About

(* What an announcement adds to the channel, and what draining takes.      *)
LEMMA HoldsAfterAppend ==
  ASSUME NEW S, NEW q \in Seq(S), NEW e \in S, NEW k, NEW c
  PROVE  Holds(Append(q, e), k, c) <=> Holds(q, k, c) \/ e = About(k, c)
  <1>1. /\ DOMAIN Append(q, e) = 1..Len(q) + 1 /\ DOMAIN q = 1..Len(q)
        /\ \A i \in 1..Len(q) : Append(q, e)[i] = q[i]
        /\ Append(q, e)[Len(q) + 1] = e
        /\ Len(q) \in Nat
    OBVIOUS
  <1> QED
    BY <1>1 DEF Holds

LEMMA HoldsAfterTail ==
  ASSUME NEW S, NEW q \in Seq(S), q # <<>>, NEW k, NEW c
  PROVE  /\ Holds(Tail(q), k, c) => Holds(q, k, c)
         /\ Holds(q, k, c) /\ Head(q) # About(k, c) => Holds(Tail(q), k, c)
  <1>1. /\ Len(q) \in Nat /\ Len(q) # 0 /\ DOMAIN q = 1..Len(q)
        /\ DOMAIN Tail(q) = 1..Len(q) - 1 /\ Head(q) = q[1]
        /\ \A i \in 1..Len(q) - 1 : Tail(q)[i] = q[i + 1]
    OBVIOUS
  <1>2. ASSUME NEW i \in DOMAIN q, q[i] = About(k, c), q[1] # About(k, c)
        PROVE  i - 1 \in 1..Len(q) - 1 /\ Tail(q)[i - 1] = About(k, c)
    <2>1. i \in 2..Len(q)
      BY <1>1, <1>2
    <2>2. i - 1 \in 1..Len(q) - 1 /\ (i - 1) + 1 = i
      BY <2>1, <1>1
    <2> QED
      BY <2>2, <1>1, <1>2
  <1>3. \A i \in 1..Len(q) - 1 : i + 1 \in 1..Len(q)
    BY <1>1
  <1> QED
    BY <1>1, <1>2, <1>3 DEF Holds

LEMMA OnceAfterAppend ==
  ASSUME NEW q \in Seq(Event), NEW e \in Event, AnnouncedOnce(q),
         e.kind = "admitted" => ~Holds(q, "admitted", e.of)
  PROVE  AnnouncedOnce(Append(q, e))
  <1>1. /\ DOMAIN Append(q, e) = 1..Len(q) + 1 /\ DOMAIN q = 1..Len(q)
        /\ \A i \in 1..Len(q) : Append(q, e)[i] = q[i]
        /\ Append(q, e)[Len(q) + 1] = e
        /\ Len(q) \in Nat
    OBVIOUS
  <1>2. e = About(e.kind, e.of)
    BY DEF About, Event
  <1>3. e.kind = "admitted" => \A i \in 1..Len(q) : q[i] # e
    BY <1>1, <1>2 DEF Holds
  <1>4. \A i \in 1..Len(q) + 1 : i \in 1..Len(q) \/ i = Len(q) + 1
    BY <1>1
  <1> QED
    BY <1>1, <1>3, <1>4 DEF AnnouncedOnce

LEMMA OnceAfterTail ==
  ASSUME NEW q \in Seq(Event), AnnouncedOnce(q), q # <<>>
  PROVE  /\ AnnouncedOnce(Tail(q))
         /\ Head(q).kind = "admitted" => ~Holds(Tail(q), "admitted", Head(q).of)
  <1>1. /\ Len(q) \in Nat /\ Len(q) # 0 /\ DOMAIN q = 1..Len(q)
        /\ DOMAIN Tail(q) = 1..Len(q) - 1 /\ Head(q) = q[1]
        /\ \A i \in 1..Len(q) - 1 : Tail(q)[i] = q[i + 1]
    OBVIOUS
  <1>2. \A i \in 1..Len(q) - 1 : i + 1 \in 1..Len(q) /\ i + 1 # 1
    BY <1>1
  <1>3. AnnouncedOnce(Tail(q))
    <2>1. SUFFICES ASSUME NEW i \in 1..Len(q) - 1, NEW j \in 1..Len(q) - 1,
                          q[i + 1] = q[j + 1], q[i + 1].kind = "admitted"
                   PROVE  i = j
      BY <1>1 DEF AnnouncedOnce
    <2>2. i + 1 = j + 1
      BY <2>1, <1>1, <1>2 DEF AnnouncedOnce
    <2> QED
      BY <2>2
  <1>4. ASSUME Head(q).kind = "admitted", Holds(Tail(q), "admitted", Head(q).of)
        PROVE  FALSE
    <2>1. q[1] \in Event
      BY <1>1
    <2>2. q[1] = About("admitted", q[1].of)
      BY <2>1, <1>1, <1>4 DEF About, Event
    <2>3. PICK i \in 1..Len(q) - 1 : q[i + 1] = q[1]
      BY <2>2, <1>1, <1>4 DEF Holds
    <2>4. 1 \in 1..Len(q)
      BY <1>1
    <2> QED
      BY <2>3, <2>4, <1>1, <1>2, <1>4 DEF AnnouncedOnce
  <1> QED
    BY <1>3, <1>4

LEMMA QueuedIsHeld ==
  \A kind, c : (Queued(kind, c) <=> Holds(control, kind, c))
  BY DEF Queued, Holds, About

-----------------------------------------------------------------------------
LEMMA ServerStart == ServerInit => ServerInv
  <1> SUFFICES ASSUME ServerInit PROVE ServerInv
    OBVIOUS
  <1>1. ServerTypeOK
    <2>1. control \in Seq(Event) /\ Len(control) = 0
      BY DEF ServerInit
    <2>2. gameplay \in Seq(Connections) /\ Len(gameplay) = 0
      BY DEF ServerInit
    <2>3. NoTraffic \in [unread: 0..MaxBuffered, counted: 0..RateLimit,
                         drops: 0..MaxDrops - 1]
      BY Limits DEF NoTraffic
    <2> QED
      BY <2>1, <2>2, <2>3, Limits DEF ServerInit, ServerTypeOK, Event
  <1>2. control = <<>> /\ \A k, c : ~Holds(control, k, c)
    BY DEF ServerInit, Holds
  <1>3. AnnouncedOnce(control)
    BY DEF ServerInit, AnnouncedOnce
  <1>4. ShutdownFits
    BY DEF ServerInit, ShutdownFits
  <1>5. ASSUME NEW c \in Connections PROVE ConnectionFits(c)
    <2>1. ~Known(c) /\ link[c] = "none" /\ task[c] = "none" /\ c \notin sessions
      BY DEF ServerInit, Known, NoSession
    <2> QED
      BY <2>1, <1>2 DEF ConnectionFits, PeerFits, TaskFits, LinkFits
  <1> QED
    BY <1>1, <1>3, <1>4, <1>5 DEF ServerInv

(* A connection that a step does not concern.                              *)
LEMMA OthersFit ==
  ASSUME NEW d \in Connections, ConnectionFits(d),
         link'[d] = link[d], task'[d] = task[d], peers'[d] = peers[d],
         d \in sessions' <=> d \in sessions,
         \A k \in {"admitted", "disconnected"} :
           Holds(control', k, d) <=> Holds(control, k, d),
         server' = server, stage' = "rest" => stage = "rest"
  PROVE  ConnectionFits(d)'
  <1>1. PeerFits(d)'
    BY DEF ConnectionFits, PeerFits, Known, IsActive
  <1>2. TaskFits(d)'
    BY DEF ConnectionFits, TaskFits, IsActive
  <1>3. LinkFits(d)'
    BY DEF ConnectionFits, LinkFits, Admitting
  <1> QED
    BY <1>1, <1>2, <1>3 DEF ConnectionFits

-----------------------------------------------------------------------------
(* Types                                                                   *)

Links == {"none", "incoming", "open", "closed"}
Tasks == {"none", "handshake", "admission", "report", "queued", "receive",
          "disconnect", "over"}
Traffic == [unread: 0..MaxBuffered, counted: 0..RateLimit, drops: 0..MaxDrops - 1]

LEMMA TypesAre ==
  ServerTypeOK <=>
    /\ link \in [Connections -> Links] /\ task \in [Connections -> Tasks]
    /\ unreaped \in Nat
    /\ control \in Seq(Event) /\ Len(control) <= MaxControl
    /\ gameplay \in Seq(Connections) /\ Len(gameplay) <= MaxGameplay
    /\ traffic \in [Connections -> Traffic]
    /\ peers \in [Connections -> PeerStates \cup {NoSession}]
    /\ sessions \subseteq Connections
    /\ stage \in {"rest", "control", "gameplay", "expire"} /\ drained \in Nat
    /\ server \in {"running", "closing", "closed"}
  BY DEF ServerTypeOK, Links, Tasks, Event, Traffic

LEMMA NoTrafficFits == NoTraffic \in Traffic
  BY Limits DEF NoTraffic, Traffic

LEMMA TailFits ==
  ASSUME NEW S, NEW q \in Seq(S), q # <<>>, NEW n \in Nat, Len(q) <= n
  PROVE  Tail(q) \in Seq(S) /\ Len(Tail(q)) <= n /\ Head(q) \in S
  OBVIOUS

LEMMA AppendFits ==
  ASSUME NEW S, NEW q \in Seq(S), NEW n \in Nat, Len(q) < n, NEW e \in S
  PROVE  Append(q, e) \in Seq(S) /\ Len(Append(q, e)) <= n
  OBVIOUS

LEMMA ClientTypes ==
  ASSUME ServerTypeOK, NEW c \in Connections, LoseConnection(c) \/ SendDatagram(c)
  PROVE  ServerTypeOK'
  <1>1. CASE LoseConnection(c)
    BY <1>1 DEF ServerTypeOK, LoseConnection, NetworkOnly
  <1>2. CASE SendDatagram(c)
    <2>1. traffic[c].unread + 1 \in 0..MaxBuffered
      BY <1>2, Limits, SMTT(40) DEF SendDatagram, ServerTypeOK
    <2>2. [traffic[c] EXCEPT !.unread = @ + 1] \in Traffic
      BY <2>1 DEF ServerTypeOK, Traffic
    <2>3. traffic' \in [Connections -> Traffic]
      BY <1>2, <2>2 DEF SendDatagram, ServerTypeOK, Traffic
    <2> QED
      BY <1>2, <2>3 DEF ServerTypeOK, SendDatagram, NetworkOnly, Traffic
  <1> QED
    BY <1>1, <1>2

LEMMA AdmissionTypes ==
  ASSUME ServerTypeOK, NEW c \in Connections, Connect(c) \/ AdmissionStep(c)
  PROVE  ServerTypeOK'
  <1>1. CASE Connect(c)
    BY <1>1 DEF ServerTypeOK, Connect, AdmissionOnly
  <1>2. CASE Shaken(c)
    BY <1>2 DEF ServerTypeOK, Shaken, AdmissionOnly
  <1>3. CASE AdmissionFails(c)
    BY <1>3 DEF ServerTypeOK, AdmissionFails, AdmissionOnly
  <1>4. CASE AdmissionPasses(c)
    BY <1>4 DEF ServerTypeOK, AdmissionPasses, AdmissionOnly
  <1>5. CASE Report(c)
    <2>1. control' = Append(control, About("admitted", c)) /\ Len(control) < MaxControl
      BY <1>5 DEF Report, About
    <2>2. control' \in Seq(Event) /\ Len(control') <= MaxControl
      BY <2>1, AboutIsEvent, AppendFits, Limits, TypesAre
    <2> QED
      BY <1>5, <2>2 DEF ServerTypeOK, Report, AdmissionOnly, Event
  <1> QED
    BY <1>1, <1>2, <1>3, <1>4, <1>5 DEF AdmissionStep

LEMMA ReadingFits ==
  ASSUME ServerTypeOK, NEW c \in Connections, NEW n \in 1..RateLimit,
         NEW m \in 0..MaxDrops - 1, Counts(c, n)
  PROVE  [traffic EXCEPT ![c] = AfterReading(c, n, m)] \in [Connections -> Traffic]
  <1>1. traffic[c].unread - 1 \in 0..MaxBuffered /\ n \in 0..RateLimit
    BY Limits DEF ServerTypeOK, Counts
  <1>2. AfterReading(c, n, m) \in Traffic
    BY <1>1 DEF AfterReading, Traffic
  <1> QED
    BY <1>2, TypesAre

LEMMA ReceiverTypes ==
  ASSUME ServerTypeOK, NEW c \in Connections, ReceiverStep(c)
  PROVE  ServerTypeOK'
  <1>1. CASE Forward(c)
    <2>1. PICK n \in 1..RateLimit :
            Counts(c, n) /\ traffic' = [traffic EXCEPT ![c] = AfterReading(c, n, 0)]
      BY <1>1 DEF Forward
    <2>2. 0 \in 0..MaxDrops - 1
      BY Limits
    <2>3. traffic' \in [Connections -> Traffic]
      BY <2>1, <2>2, ReadingFits
    <2>4. gameplay' \in Seq(Connections) /\ Len(gameplay') <= MaxGameplay
      BY <1>1, AppendFits, Limits DEF Forward, ServerTypeOK
    <2> QED
      BY <1>1, <2>3, <2>4 DEF ServerTypeOK, Forward, ReceiverOnly, Traffic
  <1>2. CASE DropDatagram(c)
    <2>1. PICK n \in 1..RateLimit :
            /\ Counts(c, n)
            /\ traffic' = [traffic EXCEPT ![c] = AfterReading(c, n, @.drops + 1)]
      BY <1>2 DEF DropDatagram
    <2>2. traffic[c].drops + 1 \in 0..MaxDrops - 1
      BY <1>2, Limits, SMTT(40) DEF DropDatagram, ServerTypeOK
    <2>3. traffic' = [traffic EXCEPT ![c] = AfterReading(c, n, traffic[c].drops + 1)]
      BY <2>1 DEF ServerTypeOK
    <2>4. traffic' \in [Connections -> Traffic]
      BY <2>1, <2>2, <2>3, ReadingFits
    <2> QED
      BY <1>2, <2>4 DEF ServerTypeOK, DropDatagram, ReceiverOnly, Traffic
  <1>3. CASE Reprove(c)
    BY <1>3, NoTrafficFits DEF ServerTypeOK, Reprove, Leaves, ReceiverOnly, Traffic
  <1>4. CASE NoticeEnd(c)
    BY <1>4, NoTrafficFits DEF ServerTypeOK, NoticeEnd, Leaves, ReceiverOnly, Traffic
  <1>5. CASE ReportEnd(c)
    <2>1. control' = Append(control, About("disconnected", c)) /\ Len(control) < MaxControl
      BY <1>5 DEF ReportEnd, SendsEnd, About
    <2>2. control' \in Seq(Event) /\ Len(control') <= MaxControl
      BY <2>1, AboutIsEvent, AppendFits, Limits, TypesAre
    <2> QED
      BY <1>5, <2>2 DEF ServerTypeOK, ReportEnd, ReceiverOnly, Event
  <1> QED
    BY <1>1, <1>2, <1>3, <1>4, <1>5 DEF ReceiverStep

LEMMA DrainTypes ==
  ASSUME ServerTypeOK, NEW kind, NEW c \in Connections, Drains(kind, c)
  PROVE  /\ control' \in Seq(Event) /\ Len(control') <= MaxControl
         /\ drained' \in Nat
  <1>1. control \in Seq(Event) /\ control # <<>> /\ control' = Tail(control)
    BY TypesAre DEF Drains
  <1>2. MaxControl \in Nat /\ Len(control) <= MaxControl
    BY Limits, TypesAre
  <1> QED
    BY <1>1, <1>2, TailFits DEF Drains, ServerTypeOK

LEMMA IngestTypes ==
  ASSUME ServerTypeOK, NEW c \in Connections, Ingests(c)
  PROVE  /\ gameplay' \in Seq(Connections) /\ Len(gameplay') <= MaxGameplay
         /\ drained' \in Nat
  <1>1. gameplay \in Seq(Connections) /\ gameplay # <<>> /\ gameplay' = Tail(gameplay)
    BY TypesAre DEF Ingests
  <1>2. MaxGameplay \in Nat /\ Len(gameplay) <= MaxGameplay
    BY Limits, TypesAre
  <1> QED
    BY <1>1, <1>2, TailFits DEF Ingests, ServerTypeOK

LEMMA WithoutFits ==
  ASSUME ServerTypeOK, NEW ended
  PROVE  Without(ended) \in [Connections -> Traffic]
  BY NoTrafficFits, TypesAre DEF Without

LEMMA TickTypes ==
  ASSUME ServerTypeOK, TickStep
  PROVE  ServerTypeOK'
  <1>1. CASE BeginTick
    <2>1. ASSUME NEW c \in Connections, Known(c), peers[c].idle # MaxIdleTicks
          PROVE  [peers[c] EXCEPT !.idle = @ + 1] \in PeerStates
      <3>1. peers[c] \in PeerStates
        BY <2>1, TypesAre DEF Known, NoSession
      <3>2. peers[c].idle + 1 \in 0..MaxIdleTicks
        BY <2>1, <3>1, Limits DEF PeerStates
      <3> QED
        BY <3>1, <3>2 DEF PeerStates
    <2>2. AgedPeers \in [Connections -> PeerStates \cup {NoSession}]
      BY <2>1 DEF AgedPeers
    <2> QED
      BY <1>1, <2>2 DEF ServerTypeOK, BeginTick, tasks
  <1>2. CASE \E c \in Connections : Admit(c)
    <2>1. PICK c \in Connections : Admit(c)
      BY <1>2
    <2>2. Admitted \in PeerStates
      BY Limits DEF Admitted, PeerStates
    <2>3. Drains("admitted", c)
      BY <2>1 DEF Admit
    <2> QED
      BY <2>1, <2>2, <2>3, DrainTypes DEF ServerTypeOK, Admit, Drains, Event
  <1>3. CASE \E c \in Connections : Refuse(c)
    <2>1. PICK c \in Connections : Refuse(c)
      BY <1>3
    <2>2. Drains("admitted", c)
      BY <2>1 DEF Refuse
    <2> QED
      BY <2>1, <2>2, DrainTypes, NoTrafficFits
      DEF ServerTypeOK, Refuse, Drains, Event, Traffic
  <1>4. CASE \E c \in Connections : Disconnect(c)
    <2>1. PICK c \in Connections : Disconnect(c)
      BY <1>4
    <2>2. Drains("disconnected", c)
      BY <2>1 DEF Disconnect
    <2> QED
      BY <2>1, <2>2, DrainTypes DEF ServerTypeOK, Disconnect, Drains, Event
  <1>5. CASE \E c \in Connections : IgnoreDatagram(c)
    <2>1. PICK c \in Connections : IgnoreDatagram(c)
      BY <1>5
    <2>2. Ingests(c)
      BY <2>1 DEF IgnoreDatagram
    <2> QED
      BY <2>1, <2>2, IngestTypes DEF ServerTypeOK, IgnoreDatagram, Ingests, tasks
  <1>6. CASE \E c \in Connections : IngestRequest(c)
    <2>1. PICK c \in Connections : IngestRequest(c)
      BY <1>6
    <2>2. Ingests(c) /\ IsActive(c)
      BY <2>1 DEF IngestRequest
    <2>3. peers[c] \in PeerStates
      BY <2>2, TypesAre DEF IsActive, NoSession
    <2>4. 0 \in 0..MaxIdleTicks
      BY Limits
    <2>5. [peers[c] EXCEPT !.idle = 0] \in PeerStates
      BY <2>3, <2>4 DEF PeerStates
    <2>6. peers' = [peers EXCEPT ![c] = [peers[c] EXCEPT !.idle = 0]]
      BY <2>1, TypesAre DEF IngestRequest
    <2>7. peers' \in [Connections -> PeerStates \cup {NoSession}]
      BY <2>5, <2>6, TypesAre
    <2> QED
      BY <2>1, <2>2, <2>7, IngestTypes DEF ServerTypeOK, IngestRequest, Ingests, tasks
  <1>7. CASE EndControl
    BY <1>7 DEF ServerTypeOK, EndControl, tasks
  <1>8. CASE EndGameplay
    BY <1>8 DEF ServerTypeOK, EndGameplay, tasks
  <1>9. CASE Expire
    BY <1>9, WithoutFits DEF ServerTypeOK, Expire, Traffic
  <1> QED
    BY <1>1, <1>2, <1>3, <1>4, <1>5, <1>6, <1>7, <1>8, <1>9 DEF TickStep

LEMMA TypesStep ==
  ASSUME ServerTypeOK, [ServerNext]_ServerVars
  PROVE  ServerTypeOK'
  <1>1. CASE Reap
    BY <1>1 DEF ServerTypeOK, Reap, AdmissionOnly
  <1>2. CASE Shutdown
    BY <1>2, WithoutFits DEF ServerTypeOK, Shutdown, Traffic
  <1>3. CASE Close
    <2>1. <<>> \in Seq(Event) /\ Len(<<>>) = 0 /\ <<>> \in Seq(Connections)
      OBVIOUS
    <2>2. control' \in Seq(Event) /\ Len(control') <= MaxControl
      BY <1>3, <2>1, Limits DEF Close
    <2>3. gameplay' \in Seq(Connections) /\ Len(gameplay') <= MaxGameplay
      BY <1>3, <2>1, Limits DEF Close
    <2>4. task' \in [Connections -> Tasks] /\ traffic' \in [Connections -> Traffic]
      BY <1>3, WithoutFits DEF Close, Tasks
    <2> QED
      BY <1>3, <2>2, <2>3, <2>4 DEF ServerTypeOK, Close, Traffic, Event, Tasks
  <1>4. CASE UNCHANGED ServerVars
    BY <1>4 DEF ServerTypeOK, ServerVars, tasks
  <1> QED
    BY <1>1, <1>2, <1>3, <1>4, TickTypes, ClientTypes, AdmissionTypes,
       ReceiverTypes DEF ServerNext

-----------------------------------------------------------------------------
(* Connections                                                             *)

LEMMA Disjoint ==
  ASSUME NEW c \in Connections, ConnectionFits(c)
  PROVE  /\ Holds(control, "admitted", c) => c \notin sessions
         /\ ~(Holds(control, "admitted", c) /\ Holds(control, "disconnected", c))
         /\ c \in Admitting => /\ c \notin sessions
                               /\ \A k \in {"admitted", "disconnected"} :
                                    ~Holds(control, k, c)
  BY DEF ConnectionFits, TaskFits, Admitting

(* The steps that leave the channel and the tick alone: what is left to    *)
(* say of one is where the connection is afterwards.                       *)
LEMMA QuietStep ==
  ASSUME ServerInv, NEW c \in Connections,
         UNCHANGED <<control, peers, sessions, stage, server>>,
         \A d \in Connections \ {c} : link'[d] = link[d] /\ task'[d] = task[d],
         ConnectionFits(c)', ShutdownFits', ServerTypeOK'
  PROVE  ServerInv'
  <1>1. ASSUME NEW d \in Connections, d # c PROVE ConnectionFits(d)'
    BY <1>1, OthersFit DEF ServerInv
  <1>2. \A d \in Connections : ConnectionFits(d)'
    BY <1>1
  <1> QED
    BY <1>2 DEF ServerInv, AnnouncedOnce

LEMMA ClientPreserves ==
  ASSUME ServerInv, NEW c \in Connections, LoseConnection(c) \/ SendDatagram(c)
  PROVE  ServerInv'
  <1>1. ServerTypeOK' /\ ConnectionFits(c)
    BY ClientTypes DEF ServerInv
  <1>2. CASE LoseConnection(c)
    <2>1. /\ UNCHANGED <<control, peers, sessions, stage, server, task>>
          /\ link' = [link EXCEPT ![c] = "closed"] /\ c \in DOMAIN link
      BY <1>2 DEF LoseConnection, NetworkOnly, ServerInv, ServerTypeOK
    <2>2. ConnectionFits(c)'
      BY <1>1, <2>1 DEF ConnectionFits, PeerFits, TaskFits, LinkFits, Known, IsActive
    <2>3. ShutdownFits'
      BY <2>1 DEF ServerInv, ShutdownFits, ServerTypeOK
    <2> QED
      BY <1>1, <2>1, <2>2, <2>3, QuietStep
  <1>3. CASE SendDatagram(c)
    <2>1. UNCHANGED <<control, peers, sessions, stage, server, task, link>>
      BY <1>3 DEF SendDatagram, NetworkOnly
    <2>2. ConnectionFits(c)' /\ ShutdownFits'
      BY <1>1, <2>1 DEF ConnectionFits, PeerFits, TaskFits, LinkFits, Known, IsActive,
                        Admitting, ServerInv, ShutdownFits
    <2> QED
      BY <1>1, <2>1, <2>2, QuietStep
  <1> QED
    BY <1>2, <1>3

LEMMA AdmissionPreserves ==
  ASSUME ServerInv, NEW c \in Connections,
         Connect(c) \/ Shaken(c) \/ AdmissionFails(c) \/ AdmissionPasses(c)
  PROVE  ServerInv'
  <1>1. ServerTypeOK' /\ ConnectionFits(c)
    BY AdmissionTypes DEF ServerInv, AdmissionStep
  <1>2. /\ UNCHANGED <<control, peers, sessions, stage, server>>
        /\ task[c] \in {"none", "handshake", "admission"}
        /\ link'[c] \in {"closed", "incoming", "open"}
        /\ link'[c] = "open" => task'[c] \in {"admission", "report"} /\ server = "running"
        /\ link'[c] = "incoming" => server = "running"
        /\ task'[c] \notin {"none", "queued"}
        /\ \A d \in Connections \ {c} : link'[d] = link[d] /\ task'[d] = task[d]
    <2>1. CASE Connect(c)
      BY <1>1, <2>1 DEF Connect, AdmissionOnly, ServerInv, ServerTypeOK,
                        ConnectionFits, LinkFits
    <2>2. CASE Shaken(c)
      BY <2>2 DEF Shaken, AdmissionOnly, ServerInv, ServerTypeOK, ShutdownFits
    <2>3. CASE AdmissionFails(c)
      BY <2>3 DEF AdmissionFails, AdmissionOnly, ServerInv, ServerTypeOK
    <2>4. CASE AdmissionPasses(c)
      BY <2>4 DEF AdmissionPasses, AdmissionOnly, ServerInv, ServerTypeOK, ShutdownFits
    <2> QED
      BY <2>1, <2>2, <2>3, <2>4
  <1>3. c \notin sessions /\ \A k \in {"admitted", "disconnected"} : ~Holds(control, k, c)
    BY <1>1, <1>2 DEF ConnectionFits, TaskFits
  <1>4. ConnectionFits(c)'
    BY <1>1, <1>2, <1>3
    DEF ConnectionFits, PeerFits, TaskFits, LinkFits, Known, IsActive, Admitting
  <1>5. ShutdownFits'
    BY <1>2 DEF ServerInv, ShutdownFits
  <1> QED
    BY <1>1, <1>2, <1>4, <1>5, QuietStep

LEMMA ReceiverPreserves ==
  ASSUME ServerInv, NEW c \in Connections,
         Forward(c) \/ DropDatagram(c) \/ Reprove(c) \/ NoticeEnd(c)
  PROVE  ServerInv'
  <1>1. ServerTypeOK' /\ ConnectionFits(c)
    BY ReceiverTypes DEF ServerInv, ReceiverStep
  <1>2. /\ UNCHANGED <<control, peers, sessions, stage, server>>
        /\ task[c] = "receive"
        /\ \/ task' = task /\ link' = link
           \/ /\ task'[c] = "disconnect" /\ link'[c] = "closed"
              /\ \A d \in Connections \ {c} : link'[d] = link[d] /\ task'[d] = task[d]
    <2>1. CASE Forward(c)
      BY <2>1 DEF Forward, Counts, ReceiverOnly
    <2>2. CASE DropDatagram(c)
      BY <2>2 DEF DropDatagram, Counts, ReceiverOnly
    <2>3. CASE Reprove(c)
      BY <2>3 DEF Reprove, Leaves, Counts, ReceiverOnly, ServerInv, ServerTypeOK
    <2>4. CASE NoticeEnd(c)
      BY <2>4 DEF NoticeEnd, Leaves, ReceiverOnly, ServerInv, ServerTypeOK
    <2> QED
      BY <2>1, <2>2, <2>3, <2>4
  <1>3. \A k \in {"admitted", "disconnected"} : ~Holds(control, k, c)
    BY <1>1, <1>2 DEF ConnectionFits, TaskFits
  <1>4. ConnectionFits(c)'
    BY <1>1, <1>2, <1>3
    DEF ConnectionFits, PeerFits, TaskFits, LinkFits, Known, IsActive, Admitting
  <1>5. ShutdownFits'
    BY <1>2 DEF ServerInv, ShutdownFits
  <1> QED
    BY <1>1, <1>2, <1>4, <1>5, QuietStep

(* The announcements.                                                      *)
LEMMA AnnouncementPreserves ==
  ASSUME ServerInv, NEW c \in Connections, Report(c) \/ ReportEnd(c)
  PROVE  ServerInv'
  <1>1. ServerTypeOK' /\ ConnectionFits(c)
    BY AdmissionTypes, ReceiverTypes DEF ServerInv, AdmissionStep, ReceiverStep
  <1>2. PICK kind \in {"admitted", "disconnected"} :
          /\ control' = Append(control, About(kind, c))
          /\ kind = "admitted" => task[c] = "report" /\ task'[c] = "queued"
          /\ kind = "disconnected" => task[c] = "disconnect" /\ task'[c] = "over"
          /\ UNCHANGED <<peers, sessions, stage, server, link>>
          /\ \A d \in Connections \ {c} : task'[d] = task[d]
    <2>1. CASE Report(c)
      BY <2>1 DEF Report, AdmissionOnly, About, ServerInv, ServerTypeOK
    <2>2. CASE ReportEnd(c)
      BY <2>2 DEF ReportEnd, SendsEnd, ReceiverOnly, About, ServerInv, ServerTypeOK
    <2> QED
      BY <2>1, <2>2
  <1>3. control \in Seq(Event) /\ About(kind, c) \in Event
    BY TypesAre, AboutIsEvent DEF ServerInv
  <1>4. \A k, d : Holds(control', k, d) <=> Holds(control, k, d) \/ About(kind, c) = About(k, d)
    BY <1>2, <1>3, HoldsAfterAppend
  <1>5. \A k, d : About(kind, c) = About(k, d) <=> kind = k /\ c = d
    BY AboutDiffers
  <1>6. \A k \in {"admitted", "disconnected"} : ~Holds(control, k, c)
    BY <1>1, <1>2 DEF ConnectionFits, TaskFits
  <1>7. AnnouncedOnce(control')
    <2>1. About(kind, c).of = c
      BY DEF About
    <2> QED
      BY <1>2, <1>3, <1>6, <2>1, OnceAfterAppend DEF ServerInv
  <1>8. ConnectionFits(c)'
    BY <1>1, <1>2, <1>4, <1>5, <1>6
    DEF ConnectionFits, PeerFits, TaskFits, LinkFits, Known, IsActive, Admitting
  <1>9. ASSUME NEW d \in Connections, d # c PROVE ConnectionFits(d)'
    BY <1>2, <1>4, <1>5, <1>9, OthersFit DEF ServerInv
  <1>10. ShutdownFits'
    BY <1>2 DEF ServerInv, ShutdownFits
  <1>11. \A d \in Connections : ConnectionFits(d)'
    BY <1>8, <1>9
  <1> QED
    BY <1>1, <1>7, <1>10, <1>11 DEF ServerInv, AnnouncedOnce

(* What a tick drains, it drains of a connection whose task waits for it,  *)
(* or is over.                                                             *)
LEMMA Drained ==
  ASSUME ServerInv, NEW kind \in {"admitted", "disconnected"},
         NEW c \in Connections, Drains(kind, c)
  PROVE  /\ Holds(control, kind, c)
         /\ control' = Tail(control) /\ control' \in Seq(Event)
         /\ AnnouncedOnce(control')
         /\ kind = "admitted" => ~Holds(control', "admitted", c)
         /\ \A k, d : Holds(control', k, d) => Holds(control, k, d)
         /\ \A k, d : Holds(control, k, d) /\ (k # kind \/ d # c) => Holds(control', k, d)
         /\ stage = "control" /\ server = "running"
         /\ UNCHANGED <<stage, server>>
  <1>1. /\ control \in Seq(Event) /\ control # <<>> /\ Head(control) = About(kind, c)
        /\ control' = Tail(control)
    BY TypesAre DEF Drains, About, ServerInv
  <1>2. Holds(control, kind, c)
    <2>1. 1 \in DOMAIN control /\ control[1] = Head(control)
      BY <1>1
    <2> QED
      BY <1>1, <2>1 DEF Holds
  <1>3. \A k, d : About(kind, c) = About(k, d) => kind = k /\ c = d
    BY AboutDiffers
  <1>4. /\ \A k, d : Holds(control', k, d) => Holds(control, k, d)
        /\ \A k, d : Holds(control, k, d) /\ (k # kind \/ d # c) => Holds(control', k, d)
    BY <1>1, <1>3, HoldsAfterTail
  <1>5. Head(control).kind = kind /\ Head(control).of = c
    BY <1>1 DEF About
  <1>6. /\ AnnouncedOnce(control')
        /\ kind = "admitted" => ~Holds(control', "admitted", c)
    BY <1>1, <1>5, OnceAfterTail DEF ServerInv
  <1>7. control' \in Seq(Event)
    BY <1>1
  <1>8. stage = "control" /\ server = "running" /\ UNCHANGED <<stage, server>>
    BY DEF Drains, ServerInv, ServerTypeOK, ShutdownFits
  <1> QED
    BY <1>1, <1>2, <1>4, <1>6, <1>7, <1>8

LEMMA DrainPreserves ==
  ASSUME ServerInv, NEW kind \in {"admitted", "disconnected"},
         NEW c \in Connections, Drains(kind, c),
         \A d \in Connections \ {c} :
           /\ link'[d] = link[d] /\ task'[d] = task[d] /\ peers'[d] = peers[d]
           /\ d \in sessions' <=> d \in sessions,
         ConnectionFits(c)', ServerTypeOK'
  PROVE  ServerInv'
  <1>1. ASSUME NEW d \in Connections, d # c PROVE ConnectionFits(d)'
    BY <1>1, Drained, OthersFit DEF ServerInv
  <1>2. ShutdownFits'
    BY Drained DEF ShutdownFits
  <1>3. \A d \in Connections : ConnectionFits(d)'
    BY <1>1
  <1> QED
    BY <1>2, <1>3, Drained DEF ServerInv, AnnouncedOnce

LEMMA AdmitPreserves ==
  ASSUME ServerInv, NEW c \in Connections, Admit(c) \/ Refuse(c)
  PROVE  ServerInv'
  <1>1. Drains("admitted", c) /\ ServerTypeOK' /\ ConnectionFits(c)
    BY TickTypes DEF ServerInv, Admit, Refuse, TickStep
  <1>2. /\ Holds(control, "admitted", c) /\ ~Holds(control', "admitted", c)
        /\ Holds(control', "disconnected", c) => Holds(control, "disconnected", c)
        /\ server = "running" /\ UNCHANGED <<stage, server>> /\ stage = "control"
    BY <1>1, Drained
  <1>3. /\ ~Holds(control', "admitted", c) /\ ~Holds(control', "disconnected", c)
        /\ c \notin sessions /\ ~Known(c)
        /\ task[c] = "queued"
    BY <1>1, <1>2, Disjoint DEF ConnectionFits, PeerFits, TaskFits
  <1>4. CASE Admit(c)
    <2>1. /\ peers'[c] = Admitted /\ task'[c] = "receive" /\ c \in sessions'
          /\ link'[c] = link[c] /\ link[c] # "none"
          /\ \A d \in Connections \ {c} :
               /\ link'[d] = link[d] /\ task'[d] = task[d] /\ peers'[d] = peers[d]
               /\ d \in sessions' <=> d \in sessions
      BY <1>1, <1>3, <1>4 DEF Admit, ServerInv, ServerTypeOK, ConnectionFits, LinkFits
    <2>2. ConnectionFits(c)'
      BY <1>2, <1>3, <2>1
      DEF ConnectionFits, PeerFits, TaskFits, LinkFits, Known, IsActive, Admitted
    <2> QED
      BY <1>1, <2>1, <2>2, DrainPreserves
  <1>5. CASE Refuse(c)
    <2>1. /\ task'[c] = "over" /\ link'[c] = "closed" /\ UNCHANGED <<peers, sessions>>
          /\ \A d \in Connections \ {c} : link'[d] = link[d] /\ task'[d] = task[d]
      BY <1>1, <1>5 DEF Refuse, ServerInv, ServerTypeOK
    <2>2. ConnectionFits(c)'
      BY <1>2, <1>3, <2>1
      DEF ConnectionFits, PeerFits, TaskFits, LinkFits, Known, IsActive
    <2> QED
      BY <1>1, <2>1, <2>2, DrainPreserves
  <1> QED
    BY <1>4, <1>5

LEMMA DisconnectPreserves ==
  ASSUME ServerInv, NEW c \in Connections, Disconnect(c)
  PROVE  ServerInv'
  <1>1. Drains("disconnected", c) /\ ServerTypeOK' /\ ConnectionFits(c)
    BY TickTypes DEF ServerInv, Disconnect, TickStep
  <1>2. /\ Holds(control, "disconnected", c)
        /\ \A k : Holds(control', k, c) => Holds(control, k, c)
        /\ server = "running" /\ UNCHANGED <<stage, server>> /\ stage = "control"
    BY <1>1, Drained
  <1>3. /\ ~Holds(control', "admitted", c) /\ ~Holds(control, "admitted", c)
        /\ task[c] = "over" /\ link[c] # "open" /\ link[c] # "none"
    BY <1>1, <1>2, Disjoint DEF ConnectionFits, TaskFits, LinkFits, Admitting
  <1>4. /\ UNCHANGED <<link, task>>
        /\ \A d \in Connections \ {c} :
             peers'[d] = peers[d] /\ (d \in sessions' <=> d \in sessions)
        /\ ~Known(c)'
        /\ c \in sessions' => c \in sessions
    <2>1. CASE Matches(c)
      BY <1>1, <2>1 DEF Disconnect, Known, NoSession, ServerInv, ServerTypeOK
    <2>2. CASE ~Matches(c)
      BY <1>1, <2>2 DEF Disconnect, Known, ConnectionFits, PeerFits, Matches, IsActive
    <2> QED
      BY <2>1, <2>2
  <1>5. ~IsActive(c)'
    BY <1>4 DEF IsActive, Known
  <1>6. ConnectionFits(c)'
    BY <1>1, <1>2, <1>3, <1>4, <1>5 DEF ConnectionFits, PeerFits, TaskFits, LinkFits
  <1> QED
    BY <1>1, <1>4, <1>6, DrainPreserves

(* The rest of a tick.                                                     *)
LEMMA BeginTickPreserves ==
  ASSUME ServerInv, BeginTick
  PROVE  ServerInv'
  <1>1. /\ UNCHANGED <<link, task, control, sessions, server>>
        /\ stage' = "control" /\ server = "running" /\ ServerTypeOK'
    BY TickTypes DEF BeginTick, tasks, ServerInv, TickStep
  <1>2. ASSUME NEW c \in Connections PROVE ConnectionFits(c)'
    <2>1. \/ ~Known(c)'
          \/ /\ Known(c) /\ peers'[c].principal = peers[c].principal
             /\ peers'[c].session = peers[c].session
      <3>1. peers[c] \in PeerStates \cup {NoSession}
        BY DEF ServerInv, ServerTypeOK
      <3>2. peers'[c] = IF ~Known(c) \/ peers[c].idle = MaxIdleTicks THEN NoSession
                        ELSE [peers[c] EXCEPT !.idle = @ + 1]
        BY DEF BeginTick, AgedPeers
      <3>3. CASE peers'[c] = NoSession
        BY <3>3 DEF Known, NoSession
      <3>4. CASE Known(c) /\ peers'[c] = [peers[c] EXCEPT !.idle = @ + 1]
        <4>1. peers[c] \in PeerStates
          BY <3>1, <3>4 DEF Known, NoSession
        <4> QED
          BY <3>4, <4>1 DEF PeerStates
      <3> QED
        BY <3>2, <3>3, <3>4
    <2>2. ConnectionFits(c)
      BY DEF ServerInv
    <2>3. PeerFits(c)'
      BY <1>1, <2>1, <2>2 DEF ConnectionFits, PeerFits, Known, IsActive
    <2>4. TaskFits(c)' /\ LinkFits(c)'
      BY <1>1, <2>1, <2>2 DEF ConnectionFits, TaskFits, LinkFits, Known, IsActive, Admitting
    <2> QED
      BY <2>3, <2>4 DEF ConnectionFits
  <1>3. ShutdownFits'
    BY <1>1 DEF ShutdownFits
  <1> QED
    BY <1>1, <1>2, <1>3 DEF ServerInv, AnnouncedOnce

LEMMA IngestPreserves ==
  ASSUME ServerInv, NEW c \in Connections, IgnoreDatagram(c) \/ IngestRequest(c)
  PROVE  ServerInv'
  <1>1. ServerTypeOK' /\ ConnectionFits(c)
    BY TickTypes DEF ServerInv, TickStep
  <1>2. /\ UNCHANGED <<link, task, control, sessions, stage, server>>
        /\ peers'[c].principal = peers[c].principal
        /\ peers'[c].session = peers[c].session
        /\ \A d \in Connections \ {c} : peers'[d] = peers[d]
    BY ZenonT(40) DEF IgnoreDatagram, IngestRequest, Ingests, tasks, ServerInv, ServerTypeOK,
           IsActive, PeerStates, NoSession
  <1>3. ConnectionFits(c)'
    BY <1>1, <1>2
    DEF ConnectionFits, PeerFits, TaskFits, LinkFits, Known, IsActive, Admitting
  <1>4. ASSUME NEW d \in Connections, d # c PROVE ConnectionFits(d)'
    BY <1>2, <1>4, OthersFit DEF ServerInv
  <1>5. ShutdownFits'
    BY <1>2 DEF ServerInv, ShutdownFits
  <1>6. \A d \in Connections : ConnectionFits(d)'
    BY <1>3, <1>4
  <1> QED
    BY <1>1, <1>2, <1>5, <1>6 DEF ServerInv, AnnouncedOnce

LEMMA EndStagePreserves ==
  ASSUME ServerInv, EndControl \/ EndGameplay
  PROVE  ServerInv'
  <1>1. /\ UNCHANGED <<link, task, control, peers, sessions, server>>
        /\ stage' \in {"gameplay", "expire"} /\ stage \notin {"rest", "expire"}
        /\ ServerTypeOK'
    BY TickTypes DEF EndControl, EndGameplay, tasks, ServerInv, TickStep
  <1>2. ASSUME NEW d \in Connections PROVE ConnectionFits(d)'
    BY <1>1, OthersFit DEF ServerInv
  <1>3. ShutdownFits'
    BY <1>1 DEF ServerInv, ShutdownFits
  <1> QED
    BY <1>1, <1>2, <1>3 DEF ServerInv, AnnouncedOnce

LEMMA ExpirePreserves ==
  ASSUME ServerInv, Expire
  PROVE  ServerInv'
  <1>1. /\ UNCHANGED <<control, peers, server>> /\ stage' = "rest" /\ ServerTypeOK'
        /\ sessions' = sessions \ Expired
        /\ \A c \in Connections :
             /\ c \in Expired => link'[c] = "closed" /\ task'[c] = "over"
             /\ c \notin Expired => link'[c] = link[c] /\ task'[c] = task[c]
        /\ \A c : c \in Expired <=> c \in sessions /\ ~IsActive(c)
    BY TickTypes DEF Expire, ServerInv, TickStep, Expired
  <1>2. ASSUME NEW c \in Connections PROVE ConnectionFits(c)'
    <2>1. ConnectionFits(c)
      BY DEF ServerInv
    <2>2. PeerFits(c)'
      BY <1>1, <2>1 DEF ConnectionFits, PeerFits, Known, IsActive
    <2>3. TaskFits(c)'
      BY <1>1, <2>1, Disjoint DEF ConnectionFits, TaskFits, IsActive
    <2>4. LinkFits(c)'
      BY <1>1, <2>1 DEF ConnectionFits, LinkFits, Admitting
    <2> QED
      BY <2>2, <2>3, <2>4 DEF ConnectionFits
  <1>3. ShutdownFits'
    BY <1>1 DEF ServerInv, ShutdownFits
  <1> QED
    BY <1>1, <1>2, <1>3 DEF ServerInv, AnnouncedOnce

LEMMA ShutdownPreserves ==
  ASSUME ServerInv, Shutdown
  PROVE  ServerInv'
  <1>1. /\ UNCHANGED <<control, peers, stage>> /\ server' = "closing"
        /\ stage \in {"rest", "expire"} /\ server = "running"
        /\ sessions' = {} /\ ServerTypeOK'
        /\ \A c \in Connections :
             /\ link'[c] = IF link[c] = "none" THEN "none" ELSE "closed"
             /\ task'[c] = IF c \in sessions THEN "over" ELSE task[c]
    BY TypesStep DEF Shutdown, ServerInv, ServerNext
  <1>2. ASSUME NEW c \in Connections PROVE ConnectionFits(c)'
    <2>1. ConnectionFits(c)
      BY DEF ServerInv
    <2>2. PeerFits(c)'
      BY <1>1, <2>1 DEF ConnectionFits, PeerFits, Known, IsActive
    <2>3. TaskFits(c)'
      BY <1>1, <2>1, Disjoint DEF ConnectionFits, TaskFits
    <2>4. LinkFits(c)'
      BY <1>1, <2>1 DEF ConnectionFits, LinkFits, TaskFits
    <2> QED
      BY <2>2, <2>3, <2>4 DEF ConnectionFits
  <1>3. ShutdownFits'
    BY <1>1 DEF ShutdownFits
  <1> QED
    BY <1>1, <1>2, <1>3 DEF ServerInv, AnnouncedOnce

LEMMA ClosePreserves ==
  ASSUME ServerInv, Close
  PROVE  ServerInv'
  <1>1. /\ UNCHANGED <<link, sessions, stage>> /\ server' = "closed"
        /\ server = "closing" /\ control' = <<>> /\ ServerTypeOK'
        /\ \A c \in Connections :
             /\ peers'[c] = NoSession
             /\ task'[c] = IF task[c] = "none" THEN "none" ELSE "over"
    BY TypesStep DEF Close, ServerInv, ServerNext
  <1>2. sessions = {} /\ stage \in {"rest", "expire"} /\
        \A c \in Connections : link[c] \in {"none", "closed"}
    BY <1>1 DEF ServerInv, ShutdownFits
  <1>3. AnnouncedOnce(control') /\ \A k, c : ~Holds(control', k, c)
    BY <1>1 DEF AnnouncedOnce, Holds
  <1>4. ASSUME NEW c \in Connections PROVE ConnectionFits(c)'
    <2>1. link[c] = "none" => task[c] = "none"
      BY DEF ServerInv, ConnectionFits, LinkFits
    <2>2. ~Known(c)'
      BY <1>1 DEF Known, NoSession
    <2> QED
      BY <1>1, <1>2, <1>3, <2>1, <2>2 DEF ConnectionFits, PeerFits, TaskFits, LinkFits
  <1>5. ShutdownFits'
    BY <1>1, <1>2 DEF ShutdownFits
  <1> QED
    BY <1>1, <1>3, <1>4, <1>5 DEF ServerInv, AnnouncedOnce

LEMMA ServerStep ==
  ASSUME ServerInv, [ServerNext]_ServerVars
  PROVE  ServerInv'
  <1>1. ASSUME UNCHANGED <<link, task, control, peers, sessions, stage, server>>
        PROVE  ServerInv'
    <2>1. ServerTypeOK'
      BY TypesStep DEF ServerInv
    <2>2. \A c \in Connections : ConnectionFits(c)'
      BY <1>1, OthersFit DEF ServerInv
    <2> QED
      BY <1>1, <2>1, <2>2 DEF ServerInv, ShutdownFits, AnnouncedOnce
  <1>2. CASE Reap
    BY <1>1, <1>2 DEF Reap, AdmissionOnly
  <1>3. CASE UNCHANGED ServerVars
    BY <1>1, <1>3 DEF ServerVars, tasks
  <1>4. CASE TickStep
    BY <1>4, BeginTickPreserves, AdmitPreserves, DisconnectPreserves,
       IngestPreserves, EndStagePreserves, ExpirePreserves DEF TickStep
  <1>5. ASSUME NEW c \in Connections,
               \/ LoseConnection(c) \/ SendDatagram(c) \/ Connect(c)
               \/ AdmissionStep(c) \/ ReceiverStep(c)
        PROVE  ServerInv'
    BY <1>5, ClientPreserves, AdmissionPreserves, ReceiverPreserves,
       AnnouncementPreserves DEF AdmissionStep, ReceiverStep
  <1> QED
    BY <1>2, <1>3, <1>4, <1>5, ShutdownPreserves, ClosePreserves DEF ServerNext

-----------------------------------------------------------------------------
THEOREM ServerInvariant == ServerSpec => []ServerInv
  BY ServerStart, ServerStep, PTL DEF ServerSpec

(* Between two ticks the supervisor and the core agree on who has a        *)
(* session, and no connection is kept open by nobody                       *)
(* (secure_server.rs: accept_connections, drain_control_events,            *)
(* expire_core_sessions).                                                  *)
THEOREM SupervisorMatchesCore == ServerSpec => []SessionsMatchCore
  <1>1. ASSUME ServerInv PROVE SessionsMatchCore
    <2>1. SUFFICES ASSUME NEW c \in Connections
                   PROVE
      /\ server = "running" /\ stage = "rest" =>
           IF c \in sessions THEN peers[c].principal /\ IsActive(c) ELSE ~Known(c)
      /\ link[c] = "open" => \/ c \in Admitting
                             \/ Queued("admitted", c)
                             \/ c \in sessions /\ task[c] = "receive"
      /\ task[c] = "queued" => Queued("admitted", c) \/ server # "running"
      /\ c \in sessions /\ task[c] = "over" => Queued("disconnected", c) \/ ~IsActive(c)
      BY DEF SessionsMatchCore
    <2>2. ConnectionFits(c)
      BY <1>1 DEF ServerInv
    <2> QED
      BY <2>2, QueuedIsHeld DEF ConnectionFits, PeerFits, TaskFits, LinkFits
  <1> QED
    BY <1>1, ServerInvariant, PTL

-----------------------------------------------------------------------------
(* Trust in the identity provider (OidcTrust): a token admits one session, *)
(* and a withdrawn key is not trusted for ever.                            *)

Progress == [at: {"idle", "lookup", "examine", "consume"},
             token: {"none"} \cup Tokens, checked: Nat,
             key: {0} \cup Generations, read: Nat]

Refreshes == [at: {"none", "rest", "fetch", "answered", "parse", "extend"},
              due: Int, doc: {0} \cup Generations, asked: Nat, until: Nat]

RefreshFits ==
  /\ refresh \in Refreshes
  /\ refresh.at \in {"answered", "parse", "extend"} => refresh.doc \in Generations

OidcTypes ==
  /\ now \in Nat \ {0}
  /\ published \in Generations
  /\ withdrawn \in [Generations -> Nat]
  /\ keys \in Generations
  /\ trustDeadline \in Nat
  /\ RefreshFits
  /\ service \in {"starting", "serving", "stopped"}
  /\ issued \in [Tokens -> [expires: Nat, signer: {0} \cup Generations]]
  /\ replay \in [Tokens -> Nat]
  /\ verify \in [Attempts -> Progress]
  /\ accepted \in [Tokens -> Nat]
  /\ \A a \in Attempts : verify[a].at # "idle" => verify[a].token \in Tokens

\* A verification that has read the clock ends before its token expires.
ReadInTime ==
  \A a \in Attempts : verify[a].at = "consume" =>
    /\ verify[a].read <= now /\ now <= verify[a].read + MaxDelay
    /\ verify[a].read + MinRemaining <= issued[verify[a].token].expires + Skew

\* What is verified or was accepted was issued.
KnownIsIssued ==
  /\ \A a \in Attempts : verify[a].at # "idle" => issued[verify[a].token] # NotIssued
  /\ \A t \in Tokens : replay[t] # 0 \/ accepted[t] # 0 => issued[t] # NotIssued

\* The cache retains an accepted token until it has expired.
RetainedOrExpired ==
  \A t \in Tokens :
    /\ replay[t] # 0 => replay[t] = issued[t].expires + Skew
    /\ accepted[t] # 0 => replay[t] # 0 \/ issued[t].expires + Skew <= now

UseInv == OidcTypes /\ ReadInTime /\ KnownIsIssued /\ RetainedOrExpired /\ TokenUsedOnce

-----------------------------------------------------------------------------
(* The steps that touch neither the tokens nor their verifications         *)

LEMMA GraceIsPositive == OidcAssumption => TrustGrace \in Nat \ {0}
  <1> SUFFICES ASSUME OidcAssumption PROVE TrustGrace \in Nat \ {0}
    OBVIOUS
  <1>1. GraceIntervals \in Nat \ {0} /\ Interval \in Nat \ {0}
    BY DEF OidcAssumption
  <1>2. \A x, y \in Nat \ {0} : x * y \in Nat \ {0}
    BY SMT
  <1> QED
    BY <1>1, <1>2 DEF TrustGrace

LEMMA NextDueIsInt ==
  ASSUME OidcAssumption, OidcTypes
  PROVE  NextDue \in Int
  <1>1. refresh.due \in Int /\ now \in Int /\ Interval \in Nat \ {0}
    BY DEF OidcTypes, RefreshFits, Refreshes, OidcAssumption
  <1>2. \A x \in Int, e \in Nat \ {0} : x \div e \in Int
    OBVIOUS
  <1>3. PICK q \in Int : q = (now - refresh.due) \div Interval
    BY <1>1, <1>2
  <1>4. Interval * (q + 1) \in Int
    BY <1>1, SMT
  <1> QED
    BY <1>1, <1>3, <1>4 DEF NextDue

RefreshStep ==
  StartRefresh \/ Answer \/ RefreshFails \/ Receive \/ InstallKeys \/ ExtendDeadline

LEMMA AtRestFits ==
  ASSUME RefreshFits
  PROVE  /\ AtRest \in Refreshes /\ AtRest.at = "rest"
         /\ NoRefresh \in Refreshes /\ NoRefresh.at = "none"
  <1>1. refresh.due \in Int
    BY DEF RefreshFits, Refreshes
  <1>2. NoRefresh \in Refreshes /\ NoRefresh.at = "none"
    BY DEF NoRefresh, Refreshes
  <1>3. AtRest \in Refreshes /\ AtRest.at = "rest"
    BY <1>1, <1>2 DEF AtRest, Refreshes
  <1> QED
    BY <1>2, <1>3

LEMMA RefreshTypes ==
  ASSUME OidcAssumption, OidcTypes, RefreshStep
  PROVE  OidcTypes'
  <1>1. RefreshOnly
    BY DEF RefreshStep, StartRefresh, Answer, RefreshFails, Receive, InstallKeys, ExtendDeadline
  <1> SUFFICES RefreshFits' /\ keys' \in Generations /\ trustDeadline' \in Nat
               /\ service' \in {"starting", "serving", "stopped"}
    BY <1>1 DEF OidcTypes, RefreshOnly, issuer
  <1>2. /\ RefreshFits /\ keys \in Generations /\ trustDeadline \in Nat /\ now \in Nat
        /\ service \in {"starting", "serving", "stopped"}
        /\ published \in Generations
    BY DEF OidcTypes
  <1> USE DEF RefreshFits
  <1>3. CASE StartRefresh
    BY <1>2, <1>3, NextDueIsInt DEF StartRefresh, Refreshes
  <1>4. CASE Answer
    BY <1>2, <1>4 DEF Answer, Refreshes
  <1>5. CASE RefreshFails
    BY <1>2, <1>5, AtRestFits DEF RefreshFails
  <1>6. CASE Receive
    <2>1. now + TrustGrace \in Nat
      BY <1>2, GraceIsPositive
    <2> QED
      BY <1>2, <1>6, <2>1 DEF Receive, Refreshes
  <1>7. CASE InstallKeys
    BY <1>2, <1>7 DEF InstallKeys, Refreshes
  <1>8. CASE ExtendDeadline
    BY <1>2, <1>8, AtRestFits DEF ExtendDeadline, Refreshes
  <1> QED
    BY <1>3, <1>4, <1>5, <1>6, <1>7, <1>8 DEF RefreshStep

(* The state of one verification changes, to one of these.                 *)
LEMMA VerifyStates ==
  ASSUME OidcAssumption, OidcTypes, NEW a \in Attempts
  PROVE  /\ NoAttempt \in Progress /\ NoAttempt.at = "idle"
         /\ \A t \in Tokens :
              LET v == [NoAttempt EXCEPT !.at = "lookup", !.token = t, !.checked = now]
              IN  v \in Progress /\ v.at = "lookup" /\ v.token = t /\ v.checked = now
         /\ LET v == [verify[a] EXCEPT !.at = "examine", !.key = keys]
            IN  /\ v \in Progress /\ v.at = "examine" /\ v.token = verify[a].token
                /\ v.checked = verify[a].checked /\ v.key = keys
         /\ LET v == [verify[a] EXCEPT !.at = "consume", !.read = now]
            IN  /\ v \in Progress /\ v.at = "consume" /\ v.token = verify[a].token
                /\ v.checked = verify[a].checked /\ v.key = verify[a].key /\ v.read = now
  <1>1. now \in Nat /\ keys \in Generations /\ verify[a] \in Progress
    BY DEF OidcTypes
  <1>2. NoAttempt \in Progress /\ NoAttempt.at = "idle"
    BY DEF NoAttempt, Progress
  <1>3. ASSUME NEW t \in Tokens
        PROVE  LET v == [NoAttempt EXCEPT !.at = "lookup", !.token = t, !.checked = now]
               IN  v \in Progress /\ v.at = "lookup" /\ v.token = t /\ v.checked = now
    BY <1>1, <1>2 DEF Progress
  <1>4. LET v == [verify[a] EXCEPT !.at = "examine", !.key = keys]
        IN  /\ v \in Progress /\ v.at = "examine" /\ v.token = verify[a].token
            /\ v.checked = verify[a].checked /\ v.key = keys
    BY <1>1 DEF Progress
  <1>5. LET v == [verify[a] EXCEPT !.at = "consume", !.read = now]
        IN  /\ v \in Progress /\ v.at = "consume" /\ v.token = verify[a].token
            /\ v.checked = verify[a].checked /\ v.key = verify[a].key /\ v.read = now
    BY <1>1 DEF Progress
  <1> QED
    BY <1>2, <1>3, <1>4, <1>5

(* What one step of the verification of a makes of it.                     *)
LEMMA VerifyStep ==
  ASSUME OidcAssumption, OidcTypes, NEW a \in Attempts,
         (\E t \in Tokens : CheckDeadline(a, t)) \/ LookUpKey(a) \/ Examine(a) \/ Consume(a)
  PROVE  /\ VerifyOnly
         /\ verify' \in [Attempts -> Progress]
         /\ \A b \in Attempts \ {a} : verify'[b] = verify[b]
         /\ \/ verify'[a].at = "idle"
            \/ /\ verify'[a].at = "lookup" /\ verify'[a].token \in Tokens
               /\ issued[verify'[a].token] # NotIssued
               /\ verify'[a].checked = now /\ now < trustDeadline
               /\ service = "serving"
            \/ /\ verify[a].at = "lookup" /\ verify'[a].at = "examine"
               /\ verify'[a].token = verify[a].token
               /\ verify'[a].checked = verify[a].checked /\ verify'[a].key = keys
            \/ /\ verify[a].at = "examine" /\ verify'[a].at = "consume"
               /\ IsCurrent(verify[a].token)
               /\ verify'[a].token = verify[a].token
               /\ verify'[a].checked = verify[a].checked
               /\ verify'[a].key = verify[a].key /\ verify'[a].read = now
  <1>1. verify \in [Attempts -> Progress]
    BY DEF OidcTypes
  <1>2. \A v \in Progress : Becomes(a, v) =>
          /\ verify' \in [Attempts -> Progress] /\ verify'[a] = v
          /\ \A b \in Attempts \ {a} : verify'[b] = verify[b]
    BY <1>1 DEF Becomes
  <1>3. CASE \E t \in Tokens : CheckDeadline(a, t)
    <2>1. PICK t \in Tokens : CheckDeadline(a, t)
      BY <1>3
    <2> DEFINE v == [NoAttempt EXCEPT !.at = "lookup", !.token = t, !.checked = now]
    <2>2. v \in Progress /\ v.at = "lookup" /\ v.token = t /\ v.checked = now
      BY VerifyStates
    <2>3. Becomes(a, v) /\ VerifyOnly /\ issued[t] # NotIssued /\ now < trustDeadline
          /\ service = "serving"
      BY <2>1 DEF CheckDeadline
    <2> HIDE DEF v
    <2> QED
      BY <1>2, <2>2, <2>3
  <1>4. CASE LookUpKey(a)
    <2> DEFINE v == [verify[a] EXCEPT !.at = "examine", !.key = keys]
    <2>1. /\ v \in Progress /\ v.at = "examine" /\ v.token = verify[a].token
          /\ v.checked = verify[a].checked /\ v.key = keys
          /\ NoAttempt \in Progress /\ NoAttempt.at = "idle"
      BY VerifyStates
    <2>2. (Becomes(a, v) \/ Becomes(a, NoAttempt)) /\ VerifyOnly /\ verify[a].at = "lookup"
      BY <1>4 DEF LookUpKey
    <2> HIDE DEF v
    <2> QED
      BY <1>2, <2>1, <2>2
  <1>5. CASE Examine(a)
    <2> DEFINE v == [verify[a] EXCEPT !.at = "consume", !.read = now]
    <2>1. /\ v \in Progress /\ v.at = "consume" /\ v.token = verify[a].token
          /\ v.checked = verify[a].checked /\ v.key = verify[a].key /\ v.read = now
          /\ NoAttempt \in Progress /\ NoAttempt.at = "idle"
      BY VerifyStates
    <2>2. /\ (Becomes(a, v) /\ IsCurrent(verify[a].token)) \/ Becomes(a, NoAttempt)
          /\ VerifyOnly /\ verify[a].at = "examine"
      BY <1>5 DEF Examine
    <2> HIDE DEF v
    <2> QED
      BY <1>2, <2>1, <2>2
  <1>6. CASE Consume(a)
    BY <1>2, <1>6, VerifyStates DEF Consume
  <1> QED
    BY <1>3, <1>4, <1>5, <1>6

(* What is accepted, and what the cache retains afterwards.                *)
LEMMA ConsumeStep ==
  ASSUME OidcAssumption, UseInv, NEW a \in Attempts, Consume(a)
  PROVE  /\ replay' \in [Tokens -> Nat] /\ accepted' \in [Tokens -> Nat]
         /\ \A u \in Tokens :
              /\ replay'[u] # 0 => replay'[u] = issued[u].expires + Skew
              /\ replay'[u] # 0 \/ accepted'[u] # 0 => issued[u] # NotIssued
              /\ accepted'[u] # 0 => replay'[u] # 0 \/ issued[u].expires + Skew <= now
              /\ accepted'[u] <= 1
  <1> DEFINE t == verify[a].token
             cache == Retained(a)
             fresh == t \notin Entries(cache) /\ Cardinality(Entries(cache)) < MaxReplay
  <1>1. /\ verify[a].at = "consume"
        /\ replay' = IF fresh THEN [cache EXCEPT ![t] = RetainedUntil(t)] ELSE cache
        /\ accepted' = IF fresh THEN [accepted EXCEPT ![t] = @ + 1] ELSE accepted
    BY DEF Consume
  <1>2. /\ now \in Nat /\ issued \in [Tokens -> [expires: Nat, signer: {0} \cup Generations]]
        /\ replay \in [Tokens -> Nat] /\ accepted \in [Tokens -> Nat]
        /\ verify[a].read \in Nat /\ t \in Tokens
        /\ Skew \in Nat \ {0} /\ MinRemaining \in Nat /\ MaxDelay \in Nat
        /\ MaxDelay < MinRemaining
    BY <1>1 DEF UseInv, OidcTypes, Progress, OidcAssumption
  <1>3. /\ verify[a].read <= now /\ now <= verify[a].read + MaxDelay
        /\ verify[a].read + MinRemaining <= issued[t].expires + Skew
        /\ issued[t] # NotIssued
    BY <1>1 DEF UseInv, ReadInTime, KnownIsIssued
  <1>4. \A u \in Tokens : issued[u].expires + Skew \in Nat \ {0}
    BY <1>2
  <1>5. /\ cache \in [Tokens -> Nat]
        /\ \A u \in Tokens :
             /\ cache[u] # 0 => cache[u] = replay[u]
             /\ cache[u] = 0 => replay[u] <= verify[a].read
    BY <1>2 DEF Retained
  <1>6. ASSUME NEW u \in Tokens
        PROVE  /\ cache[u] # 0 => cache[u] = issued[u].expires + Skew
               /\ cache[u] # 0 \/ accepted[u] # 0 => issued[u] # NotIssued
               /\ accepted[u] # 0 => cache[u] # 0 \/ issued[u].expires + Skew <= now
               /\ accepted[u] <= 1
    <2>1. /\ replay[u] # 0 => replay[u] = issued[u].expires + Skew
          /\ accepted[u] # 0 => replay[u] # 0 \/ issued[u].expires + Skew <= now
          /\ replay[u] # 0 \/ accepted[u] # 0 => issued[u] # NotIssued
          /\ accepted[u] <= 1
      BY DEF UseInv, RetainedOrExpired, KnownIsIssued, TokenUsedOnce
    <2>2. replay[u] \in Nat /\ accepted[u] \in Nat /\ cache[u] \in Nat
      BY <1>2, <1>5
    <2>3. cache[u] # 0 => cache[u] = replay[u]
      BY <1>5
    <2>4. cache[u] = 0 => replay[u] <= verify[a].read
      BY <1>5
    <2> HIDE DEF cache
    <2> QED
      BY <1>2, <1>3, <1>4, <2>1, <2>2, <2>3, <2>4
  <1>7. fresh => accepted[t] = 0
    <2> SUFFICES ASSUME fresh, accepted[t] # 0 PROVE FALSE
      OBVIOUS
    <2>1. cache[t] = 0
      BY <1>2 DEF Entries
    <2>2. issued[t].expires + Skew <= now
      BY <1>2, <1>6, <2>1
    <2>3. issued[t].expires + Skew \in Nat
      BY <1>2, <1>4
    <2> QED
      BY <1>2, <1>3, <2>2, <2>3
  <1>8. RetainedUntil(t) = issued[t].expires + Skew
    BY DEF RetainedUntil
  <1> HIDE DEF cache, fresh, t
  <1>9. CASE fresh
    <2>1. replay' = [cache EXCEPT ![t] = RetainedUntil(t)] /\ accepted' = [accepted EXCEPT ![t] = @ + 1]
      BY <1>1, <1>9
    <2>2. replay' \in [Tokens -> Nat] /\ accepted' \in [Tokens -> Nat]
      BY <1>2, <1>4, <1>5, <1>8, <2>1
    <2>3. ASSUME NEW u \in Tokens
          PROVE  \/ u # t /\ replay'[u] = cache[u] /\ accepted'[u] = accepted[u]
                 \/ /\ u = t /\ replay'[t] = issued[t].expires + Skew
                    /\ accepted'[t] = accepted[t] + 1
      BY <1>2, <1>5, <1>8, <2>1
    <2>4. ASSUME NEW u \in Tokens
          PROVE  /\ replay'[u] # 0 => replay'[u] = issued[u].expires + Skew
                 /\ replay'[u] # 0 \/ accepted'[u] # 0 => issued[u] # NotIssued
                 /\ accepted'[u] # 0 => replay'[u] # 0 \/ issued[u].expires + Skew <= now
                 /\ accepted'[u] <= 1
      <3>1. CASE u # t
        BY <1>6, <2>3, <3>1
      <3>2. CASE u = t
        <4>1. replay'[u] = issued[u].expires + Skew /\ accepted'[u] = 1
          BY <1>7, <1>9, <2>3, <3>2
        <4> QED
          BY <1>3, <1>4, <3>2, <4>1
      <3> QED
        BY <3>1, <3>2
    <2> QED
      BY <2>2, <2>4
  <1>10. CASE ~fresh
    BY <1>1, <1>2, <1>5, <1>6, <1>10
  <1> QED
    BY <1>9, <1>10

LEMMA UseInvInit == OidcAssumption /\ OidcInit => UseInv
  <1> SUFFICES ASSUME OidcAssumption, OidcInit PROVE UseInv
    OBVIOUS
  <1>1. /\ 1 \in Generations
        /\ 1 + StaticValidity \in Nat
        /\ 1 + Interval \in Int
    BY DEF OidcAssumption, Generations
  <1>2. NoAttempt \in Progress /\ NoAttempt.at = "idle"
    BY DEF NoAttempt, Progress
  <1>3. NoRefresh \in Refreshes /\ NoRefresh.at = "none"
    BY DEF NoRefresh, Refreshes
  <1>4. NotIssued \in [expires: Nat, signer: {0} \cup Generations]
    BY DEF NotIssued
  <1>5. RefreshFits
    BY <1>1, <1>3 DEF OidcInit, RefreshFits, Refreshes
  <1>6. /\ verify = [a \in Attempts |-> NoAttempt] /\ issued = [t \in Tokens |-> NotIssued]
        /\ replay = [t \in Tokens |-> 0] /\ accepted = [t \in Tokens |-> 0]
        /\ service \in {"starting", "serving"} /\ now = 1 /\ published = 1 /\ keys = 1
        /\ trustDeadline = 1 + StaticValidity /\ withdrawn = [g \in Generations |-> 0]
    BY DEF OidcInit
  <1>7. \A a \in Attempts : verify[a].at = "idle"
    BY <1>2, <1>6
  <1>8. \A t \in Tokens : replay[t] = 0 /\ accepted[t] = 0
    BY <1>6
  <1>9. OidcTypes
    BY <1>1, <1>2, <1>4, <1>5, <1>6, <1>7 DEF OidcTypes
  <1> QED
    BY <1>7, <1>8, <1>9 DEF UseInv, ReadInTime, KnownIsIssued, RetainedOrExpired, TokenUsedOnce

LEMMA UseInvStep ==
  ASSUME OidcAssumption, UseInv, [OidcNext]_OidcVars
  PROVE  UseInv'
  <1> USE DEF UseInv
  <1>1. CASE UNCHANGED OidcVars
    BY <1>1 DEF OidcVars, issuer, trust, OidcTypes, RefreshFits, ReadInTime, KnownIsIssued,
       RetainedOrExpired, TokenUsedOnce
  <1>2. CASE Elapse
    <2>1. /\ now' = now + 1 /\ now \in Nat \ {0}
          /\ \A a \in Attempts : verify[a].at = "consume" => now < verify[a].read + MaxDelay
          /\ UNCHANGED <<issuer, trust, replay, verify, accepted>>
      BY <1>2 DEF Elapse, OidcTypes
    <2>2. MaxDelay \in Nat /\ Skew \in Nat
      BY DEF OidcAssumption
    <2>3. OidcTypes'
      BY <2>1 DEF OidcTypes, RefreshFits, issuer, trust
    <2>4. ReadInTime'
      <3> SUFFICES ASSUME NEW a \in Attempts, verify[a].at = "consume"
                   PROVE  /\ verify[a].read <= now + 1 /\ now + 1 <= verify[a].read + MaxDelay
                          /\ verify[a].read + MinRemaining
                               <= issued[verify[a].token].expires + Skew
        BY <2>1 DEF ReadInTime, issuer
      <3>1. verify[a].read \in Nat
        BY DEF OidcTypes, Progress
      <3> QED
        BY <2>1, <2>2, <3>1 DEF ReadInTime
    <2>5. RetainedOrExpired'
      <3>1. \A t \in Tokens : issued[t].expires \in Nat
        BY DEF OidcTypes
      <3> QED
        BY <2>1, <2>2, <3>1 DEF RetainedOrExpired, issuer
    <2> QED
      BY <2>1, <2>3, <2>4, <2>5 DEF KnownIsIssued, TokenUsedOnce, issuer
  <1>3. CASE Rotate
    <2>1. /\ published' = published + 1 /\ published < MaxGeneration
          /\ withdrawn' = [withdrawn EXCEPT ![published] = now]
          /\ UNCHANGED <<now, issued, trust, replay, verify, accepted>>
      BY <1>3 DEF Rotate
    <2>2. OidcTypes'
      <3>1. published' \in Generations
        <4>1. published \in Generations /\ MaxGeneration \in Nat
          BY DEF OidcTypes, OidcAssumption
        <4> QED
          BY ONLY <2>1, <4>1 DEF Generations
      <3>2. withdrawn' \in [Generations -> Nat]
        BY <2>1 DEF OidcTypes
      <3> QED
        BY <2>1, <3>1, <3>2 DEF OidcTypes, RefreshFits, trust
    <2> QED
      BY <2>1, <2>2 DEF ReadInTime, KnownIsIssued, RetainedOrExpired, TokenUsedOnce
  <1>4. ASSUME NEW t \in Tokens, Issue(t)
        PROVE  UseInv'
    <2>1. PICK expires \in now..now + Lifetime :
            issued' = [issued EXCEPT ![t] = [expires |-> expires, signer |-> published]]
      BY <1>4 DEF Issue
    <2>2. /\ issued[t] = NotIssued
          /\ UNCHANGED <<now, published, withdrawn, trust, replay, verify, accepted>>
      BY <1>4 DEF Issue
    <2>3. /\ [expires |-> expires, signer |-> published] \in [expires: Nat, signer: {0} \cup Generations]
          /\ published \in Generations
      BY DEF OidcTypes, OidcAssumption
    <2>4. [expires |-> expires, signer |-> published] # NotIssued
      BY <2>3 DEF NotIssued, Generations
    <2>5. issued' \in [Tokens -> [expires: Nat, signer: {0} \cup Generations]]
          /\ issued'[t] # NotIssued
          /\ \A u \in Tokens : u # t => issued'[u] = issued[u]
      BY <2>1, <2>3, <2>4 DEF OidcTypes
    <2>6. OidcTypes'
      BY <2>2, <2>5 DEF OidcTypes, RefreshFits, trust
    <2>7. \A a \in Attempts : verify[a].at # "idle" => verify[a].token \in Tokens
                                                      /\ verify[a].token # t
      BY <2>2 DEF OidcTypes, KnownIsIssued
    <2>8. \A u \in Tokens : replay[u] # 0 \/ accepted[u] # 0 => u # t
      BY <2>2 DEF KnownIsIssued
    <2> QED
      BY <2>2, <2>5, <2>6, <2>7, <2>8
      DEF ReadInTime, KnownIsIssued, RetainedOrExpired, TokenUsedOnce
  <1>5. CASE RefreshStep
    <2>1. RefreshOnly
      BY <1>5 DEF RefreshStep, StartRefresh, Answer, RefreshFails, Receive, InstallKeys,
         ExtendDeadline
    <2>2. OidcTypes'
      BY <1>5, RefreshTypes
    <2> QED
      BY <2>1, <2>2 DEF RefreshOnly, issuer, ReadInTime, KnownIsIssued, RetainedOrExpired,
         TokenUsedOnce
  <1>6. CASE Stop
    <2>1. /\ service' = "stopped" /\ refresh' = NoRefresh
          /\ verify' = [a \in Attempts |-> NoAttempt]
          /\ UNCHANGED <<now, issuer, keys, trustDeadline, replay, accepted>>
      BY <1>6 DEF Stop
    <2>2. NoAttempt \in Progress /\ NoAttempt.at = "idle"
      BY DEF NoAttempt, Progress
    <2>3. RefreshFits'
      BY <2>1 DEF NoRefresh, RefreshFits, Refreshes
    <2>4. OidcTypes'
      BY <2>1, <2>2, <2>3 DEF OidcTypes, issuer
    <2>5. \A a \in Attempts : verify'[a].at = "idle"
      BY <2>1, <2>2
    <2> QED
      BY <2>1, <2>4, <2>5 DEF ReadInTime, KnownIsIssued, RetainedOrExpired, TokenUsedOnce, issuer
  <1>7. ASSUME NEW a \in Attempts,
               (\E t \in Tokens : CheckDeadline(a, t)) \/ LookUpKey(a) \/ Examine(a)
               \/ Consume(a)
        PROVE  UseInv'
    <2>1. /\ replay' \in [Tokens -> Nat] /\ accepted' \in [Tokens -> Nat]
          /\ \A u \in Tokens :
               /\ replay'[u] # 0 => replay'[u] = issued[u].expires + Skew
               /\ replay'[u] # 0 \/ accepted'[u] # 0 => issued[u] # NotIssued
               /\ accepted'[u] # 0 => replay'[u] # 0 \/ issued[u].expires + Skew <= now
               /\ accepted'[u] <= 1
      <3>1. CASE Consume(a)
        BY <3>1, ConsumeStep
      <3>2. CASE UNCHANGED <<replay, accepted>>
        BY <3>2 DEF OidcTypes, KnownIsIssued, RetainedOrExpired, TokenUsedOnce
      <3> QED
        BY <1>7, <3>1, <3>2 DEF CheckDeadline, LookUpKey, Examine
    <2>2. /\ VerifyOnly
          /\ verify' \in [Attempts -> Progress]
          /\ \A b \in Attempts \ {a} : verify'[b] = verify[b]
          /\ \/ verify'[a].at = "idle"
             \/ /\ verify'[a].at = "lookup" /\ verify'[a].token \in Tokens
                /\ issued[verify'[a].token] # NotIssued
             \/ /\ verify[a].at = "lookup" /\ verify'[a].at = "examine"
                /\ verify'[a].token = verify[a].token
             \/ /\ verify[a].at = "examine" /\ verify'[a].at = "consume"
                /\ IsCurrent(verify[a].token)
                /\ verify'[a].token = verify[a].token
                /\ verify'[a].read = now
      <3> HIDE DEF UseInv
      <3> QED
        BY <1>7, VerifyStep DEF UseInv
    <2>3. /\ now' = now /\ issued' = issued /\ now \in Nat
          /\ UNCHANGED <<published, withdrawn, keys, trustDeadline, refresh, service>>
      BY <2>2 DEF VerifyOnly, issuer, trust, OidcTypes
    <2>4. \A b \in Attempts : verify'[b].at # "idle" =>
            verify'[b].token \in Tokens /\ issued[verify'[b].token] # NotIssued
      BY <2>2 DEF OidcTypes, KnownIsIssued
    <2>5. OidcTypes'
      BY <2>1, <2>2, <2>3, <2>4 DEF OidcTypes, RefreshFits
    <2>6. ReadInTime'
      <3>1. MaxDelay \in Nat
        BY DEF OidcAssumption
      <3>2. \A b \in Attempts : b # a => verify'[b] = verify[b]
        BY <2>2
      <3>3. verify'[a].at = "consume" =>
              /\ verify'[a].read <= now /\ now <= verify'[a].read + MaxDelay
              /\ verify'[a].read + MinRemaining <= issued[verify'[a].token].expires + Skew
        BY <2>2, <2>3, <3>1 DEF IsCurrent
      <3> QED
        BY <2>3, <3>2, <3>3 DEF ReadInTime
    <2>7. KnownIsIssued' /\ RetainedOrExpired' /\ TokenUsedOnce'
      BY <2>1, <2>3, <2>4 DEF KnownIsIssued, RetainedOrExpired, TokenUsedOnce
    <2> QED
      BY <2>5, <2>6, <2>7
  <1> QED
    <2> HIDE DEF UseInv
    <2> QED
      BY <1>1, <1>2, <1>3, <1>4, <1>5, <1>6, <1>7 DEF OidcNext, RefreshStep

(* A token admits one session, whatever its verifications interleave with  *)
(* and whatever the cache evicts (oidc.rs: consume_jti).                   *)
THEOREM TokensAreUsedOnce == OidcSpec => []TokenUsedOnce
  <1>1. OidcInit => UseInv
    BY UseInvInit, OidcAssumption
  <1>2. UseInv /\ [OidcNext]_OidcVars => UseInv'
    BY UseInvStep, OidcAssumption
  <1>3. UseInv => TokenUsedOnce
    BY DEF UseInv
  <1> QED
    BY <1>1, <1>2, <1>3, PTL DEF OidcSpec

-----------------------------------------------------------------------------
(* Withdrawn keys.  Every bound is on what is trusted under a key that may *)
(* have been withdrawn: the deadline, the deadline that a refresh will     *)
(* set, and the time at which a verification checked the deadline.         *)

EndsWith(time, g) == withdrawn[g] # 0 => time <= TrustEnds(g)
CheckedBefore(time, g) == withdrawn[g] # 0 => time < TrustEnds(g)

WithdrawnBefore ==
  \A g \in Generations :
    /\ withdrawn[g] <= now
    /\ published <= g => withdrawn[g] = 0

\* With discovery the deadline of the process that serves is that of its keys.
DeadlineIsOfKeys ==
  /\ service = "serving" /\ refresh.at # "none" =>
       trustDeadline <= now + TrustGrace /\ EndsWith(trustDeadline, keys)
  /\ service = "stopped" => refresh.at = "none"
  /\ service = "starting" => \A a \in Attempts : verify[a].at = "idle"

\* The document of a refresh was published when it was asked for.
RefreshIsQuick ==
  /\ refresh.at \in {"fetch", "answered"} =>
       /\ refresh.asked <= now /\ now <= refresh.asked + RequestTime
       /\ service = "serving" => trustDeadline <= refresh.asked + TrustGrace
  /\ refresh.at = "answered" =>
       (withdrawn[refresh.doc] # 0 => refresh.asked <= withdrawn[refresh.doc])
  /\ refresh.at \in {"parse", "extend"} =>
       refresh.until <= now + TrustGrace /\ EndsWith(refresh.until, refresh.doc)
  /\ refresh.at = "parse" /\ service = "serving" => EndsWith(trustDeadline, refresh.doc)
  /\ refresh.at = "extend" => keys = refresh.doc

ChecksAreBounded ==
  \A a \in Attempts : verify[a].at # "idle" =>
    /\ verify[a].checked <= now
    /\ refresh.at \in {"fetch", "answered"} =>
         verify[a].checked < refresh.asked + TrustGrace
    /\ verify[a].at = "lookup" /\ refresh.at # "none" =>
         /\ CheckedBefore(verify[a].checked, keys)
         /\ refresh.at = "parse" => CheckedBefore(verify[a].checked, refresh.doc)
    /\ verify[a].at \in {"examine", "consume"} =>
         /\ verify[a].key \in Generations
         /\ refresh.at # "none" => CheckedBefore(verify[a].checked, verify[a].key)

TrustInv ==
  UseInv /\ WithdrawnBefore /\ DeadlineIsOfKeys /\ RefreshIsQuick /\ ChecksAreBounded

LEMMA TrustInvInit == OidcAssumption /\ OidcInit => TrustInv
  <1> SUFFICES ASSUME OidcAssumption, OidcInit PROVE TrustInv
    OBVIOUS
  <1>1. UseInv
    BY UseInvInit
  <1>2. /\ \A a \in Attempts : verify[a].at = "idle"
        /\ now = 1 /\ withdrawn = [g \in Generations |-> 0]
        /\ \/ service = "starting" /\ refresh.at = "fetch" /\ refresh.asked = 1
           \/ service = "serving" /\ refresh.at = "none"
        /\ RequestTime \in Nat
    BY DEF OidcInit, NoAttempt, NoRefresh, OidcAssumption
  <1> QED
    BY <1>1, <1>2
    DEF TrustInv, WithdrawnBefore, DeadlineIsOfKeys, RefreshIsQuick, ChecksAreBounded

(* A key that is withdrawn now is trusted for the grace to come.           *)
LEMMA RotateKeepsEnds ==
  ASSUME OidcAssumption, OidcTypes, Rotate, NEW d \in Nat, NEW g \in Generations
  PROVE  /\ (withdrawn[g] # 0 => d <= withdrawn[g] + RequestTime + TrustGrace)
             /\ d <= now + TrustGrace
           => (withdrawn'[g] # 0 => d <= withdrawn'[g] + RequestTime + TrustGrace)
         /\ (withdrawn[g] # 0 => d < withdrawn[g] + RequestTime + TrustGrace)
             /\ d <= now
           => (withdrawn'[g] # 0 => d < withdrawn'[g] + RequestTime + TrustGrace)
  <1>1. withdrawn' = [withdrawn EXCEPT ![published] = now] /\ withdrawn \in [Generations -> Nat]
        /\ now \in Nat \ {0}
    BY DEF Rotate, OidcTypes
  <1>2. RequestTime \in Nat /\ TrustGrace \in Nat \ {0}
    BY GraceIsPositive DEF OidcAssumption
  <1>3. CASE g = published
    <2>1. withdrawn'[g] = now
      BY <1>1, <1>3
    <2> QED
      BY <1>1, <1>2, <2>1
  <1>4. CASE g # published
    <2>1. withdrawn'[g] = withdrawn[g]
      BY <1>1, <1>4
    <2> QED
      BY <2>1
  <1> QED
    BY <1>3, <1>4

LEMMA RotatePreserves ==
  ASSUME OidcAssumption, TrustInv, Rotate, UseInv'
  PROVE  TrustInv'
  <1>1. /\ published' = published + 1 /\ published \in Generations
        /\ withdrawn' = [withdrawn EXCEPT ![published] = now]
        /\ UNCHANGED <<now, issued, keys, trustDeadline, refresh, service, replay, verify,
                       accepted>>
        /\ now \in Nat \ {0} /\ withdrawn \in [Generations -> Nat] /\ keys \in Generations
        /\ trustDeadline \in Nat /\ RefreshFits /\ verify \in [Attempts -> Progress]
        /\ OidcTypes
    BY DEF Rotate, trust, TrustInv, UseInv, OidcTypes
  <1>2. RequestTime \in Nat /\ TrustGrace \in Nat \ {0}
    BY GraceIsPositive DEF OidcAssumption
  <1>3. WithdrawnBefore'
    <2>1. ASSUME NEW g \in Generations
          PROVE  withdrawn'[g] <= now /\ (published + 1 <= g => withdrawn'[g] = 0)
      <3>1. withdrawn[g] <= now /\ (published <= g => withdrawn[g] = 0)
        BY DEF TrustInv, WithdrawnBefore
      <3>2. g \in Nat /\ published \in Nat
        <4>1. published \in Generations
          BY <1>1
        <4> QED
          BY <4>1, OidcAssumption DEF Generations, OidcAssumption
      <3>3. CASE g = published
        <4>1. withdrawn'[g] = now
          BY <1>1, <3>3
        <4> QED
          BY <4>1, <1>1, <3>2, <3>3
      <3>4. CASE g # published
        <4>1. withdrawn'[g] = withdrawn[g]
          BY <1>1, <3>4
        <4> QED
          BY <4>1, <3>1, <3>2
      <3> QED
        BY <3>3, <3>4
    <2>2. published' = published + 1 /\ now' = now
      BY <1>1
    <2> QED
      BY <2>1, <2>2 DEF WithdrawnBefore
  <1>4. DeadlineIsOfKeys'
    BY <1>1, RotateKeepsEnds DEF TrustInv, DeadlineIsOfKeys, EndsWith, TrustEnds
  <1>5. RefreshIsQuick'
    <2>1. /\ refresh.asked \in Nat /\ refresh.until \in Nat
          /\ refresh.at \in {"answered", "parse", "extend"} => refresh.doc \in Generations
      BY <1>1 DEF RefreshFits, Refreshes
    <2>2. refresh.at \in {"fetch", "answered"} =>
            /\ refresh.asked <= now /\ now <= refresh.asked + RequestTime
            /\ service = "serving" => trustDeadline <= refresh.asked + TrustGrace
      BY DEF TrustInv, RefreshIsQuick
    <2>3. refresh.at = "answered" =>
            (withdrawn'[refresh.doc] # 0 => refresh.asked <= withdrawn'[refresh.doc])
      <3>1. CASE refresh.doc = published
        BY <1>1, <2>2, <3>1
      <3>2. CASE refresh.doc # published
        BY <1>1, <2>1, <3>2 DEF TrustInv, RefreshIsQuick
      <3> QED
        BY <3>1, <3>2
    <2>4. refresh.at = "parse" /\ service = "serving" => trustDeadline <= now + TrustGrace
      BY DEF TrustInv, DeadlineIsOfKeys
    <2> QED
      BY <1>1, <2>1, <2>2, <2>3, <2>4, RotateKeepsEnds
      DEF TrustInv, RefreshIsQuick, EndsWith, TrustEnds
  <1>6. ChecksAreBounded'
    <2>1. \A a \in Attempts : verify[a].checked \in Nat
      BY <1>1 DEF Progress
    <2>2. refresh.at = "parse" => refresh.doc \in Generations
      BY <1>1 DEF RefreshFits
    <2> QED
      BY <1>1, <2>1, <2>2, RotateKeepsEnds
      DEF TrustInv, ChecksAreBounded, CheckedBefore, TrustEnds
  <1> QED
    BY <1>3, <1>4, <1>5, <1>6 DEF TrustInv

LEMMA ElapseKeepsTrust ==
  ASSUME OidcAssumption, TrustInv, Elapse, UseInv'
  PROVE  TrustInv'
  <1>1. /\ now' = now + 1 /\ now \in Nat
        /\ refresh.at \in {"fetch", "answered"} => now < refresh.asked + RequestTime
        /\ UNCHANGED <<published, withdrawn, keys, trustDeadline, refresh, service, verify>>
        /\ withdrawn \in [Generations -> Nat] /\ RefreshFits
        /\ verify \in [Attempts -> Progress] /\ trustDeadline \in Nat
    BY DEF Elapse, issuer, trust, TrustInv, UseInv, OidcTypes
  <1>2. /\ RequestTime \in Nat /\ TrustGrace \in Nat
        /\ refresh.asked \in Nat /\ refresh.until \in Nat
        /\ \A a \in Attempts : verify[a].checked \in Nat
    BY <1>1, GraceIsPositive DEF OidcAssumption, RefreshFits, Refreshes, Progress
  <1>3. \A g \in Generations : withdrawn[g] \in Nat
    BY <1>1
  <1>4. WithdrawnBefore'
    BY <1>1, <1>3 DEF TrustInv, WithdrawnBefore
  <1>5. DeadlineIsOfKeys'
    BY <1>1, <1>2 DEF TrustInv, DeadlineIsOfKeys, EndsWith, TrustEnds
  <1>6. RefreshIsQuick'
    BY <1>1, <1>2 DEF TrustInv, RefreshIsQuick, EndsWith, TrustEnds
  <1>7. ChecksAreBounded'
    BY <1>1, <1>2 DEF TrustInv, ChecksAreBounded, CheckedBefore, TrustEnds
  <1> QED
    BY <1>4, <1>5, <1>6, <1>7 DEF TrustInv

LEMMA VerifyKeepsTrust ==
  ASSUME OidcAssumption, TrustInv, UseInv', NEW a \in Attempts,
         (\E t \in Tokens : CheckDeadline(a, t)) \/ LookUpKey(a) \/ Examine(a) \/ Consume(a)
  PROVE  TrustInv'
  <1>1. OidcTypes
    BY DEF TrustInv, UseInv
  <1>2. /\ VerifyOnly
        /\ \A b \in Attempts \ {a} : verify'[b] = verify[b]
        /\ \/ verify'[a].at = "idle"
           \/ /\ verify'[a].at = "lookup"
              /\ verify'[a].checked = now /\ now < trustDeadline
              /\ service = "serving"
           \/ /\ verify[a].at = "lookup" /\ verify'[a].at = "examine"
              /\ verify'[a].checked = verify[a].checked /\ verify'[a].key = keys
           \/ /\ verify[a].at = "examine" /\ verify'[a].at = "consume"
              /\ verify'[a].checked = verify[a].checked /\ verify'[a].key = verify[a].key
    BY <1>1, VerifyStep
  <1>3. /\ UNCHANGED <<now, published, withdrawn, keys, trustDeadline, refresh, service>>
        /\ now \in Nat /\ trustDeadline \in Nat /\ RefreshFits /\ keys \in Generations
        /\ withdrawn \in [Generations -> Nat]
        /\ service \in {"starting", "serving", "stopped"}
    BY <1>1, <1>2 DEF VerifyOnly, issuer, trust, OidcTypes
  <1>4. /\ RequestTime \in Nat /\ TrustGrace \in Nat
        /\ refresh.asked \in Nat
        /\ refresh.at \in {"answered", "parse", "extend"} => refresh.doc \in Generations
    BY <1>3, GraceIsPositive DEF OidcAssumption, RefreshFits, Refreshes
  <1>5. WithdrawnBefore' /\ RefreshIsQuick'
    BY <1>3 DEF TrustInv, WithdrawnBefore, RefreshIsQuick, EndsWith, TrustEnds
  <1>6. service = "starting" => verify[a].at = "idle" /\ verify'[a].at = "idle"
    BY <1>2 DEF TrustInv, DeadlineIsOfKeys
  <1>7. DeadlineIsOfKeys'
    BY <1>2, <1>3, <1>6 DEF TrustInv, DeadlineIsOfKeys, EndsWith, TrustEnds
  <1> DEFINE Bounded(v) ==
        v.at # "idle" =>
          /\ v.checked <= now
          /\ refresh.at \in {"fetch", "answered"} => v.checked < refresh.asked + TrustGrace
          /\ v.at = "lookup" /\ refresh.at # "none" =>
               /\ CheckedBefore(v.checked, keys)
               /\ refresh.at = "parse" => CheckedBefore(v.checked, refresh.doc)
          /\ v.at \in {"examine", "consume"} =>
               /\ v.key \in Generations
               /\ refresh.at # "none" => CheckedBefore(v.checked, v.key)
  <1>8. \A b \in Attempts : Bounded(verify[b])
    BY DEF TrustInv, ChecksAreBounded
  <1>9. Bounded(verify'[a])
    <2>1. CASE verify'[a].at = "idle"
      BY <2>1
    <2>2. CASE /\ verify'[a].at = "lookup"
               /\ verify'[a].checked = now /\ now < trustDeadline
               /\ service = "serving"
      <3>1. refresh.at # "none" => EndsWith(trustDeadline, keys)
        BY <2>2 DEF TrustInv, DeadlineIsOfKeys
      <3>2. /\ refresh.at \in {"fetch", "answered"} =>
                 trustDeadline <= refresh.asked + TrustGrace
            /\ refresh.at = "parse" => EndsWith(trustDeadline, refresh.doc)
        BY <2>2 DEF TrustInv, RefreshIsQuick
      <3>3. \A g \in Generations : EndsWith(trustDeadline, g) => CheckedBefore(now, g)
        BY <1>3, <1>4, <2>2 DEF EndsWith, CheckedBefore, TrustEnds
      <3> QED
        BY <1>3, <1>4, <2>2, <3>1, <3>2, <3>3
    <2>3. CASE /\ verify[a].at = "lookup" /\ verify'[a].at = "examine"
               /\ verify'[a].checked = verify[a].checked /\ verify'[a].key = keys
      BY <1>3, <1>8, <2>3
    <2>4. CASE /\ verify[a].at = "examine" /\ verify'[a].at = "consume"
               /\ verify'[a].checked = verify[a].checked /\ verify'[a].key = verify[a].key
      BY <1>8, <2>4
    <2> QED
      BY <1>2, <2>1, <2>2, <2>3, <2>4
  <1>10. \A b \in Attempts : Bounded(verify'[b])
    BY <1>2, <1>8, <1>9
  <1>11. ChecksAreBounded'
    BY <1>3, <1>10 DEF ChecksAreBounded, CheckedBefore, TrustEnds
  <1> QED
    BY <1>5, <1>7, <1>11 DEF TrustInv

(* The steps of a refresh leave the clock, the issuer and the              *)
(* verifications alone.                                                    *)
LEMMA RefreshKeepsTrust ==
  ASSUME OidcAssumption, TrustInv, UseInv', RefreshStep
  PROVE  TrustInv'
  <1>1. /\ UNCHANGED <<now, published, withdrawn, verify>>
        /\ now \in Nat /\ withdrawn \in [Generations -> Nat] /\ published \in Generations
        /\ RefreshFits /\ trustDeadline \in Nat /\ keys \in Generations
        /\ verify \in [Attempts -> Progress]
        /\ service \in {"starting", "serving", "stopped"}
    BY DEF RefreshStep, StartRefresh, Answer, RefreshFails, Receive, InstallKeys,
       ExtendDeadline, RefreshOnly, issuer, TrustInv, UseInv, OidcTypes
  <1>2. /\ RequestTime \in Nat /\ TrustGrace \in Nat \ {0}
        /\ refresh \in Refreshes
        /\ refresh.asked \in Nat /\ refresh.until \in Nat
        /\ \A a \in Attempts : verify[a].checked \in Nat
        /\ \A g \in Generations : withdrawn[g] \in Nat
    BY <1>1, GraceIsPositive DEF OidcAssumption, RefreshFits, Refreshes, Progress
  <1>3. WithdrawnBefore'
    BY <1>1 DEF TrustInv, WithdrawnBefore
  <1> SUFFICES DeadlineIsOfKeys' /\ RefreshIsQuick' /\ ChecksAreBounded'
    BY <1>3 DEF TrustInv
  <1>4. DeadlineIsOfKeys /\ RefreshIsQuick /\ ChecksAreBounded /\ WithdrawnBefore
    BY DEF TrustInv
  <1> USE DEF EndsWith, CheckedBefore, TrustEnds
  <1>5. CASE StartRefresh
    <2>1. /\ service = "serving" /\ refresh.at = "rest" /\ refresh'.at = "fetch"
          /\ refresh'.asked = now
          /\ UNCHANGED <<keys, trustDeadline, service>>
      BY <1>2, <1>5 DEF StartRefresh, Refreshes
    <2>2. DeadlineIsOfKeys' /\ RefreshIsQuick'
      BY <1>1, <1>2, <1>4, <2>1 DEF DeadlineIsOfKeys, RefreshIsQuick
    <2>3. ChecksAreBounded'
      BY <1>1, <1>2, <1>4, <2>1 DEF ChecksAreBounded
    <2> QED
      BY <2>2, <2>3
  <1>6. CASE Answer
    <2>1. /\ refresh.at = "fetch" /\ refresh'.at = "answered" /\ refresh'.doc = published
          /\ refresh'.asked = refresh.asked
          /\ UNCHANGED <<keys, trustDeadline, service>>
      BY <1>2, <1>6 DEF Answer, Refreshes
    <2>2. withdrawn[published] = 0
      BY <1>1, <1>4 DEF WithdrawnBefore, Generations
    <2>3. DeadlineIsOfKeys' /\ RefreshIsQuick'
      BY <1>1, <1>2, <1>4, <2>1, <2>2 DEF DeadlineIsOfKeys, RefreshIsQuick
    <2>4. ChecksAreBounded'
      BY <1>1, <1>2, <1>4, <2>1 DEF ChecksAreBounded
    <2> QED
      BY <2>3, <2>4
  <1>7. CASE RefreshFails
    <2>1. /\ refresh'.at = (IF service = "starting" THEN "none" ELSE "rest")
          /\ service' = (IF service = "starting" THEN "stopped" ELSE service)
          /\ UNCHANGED <<keys, trustDeadline>>
          /\ refresh.at # "none"
      BY <1>1, <1>7, AtRestFits DEF RefreshFails
    <2>2. DeadlineIsOfKeys'
      BY <1>1, <1>4, <2>1 DEF DeadlineIsOfKeys
    <2>3. RefreshIsQuick'
      BY <2>1 DEF RefreshIsQuick
    <2>4. ChecksAreBounded'
      BY <1>1, <1>4, <2>1 DEF ChecksAreBounded
    <2> QED
      BY <2>2, <2>3, <2>4
  <1>8. CASE Receive
    <2>1. /\ refresh.at = "answered" /\ refresh'.at = "parse" /\ refresh'.doc = refresh.doc
          /\ refresh'.until = now + TrustGrace
          /\ UNCHANGED <<keys, trustDeadline, service>>
      BY <1>2, <1>8 DEF Receive, Refreshes
    <2>2. /\ refresh.doc \in Generations
          /\ refresh.asked <= now /\ now <= refresh.asked + RequestTime
          /\ withdrawn[refresh.doc] # 0 => refresh.asked <= withdrawn[refresh.doc]
      BY <1>1, <1>4, <2>1 DEF RefreshIsQuick, RefreshFits
    <2>3. EndsWith(now + TrustGrace, refresh.doc)
      BY <1>1, <1>2, <2>2
    <2>4. service = "serving" => EndsWith(trustDeadline, refresh.doc)
      BY <1>1, <1>2, <1>4, <2>1, <2>2 DEF RefreshIsQuick
    <2>5. DeadlineIsOfKeys' /\ RefreshIsQuick'
      BY <1>1, <1>2, <1>4, <2>1, <2>3, <2>4 DEF DeadlineIsOfKeys, RefreshIsQuick
    <2>6. \A a \in Attempts : verify[a].at # "idle" =>
            CheckedBefore(verify[a].checked, refresh.doc)
      BY <1>1, <1>2, <1>4, <2>1, <2>2 DEF ChecksAreBounded
    <2>7. ChecksAreBounded'
      BY <1>1, <1>2, <1>4, <2>1, <2>6 DEF ChecksAreBounded
    <2> QED
      BY <2>5, <2>7
  <1>9. CASE InstallKeys
    <2>1. /\ refresh.at = "parse" /\ refresh'.at = "extend" /\ refresh'.doc = refresh.doc
          /\ refresh'.until = refresh.until /\ keys' = refresh.doc
          /\ UNCHANGED <<trustDeadline, service>>
      BY <1>2, <1>9 DEF InstallKeys, Refreshes
    <2>2. DeadlineIsOfKeys' /\ RefreshIsQuick'
      BY <1>1, <1>2, <1>4, <2>1 DEF DeadlineIsOfKeys, RefreshIsQuick
    <2>3. ChecksAreBounded'
      BY <1>1, <1>2, <1>4, <2>1 DEF ChecksAreBounded
    <2> QED
      BY <2>2, <2>3
  <1>10. CASE ExtendDeadline
    <2>1. /\ refresh.at = "extend" /\ refresh'.at = "rest" /\ keys' = keys
          /\ trustDeadline' = refresh.until
          /\ service' = (IF service = "starting" THEN "serving" ELSE service)
      BY <1>1, <1>10, AtRestFits DEF ExtendDeadline
    <2>2. keys = refresh.doc /\ refresh.until <= now + TrustGrace
          /\ EndsWith(refresh.until, keys)
      BY <1>4, <2>1 DEF RefreshIsQuick
    <2>3. DeadlineIsOfKeys'
      BY <1>1, <1>4, <2>1, <2>2 DEF DeadlineIsOfKeys
    <2>4. RefreshIsQuick'
      BY <2>1 DEF RefreshIsQuick
    <2>5. ChecksAreBounded'
      BY <1>1, <1>4, <2>1 DEF ChecksAreBounded
    <2> QED
      BY <2>3, <2>4, <2>5
  <1> QED
    BY <1>5, <1>6, <1>7, <1>8, <1>9, <1>10 DEF RefreshStep

LEMMA TrustInvStep ==
  ASSUME OidcAssumption, TrustInv, [OidcNext]_OidcVars
  PROVE  TrustInv'
  <1>1. UseInv'
    BY UseInvStep DEF TrustInv
  <1>2. ASSUME UNCHANGED <<now, published, withdrawn, trust, verify>>
        PROVE  TrustInv'
    BY <1>1, <1>2 DEF trust, TrustInv, WithdrawnBefore, DeadlineIsOfKeys, RefreshIsQuick,
       ChecksAreBounded, EndsWith, CheckedBefore, TrustEnds
  <1>3. CASE UNCHANGED OidcVars
    BY <1>2, <1>3 DEF OidcVars, issuer
  <1>4. CASE \E t \in Tokens : Issue(t)
    BY <1>2, <1>4 DEF Issue
  <1>5. CASE Stop
    <2>1. /\ service' = "stopped" /\ refresh' = NoRefresh
          /\ verify' = [a \in Attempts |-> NoAttempt]
          /\ UNCHANGED <<now, published, withdrawn, keys, trustDeadline>>
      BY <1>5 DEF Stop, issuer
    <2>2. refresh'.at = "none" /\ \A a \in Attempts : verify'[a].at = "idle"
      BY <2>1 DEF NoRefresh, NoAttempt
    <2> QED
      BY <1>1, <2>1, <2>2
      DEF TrustInv, WithdrawnBefore, DeadlineIsOfKeys, RefreshIsQuick, ChecksAreBounded
  <1>6. CASE \E a \in Attempts :
               (\E t \in Tokens : CheckDeadline(a, t)) \/ LookUpKey(a) \/ Examine(a)
               \/ Consume(a)
    BY <1>1, <1>6, VerifyKeepsTrust
  <1> QED
    BY <1>1, <1>3, <1>4, <1>5, <1>6, ElapseKeepsTrust, RotatePreserves, RefreshKeepsTrust
    DEF OidcNext, RefreshStep

(* With discovery a withdrawn key ends with the grace, whichever refreshes *)
(* fail and whenever verifications run (server_config.rs: replace_jwks,    *)
(* refresh_once).                                                          *)
THEOREM WithdrawnKeysAreDropped == OidcSpec => []WithdrawnKeysEnd
  <1>1. OidcInit => TrustInv
    BY TrustInvInit, OidcAssumption
  <1>2. TrustInv /\ [OidcNext]_OidcVars => TrustInv'
    BY TrustInvStep, OidcAssumption
  <1>3. TrustInv => WithdrawnKeysEnd
    BY DEF TrustInv, ChecksAreBounded, CheckedBefore, WithdrawnKeysEnd
  <1> QED
    BY <1>1, <1>2, <1>3, PTL DEF OidcSpec

-----------------------------------------------------------------------------
(* The TLS identity (CertificateReload): the server never outlives its     *)
(* certificate, and a renewal that is usable in time is installed before   *)
(* the deadline.                                                           *)

Numbers ==
  /\ certNow \in Nat
  /\ chainFile \in Chains /\ keyFile \in Chains
  /\ inPlaceSince \in Nat /\ tickingSince \in Nat
  /\ reload.at \in {"starting", "rest", "chain", "key"}
  /\ reload.due \in Nat /\ reload.began \in Nat /\ reload.clock \in Nat
  /\ reload.at = "key" => reload.chain \in Chains
  /\ installed \in Chains
  /\ safetyDeadline \in Nat
  /\ serving \in BOOLEAN

Reloading == reload.at \in {"chain", "key"}

\* The clock of a reload is not behind its start, and not too far ahead.
ClockFits ==
  /\ reload.at # "rest" => serving
  /\ Reloading =>
       /\ Anchor + reload.began <= reload.clock
       /\ reload.clock <= Anchor + reload.began + MaxAhead
       /\ reload.began <= certNow

IntervalKept == reload.due <= certNow + ReloadEvery \/ ~serving

\* A renewal that is usable is read by a reload that starts within an
\* interval of it.
RenewalPending ==
  serving /\ Renewed =>
    \/ reload.at = "starting"
    \/ /\ reload.at = "rest"
       /\ reload.due <= UsableSince + ReloadEvery
       /\ certNow <= UsableSince + ReloadEvery
    \/ /\ Reloading
       /\ chainFile.from <= Anchor + reload.began
       /\ reload.began <= UsableSince + ReloadEvery
       /\ certNow <= reload.began + ReloadTime
       /\ reload.at = "key" => reload.chain = chainFile
    \/ /\ Reloading
       /\ reload.due <= UsableSince + ReloadEvery
       /\ reload.began <= UsableSince
       /\ certNow <= reload.began + ReloadTime

ReloadIsQuick == Reloading => certNow <= reload.began + ReloadTime

StoppedAtDeadline ==
  ~serving => certNow >= safetyDeadline /\ ~Renewed

CertInv ==
  /\ Numbers
  /\ ClockFits
  /\ ReloadIsQuick
  /\ IntervalKept
  /\ CertificateDeadlineHonest
  /\ RenewalPending
  /\ StoppedAtDeadline

-----------------------------------------------------------------------------
(* A renewal is usable when the last of its conditions is met.             *)
LEMMA UsableFacts ==
  ASSUME NEW placed \in Nat, NEW ticking \in Nat, NEW valid \in Int
  PROVE  /\ Later(Later(placed, ticking), valid) \in Nat
         /\ placed <= Later(Later(placed, ticking), valid)
         /\ ticking <= Later(Later(placed, ticking), valid)
         /\ valid <= Later(Later(placed, ticking), valid)
  BY DEF Later

LEMMA UsableFits ==
  ASSUME CertificateAssumption, Numbers
  PROVE  /\ UsableSince \in Nat /\ inPlaceSince <= UsableSince
         /\ tickingSince <= UsableSince /\ chainFile.from - Anchor <= UsableSince
  <1>1. chainFile.from - Anchor \in Int /\ inPlaceSince \in Nat /\ tickingSince \in Nat
    BY DEF CertificateAssumption, Numbers
  <1> QED
    BY <1>1, UsableFacts DEF UsableSince

LEMMA UsableFitsNext ==
  ASSUME CertificateAssumption, Numbers'
  PROVE  /\ UsableSince' \in Nat /\ inPlaceSince' <= UsableSince'
         /\ tickingSince' <= UsableSince' /\ chainFile'.from - Anchor <= UsableSince'
  <1>1. chainFile'.from - Anchor \in Int /\ inPlaceSince' \in Nat /\ tickingSince' \in Nat
    BY DEF CertificateAssumption, Numbers
  <1> QED
    BY <1>1, UsableFacts DEF UsableSince

LEMMA DueInTime ==
  ASSUME NEW n \in Nat, NEW since \in Nat, NEW every \in Nat, n <= since
  PROVE  n + every <= since + every /\ n <= since + every
  OBVIOUS

(* A missed tick is skipped, so a reload is due within an interval.        *)
LEMMA DueWithinInterval ==
  ASSUME CertificateAssumption, NEW d \in Nat, NEW n \in Nat, n >= d
  PROVE  /\ d + ReloadEvery * ((n - d) \div ReloadEvery + 1) \in Nat
         /\ d + ReloadEvery * ((n - d) \div ReloadEvery + 1) <= n + ReloadEvery
  <1>1. ReloadEvery \in Nat \ {0}
    BY DEF CertificateAssumption
  <1>2. \A x \in Nat, e \in Nat \ {0} :
          x \div e \in Nat /\ e * (x \div e) <= x
    OBVIOUS
  <1>3. n - d \in Nat
    OBVIOUS
  <1>4. PICK q \in Nat : q = (n - d) \div ReloadEvery /\ ReloadEvery * q <= n - d
    BY <1>1, <1>2, <1>3
  <1>5. PICK m \in Nat : m = ReloadEvery * q
    BY <1>1, SMT
  <1>6. ReloadEvery * (q + 1) = m + ReloadEvery
    BY <1>1, <1>5, SMT
  <1> QED
    BY <1>1, <1>4, <1>5, <1>6

LEMMA CertInvInit == CertificateAssumption /\ CertInit => CertInv
  <1> SUFFICES ASSUME CertificateAssumption, CertInit PROVE CertInv
    OBVIOUS
  <1> USE DEF CertificateAssumption, CertInit, NoReload
  <1>1. safetyDeadline = installed.until - Anchor - Margin /\ safetyDeadline \in Nat
    BY DEF Deadline, Lasts, MinimumRemaining
  <1>2. Numbers /\ ClockFits /\ ReloadIsQuick
    BY <1>1 DEF Numbers, ClockFits, ReloadIsQuick, Reloading
  <1>3. IntervalKept /\ CertificateDeadlineHonest
    BY <1>1 DEF IntervalKept, CertificateDeadlineHonest
  <1>4. ~Renewed
    BY DEF Renewed
  <1> QED
    BY <1>2, <1>3, <1>4 DEF CertInv, RenewalPending, StoppedAtDeadline

LEMMA ElapsePreserves ==
  ASSUME CertificateAssumption, CertInv, CertElapse
  PROVE  CertInv'
  <1> USE DEF CertificateAssumption, CertInv, CertElapse, files, identity
  <1>1. Numbers' /\ ClockFits' /\ ReloadIsQuick'
    BY DEF Numbers, ClockFits, ReloadIsQuick, Reloading
  <1>2. IntervalKept' /\ CertificateDeadlineHonest'
    BY DEF Numbers, IntervalKept, CertificateDeadlineHonest
  <1>3. UsableSince' = UsableSince /\ Renewed' = Renewed
    BY DEF Renewed, UsableSince
  <1>4. RenewalPending'
    BY <1>3, UsableFits DEF Numbers, RenewalPending, Reloading
  <1>5. StoppedAtDeadline'
    BY <1>3 DEF Numbers, StoppedAtDeadline
  <1> QED
    BY <1>1, <1>2, <1>4, <1>5

LEMMA ReplacePreserves ==
  ASSUME CertificateAssumption, CertInv,
         NEW c \in Chains, ReplaceChain(c) \/ ReplaceKey(c)
  PROVE  CertInv'
  <1> USE DEF CertificateAssumption, CertInv, ReplaceChain, ReplaceKey, identity
  <1>1. Numbers' /\ ClockFits' /\ ReloadIsQuick'
    BY DEF Numbers, ClockFits, ReloadIsQuick, Reloading
  <1>2. IntervalKept' /\ CertificateDeadlineHonest'
    BY DEF IntervalKept, CertificateDeadlineHonest
  <1>3. inPlaceSince' = certNow /\ UNCHANGED <<certNow, reload, installed, safetyDeadline, serving>>
    OBVIOUS
  <1>4. UsableSince' \in Nat /\ certNow <= UsableSince'
    BY <1>1, <1>3, UsableFitsNext
  <1>5. RenewalPending'
    <2> HIDE DEF CertInv, ReplaceChain, ReplaceKey
    <2>1. CASE reload.at = "starting"
      BY <1>3, <2>1 DEF RenewalPending
    <2>2. CASE reload.at = "rest"
      <3>1. serving => /\ reload.due <= UsableSince' + ReloadEvery
                       /\ certNow <= UsableSince' + ReloadEvery
        BY <1>4 DEF CertInv, Numbers, IntervalKept
      <3> QED
        BY <1>3, <2>2, <3>1 DEF RenewalPending
    <2>3. CASE Reloading
      BY <1>3, <1>4, <2>3
      DEF RenewalPending, Reloading, CertInv, Numbers, ClockFits, ReloadIsQuick, IntervalKept
    <2> QED
      BY <2>1, <2>2, <2>3 DEF CertInv, Numbers, Reloading
  <1>6. StoppedAtDeadline'
    BY <1>3, <1>4 DEF Numbers, StoppedAtDeadline, Renewed
  <1> QED
    BY <1>1, <1>2, <1>5, <1>6

LEMMA SpawnPreserves ==
  ASSUME CertificateAssumption, CertInv, SpawnRefresh
  PROVE  CertInv'
  <1> USE DEF CertificateAssumption, CertInv
  <1>1. /\ reload.at = "starting" /\ reload'.at = "rest"
        /\ reload'.due = certNow + ReloadEvery
        /\ reload'.began = 0 /\ reload'.clock = 0
        /\ tickingSince' = certNow
        /\ UNCHANGED <<certNow, files, identity, serving>>
    BY DEF SpawnRefresh, NoReload
  <1>2. serving
    BY <1>1 DEF ClockFits
  <1>3. Numbers' /\ ClockFits' /\ ReloadIsQuick' /\ IntervalKept'
    BY <1>1, <1>2
    DEF Numbers, ClockFits, ReloadIsQuick, Reloading, IntervalKept, files, identity
  <1>4. CertificateDeadlineHonest'
    BY <1>1 DEF CertificateDeadlineHonest, identity
  <1>5. UsableSince' \in Nat /\ certNow <= UsableSince'
    BY <1>1, <1>3, UsableFitsNext
  <1>6. RenewalPending'
    <2> HIDE DEF CertInv
    <2>1. certNow \in Nat /\ certNow' = certNow /\ ReloadEvery \in Nat
      BY <1>1 DEF CertInv, Numbers
    <2> HIDE DEF CertificateAssumption
    <2>2. PICK u \in Nat : u = UsableSince' /\ certNow <= u
      BY <1>5
    <2>3. certNow + ReloadEvery <= u + ReloadEvery /\ certNow <= u + ReloadEvery
      BY <2>1, <2>2, DueInTime
    <2> QED
      BY <1>1, <2>1, <2>2, <2>3 DEF RenewalPending
  <1>7. StoppedAtDeadline'
    BY <1>1, <1>2 DEF StoppedAtDeadline
  <1> QED
    BY <1>3, <1>4, <1>6, <1>7

LEMMA StartPreserves ==
  ASSUME CertificateAssumption, CertInv, StartReload
  PROVE  CertInv'
  <1> USE DEF CertificateAssumption, CertInv
  <1>1. PICK observed \in 0..Anchor + certNow + MaxAhead :
          reload' = [at |-> "chain", due |-> CertDue, began |-> certNow,
                     clock |-> Floored(observed), chain |-> NoChain]
    BY DEF StartReload
  <1>2. serving /\ reload.at = "rest" /\ certNow >= reload.due
        /\ UNCHANGED <<certNow, files, tickingSince, identity, serving>>
    BY DEF StartReload
  <1>3. CertDue \in Nat /\ CertDue <= certNow + ReloadEvery
    BY <1>2, DueWithinInterval DEF CertDue, Numbers
  <1>4. /\ Floored(observed) \in Nat
        /\ Anchor + certNow <= Floored(observed)
        /\ Floored(observed) <= Anchor + certNow + MaxAhead
    BY DEF Floored, Numbers
  <1>5. /\ reload'.at = "chain" /\ reload'.due = CertDue /\ reload'.began = certNow
        /\ reload'.clock = Floored(observed)
    BY <1>1
  <1>6. Numbers' /\ ClockFits' /\ ReloadIsQuick' /\ IntervalKept'
    BY <1>2, <1>3, <1>4, <1>5
    DEF Numbers, ClockFits, ReloadIsQuick, Reloading, IntervalKept, files, identity
  <1>7. CertificateDeadlineHonest'
    BY <1>2 DEF CertificateDeadlineHonest, identity
  <1>8. Renewed' = Renewed /\ UsableSince' = UsableSince
    BY <1>2 DEF Renewed, UsableSince, files, identity
  <1>9. RenewalPending'
    <2> SUFFICES ASSUME Renewed PROVE RenewalPending'
      BY <1>2, <1>8 DEF RenewalPending
    <2>1. certNow <= UsableSince + ReloadEvery
      BY <1>2 DEF RenewalPending, Reloading
    <2>2. CASE chainFile.from <= Anchor + certNow
      BY <1>2, <1>5, <1>8, <2>1, <2>2 DEF RenewalPending, Reloading, Numbers, files
    <2>3. CASE ~(chainFile.from <= Anchor + certNow)
      <3>1. certNow <= UsableSince /\ UsableSince \in Nat
        BY <2>3, UsableFits DEF Numbers
      <3> QED
        BY <1>2, <1>3, <1>5, <1>8, <3>1 DEF RenewalPending, Reloading, Numbers, files
    <2> QED
      BY <2>2, <2>3
  <1>10. StoppedAtDeadline'
    BY <1>2 DEF StoppedAtDeadline
  <1> QED
    BY <1>6, <1>7, <1>9, <1>10

LEMMA ReadChainPreserves ==
  ASSUME CertificateAssumption, CertInv, ReadChain
  PROVE  CertInv'
  <1> USE DEF CertificateAssumption, CertInv
  <1>1. /\ reload.at = "chain" /\ reload'.at = "key" /\ reload'.chain = chainFile
        /\ reload'.due = reload.due /\ reload'.began = reload.began
        /\ reload'.clock = reload.clock
        /\ UNCHANGED <<certNow, files, tickingSince, identity, serving>>
    BY DEF ReadChain
  <1>2. Numbers' /\ ClockFits' /\ ReloadIsQuick' /\ IntervalKept'
    BY <1>1 DEF Numbers, ClockFits, ReloadIsQuick, Reloading, IntervalKept, files, identity
  <1>3. CertificateDeadlineHonest' /\ Renewed' = Renewed /\ UsableSince' = UsableSince
    BY <1>1 DEF CertificateDeadlineHonest, Renewed, UsableSince, files, identity
  <1>4. RenewalPending'
    BY <1>1, <1>3 DEF RenewalPending, Reloading, files
  <1>5. StoppedAtDeadline'
    BY <1>1, <1>3 DEF StoppedAtDeadline, identity
  <1> QED
    BY <1>2, <1>3, <1>4, <1>5

LEMMA ReadKeyPreserves ==
  ASSUME CertificateAssumption, CertInv, ReadKey
  PROVE  CertInv'
  <1> USE DEF CertificateAssumption, CertInv
  <1>1. /\ reload.at = "key" /\ reload'.at = "rest" /\ reload'.due = reload.due
        /\ reload'.began = 0 /\ reload'.clock = 0
        /\ UNCHANGED <<certNow, files, tickingSince, serving>>
    BY DEF ReadKey, NoReload
  <1>2. serving
    BY <1>1 DEF ClockFits
  <1>3. CASE Acceptable
    <2>1. installed' = reload.chain
          /\ safetyDeadline' = Deadline(reload.chain, reload.clock, reload.began)
      BY <1>3 DEF ReadKey
    <2>2. reload.chain.until \in Nat /\ reload.clock \in Nat /\ reload.began \in Nat
          /\ Anchor \in Nat /\ Margin \in Nat /\ ReloadEvery \in Nat
      BY <1>1 DEF Numbers
    <2>3. Lasts(reload.chain, reload.clock) /\ Anchor + reload.began <= reload.clock
      BY <1>1, <1>3 DEF Acceptable, ClockFits, Reloading
    <2>4. safetyDeadline' \in Nat /\ CertificateDeadlineHonest'
      BY <2>1, <2>2, <2>3 DEF Deadline, Lasts, MinimumRemaining, CertificateDeadlineHonest
    <2>5. Numbers' /\ ClockFits' /\ ReloadIsQuick' /\ IntervalKept'
      BY <1>1, <2>1, <2>4
      DEF Numbers, ClockFits, ReloadIsQuick, Reloading, IntervalKept, files
    <2>6. keyFile = reload.chain
      BY <1>3 DEF Acceptable
    <2>7. ~Renewed'
      BY <1>1, <2>1, <2>6 DEF Renewed, files
    <2> QED
      BY <1>1, <1>2, <2>4, <2>5, <2>7 DEF RenewalPending, StoppedAtDeadline
  <1>4. CASE ~Acceptable
    <2>1. UNCHANGED identity
      BY <1>4 DEF ReadKey
    <2>2. Numbers' /\ ClockFits' /\ ReloadIsQuick' /\ IntervalKept'
      BY <1>1, <2>1
      DEF Numbers, ClockFits, ReloadIsQuick, Reloading, IntervalKept, files, identity
    <2>3. CertificateDeadlineHonest' /\ Renewed' = Renewed /\ UsableSince' = UsableSince
      BY <1>1, <2>1 DEF CertificateDeadlineHonest, Renewed, UsableSince, files, identity
    <2>4. ASSUME Renewed, reload.chain = chainFile,
                 chainFile.from <= Anchor + reload.began,
                 reload.began <= UsableSince + ReloadEvery
          PROVE  FALSE
      <3>1. /\ Anchor + reload.began <= reload.clock
            /\ reload.clock <= Anchor + reload.began + MaxAhead
        BY <1>1 DEF ClockFits, Reloading
      <3>2. Lasts(reload.chain, reload.clock)
        BY <2>4, <3>1, UsableFits DEF Lasts, Renewed, Numbers, MinimumRemaining
      <3> QED
        BY <1>4, <2>4, <3>2 DEF Acceptable, Renewed
    <2>5. RenewalPending'
      <3>1. SUFFICES ASSUME Renewed
                     PROVE  /\ reload.due <= UsableSince + ReloadEvery
                            /\ certNow <= UsableSince + ReloadEvery
        BY <1>1, <2>3 DEF RenewalPending, files
      <3>2. /\ reload.due <= UsableSince + ReloadEvery
            /\ reload.began <= UsableSince
            /\ certNow <= reload.began + ReloadTime
        BY <1>1, <1>2, <2>4, <3>1 DEF RenewalPending
      <3> QED
        BY <3>2, UsableFits DEF Numbers
    <2> QED
      BY <1>1, <1>2, <2>2, <2>3, <2>5 DEF StoppedAtDeadline
  <1> QED
    BY <1>3, <1>4

LEMMA StopPreserves ==
  ASSUME CertificateAssumption, CertInv, StopServing
  PROVE  CertInv'
  <1> USE DEF CertificateAssumption, CertInv
  <1>1. /\ serving /\ reload.at # "starting" /\ certNow >= safetyDeadline
        /\ serving' = FALSE /\ reload' = NoReload
        /\ UNCHANGED <<certNow, files, tickingSince, identity>>
    BY DEF StopServing
  <1>2. reload'.at = "rest" /\ reload'.due = 0 /\ reload'.began = 0 /\ reload'.clock = 0
    BY <1>1 DEF NoReload
  <1>3. /\ certNow' = certNow /\ chainFile' = chainFile /\ keyFile' = keyFile
        /\ inPlaceSince' = inPlaceSince /\ tickingSince' = tickingSince
        /\ installed' = installed /\ safetyDeadline' = safetyDeadline
        /\ serving' \in BOOLEAN
    BY <1>1 DEF files, identity
  <1>4. Numbers'
    <2> HIDE DEF CertificateAssumption
    <2> QED
      BY <1>2, <1>3 DEF Numbers
  <1>5. ClockFits' /\ ReloadIsQuick' /\ IntervalKept'
    BY <1>1, <1>2 DEF ClockFits, ReloadIsQuick, Reloading, IntervalKept
  <1>6. CertificateDeadlineHonest' /\ Renewed' = Renewed
    BY <1>1 DEF CertificateDeadlineHonest, Renewed, UsableSince, files, identity
  <1>7. ~Renewed
    <2> SUFFICES ASSUME Renewed PROVE FALSE
      OBVIOUS
    <2>1. certNow <= UsableSince + ReloadEvery + ReloadTime
      BY <1>1, UsableFits DEF RenewalPending, Reloading, Numbers
    <2> QED
      BY <1>1, <2>1, UsableFits DEF Renewed, Numbers
  <1> QED
    BY <1>1, <1>4, <1>6, <1>7, <1>5 DEF RenewalPending, StoppedAtDeadline, identity

LEMMA CertInvStep ==
  ASSUME CertificateAssumption, CertInv, [CertNext]_CertVars
  PROVE  CertInv'
  <1>1. CASE UNCHANGED CertVars
    BY <1>1 DEF CertVars, files, identity, CertInv, Numbers, ClockFits, Reloading,
       ReloadIsQuick, IntervalKept, CertificateDeadlineHonest, RenewalPending,
       StoppedAtDeadline, Renewed, UsableSince
  <1>2. CASE CertNext
    BY <1>2, ElapsePreserves, ReplacePreserves, SpawnPreserves, StartPreserves,
       ReadChainPreserves, ReadKeyPreserves, StopPreserves DEF CertNext
  <1> QED
    BY <1>1, <1>2

-----------------------------------------------------------------------------
(* The deadline leaves the margin of the chain that is presented, by the   *)
(* clock the server started with, wherever the wall clock goes             *)
(* (server_config.rs: refresh_once, monotonic_unix_seconds).               *)
THEOREM DeadlineIsHonest == CertSpec => []CertificateDeadlineHonest
  <1>1. CertInit => CertInv
    BY CertInvInit, CertificateAssumption
  <1>2. CertInv /\ [CertNext]_CertVars => CertInv'
    BY CertInvStep, CertificateAssumption
  <1>3. CertInv => CertificateDeadlineHonest
    BY DEF CertInv
  <1> QED
    BY <1>1, <1>2, <1>3, PTL DEF CertSpec

(* The server does not stop over a renewal that was usable an interval and *)
(* a reload before its deadline: its chain and key in place, the chain     *)
(* valid already, and the interval running (server_config.rs:              *)
(* refresh_once, validate_certificate_lifetimes;                           *)
(* secure_dedicated_server.rs: refresh_before_ready, spawn_tls_refresh).   *)
THEOREM RenewalsAreInTime == CertSpec => []RenewalIsInTime
  <1>1. CertInit => CertInv
    BY CertInvInit, CertificateAssumption
  <1>2. CertInv /\ [CertNext]_CertVars => CertInv'
    BY CertInvStep, CertificateAssumption
  <1>3. CertInv => RenewalIsInTime
    BY DEF CertInv, StoppedAtDeadline, RenewalIsInTime
  <1> QED
    BY <1>1, <1>2, <1>3, PTL DEF CertSpec
=============================================================================
