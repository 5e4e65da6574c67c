----------------------------- MODULE InboxFeed -----------------------------
(***************************************************************************)
(* One OrderedDeltaInbox fed by a network that may deliver any datagram of *)
(* one world's packets at any moment and again later: every loss,          *)
(* duplication and reordering of the stream 1 .. Len(Fragments).           *)
(***************************************************************************)
EXTENDS DeltaInbox, Sequences

CONSTANT Fragments   \* Fragments[s]: how many frames packet s is encoded in

ASSUME FragmentsAssumption == Fragments \in Seq(Nat \ {0})

VARIABLES
  inbox,     \* the OrderedDeltaInbox
  fault,     \* the error that ended it, with the sequence that met it
  arrived    \* history: every frame the inbox accepted or rejected so far

vars == <<inbox, fault, arrived>>

Stream == UNION {Packet(s, Fragments[s]) : s \in DOMAIN Fragments}

NoFault == [kind |-> "none", seq |-> 0]

FaultKinds == {"none", "pending", "complete"}

Init ==
  /\ inbox = EmptyInbox(1)
  /\ fault = NoFault
  /\ arrived = {}

Arrives(f) == fault = NoFault /\ arrived' = arrived \cup {f}

Retain(f) ==
  /\ Arrives(f)
  /\ Retains(inbox, f)
  /\ inbox' = AfterRetaining(inbox, f)
  /\ UNCHANGED fault

Ignore(f) ==
  /\ Arrives(f)
  /\ Ignores(inbox, f)
  /\ inbox' = Taken(inbox, f)
  /\ UNCHANGED fault

Release(f) ==
  /\ Arrives(f)
  /\ Releases(inbox, f)
  /\ \E n \in inbox.next + 1 .. inbox.next + 1 + MaxCompletePackets :
       /\ EndsAt(inbox, n)
       /\ inbox' = AfterRelease(inbox, f, n)
  /\ UNCHANGED fault

Buffer(f) ==
  /\ Arrives(f)
  /\ Buffers(inbox, f)
  /\ inbox' = AfterBuffering(inbox, f)
  /\ UNCHANGED fault

Refuse(f) ==
  /\ Arrives(f)
  /\ Refused(inbox, f)
  /\ inbox' = AfterRefusal(inbox, f)
  /\ fault' = [kind |-> "pending", seq |-> f.seq]

Overflow(f) ==
  /\ Arrives(f)
  /\ Overflows(inbox, f)
  /\ inbox' = Taken(inbox, f)
  /\ fault' = [kind |-> "complete", seq |-> f.seq]

Next ==
  \E f \in Stream :
    \/ Retain(f)
    \/ Ignore(f)
    \/ Release(f)
    \/ Buffer(f)
    \/ Refuse(f)
    \/ Overflow(f)

Spec == Init /\ [][Next]_vars

--------------------------------------------------------------------------
\* The inbox holds frames of the stream within its four limits.
TypeOK ==
  /\ inbox \in Inbox
  /\ inbox.pending \cup inbox.complete \subseteq arrived
  /\ arrived \subseteq Stream
  /\ Cardinality(SequencesOf(inbox.pending)) <= MaxPendingPackets
  /\ Cardinality(inbox.pending) <= MaxPendingFrames
  /\ Cardinality(SequencesOf(inbox.complete)) <= MaxCompletePackets
  /\ Cardinality(inbox.complete) <= MaxCompleteFrames
  /\ fault \in [kind : FaultKinds, seq : 0 .. Len(Fragments)]

Arrived(s) == Packet(s, Fragments[s]) \subseteq arrived

\* Until it fails, the inbox has released exactly the packets before the
\* first one with a missing fragment: it neither releases a packet early or
\* out of order nor withholds one that is due, whatever the order, the losses
\* and the duplicates of the frames (OrderedDeltaInbox::push).
ReleasesWhatIsDue ==
  fault = NoFault =>
    /\ \A s \in 1 .. inbox.next - 1 : Arrived(s)
    /\ inbox.next \in DOMAIN Fragments => ~Arrived(inbox.next)

\* Every complete packet that waits is a future one and waits whole, and it
\* is behind a gap: nothing complete is kept that could be released.
WaitingBehindGap ==
  /\ \A f \in inbox.complete :
       f.seq > inbox.next /\ Packet(f.seq, f.count) \subseteq inbox.complete
  /\ \A s \in DOMAIN Fragments :
       s > inbox.next /\ Arrived(s) /\ fault = NoFault =>
         s \in SequencesOf(inbox.complete)

\* "The missing packet is immediately deliverable, not another retained
\* future packet.  Admit it even at the future-queue limit so repair can
\* release that bounded queue": the packet the inbox waits for is not
\* rejected for want of room.  (network.rs, OrderedDeltaInbox::push.)
MissingPacketAdmitted == fault.seq # inbox.next

===========================================================================
