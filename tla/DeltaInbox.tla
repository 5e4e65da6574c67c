---------------------------- MODULE DeltaInbox ----------------------------
(***************************************************************************)
(* The client's OrderedDeltaInbox (src/network.rs) on top of the           *)
(* FrameAssembler (src/replication.rs): datagrams of world deltas arrive   *)
(* lost, duplicated and reordered; whole packets leave in sequence order.  *)
(*                                                                         *)
(* A datagram is the record of a frame's header: sequence, fragment index  *)
(* and fragment count.  Its payload is determined by these three, since    *)
(* one authority encodes each packet once, so the branches that compare    *)
(* payloads or metadata of one sequence (InconsistentFragment) are not     *)
(* reachable and are left out.  Retained bytes are counted in frames.      *)
(***************************************************************************)
EXTENDS Integers, FiniteSets

CONSTANTS
  MaxPendingPackets,   \* MAX_PENDING_PACKETS: incomplete packets held
  MaxPendingFrames,    \* MAX_PENDING_BYTES, in frames
  MaxCompletePackets,  \* MAX_COMPLETE_PACKETS: complete future packets held
  MaxCompleteFrames    \* MAX_COMPLETE_PACKET_BYTES, in frames

ASSUME InboxAssumption ==
  /\ MaxPendingPackets \in Nat \ {0}
  /\ MaxPendingFrames \in Nat \ {0}
  /\ MaxCompletePackets \in Nat
  /\ MaxCompleteFrames \in Nat

Frame == [seq: Nat \ {0}, index: Nat \ {0}, count: Nat \ {0}]

(* pending: the fragments of incomplete packets; complete: the fragments   *)
(* of complete packets that wait for an earlier one; next: the sequence    *)
(* that is released next.                                                  *)
Inbox == [pending: SUBSET Frame, complete: SUBSET Frame, next: Nat \ {0}]

EmptyInbox(sequence) ==
  [pending |-> {}, complete |-> {}, next |-> sequence]

Packet(sequence, count) ==
  {[seq |-> sequence, index |-> i, count |-> count] : i \in 1..count}

SequencesOf(frames) == {f.seq : f \in frames}

Without(frames, sequence) == {f \in frames : f.seq # sequence}

--------------------------------------------------------------------------
(* FrameAssembler::push                                                    *)

\* A fragment of a sequence not yet tracked, when no more can be tracked.
TooManyPendingPackets(b, f) ==
  /\ f.seq \notin SequencesOf(b.pending)
  /\ Cardinality(SequencesOf(b.pending)) >= MaxPendingPackets

TooManyPendingBytes(b, f) ==
  /\ f \notin b.pending
  /\ Cardinality(b.pending) >= MaxPendingFrames

Assembles(b, f) ==
  /\ ~TooManyPendingPackets(b, f)
  /\ ~TooManyPendingBytes(b, f)
  /\ Packet(f.seq, f.count) \subseteq b.pending \cup {f}

--------------------------------------------------------------------------
(* OrderedDeltaInbox::push: the ways one frame changes the inbox.  Exactly *)
(* one of Refused, Retains, Ignores, Releases, Overflows and Buffers holds.*)

Refused(b, f) == TooManyPendingPackets(b, f) \/ TooManyPendingBytes(b, f)

\* The byte limit drops what was held of the sequence; the packet limit
\* rejects the frame before anything is touched.
AfterRefusal(b, f) ==
  IF TooManyPendingPackets(b, f)
  THEN b
  ELSE [b EXCEPT !.pending = Without(@, f.seq)]

Retains(b, f) == ~Refused(b, f) /\ ~Assembles(b, f)

AfterRetaining(b, f) == [b EXCEPT !.pending = @ \cup {f}]

Taken(b, f) == [b EXCEPT !.pending = Without(@, f.seq)]

Ignores(b, f) ==
  /\ Assembles(b, f)
  /\ f.seq < b.next \/ (f.seq > b.next /\ f.seq \in SequencesOf(b.complete))

Releases(b, f) == Assembles(b, f) /\ f.seq = b.next

\* Mutant: only the missing packet is released, not those behind it.
EndsAfterOne(b, n) == n = b.next + 1

\* The first sequence after the released run: the run ends before the
\* first sequence that is not waiting complete.
EndsAt(b, n) ==
  /\ n > b.next
  /\ n \notin SequencesOf(b.complete)
  /\ \A s \in b.next + 1 .. n - 1 : s \in SequencesOf(b.complete)

AfterRelease(b, f, n) ==
  [pending  |-> Without(b.pending, f.seq),
   complete |-> {g \in b.complete : g.seq \notin b.next + 1 .. n - 1},
   next     |-> n]

Overflows(b, f) ==
  /\ Assembles(b, f)
  /\ f.seq > b.next
  /\ f.seq \notin SequencesOf(b.complete)
  /\ \/ Cardinality(SequencesOf(b.complete)) >= MaxCompletePackets
     \/ Cardinality(b.complete) + f.count > MaxCompleteFrames

Buffers(b, f) ==
  /\ Assembles(b, f)
  /\ f.seq > b.next
  /\ f.seq \notin SequencesOf(b.complete)
  /\ ~Overflows(b, f)

AfterBuffering(b, f) ==
  [Taken(b, f) EXCEPT !.complete = @ \cup Packet(f.seq, f.count)]
===========================================================================
