----------------------------- MODULE RepairTimer -----------------------------
(***************************************************************************)
(* When the graphical client asks for a missing delta: AdaptiveRepairTimer *)
(* (src/network_timing.rs) as repair_delta_if_needed, receive_world_delta  *)
(* and receive_snapshot of bin/multiplayer_demo.rs use it.  The ordered    *)
(* inbox is reduced to the sequence it expects and the complete packets    *)
(* that wait behind it; deltas arrive in any order, late, and repeated.    *)
(* While the client waits for a snapshot it neither takes deltas nor asks  *)
(* for them, and the timer does not change.                                *)
(***************************************************************************)
EXTENDS Integers, Sequences

CONSTANTS
  MinRto, InitialRto, MaxRto,          \* MIN_, INITIAL_, MAX_REPAIR_RTO
  MinGrace, InitialGrace, MaxGrace,    \* MIN_, INITIAL_, MAX_REORDER_GRACE
  Granularity,                         \* MIN_CLOCK_GRANULARITY_US
  MaxTimerTime, LastDelta              \* bounds of the clock and the sequence

ASSUME TimerAssumption ==
  /\ {MinRto, InitialRto, MaxRto, MinGrace, InitialGrace, MaxGrace, Granularity,
      LastDelta} \subseteq Nat \ {0}
  /\ MinRto <= InitialRto /\ InitialRto <= MaxRto
  /\ MinGrace <= InitialGrace /\ InitialGrace <= MaxGrace
  /\ MaxTimerTime \in Nat

VARIABLES
  timerNow,
  expected, waiting, \* the inbox
  gapSince,          \* delta_gap_since
  probe,             \* the request whose answer is waited for
  rto,               \* retransmission_timeout_us
  smoothed,          \* smoothed_rtt_us
  variance,          \* rtt_variance_us
  askedAt,           \* when each delta was asked for (auxiliary)
  sample             \* the last round trip that was used (auxiliary)

estimate == <<rto, smoothed, variance>>
TimerVars == <<timerNow, expected, waiting, gapSince, probe, estimate, askedAt, sample>>

Unknown == -1

NoProbe == [sequence |-> 0, first |-> 0, latest |-> 0, again |-> FALSE]
NoSample == [of |-> 0, trip |-> 0, at |-> 0]

AtLeast(x, low) == IF x < low THEN low ELSE x
AtMost(x, high) == IF x > high THEN high ELSE x
Distance(x, y) == IF x > y THEN x - y ELSE y - x

TimerInit ==
  /\ timerNow = 0
  /\ expected = 1 /\ waiting = {}
  /\ gapSince = Unknown
  /\ probe = NoProbe
  /\ rto = InitialRto /\ smoothed = Unknown /\ variance = 0
  /\ askedAt = [s \in 1..LastDelta |-> <<>>]
  /\ sample = NoSample

-----------------------------------------------------------------------------
TimerElapse ==
  /\ timerNow < MaxTimerTime
  /\ timerNow' = timerNow + 1
  /\ UNCHANGED <<expected, waiting, gapSince, probe, estimate, askedAt, sample>>

-----------------------------------------------------------------------------
(* observe_sequence and update_estimate                                    *)

Completes(next) == probe # NoProbe /\ probe.sequence < next

UsableAnyway(p) == TRUE

(* Karn: the answer to a request that was repeated may be of any of them.  *)
Usable(p) == ~p.again

Trip == AtLeast(timerNow - probe.first, 1)

Variance(trip) ==
  IF smoothed = Unknown THEN trip \div 2
  ELSE (variance * 3 + Distance(smoothed, trip)) \div 4

Smoothed(trip) ==
  IF smoothed = Unknown THEN trip ELSE (smoothed * 7 + trip) \div 8

UpdateEstimate(trip) ==
  /\ variance' = Variance(trip)
  /\ smoothed' = Smoothed(trip)
  /\ rto' = AtMost(AtLeast(Smoothed(trip) + AtLeast(Variance(trip) * 4, Granularity),
                           MinRto), MaxRto)
  /\ sample' = [of |-> probe.sequence, trip |-> trip, at |-> timerNow]

Observe(next) ==
  /\ probe' = IF Completes(next) THEN NoProbe ELSE probe
  /\ IF Completes(next) /\ Usable(probe) THEN UpdateEstimate(Trip)
     ELSE UNCHANGED <<estimate, sample>>

-----------------------------------------------------------------------------
(* receive_world_delta, for the last frame of a packet: it is released     *)
(* with the run behind it, waits, or was there already.                    *)

ReleaseDelta ==
  \E next \in expected + 1..LastDelta + 1 :
    /\ expected + 1..next - 1 \subseteq waiting /\ next \notin waiting
    /\ expected' = next
    /\ waiting' = {s \in waiting : s > next}
    /\ gapSince' = Unknown
    /\ Observe(next)
    /\ UNCHANGED <<timerNow, askedAt>>

KeepDelta(s) ==
  /\ s # expected
  /\ waiting' = IF s > expected THEN waiting \cup {s} ELSE waiting
  /\ gapSince' = IF waiting' # {} /\ gapSince = Unknown THEN timerNow ELSE gapSince
  /\ Observe(expected)
  /\ UNCHANGED <<timerNow, expected, askedAt>>

(* receive_snapshot: clear_probe.  A snapshot holds what is waiting.       *)
ReplaceWorld(next) ==
  /\ next >= expected
  /\ \A s \in waiting : s < next
  /\ expected' = next
  /\ waiting' = {}
  /\ gapSince' = Unknown
  /\ probe' = NoProbe
  /\ UNCHANGED <<timerNow, estimate, askedAt, sample>>

-----------------------------------------------------------------------------
(* repair_delta_if_needed                                                  *)

Grace ==
  AtMost(AtLeast(IF smoothed = Unknown THEN InitialGrace ELSE smoothed, MinGrace), MaxGrace)

SendDue(s) ==
  probe # NoProbe /\ probe.sequence = s => timerNow - probe.latest >= rto

(* record_send                                                             *)
RecordSend(s) ==
  IF probe # NoProbe /\ probe.sequence = s
  THEN /\ probe' = [probe EXCEPT !.latest = AtLeast(@, timerNow), !.again = TRUE]
       /\ rto' = AtMost(rto * 2, MaxRto)
  ELSE /\ probe' = [sequence |-> s, first |-> timerNow, latest |-> timerNow,
                    again |-> FALSE]
       /\ UNCHANGED rto

AskForDelta ==
  /\ gapSince # Unknown
  /\ timerNow - gapSince >= Grace
  /\ SendDue(expected)
  /\ RecordSend(expected)
  /\ askedAt' = [askedAt EXCEPT ![expected] = Append(@, timerNow)]
  /\ UNCHANGED <<timerNow, expected, waiting, gapSince, smoothed, variance, sample>>

-----------------------------------------------------------------------------
TimerNext ==
  \/ TimerElapse \/ ReleaseDelta \/ AskForDelta
  \/ \E s \in 1..LastDelta : KeepDelta(s)
  \/ \E next \in 1..LastDelta + 1 : ReplaceWorld(next)

TimerSpec == TimerInit /\ [][TimerNext]_TimerVars

-----------------------------------------------------------------------------
TimerTypeOK ==
  /\ timerNow \in 0..MaxTimerTime
  /\ expected \in 1..LastDelta + 1
  /\ waiting \subseteq expected + 1..LastDelta
  /\ gapSince \in -1..MaxTimerTime
  /\ probe \in [sequence: 0..LastDelta, first: Nat, latest: Nat, again: BOOLEAN]
  /\ rto \in MinRto..MaxRto
  /\ smoothed \in Int /\ variance \in Nat
  /\ askedAt \in [1..LastDelta -> Seq(Nat)]
  /\ sample \in [of: 0..LastDelta, trip: Nat, at: Nat]

(* A round trip is measured from the only request for the delta that ended *)
(* it; an answer that may be to another request is not used                *)
(* (network_timing.rs: observe_sequence).                                  *)
SampleIsUnambiguous ==
  sample # NoSample =>
    /\ Len(askedAt[sample.of]) = 1
    /\ sample.trip = AtLeast(sample.at - askedAt[sample.of][1], 1)
=============================================================================
