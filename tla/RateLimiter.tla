------------------------------ MODULE RateLimiter ------------------------------
(***************************************************************************)
(* The limiter of LLM calls (RateLimiter of runtime/concurrency.py) behind *)
(* every call of llm/rate_limited.py: a place in the window of the last    *)
(* minute, then one of the concurrent slots.                               *)
(*                                                                         *)
(* Time goes in Window ticks a minute.  A sleep may last longer than it    *)
(* was asked to.                                                          *)
(***************************************************************************)
EXTENDS Integers, FiniteSets, SequencesExt

CONSTANTS
  RateCalls,       (* calls: chat, stream and ask alike                    *)
  Window,          (* 60 seconds                                           *)
  Rpm,             (* requests_per_minute                                  *)
  MaxConcurrent,   (* max_concurrent                                       *)
  RateTimeout,     (* queue_timeout, 0 for none                            *)
  MaxRateClock     (* bound: time                                          *)

ASSUME RateAssumption ==
  /\ IsFiniteSet(RateCalls) /\ {Window, Rpm, MaxConcurrent} \subseteq Nat \ {0}
  /\ {RateTimeout, MaxRateClock} \subseteq Nat

VARIABLES
  rateClock,
  callPhase,       (* new, asking, placed, running, done or failed         *)
  askedAt,         (* when a call asked for a place, later for a slot      *)
  wake,            (* when the sleep of a call that asks ends              *)
  timestamps,      (* _timestamps                                          *)
  placedAt         (* history: the times at which places were given        *)

rateVars == <<rateClock, callPhase, askedAt, wake, timestamps, placedAt>>

RateInit ==
  /\ rateClock = 0
  /\ callPhase = [c \in RateCalls |-> "new"]
  /\ askedAt = [c \in RateCalls |-> 0] /\ wake = [c \in RateCalls |-> 0]
  /\ timestamps = <<>> /\ placedAt = [c \in RateCalls |-> -1]

RateTick ==
  /\ rateClock < MaxRateClock
  /\ rateClock' = rateClock + 1
  /\ UNCHANGED <<callPhase, askedAt, wake, timestamps, placedAt>>

(* chat, stream and ask of the wrapper enter slot.                         *)
Ask(c) ==
  /\ callPhase[c] = "new"
  /\ callPhase' = [callPhase EXCEPT ![c] = "asking"]
  /\ askedAt' = [askedAt EXCEPT ![c] = rateClock]
  /\ wake' = [wake EXCEPT ![c] = rateClock]
  /\ UNCHANGED <<rateClock, timestamps, placedAt>>

(* The places still counted: popleft takes those that are old, up to the   *)
(* first that is not.  Defect: a place is given up a tick early.           *)
Popped(age) == {n \in DOMAIN timestamps : \A m \in 1..n : rateClock - timestamps[m] >= age}
CountedFrom(age) == SubSeq(timestamps, Cardinality(Popped(age)) + 1, Len(timestamps))
CountedShort == CountedFrom(Window - 1)
Counted == CountedFrom(Window)

(* One turn of the loop of _acquire_rpm: a place, the error, or a sleep    *)
(* until the oldest place is given up.                                     *)
AcquireRpm(c) ==
  /\ callPhase[c] = "asking" /\ wake[c] <= rateClock
  /\ IF Len(Counted) < Rpm
       THEN /\ timestamps' = Append(Counted, rateClock)
            /\ callPhase' = [callPhase EXCEPT ![c] = "placed"]
            /\ placedAt' = [placedAt EXCEPT ![c] = rateClock]
            /\ askedAt' = [askedAt EXCEPT ![c] = rateClock]
            /\ wake' = [wake EXCEPT ![c] = 0]
       ELSE LET until == Head(Counted) + Window IN
            /\ timestamps' = Counted
            /\ UNCHANGED <<placedAt, askedAt>>
            /\ IF RateTimeout > 0 /\ until > askedAt[c] + RateTimeout
                 THEN callPhase' = [callPhase EXCEPT ![c] = "failed"] /\ UNCHANGED wake
                 ELSE wake' = [wake EXCEPT ![c] = until] /\ UNCHANGED callPhase
  /\ UNCHANGED rateClock

(* ExecutionLimiter.slot of the concurrent calls.                          *)
EnterSlot(c) ==
  /\ callPhase[c] = "placed"
  /\ Cardinality({d \in RateCalls : callPhase[d] = "running"}) < MaxConcurrent
  /\ callPhase' = [callPhase EXCEPT ![c] = "running"]
  /\ askedAt' = [askedAt EXCEPT ![c] = 0]
  /\ UNCHANGED <<rateClock, wake, timestamps, placedAt>>

SlotTimesOut(c) ==
  /\ callPhase[c] = "placed" /\ RateTimeout > 0 /\ rateClock >= askedAt[c] + RateTimeout
  /\ callPhase' = [callPhase EXCEPT ![c] = "failed"]
  /\ UNCHANGED <<rateClock, askedAt, wake, timestamps, placedAt>>

LeaveSlot(c) ==
  /\ callPhase[c] = "running"
  /\ callPhase' = [callPhase EXCEPT ![c] = "done"]
  /\ UNCHANGED <<rateClock, askedAt, wake, timestamps, placedAt>>

RateNext ==
  \/ RateTick
  \/ \E c \in RateCalls :
       Ask(c) \/ AcquireRpm(c) \/ EnterSlot(c) \/ SlotTimesOut(c) \/ LeaveSlot(c)

RateFair ==
  WF_rateVars(\E c \in RateCalls :
                AcquireRpm(c) \/ EnterSlot(c) \/ SlotTimesOut(c) \/ LeaveSlot(c))
RateSpec == RateInit /\ [][RateNext]_rateVars

--------------------------------------------------------------------------------
RateTypeOK ==
  /\ callPhase \in [RateCalls -> {"new", "asking", "placed", "running", "done", "failed"}]
  /\ timestamps \in Seq(0..MaxRateClock) /\ Len(timestamps) <= Rpm
  /\ placedAt \in [RateCalls -> -1..MaxRateClock]

(* In any minute, wherever it begins, no more than requests_per_minute     *)
(* calls were given a place.                                               *)
PlacesPerWindow ==
  \A t \in 0..MaxRateClock :
    Cardinality({c \in RateCalls : placedAt[c] \in t..(t + Window - 1)}) <= Rpm
================================================================================
