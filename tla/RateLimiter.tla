----------------------------- MODULE RateLimiter -----------------------------
(***************************************************************************)
(* The SlidingWindowLimiter of app.py that device_flow_init asks first,    *)
(* for the calls of one client address.                                    *)
(*                                                                         *)
(* Handlers run in a pool of threads and hit() takes no lock: every access *)
(* to the deque is a step of its own, and time passes between any two of   *)
(* them.  A call reads the clock once, when it begins, and appends that    *)
(* reading at the end, so the deque need not be sorted.                    *)
(***************************************************************************)
EXTENDS Integers, FiniteSets, Sequences

CONSTANTS
  Callers,   \* threads that serve this address
  Limit,     \* DEVICE_CODE_RATE_LIMIT (15)
  Window,    \* DEVICE_CODE_RATE_WINDOW (one hour), in ticks of the clock
  MaxTime,   \* bound: last tick of the clock
  MaxCalls   \* bound: calls that are recorded

ASSUME LimiterAssumption == Limit \in Nat \ {0} /\ Window \in Nat \ {0}

VARIABLES
  time,       \* the clock; it does not go back
  hitting,    \* by caller: the step of hit() it is about to take, or how its call ended
  now,        \* by caller: the clock when its call began
  bucket,     \* the deque: readings of the clock
  history     \* every call that was recorded: its reading, and the time of its append

limiterVars == <<time, hitting, now, bucket, history>>

HitSteps == {"look", "peek", "forget", "count", "admit"}
InHit == {c \in Callers : hitting[c] \in HitSteps}

LimiterInit ==
  /\ time = 0
  /\ hitting = [c \in Callers |-> "away"]
  /\ now = [c \in Callers |-> 0]
  /\ bucket = << >>
  /\ history = << >>

Proceed(c, step) == hitting' = [hitting EXCEPT ![c] = step]

\* A pool thread begins the next call when it is done with the last.
Call(c) ==
  /\ c \notin InHit
  /\ Len(history) + Cardinality(InHit) < MaxCalls
  /\ Proceed(c, "look")
  /\ now' = [now EXCEPT ![c] = time]
  /\ UNCHANGED <<time, bucket, history>>

\* "while bucket and ..."
LookForCalls(c) ==
  /\ hitting[c] = "look"
  /\ Proceed(c, IF bucket = << >> THEN "count" ELSE "peek")
  /\ UNCHANGED <<time, now, bucket, history>>

\* "... bucket[0] <= cutoff", which raises when another caller emptied the deque.
PeekAtOldest(c) ==
  /\ hitting[c] = "peek"
  /\ Proceed(c, IF bucket = << >> THEN "away"
                ELSE IF bucket[1] <= now[c] - Window THEN "forget" ELSE "count")
  /\ UNCHANGED <<time, now, bucket, history>>

\* Another caller may have forgotten that one: then a later one goes, or popleft raises.
Forget(c) ==
  /\ hitting[c] = "forget"
  /\ IF bucket = << >> THEN Proceed(c, "away") /\ UNCHANGED bucket
                       ELSE Proceed(c, "look") /\ bucket' = Tail(bucket)
  /\ UNCHANGED <<time, now, history>>

\* Mutant: the deque keeps the last Limit calls, refused ones too.
CountEveryCall(c) ==
  /\ hitting[c] = "count"
  /\ IF Len(bucket) >= Limit
       THEN Proceed(c, "refused") /\ bucket' = Append(Tail(bucket), now[c])
       ELSE Proceed(c, "admit") /\ UNCHANGED bucket
  /\ UNCHANGED <<time, now, history>>

CountCalls(c) ==
  /\ hitting[c] = "count"
  /\ Proceed(c, IF Len(bucket) >= Limit THEN "refused" ELSE "admit")
  /\ UNCHANGED <<time, now, bucket, history>>

AdmitCall(c) ==
  /\ hitting[c] = "admit" /\ Proceed(c, "away")
  /\ bucket' = Append(bucket, now[c])
  /\ history' = Append(history, [read |-> now[c], at |-> time])
  /\ UNCHANGED <<time, now>>

TimePasses ==
  /\ time < MaxTime
  /\ time' = time + 1
  /\ UNCHANGED <<hitting, now, bucket, history>>

LimiterNext ==
  \/ \E c \in Callers :
       \/ Call(c) \/ LookForCalls(c) \/ PeekAtOldest(c) \/ Forget(c)
       \/ CountCalls(c) \/ AdmitCall(c)
  \/ TimePasses

LimiterSpec == LimiterInit /\ [][LimiterNext]_limiterVars
-----------------------------------------------------------------------------
(* Properties *)

LimiterTypeOK ==
  /\ time \in Nat
  /\ hitting \in [Callers -> HitSteps \cup {"away", "refused"}]
  /\ now \in [Callers -> Nat]
  /\ bucket \in Seq(Nat)
  /\ history \in Seq([read : Nat, at : Nat])

\* The calls recorded less than Window before the call of c began, or since.
RecordedFor(c) == {k \in DOMAIN history : history[k].at > now[c] - Window}

\* "False if `key` has already reached the limit within the current window": nobody is
\* refused for calls recorded before the window of the refused call, or for calls that
\* were themselves refused, however long each thread takes between reading the clock,
\* pruning, counting and appending.  (The converse is not so: threads that count, or
\* prune, at the same time admit more than Limit.)
RefusalsAreDue ==
  \A c \in Callers : hitting[c] = "refused" => Cardinality(RecordedFor(c)) >= Limit
=============================================================================
