---------------------------- MODULE RateLimiter ----------------------------
(***************************************************************************)
(* RateLimiter::check, called by handlers on several threads: a sliding    *)
(* window of instants per (peer address, bucket).                          *)
(*                                                                         *)
(* check() reads the clock before it takes the lock, so instants enter a   *)
(* window in the order of the lock and not in the order of the clock.  A   *)
(* caller that has read the clock is a pc of its own; at most Delay passes *)
(* before it gets the lock.                                                *)
(***************************************************************************)
EXTENDS Naturals, Sequences, FiniteSets

CONSTANTS
    Key,        \* (peer address, bucket)
    Limit,      \* Limit[k] : max_requests of k's bucket
    Window,     \* its window
    Second,     \* one second, in the model's unit of time
    Caller,     \* threads
    Delay,      \* bound: the time between reading the clock and the lock
    MaxTime,    \* bound: the clock stops there
    MaxChecks   \* bound: checks in a behaviour

ASSUME LimiterAssumption ==
    /\ Limit \in [Key -> Nat \ {0}]
    /\ {Window, Second, Delay, MaxTime, MaxChecks} \subseteq Nat
    /\ Second > 0

VARIABLES
    clock,
    timestamps,     \* timestamps[k] : the VecDeque of k's BucketState
    caller,         \* the key and instant of a check that waits for the lock
    answers         \* the checks answered so far, as they were answered

vars == <<clock, timestamps, caller, answers>>

Outside == [key |-> "none", now |-> 0]

Init ==
    /\ clock = 0
    /\ timestamps = [k \in Key |-> <<>>]
    /\ caller = [c \in Caller |-> Outside]
    /\ answers = <<>>

ReadClock(c, k) ==
    /\ caller[c] = Outside
    /\ Len(answers) < MaxChecks
    /\ caller' = [caller EXCEPT ![c] = [key |-> k, now |-> clock]]
    /\ UNCHANGED <<clock, timestamps, answers>>

(* duration_since saturates at 0 when `earlier` is the later one. *)
Since(now, earlier) == IF earlier > now THEN 0 ELSE now - earlier

(* In the mutants an instant expires one unit early, or late. *)
ExpiredEarly(instant, now) == Since(now, instant) + 1 >= Window
ExpiredLate(instant, now) == Since(now, instant) > Window
Expired(instant, now) == Since(now, instant) >= Window

(* Only the front is popped: what is behind a younger instant stays. *)
Fresh(queue, now) ==
    LET kept == {i \in 1..Len(queue) : ~Expired(queue[i], now)}
        first == IF kept = {} THEN Len(queue) + 1
                 ELSE CHOOSE i \in kept : \A j \in kept : i <= j
    IN SubSeq(queue, first, Len(queue))

(* In the mutant the window takes one more than the limit. *)
AdmitsOneMore(queue, k) == Len(queue) <= Limit[k]
Admits(queue, k) == Len(queue) < Limit[k]

(* Retry-After: the time until the front expires, plus 50 ms, in whole
   seconds and at least one.  50 ms are less than the unit of time, so they
   never carry the quotient over.  In the mutant it is the age of the front. *)
AgeOfFront(queue, now) == Since(now, Head(queue)) \div Second

RetryAfter(queue, now) ==
    LET seconds == Since(Window, Since(now, Head(queue))) \div Second
    IN IF seconds = 0 THEN 1 ELSE seconds

Check(c) ==
    LET k == caller[c].key
        now == caller[c].now
        queue == Fresh(timestamps[k], now)
        admitted == Admits(queue, k) IN
    /\ caller[c] # Outside
    /\ timestamps' = [timestamps EXCEPT ![k] =
                         IF admitted THEN Append(queue, now) ELSE queue]
    /\ answers' = Append(answers,
          [key |-> k, at |-> clock, admitted |-> admitted,
           retry |-> IF admitted THEN 0 ELSE RetryAfter(queue, now) * Second])
    /\ caller' = [caller EXCEPT ![c] = Outside]
    /\ UNCHANGED clock

Tick ==
    /\ clock < MaxTime
    /\ \A c \in Caller : caller[c] # Outside => clock < caller[c].now + Delay
    /\ clock' = clock + 1
    /\ UNCHANGED <<timestamps, caller, answers>>

Next == Tick \/ \E c \in Caller : Check(c) \/ \E k \in Key : ReadClock(c, k)

Spec == Init /\ [][Next]_vars

-----------------------------------------------------------------------------

TypeOK ==
    /\ clock \in 0..MaxTime
    /\ \A k \in Key : /\ Len(timestamps[k]) <= Limit[k]
                      /\ \A i \in 1..Len(timestamps[k]) :
                            timestamps[k][i] \in 0..clock
    /\ \A c \in Caller : caller[c] # Outside => caller[c].key \in Key

Admissions(k, from, to) ==
    {i \in 1..Len(answers) : /\ answers[i].key = k
                             /\ answers[i].admitted
                             /\ answers[i].at \in from..to}

(* No more than the limit gets through in any stretch of time shorter than
   the window, less the time a caller may sit on the instant it has read. *)
NeverOverLimit ==
    \A k \in Key : \A to \in 0..clock :
        LET from == Since(to + Delay + 1, Window)
        IN Cardinality(Admissions(k, from, to)) <= Limit[k]

(* Nobody is refused for requests that are long past: whoever is refused was
   preceded by the full number of admissions within the window and that time,
   although an instant that has expired is kept behind a younger one. *)
RefusedOnlyWhenBusy ==
    \A i \in 1..Len(answers) :
        LET a == answers[i]
            from == Since(a.at, Window + Delay - 1)
        IN ~a.admitted =>
              Cardinality({j \in Admissions(a.key, from, a.at) : j < i})
                 >= Limit[a.key]

(* The time that Retry-After tells a caller to wait, rate_limit.rs:104-110, is
   cut down to whole seconds in routes.rs:25, and so may be short of the oldest
   instant's expiry, but by less than a second: who waits that much longer is
   not refused again when nobody else asked in between. *)
RetryAfterAlmostSuffices ==
    \A i \in 2..Len(answers) :
        LET refused == answers[i - 1]
            due == refused.at + refused.retry + Second + Delay - 1 IN
        ~ /\ ~refused.admitted
          /\ ~answers[i].admitted
          /\ answers[i].key = refused.key
          /\ answers[i].at >= due
=============================================================================
