--------------------------- MODULE LimiterProofs ---------------------------
(***************************************************************************)
(* Proofs about RateLimiter, for every limit, window and delay and any     *)
(* number of callers: the windows keep their types, and what check()       *)
(* admits, refuses and promises with Retry-After is within its bounds.     *)
(***************************************************************************)
EXTENDS RateLimiter, FiniteSetTheorems, SequenceTheorems,
        WellFoundedInduction, TLAPS

-----------------------------------------------------------------------------
(* Facts about numbers and queues. *)

(* A quotient, rounded down, falls short of what it divides by less than the
   divisor. *)
LEMMA DivBounds ==
  ASSUME NEW a \in Nat, NEW s \in Nat \ {0}
  PROVE  /\ a \div s \in Nat
         /\ a < (a \div s) * s + s
  <1>1. a \div s \in Int /\ a % s \in 0..(s-1)
    BY SMT
  <1>2. a = s * (a \div s) + (a % s)
    BY SMT
  <1> QED
    BY <1>1, <1>2, Z3

(* A bounded set of numbers has a least element. *)
LEMMA LeastElement ==
  ASSUME NEW n \in Nat, NEW S \in SUBSET (1..n), S # {}
  PROVE  \E m \in S : \A j \in S : m <= j
  <1> DEFINE Below == {1..i : i \in S}
             R == StrictSubsetOrdering(1..n)
  <1>1. IsWellFoundedOn(R, SUBSET (1..n))
    <2>1. IsFiniteSet(1..n)
      BY FS_Interval
    <2>2. FiniteSubsetsOf(1..n) = SUBSET (1..n)
      BY <2>1, FS_FiniteSubsetsOfFinite, Zenon
    <2>3. IsWellFoundedOn(R, FiniteSubsetsOf(1..n))
      BY FS_StrictSubsetOrderingWellFounded, Zenon
    <2> QED
      BY <2>2, <2>3, Zenon
  <1>2. Below \subseteq SUBSET (1..n) /\ Below # {}
    <2>1. \A i \in S : 1..i \subseteq 1..n
      OBVIOUS
    <2> QED
      BY <2>1
  <1>3. PICK x \in Below : \A y \in Below : ~ (<<y, x>> \in R)
    <2> HIDE DEF Below, R
    <2> QED BY <1>1, <1>2, WFMin
  <1>4. PICK m \in S : x = 1..m
    OBVIOUS
  <1>5. ASSUME NEW j \in S, j < m PROVE FALSE
    <2>1. 1..j \in Below
      OBVIOUS
    <2>2. 1..j \subseteq 1..m /\ m \in 1..m /\ m \notin 1..j
      BY <1>5
    <2>3. <<1..j, 1..m>> \in R
      BY <2>1, <2>2, <1>2 DEF StrictSubsetOrdering
    <2> QED
      BY <2>1, <2>3, <1>3, <1>4
  <1> QED
    BY <1>5

(* Dropped(q, now, d): Fresh pops the first d instants, all expired, and
   stops at one that is not. *)
Dropped(q, now, d) ==
    LET fresh == Fresh(q, now) IN
    /\ fresh \in Seq(Nat)
    /\ Len(fresh) = Len(q) - d
    /\ \A i \in 1..Len(fresh) : fresh[i] = q[i + d]
    /\ \A i \in 1..d : Expired(q[i], now)
    /\ d < Len(q) => ~Expired(q[d + 1], now)

(* check() pops a prefix of the window, and the right one. *)
LEMMA FreshDrops ==
  ASSUME NEW q \in Seq(Nat), NEW now \in Nat
  PROVE  \E d \in 0..Len(q) : Dropped(q, now, d)
  <1> DEFINE kept == {i \in 1..Len(q) : ~Expired(q[i], now)}
             first == IF kept = {} THEN Len(q) + 1
                      ELSE CHOOSE i \in kept : \A j \in kept : i <= j
  <1>1. Fresh(q, now) = SubSeq(q, first, Len(q))
    BY DEF Fresh
  <1>2. Len(q) \in Nat
    OBVIOUS
  <1>3. /\ first \in 1..(Len(q) + 1)
        /\ \A i \in 1..Len(q) : i < first => Expired(q[i], now)
        /\ first <= Len(q) => ~Expired(q[first], now)
    <2>1. CASE kept = {}
      BY <2>1, <1>2
    <2>2. CASE kept # {}
      <3>1. \E m \in kept : \A j \in kept : m <= j
        <4>1. kept \in SUBSET (1..Len(q))
          OBVIOUS
        <4> HIDE DEF kept
        <4> QED
          BY <1>2, <2>2, <4>1, LeastElement
      <3>2. first \in kept /\ \A j \in kept : first <= j
        BY <2>2, <3>1
      <3>3. first \in 1..Len(q) /\ ~Expired(q[first], now)
        BY <3>2
      <3>4. ASSUME NEW i \in 1..Len(q), i < first PROVE Expired(q[i], now)
        <4>1. i \notin kept
          <5> HIDE DEF kept, first
          <5> QED BY <3>2, <3>3, <3>4, <1>2
        <4> QED
          BY <4>1
      <3> HIDE DEF first
      <3> QED
        BY <3>3, <3>4, <1>2
    <2> QED
      BY <2>1, <2>2
  <1> HIDE DEF first, kept
  <1> DEFINE d == first - 1
  <1>4. d \in 0..Len(q)
    BY <1>2, <1>3
  <1>5. /\ SubSeq(q, first, Len(q)) \in Seq(Nat)
        /\ Len(SubSeq(q, first, Len(q))) = Len(q) - d
        /\ \A i \in 1..(Len(q) - d) : SubSeq(q, first, Len(q))[i] = q[i + d]
    <2>1. \A i \in first..Len(q) : q[i] \in Nat
      BY <1>3
    <2>2. /\ SubSeq(q, first, Len(q)) \in Seq(Nat)
          /\ Len(SubSeq(q, first, Len(q))) =
               IF first <= Len(q) THEN Len(q) - first + 1 ELSE 0
          /\ \A i \in 1..(Len(q) - first + 1) :
                SubSeq(q, first, Len(q))[i] = q[first + i - 1]
      BY <2>1, <1>2, <1>3, SubSeqProperties
    <2>3. \A i \in 1..(Len(q) - d) : first + i - 1 = i + d
      BY <1>2, <1>3
    <2>4. Len(q) - d = Len(q) - first + 1
      BY <1>2, <1>3
    <2> QED
      BY <2>2, <2>3, <2>4, <1>2, <1>3
  <1>6. Dropped(q, now, d)
    BY <1>1, <1>2, <1>3, <1>4, <1>5 DEF Dropped
  <1> QED
    BY <1>4, <1>6

-----------------------------------------------------------------------------
(* The inductive invariant. *)

Answer == [key : Key, at : Nat, admitted : BOOLEAN, retry : Nat]

AnswersOK ==
    /\ answers \in Seq(Answer)
    /\ \A i \in 1..Len(answers) : answers[i].at <= clock
    /\ \A i, j \in 1..Len(answers) : i <= j => answers[i].at <= answers[j].at

(* A caller that waits for the lock has waited for Delay at most. *)
CallersOK ==
    /\ caller \in [Caller -> [key : Key \cup {"none"}, now : Nat]]
    /\ \A c \in Caller : caller[c] # Outside =>
          /\ caller[c].key \in Key
          /\ caller[c].now <= clock /\ clock <= caller[c].now + Delay

WindowsOK ==
    /\ timestamps \in [Key -> Seq(Nat)]
    /\ \A k \in Key : Len(timestamps[k]) <= Limit[k]

(* f tells which of the answers ans admitted each instant of queue: they are
   admissions of k in the order they were made, not before the instant and not
   Delay after it; and what k was admitted besides them has left the window. *)
Recorded(ans, time, k, queue, f) ==
    /\ f \in [1..Len(queue) -> 1..Len(ans)]
    /\ \A i, j \in 1..Len(queue) : i < j => f[i] < f[j]
    /\ \A i \in 1..Len(queue) :
          /\ ans[f[i]].key = k /\ ans[f[i]].admitted
          /\ queue[i] <= ans[f[i]].at /\ ans[f[i]].at <= queue[i] + Delay
    /\ \A j \in 1..Len(ans) :
          (ans[j].key = k /\ ans[j].admitted) =>
              \/ \E i \in 1..Len(queue) : f[i] = j
              \/ ans[j].at + Window <= time + Delay

AllRecorded ==
    \A k \in Key :
        \E f \in [1..Len(timestamps[k]) -> 1..Len(answers)] :
            Recorded(answers, clock, k, timestamps[k], f)

(* While the last answer is a refusal its window is as it left it: full, and
   with a front that expires no later than it was told, but for a second. *)
LastRefusal ==
    LET a == answers[Len(answers)]
        queue == timestamps[a.key] IN
    (answers # <<>> /\ ~a.admitted) =>
        /\ Len(queue) = Limit[a.key]
        /\ a.at < queue[1] + Window + Delay
        /\ queue[1] + Window < a.at + a.retry + Second

(* The properties speak of answers, check() only looks at its window: the
   invariant says what a window still knows of the answers. *)
IInv ==
    /\ clock \in 0..MaxTime
    /\ AnswersOK /\ CallersOK /\ WindowsOK
    /\ AllRecorded /\ LastRefusal

-----------------------------------------------------------------------------
(* The steps. *)

(* The types of the constants, for the arithmetic below. *)
LEMMA Constants ==
  /\ Limit \in [Key -> Nat \ {0}]
  /\ Window \in Nat /\ Second \in Nat \ {0} /\ Delay \in Nat
  /\ MaxTime \in Nat /\ MaxChecks \in Nat
  BY LimiterAssumption

(* Retry-After is a number of seconds that ends less than a second before
   the front expires. *)
LEMMA RetryAfterIs ==
  ASSUME NEW queue \in Seq(Nat), Len(queue) > 0, NEW now \in Nat
  PROVE  /\ RetryAfter(queue, now) * Second \in Nat
         /\ queue[1] <= now =>
               queue[1] + Window < now + RetryAfter(queue, now) * Second + Second
         /\ now <= queue[1] => Window < RetryAfter(queue, now) * Second + Second
  <1> DEFINE left == Since(Window, Since(now, queue[1]))
             r == RetryAfter(queue, now)
  <1>1. queue[1] \in Nat /\ Head(queue) = queue[1]
    OBVIOUS
  <1>2. left \in Nat
    BY <1>1, Constants DEF Since
  <1>3. left \div Second \in Nat /\ left < (left \div Second) * Second + Second
    <2> HIDE DEF left
    <2> QED BY <1>2, Constants, DivBounds
  <1>4. r \in Nat /\ left \div Second <= r
    <2>1. r = IF left \div Second = 0 THEN 1 ELSE left \div Second
      BY <1>1 DEF RetryAfter
    <2> HIDE DEF r, left
    <2> QED BY <2>1, <1>3
  <1>5. r * Second \in Nat /\ (left \div Second) * Second <= r * Second
    <2> HIDE DEF r, left
    <2> DEFINE s == left \div Second
    <2>1. s \in Nat /\ s <= r
      BY <1>3, <1>4
    <2> HIDE DEF s
    <2>2. s * Second <= r * Second /\ r * Second \in Nat
      BY <2>1, <1>4, Constants, Z3
    <2> QED BY <2>2 DEF s
  <1>6. left < r * Second + Second /\ (left \div Second) * Second \in Nat
    <2> HIDE DEF r, left
    <2> DEFINE p == (left \div Second) * Second
    <2>1. p \in Int
      BY <1>3, Constants, Z3
    <2>2. p + Second \in Int
      BY <2>1, Constants
    <2> QED BY <1>2, <1>3, <1>5, <2>1, <2>2, Constants
  <1>7. /\ left >= Window - Since(now, queue[1])
        /\ Since(now, queue[1]) \in Nat
        /\ queue[1] <= now => Since(now, queue[1]) = now - queue[1]
        /\ queue[1] >= now => Since(now, queue[1]) = 0
    BY <1>1, Constants DEF Since
  <1> HIDE DEF left
  <1>8. left < r * Second + Second
    BY <1>6
  <1> DEFINE front == queue[1]
             gone == Since(now, front)
             wait == r * Second
  <1>9. /\ front \in Nat /\ gone \in Nat /\ wait \in Nat
        /\ Window - gone < wait + Second
        /\ front <= now => gone = now - front
        /\ front >= now => gone = 0
    <2>1. /\ front \in Nat /\ gone \in Nat /\ wait \in Nat /\ left \in Nat
          /\ left >= Window - gone /\ left < wait + Second
      BY <1>1, <1>2, <1>5, <1>7, <1>8
    <2>2. ASSUME NEW f \in Nat, f = gone
          PROVE  Window - f < wait + Second
      <3> HIDE DEF gone, wait
      <3> QED BY <2>1, <2>2, Constants
    <2> QED BY <1>7, <2>1, <2>2
  <1>10. /\ front <= now => front + Window < now + wait + Second
         /\ now <= front => Window < wait + Second
    <2> HIDE DEF front, gone, wait
    <2>1. CASE front <= now
      <3>1. gone = now - front
        BY <1>9, <2>1
      <3>2. front + Window < now + wait + Second
        BY <1>9, <3>1, Constants
      <3> QED BY <1>9, <2>1, <3>1, <3>2, Constants
    <2>2. CASE ~(front <= now)
      <3>1. gone = 0
        BY <1>9, <2>2
      <3> QED BY <1>9, <2>2, <3>1, Constants
    <2> QED BY <2>1, <2>2
  <1> QED BY <1>9, <1>10

(* The fields of an answer. *)
LEMMA AnswersTyped ==
  ASSUME AnswersOK
  PROVE  /\ Len(answers) \in Nat
         /\ \A i \in 1..Len(answers) :
               /\ answers[i].key \in Key /\ answers[i].at \in Nat
               /\ answers[i].admitted \in BOOLEAN /\ answers[i].retry \in Nat
  <1>1. \A i \in 1..Len(answers) : answers[i] \in Answer
    BY DEF AnswersOK
  <1> QED BY <1>1 DEF AnswersOK, Answer

(* IInv holds initially: every window is empty. *)
LEMMA InitHolds == Init => IInv
  <1> SUFFICES ASSUME Init PROVE IInv
    OBVIOUS
  <1> USE Constants DEF Init
  <1>1. clock \in 0..MaxTime
    OBVIOUS
  <1>2. AnswersOK /\ LastRefusal
    BY DEF AnswersOK, LastRefusal
  <1>3. CallersOK
    BY DEF CallersOK, Outside
  <1>4. WindowsOK
    BY DEF WindowsOK
  <1>5. AllRecorded
    <2>1. ASSUME NEW k \in Key
          PROVE  \E f \in [1..Len(timestamps[k]) -> 1..Len(answers)] :
                    Recorded(answers, clock, k, timestamps[k], f)
      <3>1. timestamps[k] = <<>> /\ Len(timestamps[k]) = 0 /\ Len(answers) = 0
        OBVIOUS
      <3> DEFINE f == [i \in 1..0 |-> 1]
      <3>2. f \in [1..0 -> 1..0]
        OBVIOUS
      <3>3. Recorded(answers, clock, k, timestamps[k], f)
        BY <3>1, <3>2 DEF Recorded
      <3> QED BY <3>1, <3>2, <3>3
    <2> QED BY <2>1 DEF AllRecorded
  <1> QED BY <1>1, <1>2, <1>3, <1>4, <1>5 DEF IInv

(* Steps that answer nobody. *)
LEMMA QuietStep ==
  ASSUME IInv, CallersOK', clock' \in 0..MaxTime, clock <= clock',
         UNCHANGED <<timestamps, answers>>
  PROVE  IInv'
  <1> USE DEF IInv
  <1> clock \in Nat /\ clock' \in Nat
    BY Constants
  <1>1. AnswersOK'
    <2>1. \A i \in 1..Len(answers) : answers[i].at \in Nat /\ answers[i].at <= clock
      BY AnswersTyped DEF AnswersOK
    <2>2. \A i \in 1..Len(answers) : answers[i].at <= clock'
      BY <2>1
    <2> QED BY <2>2 DEF AnswersOK
  <1>2. WindowsOK' /\ LastRefusal'
    BY DEF WindowsOK, LastRefusal
  <1>3. ASSUME NEW k \in Key
        PROVE  \E f \in [1..Len(timestamps[k]) -> 1..Len(answers)] :
                  Recorded(answers, clock, k, timestamps[k], f)'
    <2>1. PICK f \in [1..Len(timestamps[k]) -> 1..Len(answers)] :
             Recorded(answers, clock, k, timestamps[k], f)
      BY DEF AllRecorded
    <2>2. \A j \in 1..Len(answers) :
             answers[j].at + Window <= clock + Delay
                => answers[j].at + Window <= clock' + Delay
      BY Constants, AnswersTyped
    <2>3. Recorded(answers, clock, k, timestamps[k], f)'
      BY <2>1, <2>2 DEF Recorded
    <2> QED BY <2>3
  <1>4. AllRecorded'
    BY <1>3 DEF AllRecorded
  <1> QED BY <1>1, <1>2, <1>4

(* Time passes. *)
LEMMA TickStep ==
  ASSUME IInv, Tick
  PROVE  IInv'
  <1>1. CallersOK'
    BY Constants DEF Tick, IInv, CallersOK
  <1>2. clock' \in 0..MaxTime /\ clock <= clock'
    BY Constants DEF Tick, IInv
  <1> QED BY <1>1, <1>2, QuietStep DEF Tick

(* A caller reads the clock and has not got the lock yet. *)
LEMMA ReadClockStep ==
  ASSUME IInv, NEW c \in Caller, NEW k \in Key, ReadClock(c, k)
  PROVE  IInv'
  <1>1. CallersOK'
    BY Constants DEF ReadClock, IInv, CallersOK
  <1> QED BY <1>1, QuietStep DEF ReadClock, IInv

(* What Check does to the window of its key: it drops d instants of the front
   and adds its own if there is room. *)
Checked(k, now, d, answer) ==
    LET queue == Fresh(timestamps[k], now) IN
    /\ Dropped(timestamps[k], now, d)
    /\ answer.key = k /\ answer.at = clock
    /\ answer.admitted = Admits(queue, k)
    /\ ~answer.admitted => answer.retry = RetryAfter(queue, now) * Second
    /\ timestamps' = [timestamps EXCEPT ![k] =
                         IF answer.admitted THEN Append(queue, now) ELSE queue]
    /\ answers' = Append(answers, answer)

(* What a check does, as one relation of the caller's instant, what it pops and
   what it answers. *)
LEMMA CheckIs ==
  ASSUME IInv, NEW c \in Caller, Check(c)
  PROVE  \E k \in Key, now \in Nat, answer \in Answer :
            \E d \in 0..Len(timestamps[k]) :
               /\ Checked(k, now, d, answer)
               /\ now <= clock /\ clock <= now + Delay
  <1> DEFINE k == caller[c].key
             now == caller[c].now
             queue == Fresh(timestamps[k], now)
             admitted == Admits(queue, k)
             answer == [key |-> k, at |-> clock, admitted |-> admitted,
                        retry |-> IF admitted THEN 0
                                  ELSE RetryAfter(queue, now) * Second]
  <1>1. /\ k \in Key /\ now \in Nat
        /\ now <= clock /\ clock <= now + Delay
    BY DEF Check, IInv, CallersOK
  <1>2. /\ timestamps[k] \in Seq(Nat) /\ Limit[k] \in Nat \ {0}
        /\ clock \in Nat
    BY <1>1, Constants DEF IInv, WindowsOK
  <1>3. /\ timestamps' = [timestamps EXCEPT ![k] =
                             IF admitted THEN Append(queue, now) ELSE queue]
        /\ answers' = Append(answers, answer)
    BY DEF Check
  <1>4. PICK d \in 0..Len(timestamps[k]) : Dropped(timestamps[k], now, d)
    <2> HIDE DEF k, now
    <2> QED BY <1>1, <1>2, FreshDrops
  <1>5. answer \in Answer
    <2>1. queue \in Seq(Nat)
      BY <1>4 DEF Dropped
    <2>2. admitted \in BOOLEAN
      BY DEF Admits
    <2>3. ASSUME ~admitted PROVE RetryAfter(queue, now) * Second \in Nat
      <3> HIDE DEF queue, k, now
      <3>1. Len(queue) >= Limit[k] /\ Len(queue) \in Nat
        BY <2>1, <2>3, <1>2 DEF Admits
      <3> QED BY <1>1, <1>2, <2>1, <3>1, RetryAfterIs
    <2> HIDE DEF queue, k, now, admitted
    <2> QED BY <1>1, <1>2, <2>2, <2>3 DEF Answer
  <1>6. Checked(k, now, d, answer)
    BY <1>3, <1>4 DEF Checked
  <1> HIDE DEF k, now, answer
  <1> QED BY <1>1, <1>4, <1>5, <1>6

(* A check adds one answer and changes none. *)
LEMMA CheckedAnswers ==
  ASSUME IInv, NEW answer \in Answer, answer.at = clock,
         answers' = Append(answers, answer)
  PROVE  /\ answers' \in Seq(Answer)
         /\ Len(answers') = Len(answers) + 1 /\ Len(answers) \in Nat
         /\ \A i \in 1..Len(answers) : answers'[i] = answers[i]
         /\ answers'[Len(answers) + 1] = answer
         /\ clock' = clock => AnswersOK'
  <1>1. answers \in Seq(Answer)
    BY DEF IInv, AnswersOK
  <1>2. /\ answers' \in Seq(Answer)
        /\ Len(answers') = Len(answers) + 1 /\ Len(answers) \in Nat
        /\ \A i \in 1..Len(answers) : answers'[i] = answers[i]
        /\ answers'[Len(answers) + 1] = answer
    BY <1>1, AppendProperties
  <1>3. ASSUME clock' = clock PROVE AnswersOK'
    <2>1. \A i \in 1..Len(answers') : i \in 1..Len(answers) \/ i = Len(answers) + 1
      BY <1>2
    <2>2. \A i \in 1..Len(answers') :
             answers'[i].at \in Nat /\ answers'[i].at <= clock
      BY <1>2, <2>1, AnswersTyped, Constants DEF IInv, AnswersOK
    <2>3. \A i, j \in 1..Len(answers') : i <= j => answers'[i].at <= answers'[j].at
      <3> SUFFICES ASSUME NEW i \in 1..Len(answers'), NEW j \in 1..Len(answers'),
                          i <= j
                   PROVE  answers'[i].at <= answers'[j].at
        OBVIOUS
      <3>1. CASE j = Len(answers) + 1
        BY <3>1, <2>2, <1>2
      <3>2. CASE j \in 1..Len(answers)
        <4>1. i \in 1..Len(answers)
          BY <3>2, <1>2
        <4> QED BY <3>2, <4>1, <1>2 DEF IInv, AnswersOK
      <3> QED BY <3>1, <3>2, <2>1
    <2> QED BY <1>2, <1>3, <2>2, <2>3 DEF AnswersOK
  <1> QED BY <1>2, <1>3

(* The window Check leaves: what it kept, and its own instant at the end. *)
LEMMA CheckedWindow ==
  ASSUME IInv, NEW k \in Key, NEW now \in Nat, NEW answer \in Answer,
         NEW d \in 0..Len(timestamps[k]), Checked(k, now, d, answer)
  PROVE  /\ timestamps' \in [Key -> Seq(Nat)]
         /\ \A other \in Key : other # k => timestamps'[other] = timestamps[other]
         /\ LET kept == Len(timestamps[k]) - d IN
            /\ kept \in Nat
            /\ \A i \in 1..kept : timestamps'[k][i] = timestamps[k][i + d]
            /\ answer.admitted => /\ Len(timestamps'[k]) = kept + 1
                                  /\ timestamps'[k][kept + 1] = now
                                  /\ kept < Limit[k]
            /\ ~answer.admitted => /\ timestamps'[k] = Fresh(timestamps[k], now)
                                   /\ Len(timestamps'[k]) = kept
                                   /\ kept = Limit[k]
  <1> DEFINE old == timestamps[k]
             queue == Fresh(old, now)
             kept == Len(old) - d
             new == IF answer.admitted THEN Append(queue, now) ELSE queue
  <1>1. /\ timestamps \in [Key -> Seq(Nat)] /\ old \in Seq(Nat)
        /\ Len(old) <= Limit[k] /\ Limit[k] \in Nat \ {0} /\ Len(old) \in Nat
    BY Constants DEF IInv, WindowsOK
  <1>2. /\ queue \in Seq(Nat) /\ Len(queue) = kept
        /\ \A i \in 1..kept : queue[i] = old[i + d]
    BY DEF Checked, Dropped
  <1>3. timestamps' = [timestamps EXCEPT ![k] = new]
    BY DEF Checked
  <1>4. kept \in Nat /\ kept <= Limit[k]
    BY <1>1
  <1>5. answer.admitted <=> kept < Limit[k]
    BY <1>2 DEF Checked, Admits
  <1>6. /\ new \in Seq(Nat)
        /\ \A i \in 1..kept : new[i] = old[i + d]
        /\ answer.admitted => Len(new) = kept + 1 /\ new[kept + 1] = now
        /\ ~answer.admitted => Len(new) = kept
    <2> HIDE DEF queue, kept
    <2>1. CASE answer.admitted
      BY <1>2, <1>4, <2>1, AppendProperties
    <2>2. CASE ~answer.admitted
      BY <1>2, <2>2
    <2> QED BY <2>1, <2>2
  <1>7. /\ timestamps'[k] = new
        /\ timestamps' \in [Key -> Seq(Nat)]
        /\ \A other \in Key : other # k => timestamps'[other] = timestamps[other]
    <2> HIDE DEF new
    <2> QED BY <1>1, <1>3, <1>6
  <1>8. ~answer.admitted => new = queue /\ kept = Limit[k]
    BY <1>1, <1>4, <1>5
  <1> HIDE DEF new
  <1> QED BY <1>4, <1>5, <1>6, <1>7, <1>8

(* A window without its expired prefix is still recorded: whoever is popped is
   too old to count. *)
LEMMA RecordDrop ==
  ASSUME NEW ans \in Seq(Answer), NEW time \in Nat, NEW k, NEW f,
         NEW old \in Seq(Nat), NEW now \in Nat, NEW d \in 0..Len(old),
         NEW queue \in Seq(Nat), Len(queue) = Len(old) - d,
         \A i \in 1..Len(queue) : queue[i] = old[i + d],
         \A i \in 1..d : Expired(old[i], now),
         now <= time, \A j \in 1..Len(ans) : ans[j].at \in 0..time,
         Recorded(ans, time, k, old, f)
  PROVE  Recorded(ans, time, k, queue, [i \in 1..Len(queue) |-> f[i + d]])
  <1> DEFINE g == [i \in 1..Len(queue) |-> f[i + d]]
             n == Len(queue)
  <1>1. /\ n \in Nat /\ Len(old) \in Nat /\ Window \in Nat /\ Delay \in Nat
        /\ \A i \in 1..n : i + d \in 1..Len(old)
    BY Constants
  <1>2. \A i \in 1..n : g[i] = f[i + d]
    OBVIOUS
  <1>3. g \in [1..n -> 1..Len(ans)]
    BY <1>1 DEF Recorded
  <1> HIDE DEF g, n
  <1>4. ASSUME NEW i \in 1..n, NEW j \in 1..n, i < j PROVE g[i] < g[j]
    <2>1. i + d < j + d
      BY <1>1, <1>4
    <2> QED BY <1>1, <1>2, <2>1 DEF Recorded
  <1>5. ASSUME NEW i \in 1..n
        PROVE  /\ ans[g[i]].key = k /\ ans[g[i]].admitted
               /\ queue[i] <= ans[g[i]].at /\ ans[g[i]].at <= queue[i] + Delay
    BY <1>1, <1>2 DEF Recorded, n
  <1>6. ASSUME NEW j \in 1..Len(ans), ans[j].key = k, ans[j].admitted
        PROVE  (\E i \in 1..n : g[i] = j) \/ ans[j].at + Window <= time + Delay
    <2>1. (\E i \in 1..Len(old) : f[i] = j) \/ ans[j].at + Window <= time + Delay
      BY <1>6 DEF Recorded
    <2>2. ASSUME NEW i \in 1..Len(old), f[i] = j, i > d
          PROVE  \E h \in 1..n : g[h] = j
      <3>1. i - d \in 1..n /\ (i - d) + d = i
        BY <1>1, <2>2 DEF n
      <3> QED BY <1>2, <2>2, <3>1
    <2>3. ASSUME NEW i \in 1..Len(old), f[i] = j, i <= d
          PROVE  ans[j].at + Window <= time + Delay
      <3>1. old[i] \in Nat /\ Expired(old[i], now) /\ ans[j].at \in 0..time
        BY <1>1, <2>3
      <3>2. old[i] + Window <= now \/ Window = 0
        BY <1>1, <3>1 DEF Expired, Since
      <3>3. ans[j].at <= old[i] + Delay
        BY <2>3 DEF Recorded
      <3>4. CASE Window = 0
        <4>1. ans[j].at <= time /\ ans[j].at \in Nat
          BY <3>1
        <4> QED BY ONLY <1>1, <3>4, <4>1, time \in Nat
      <3>5. CASE old[i] + Window <= now
        <4> HIDE <1>6, <2>1, <2>2
        <4> DEFINE at == ans[j].at
                   instant == old[i]
        <4>1. at \in Nat /\ instant \in Nat /\ at <= instant + Delay
              /\ instant + Window <= now
          BY <3>1, <3>3, <3>5
        <4> HIDE DEF at, instant
        <4>2. at + Window <= time + Delay
          BY <1>1, <4>1
        <4> QED BY <4>2 DEF at
      <3> QED BY <3>2, <3>4, <3>5
    <2>4. \A i \in 1..Len(old) : i > d \/ i <= d
      BY <1>1
    <2> QED BY <2>1, <2>2, <2>3, <2>4
  <1>7. Recorded(ans, time, k, queue, g)
    BY <1>3, <1>4, <1>5, <1>6 DEF Recorded, n
  <1> QED BY <1>7 DEF g

(* An answer more, which is not an admission of k. *)
LEMMA RecordOther ==
  ASSUME NEW ans \in Seq(Answer), NEW time \in Nat, NEW k, NEW f,
         NEW queue \in Seq(Nat), NEW answer \in Answer,
         answer.key # k \/ ~answer.admitted,
         Recorded(ans, time, k, queue, f)
  PROVE  Recorded(Append(ans, answer), time, k, queue, f)
  <1> DEFINE more == Append(ans, answer)
  <1>1. /\ Len(ans) \in Nat /\ Len(more) = Len(ans) + 1
        /\ \A i \in 1..Len(ans) : more[i] = ans[i]
        /\ more[Len(ans) + 1] = answer
    BY AppendProperties
  <1> HIDE DEF more
  <1>2. \A j \in 1..Len(more) : j \in 1..Len(ans) \/ j = Len(ans) + 1
    BY <1>1
  <1>3. f \in [1..Len(queue) -> 1..Len(more)]
    BY <1>1 DEF Recorded
  <1>4. \A i \in 1..Len(queue) : more[f[i]] = ans[f[i]]
    BY <1>1 DEF Recorded
  <1>5. Recorded(more, time, k, queue, f)
    BY <1>1, <1>2, <1>3, <1>4 DEF Recorded
  <1> QED BY <1>5 DEF more

(* An admission of k more, whose instant is added to the queue. *)
LEMMA RecordAdmission ==
  ASSUME NEW ans \in Seq(Answer), NEW time \in Nat, NEW k, NEW f,
         NEW queue \in Seq(Nat), NEW now \in Nat, NEW answer \in Answer,
         answer.key = k, answer.admitted, answer.at = time,
         now <= time, time <= now + Delay,
         Recorded(ans, time, k, queue, f)
  PROVE  Recorded(Append(ans, answer), time, k, Append(queue, now),
                  [i \in 1..(Len(queue) + 1) |->
                      IF i <= Len(queue) THEN f[i] ELSE Len(ans) + 1])
  <1> DEFINE more == Append(ans, answer)
             longer == Append(queue, now)
             m == Len(ans)
             n == Len(queue)
             g == [i \in 1..(n + 1) |-> IF i <= n THEN f[i] ELSE m + 1]
  <1>1. /\ m \in Nat /\ Len(more) = m + 1
        /\ \A i \in 1..m : more[i] = ans[i]
        /\ more[m + 1] = answer
    BY AppendProperties
  <1>2. /\ n \in Nat /\ Len(longer) = n + 1
        /\ \A i \in 1..n : longer[i] = queue[i]
        /\ longer[n + 1] = now
    BY AppendProperties
  <1>3. /\ f \in [1..n -> 1..m]
        /\ \A i, j \in 1..n : i < j => f[i] < f[j]
        /\ \A i \in 1..n :
              /\ ans[f[i]].key = k /\ ans[f[i]].admitted
              /\ queue[i] <= ans[f[i]].at /\ ans[f[i]].at <= queue[i] + Delay
        /\ \A j \in 1..m :
              (ans[j].key = k /\ ans[j].admitted) =>
                  \/ \E i \in 1..n : f[i] = j
                  \/ ans[j].at + Window <= time + Delay
    BY DEF Recorded
  <1> HIDE DEF more, longer, m, n
  <1>4. /\ \A i \in 1..n : i \in 1..(n + 1) /\ g[i] = f[i] /\ g[i] \in 1..m
        /\ n + 1 \in 1..(n + 1) /\ g[n + 1] = m + 1
        /\ \A i \in 1..(n + 1) : i \in 1..n \/ i = n + 1
        /\ \A j \in 1..(m + 1) : j \in 1..m \/ j = m + 1
    BY <1>1, <1>2, <1>3
  <1>5. g \in [1..(n + 1) -> 1..(m + 1)]
    <2>1. \A i \in 1..(n + 1) : (IF i <= n THEN f[i] ELSE m + 1) \in 1..(m + 1)
      BY <1>1, <1>2, <1>3, <1>4
    <2> QED BY <2>1
  <1> HIDE DEF g
  <1>6. \A i, j \in 1..(n + 1) : i < j => g[i] < g[j]
    <2> SUFFICES ASSUME NEW i \in 1..(n + 1), NEW j \in 1..(n + 1), i < j
                 PROVE  g[i] < g[j]
      OBVIOUS
    <2>1. i \in 1..n
      BY <1>2
    <2>2. CASE j \in 1..n
      BY <1>3, <1>4, <2>1, <2>2
    <2>3. CASE j = n + 1
      BY <1>1, <1>4, <2>1, <2>3
    <2> QED BY <1>4, <2>2, <2>3
  <1>7. ASSUME NEW i \in 1..(n + 1)
        PROVE  /\ more[g[i]].key = k /\ more[g[i]].admitted
               /\ longer[i] <= more[g[i]].at /\ more[g[i]].at <= longer[i] + Delay
    <2>1. CASE i \in 1..n
      <3>1. f[i] \in 1..m /\ g[i] = f[i] /\ more[g[i]] = ans[f[i]]
        BY <1>1, <1>3, <1>4, <2>1
      <3>2. longer[i] = queue[i]
        BY <1>2, <2>1
      <3> QED BY <1>3, <2>1, <3>1, <3>2
    <2>2. CASE i = n + 1
      BY <1>1, <1>2, <1>4, <2>2
    <2> QED BY <1>4, <2>1, <2>2
  <1>8. ASSUME NEW j \in 1..(m + 1), more[j].key = k, more[j].admitted
        PROVE  (\E i \in 1..(n + 1) : g[i] = j) \/ more[j].at + Window <= time + Delay
    <2>1. CASE j \in 1..m
      BY <1>1, <1>3, <1>4, <1>8, <2>1
    <2>2. CASE j = m + 1
      BY <1>4, <2>2
    <2> QED BY <1>4, <2>1, <2>2
  <1>9. Recorded(more, time, k, longer, g)
    BY <1>1, <1>2, <1>5, <1>6, <1>7, <1>8 DEF Recorded
  <1> QED BY <1>9 DEF more, longer, m, n, g

(* A check keeps every window recorded. *)
LEMMA CheckedRecorded ==
  ASSUME IInv, clock' = clock,
         NEW k \in Key, NEW now \in Nat, NEW answer \in Answer,
         NEW d \in 0..Len(timestamps[k]), Checked(k, now, d, answer),
         now <= clock, clock <= now + Delay
  PROVE  AllRecorded'
  <1> DEFINE old == timestamps[k]
             queue == Fresh(old, now)
  <1>1. /\ answers \in Seq(Answer) /\ clock \in Nat
        /\ answers' = Append(answers, answer)
        /\ answer.key = k /\ answer.at = clock /\ answer.admitted \in BOOLEAN
    BY Constants DEF IInv, AnswersOK, Checked, Answer
  <1>2. \A j \in 1..Len(answers) : answers[j].at \in 0..clock
    BY <1>1, AnswersTyped DEF IInv, AnswersOK
  <1>3. timestamps \in [Key -> Seq(Nat)] /\ old \in Seq(Nat)
    BY DEF IInv, WindowsOK
  <1>4. SUFFICES ASSUME NEW other \in Key
                 PROVE  \E f : Recorded(answers', clock', other, timestamps'[other], f)
    <2> DEFINE P(x, f) == Recorded(answers', clock', x, timestamps'[x], f)
    <2>1. AllRecorded' = \A x \in Key :
                            \E f \in [1..Len(timestamps'[x]) -> 1..Len(answers')] :
                              P(x, f)
      BY DEF AllRecorded
    <2>2. \A x \in Key : \A f :
             P(x, f) => f \in [1..Len(timestamps'[x]) -> 1..Len(answers')]
      BY DEF Recorded
    <2> HIDE DEF P
    <2> QED BY <2>1, <2>2, Zenon DEF P
  <1>5. PICK f : Recorded(answers, clock, other, timestamps[other], f)
    BY DEF IInv, AllRecorded
  <1>6. CASE other # k
    <2>1. timestamps'[other] = timestamps[other] /\ timestamps[other] \in Seq(Nat)
      BY <1>3, <1>6, CheckedWindow
    <2>2. Recorded(answers', clock, other, timestamps[other], f)
      BY <1>1, <1>5, <1>6, <2>1, RecordOther
    <2> QED BY <2>1, <2>2
  <1>7. CASE other = k
    <2>1. /\ queue \in Seq(Nat) /\ Len(queue) = Len(old) - d
          /\ \A i \in 1..Len(queue) : queue[i] = old[i + d]
          /\ \A i \in 1..d : Expired(old[i], now)
      BY DEF Checked, Dropped
    <2>2. PICK g : Recorded(answers, clock, k, queue, g)
      <3> HIDE DEF old, queue
      <3>1. Recorded(answers, clock, k, old, f)
        BY <1>5, <1>7 DEF old
      <3>2. d \in 0..Len(old)
        BY DEF old
      <3> QED BY <1>1, <1>2, <1>3, <2>1, <3>1, <3>2, RecordDrop
    <2>3. timestamps'[k] = IF answer.admitted THEN Append(queue, now) ELSE queue
      BY <1>3 DEF Checked
    <2> HIDE DEF queue
    <2>4. CASE answer.admitted
      <3>1. \E h : Recorded(Append(answers, answer), clock, k, Append(queue, now), h)
        BY <1>1, <2>1, <2>2, <2>4, RecordAdmission
      <3> QED BY <1>1, <1>7, <2>3, <2>4, <3>1
    <2>5. CASE ~answer.admitted
      <3>1. Recorded(Append(answers, answer), clock, k, queue, g)
        BY <1>1, <2>1, <2>2, <2>5, RecordOther
      <3> QED BY <1>1, <1>7, <2>3, <2>5, <3>1
    <2> QED BY <1>1, <2>4, <2>5
  <1> QED BY <1>6, <1>7

(* A check keeps the last refusal explained by its window. *)
LEMMA CheckedRefusal ==
  ASSUME IInv, clock' = clock,
         NEW k \in Key, NEW now \in Nat, NEW answer \in Answer,
         NEW d \in 0..Len(timestamps[k]), Checked(k, now, d, answer),
         now <= clock, clock <= now + Delay
  PROVE  LastRefusal'
  <1> DEFINE queue == timestamps'[k]
             front == queue[1]
  <1>1. /\ clock \in Nat /\ Window \in Nat /\ Delay \in Nat /\ Second \in Nat
        /\ Limit[k] \in Nat \ {0}
    BY Constants DEF IInv
  <1>2. /\ answers' # <<>> /\ answers'[Len(answers')] = answer
        /\ answer.key = k /\ answer.at = clock
    BY CheckedAnswers DEF Checked
  <1>3. SUFFICES ASSUME ~answer.admitted
                 PROVE  /\ Len(queue) = Limit[k]
                        /\ clock < front + Window + Delay
                        /\ front + Window < clock + answer.retry + Second
    BY <1>2 DEF LastRefusal
  <1>4. /\ queue = Fresh(timestamps[k], now) /\ queue \in Seq(Nat)
        /\ Len(queue) = Limit[k] /\ Len(timestamps[k]) - d = Limit[k]
    BY <1>3, CheckedWindow
  <1>5. /\ front = timestamps[k][d + 1] /\ ~Expired(front, now)
        /\ front \in Nat
    <2>1. Len(timestamps[k]) \in Nat
      BY DEF IInv, WindowsOK
    <2>2. 1 \in 1..Len(queue) /\ d < Len(timestamps[k]) /\ 1 + d = d + 1
      BY <1>1, <1>4, <2>1
    <2>3. Fresh(timestamps[k], now)[1] = timestamps[k][1 + d]
      BY <1>4, <2>2 DEF Checked, Dropped
    <2>4. ~Expired(timestamps[k][d + 1], now)
      BY <2>2 DEF Checked, Dropped
    <2>5. front = timestamps[k][d + 1]
      BY <1>4, <2>2, <2>3
    <2>6. front \in Nat
      BY <1>4, <2>2
    <2> QED BY <2>4, <2>5, <2>6
  <1>6. front <= clock
    <2>1. PICK f : Recorded(answers, clock, k, timestamps[k], f)
      BY DEF IInv, AllRecorded
    <2>2. d + 1 \in 1..Len(timestamps[k])
      BY <1>1, <1>4
    <2>3. f[d + 1] \in 1..Len(answers) /\ front <= answers[f[d + 1]].at
      BY <1>5, <2>1, <2>2 DEF Recorded
    <2>4. answers[f[d + 1]].at \in Nat /\ answers[f[d + 1]].at <= clock
      BY <2>3, AnswersTyped DEF IInv, AnswersOK
    <2> QED BY <1>1, <1>5, <2>3, <2>4
  <1>7. now < front + Window
    <2>1. Since(now, front) < Window
      BY <1>1, <1>5 DEF Expired, Since
    <2>2. now < front \/ now - front < Window
      <3> HIDE DEF front
      <3> QED BY <1>5, <2>1 DEF Since
    <2> HIDE DEF front, queue
    <2> QED BY <1>1, <1>5, <2>2
  <1>8. answer.retry = RetryAfter(queue, now) * Second
    BY <1>3, <1>4 DEF Checked
  <1>9. /\ answer.retry \in Nat
        /\ front <= now => front + Window < now + answer.retry + Second
        /\ now <= front => Window < answer.retry + Second
    <2> HIDE DEF queue
    <2>1. queue \in Seq(Nat) /\ Len(queue) > 0 /\ now \in Nat
      BY <1>1, <1>4
    <2>2. /\ RetryAfter(queue, now) * Second \in Nat
          /\ queue[1] <= now =>
                queue[1] + Window < now + RetryAfter(queue, now) * Second + Second
          /\ now <= queue[1] => Window < RetryAfter(queue, now) * Second + Second
      BY <2>1, RetryAfterIs
    <2> QED BY <1>8, <2>2, Zenon DEF front
  <1> HIDE DEF queue, front
  <1>10. clock < front + Window + Delay
    BY <1>1, <1>5, <1>7
  <1>11. front + Window < clock + answer.retry + Second
    <2>1. CASE front <= now
      <3> DEFINE retry == answer.retry
      <3>1. retry \in Nat /\ front + Window < now + retry + Second
        BY <1>9, <2>1
      <3> HIDE DEF retry
      <3>2. front + Window < clock + retry + Second
        BY <1>1, <1>5, <3>1
      <3> QED BY <3>2 DEF retry
    <2>2. CASE now <= front
      <3> DEFINE retry == answer.retry
      <3>1. retry \in Nat /\ Window < retry + Second
        BY <1>9, <2>2
      <3> HIDE DEF retry
      <3>2. front + Window < clock + retry + Second
        BY <1>1, <1>5, <1>6, <3>1
      <3> QED BY <3>2 DEF retry
    <2> QED BY <1>5, <2>1, <2>2
  <1> QED BY <1>4, <1>10, <1>11

(* A check keeps IInv. *)
LEMMA CheckStep ==
  ASSUME IInv, NEW c \in Caller, Check(c)
  PROVE  IInv'
  <1>1. PICK k \in Key, now \in Nat, answer \in Answer :
           \E d \in 0..Len(timestamps[k]) :
              /\ Checked(k, now, d, answer)
              /\ now <= clock /\ clock <= now + Delay
    BY CheckIs
  <1>2. PICK d \in 0..Len(timestamps[k]) :
              /\ Checked(k, now, d, answer)
              /\ now <= clock /\ clock <= now + Delay
    BY <1>1
  <1>3. clock' = clock /\ caller' = [caller EXCEPT ![c] = Outside]
    BY DEF Check
  <1>4. AnswersOK'
    BY <1>2, <1>3, CheckedAnswers DEF Checked
  <1>5. CallersOK'
    BY <1>3 DEF IInv, CallersOK, Outside
  <1>6. WindowsOK'
    <2>1. /\ timestamps' \in [Key -> Seq(Nat)]
          /\ \A other \in Key : other # k => timestamps'[other] = timestamps[other]
      BY <1>2, CheckedWindow
    <2>2. Len(timestamps'[k]) <= Limit[k]
      BY <1>2, CheckedWindow, Constants
    <2> QED BY <2>1, <2>2 DEF IInv, WindowsOK
  <1>7. AllRecorded'
    BY <1>2, <1>3, CheckedRecorded
  <1>8. LastRefusal'
    BY <1>2, <1>3, CheckedRefusal
  <1> QED BY <1>3, <1>4, <1>5, <1>6, <1>7, <1>8 DEF IInv

(* IInv is inductive: one step per disjunct of Next. *)
LEMMA NextKeeps == IInv /\ [Next]_vars => IInv'
  <1> SUFFICES ASSUME IInv, [Next]_vars PROVE IInv'
    OBVIOUS
  <1>1. CASE Tick
    BY <1>1, TickStep
  <1>2. ASSUME NEW c \in Caller, Check(c) PROVE IInv'
    BY <1>2, CheckStep
  <1>3. ASSUME NEW c \in Caller, NEW k \in Key, ReadClock(c, k) PROVE IInv'
    BY <1>3, ReadClockStep
  <1>4. CASE UNCHANGED vars
    <2>1. clock' \in 0..MaxTime /\ clock <= clock' /\ CallersOK'
      BY <1>4, Constants DEF vars, IInv, CallersOK
    <2> QED BY <1>4, <2>1, QuietStep DEF vars
  <1> QED BY <1>1, <1>2, <1>3, <1>4 DEF Next

(* Every window agrees with the answers given so far, whatever the order in
   which the callers of check() get the lock. *)
THEOREM LimiterInvariance == Spec => []IInv
  <1>1. Init => IInv
    BY InitHolds
  <1>2. IInv /\ [Next]_vars => IInv'
    BY NextKeeps
  <1> QED BY <1>1, <1>2, PTL DEF Spec

-----------------------------------------------------------------------------
(* Counting the admissions. *)

(* IInv gives the types: a window holds instants of admissions. *)
LEMMA TypeFromIInv == IInv => TypeOK
  <1> SUFFICES ASSUME IInv PROVE TypeOK
    OBVIOUS
  <1>1. ASSUME NEW k \in Key, NEW i \in 1..Len(timestamps[k])
        PROVE  timestamps[k][i] \in 0..clock
    <2>1. PICK f : Recorded(answers, clock, k, timestamps[k], f)
      BY DEF IInv, AllRecorded
    <2>2. f[i] \in 1..Len(answers) /\ timestamps[k][i] <= answers[f[i]].at
      BY <2>1 DEF Recorded
    <2>3. answers[f[i]].at \in Nat /\ answers[f[i]].at <= clock
      BY <2>2, AnswersTyped DEF IInv, AnswersOK
    <2>4. timestamps[k][i] \in Nat /\ clock \in Nat
      BY Constants DEF IInv, WindowsOK
    <2> QED BY <2>2, <2>3, <2>4
  <1> QED BY <1>1 DEF TypeOK, IInv, WindowsOK, CallersOK

(* Intervals are finite. *)
LEMMA PlacesFinite ==
  ASSUME NEW n \in Nat
  PROVE  IsFiniteSet(1..n) /\ Cardinality(1..n) = n
  BY FS_Interval

(* So are the admissions. *)
LEMMA AdmissionsFinite ==
  ASSUME AnswersOK, NEW k, NEW from, NEW to
  PROVE  /\ IsFiniteSet(1..Len(answers))
         /\ Admissions(k, from, to) \subseteq 1..Len(answers)
         /\ IsFiniteSet(Admissions(k, from, to))
  <1>1. IsFiniteSet(1..Len(answers))
    BY AnswersTyped, FS_Interval
  <1>2. Admissions(k, from, to) \in SUBSET (1..Len(answers))
    BY DEF Admissions
  <1> QED BY <1>1, <1>2, FS_Subset

(* What is still inside the window now was admitted into one of its places. *)
NotOverNow ==
    \A k \in Key :
        Cardinality(Admissions(k, Since(clock + Delay + 1, Window), clock)) <= Limit[k]

(* In a recorded window whoever was admitted last is still there, and the window
   is never longer than the limit. *)
LEMMA CountNow == IInv => NotOverNow
  <1> SUFFICES ASSUME IInv, NEW k \in Key
               PROVE  Cardinality(Admissions(k, Since(clock + Delay + 1, Window), clock))
                         <= Limit[k]
    BY DEF NotOverNow
  <1> DEFINE queue == timestamps[k]
             from == Since(clock + Delay + 1, Window)
             S == Admissions(k, from, clock)
  <1>1. /\ queue \in Seq(Nat) /\ Len(queue) \in Nat /\ Len(queue) <= Limit[k]
        /\ Limit[k] \in Nat /\ clock \in Nat /\ Window \in Nat /\ Delay \in Nat
    BY Constants DEF IInv, WindowsOK
  <1>2. PICK f : Recorded(answers, clock, k, queue, f)
    BY DEF IInv, AllRecorded
  <1> DEFINE T == {f[i] : i \in 1..Len(queue)}
  <1>3. S \subseteq T
    <2> SUFFICES ASSUME NEW j \in S PROVE j \in T
      OBVIOUS
    <2>1. /\ j \in 1..Len(answers) /\ answers[j].key = k /\ answers[j].admitted
          /\ answers[j].at \in from..clock
      BY DEF Admissions
    <2>2. answers[j].at \in Nat
      BY <2>1, AnswersTyped DEF IInv
    <2>3. ~(answers[j].at + Window <= clock + Delay)
      BY <1>1, <2>1, <2>2 DEF Since
    <2>4. \E i \in 1..Len(queue) : f[i] = j
      BY <1>2, <2>1, <2>3 DEF Recorded
    <2> QED BY <2>4
  <1>4. f \in Surjection(1..Len(queue), T)
    <2>1. DOMAIN f = 1..Len(queue) /\ f \in [1..Len(queue) -> T]
      BY <1>2 DEF Recorded
    <2> QED BY <2>1 DEF Surjection
  <1>5. IsFiniteSet(1..Len(queue)) /\ Cardinality(1..Len(queue)) = Len(queue)
    <2> HIDE DEF queue
    <2> QED BY <1>1, PlacesFinite
  <1>6. IsFiniteSet(T) /\ Cardinality(T) <= Cardinality(1..Len(queue))
    <2> HIDE DEF T, queue
    <2> QED BY <1>4, <1>5, FS_Surjection
  <1>7. Cardinality(S) <= Cardinality(T)
    <2> HIDE DEF T, S
    <2> QED BY <1>3, <1>6, FS_Subset
  <1>8. Cardinality(S) \in Nat /\ Cardinality(T) \in Nat
    <2>1. IsFiniteSet(S)
      BY <1>3, <1>6, FS_Subset
    <2> QED BY <1>6, <2>1, FS_CardinalityType
  <1> HIDE DEF S, T
  <1>9. Cardinality(S) <= Limit[k]
    BY <1>1, <1>5, <1>6, <1>7, <1>8
  <1> QED BY <1>9 DEF S

(* Who has just been refused finds every place taken by an admission that is
   not too old. *)
BusyNow ==
    LET n == Len(answers)
        a == answers[n]
        from == Since(a.at, Window + Delay - 1) IN
    (n > 0 /\ ~a.admitted) =>
        Cardinality({j \in Admissions(a.key, from, a.at) : j < n}) >= Limit[a.key]

(* A refusal found the window full, and its entries are admissions. *)
LEMMA CountRefusal == IInv => BusyNow
  <1> DEFINE n == Len(answers)
             a == answers[n]
             k == a.key
             queue == timestamps[k]
             from == Since(a.at, Window + Delay - 1)
             T == {j \in Admissions(k, from, a.at) : j < n}
  <1> SUFFICES ASSUME IInv, n > 0, ~a.admitted PROVE Cardinality(T) >= Limit[k]
    BY DEF BusyNow
  <1>1. n \in 1..n /\ n \in Nat /\ k \in Key /\ a.at \in Nat
    BY AnswersTyped DEF IInv
  <1>2. /\ queue \in Seq(Nat) /\ Len(queue) = Limit[k] /\ a.at < queue[1] + Window + Delay
        /\ Limit[k] \in Nat \ {0} /\ Window \in Nat /\ Delay \in Nat
        /\ 1 \in 1..Len(queue) /\ queue[1] \in Nat
    <2>1. answers # <<>>
      BY DEF IInv, AnswersOK
    <2> QED BY <1>1, <2>1, Constants DEF IInv, WindowsOK, LastRefusal
  <1>3. PICK f : Recorded(answers, clock, k, queue, f)
    BY <1>1 DEF IInv, AllRecorded
  <1>4. ASSUME NEW i \in 1..Len(queue) PROVE f[i] \in T
    <2>1. /\ f[i] \in 1..n /\ answers[f[i]].key = k /\ answers[f[i]].admitted
          /\ f[1] \in 1..n /\ queue[1] <= answers[f[1]].at
          /\ f[1] <= f[i]
      <3>1. i = 1 \/ 1 < i
        BY <1>2
      <3>2. f[i] \in 1..n /\ f[1] \in 1..n
        BY <1>2, <1>3 DEF Recorded
      <3>3. 1 < i => f[1] < f[i]
        BY <1>2, <1>3 DEF Recorded
      <3>4. f[1] <= f[i]
        BY <3>1, <3>2, <3>3
      <3>5. /\ answers[f[i]].key = k /\ answers[f[i]].admitted
            /\ queue[1] <= answers[f[1]].at
        BY <1>2, <1>3 DEF Recorded
      <3> QED BY <3>2, <3>4, <3>5
    <2>2. f[i] < n
      BY <1>1, <2>1
    <2>3. /\ answers[f[i]].at \in Nat /\ answers[f[1]].at \in Nat
          /\ answers[f[i]].at <= a.at /\ answers[f[1]].at <= answers[f[i]].at
      BY <1>1, <2>1, <2>2, AnswersTyped DEF IInv, AnswersOK
    <2>4. answers[f[i]].at \in from..a.at
      <3> DEFINE at == answers[f[i]].at
                 last == a.at
      <3>1. /\ at \in Nat /\ last \in Nat /\ at <= last
            /\ last < at + Window + Delay
        <4> DEFINE first == answers[f[1]].at
                   front == queue[1]
        <4>1. /\ front \in Nat /\ first \in Nat /\ at \in Nat /\ last \in Nat
              /\ front <= first /\ first <= at /\ at <= last
              /\ last < front + Window + Delay
          BY <1>1, <1>2, <2>1, <2>3
        <4> HIDE DEF first, front, at, last
        <4> QED BY <1>2, <4>1
      <3> HIDE DEF at, last
      <3>2. at \in Since(last, Window + Delay - 1)..last
        BY <1>2, <3>1 DEF Since
      <3> QED BY <3>2 DEF at, last
    <2> QED BY <2>1, <2>2, <2>4 DEF Admissions
  <1>5. f \in Injection(1..Len(queue), T)
    <2>1. f \in [1..Len(queue) -> T]
      BY <1>3, <1>4 DEF Recorded
    <2>2. ASSUME NEW i \in 1..Len(queue), NEW j \in 1..Len(queue), f[i] = f[j]
          PROVE  i = j
      <3>1. f[i] \in Nat /\ f[j] \in Nat
        BY <1>3 DEF Recorded
      <3>2. ~(i < j) /\ ~(j < i)
        BY <1>3, <2>2, <3>1 DEF Recorded
      <3> QED BY <3>2
    <2> QED BY <2>1, <2>2 DEF Injection, IsInjective
  <1>6. IsFiniteSet(T)
    <2>1. IsFiniteSet(Admissions(k, from, a.at)) /\ T \in SUBSET Admissions(k, from, a.at)
      BY AdmissionsFinite DEF IInv
    <2> QED BY <2>1, FS_Subset
  <1>7. Cardinality(1..Len(queue)) = Len(queue)
    <2> HIDE DEF queue
    <2> QED BY <1>2, PlacesFinite
  <1>8. Cardinality(1..Len(queue)) <= Cardinality(T) /\ Cardinality(T) \in Nat
    <2> HIDE DEF T, queue
    <2> QED BY <1>5, <1>6, FS_Injection, FS_CardinalityType
  <1> HIDE DEF T, queue
  <1> QED BY <1>2, <1>7, <1>8

-----------------------------------------------------------------------------
(* What the answers say of the past stays true. *)

(* A step of time or one answer. *)
LEMMA StepAnswers ==
  ASSUME IInv, [Next]_vars
  PROVE  \/ answers' = answers /\ clock' \in {clock, clock + 1}
         \/ /\ clock' = clock
            /\ \E answer \in Answer : /\ answer.at = clock
                                      /\ answers' = Append(answers, answer)
  <1>1. ASSUME NEW c \in Caller, Check(c)
        PROVE  /\ clock' = clock
               /\ \E answer \in Answer : /\ answer.at = clock
                                         /\ answers' = Append(answers, answer)
    BY <1>1, CheckIs DEF Check, Checked
  <1>2. ASSUME NEW c \in Caller, NEW k \in Key, ReadClock(c, k)
        PROVE  answers' = answers /\ clock' = clock
    BY <1>2 DEF ReadClock
  <1>3. CASE Tick
    BY <1>3 DEF Tick
  <1>4. CASE UNCHANGED vars
    BY <1>4 DEF vars
  <1> QED BY <1>1, <1>2, <1>3, <1>4 DEF Next

(* An answer admits at no other instant than now. *)
LEMMA AdmissionsKept ==
  ASSUME IInv, NEW answer \in Answer, answer.at = clock,
         answers' = Append(answers, answer),
         NEW k, NEW from, NEW to, NEW n \in Nat,
         n <= Len(answers) + 1, n <= Len(answers) \/ to < clock, to \in Nat
  PROVE  {j \in Admissions(k, from, to)' : j <= n}
            = {j \in Admissions(k, from, to) : j <= n}
  <1>1. /\ Len(answers') = Len(answers) + 1 /\ Len(answers) \in Nat
        /\ \A i \in 1..Len(answers) : answers'[i] = answers[i]
        /\ answers'[Len(answers) + 1] = answer
    BY CheckedAnswers
  <1>2. clock \in Nat
    BY Constants DEF IInv
  <1>3. \A j \in 1..Len(answers') : j \in 1..Len(answers) \/ j = Len(answers) + 1
    BY <1>1
  <1>4. ASSUME to < clock PROVE clock \notin from..to
    BY <1>2, <1>4
  <1>5. ASSUME n <= Len(answers) PROVE ~(Len(answers) + 1 <= n)
    BY <1>1, <1>5
  <1>6. \A j \in 1..Len(answers) : j \in 1..Len(answers')
    BY <1>1
  <1> QED BY <1>1, <1>3, <1>4, <1>5, <1>6 DEF Admissions

-----------------------------------------------------------------------------
(* The theorems. *)

(* The windows keep their types: no window outgrows its limit, and none holds
   an instant that the clock has not reached. *)
THEOREM LimiterTypeCorrect == Spec => []TypeOK
  BY LimiterInvariance, TypeFromIInv, PTL

(* At first nobody is admitted. *)
LEMMA NeverOverInit == Init => NeverOverLimit
  <1> SUFFICES ASSUME Init, NEW k \in Key, NEW from, NEW to
               PROVE  Cardinality(Admissions(k, from, to)) <= Limit[k]
    BY DEF NeverOverLimit
  <1>1. Admissions(k, from, to) = {}
    BY DEF Init, Admissions
  <1> QED BY <1>1, FS_EmptySet, Constants

(* An interval that ends now is covered by NotOverNow, any other was before. *)
LEMMA NeverOverStep ==
  ASSUME IInv, [Next]_vars, NotOverNow', NeverOverLimit
  PROVE  NeverOverLimit'
  <1>1. clock \in Nat
    BY Constants DEF IInv
  <1>2. clock' \in {clock, clock + 1}
    BY StepAnswers
  <1> SUFFICES ASSUME NEW k \in Key, NEW to \in 0..clock'
               PROVE  Cardinality(Admissions(k, Since(to + Delay + 1, Window), to)')
                         <= Limit[k]
    BY DEF NeverOverLimit
  <1> DEFINE from == Since(to + Delay + 1, Window)
  <1>3. CASE to = clock'
    BY <1>3 DEF NotOverNow
  <1>4. CASE to # clock'
    <2>1. to \in 0..clock /\ (to < clock \/ clock' # clock)
      BY <1>1, <1>2, <1>4
    <2>2. Cardinality(Admissions(k, from, to)) <= Limit[k]
      BY <2>1 DEF NeverOverLimit
    <2>3. Admissions(k, from, to)' = Admissions(k, from, to)
      <3>1. CASE answers' = answers
        BY <3>1 DEF Admissions
      <3>2. ASSUME clock' = clock,
                   NEW answer \in Answer, answer.at = clock,
                   answers' = Append(answers, answer)
            PROVE  Admissions(k, from, to)' = Admissions(k, from, to)
        <4> DEFINE n == Len(answers) + 1
        <4>1. n \in Nat /\ Len(answers') = n
          BY <3>2, CheckedAnswers
        <4>2. to \in Nat /\ to < clock
          BY <2>1, <3>2
        <4>3. {j \in Admissions(k, from, to)' : j <= n}
                 = {j \in Admissions(k, from, to) : j <= n}
          <5> HIDE DEF from
          <5> QED BY <3>2, <4>1, <4>2, AdmissionsKept
        <4>4. /\ \A j \in Admissions(k, from, to)' : j <= n
              /\ \A j \in Admissions(k, from, to) : j <= n
          BY <4>1, AnswersTyped DEF Admissions, IInv
        <4> HIDE DEF n, from
        <4> QED BY <4>3, <4>4
      <3> QED BY <3>1, <3>2, StepAnswers
    <2> QED BY <2>2, <2>3
  <1> QED BY <1>3, <1>4

(* check() never lets more than the limit through in a stretch of time shorter
   than the window by the time a caller may wait for the lock, at any moment
   of the past, whatever the callers and the order in which they get it. *)
THEOREM LimiterNeverOverLimit == Spec => []NeverOverLimit
  <1>1. Init => NeverOverLimit
    BY NeverOverInit
  <1>2. IInv /\ [Next]_vars /\ NotOverNow' /\ NeverOverLimit => NeverOverLimit'
    BY NeverOverStep
  <1>3. IInv => NotOverNow
    BY CountNow
  <1> QED BY <1>1, <1>2, <1>3, LimiterInvariance, PTL DEF Spec

(* What the property says of the i-th answer. *)
Busy(i) ==
    LET a == answers[i]
        from == Since(a.at, Window + Delay - 1) IN
    ~a.admitted =>
        Cardinality({j \in Admissions(a.key, from, a.at) : j < i}) >= Limit[a.key]

(* What a refusal found stays true of it. *)
LEMMA BusyStep ==
  ASSUME IInv, [Next]_vars, BusyNow', RefusedOnlyWhenBusy
  PROVE  RefusedOnlyWhenBusy'
  <1>1. CASE answers' = answers
    <2>1. \A i \in 1..Len(answers) : Busy(i)
      BY DEF RefusedOnlyWhenBusy, Busy
    <2>2. \A i \in 1..Len(answers') : Busy(i)'
      BY <1>1, <2>1 DEF Busy, Admissions
    <2> QED BY <2>2 DEF RefusedOnlyWhenBusy, Busy
  <1>2. ASSUME NEW answer \in Answer, answer.at = clock,
               answers' = Append(answers, answer)
        PROVE  RefusedOnlyWhenBusy'
    <2>1. /\ Len(answers') = Len(answers) + 1 /\ Len(answers) \in Nat
          /\ \A i \in 1..Len(answers) : answers'[i] = answers[i]
          /\ answers'[Len(answers) + 1] = answer
      BY <1>2, CheckedAnswers
    <2>2. Busy(Len(answers))'
      BY <2>1 DEF BusyNow, Busy
    <2>3. ASSUME NEW i \in 1..Len(answers)
          PROVE  Busy(i)'
      <3>1. PICK key, at, from : /\ key = answers[i].key /\ at = answers[i].at
                                 /\ from = Since(at, Window + Delay - 1)
        OBVIOUS
      <3>2. i \in Nat /\ i - 1 \in Nat /\ i - 1 <= Len(answers) /\ at \in Nat
        BY <2>1, <3>1, AnswersTyped DEF IInv
      <3>3. {j \in Admissions(key, from, at)' : j <= i - 1}
               = {j \in Admissions(key, from, at) : j <= i - 1}
        <4>1. PICK n \in Nat : n = i - 1
          BY <3>2
        <4>2. {j \in Admissions(key, from, at)' : j <= n}
                 = {j \in Admissions(key, from, at) : j <= n}
          BY <1>2, <3>2, <4>1, AdmissionsKept
        <4> QED BY <4>1, <4>2
      <3>4. {j \in Admissions(key, from, at)' : j < i}
               = {j \in Admissions(key, from, at) : j < i}
        <4>1. /\ \A j \in Admissions(key, from, at)' : j \in Nat
              /\ \A j \in Admissions(key, from, at) : j \in Nat
          BY <2>1 DEF Admissions
        <4>2. \A j \in Nat : j < i <=> j <= i - 1
          BY <3>2
        <4> QED BY <3>3, <4>1, <4>2
      <3>5. ~answers[i].admitted =>
              Cardinality({j \in Admissions(key, from, at) : j < i}) >= Limit[key]
        BY <3>1 DEF RefusedOnlyWhenBusy
      <3>6. answers'[i] = answers[i]
        BY <2>1
      <3> QED BY <3>1, <3>4, <3>5, <3>6 DEF Busy
    <2>4. \A i \in 1..Len(answers') : i \in 1..Len(answers) \/ i = Len(answers')
      BY <2>1
    <2> QED BY <2>2, <2>3, <2>4 DEF RefusedOnlyWhenBusy, Busy
  <1> QED BY <1>1, <1>2, StepAnswers

(* Nobody is refused unless the full number of others was admitted shortly
   before: keeping expired instants behind a younger front costs at most the
   time a caller may wait for the lock. *)
THEOREM LimiterRefusesOnlyWhenBusy == Spec => []RefusedOnlyWhenBusy
  <1>1. Init => RefusedOnlyWhenBusy
    BY DEF Init, RefusedOnlyWhenBusy
  <1>2. IInv /\ [Next]_vars /\ BusyNow' /\ RefusedOnlyWhenBusy
           => RefusedOnlyWhenBusy'
    BY BusyStep
  <1>3. IInv => BusyNow
    BY CountRefusal
  <1> QED BY <1>1, <1>2, <1>3, LimiterInvariance, PTL DEF Spec

(* Of two refusals in a row, the second is not due when it comes. *)
LEMMA RefusedTwice ==
  ASSUME IInv, clock' = clock, answers # <<>>,
         NEW k \in Key, NEW now \in Nat, NEW answer \in Answer,
         NEW d \in 0..Len(timestamps[k]), Checked(k, now, d, answer),
         now <= clock, clock <= now + Delay,
         answers[Len(answers)].key = k, ~answers[Len(answers)].admitted,
         ~answer.admitted
  PROVE  LET refused == answers[Len(answers)]
         IN answer.at < refused.at + refused.retry + Second + Delay - 1
  <1> DEFINE refused == answers[Len(answers)]
             front == timestamps[k][1]
             at == refused.at
             retry == refused.retry
             again == answer.at
  <1>1. /\ timestamps[k] \in Seq(Nat) /\ Len(timestamps[k]) = Limit[k]
        /\ Limit[k] \in Nat \ {0}
        /\ front + Window < at + retry + Second
    BY Constants DEF IInv, WindowsOK, LastRefusal
  <1>2. timestamps'[k][1] = front
    <2>1. /\ Len(timestamps[k]) - d = Limit[k]
          /\ \A i \in 1..(Len(timestamps[k]) - d) :
                timestamps'[k][i] = timestamps[k][i + d]
      BY CheckedWindow
    <2>2. d = 0
      BY <1>1, <2>1
    <2>3. 1 \in 1..(Len(timestamps[k]) - d) /\ 1 + d = 1
      BY <1>1, <2>2
    <2> QED BY <2>1, <2>3
  <1>3. again < front + Window + Delay
    <2>1. LastRefusal'
      BY CheckedRefusal
    <2>2. answers' # <<>> /\ answers'[Len(answers')] = answer
      BY CheckedAnswers DEF Checked
    <2>3. answer.key = k
      BY DEF Checked
    <2> QED BY <1>2, <2>1, <2>2, <2>3 DEF LastRefusal
  <1>4. /\ at \in Nat /\ retry \in Nat /\ again \in Nat /\ front \in Nat
        /\ Window \in Nat /\ Second \in Nat /\ Delay \in Nat
    <2>1. Len(answers) \in 1..Len(answers)
      BY AnswersTyped DEF IInv, AnswersOK
    <2>2. at \in Nat /\ retry \in Nat
      BY <2>1, AnswersTyped DEF IInv
    <2>3. again \in Nat
      BY DEF Answer
    <2>4. 1 \in 1..Len(timestamps[k])
      BY <1>1
    <2> QED BY <1>1, <2>2, <2>3, <2>4, Constants
  <1> HIDE DEF front, at, retry, again
  <1>5. again < at + retry + Second + Delay - 1
    BY <1>1, <1>3, <1>4
  <1> QED BY <1>5 DEF at, retry, again

(* What the property says of the i-th answer and the one before. *)
Suffices(i) ==
    LET refused == answers[i - 1]
        due == refused.at + refused.retry + Second + Delay - 1 IN
    ~ /\ ~refused.admitted
      /\ ~answers[i].admitted
      /\ answers[i].key = refused.key
      /\ answers[i].at >= due

(* What a refusal promised holds of the next answer. *)
LEMMA SufficesStep ==
  ASSUME IInv, [Next]_vars, RetryAfterAlmostSuffices
  PROVE  RetryAfterAlmostSuffices'
  <1>1. \A i \in 2..Len(answers) : Suffices(i)
    BY DEF RetryAfterAlmostSuffices, Suffices
  <1>2. ASSUME answers' = answers PROVE RetryAfterAlmostSuffices'
    BY <1>1, <1>2 DEF RetryAfterAlmostSuffices, Suffices
  <1>3. ASSUME NEW c \in Caller, Check(c) PROVE RetryAfterAlmostSuffices'
    <2>1. PICK k \in Key, now \in Nat, answer \in Answer :
             \E d \in 0..Len(timestamps[k]) :
                /\ Checked(k, now, d, answer)
                /\ now <= clock /\ clock <= now + Delay
      BY <1>3, CheckIs
    <2>2. PICK d \in 0..Len(timestamps[k]) :
                /\ Checked(k, now, d, answer)
                /\ now <= clock /\ clock <= now + Delay
      BY <2>1
    <2>3. /\ Len(answers') = Len(answers) + 1 /\ Len(answers) \in Nat
          /\ \A i \in 1..Len(answers) : answers'[i] = answers[i]
          /\ answers'[Len(answers) + 1] = answer
          /\ answer.key = k /\ answer.at = clock /\ clock' = clock
      BY <1>3, <2>2, CheckedAnswers DEF Checked, Check
    <2>4. ASSUME NEW i \in 2..Len(answers) PROVE Suffices(i)'
      <3>1. i \in 1..Len(answers) /\ i - 1 \in 1..Len(answers)
        BY <2>3
      <3> QED BY <1>1, <2>3, <3>1 DEF Suffices
    <2>5. ASSUME Len(answers) >= 1 PROVE Suffices(Len(answers))'
      <3> DEFINE n == Len(answers)
                 refused == answers[n]
                 due == refused.at + refused.retry + Second + Delay - 1
      <3>1. /\ Len(answers') = n + 1 /\ Len(answers') - 1 = n
            /\ n \in 1..n /\ answers # <<>>
        BY <2>3, <2>5 DEF IInv, AnswersOK
      <3>2. answers'[n] = refused /\ answers'[n + 1] = answer
        BY <2>3, <3>1
      <3>3. (~refused.admitted /\ ~answer.admitted /\ answer.key = refused.key)
               => answer.at < due
        BY <2>2, <2>3, <3>1, RefusedTwice
      <3>4. answer.at \in Nat /\ due \in Int
        <4>1. refused.at \in Nat /\ refused.retry \in Nat
          BY <3>1, AnswersTyped DEF IInv
        <4> QED BY <4>1, Constants DEF Answer
      <3>5. ~ /\ ~refused.admitted /\ ~answer.admitted
              /\ answer.key = refused.key /\ answer.at >= due
        <4> HIDE DEF refused, due
        <4> QED BY <3>3, <3>4
      <3> QED BY <3>1, <3>2, <3>5 DEF Suffices
    <2>6. \A i \in 2..Len(answers') :
             i \in 2..Len(answers) \/ (i = Len(answers') /\ Len(answers) >= 1)
      BY <2>3
    <2>7. \A i \in 2..Len(answers') : Suffices(i)'
      BY <2>4, <2>5, <2>6
    <2> QED BY <2>7 DEF RetryAfterAlmostSuffices, Suffices
  <1>4. CASE Tick
    BY <1>2, <1>4 DEF Tick
  <1>5. ASSUME NEW c \in Caller, NEW k \in Key, ReadClock(c, k)
        PROVE  RetryAfterAlmostSuffices'
    BY <1>2, <1>5 DEF ReadClock
  <1>6. CASE UNCHANGED vars
    BY <1>2, <1>6 DEF vars
  <1> QED BY <1>3, <1>4, <1>5, <1>6 DEF Next

(* A caller that waits for what Retry-After told it, and a second more, is not
   refused again when nobody else asked in between: the whole seconds of the
   header fall short of the oldest instant's expiry by less than one. *)
THEOREM LimiterRetryAfterAlmostSuffices == Spec => []RetryAfterAlmostSuffices
  <1>1. Init => RetryAfterAlmostSuffices
    BY DEF Init, RetryAfterAlmostSuffices
  <1>2. IInv /\ [Next]_vars /\ RetryAfterAlmostSuffices => RetryAfterAlmostSuffices'
    BY SufficesStep
  <1> QED BY <1>1, <1>2, LimiterInvariance, PTL DEF Spec
=============================================================================
