--------------------------- MODULE Motion_proofs ---------------------------
(***************************************************************************)
(* Proofs about Go() and Back(), for every size of a byte, every margin    *)
(* and every distance.                                                     *)
(***************************************************************************)
EXTENDS Motion, TLAPS

(***************************************************************************)
(* The inductive invariant.  Run counts the pulses since the disc was      *)
(* cleared last, Before those of them up to the last step of the           *)
(* processor: what a byte read then was read from.                         *)
(***************************************************************************)
Run == travel - cleared
Before == Run - moved

(* The disc after n pulses from zero. *)
Shown(n) == IF op = "go" \/ n = 0 THEN n ELSE W - n

HalfOf(d) == half.val = IF half.high THEN d \div Base ELSE d % Base

(* After n pulses the low byte has just wrapped.  Then the next poll is    *)
(* not torn, which is what bounds the overrun.                             *)
Wrapped(n) == (IF op = "go" THEN n ELSE n - 1) % Base = 0

(* After n pulses at most k came since a poll that found the move behind   *)
(* its distance, or that was torn.                                         *)
Past(n, k) ==
  \/ n <= dist + k
  \/ \E m \in Int : Wrapped(m) /\ m <= dist + Round /\ m <= n /\ n <= m + k

(* How far the move may be when the first byte is about to be read.        *)
Behind(n) == IF why = "arm" THEN n <= 1 ELSE Past(n, Printing + Lag)

Power == wheels = IF why \in {"arm", "poll"} THEN IF op = "go" THEN 1 ELSE -1 ELSE 0

Places ==
  /\ pc = "idle" => why = "last"
  /\ pc \in {"command", "check"} => why \in {"clear", "last"}
  /\ why = "arm" => op = "back"
  /\ pc \in {"decide", "wait"} => why = "poll"
  /\ pc = "check" \/ (pc \in {"first", "second"} /\ why = "clear") => tries > 0

(* The pulses of one step, or of one wait.                                 *)
Counted == moved <= Room

(* Before the start: locked wheels leave the disc to the clear command. *)
Clearing == pc = "second" /\ why = "clear" => HalfOf(disc) \/ disc = 0

Moving == pc \in {"first", "second", "decide", "wait"} /\ why \in {"arm", "poll"} /\ Polled

OnTheWay ==
  Moving =>
    /\ disc = Shown(Run)
    /\ moved <= travel
    /\ why = "poll" /\ op = "back" /\ cleared = 0 => Before >= 1
    /\ pc = "first" => Behind(Before)
    /\ pc = "second" =>
         /\ \/ cleared # 0 /\ Before <= 0
            \/ /\ Before >= 0 /\ HalfOf(Shown(Before))
               /\ Behind(Before) \/ Behind(Before - 1)
         /\ op = "go" /\ half.high => half.val * Base <= travel
    /\ pc = "decide" =>
         /\ Before <= dist + 2 * Round
         /\ ~Arrived(reading) => Past(Before, 0)
         /\ Arrived(reading) /\ (op = "back" => cleared = 0) =>
              travel >= dist - (Base - 1)
    /\ pc = "wait" => Past(Before, Printing)

(* The wheels are locked again. *)
Halted == pc \in {"idle", "first", "second"} /\ why = "last" /\ Polled

AtRest ==
  Halted =>
    /\ disc = Shown(Run)
    /\ Run <= dist + Slack
    /\ Stopped /\ (op = "back" => cleared = 0) => travel >= dist - (Base - 1)
    /\ pc = "second" /\ cleared = 0 => HalfOf(disc)
    /\ pc = "idle" /\ cleared = 0 => reading = disc

MotionInv ==
  MotionTypeOK /\ Power /\ Places /\ Counted /\ Clearing /\ OnTheWay /\ AtRest
-----------------------------------------------------------------------------
(* Bytes.                                                                  *)
LEMMA Size == /\ W \in Nat /\ W = Base * Base /\ 4 * Base <= W
              /\ Base \in Nat /\ Base >= 4 /\ Margin \in Nat /\ Arm \in Nat
              /\ Arm >= 4 /\ Margin >= Arm /\ 2 * Margin < W
<1>1. /\ Base \in Nat /\ Base >= 4 /\ Margin \in Nat /\ Arm \in Nat
      /\ Arm >= 4 /\ Margin >= Arm /\ 2 * Margin < W
  BY MotionAssumption
<1>2. W = Base * Base /\ W \in Nat
  BY <1>1 DEF W
<1>3. Base * Base = 4 * Base + (Base - 4) * Base /\ (Base - 4) * Base >= 0
  BY <1>1
<1>4. 4 * Base <= W
  BY <1>1, <1>2, <1>3
<1>. QED  BY <1>1, <1>2, <1>4

LEMMA Waits == /\ Lag \in Nat /\ Lag >= 1 /\ 2 * Lag + 2 < Base
               /\ Printing \in Nat /\ Printing >= 1 /\ Printing <= Lag
               /\ Room \in Nat /\ Room >= 1 /\ Room <= Lag
               /\ Round = Printing + Lag + 2 /\ Round \in Nat /\ Round < Base
               /\ Slack = 2 * Round + Printing /\ Slack \in Nat
<1>1. Lag \in Nat /\ Lag >= 1 /\ 2 * Lag + 2 < Base /\ Base \in Nat
  BY MotionAssumption
<1>2. Printing \in Nat /\ Printing >= 1 /\ Printing <= Lag
  BY <1>1 DEF Printing
<1>3. Room \in Nat /\ Room >= 1 /\ Room <= Lag
  BY <1>1, <1>2 DEF Room
<1>4. Round = Printing + Lag + 2 /\ Slack = 2 * Round + Printing
  BY DEF Round, Slack
<1>. QED  BY <1>1, <1>2, <1>3, <1>4

(* A number is its two digits, and these determine it. *)
LEMMA Digits ==
  ASSUME NEW d \in 0..(W - 1)
  PROVE  /\ d \div Base \in 0..(Base - 1) /\ d % Base \in 0..(Base - 1)
         /\ d = (d \div Base) * Base + (d % Base)
<1>1. d \in Nat /\ d < Base * Base /\ Base \in Nat /\ Base >= 4
  BY Size
<1>2. d % Base \in 0..(Base - 1) /\ d = (d \div Base) * Base + (d % Base) /\ d \div Base \in Int
  BY <1>1
<1>. DEFINE q == d \div Base
<1>3. q * Base <= d /\ d < (q + 1) * Base
  BY <1>1, <1>2
<1>. HIDE DEF q
<1>4. q >= 0
  <2>. SUFFICES ASSUME q < 0 PROVE FALSE
    BY <1>2 DEF q
  <2>1. q + 1 <= 0 /\ q \in Int
    BY <1>2 DEF q
  <2>2. (q + 1) * Base <= 0
    BY <1>1, <2>1
  <2>. QED  BY <1>1, <1>3, <2>1, <2>2
<1>5. q < Base
  <2>. SUFFICES ASSUME q >= Base PROVE FALSE
    BY <1>1, <1>2 DEF q
  <2>1. q \in Int
    BY <1>2 DEF q
  <2>2. q * Base >= Base * Base
    BY <1>1, <2>1
  <2>. QED  BY <1>1, <1>3, <2>1, <2>2
<1>. QED  BY <1>1, <1>2, <1>4, <1>5 DEF q

LEMMA Together ==
  ASSUME NEW h \in Int, NEW l \in 0..(Base - 1)
  PROVE  (h * Base + l) \div Base = h /\ (h * Base + l) % Base = l
  BY Size

LEMMA Successor ==
  ASSUME NEW d \in 0..(W - 1), d + 1 <= W - 1
  PROVE  IF d % Base = Base - 1
         THEN (d + 1) % Base = 0 /\ (d + 1) \div Base = (d \div Base) + 1
         ELSE (d + 1) % Base = (d % Base) + 1 /\ (d + 1) \div Base = d \div Base
<1>. DEFINE q == d \div Base
            r == d % Base
<1>1. q \in Nat /\ r \in 0..(Base - 1) /\ d = q * Base + r /\ Base \in Nat /\ Base >= 4
  BY Digits, Size
<1>. HIDE DEF q, r
<1>2. CASE r = Base - 1
  <2>1. d + 1 = (q + 1) * Base + 0
    BY <1>1, <1>2
  <2>2. ((q + 1) * Base + 0) \div Base = q + 1 /\ ((q + 1) * Base + 0) % Base = 0
    BY <1>1, Together
  <2>. QED  BY <1>2, <2>1, <2>2 DEF q, r
<1>3. CASE r # Base - 1
  <2>1. d + 1 = q * Base + (r + 1) /\ r + 1 \in 0..(Base - 1)
    BY <1>1, <1>3
  <2>2. (q * Base + (r + 1)) \div Base = q /\ (q * Base + (r + 1)) % Base = r + 1
    BY <1>1, <2>1, Together
  <2>. QED  BY <1>3, <2>1, <2>2 DEF q, r
<1>. QED  BY <1>2, <1>3

(* What is put together from a byte of a and then the other byte of b. *)
Put(high, a, b) ==
  IF high THEN (a \div Base) * Base + (b % Base) ELSE (b \div Base) * Base + (a % Base)

(* The two bytes of one number are the number. *)
LEMMA PutSame ==
  ASSUME NEW a \in 0..(W - 1), NEW h \in BOOLEAN
  PROVE  Put(h, a, a) = a
  BY Digits DEF Put

(* Whatever the bytes, the reading is near what the second one is from. *)
LEMMA PutUp ==
  ASSUME NEW a \in 0..(W - 1), a + 1 <= W - 1, NEW h \in BOOLEAN
  PROVE  \/ Put(h, a, a + 1) \in {a, a + 1}
         \/ (a + 1) % Base = 0 /\ Put(h, a, a + 1) \in {a + 1 - Base, a + Base}
<1>. DEFINE q == a \div Base
            r == a % Base
<1>1. q \in Nat /\ r \in 0..(Base - 1) /\ a = q * Base + r /\ Base \in Nat
  BY Digits, Size
<1>2. IF r = Base - 1
         THEN (a + 1) % Base = 0 /\ (a + 1) \div Base = q + 1
         ELSE (a + 1) % Base = r + 1 /\ (a + 1) \div Base = q
  BY Successor
<1>3. Put(h, a, a + 1) = IF h THEN q * Base + ((a + 1) % Base)
                         ELSE ((a + 1) \div Base) * Base + r
  BY DEF Put
<1>. HIDE DEF q, r
<1>4. (q + 1) * Base = q * Base + Base /\ q * Base \in Nat
  BY <1>1
<1>5. CASE r = Base - 1
  BY <1>1, <1>2, <1>3, <1>4, <1>5
<1>6. CASE r # Base - 1
  BY <1>1, <1>2, <1>3, <1>4, <1>6
<1>. QED  BY <1>5, <1>6

LEMMA PutDown ==
  ASSUME NEW b \in 0..(W - 1), b + 1 <= W - 1, NEW h \in BOOLEAN
  PROVE  \/ Put(h, b + 1, b) \in {b, b + 1}
         \/ (b + 1) % Base = 0 /\ Put(h, b + 1, b) \in {b + 1 - Base, b + Base}
<1>. DEFINE q == b \div Base
            r == b % Base
<1>1. q \in Nat /\ r \in 0..(Base - 1) /\ b = q * Base + r /\ Base \in Nat
  BY Digits, Size
<1>2. IF r = Base - 1
         THEN (b + 1) % Base = 0 /\ (b + 1) \div Base = q + 1
         ELSE (b + 1) % Base = r + 1 /\ (b + 1) \div Base = q
  BY Successor
<1>3. Put(h, b + 1, b) = IF h THEN ((b + 1) \div Base) * Base + r
                         ELSE q * Base + ((b + 1) % Base)
  BY DEF Put
<1>. HIDE DEF q, r
<1>4. (q + 1) * Base = q * Base + Base /\ q * Base \in Nat
  BY <1>1
<1>5. CASE r = Base - 1
  BY <1>1, <1>2, <1>3, <1>4, <1>5
<1>6. CASE r # Base - 1
  BY <1>1, <1>2, <1>3, <1>4, <1>6
<1>. QED  BY <1>5, <1>6

(* The ends of the disc. *)
LEMMA Ends ==
  /\ 0 \div Base = 0 /\ 0 % Base = 0
  /\ \A k \in 1..4 : (W - k) \div Base = Base - 1 /\ (W - k) % Base = Base - k
<1>1. Base \in Nat /\ Base >= 4 /\ W = Base * Base
  BY Size
<1>2. 0 = 0 * Base + 0
  BY <1>1
<1>3. ASSUME NEW k \in 1..4
      PROVE  (W - k) \div Base = Base - 1 /\ (W - k) % Base = Base - k
  <2>1. W - k = (Base - 1) * Base + (Base - k) /\ Base - k \in 0..(Base - 1) /\ Base - 1 \in Int
    BY <1>1
  <2>. QED  BY <2>1, Together
<1>. QED  BY <1>1, <1>2, <1>3, Together

LEMMA PutFromZero ==
  ASSUME NEW h \in BOOLEAN
  PROVE  Put(h, 0, W - 1) \in {Base - 1, W - Base}
<1>1. Base \in Nat /\ Base >= 4 /\ W = Base * Base
  BY Size
<1>2. (Base - 1) * Base = W - Base
  BY <1>1
<1>. QED  BY <1>1, <1>2, Ends DEF Put

(***************************************************************************)
(* A poll: the first byte is read after n pulses, the second one after m.  *)
(***************************************************************************)
LEMMA ShownType ==
  ASSUME op \in {"go", "back"}, NEW n \in 0..(W - 1)
  PROVE  Shown(n) \in 0..(W - 1)
  BY Size DEF Shown

LEMMA WrappedDown ==
  ASSUME op = "back", NEW n \in 1..(W - 1), (W - n) % Base = 0
  PROVE  Wrapped(n + 1)
<1>1. Base \in Nat /\ Base >= 4 /\ W = Base * Base /\ W - n \in 0..(W - 1)
  BY Size
<1>. DEFINE q == (W - n) \div Base
<1>2. q \in Int /\ W - n = q * Base + 0
  BY <1>1, Digits
<1>. HIDE DEF q
<1>. DEFINE p == Base - q
<1>3. n = p * Base + 0 /\ p \in Int
  BY <1>1, <1>2
<1>. HIDE DEF p
<1>4. (p * Base + 0) % Base = 0
  BY <1>1, <1>3, Together
<1>5. n + 1 - 1 = n
  OBVIOUS
<1>. QED  BY <1>3, <1>4, <1>5 DEF Wrapped

LEMMA PollUntorn ==
  ASSUME op \in {"go", "back"}, NEW n \in 0..(W - 1), n + 1 <= W - 1,
         NEW h \in BOOLEAN
  PROVE  \/ Put(h, Shown(n), Shown(n + 1)) \in {Shown(n), Shown(n + 1)}
         \/ Wrapped(n + 1)
<1>0. Base \in Nat /\ Base >= 4 /\ W \in Nat
  BY Size
<1>1. CASE op = "go"
  BY <1>0, <1>1, PutUp DEF Shown, Wrapped
<1>2. CASE op = "back" /\ n = 0
  BY <1>0, <1>2, Ends DEF Wrapped
<1>3. CASE op = "back" /\ n # 0
  <2>. DEFINE b == W - (n + 1)
  <2>1. b \in 0..(W - 1) /\ b + 1 <= W - 1 /\ b + 1 = W - n
    BY <1>0, <1>3
  <2>2. Shown(n) = b + 1 /\ Shown(n + 1) = b
    BY <1>0, <1>3 DEF Shown
  <2>. HIDE DEF b
  <2>3. \/ Put(h, b + 1, b) \in {b, b + 1}
        \/ (b + 1) % Base = 0
    BY <2>1, PutDown
  <2>4. n \in 1..(W - 1) /\ ((W - n) % Base = 0 => Wrapped(n + 1))
    BY <1>0, <1>3, WrappedDown
  <2>. QED  BY <2>1, <2>2, <2>3, <2>4
<1>. QED  BY <1>1, <1>2, <1>3

(* However it is torn, the reading is off by less than a byte, but for the *)
(* step of Back() from zero down.                                          *)
LEMMA PollNear ==
  ASSUME op \in {"go", "back"}, NEW n \in 0..(W - 1), n + 1 <= W - 1,
         op = "back" => n # 0, NEW h \in BOOLEAN
  PROVE  LET r == Put(h, Shown(n), Shown(n + 1))
         IN  IF op = "go" THEN r <= n + Base ELSE r >= W - n - Base
<1>0. Base \in Nat /\ Base >= 4 /\ W \in Nat
  BY Size
<1>1. CASE op = "go"
  BY <1>0, <1>1, PutUp DEF Shown
<1>2. CASE op = "back"
  <2>. DEFINE b == W - (n + 1)
  <2>1. b \in 0..(W - 1) /\ b + 1 <= W - 1 /\ b + 1 = W - n
    BY <1>0, <1>2
  <2>2. Shown(n) = b + 1 /\ Shown(n + 1) = b
    BY <1>0, <1>2 DEF Shown
  <2>3. b + 1 - Base = W - n - Base /\ b >= W - n - Base
    BY <1>0, <2>1
  <2>. HIDE DEF b
  <2>. QED  BY <1>0, <1>2, <2>1, <2>2, <2>3, PutDown
<1>. QED  BY <1>1, <1>2

(* Two wraps are a whole byte apart. *)
LEMMA WrapsApart ==
  ASSUME NEW n \in Int, Wrapped(n), NEW l \in 1..(Base - 1)
  PROVE  ~Wrapped(n + l)
<1>1. Base \in Nat /\ Base >= 4
  BY Size
<1>2. ASSUME NEW k \in Int, k % Base = 0
      PROVE  (k + l) % Base = l
  <2>. DEFINE q == k \div Base
  <2>1. q \in Int /\ k = q * Base + 0
    BY <1>1, <1>2
  <2>. HIDE DEF q
  <2>2. k + l = q * Base + l
    BY <1>1, <2>1
  <2>3. l \in 0..(Base - 1)
    BY <1>1
  <2>4. (q * Base + l) % Base = l
    BY <2>1, <2>3, Together
  <2>. QED  BY <2>2, <2>4
<1>. DEFINE k == IF op = "go" THEN n ELSE n - 1
<1>3. k \in Int /\ (IF op = "go" THEN n + l ELSE n + l - 1) = k + l
  OBVIOUS
<1>4. k % Base = 0
  BY DEF Wrapped
<1>5. Wrapped(n + l) <=> (k + l) % Base = 0
  BY <1>3 DEF Wrapped
<1>. HIDE DEF k
<1>6. (k + l) % Base = l
  BY <1>2, <1>3, <1>4
<1>7. l # 0
  OBVIOUS
<1>. QED  BY <1>5, <1>6, <1>7

(* More pulses, counted with them.                                         *)
LEMMA PastMore ==
  ASSUME dist \in Nat, NEW n \in Int, NEW k \in Nat, NEW i \in Nat, NEW j \in Nat,
         Past(n, k), i <= j
  PROVE  Past(n + i, k + j)
<1>1. CASE n <= dist + k
  BY <1>1 DEF Past
<1>2. ASSUME NEW m \in Int, Wrapped(m), m <= dist + Round, m <= n, n <= m + k
      PROVE  Past(n + i, k + j)
  BY <1>2 DEF Past
<1>. QED  BY <1>1, <1>2 DEF Past

LEMMA PastBound ==
  ASSUME dist \in Nat, NEW n \in Int, NEW k \in Nat, Past(n, k)
  PROVE  n <= dist + Round + k
BY Waits DEF Past

-----------------------------------------------------------------------------
(* The reading of the second byte. *)
LEMMA SecondType ==
  ASSUME MotionTypeOK
  PROVE  Second \in 0..(W - 1)
<1>. DEFINE h == IF half.high THEN half.val ELSE disc \div Base
            l == IF half.high THEN disc % Base ELSE half.val
<1>1. Base \in Nat /\ Base >= 4 /\ W = Base * Base
  BY Size
<1>2. disc \div Base \in 0..(Base - 1) /\ disc % Base \in 0..(Base - 1)
      /\ half.val \in 0..(Base - 1)
  BY Digits DEF MotionTypeOK
<1>3. Second = h * Base + l
  BY DEF Second
<1>4. h \in 0..(Base - 1) /\ l \in 0..(Base - 1)
  BY <1>2
<1>. HIDE DEF h, l
<1>5. h * Base <= (Base - 1) * Base /\ h * Base \in Nat /\ (Base - 1) * Base = W - Base
  BY <1>1, <1>4
<1>. QED  BY <1>1, <1>3, <1>4, <1>5

LEMMA SecondIsPut ==
  ASSUME NEW d, HalfOf(d)
  PROVE  Second = Put(half.high, d, disc)
  BY DEF Second, Put, HalfOf

(* What every look starts from. *)
LEMMA RunRange ==
  ASSUME MotionInv, Moving
  PROVE  /\ dist \in Nat /\ Margin < dist /\ dist + Slack + Margin < W
         /\ travel \in Nat /\ cleared \in Nat /\ moved \in Nat /\ moved <= Room
         /\ Run \in 0..(dist + Slack) /\ Before \in Int
         /\ Run = Before + moved
         /\ op \in {"go", "back"} /\ half.high \in BOOLEAN
         /\ disc = Shown(Run)
<1>1. /\ dist \in Nat /\ Margin < dist /\ dist + Slack + Margin < W
  BY Size, Waits, MotionAssumption DEF MotionInv, MotionTypeOK, Moving, Polled, InRange
<1>2. travel \in Nat /\ cleared \in 0..travel /\ moved \in Nat /\ moved <= Room
  BY Waits DEF MotionInv, MotionTypeOK, Counted
<1>3. Run \in Nat /\ Before \in Int /\ Run = Before + moved
  BY <1>2 DEF Run, Before
<1>4. op \in {"go", "back"} /\ half.high \in BOOLEAN
  BY DEF MotionInv, MotionTypeOK
<1>5. Run <= dist + Slack
  <2>1. CASE pc = "first"
    <3>1. Behind(Before) /\ Room = 1
      BY <2>1 DEF MotionInv, Moving, OnTheWay, Room
    <3>2. CASE why = "arm"
      BY <1>1, <1>2, <1>3, <3>1, <3>2, Waits DEF Behind
    <3>3. CASE why # "arm"
      <4>1. Past(Before, Printing + Lag)
        BY <3>1, <3>3 DEF Behind
      <4>. QED  BY <1>1, <1>2, <1>3, <3>1, <4>1, PastBound, Waits
    <3>. QED  BY <3>2, <3>3
  <2>2. CASE pc = "second"
    <3>1. (Before <= 0 \/ Behind(Before) \/ Behind(Before - 1)) /\ Room = 1
      BY <2>2 DEF MotionInv, Moving, OnTheWay, Room
    <3>2. ASSUME NEW n \in {Before, Before - 1}, Behind(n) PROVE Run <= dist + Slack
      <4>2. CASE why = "arm"
        BY <1>1, <1>2, <1>3, <3>1, <3>2, <4>2, Waits DEF Behind
      <4>3. CASE why # "arm"
        <5>1. Past(n, Printing + Lag) /\ n \in Int
          BY <1>3, <3>2, <4>3 DEF Behind
        <5>. QED  BY <1>1, <1>2, <1>3, <3>1, <3>2, <5>1, PastBound, Waits
      <4>. QED  BY <4>2, <4>3
    <3>. QED  BY <1>1, <1>2, <1>3, <3>1, <3>2, Waits
  <2>3. CASE pc = "decide"
    <3>1. Before <= dist + 2 * Round /\ Room = Printing
      BY <2>3 DEF MotionInv, Moving, OnTheWay, Room
    <3>. QED  BY <1>1, <1>2, <1>3, <3>1, Waits
  <2>4. CASE pc = "wait"
    <3>1. Past(Before, Printing) /\ Room = Lag
      BY <2>4 DEF MotionInv, Moving, OnTheWay, Room
    <3>. QED  BY <1>1, <1>2, <1>3, <3>1, PastBound, Waits
  <2>. QED  BY <2>1, <2>2, <2>3, <2>4 DEF Moving
<1>. QED  BY <1>1, <1>2, <1>3, <1>4, <1>5 DEF MotionInv, OnTheWay

(* Between the two bytes no more than one pulse fits. *)
LEMMA BetweenBytes ==
  ASSUME MotionInv, Moving, pc = "second"
  PROVE  Run = Before \/ Run = Before + 1
BY RunRange DEF Room

(* A poll that does not end the move leaves it behind its distance, or     *)
(* just torn.                                                              *)
LEMMA StillBehind ==
  ASSUME MotionInv, Moving, pc = "second", why = "poll", ~Arrived(Second)
  PROVE  Past(Run, 0)
<1>0. /\ dist \in Nat /\ Margin < dist /\ Margin \in Nat
      /\ dist + Slack + Margin < W
      /\ Run \in 0..(dist + Slack) /\ Before \in Int
      /\ Run = Before \/ Run = Before + 1
      /\ op \in {"go", "back"} /\ half.high \in BOOLEAN /\ W \in Nat
      /\ disc = Shown(Run) /\ Slack \in Nat
  BY RunRange, BetweenBytes, Size, Waits
<1>. SUFFICES ASSUME Run > dist PROVE Past(Run, 0)
  BY <1>0 DEF Past
<1>1. /\ Before >= 0 /\ HalfOf(Shown(Before))
      /\ Behind(Before) \/ Behind(Before - 1)
  BY <1>0 DEF MotionInv, OnTheWay
<1>2. Second = Put(half.high, Shown(Before), Shown(Run))
  BY <1>0, <1>1, SecondIsPut
<1>3. Second \notin {Shown(Before), Shown(Run)}
  <2>. SUFFICES ASSUME Second \in {Shown(Before), Shown(Run)} PROVE Arrived(Second)
    OBVIOUS
  <2>1. InRange(dist)
    BY DEF Moving, Polled
  <2>2. CASE op = "go"
    BY <1>0, <1>1, <2>1, <2>2 DEF Shown, Arrived
  <2>3. CASE op = "back"
    BY <1>0, <1>1, <2>3 DEF Shown, Arrived, InRange
  <2>. QED  BY <1>0, <2>2, <2>3
<1>4. Before \in 0..(W - 1) /\ Shown(Before) \in 0..(W - 1)
  BY <1>0, <1>1, ShownType
<1>5. Run = Before + 1
  BY <1>0, <1>2, <1>3, <1>4, PutSame
<1>6. Wrapped(Run)
  <2>1. Before + 1 <= W - 1
    BY <1>0, <1>5
  <2>. QED  BY <1>0, <1>2, <1>3, <1>4, <1>5, <2>1, PollUntorn
<1>7. ASSUME NEW n \in {Before, Before - 1}, Behind(n)
      PROVE  Run <= dist + Round
  <2>0. n \in Int /\ n < Run /\ Run <= n + 2 /\ Past(n, Printing + Lag)
    BY <1>0, <1>5, <1>7 DEF Behind
  <2>1. CASE n <= dist + (Printing + Lag)
    BY <1>0, <2>0, <2>1, Waits
  <2>2. ASSUME NEW m \in Int, Wrapped(m), m <= n, n <= m + (Printing + Lag)
        PROVE  FALSE
    <3>1. Run - m \in 1..(Base - 1) /\ m + (Run - m) = Run
      BY <1>0, <2>0, <2>2, Size, Waits
    <3>. QED  BY <1>6, <2>2, <3>1, WrapsApart
  <2>. QED  BY <2>0, <2>1, <2>2 DEF Past
<1>8. Run <= dist + Round
  BY <1>1, <1>7
<1>. QED  BY <1>0, <1>6, <1>8 DEF Past

(* Back() sees the disc fall below zero within a poll. *)
LEMMA StillArming ==
  ASSUME MotionInv, Moving, pc = "second", why = "arm"
  PROVE  IF Second <= W - Arm THEN Run <= 1
         ELSE Run <= 3 /\ (cleared = 0 => Run >= 1)
<1>0. /\ Run \in Nat /\ Before \in Int /\ (Run = Before \/ Run = Before + 1)
      /\ op = "back" /\ half.high \in BOOLEAN /\ disc = Shown(Run)
      /\ Base \in Nat /\ Base >= 4 /\ W \in Nat /\ 4 * Base <= W
      /\ Arm \in Nat /\ Arm >= 4 /\ 2 * Arm < W
  BY RunRange, BetweenBytes, Size DEF MotionInv, Places
<1>1. CASE cleared # 0 /\ Before <= 0
  BY <1>0, <1>1
<1>2. CASE Before >= 0 /\ HalfOf(Shown(Before)) /\ (Behind(Before) \/ Behind(Before - 1))
  <2>1. Before \in 0..2 /\ Run \in 0..3
    BY <1>0, <1>2 DEF Behind
  <2>2. Second = Put(half.high, Shown(Before), Shown(Run))
    BY <1>0, <1>2, SecondIsPut
  <2>3. Run = 0 => Second = 0
    <3>. SUFFICES ASSUME Run = 0 PROVE Second = 0
      OBVIOUS
    <3>1. Shown(Before) = 0 /\ Shown(Run) = 0
      BY <1>0, <2>1 DEF Shown
    <3>. QED  BY <1>0, <2>2, <3>1, PutSame
  <2>4. Run >= 2 => Second > W - Arm
    <3>. SUFFICES ASSUME Run >= 2 PROVE Second > W - Arm
      OBVIOUS
    <3>1. Before \in 1..3 /\ Run \in 1..3
      BY <1>0, <2>1
    <3>2. /\ Shown(Before) = W - Before /\ Shown(Run) = W - Run
      BY <1>0, <3>1 DEF Shown
    <3>3. /\ (W - Before) \div Base = Base - 1 /\ (W - Before) % Base = Base - Before
          /\ (W - Run) \div Base = Base - 1 /\ (W - Run) % Base = Base - Run
      BY <3>1, Ends
    <3>4. Second \in {(Base - 1) * Base + (Base - Before), (Base - 1) * Base + (Base - Run)}
      BY <1>0, <2>2, <3>2, <3>3 DEF Put
    <3>5. (Base - 1) * Base = W - Base
      BY Size
    <3>. QED  BY <1>0, <3>1, <3>4, <3>5
  <2>5. Second \in Int
    BY SecondType DEF MotionInv
  <2>. QED  BY <1>0, <2>1, <2>3, <2>4, <2>5
<1>. QED  BY <1>1, <1>2 DEF MotionInv, OnTheWay, Moving

(* A poll that ends the move was read no more than a byte too far. *)
LEMMA NotShort ==
  ASSUME MotionInv, Moving, pc = "second", why = "poll", Arrived(Second),
         op = "back" => cleared = 0
  PROVE  travel >= dist - (Base - 1)
<1>0. /\ dist \in Nat /\ travel \in Nat /\ cleared \in Nat
      /\ Run \in 0..(dist + Slack) /\ Before \in Int /\ dist + Slack < W
      /\ Slack \in Nat
      /\ Run = Before \/ Run = Before + 1
      /\ op \in {"go", "back"} /\ half.high \in BOOLEAN
      /\ disc = Shown(Run) /\ Base \in Nat /\ Base >= 4 /\ W \in Nat
      /\ Run = travel - cleared /\ Run <= travel
  BY RunRange, BetweenBytes, Size, Waits DEF Run
<1>1. CASE op = "go"
  <2>1. Second >= dist /\ disc = Run /\ disc \in 0..(W - 1)
    BY <1>0, <1>1 DEF Arrived, Shown
  <2>2. CASE half.high
    <3>1. half.val * Base <= travel /\ half.val \in Int
      BY <1>1, <2>2 DEF MotionInv, MotionTypeOK, OnTheWay
    <3>2. disc % Base \in 0..(Base - 1) /\ Second = half.val * Base + (disc % Base)
      BY <2>1, <2>2, Digits DEF Second
    <3>3. half.val * Base \in Int
      BY <1>0, <3>1
    <3>. QED  BY <1>0, <2>1, <3>1, <3>2, <3>3
  <2>3. CASE ~half.high
    <3>. DEFINE q == disc \div Base
                l == disc % Base
    <3>1. half.val \in 0..(Base - 1) /\ Second = q * Base + half.val
      BY <2>3 DEF MotionInv, MotionTypeOK, Second
    <3>2. q \in 0..(Base - 1) /\ l \in 0..(Base - 1) /\ disc = q * Base + l
      BY <2>1, Digits
    <3>. HIDE DEF q, l
    <3>3. q * Base \in Int
      BY <1>0, <3>2
    <3>. QED  BY <1>0, <2>1, <3>1, <3>2, <3>3
  <2>. QED  BY <2>2, <2>3
<1>2. CASE op = "back"
  <2>1. Before >= 1 /\ HalfOf(Shown(Before)) /\ cleared = 0 /\ travel = Run
    BY <1>0, <1>2 DEF MotionInv, OnTheWay
  <2>2. Second = Put(half.high, Shown(Before), Shown(Run))
    BY <1>0, <2>1, SecondIsPut
  <2>3. W - Second >= dist
    BY <1>2 DEF Arrived
  <2>4. Before \in 0..(W - 1) /\ Shown(Before) \in 0..(W - 1) /\ Shown(Before) = W - Before
    BY <1>0, <1>2, <2>1, ShownType DEF Shown
  <2>5. CASE Run = Before
    <3>1. Second = W - Before
      BY <1>0, <2>2, <2>4, <2>5, PutSame
    <3>. QED  BY <1>0, <2>1, <2>3, <2>5, <3>1
  <2>6. CASE Run = Before + 1
    <3>1. Second >= W - Before - Base
      <4>1. Before # 0 /\ Before + 1 <= W - 1
        BY <1>0, <2>1, <2>6
      <4>. QED  BY <1>0, <1>2, <2>2, <2>4, <2>6, <4>1, PollNear
    <3>2. Second \in Int
      BY SecondType DEF MotionInv
    <3>. QED  BY <1>0, <2>1, <2>3, <2>6, <3>1, <3>2
  <2>. QED  BY <1>0, <2>5, <2>6
<1>. QED  BY <1>0, <1>1, <1>2

-----------------------------------------------------------------------------
(* The numbers of the type invariant, and its flags. *)
Numbers ==
  /\ pc \in {"idle", "command", "check", "first", "second", "decide", "wait"}
  /\ op \in {"go", "back"} /\ dist \in Distances \cup {0}
  /\ why \in {"clear", "arm", "poll", "last"}
  /\ tries \in 0..Checks /\ due \in 0..Checks
  /\ half \in [high : BOOLEAN, val : 0..(Base - 1)] /\ reading \in 0..(W - 1)
  /\ disc \in 0..(W - 1) /\ wheels \in {-1, 0, 1}
  /\ travel \in Nat /\ cleared \in 0..travel /\ moved \in 0..Lag

LEMMA NumbersNext == MotionTypeOK /\ Places /\ [MotionNext]_motionVars => Numbers'
<1>. SUFFICES ASSUME MotionTypeOK, Places, [MotionNext]_motionVars PROVE Numbers'
  OBVIOUS
<1>. USE DEF Numbers, Places
<1>. Numbers /\ Second \in 0..(W - 1)
  BY SecondType DEF MotionTypeOK
<1>0. /\ Checks \in Nat \ {0} /\ Base \in Nat /\ W \in Nat /\ W > 0 /\ Base > 0
      /\ Lag \in Nat /\ 0 \in 0..Lag
  BY Size, Waits, MotionAssumption
<1>1. ASSUME NEW o \in {"go", "back"}, NEW d \in Distances, Begin(o, d)
      PROVE  Numbers'
  BY <1>1 DEF Begin
<1>2. CASE WriteClear
  BY <1>0, <1>2 DEF WriteClear
<1>3. CASE CheckDue
  BY <1>0, <1>3 DEF CheckDue
<1>4. CASE CheckNotDue
  BY <1>0, <1>4 DEF CheckNotDue, LookAgain
<1>5. CASE ReadFirst
  BY <1>0, <1>5, Digits DEF ReadFirst
<1>6. CASE ReadToClear
  <2>2. CASE reading' = 0 /\ StartAnyway
    BY <1>0, <1>6, <2>2 DEF ReadToClear, ReadSecond, StartAnyway
  <2>3. CASE LookAgain /\ tries' = tries - 1 /\ UNCHANGED <<why, wheels, travel, cleared, gaveUp>>
    <3>1. tries - 1 \in 0..Checks
      BY <1>0, <1>6 DEF ReadToClear, ReadSecond
    <3>. QED  BY <1>0, <1>6, <2>3, <3>1 DEF ReadToClear, ReadSecond, LookAgain
  <2>. QED  BY <1>6, <2>2, <2>3 DEF ReadToClear, StartIfZero
<1>7. CASE ReadToArm
  BY <1>0, <1>7 DEF ReadToArm, ReadSecond
<1>8. CASE ReadToPoll
  BY <1>0, <1>8 DEF ReadToPoll, ReadSecond
<1>9. CASE DecideToStop
  BY <1>0, <1>9 DEF DecideToStop
<1>15. CASE DecideToWait
  BY <1>0, <1>15 DEF DecideToWait
<1>16. CASE DelayOver
  BY <1>0, <1>16 DEF DelayOver
<1>10. CASE ReadToReturn
  BY <1>0, <1>10 DEF ReadToReturn, ReadSecond
<1>11. CASE ClearDisc
  <2>1. disc' \in 0..(W - 1) /\ cleared' \in 0..travel'
    BY <1>0, <1>11 DEF ClearDisc
  <2>. QED  BY <1>11, <2>1 DEF ClearDisc, processor
<1>12. CASE Pulse
  <2>1. (disc + wheels) % W \in 0..(W - 1)
    BY <1>0
  <2>2. moved + 1 \in 0..Lag
    BY <1>12, Waits DEF Pulse
  <2>. QED  BY <1>12, <2>1, <2>2 DEF Pulse, processor
<1>13. CASE Tick
  BY <1>0, <1>13 DEF Tick, processor
<1>14. CASE UNCHANGED motionVars
  BY <1>14 DEF motionVars, processor
<1>. QED  BY <1>1, <1>2, <1>3, <1>4, <1>5, <1>6, <1>7, <1>8, <1>9, <1>10, <1>11,
             <1>12, <1>13, <1>14, <1>15, <1>16 DEF MotionNext, Step

LEMMA FlagsNext ==
  ASSUME pending \in BOOLEAN, gaveUp \in BOOLEAN, [MotionNext]_motionVars
  PROVE  pending' \in BOOLEAN /\ gaveUp' \in BOOLEAN
<1>1. pending' \in BOOLEAN
  <2>1. pending' = pending \/ pending' = TRUE \/ pending' = FALSE
    BY Zenon DEF MotionNext, Step, Begin, WriteClear, CheckDue, CheckNotDue, ReadFirst,
       ReadToClear, ReadToArm, ReadToPoll, DecideToStop, DecideToWait, DelayOver, ReadToReturn, ReadSecond, ClearDisc, Pulse,
       Tick, processor, motionVars
  <2>. QED  BY <2>1
<1>2. gaveUp' \in BOOLEAN
  <2>1. gaveUp' = gaveUp \/ gaveUp' = FALSE \/ gaveUp' = ~Arrived(reading)
    BY Zenon DEF MotionNext, Step, Begin, WriteClear, CheckDue, CheckNotDue, ReadFirst,
       ReadToClear, StartIfZero, StartAnyway, ReadToArm, ReadToPoll, DecideToStop, DecideToWait, DelayOver, ReadToReturn,
       ReadSecond, ClearDisc, Pulse, Tick, processor, motionVars
  <2>. QED  BY <2>1
<1>. QED  BY <1>1, <1>2

LEMMA MotionTypeNext == MotionTypeOK /\ Places /\ [MotionNext]_motionVars => MotionTypeOK'
<1>. SUFFICES ASSUME MotionTypeOK, Places, [MotionNext]_motionVars PROVE MotionTypeOK'
  OBVIOUS
<1>1. Numbers'
  BY NumbersNext
<1>2. pending \in BOOLEAN /\ gaveUp \in BOOLEAN
  BY DEF MotionTypeOK
<1>3. {pending', gaveUp'} \subseteq BOOLEAN
  BY <1>2, FlagsNext
<1>. QED  BY <1>1, <1>3 DEF Numbers, MotionTypeOK

LEMMA PlacesNext ==
  MotionTypeOK /\ Power /\ Places /\ [MotionNext]_motionVars => Power' /\ Places'
<1>. SUFFICES ASSUME MotionTypeOK, Power, Places, [MotionNext]_motionVars
              PROVE  Power' /\ Places'
  OBVIOUS
<1>. USE DEF Power, Places
<1>0. tries \in Nat /\ op \in {"go", "back"} /\ Checks \in Nat \ {0}
  BY MotionAssumption DEF MotionTypeOK
<1>1. ASSUME NEW o \in {"go", "back"}, NEW d \in Distances, Begin(o, d)
      PROVE  Power' /\ Places'
  BY <1>1 DEF Begin
<1>2. CASE WriteClear
  BY <1>0, <1>2 DEF WriteClear
<1>3. CASE CheckDue
  BY <1>0, <1>3 DEF CheckDue
<1>4. CASE CheckNotDue
  BY <1>0, <1>4 DEF CheckNotDue, LookAgain
<1>5. CASE ReadFirst
  BY <1>5 DEF ReadFirst
<1>6. CASE ReadToClear
  BY <1>0, <1>6 DEF ReadToClear, ReadSecond, StartIfZero, StartAnyway, LookAgain
<1>7. CASE ReadToArm
  BY <1>7 DEF ReadToArm, ReadSecond
<1>8. CASE ReadToPoll
  BY <1>8 DEF ReadToPoll, ReadSecond
<1>9. CASE DecideToStop
  BY <1>9 DEF DecideToStop
<1>15. CASE DecideToWait
  BY <1>15 DEF DecideToWait
<1>16. CASE DelayOver
  BY <1>16 DEF DelayOver
<1>10. CASE ReadToReturn
  BY <1>10 DEF ReadToReturn, ReadSecond
<1>11. CASE ClearDisc
  BY <1>11 DEF ClearDisc, processor
<1>12. CASE Pulse
  BY <1>12 DEF Pulse, processor
<1>13. CASE Tick
  BY <1>13 DEF Tick, processor
<1>14. CASE UNCHANGED motionVars
  BY <1>14 DEF motionVars, processor
<1>. QED  BY <1>1, <1>2, <1>3, <1>4, <1>5, <1>6, <1>7, <1>8, <1>9, <1>10, <1>11,
             <1>12, <1>13, <1>14, <1>15, <1>16 DEF MotionNext, Step

(* Every step of the processor begins a new count. *)
LEMMA CountedNext == MotionInv /\ [MotionNext]_motionVars => Counted'
<1>. SUFFICES ASSUME MotionInv, [MotionNext]_motionVars PROVE Counted'
  OBVIOUS
<1>. USE DEF Counted
<1>0. /\ moved \in Nat /\ moved <= Room /\ Room \in Nat
      /\ Lag \in Nat /\ Lag >= 1 /\ 0 <= Lag
  BY Waits DEF MotionInv, MotionTypeOK
<1>1. CASE moved' = 0
  <2>1. Room' \in {1, Lag}
    BY DEF Room, Printing
  <2>. QED  BY <1>0, <1>1, <2>1
<1>2. ASSUME NEW o \in {"go", "back"}, NEW d \in Distances, Begin(o, d)
      PROVE  Counted'
  BY <1>0, <1>2 DEF Begin, Room
<1>3. CASE Step
  <2>1. moved' = 0
    BY <1>3, Zenon DEF Step, WriteClear, CheckDue, CheckNotDue, ReadFirst, ReadToClear,
       ReadToArm, ReadToPoll, DecideToStop, DecideToWait, DelayOver, ReadToReturn, ReadSecond
  <2>. QED  BY <1>1, <2>1
<1>4. CASE ClearDisc \/ Tick \/ UNCHANGED motionVars
  <2>1. UNCHANGED <<pc, op, moved>>
    BY <1>4 DEF ClearDisc, Tick, processor, motionVars
  <2>. QED  BY <1>0, <2>1 DEF Room, Printing
<1>5. CASE Pulse
  <2>1. UNCHANGED <<pc, op>> /\ moved' = moved + 1 /\ moved < Room
    BY <1>5 DEF Pulse, processor
  <2>2. Room' = Room
    BY <2>1 DEF Room, Printing
  <2>. QED  BY <1>0, <2>1, <2>2
<1>. QED  BY <1>2, <1>3, <1>4, <1>5 DEF MotionNext

LEMMA ClearingNext == MotionInv /\ [MotionNext]_motionVars => Clearing'
<1>. SUFFICES ASSUME MotionInv, [MotionNext]_motionVars PROVE Clearing'
  OBVIOUS
<1>. USE DEF Clearing
<1>0. Clearing /\ Power /\ op \in {"go", "back"}
  BY DEF MotionInv, MotionTypeOK
<1>1. ASSUME NEW o \in {"go", "back"}, NEW d \in Distances, Begin(o, d)
      PROVE  Clearing'
  BY <1>1 DEF Begin
<1>2. CASE WriteClear
  BY <1>2 DEF WriteClear
<1>3. CASE CheckDue
  BY <1>3 DEF CheckDue
<1>4. CASE CheckNotDue
  BY <1>4 DEF CheckNotDue, LookAgain
<1>5. CASE ReadFirst
  BY <1>5 DEF ReadFirst, HalfOf
<1>6. CASE ReadToClear
  BY <1>6 DEF ReadToClear, ReadSecond, StartIfZero, StartAnyway, LookAgain
<1>7. CASE ReadToArm
  BY <1>7 DEF ReadToArm, ReadSecond
<1>8. CASE ReadToPoll
  BY <1>8 DEF ReadToPoll, ReadSecond
<1>9. CASE DecideToStop
  BY <1>9 DEF DecideToStop
<1>15. CASE DecideToWait
  BY <1>15 DEF DecideToWait
<1>16. CASE DelayOver
  BY <1>16 DEF DelayOver
<1>10. CASE ReadToReturn
  BY <1>10 DEF ReadToReturn, ReadSecond
<1>11. CASE ClearDisc
  BY <1>11 DEF ClearDisc, processor
<1>12. CASE Pulse
  BY <1>0, <1>12 DEF Pulse, processor, Power
<1>13. CASE Tick
  BY <1>0, <1>13 DEF Tick, processor, HalfOf
<1>14. CASE UNCHANGED motionVars
  BY <1>0, <1>14 DEF motionVars, processor, HalfOf
<1>. QED  BY <1>1, <1>2, <1>3, <1>4, <1>5, <1>6, <1>7, <1>8, <1>9, <1>10, <1>11,
             <1>12, <1>13, <1>14, <1>15, <1>16 DEF MotionNext, Step

(* A pulse moves the disc on, round its end. *)
LEMMA PulseShown ==
  ASSUME op \in {"go", "back"}, NEW n \in Nat, n + 1 < W
  PROVE  (Shown(n) + (IF op = "go" THEN 1 ELSE -1)) % W = Shown(n + 1)
<1>0. W \in Nat \ {0}
  BY Size
<1>1. \A x \in 0..(W - 1) : x % W = x
  BY <1>0
<1>2. -1 % W = W - 1
  BY <1>0
<1>3. CASE op = "go" \/ n # 0
  BY <1>0, <1>1, <1>3 DEF Shown
<1>4. CASE op = "back" /\ n = 0
  BY <1>0, <1>2, <1>4 DEF Shown
<1>. QED  BY <1>3, <1>4

(* The first byte is read. *)
LEMMA FirstOnTheWay ==
  ASSUME MotionInv, ReadFirst
  PROVE  OnTheWay'
<1>. SUFFICES ASSUME Moving' PROVE OnTheWay'
  BY DEF OnTheWay
<1>1. /\ pc = "first" /\ pc' = "second" /\ moved' = 0 /\ half'.high \in BOOLEAN
      /\ half'.val = IF half'.high THEN disc \div Base ELSE disc % Base
      /\ UNCHANGED <<op, dist, why, disc, travel, cleared>>
  BY DEF ReadFirst
<1>2. Moving
  BY <1>1 DEF Moving, Polled, Slack, Round, Printing
<1>3. /\ travel \in Nat /\ cleared \in 0..travel /\ Run \in Nat /\ Before \in Int
      /\ Run = Before \/ Run = Before + 1
      /\ Run <= dist + Slack /\ dist + Slack < W /\ dist \in Nat /\ W \in Nat
      /\ Slack \in Nat /\ moved \in Nat /\ moved <= travel
      /\ op \in {"go", "back"} /\ disc = Shown(Run)
      /\ Behind(Before) /\ (why = "poll" /\ op = "back" /\ cleared = 0 => Before >= 1)
  BY <1>1, <1>2, RunRange, Size, Waits DEF MotionInv, MotionTypeOK, OnTheWay, Room
<1>4. Run' = Run /\ Before' = Run /\ Shown(Run)' = Shown(Run)
  BY <1>1, <1>3 DEF Run, Before, Shown
<1>5. Behind(Run) \/ Behind(Run - 1)
  BY <1>3
<1>6. (Behind(Before) \/ Behind(Before - 1))'
  BY <1>1, <1>4, <1>5 DEF Behind, Past, Round, Printing, Wrapped
<1>7. HalfOf(Shown(Before))'
  BY <1>1, <1>3, <1>4 DEF HalfOf, Shown
<1>8. op = "go" => (disc \div Base) * Base <= travel
  <2>. SUFFICES ASSUME op = "go" PROVE (disc \div Base) * Base <= travel
    OBVIOUS
  <2>. DEFINE q == disc \div Base
              l == disc % Base
  <2>1. disc = Run /\ Run <= travel /\ disc \in 0..(W - 1)
    BY <1>3 DEF Shown, Run
  <2>2. q \in 0..(Base - 1) /\ l \in 0..(Base - 1) /\ disc = q * Base + l
    BY <2>1, Digits
  <2>. HIDE DEF q, l
  <2>3. q * Base \in Int
    BY <2>2, Size
  <2>4. q * Base <= travel
    BY <1>3, <2>1, <2>2, <2>3, Size
  <2>. QED  BY <2>4 DEF q
<1>. QED  BY <1>1, <1>3, <1>4, <1>6, <1>7, <1>8 DEF OnTheWay

(* Back() looks at what it has put together, and reads again. *)
LEMMA ArmOnTheWay ==
  ASSUME MotionInv, ReadToArm
  PROVE  OnTheWay'
<1>. SUFFICES ASSUME Moving' PROVE OnTheWay'
  BY DEF OnTheWay
<1>1. /\ pc = "second" /\ pc' = "first" /\ moved' = 0 /\ reading' = Second
      /\ why = "arm" /\ why' = IF Second <= W - Arm THEN "arm" ELSE "poll"
      /\ UNCHANGED <<op, dist, disc, travel, cleared>>
  BY DEF ReadToArm, ReadSecond
<1>2. Moving
  BY <1>1 DEF Moving, Polled, Slack, Round, Printing
<1>3. /\ travel \in Nat /\ cleared \in 0..travel /\ Run \in Nat
      /\ op \in {"go", "back"} /\ disc = Shown(Run) /\ dist \in Nat /\ dist >= 4
  BY <1>2, RunRange, Size DEF MotionInv, MotionTypeOK
<1>4. Run' = Run /\ Before' = Run /\ Shown(Run)' = Shown(Run)
  BY <1>1, <1>3 DEF Run, Before, Shown
<1>5. IF Second <= W - Arm THEN Run <= 1
       ELSE Run <= 3 /\ (cleared = 0 => Run >= 1)
  BY <1>1, <1>2, StillArming
<1>6. Behind(Before)'
  <2>1. CASE why' = "arm"
    BY <1>1, <1>4, <1>5, <2>1 DEF Behind
  <2>2. CASE why' = "poll"
    <3>1. Run <= dist + (Printing + Lag)
      BY <1>1, <1>3, <1>5, <2>2, Waits
    <3>. QED  BY <1>1, <1>4, <2>2, <3>1 DEF Behind, Past, Printing
  <2>. QED  BY <1>1, <2>1, <2>2
<1>. QED  BY <1>1, <1>3, <1>4, <1>5, <1>6 DEF OnTheWay

(* What a step of the processor on the way leaves. *)
Looked == /\ moved' = 0
          /\ why = "poll" /\ why' = "poll"
          /\ UNCHANGED <<op, dist, disc, travel, cleared>>

LEMMA LookedAt ==
  ASSUME MotionInv, Moving, Looked
  PROVE  /\ disc' = Shown(Run)' /\ moved' <= travel' /\ Before' = Run
         /\ op' = "back" /\ cleared' = 0 => Before' >= 1
         /\ Run \in Nat /\ Before \in Int /\ Run = Before + moved
         /\ moved \in Nat /\ moved <= Room /\ dist \in Nat
         /\ op \in {"go", "back"}
<1>1. /\ travel \in Nat /\ cleared \in Nat /\ moved \in Nat /\ moved <= Room
      /\ Run \in Nat /\ Before \in Int /\ Run = Before + moved /\ disc = Shown(Run)
      /\ dist \in Nat /\ op \in {"go", "back"}
  BY RunRange
<1>2. Run' = Run /\ Before' = Run /\ Shown(Run)' = Shown(Run)
  BY <1>1 DEF Looked, Run, Before, Shown
<1>3. op = "back" /\ cleared = 0 => Before >= 1
  BY DEF MotionInv, OnTheWay, Looked
<1>. QED  BY <1>1, <1>2, <1>3 DEF Looked

(* A poll is over. *)
LEMMA PollOnTheWay ==
  ASSUME MotionInv, ReadToPoll
  PROVE  OnTheWay'
<1>. SUFFICES ASSUME Moving' PROVE OnTheWay'
  BY DEF OnTheWay
<1>1. Looked /\ pc = "second" /\ pc' = "decide" /\ reading' = Second
  BY DEF ReadToPoll, ReadSecond, Looked
<1>2. Moving
  BY <1>1 DEF Looked, Moving, Polled, Slack, Round, Printing
<1>3. UNCHANGED <<Printing, Round>> /\ (Arrived(reading)' <=> Arrived(Second))
  BY <1>1 DEF Looked, Printing, Round, Arrived, InRange
<1>4. Before' <= dist' + 2 * Round'
  <2>1. Before' = Run /\ Run \in Int /\ dist \in Nat /\ Before \in Int
    BY <1>1, <1>2, LookedAt
  <2>2. Run = Before \/ Run = Before + 1
    BY <1>1, <1>2, BetweenBytes
  <2>3. ASSUME NEW n \in {Before, Before - 1}, Behind(n) PROVE Run <= dist + 2 * Round
    <3>1. Past(n, Printing + Lag) /\ n \in Int
      BY <1>1, <2>1, <2>3 DEF Behind, Looked
    <3>2. n <= dist + Round + (Printing + Lag)
      BY <2>1, <3>1, PastBound, Waits
    <3>. QED  BY <2>1, <2>2, <2>3, <3>2, Waits
  <2>4. Before <= 0 \/ Behind(Before) \/ Behind(Before - 1)
    BY <1>1, <1>2 DEF MotionInv, OnTheWay
  <2>5. Run <= dist + 2 * Round
    BY <2>1, <2>2, <2>3, <2>4, Waits
  <2>. QED  BY <1>1, <1>3, <2>1, <2>5 DEF Looked
<1>5. ~Arrived(reading)' => Past(Before, 0)'
  <2>1. ~Arrived(Second) => Past(Run, 0)
    BY <1>1, <1>2, StillBehind DEF Looked
  <2>2. Before' = Run
    BY <1>1, <1>2, LookedAt
  <2>. QED  BY <1>1, <1>3, <2>1, <2>2 DEF Past, Wrapped, Looked
<1>6. Arrived(reading)' /\ (op' = "back" => cleared' = 0) => travel' >= dist' - (Base - 1)
  BY <1>1, <1>2, <1>3, NotShort DEF Looked
<1>7. /\ disc' = Shown(Run)' /\ moved' <= travel'
      /\ op' = "back" /\ cleared' = 0 => Before' >= 1
  BY <1>1, <1>2, LookedAt
<1>. QED  BY <1>1, <1>4, <1>5, <1>6, <1>7 DEF OnTheWay, Looked

(* The processor decides to wait, and the wait is over. *)
LEMMA WaitOnTheWay ==
  ASSUME MotionInv, DecideToWait
  PROVE  OnTheWay'
<1>. SUFFICES ASSUME Moving' PROVE OnTheWay'
  BY DEF OnTheWay
<1>1. Looked /\ pc = "decide" /\ pc' = "wait" /\ ~Arrived(reading)
  BY DEF DecideToWait, Looked, MotionInv, Places
<1>2. Moving
  BY <1>1 DEF Looked, Moving, Polled, Slack, Round, Printing
<1>3. Past(Before, 0) /\ Room = Printing
  BY <1>1, <1>2 DEF MotionInv, OnTheWay, Room
<1>4. Past(Run, Printing)
  <2>1. Before \in Int /\ moved \in Nat /\ dist \in Nat /\ Run = Before + moved /\ moved <= Printing
    BY <1>1, <1>2, <1>3, LookedAt
  <2>2. Past(Before + moved, 0 + Printing)
    BY <1>3, <2>1, PastMore, Waits
  <2>. QED  BY <2>1, <2>2, Waits
<1>5. /\ disc' = Shown(Run)' /\ moved' <= travel' /\ Before' = Run
      /\ op' = "back" /\ cleared' = 0 => Before' >= 1
  BY <1>1, <1>2, LookedAt
<1>6. Past(Before, Printing)'
  BY <1>1, <1>4, <1>5 DEF Past, Wrapped, Looked, Round, Printing
<1>. QED  BY <1>1, <1>5, <1>6 DEF OnTheWay, Looked

LEMMA DelayOnTheWay ==
  ASSUME MotionInv, DelayOver
  PROVE  OnTheWay'
<1>. SUFFICES ASSUME Moving' PROVE OnTheWay'
  BY DEF OnTheWay
<1>1. Looked /\ pc = "wait" /\ pc' = "first"
  BY DEF DelayOver, Looked, MotionInv, Places
<1>2. Moving
  BY <1>1 DEF Looked, Moving, Polled, Slack, Round, Printing
<1>3. Past(Before, Printing) /\ Room = Lag
  BY <1>1, <1>2 DEF MotionInv, OnTheWay, Room
<1>4. Past(Run, Printing + Lag)
  <2>1. Before \in Int /\ moved \in Nat /\ dist \in Nat /\ Run = Before + moved /\ moved <= Lag
    BY <1>1, <1>2, <1>3, LookedAt
  <2>2. Past(Before + moved, Printing + Lag)
    BY <1>3, <2>1, PastMore, Waits
  <2>. QED  BY <2>1, <2>2
<1>5. /\ disc' = Shown(Run)' /\ moved' <= travel' /\ Before' = Run
      /\ op' = "back" /\ cleared' = 0 => Before' >= 1
  BY <1>1, <1>2, LookedAt
<1>6. Behind(Before)'
  BY <1>1, <1>4, <1>5 DEF Behind, Past, Wrapped, Looked, Round, Printing
<1>. QED  BY <1>1, <1>5, <1>6 DEF OnTheWay, Looked

LEMMA StartOnTheWay ==
  ASSUME MotionInv, ReadToClear
  PROVE  OnTheWay'
<1>. SUFFICES ASSUME Moving' PROVE OnTheWay'
  BY DEF OnTheWay
<1>1. /\ pc = "second" /\ why = "clear" /\ reading' = 0 /\ reading' = Second
      /\ StartAnyway /\ moved' = 0 /\ UNCHANGED <<op, dist, disc>>
  BY DEF Moving, ReadToClear, ReadSecond, StartIfZero, LookAgain
<1>2. disc = 0
  <2>1. disc \in 0..(W - 1) /\ half.high \in BOOLEAN
    BY DEF MotionInv, MotionTypeOK
  <2>2. HalfOf(disc) => Second = disc
    BY <2>1, SecondIsPut, PutSame
  <2>. QED  BY <1>1, <2>2 DEF MotionInv, Clearing
<1>3. /\ dist \in Nat /\ op \in {"go", "back"} /\ op' = op /\ dist' = dist
      /\ Lag \in Nat /\ Printing' \in Nat
  BY <1>1, Waits, MotionAssumption DEF MotionInv, MotionTypeOK, Printing
<1>4. /\ pc' = "first" /\ travel' = 0 /\ cleared' = 0
      /\ why' = IF op = "go" THEN "poll" ELSE "arm"
  BY <1>1 DEF StartAnyway
<1>5. Run' = 0 /\ Before' = 0 /\ Shown(Run)' = 0
  BY <1>1, <1>4 DEF Run, Before, Shown
<1>6. Behind(Before)'
  <2>0. ASSUME NEW d \in Nat, NEW p \in Nat PROVE 0 <= d + (p + Lag)
    BY <1>3
  <2>1. 0 <= dist' + (Printing' + Lag)
    BY <1>3, <2>0
  <2>. QED  BY <1>5, <2>1 DEF Behind, Past
<1>. QED  BY <1>1, <1>2, <1>3, <1>4, <1>5, <1>6 DEF OnTheWay

(* The FPGA clears the disc under way. *)
LEMMA ClearOnTheWay ==
  ASSUME MotionInv, ClearDisc
  PROVE  OnTheWay'
<1>. SUFFICES ASSUME Moving' PROVE OnTheWay'
  BY DEF OnTheWay
<1>1. /\ disc' = 0 /\ cleared' = travel /\ travel' = travel
      /\ UNCHANGED <<pc, op, dist, why, half, reading, moved>>
  BY DEF ClearDisc, processor
<1>2. Moving
  BY <1>1 DEF Moving, Polled, Slack, Round, Printing
<1>3. /\ travel \in Nat /\ cleared \in 0..travel /\ moved \in Nat /\ moved <= travel
      /\ op \in {"go", "back"} /\ dist \in Nat
  BY <1>2, RunRange DEF MotionInv, MotionTypeOK, OnTheWay
<1>4. Run' = 0 /\ Before' = 0 - moved /\ Shown(Run)' = 0
  BY <1>1, <1>3 DEF Run, Before, Shown
<1>5. travel = 0 => moved = 0 /\ cleared = 0 /\ Run = 0 /\ Before = 0
  <2>. SUFFICES ASSUME travel = 0 PROVE moved = 0 /\ cleared = 0 /\ Run = 0 /\ Before = 0
    OBVIOUS
  <2>1. moved = 0
    BY <1>3
  <2>2. cleared = 0
    BY <1>3
  <2>3. Run = 0
    BY <2>2 DEF Run
  <2>. QED  BY <2>1, <2>2, <2>3 DEF Before
<1>6. Before' <= 0 /\ Before' \in Int
  BY <1>3, <1>4
<1>7. ASSUME NEW k \in Nat PROVE Before' <= dist' + k
  BY <1>1, <1>3, <1>6
<1>8. /\ Printing \in Nat /\ Round \in Nat /\ Lag \in Nat
      /\ Printing' = Printing /\ Round' = Round
      /\ (Arrived(reading)' <=> Arrived(reading))
  BY <1>1, Waits DEF Printing, Round, Arrived, InRange
<1>9. Behind(Before)'
  <2>1. Printing' + Lag \in Nat
    BY <1>8
  <2>. QED  BY <1>6, <1>7, <2>1 DEF Behind, Past
<1>10. Past(Before, Printing)' /\ Past(Before, 0)'
  BY <1>7, <1>8 DEF Past
<1>11. Before' <= dist' + 2 * Round'
  BY <1>7, <1>8
<1>12. (why = "poll" /\ op = "back") => travel >= 1
  BY <1>2, <1>3, <1>5 DEF MotionInv, OnTheWay
<1>13. pc = "second" /\ travel = 0 =>
        Before' >= 0 /\ HalfOf(Shown(Before))' /\ Behind(Before)'
  <2>. SUFFICES ASSUME pc = "second", travel = 0
                PROVE  Before' >= 0 /\ HalfOf(Shown(Before))'
    BY <1>9
  <2>1. cleared # 0 \/ HalfOf(Shown(Before))
    BY <1>2 DEF MotionInv, OnTheWay
  <2>2. Before = 0 /\ Before' = 0 /\ HalfOf(Shown(Before))
    <3>1. Before = 0 /\ moved = 0 /\ cleared = 0
      BY <1>5
    <3>2. Before' = 0
      BY <1>4, <3>1
    <3>. QED  BY <2>1, <3>1, <3>2
  <2>. QED  BY <1>1, <2>2 DEF HalfOf, Shown
<1>14. pc = "second" /\ op = "go" /\ half.high => half.val * Base <= travel
  BY <1>2 DEF MotionInv, OnTheWay
<1>15. pc = "decide" /\ Arrived(reading) /\ (op = "back" => travel = 0) =>
         travel >= dist - (Base - 1)
  BY <1>2, <1>5 DEF MotionInv, OnTheWay
<1>. QED  BY <1>1, <1>3, <1>4, <1>6, <1>8, <1>9, <1>10, <1>11, <1>12, <1>13, <1>14, <1>15
          DEF OnTheWay

(* The wheels make a pulse. *)
LEMMA PulseOnTheWay ==
  ASSUME MotionInv, Pulse
  PROVE  OnTheWay'
<1>. SUFFICES ASSUME Moving' PROVE OnTheWay'
  BY DEF OnTheWay
<1>1. /\ moved < Room /\ moved' = moved + 1 /\ disc' = (disc + wheels) % W
      /\ travel' = travel + 1
      /\ UNCHANGED <<pc, op, dist, why, half, reading, cleared>>
  BY DEF Pulse, processor
<1>2. Moving
  BY <1>1 DEF Moving, Polled, Slack, Round, Printing
<1>3. /\ travel \in Nat /\ cleared \in 0..travel /\ Run \in Nat /\ moved \in Nat
      /\ op \in {"go", "back"} /\ dist \in Nat /\ disc = Shown(Run)
      /\ Run + 1 < W /\ Before \in Int /\ Base \in Nat /\ moved <= travel
  BY <1>1, <1>2, RunRange, Size, Waits DEF MotionInv, MotionTypeOK, OnTheWay
<1>4. Run' = Run + 1 /\ Before' = Before
  BY <1>1, <1>3 DEF Run, Before
<1>5. wheels = IF op = "go" THEN 1 ELSE -1
  BY <1>2 DEF MotionInv, Power, Moving, Places
<1>6. disc' = Shown(Run + 1)
  BY <1>1, <1>3, <1>5, PulseShown
<1>7. disc' = Shown(Run)'
  BY <1>1, <1>4, <1>6 DEF Shown
<1>8. /\ Printing' = Printing /\ Round' = Round
      /\ (Arrived(reading)' <=> Arrived(reading))
  BY <1>1 DEF Printing, Round, Arrived, InRange
<1>9. /\ Behind(Before) => Behind(Before)'
      /\ Behind(Before - 1) => Behind(Before - 1)'
      /\ Past(Before, 0) => Past(Before, 0)'
      /\ Past(Before, Printing) => Past(Before, Printing)'
      /\ HalfOf(Shown(Before)) => HalfOf(Shown(Before))'
  BY <1>1, <1>4, <1>8 DEF Behind, Past, Wrapped, HalfOf, Shown
<1>10. pc = "second" =>
        \/ cleared # 0 /\ Before' <= 0
        \/ /\ Before' >= 0 /\ HalfOf(Shown(Before))'
           /\ (Behind(Before) \/ Behind(Before - 1))'
  BY <1>2, <1>4, <1>9 DEF MotionInv, OnTheWay
<1>11. why = "poll" /\ op = "back" /\ cleared = 0 => Before' >= 1
  BY <1>2, <1>4 DEF MotionInv, OnTheWay
<1>12. pc = "second" /\ op = "go" /\ half.high => half.val * Base <= travel'
  <2>. SUFFICES ASSUME pc = "second", op = "go", half.high
                PROVE  half.val * Base <= travel'
    OBVIOUS
  <2>1. half.val * Base <= travel /\ half.val * Base \in Int
    BY <1>2, Size DEF MotionInv, MotionTypeOK, OnTheWay
  <2>. QED  BY <1>1, <1>3, <2>1
<1>13. pc = "decide" =>
         /\ Before' <= dist' + 2 * Round'
         /\ ~Arrived(reading)' => Past(Before, 0)'
         /\ Arrived(reading)' /\ (op' = "back" => cleared' = 0) =>
              travel' >= dist' - (Base - 1)
  <2>. SUFFICES ASSUME pc = "decide"
                PROVE  /\ Before' <= dist' + 2 * Round'
                       /\ ~Arrived(reading)' => Past(Before, 0)'
                       /\ Arrived(reading)' /\ (op' = "back" => cleared' = 0) =>
                            travel' >= dist' - (Base - 1)
    OBVIOUS
  <2>1. /\ Before <= dist + 2 * Round
        /\ ~Arrived(reading) => Past(Before, 0)
        /\ Arrived(reading) /\ (op = "back" => cleared = 0) =>
              travel >= dist - (Base - 1)
    BY <1>2 DEF MotionInv, OnTheWay
  <2>2. travel >= dist - (Base - 1) => travel' >= dist' - (Base - 1)
    BY <1>1, <1>3
  <2>. QED  BY <1>1, <1>4, <1>8, <1>9, <2>1, <2>2
<1>14. (pc = "first" => Behind(Before)') /\ (pc = "wait" => Past(Before, Printing)')
  BY <1>2, <1>9 DEF MotionInv, OnTheWay
<1>15. moved' <= travel'
  BY <1>1, <1>3
<1>. QED  BY <1>1, <1>7, <1>10, <1>11, <1>12, <1>13, <1>14, <1>15 DEF OnTheWay

LEMMA OnTheWayNext == MotionInv /\ [MotionNext]_motionVars => OnTheWay'
<1>. SUFFICES ASSUME MotionInv, [MotionNext]_motionVars PROVE OnTheWay'
  OBVIOUS
<1>1. ASSUME NEW o \in {"go", "back"}, NEW d \in Distances, Begin(o, d)
      PROVE  OnTheWay'
  BY <1>1 DEF Begin, OnTheWay, Moving
<1>2. CASE WriteClear
  BY <1>2 DEF WriteClear, OnTheWay, Moving
<1>3. CASE CheckDue
  BY <1>3 DEF CheckDue, OnTheWay, Moving
<1>4. CASE CheckNotDue
  BY <1>4 DEF CheckNotDue, LookAgain, OnTheWay, Moving
<1>5. CASE DecideToStop
  BY <1>5 DEF DecideToStop, OnTheWay, Moving
<1>6. CASE ReadToReturn
  BY <1>6 DEF ReadToReturn, OnTheWay, Moving
<1>7. CASE Tick \/ UNCHANGED motionVars
  <2>1. UNCHANGED <<pc, op, dist, why, half, reading, disc, moved, travel, cleared>>
    BY <1>7 DEF Tick, processor, motionVars
  <2>. QED  BY <2>1 DEF MotionInv, OnTheWay, Moving, Polled, Run, Before, Shown, Behind,
               Past, Wrapped, HalfOf, Slack, Round, Printing, Arrived, InRange
<1>. QED  BY <1>1, <1>2, <1>3, <1>4, <1>5, <1>6, <1>7, FirstOnTheWay, ArmOnTheWay,
             PollOnTheWay, WaitOnTheWay, DelayOnTheWay, StartOnTheWay, ClearOnTheWay, PulseOnTheWay DEF MotionNext, Step

LEMMA AtRestNext == MotionInv /\ [MotionNext]_motionVars => AtRest'
<1>. SUFFICES ASSUME MotionInv, [MotionNext]_motionVars, Halted' PROVE AtRest'
  BY DEF AtRest
<1>0. /\ travel \in Nat /\ cleared \in 0..travel /\ Run \in Nat /\ op \in {"go", "back"}
      /\ dist \in Nat /\ disc \in 0..(W - 1) /\ half.high \in BOOLEAN
  BY MotionAssumption DEF MotionInv, MotionTypeOK, Run
<1>1. ASSUME NEW o \in {"go", "back"}, NEW d \in Distances, Begin(o, d)
      PROVE  AtRest'
  BY <1>1 DEF Begin, Halted
<1>2. CASE WriteClear
  BY <1>2 DEF WriteClear, Halted
<1>3. CASE CheckDue
  BY <1>3 DEF CheckDue, Halted
<1>4. CASE CheckNotDue
  BY <1>4 DEF CheckNotDue, LookAgain, Halted
<1>5. CASE ReadFirst
  <2>1. /\ pc = "first" /\ pc' = "second" /\ why = "last"
        /\ half'.val = IF half'.high THEN disc \div Base ELSE disc % Base
        /\ UNCHANGED <<op, dist, why, disc, travel, cleared, gaveUp>>
    BY <1>5 DEF ReadFirst, Halted
  <2>2. Halted /\ (Stopped' => Stopped)
    BY <2>1 DEF Halted, Polled, Stopped, Slack, Round, Printing
  <2>3. HalfOf(disc)'
    BY <2>1 DEF HalfOf
  <2>. QED  BY <2>1, <2>2, <2>3 DEF MotionInv, AtRest, Run, Shown, Slack, Round, Printing
<1>6. CASE ReadToClear
  BY <1>0, <1>6 DEF ReadToClear, ReadSecond, StartIfZero, StartAnyway, LookAgain, Halted
<1>7. CASE ReadToArm
  BY <1>7 DEF ReadToArm, Halted
<1>8. CASE DecideToStop
  <2>1. /\ pc = "decide" /\ why = "poll" /\ pc' = "first" /\ reading' = reading
        /\ gaveUp' = ~Arrived(reading)
        /\ UNCHANGED <<op, dist, disc, travel, cleared>>
    BY <1>8 DEF DecideToStop, MotionInv, Places
  <2>2. Moving /\ Slack' = Slack
    BY <2>1 DEF Halted, Moving, Polled, Slack, Round, Printing
  <2>3. disc = Shown(Run) /\ Run <= dist + Slack
    BY <2>2, RunRange
  <2>4. Stopped' /\ (op = "back" => cleared = 0) => travel >= dist - (Base - 1)
    BY <2>1, <2>2 DEF Stopped, MotionInv, OnTheWay
  <2>. QED  BY <2>1, <2>2, <2>3, <2>4 DEF AtRest, Run, Shown
<1>9. CASE ReadToPoll \/ DecideToWait \/ DelayOver
  BY <1>9 DEF ReadToPoll, DecideToWait, DelayOver, ReadSecond, Halted, MotionInv, Places
<1>10. CASE ReadToReturn
  <2>1. /\ pc = "second" /\ why = "last" /\ pc' = "idle" /\ reading' = Second
        /\ UNCHANGED <<op, dist, disc, travel, cleared>>
    BY <1>10 DEF ReadToReturn, ReadSecond
  <2>2. Halted
    BY <2>1 DEF Halted, Polled, Slack, Round, Printing
  <2>3. cleared = 0 => Second = disc
    BY <1>0, <2>1, <2>2, SecondIsPut, PutSame DEF MotionInv, AtRest
  <2>. QED  BY <2>1, <2>2, <2>3 DEF MotionInv, AtRest, Run, Shown, Stopped, Slack, Round, Printing
<1>11. CASE ClearDisc
  <2>1. /\ disc' = 0 /\ cleared' = travel /\ travel' = travel
        /\ UNCHANGED <<pc, op, dist, why, half, reading, gaveUp>>
    BY <1>11 DEF ClearDisc, processor
  <2>2. Halted /\ (Stopped' => Stopped)
    BY <2>1 DEF Halted, Polled, Stopped, Slack, Round, Printing
  <2>3. Run' = 0 /\ Shown(Run)' = 0
    BY <1>0, <2>1 DEF Run, Shown
  <2>4. travel = 0 => cleared = 0 /\ Run = 0 /\ disc = 0
    <3>1. cleared \in Nat /\ cleared <= travel /\ Run = travel - cleared /\ disc = Shown(Run)
      BY <1>0, <2>2 DEF MotionInv, AtRest, Run
    <3>. QED  BY <3>1 DEF Shown
  <2>5. pc = "second" /\ travel = 0 => HalfOf(disc)'
    BY <2>1, <2>2, <2>4 DEF MotionInv, AtRest, HalfOf
  <2>. QED  BY <1>0, <2>1, <2>2, <2>3, <2>4, <2>5, Waits DEF MotionInv, AtRest, Slack, Round, Printing
<1>12. CASE Pulse
  BY <1>12 DEF Pulse, processor, Halted, MotionInv, Power
<1>13. CASE Tick \/ UNCHANGED motionVars
  <2>1. UNCHANGED <<pc, op, dist, why, half, reading, disc, travel, cleared, gaveUp>>
    BY <1>13 DEF Tick, processor, motionVars
  <2>. QED  BY <2>1 DEF MotionInv, AtRest, Halted, Polled, Stopped, Run, Shown, HalfOf, Slack,
               Round, Printing
<1>. QED  BY <1>1, <1>2, <1>3, <1>4, <1>5, <1>6, <1>7, <1>8, <1>9, <1>10, <1>11,
             <1>12, <1>13 DEF MotionNext, Step

LEMMA MotionInvStart == MotionInit => MotionInv
<1>. SUFFICES ASSUME MotionInit PROVE MotionInv
  OBVIOUS
<1>. USE DEF MotionInit
<1>0. /\ W \in Nat /\ 4 * Base <= W /\ Base \in Nat /\ Base >= 4 /\ Margin \in Nat
      /\ Checks \in Nat /\ Lag \in Nat /\ Slack \in Nat
  BY Size, Waits, MotionAssumption
<1>1. disc \in 0..(W - 1)
  BY <1>0
<1>2. MotionTypeOK
  <2>1. Numbers
    BY <1>0, <1>1 DEF Numbers
  <2>2. {pending, gaveUp} \subseteq BOOLEAN
    OBVIOUS
  <2>. QED  BY <2>1, <2>2 DEF Numbers, MotionTypeOK
<1>3. ~Polled
  BY <1>0 DEF Polled, InRange
<1>4. Counted
  BY Waits DEF Counted
<1>. QED  BY <1>2, <1>3, <1>4 DEF MotionInv, Power, Places, Clearing, OnTheWay, Moving, AtRest, Halted

LEMMA MotionInvariance == MotionSpec => []MotionInv
<1>1. MotionInv /\ [MotionNext]_motionVars => MotionInv'
  BY MotionTypeNext, PlacesNext, CountedNext, ClearingNext, OnTheWayNext, AtRestNext DEF MotionInv
<1>. QED  BY <1>1, MotionInvStart, PTL DEF MotionSpec

-----------------------------------------------------------------------------
(* The type invariant of the moves holds for every disc. *)
THEOREM MotionTypes == MotionSpec => []MotionTypeOK
<1>1. MotionInv => MotionTypeOK
  BY DEF MotionInv
<1>. QED  BY <1>1, MotionInvariance, PTL

(* A torn reading never ends Go() or Back() more than a low byte short of  *)
(* its distance, as long as no late clear command comes in the way of      *)
(* Back().                                                                 *)
THEOREM NoFarShort == MotionSpec => []NeverFarShort
<1>1. MotionInv => NeverFarShort
  BY DEF MotionInv, NeverFarShort, AtRest, Halted, Stopped
<1>. QED  BY <1>1, MotionInvariance, PTL

(* Two polls end a move at the latest after it has reached its distance,   *)
(* counted from where a late clear command found it: one may be torn, the  *)
(* next is not.                                                            *)
THEOREM Overshoot == MotionSpec => []OvershootBound
<1>1. MotionInv => OvershootBound
  <2>. SUFFICES ASSUME MotionInv, Stopped, Polled PROVE travel <= dist + cleared + Slack
    BY DEF OvershootBound
  <2>1. Run <= dist + Slack
    BY DEF MotionInv, AtRest, Halted, Stopped
  <2>2. travel \in Nat /\ cleared \in Nat /\ Run = travel - cleared /\ dist \in Nat
    BY MotionAssumption DEF MotionInv, MotionTypeOK, Run
  <2>. QED  BY <2>1, <2>2, Waits
<1>. QED  BY <1>1, MotionInvariance, PTL

(* The distance Go() and Back() return is the distance travelled, when the *)
(* disc was not cleared under way.                                         *)
THEOREM ReturnIsHonest == MotionSpec => []HonestReturn
<1>1. MotionInv => HonestReturn
  <2>. SUFFICES ASSUME MotionInv, pc = "idle", Polled, cleared = 0
                PROVE  travel = IF op = "go" THEN reading ELSE (W - reading) % W
    BY DEF HonestReturn
  <2>1. Halted
    BY DEF MotionInv, Places, Halted
  <2>2. /\ travel \in Nat /\ reading = Shown(travel) /\ travel <= dist + Slack
        /\ op \in {"go", "back"} /\ dist + Slack < W /\ W \in Nat /\ dist \in Nat
    <3>1. travel \in Nat /\ Run = travel /\ dist \in Nat /\ W \in Nat /\ Margin \in Nat
      BY Size, MotionAssumption DEF MotionInv, MotionTypeOK, Run
    <3>2. dist + Slack < W
      BY <3>1, Waits DEF Polled, InRange
    <3>3. op \in {"go", "back"}
      BY DEF MotionInv, MotionTypeOK
    <3>. QED  BY <2>1, <3>1, <3>2, <3>3 DEF MotionInv, AtRest
  <2>3. (\A x \in 0..(W - 1) : x % W = x) /\ Slack \in Nat
    BY <2>2, Waits
  <2>4. W % W = 0
    BY <2>2, Size
  <2>. QED  BY <2>2, <2>3, <2>4 DEF Shown
<1>. QED  BY <1>1, MotionInvariance, PTL
=============================================================================
