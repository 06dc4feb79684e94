------------------------ MODULE MillisecTimerProofs -------------------------
(***************************************************************************)
(* A timer whose counter is loaded at once (LowRange = Range: the native,  *)
(* ARM and RISC-V builds) is exact, for every width of the counter.        *)
(***************************************************************************)
EXTENDS MillisecTimer, TLAPS

(* The counter is read in one load. *)
AtOnce == LowRange = Range

(* What the timer's two moments and a loaded value stand for. *)
Meaning ==
  /\ timer.enabled => /\ timer.set_time = since % Range
                      /\ timer.expire_time = (since + rel) % Range
  /\ load.low # None => load.low = load.at % Range
  /\ load.high # None => load.high = 0

(* No load is older than the interval, or newer than the time. *)
Order ==
  /\ load.low # None => load.at \in Nat /\ since <= load.at
  /\ load.low = None => load.at = None
  /\ since <= time
  /\ load.at <= time

IInv == TimerTypeOK /\ Meaning /\ Order

(***************************************************************************)
(* Remainders: the remainder of a sum, by the remainders of its terms.     *)
(***************************************************************************)

(* Quotient and remainder. *)
LEMMA DivMod ==
  ASSUME NEW m \in Nat \ {0}, NEW a \in Int
  PROVE  /\ a \div m \in Int /\ a % m \in Nat /\ a % m < m
         /\ a = m * (a \div m) + (a % m)
  BY SMT

(* A multiple of m between -m and m is 0. *)
LEMMA SmallMultiple ==
  ASSUME NEW m \in Nat \ {0}, NEW d \in Int, m * d < m, -m < m * d
  PROVE  d = 0
<1>1. CASE d >= 1
  <2>1. m * (d - 1) >= 0
    BY <1>1, SMT
  <2>2. m * (d - 1) = m * d - m
    BY SMT
  <2> QED BY <2>1, <2>2, SMT
<1>2. CASE d <= -1
  <2>1. m * (-d - 1) >= 0
    BY <1>2, SMT
  <2>2. m * (-d - 1) = -(m * d) - m
    BY SMT
  <2> QED BY <2>1, <2>2, SMT
<1> QED BY <1>1, <1>2, SMT

(* A remainder is found by naming any quotient. *)
LEMMA ModUnique ==
  ASSUME NEW m \in Nat \ {0}, NEW a \in Int, NEW p \in Int, NEW q \in Nat,
         q < m, a = m * p + q
  PROVE  a % m = q
<1> DEFINE k == a \div m
           r == a % m
           d == p - k
<1>1. k \in Int /\ r \in Nat /\ r < m /\ a = m * k + r
  BY DivMod
<1>2. m * d = m * p - m * k
  BY <1>1, SMT
<1>3. m * d = r - q /\ m * p \in Int /\ m * k \in Int
  BY <1>1, <1>2, SMT
<1>4. d = 0
  BY <1>1, <1>3, SmallMultiple, SMT
<1> QED BY <1>1, <1>3, <1>4, SMT

(* Remainders of a sum: the uint32_t additions of millisec_timer.c. *)
LEMMA ModAdd ==
  ASSUME NEW m \in Nat \ {0}, NEW a \in Int, NEW b \in Int
  PROVE  (a + b) % m = IF (a % m) + (b % m) < m THEN (a % m) + (b % m)
                       ELSE (a % m) + (b % m) - m
<1> DEFINE p == a \div m
           q == a % m
           r == b \div m
           s == b % m
<1>1. /\ p \in Int /\ q \in Nat /\ q < m /\ a = m * p + q
      /\ r \in Int /\ s \in Nat /\ s < m /\ b = m * r + s
  BY DivMod
<1>2. /\ m * (p + r) = m * p + m * r
      /\ m * (p + r + 1) = m * p + m * r + m
      /\ m * p \in Int /\ m * r \in Int
  BY <1>1, SMT
<1> HIDE DEF p, q, r, s
<1>3. CASE q + s < m
  <2>1. a + b = m * (p + r) + (q + s)
    BY <1>1, <1>2, SMT
  <2>2. (a + b) % m = q + s
    <3>1. q + s \in Nat /\ q + s < m /\ p + r \in Int /\ a + b \in Int
      BY <1>1, <1>3
    <3> QED BY <2>1, <3>1, ModUnique
  <2> QED BY <1>3, <2>2 DEF q, s
<1>4. CASE ~(q + s < m)
  <2>1. a + b = m * (p + r + 1) + (q + s - m)
    BY <1>1, <1>2, SMT
  <2>2. q + s - m \in Nat /\ q + s - m < m /\ p + r + 1 \in Int /\ a + b \in Int
    BY <1>1, <1>4
  <2>3. (a + b) % m = q + s - m
    BY <2>1, <2>2, ModUnique
  <2> QED BY <1>4, <2>3 DEF q, s
<1> QED BY <1>3, <1>4

(* A number below the modulus is its own remainder. *)
LEMMA ModSmall ==
  ASSUME NEW m \in Nat \ {0}, NEW a \in Nat, a < m
  PROVE  a % m = a /\ a \div m = 0
BY SMT

(* A remainder is not above its number. *)
LEMMA ModLeq ==
  ASSUME NEW m \in Nat \ {0}, NEW a \in Nat
  PROVE  a % m <= a
<1>1. CASE a < m
  BY <1>1, ModSmall
<1>2. CASE a >= m
  BY <1>2, DivMod
<1> QED BY <1>1, <1>2

(***************************************************************************)
(* The condition of millisec_timer_is_expired, asked at the time x of a    *)
(* timer set at the time s to the interval r.                              *)
(***************************************************************************)
LEMMA ExpiredMeans ==
  ASSUME NEW t, NEW s \in Nat, NEW x \in Nat, s <= x, NEW r \in 0 .. Range - 1,
         t.set_time = s % Range, t.expire_time = (s + r) % Range
  PROVE  expired(t, x % Range) <=> r <= (x - s) % Range
<1> DEFINE a == s % Range
           d == (x - s) % Range
           e == (s + r) % Range
           n == x % Range
<1>1. /\ a \in Nat /\ a < Range /\ d \in Nat /\ d < Range /\ x - s \in Int
      /\ Range \in Nat \ {0} /\ r \in Nat /\ r < Range /\ r \in Int /\ s \in Int
  BY TimerAssumption, DivMod
<1>2. e = IF a + r < Range THEN a + r ELSE a + r - Range
  <2>1. r % Range = r
    BY <1>1, ModSmall
  <2>2. e = IF a + (r % Range) < Range THEN a + (r % Range) ELSE a + (r % Range) - Range
    BY <1>1, ModAdd, Zenon
  <2> QED BY <2>1, <2>2
<1>3. n = IF a + d < Range THEN a + d ELSE a + d - Range
  <2>1. s + (x - s) = x
    OBVIOUS
  <2>2. (s + (x - s)) % Range = IF a + d < Range THEN a + d ELSE a + d - Range
    BY <1>1, ModAdd, Zenon
  <2> QED BY <2>1, <2>2
<1>4. expired(t, n) <=> \/ e = a
                        \/ e > a /\ (n >= e \/ n < a)
                        \/ e < a /\ n >= e /\ n < a
  BY DEF expired
<1> HIDE DEF a, d, e, n
<1>5. (expired(t, n) <=> r <= d)
  BY <1>1, <1>2, <1>3, <1>4
<1> QED BY <1>5 DEF n, d

(***************************************************************************)
(* The invariant.                                                          *)
(***************************************************************************)

(* The constants, without sets. *)
LEMMA Constants == /\ Range \in Nat \ {0} /\ Range \in Nat /\ Range > 0
                   /\ MaxTime \in Nat
                   /\ LowRange \in Nat /\ LowRange > 0
                   /\ \A r \in Rels : r \in 0 .. Range - 1
BY TimerAssumption

(* What a call is given: the counter at the time of its load. *)
LEMMA NowMeans ==
  ASSUME AtOnce, IInv, Loaded
  PROVE  /\ now = load.at % Range /\ now \in 0 .. Range - 1
         /\ load.at \in Nat /\ since <= load.at /\ load.at <= time
         /\ since \in Nat /\ rel \in 0 .. Range - 1
<1>1. load.low = load.at % Range /\ load.high = 0
  BY DEF IInv, Meaning, Loaded
<1>2. /\ load.at \in Nat /\ since <= load.at /\ load.at <= time
      /\ since \in Nat /\ rel \in 0 .. Range - 1
  BY DEF IInv, Order, Loaded, TimerTypeOK
<1>3. load.at % Range \in Nat /\ load.at % Range < Range
  BY <1>2, Constants, DivMod
<1>4. now = 0 * Range + (load.at % Range)
  BY <1>1 DEF now, AtOnce
<1>5. now = load.at % Range
  BY <1>3, <1>4, Constants
<1> QED BY <1>2, <1>3, <1>5, Constants

(* What is answered: whether the interval is over, but for whole periods. *)
LEMMA AnswerMeans ==
  ASSUME AtOnce, IInv, Loaded, timer.enabled
  PROVE  expired(timer, now) <=> rel <= (load.at - since) % Range
<1>1. timer.set_time = since % Range /\ timer.expire_time = (since + rel) % Range
  BY DEF IInv, Meaning
<1> QED BY <1>1, NowMeans, ExpiredMeans

(* The program starts with the invariant. *)
LEMMA InitIInv ==
  ASSUME TimerInit
  PROVE  IInv
<1>1. 0 \in 0 .. Range - 1 /\ None \in -1 .. LowRange - 1 /\ None = -1
  BY Constants DEF None
<1>2. /\ timer \in [enabled : BOOLEAN, set_time : 0 .. Range - 1, expire_time : 0 .. Range - 1]
      /\ load \in [low : -1 .. LowRange - 1, high : Int, at : Nat \cup {-1}]
  BY <1>1 DEF TimerInit, Unloaded
<1>3. TimerTypeOK
  BY <1>1, <1>2 DEF TimerInit, TimerTypeOK
<1>4. Meaning /\ Order
  BY DEF TimerInit, Meaning, Order, Unloaded, None
<1> QED BY <1>3, <1>4 DEF IInv

(* A tick moves nothing but the time. *)
LEMMA TickStep ==
  ASSUME IInv, Tick
  PROVE  IInv'
<1>1. TimerTypeOK'
  BY DEF IInv, TimerTypeOK, Tick
<1>2. Meaning'
  BY DEF IInv, Meaning, Tick
<1>3. Order'
  <2>1. time \in Nat /\ since \in Nat /\ load.at \in Nat \cup {-1}
    BY DEF IInv, TimerTypeOK
  <2> QED BY <2>1 DEF IInv, Order, Tick
<1> QED BY <1>1, <1>2, <1>3 DEF IInv

(* A load of the low word is the counter, one of the high word is 0. *)
LEMMA LoadStep ==
  ASSUME AtOnce, IInv, LoadLow \/ LoadHigh
  PROVE  IInv'
<1>1. /\ time \in Nat /\ MILLISEC_TIMER_NOW \in Nat /\ MILLISEC_TIMER_NOW < Range
      /\ MILLISEC_TIMER_NOW % LowRange = MILLISEC_TIMER_NOW
      /\ MILLISEC_TIMER_NOW \div LowRange = 0
  <2>1. time \in Nat
    BY DEF IInv, TimerTypeOK
  <2>2. MILLISEC_TIMER_NOW \in Nat /\ MILLISEC_TIMER_NOW < Range
    BY <2>1, Constants, DivMod DEF MILLISEC_TIMER_NOW
  <2> QED BY <2>1, <2>2, Constants, ModSmall DEF AtOnce
<1>2. CASE LoadLow
  <2>1. load' = [low |-> MILLISEC_TIMER_NOW, high |-> load.high, at |-> time]
    BY <1>1, <1>2 DEF LoadLow
  <2>2. MILLISEC_TIMER_NOW \in -1 .. LowRange - 1 /\ load.high \in Int
    BY <1>1, Constants DEF AtOnce, IInv, TimerTypeOK
  <2>3. TimerTypeOK'
    BY <1>1, <1>2, <2>1, <2>2 DEF IInv, TimerTypeOK, LoadLow
  <2>4. Meaning'
    BY <1>2, <2>1 DEF IInv, Meaning, LoadLow, MILLISEC_TIMER_NOW
  <2>5. Order'
    BY <1>1, <1>2, <2>1 DEF IInv, Order, TimerTypeOK, LoadLow, None
  <2> QED BY <2>3, <2>4, <2>5 DEF IInv
<1>3. CASE LoadHigh
  <2>1. load' = [low |-> load.low, high |-> 0, at |-> load.at]
    BY <1>1, <1>3 DEF LoadHigh
  <2>2. TimerTypeOK'
    BY <1>3, <2>1 DEF IInv, TimerTypeOK, LoadHigh
  <2>3. Meaning'
    BY <1>3, <2>1 DEF IInv, Meaning, LoadHigh
  <2>4. Order'
    BY <1>3, <2>1 DEF IInv, Order, LoadHigh
  <2> QED BY <2>2, <2>3, <2>4 DEF IInv
<1> QED BY <1>2, <1>3


(* A call leaves no load behind. *)
LEMMA CallStep ==
  ASSUME Call
  PROVE  /\ load' = Unloaded /\ time' = time
         /\ Unloaded \in [low : -1 .. LowRange - 1, high : Int, at : Nat \cup {-1}]
<1>1. None \in -1 .. LowRange - 1 /\ None = -1
  BY Constants DEF None
<1> QED BY <1>1 DEF Call, Unloaded

(* The same, of a call that is named by its load. *)
LEMMA CallIs == Unloaded \in [low : -1 .. LowRange - 1, high : Int, at : Nat \cup {-1}]
<1>1. None \in -1 .. LowRange - 1 /\ None = -1
  BY Constants DEF None
<1> QED BY <1>1 DEF Unloaded

(* millisec_timer_set_rel: the interval begins at the time of the load. *)
LEMMA SetRelStep ==
  ASSUME AtOnce, IInv, NEW r \in Rels, SetRel(r)
  PROVE  IInv'
<1>1. r \in 0 .. Range - 1 /\ time \in Nat /\ result \in BOOLEAN
  BY Constants DEF IInv, TimerTypeOK
<1>2. Loaded /\ Call
  BY DEF SetRel, Call
<1>3. /\ timer' = [enabled |-> TRUE, set_time |-> now, expire_time |-> (now + r) % Range]
      /\ since' = load.at /\ rel' = r /\ result' = result
  BY DEF SetRel
<1>4. (now + r) % Range \in 0 .. Range - 1
  BY <1>1, <1>2, NowMeans, Constants, DivMod
<1>5. (now + r) % Range = (load.at + r) % Range
  <2>1. /\ now = load.at % Range /\ now \in Int /\ now \in Nat /\ now < Range
        /\ load.at \in Int /\ r \in Int
    BY <1>1, <1>2, NowMeans, Constants
  <2>2. now % Range = now
    BY <2>1, ModSmall, Constants
  <2>3. (now + r) % Range = IF (now % Range) + (r % Range) < Range
                              THEN (now % Range) + (r % Range)
                              ELSE (now % Range) + (r % Range) - Range
    BY <2>1, Constants, ModAdd, Zenon
  <2>4. (load.at + r) % Range = IF (load.at % Range) + (r % Range) < Range
                              THEN (load.at % Range) + (r % Range)
                              ELSE (load.at % Range) + (r % Range) - Range
    BY <2>1, Constants, ModAdd, Zenon
  <2> QED BY <2>1, <2>2, <2>3, <2>4
<1>6. TimerTypeOK'
  BY <1>1, <1>2, <1>3, <1>4, CallStep, NowMeans DEF TimerTypeOK
<1>7. Meaning'
  BY <1>2, <1>3, <1>5, CallStep, NowMeans DEF Meaning, Unloaded
<1>8. Order'
  <2>1. load.at \in Nat /\ load.at <= time
    BY <1>2, NowMeans
  <2>2. load'.low = None /\ load'.at = None /\ None = -1
    BY <1>2, CallStep DEF Unloaded, None
  <2> QED BY <1>1, <1>2, <1>3, <2>1, <2>2, CallStep DEF Order
<1> QED BY <1>6, <1>7, <1>8 DEF IInv

(* millisec_timer_is_expired: an expired timer is switched off. *)
LEMMA IsExpiredStep ==
  ASSUME AtOnce, IInv, IsExpired
  PROVE  IInv'
<1>1. /\ Loaded /\ since' = since /\ rel' = rel /\ load' = Unloaded /\ time' = time
      /\ result' \in BOOLEAN
      /\ timer' = [timer EXCEPT !.enabled = FALSE] \/ timer' = timer
  <2>1. Call
    BY DEF IsExpired
  <2>2. /\ result' = (timer.enabled /\ expired(timer, now))
        /\ timer' = IF result' THEN [timer EXCEPT !.enabled = FALSE] ELSE timer
        /\ since' = since /\ rel' = rel
    BY DEF IsExpired
  <2> QED BY <2>1, <2>2, CallStep DEF Call
<1>2. TimerTypeOK'
  BY <1>1, CallIs DEF IInv, TimerTypeOK
<1>3. Meaning'
  BY <1>1 DEF IInv, TimerTypeOK, Meaning, Unloaded
<1>4. Order'
  BY <1>1, NowMeans DEF IInv, TimerTypeOK, Order, Unloaded, None
<1> QED BY <1>2, <1>3, <1>4 DEF IInv

(* The sum of the repeated interval, with uint32_t operations. *)
LEMMA NextExpiry ==
  ASSUME NEW s \in Nat, NEW r \in 0 .. Range - 1, NEW a, NEW e,
         a = s % Range, e = (s + r) % Range
  PROVE  (2 * e - a) % Range = (s + r + r) % Range
<1>1. /\ a \in Nat /\ a < Range /\ e \in Nat /\ e < Range /\ r \in Nat /\ r < Range
      /\ s \in Int /\ r \in Int /\ s + r \in Int /\ r % Range = r
  BY Constants, DivMod, ModSmall
<1>2. e = IF a + r < Range THEN a + r ELSE a + r - Range
  <2>1. e = IF a + (r % Range) < Range THEN a + (r % Range) ELSE a + (r % Range) - Range
    BY <1>1, Constants, ModAdd, Zenon
  <2> QED BY <1>1, <2>1
<1>3. (s + r + r) % Range = IF e + r < Range THEN e + r ELSE e + r - Range
  <2>1. ((s + r) + r) % Range = IF e + (r % Range) < Range THEN e + (r % Range)
                                ELSE e + (r % Range) - Range
    BY <1>1, Constants, ModAdd, Zenon
  <2> QED BY <1>1, <2>1
<1> DEFINE q == IF e + r < Range THEN e + r ELSE e + r - Range
           d == 2 * e - a
<1>4. q \in Nat /\ q < Range /\ d \in Int
  BY <1>1, Constants
<1>5. d = Range * 0 + q \/ d = Range * 1 + q \/ d = Range * (-1) + q
  BY <1>1, <1>2, Constants
<1> HIDE DEF q, d
<1>6. 0 \in Int /\ 1 \in Int /\ -1 \in Int
  OBVIOUS
<1>7. d % Range = q
  BY <1>4, <1>5, <1>6, Constants, ModUnique
<1> QED BY <1>3, <1>7 DEF q, d

(* What a true answer says of the loaded time. *)
LEMMA TrueAnswer ==
  ASSUME AtOnce, IInv, Loaded, timer.enabled, expired(timer, now)
  PROVE  since + rel <= load.at
<1>1. rel <= (load.at - since) % Range
  BY AnswerMeans
<1>2. load.at - since \in Nat /\ since \in Nat /\ load.at \in Nat /\ rel \in Nat
  BY NowMeans, Constants
<1>3. (load.at - since) % Range <= load.at - since /\ (load.at - since) % Range \in Nat
  BY <1>2, Constants, ModLeq, DivMod
<1> QED BY <1>1, <1>2, <1>3

(* millisec_timer_is_expired_repeat: the next interval joins the last.     *)
LEMMA RepeatStep ==
  ASSUME AtOnce, IInv, IsExpiredRepeat
  PROVE  IInv'
<1>1. Call /\ Loaded
  BY DEF IsExpiredRepeat, Call
<1>2. /\ load' = Unloaded /\ time' = time /\ rel' = rel
      /\ result' = (timer.enabled /\ expired(timer, now))
      /\ Unloaded \in [low : -1 .. LowRange - 1, high : Int, at : Nat \cup {-1}]
  BY <1>1, CallStep, CallIs DEF IsExpiredRepeat
<1>3. /\ since \in Nat /\ load.at \in Nat /\ since <= load.at /\ load.at <= time
      /\ time \in Nat /\ rel \in Nat /\ rel \in 0 .. Range - 1 /\ result' \in BOOLEAN
  BY <1>1, <1>2, NowMeans, Constants DEF IInv, TimerTypeOK
<1>4. CASE result'
  <2>1. timer.enabled /\ expired(timer, now)
    BY <1>2, <1>4
  <2>2. /\ timer' = [enabled |-> TRUE, set_time |-> timer.expire_time,
                     expire_time |-> (2 * timer.expire_time - timer.set_time) % Range]
        /\ since' = since + rel
    BY <1>4 DEF IsExpiredRepeat
  <2>3. since + rel <= load.at
    BY <1>1, <2>1, TrueAnswer
  <2>4. timer.set_time = since % Range /\ timer.expire_time = (since + rel) % Range
    BY <2>1 DEF IInv, Meaning
  <2>5. (2 * timer.expire_time - timer.set_time) % Range = (since + rel + rel) % Range
    BY <1>3, <2>4, NextExpiry
  <2>6. /\ timer.expire_time \in 0 .. Range - 1
        /\ (since + rel + rel) % Range \in 0 .. Range - 1
    BY <1>3, <2>4, Constants, DivMod
  <2>7. TimerTypeOK'
    BY <1>2, <1>3, <2>2, <2>5, <2>6 DEF TimerTypeOK
  <2>8. Meaning'
    BY <1>2, <2>2, <2>4, <2>5 DEF Meaning, Unloaded
  <2>9. Order'
    <3>1. load'.low = None /\ load'.at = None /\ None = -1
      BY <1>2 DEF Unloaded, None
    <3> QED BY <1>2, <1>3, <2>2, <2>3, <3>1 DEF Order
  <2> QED BY <2>7, <2>8, <2>9 DEF IInv
<1>5. CASE ~result'
  <2>1. timer' = timer /\ since' = since
    BY <1>5 DEF IsExpiredRepeat
  <2>2. TimerTypeOK'
    BY <1>2, <1>3, <2>1 DEF IInv, TimerTypeOK
  <2>3. Meaning'
    BY <1>2, <2>1 DEF IInv, Meaning, Unloaded
  <2>4. Order'
    <3>1. load'.low = None /\ load'.at = None /\ None = -1
      BY <1>2 DEF Unloaded, None
    <3> QED BY <1>2, <1>3, <2>1, <3>1 DEF Order
  <2> QED BY <2>2, <2>3, <2>4 DEF IInv
<1> QED BY <1>4, <1>5

(* Every step keeps the invariant. *)
LEMMA StepIInv ==
  ASSUME AtOnce, IInv, [TimerNext]_timer_vars
  PROVE  IInv'
<1>1. CASE Tick
  BY <1>1, TickStep
<1>2. CASE LoadLow \/ LoadHigh
  BY <1>2, LoadStep
<1>3. CASE \E r \in Rels : SetRel(r)
  BY <1>3, SetRelStep
<1>4. CASE IsExpired
  BY <1>4, IsExpiredStep
<1>5. CASE IsExpiredRepeat
  BY <1>5, RepeatStep
<1>6. CASE UNCHANGED timer_vars
  BY <1>6 DEF timer_vars, IInv, TimerTypeOK, Meaning, Order
<1> QED BY <1>1, <1>2, <1>3, <1>4, <1>5, <1>6 DEF TimerNext

(* The answer of a call, in true time. *)
LEMMA AnswerIsExact ==
  ASSUME AtOnce, IInv, Asked
  PROVE  /\ result' => load.at >= since + rel
         /\ timer.enabled /\ since + rel <= load.at /\ load.at < since + Range => result'
<1>1. Loaded /\ result' = (timer.enabled /\ expired(timer, now))
  BY DEF Asked, IsExpired, IsExpiredRepeat, Call
<1>2. /\ load.at \in Nat /\ since \in Nat /\ since <= load.at /\ rel \in Nat
      /\ load.at - since \in Nat
  BY <1>1, NowMeans, Constants
<1>3. ASSUME result' PROVE load.at >= since + rel
  <2>1. since + rel <= load.at
    BY <1>1, <1>3, TrueAnswer
  <2> QED BY <1>2, <2>1
<1>4. ASSUME timer.enabled, since + rel <= load.at, load.at < since + Range
      PROVE  result'
  <2>1. load.at - since < Range /\ rel <= load.at - since
    BY <1>2, <1>4, Constants
  <2>2. (load.at - since) % Range = load.at - since
    BY <1>2, <2>1, Constants, ModSmall
  <2> QED BY <1>1, <1>4, <2>1, <2>2, AnswerMeans
<1> QED BY <1>3, <1>4

(***************************************************************************)
(* Where the counter is loaded at once, the timer keeps its types and its  *)
(* meaning, never reports an expiry early in true time, and never misses   *)
(* one when asked within a period of the counter (millisec_timer.c:16-47). *)
(***************************************************************************)
THEOREM TimerIsExact ==
  ASSUME AtOnce
  PROVE  TimerSpec => []TimerTypeOK /\ NeverEarly /\ NeverMissed
<1>1. TimerInit => IInv
  BY InitIInv
<1>2. IInv /\ [TimerNext]_timer_vars => IInv'
  BY StepIInv
<1>3. IInv => TimerTypeOK
  BY DEF IInv
<1>4. IInv /\ [TimerNext]_timer_vars => [Asked /\ result' => load.at >= since + rel]_timer_vars
  BY AnswerIsExact
<1>5. IInv /\ [TimerNext]_timer_vars
        => [Asked /\ timer.enabled /\ since + rel <= load.at /\ load.at < since + Range
              => result']_timer_vars
  BY AnswerIsExact
<1> QED BY <1>1, <1>2, <1>3, <1>4, <1>5, PTL DEF TimerSpec, NeverEarly, NeverMissed
(***************************************************************************)
(* The types, which need no load in one piece: words that are a part of    *)
(* the counter each give a value of the counter, a torn one too.           *)
(***************************************************************************)

(* The words of a load and its time. *)
Words(k) ==
  /\ load.low # None => load.at \in Nat
  /\ load.high # None => load.high \in 0 .. k - 1

(* What is loaded is a value of the counter, torn or not. *)
LEMMA NowIsAValue ==
  ASSUME NEW k \in Nat, Range = k * LowRange, TimerTypeOK, Words(k), Loaded
  PROVE  now \in 0 .. Range - 1 /\ load.at \in Nat
<1>1. /\ load.low \in 0 .. LowRange - 1 /\ load.high \in 0 .. k - 1 /\ load.at \in Nat
  BY DEF TimerTypeOK, Words, Loaded, None
<1>2. LowRange \in Nat \ {0}
  BY Constants
<1>3. ASSUME NEW h \in 0 .. k - 1, NEW l \in 0 .. LowRange - 1, NEW w \in Nat, w = LowRange
      PROVE  h * w + l \in 0 .. k * w - 1
  <2>1. h * w \in Nat /\ (k - 1 - h) * w \in Nat
    BY <1>3, SMT
  <2>2. (k - 1 - h) * w = k * w - w - h * w
    BY <1>3, SMT
  <2>3. k * w \in Int
    BY <1>3, SMT
  <2> QED BY <1>3, <2>1, <2>2, <2>3, SMT
<1>4. load.high * LowRange + load.low \in 0 .. k * LowRange - 1
  BY <1>1, <1>2, <1>3
<1> QED BY <1>1, <1>4 DEF now

(* The loads keep the types. *)
LEMMA LoadIsTyped ==
  ASSUME NEW k \in Nat, Range = k * LowRange, TimerTypeOK, Words(k), LoadLow \/ LoadHigh
  PROVE  TimerTypeOK' /\ Words(k)'
<1>1. /\ LowRange \in Nat \ {0} /\ Range \in Nat \ {0} /\ time \in Nat
  BY Constants DEF TimerTypeOK
<1>2. MILLISEC_TIMER_NOW \in 0 .. Range - 1
  BY <1>1, DivMod DEF MILLISEC_TIMER_NOW
<1>3. CASE LoadLow
  <2>1. MILLISEC_TIMER_NOW % LowRange \in 0 .. LowRange - 1
    BY <1>1, <1>2, DivMod
  <2> QED BY <1>1, <1>3, <2>1 DEF LoadLow, TimerTypeOK, Words, None
<1>4. CASE LoadHigh
  <2>1. MILLISEC_TIMER_NOW \div LowRange \in 0 .. k - 1
    <3> DEFINE q == MILLISEC_TIMER_NOW \div LowRange
               r == MILLISEC_TIMER_NOW % LowRange
    <3>1. q \in Int /\ r \in Nat /\ MILLISEC_TIMER_NOW = LowRange * q + r /\ r < LowRange
      BY <1>1, <1>2, DivMod
    <3>2. LowRange * q < k * LowRange /\ LowRange * q > -LowRange
      BY <1>1, <1>2, <3>1
    <3> HIDE DEF q, r
    <3>3. ASSUME q >= k PROVE FALSE
      <4>1. LowRange * (q - k) >= 0 /\ LowRange * (q - k) = LowRange * q - k * LowRange
        BY <1>1, <3>1, <3>3, SMT
      <4> QED BY <1>1, <3>1, <3>2, <4>1, SMT
    <3>4. ASSUME q < 0 PROVE FALSE
      <4>1. LowRange * (-1 - q) >= 0 /\ LowRange * (-1 - q) = -LowRange - LowRange * q
        BY <1>1, <3>1, <3>4, SMT
      <4> QED BY <1>1, <3>1, <3>2, <4>1, SMT
    <3> QED BY <3>1, <3>3, <3>4 DEF q
  <2>2. load' = [low |-> load.low, high |-> MILLISEC_TIMER_NOW \div LowRange, at |-> load.at]
    BY <1>4 DEF LoadHigh
  <2> QED BY <1>4, <2>1, <2>2 DEF LoadHigh, TimerTypeOK, Words, None
<1> QED BY <1>3, <1>4

(* The three functions keep the types. *)
LEMMA CallIsTyped ==
  ASSUME TimerTypeOK, now \in 0 .. Range - 1, load.at \in Nat,
         (\E r \in Rels : SetRel(r)) \/ IsExpired \/ IsExpiredRepeat
  PROVE  TimerTypeOK' /\ load' = Unloaded
<1>1. Call
  BY DEF SetRel, IsExpired, IsExpiredRepeat
<1>2. /\ load' = Unloaded /\ time' = time /\ Loaded
      /\ Unloaded \in [low : -1 .. LowRange - 1, high : Int, at : Nat \cup {-1}]
  BY <1>1, CallStep DEF Call
<1>5. Range \in Nat \ {0}
  BY Constants
<1>6. CASE \E r \in Rels : SetRel(r)
  <2>1. PICK r \in Rels : SetRel(r)
    BY <1>6
  <2>2. r \in 0 .. Range - 1
    BY Constants
  <2>3. (now + r) % Range \in 0 .. Range - 1
    BY <1>5, <2>2, DivMod
  <2> QED BY <1>2, <2>1, <2>2, <2>3 DEF TimerTypeOK, SetRel
<1>7. CASE IsExpired
  <2>1. result' \in BOOLEAN /\ since' = since /\ rel' = rel
    BY <1>7 DEF IsExpired
  <2>2. timer' = [timer EXCEPT !.enabled = FALSE] \/ timer' = timer
    BY <1>7 DEF IsExpired
  <2> QED BY <1>2, <2>1, <2>2 DEF TimerTypeOK
<1>8. CASE IsExpiredRepeat
  <2>1. result' \in BOOLEAN /\ rel' = rel
    BY <1>8 DEF IsExpiredRepeat
  <2>2. timer.expire_time \in Int /\ timer.set_time \in Int
    BY <1>5 DEF TimerTypeOK
  <2> DEFINE next == 2 * timer.expire_time - timer.set_time
  <2>3. next % Range \in 0 .. Range - 1
    <3>1. next \in Int
      BY <2>2
    <3> HIDE DEF next
    <3> QED BY <1>5, <3>1, DivMod
  <2>4. \/ /\ timer' = [enabled |-> TRUE, set_time |-> timer.expire_time,
                        expire_time |-> next % Range]
           /\ since' = since + rel
        \/ timer' = timer /\ since' = since
    <3>1. CASE result'
      BY <1>8, <3>1 DEF IsExpiredRepeat
    <3>2. CASE ~result'
      BY <1>8, <3>2 DEF IsExpiredRepeat
    <3> QED BY <3>1, <3>2
  <2>5. timer' \in [enabled : BOOLEAN, set_time : 0 .. Range - 1, expire_time : 0 .. Range - 1]
    <3>1. timer \in [enabled : BOOLEAN, set_time : 0 .. Range - 1, expire_time : 0 .. Range - 1]
      BY DEF TimerTypeOK
    <3> DEFINE e == next % Range
               s == timer.expire_time
    <3>2. s \in 0 .. Range - 1 /\ e \in 0 .. Range - 1
      BY <2>3, <3>1
    <3>3. timer' = [enabled |-> TRUE, set_time |-> s, expire_time |-> e] \/ timer' = timer
      BY <2>4
    <3> HIDE DEF e, s
    <3>4. [enabled |-> TRUE, set_time |-> s, expire_time |-> e]
            \in [enabled : BOOLEAN, set_time : 0 .. Range - 1, expire_time : 0 .. Range - 1]
      BY <3>2
    <3> QED BY <3>1, <3>3, <3>4
  <2>6. since' \in Nat
    BY <2>4 DEF TimerTypeOK
  <2> QED BY <1>2, <2>1, <2>5, <2>6 DEF TimerTypeOK
<1> QED BY <1>6, <1>7, <1>8

(***************************************************************************)
(* The fields of a timer stay values of the counter, for a counter loaded  *)
(* at once (k = 1) or in a low word and a high one of k values, whenever   *)
(* the tick comes between the loads (millisec_timer.c:8-47).               *)
(***************************************************************************)
THEOREM TimerIsTyped ==
  ASSUME NEW k \in Nat, Range = k * LowRange
  PROVE  TimerSpec => []TimerTypeOK
<1>1. TimerInit => TimerTypeOK /\ Words(k)
  <2>1. TimerInit => TimerTypeOK
    BY InitIInv DEF IInv
  <2>2. TimerInit => Words(k)
    BY DEF TimerInit, Words, Unloaded
  <2> QED BY <2>1, <2>2
<1>2. TimerTypeOK /\ Words(k) /\ [TimerNext]_timer_vars => TimerTypeOK' /\ Words(k)'
  <2> SUFFICES ASSUME TimerTypeOK, Words(k), [TimerNext]_timer_vars
               PROVE  TimerTypeOK' /\ Words(k)'
    OBVIOUS
  <2>1. CASE Tick
    BY <2>1 DEF Tick, TimerTypeOK, Words
  <2>2. CASE LoadLow \/ LoadHigh
    BY <2>2, LoadIsTyped
  <2>3. CASE (\E r \in Rels : SetRel(r)) \/ IsExpired \/ IsExpiredRepeat
    <3>1. Loaded
      BY <2>3 DEF SetRel, IsExpired, IsExpiredRepeat, Call
    <3>2. now \in 0 .. Range - 1 /\ load.at \in Nat
      BY <3>1, NowIsAValue
    <3>3. TimerTypeOK' /\ load' = Unloaded
      BY <2>3, <3>2, CallIsTyped
    <3>4. Words(k)'
      BY <3>3 DEF Words, Unloaded
    <3> QED BY <3>3, <3>4
  <2>4. CASE UNCHANGED timer_vars
    BY <2>4 DEF timer_vars, TimerTypeOK, Words
  <2> QED BY <2>1, <2>2, <2>3, <2>4 DEF TimerNext
<1> QED BY <1>1, <1>2, PTL DEF TimerSpec
(***************************************************************************)
(* A program that polls its timer at least once per period of the counter  *)
(* gets every expiry, of a repeating timer also those it is behind with    *)
(* (millisec_timer.c:16-47).                                               *)
(***************************************************************************)
THEOREM TimerMissesNothing ==
  ASSUME AtOnce
  PROVE  TimerSpec => NeverMissed
BY TimerIsExact, PTL

=============================================================================
