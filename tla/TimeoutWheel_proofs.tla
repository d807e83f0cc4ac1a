-------------------------- MODULE TimeoutWheel_proofs --------------------------
(* TimeoutWheel keeps the promise of Deadlines, for every wheel, every length  *)
(* of a minute and every set of sockets.                                       *)
EXTENDS TimeoutWheel, TLAPS

-----------------------------------------------------------------------------
(* Arithmetic of a wheel. *)

\* Division with remainder, as an equation the provers can use.
LEMMA Division ==
  ASSUME NEW w \in Nat \ {0}, NEW a \in Int
  PROVE  a = (a \div w) * w + (a % w) /\ a \div w \in Int /\ a % w \in 0 .. w - 1
<1>1. w \in Int /\ w > 0
  OBVIOUS
<1>2. a = (a \div w) * w + (a % w)
  BY <1>1, SMTT(60)
<1>3. a \div w \in Int /\ a % w \in 0 .. w - 1
  BY <1>1
<1> QED
  BY <1>2, <1>3

\* Quotient and remainder are the only numbers with that equation.
LEMMA Remainder ==
  ASSUME NEW w \in Nat \ {0}, NEW a \in Int, NEW q \in Int, NEW r \in 0 .. w - 1,
         a = q * w + r
  PROVE  a % w = r /\ a \div w = q
<1>1. a % w = r
  OBVIOUS
<1>2. a \div w = q
  OBVIOUS
<1> QED
  BY <1>1, <1>2

\* Quotients of natural numbers are natural.
LEMMA Quotient ==
  ASSUME NEW w \in Nat \ {0}, NEW a \in Nat
  PROVE  a \div w \in Nat
<1>1. PICK q \in Int, r \in 0 .. w - 1 : a = q * w + r /\ q = a \div w
  BY Division
<1>2. ASSUME q < 0 PROVE FALSE
  <2>1. PICK k \in Nat : q = -1 - k
    <3>1. -1 - q \in Nat /\ q = -1 - (-1 - q)
      BY <1>2
    <3> QED
      BY <3>1
  <2>2. k * w \in Nat
    OBVIOUS
  <2>3. q * w = -w - (k * w)
    BY <2>1
  <2> QED
    BY <1>1, <2>2, <2>3
<1> QED
  BY <1>1, <1>2

\* A number on the wheel is its own remainder.
LEMMA Small ==
  ASSUME NEW w \in Nat \ {0}, NEW a \in 0 .. w - 1
  PROVE  a % w = a
<1>1. a = 0 * w + a
  OBVIOUS
<1> QED
  BY <1>1, Remainder

\* One step turns the wheel by one, and carries when it comes round.
LEMMA Successor ==
  ASSUME NEW w \in Nat \ {0}, NEW a \in Nat
  PROVE  /\ (a + 1) % w = IF a % w = w - 1 THEN 0 ELSE (a % w) + 1
         /\ (a + 1) \div w = IF a % w = w - 1 THEN a \div w + 1 ELSE a \div w
<1>1. PICK q \in Int, r \in 0 .. w - 1 : a = q * w + r /\ q = a \div w /\ r = a % w
  BY Division
<1>2. CASE r = w - 1
  <2>1. a + 1 = (q + 1) * w + 0 /\ a + 1 \in Int /\ q + 1 \in Int /\ 0 \in 0 .. w - 1
    BY <1>1, <1>2
  <2>2. (a + 1) % w = 0 /\ (a + 1) \div w = q + 1
    BY <2>1, Remainder
  <2> QED
    BY <2>2, <1>1, <1>2
<1>3. CASE r # w - 1
  <2>1. a + 1 = q * w + (r + 1) /\ r + 1 \in 0 .. w - 1 /\ a + 1 \in Int
    BY <1>1, <1>3
  <2>2. (a + 1) % w = r + 1 /\ (a + 1) \div w = q
    BY <2>1, Remainder
  <2> QED
    BY <2>2, <1>1, <1>3
<1> QED
  BY <1>2, <1>3

\* Adding on the wheel.
LEMMA Sum ==
  ASSUME NEW w \in Nat \ {0}, NEW u \in 0 .. w - 1, NEW n \in 0 .. w - 1
  PROVE  (u + n) % w = IF u + n < w THEN u + n ELSE u + n - w
<1>1. CASE u + n < w
  BY <1>1, Small
<1>2. CASE u + n >= w
  <2>1. u + n = 1 * w + (u + n - w) /\ u + n - w \in 0 .. w - 1
    BY <1>2
  <2> QED
    BY <2>1, <1>2, Remainder
<1> QED
  BY <1>1, <1>2

\* Subtracting on the wheel.
LEMMA Difference ==
  ASSUME NEW w \in Nat \ {0}, NEW u \in 0 .. w - 1, NEW v \in 0 .. w - 1
  PROVE  (u - v) % w = IF u >= v THEN u - v ELSE u - v + w
<1>1. CASE u >= v
  BY <1>1, Small
<1>2. CASE u < v
  <2>1. u - v = (-1) * w + (u - v + w) /\ u - v + w \in 0 .. w - 1
    BY <1>2
  <2> QED
    BY <2>1, <1>2, Remainder
<1> QED
  BY <1>1, <1>2

\* A byte armed n steps ahead is n steps away.
LEMMA ArmedAhead ==
  ASSUME NEW w \in Nat \ {0}, NEW v \in 0 .. w - 1, NEW n \in 1 .. w - 1
  PROVE  /\ (v + n) % w \in 0 .. w - 1 /\ (v + n) % w # v
         /\ (((v + n) % w) - v) % w = n
<1> DEFINE u == (v + n) % w
<1>1. u = IF v + n < w THEN v + n ELSE v + n - w
  <2>1. n \in 0 .. w - 1
    OBVIOUS
  <2> QED
    BY <2>1, Sum
<1>2. u \in 0 .. w - 1 /\ u # v
  BY <1>1
<1>3. (u - v) % w = IF u >= v THEN u - v ELSE u - v + w
  BY <1>2, Difference
<1> QED
  BY <1>1, <1>2, <1>3

\* A step of the wheel brings a byte that is not due one step nearer.
LEMMA StepNearer ==
  ASSUME NEW w \in Nat \ {0}, NEW u \in 0 .. w - 1, NEW v \in 0 .. w - 1, u # v,
         NEW x, x = IF v = w - 1 THEN 0 ELSE v + 1
  PROVE  /\ (u - v) % w \in 1 .. w - 1
         /\ (u - x) % w = ((u - v) % w) - 1
<1>1. x \in 0 .. w - 1
  OBVIOUS
<1>2. (u - v) % w = IF u >= v THEN u - v ELSE u - v + w
  BY Difference
<1>3. (u - x) % w = IF u >= x THEN u - x ELSE u - x + w
  BY <1>1, Difference
<1> QED
  BY <1>1, <1>2, <1>3

\* A byte is due when it equals the stamp.
LEMMA DueNow ==
  ASSUME NEW w \in Nat \ {0}, NEW u \in 0 .. w - 1, NEW v \in 0 .. w - 1
  PROVE  (u - v) % w \in 0 .. w - 1 /\ ((u - v) % w = 0 <=> u = v)
BY Difference

-----------------------------------------------------------------------------
(* Invariance. *)

\* The two stamps are positions on the wheel, and no byte in use equals Never.
LEMMA Stamps ==
  ASSUME TypeOK
  PROVE  /\ timestamp \in 0 .. Wheel - 1 /\ long_timestamp \in 0 .. Wheel - 1
         /\ Never \notin 0 .. Wheel - 1
         /\ global_tick \in Nat /\ global_tick \div Minute \in Nat
<1>1. global_tick \in Nat /\ global_tick \in Int
  BY WheelAssumption DEF TypeOK
<1>2. timestamp \in 0 .. Wheel - 1
  BY <1>1, Division, WheelAssumption DEF timestamp
<1>3. global_tick \div Minute \in Nat
  BY <1>1, Quotient, WheelAssumption
<1>4. long_timestamp \in 0 .. Wheel - 1
  <2>1. global_tick \div Minute \in Int
    BY <1>3
  <2> QED
    BY <2>1, Division, WheelAssumption DEF long_timestamp
<1>5. Never \notin 0 .. Wheel - 1
  BY WheelAssumption
<1> QED
  BY <1>1, <1>2, <1>3, <1>4, <1>5

\* What us_socket_timeout stores: Never, or a byte ahead of the stamp.
LEMMA Stored ==
  ASSUME NEW v \in 0 .. Wheel - 1, NEW n \in 1 .. Wheel - 1
  PROVE  (v + n) % Wheel \in 0 .. Wheel - 1 /\ (v + n) % Wheel # v
BY ArmedAhead, WheelAssumption

\* The arguments in ticks and minutes are less than a turn.
LEMMA Turns ==
  /\ \A n \in Seconds : n # 0 /\ Ticks(n) \in 1 .. Wheel - 1
  /\ \A n \in Minutes : n # 0 /\ n \in 1 .. Wheel - 1
<1>1. ASSUME NEW n \in Seconds PROVE n # 0 /\ Ticks(n) \in 1 .. Wheel - 1
  <2>1. n \in Nat /\ n # 0 /\ Ticks(n) < Wheel
    BY TurnAssumption
  <2>2. Ticks(n) \in Int /\ Ticks(n) >= 1
    BY <2>1 DEF Ticks
  <2> QED
    BY <2>1, <2>2, WheelAssumption
<1>2. ASSUME NEW n \in Minutes PROVE n # 0 /\ n \in 1 .. Wheel - 1
  BY TurnAssumption, WheelAssumption
<1> QED
  BY <1>1, <1>2

\* The inductive invariant holds initially.
LEMMA InitInvariant == Init => TypeOK /\ NoneLeftBehind
<1> SUFFICES ASSUME Init PROVE TypeOK /\ NoneLeftBehind
  OBVIOUS
<1>1. TypeOK
  BY WheelAssumption DEF Init, TypeOK
<1>2. NoneLeftBehind
  BY <1>1, Stamps DEF Init, NoneLeftBehind
<1> QED
  BY <1>1, <1>2

\* Every step keeps it.
LEMMA StepInvariant ==
  ASSUME TypeOK, NoneLeftBehind, [Next]_vars
  PROVE  TypeOK' /\ NoneLeftBehind'
<1> USE WheelAssumption, Stamps
<1>1. ASSUME NEW s \in Sockets, NEW n \in Seconds \cup {0}, SetTimeout(s, n)
      PROVE  TypeOK' /\ NoneLeftBehind'
  <2> DEFINE byte == IF n = 0 THEN Never ELSE (timestamp + Ticks(n)) % Wheel
  <2>1. byte \in 0 .. Wheel - 1 \cup {Never} /\ byte # timestamp
    BY Turns, Stored
  <2>2. timeout' = [timeout EXCEPT ![s] = byte]
    BY <1>1 DEF SetTimeout
  <2> HIDE DEF byte
  <2>3. TypeOK'
    BY <1>1, <2>1, <2>2 DEF SetTimeout, TypeOK
  <2>4. NoneLeftBehind'
    BY <1>1, <2>1, <2>2 DEF SetTimeout, TypeOK, NoneLeftBehind, timestamp, long_timestamp
  <2> QED
    BY <2>3, <2>4
<1>2. ASSUME NEW s \in Sockets, NEW n \in Minutes \cup {0}, SetLongTimeout(s, n)
      PROVE  TypeOK' /\ NoneLeftBehind'
  <2> DEFINE byte == IF n = 0 THEN Never ELSE (long_timestamp + n) % Wheel
  <2>1. byte \in 0 .. Wheel - 1 \cup {Never} /\ byte # long_timestamp
    BY Turns, Stored
  <2>2. long_timeout' = [long_timeout EXCEPT ![s] = byte]
    BY <1>2 DEF SetLongTimeout
  <2> HIDE DEF byte
  <2>3. TypeOK'
    BY <1>2, <2>1, <2>2 DEF SetLongTimeout, TypeOK
  <2>4. NoneLeftBehind'
    BY <1>2, <2>1, <2>2 DEF SetLongTimeout, TypeOK, NoneLeftBehind, timestamp, long_timestamp
  <2> QED
    BY <2>3, <2>4
<1>3. ASSUME NEW s \in Sockets, SweepPass(s)
      PROVE  TypeOK' /\ NoneLeftBehind'
  <2>1. TypeOK'
    BY <1>3 DEF SweepPass, TypeOK
  <2>2. NoneLeftBehind'
    BY <1>3 DEF SweepPass, TypeOK, NoneLeftBehind, timestamp, long_timestamp
  <2> QED
    BY <2>1, <2>2
<1>4. ASSUME NEW s \in Sockets, SweepShort(s)
      PROVE  TypeOK' /\ NoneLeftBehind'
  <2>1. TypeOK'
    BY <1>4 DEF SweepShort, TypeOK
  <2>2. NoneLeftBehind'
    BY <1>4 DEF SweepShort, TypeOK, NoneLeftBehind, timestamp, long_timestamp
  <2> QED
    BY <2>1, <2>2
<1>5. ASSUME SweepBegin
      PROVE  TypeOK' /\ NoneLeftBehind'
  <2>1. TypeOK'
    BY <1>5 DEF SweepBegin, TypeOK
  <2>2. NoneLeftBehind'
    BY <1>5 DEF SweepBegin, NoneLeftBehind
  <2> QED
    BY <2>1, <2>2
<1>6. ASSUME SweepLong
      PROVE  TypeOK' /\ NoneLeftBehind'
  <2>1. TypeOK'
    BY <1>6 DEF SweepLong, TypeOK
  <2>2. NoneLeftBehind'
    BY <1>6 DEF SweepLong, TypeOK, NoneLeftBehind, timestamp, long_timestamp
  <2> QED
    BY <2>1, <2>2
<1>7. CASE UNCHANGED vars
  BY <1>7 DEF vars, TypeOK, NoneLeftBehind, timestamp, long_timestamp
<1> QED
  BY <1>1, <1>2, <1>3, <1>4, <1>5, <1>6, <1>7 DEF Next

(* Bytes, stamps and the position of the sweep keep their types.               *)
THEOREM WheelTyped == Spec => []TypeOK
<1>1. Init => TypeOK /\ NoneLeftBehind
  BY InitInvariant
<1>2. (TypeOK /\ NoneLeftBehind) /\ [Next]_vars => (TypeOK /\ NoneLeftBehind)'
  BY StepInvariant
<1> QED
  BY <1>1, <1>2, PTL DEF Spec

(* No timer that is due is left behind by a sweep (loop.c:103).                *)
THEOREM NoTimerLeftBehind == Spec => []NoneLeftBehind
<1>1. Init => TypeOK /\ NoneLeftBehind
  BY InitInvariant
<1>2. (TypeOK /\ NoneLeftBehind) /\ [Next]_vars => (TypeOK /\ NoneLeftBehind)'
  BY StepInvariant
<1> QED
  BY <1>1, <1>2, PTL DEF Spec

-----------------------------------------------------------------------------
(* Refinement. *)

\* A short timer is due at this tick exactly when its byte equals the stamp.
LEMMA ShortDue ==
  ASSUME TypeOK, NEW s \in Sockets
  PROVE  ShortDeadline(s) = global_tick <=> timeout[s] = timestamp
<1>1. timeout[s] \in 0 .. Wheel - 1 \cup {Never}
  BY DEF TypeOK
<1>2. CASE timeout[s] = Never
  BY <1>2, Stamps DEF ShortDeadline
<1>3. CASE timeout[s] \in 0 .. Wheel - 1
  <2>1. timestamp \in 0 .. Wheel - 1 /\ Never \notin 0 .. Wheel - 1 /\ global_tick \in Nat
    BY Stamps
  <2>2. (timeout[s] - timestamp) % Wheel \in 0 .. Wheel - 1
        /\ ((timeout[s] - timestamp) % Wheel = 0 <=> timeout[s] = timestamp)
    BY <1>3, <2>1, DueNow, WheelAssumption
  <2> QED
    BY <1>3, <2>1, <2>2 DEF ShortDeadline
<1> QED
  BY <1>1, <1>2, <1>3

\* A number of minutes ahead lies between a tick and a whole turn ahead.
LEMMA MinutesAhead ==
  ASSUME TypeOK, NEW n \in 1 .. Wheel - 1
  PROVE  /\ (global_tick \div Minute + n) * Minute \in Nat
         /\ (global_tick \div Minute + n) * Minute - global_tick \in 1 .. Wheel * Minute
<1> DEFINE q == global_tick \div Minute
           r == global_tick % Minute
<1>1. global_tick = q * Minute + r /\ q \in Nat /\ r \in 0 .. Minute - 1
  <2>1. global_tick \in Int /\ global_tick \div Minute \in Nat
    BY Stamps
  <2> QED
    BY <2>1, Division, WheelAssumption
<1> HIDE DEF q, r
<1>2. (q + n) * Minute = q * Minute + n * Minute /\ q * Minute \in Nat /\ n * Minute \in Nat
  BY <1>1, WheelAssumption
<1>3. n * Minute >= Minute
  BY WheelAssumption
<1>4. n * Minute <= Wheel * Minute
  BY WheelAssumption
<1>5. Wheel * Minute \in Nat /\ Minute \in Nat
  BY WheelAssumption
<1>6. (q + n) * Minute - global_tick = n * Minute - r
  BY <1>1, <1>2
<1>7. n * Minute - r \in 1 .. Wheel * Minute
  BY <1>1, <1>2, <1>3, <1>4, <1>5
<1> QED
  BY <1>1, <1>2, <1>6, <1>7 DEF q

\* A long timer is due at this tick exactly when its byte equals the stamp.
LEMMA LongDue ==
  ASSUME TypeOK, NEW s \in Sockets
  PROVE  LongDeadline(s) = global_tick <=> long_timeout[s] = long_timestamp
<1>1. long_timeout[s] \in 0 .. Wheel - 1 \cup {Never}
  BY DEF TypeOK
<1>2. CASE long_timeout[s] = Never
  BY <1>2, Stamps DEF LongDeadline
<1>3. CASE long_timeout[s] \in 0 .. Wheel - 1
  <2> DEFINE turn == (long_timeout[s] - long_timestamp) % Wheel
  <2>1. /\ long_timestamp \in 0 .. Wheel - 1 /\ Never \notin 0 .. Wheel - 1
        /\ global_tick \in Nat
    BY Stamps
  <2>2. turn \in 0 .. Wheel - 1 /\ (turn = 0 <=> long_timeout[s] = long_timestamp)
    BY <1>3, <2>1, DueNow, WheelAssumption
  <2>3. LongDeadline(s) = IF turn = 0 THEN global_tick
                          ELSE (global_tick \div Minute + turn) * Minute
    BY <1>3, <2>1 DEF LongDeadline
  <2> HIDE DEF turn
  <2>4. turn # 0 => (global_tick \div Minute + turn) * Minute - global_tick >= 1
    <3>1. SUFFICES ASSUME turn # 0
                   PROVE  (global_tick \div Minute + turn) * Minute - global_tick >= 1
      OBVIOUS
    <3>2. turn \in 1 .. Wheel - 1
      BY <2>2, <3>1, WheelAssumption
    <3> QED
      BY <3>2, MinutesAhead
  <2> QED
    BY <2>1, <2>2, <2>3, <2>4
<1> QED
  BY <1>1, <1>2, <1>3

\* Deadline, timer by timer.
LEMMA DeadlineOf ==
  /\ \A s \in Sockets : <<s, "short">> \in Timers /\ <<s, "long">> \in Timers
  /\ \A t \in Timers : \E s \in Sockets : t = <<s, "short">> \/ t = <<s, "long">>
  /\ \A s \in Sockets : Deadline[<<s, "short">>] = ShortDeadline(s)
  /\ \A s \in Sockets : Deadline[<<s, "long">>] = LongDeadline(s)
BY DEF Timers, Deadline

\* The initial states of the wheel are initial states of Deadlines.
LEMMA InitPromise == Init => Promise!Init
<1> SUFFICES ASSUME Init PROVE Promise!Init
  OBVIOUS
<1>1. \A s \in Sockets : ShortDeadline(s) = -1 /\ LongDeadline(s) = -1
  BY DEF Init, ShortDeadline, LongDeadline
<1>2. Deadline = [t \in Timers |-> -1]
  BY <1>1 DEF Deadline, Timers
<1> QED
  BY <1>2 DEF Init, Promise!Init, Promise!None

\* A step that changes the short byte of one socket only.
LEMMA ShortChanged ==
  ASSUME NEW s \in Sockets, NEW d,
         UNCHANGED <<global_tick, long_timeout>>,
         \A x \in Sockets : x # s => timeout'[x] = timeout[x],
         ShortDeadline(s)' = d
  PROVE  Deadline' = [Deadline EXCEPT ![<<s, "short">>] = d]
<1>1. \A x \in Sockets : x # s => ShortDeadline(x)' = ShortDeadline(x)
  BY DEF ShortDeadline, timestamp
<1>2. \A x \in Sockets : LongDeadline(x)' = LongDeadline(x)
  BY DEF LongDeadline, long_timestamp
<1>3. ASSUME NEW t \in Timers
      PROVE  Deadline'[t] = IF t = <<s, "short">> THEN d ELSE Deadline[t]
  <2>1. PICK x \in Sockets : t = <<x, "short">> \/ t = <<x, "long">>
    BY DeadlineOf
  <2>2. CASE t = <<x, "short">>
    <3>1. Deadline[t] = ShortDeadline(x) /\ Deadline'[t] = ShortDeadline(x)'
      BY <2>2 DEF Deadline, Timers
    <3> QED
      BY <2>2, <3>1, <1>1, <1>2
  <2>3. CASE t = <<x, "long">>
    <3>1. Deadline[t] = LongDeadline(x) /\ Deadline'[t] = LongDeadline(x)'
      BY <2>3 DEF Deadline, Timers
    <3> QED
      BY <2>3, <3>1, <1>1, <1>2
  <2> QED
    BY <2>1, <2>2, <2>3
<1>4. DOMAIN Deadline' = Timers /\ DOMAIN Deadline = Timers
  BY DEF Deadline, Timers
<1>5. Deadline = [t \in Timers |-> Deadline[t]] /\ Deadline' = [t \in Timers |-> Deadline'[t]]
  BY DEF Deadline, Timers
<1> QED
  BY <1>3, <1>4, <1>5

\* A step that changes the long byte of one socket only.
LEMMA LongChanged ==
  ASSUME NEW s \in Sockets, NEW d,
         UNCHANGED <<global_tick, timeout>>,
         \A x \in Sockets : x # s => long_timeout'[x] = long_timeout[x],
         LongDeadline(s)' = d
  PROVE  Deadline' = [Deadline EXCEPT ![<<s, "long">>] = d]
<1>1. \A x \in Sockets : x # s => LongDeadline(x)' = LongDeadline(x)
  BY DEF LongDeadline, long_timestamp
<1>2. \A x \in Sockets : ShortDeadline(x)' = ShortDeadline(x)
  BY DEF ShortDeadline, timestamp
<1>3. ASSUME NEW t \in Timers
      PROVE  Deadline'[t] = IF t = <<s, "long">> THEN d ELSE Deadline[t]
  <2>1. PICK x \in Sockets : t = <<x, "short">> \/ t = <<x, "long">>
    BY DeadlineOf
  <2>2. CASE t = <<x, "short">>
    <3>1. Deadline[t] = ShortDeadline(x) /\ Deadline'[t] = ShortDeadline(x)'
      BY <2>2 DEF Deadline, Timers
    <3> QED
      BY <2>2, <3>1, <1>1, <1>2
  <2>3. CASE t = <<x, "long">>
    <3>1. Deadline[t] = LongDeadline(x) /\ Deadline'[t] = LongDeadline(x)'
      BY <2>3 DEF Deadline, Timers
    <3> QED
      BY <2>3, <3>1, <1>1, <1>2
  <2> QED
    BY <2>1, <2>2, <2>3
<1>4. DOMAIN Deadline' = Timers /\ DOMAIN Deadline = Timers
  BY DEF Deadline, Timers
<1>5. Deadline = [t \in Timers |-> Deadline[t]] /\ Deadline' = [t \in Timers |-> Deadline'[t]]
  BY DEF Deadline, Timers
<1> QED
  BY <1>3, <1>4, <1>5

\* A tick brings every timer that is not due one tick nearer, or leaves it where
\* it is: no deadline changes.
LEMMA TickKeepsDeadlines ==
  ASSUME TypeOK, NoneLeftBehind, SweepBegin
  PROVE  Deadline' = Deadline
<1>1. /\ global_tick \in Nat /\ global_tick' = global_tick + 1
      /\ timeout' = timeout /\ long_timeout' = long_timeout
  BY Stamps DEF SweepBegin
<1>2. ASSUME NEW s \in Sockets PROVE ShortDeadline(s)' = ShortDeadline(s)
  <2>1. timeout[s] \in 0 .. Wheel - 1 \cup {Never} /\ timeout[s] # timestamp
    BY <1>2 DEF TypeOK, NoneLeftBehind, SweepBegin
  <2>2. timestamp' = IF timestamp = Wheel - 1 THEN 0 ELSE timestamp + 1
    BY <1>1, Successor, WheelAssumption DEF timestamp
  <2>3. timestamp \in 0 .. Wheel - 1 /\ Never \notin 0 .. Wheel - 1
    BY Stamps
  <2>4. CASE timeout[s] = Never
    BY <1>1, <2>4 DEF ShortDeadline
  <2>5. CASE timeout[s] \in 0 .. Wheel - 1
    <3>1. /\ (timeout[s] - timestamp) % Wheel \in 1 .. Wheel - 1
          /\ (timeout[s] - timestamp') % Wheel = ((timeout[s] - timestamp) % Wheel) - 1
      BY <2>1, <2>2, <2>3, <2>5, StepNearer, WheelAssumption
    <3> QED
      BY <1>1, <2>3, <2>5, <3>1 DEF ShortDeadline
  <2> QED
    BY <2>1, <2>4, <2>5
<1>3. ASSUME NEW s \in Sockets PROVE LongDeadline(s)' = LongDeadline(s)
  <2> DEFINE q == global_tick \div Minute
             turn == (long_timeout[s] - long_timestamp) % Wheel
             later == (long_timeout[s] - long_timestamp') % Wheel
  <2>1. long_timeout[s] \in 0 .. Wheel - 1 \cup {Never} /\ long_timeout[s] # long_timestamp
    BY <1>3, WheelAssumption DEF TypeOK, NoneLeftBehind, SweepBegin
  <2>2. long_timestamp \in 0 .. Wheel - 1 /\ Never \notin 0 .. Wheel - 1 /\ q \in Nat
    BY Stamps
  <2>3. CASE long_timeout[s] = Never
    BY <1>1, <2>3 DEF LongDeadline
  <2>4. CASE long_timeout[s] \in 0 .. Wheel - 1
    <3>1. long_timeout[s] # Never /\ long_timeout'[s] = long_timeout[s]
      BY <1>1, <2>2, <2>4
    <3>2. turn \in 1 .. Wheel - 1
      BY <2>1, <2>2, <2>4, StepNearer, WheelAssumption
    <3>3. LongDeadline(s) = (q + turn) * Minute
      BY <3>1, <3>2 DEF LongDeadline
    <3>4. CASE global_tick % Minute # Minute - 1
      <4>1. (global_tick + 1) \div Minute = q
        BY <1>1, <3>4, Successor, WheelAssumption
      <4>2. long_timestamp' = long_timestamp
        BY <1>1, <4>1 DEF long_timestamp
      <4> QED
        BY <1>1, <3>1, <3>2, <4>1, <4>2 DEF LongDeadline
    <3>5. CASE global_tick % Minute = Minute - 1
      <4>1. (global_tick + 1) \div Minute = q + 1 /\ global_tick + 1 = (q + 1) * Minute
        <5>1. (global_tick + 1) \div Minute = q + 1 /\ (global_tick + 1) % Minute = 0
          BY <1>1, <3>5, Successor, WheelAssumption
        <5>2. global_tick + 1 = ((global_tick + 1) \div Minute) * Minute + ((global_tick + 1) % Minute)
          <6>1. global_tick + 1 \in Int
            BY <1>1
          <6> QED
            BY <6>1, Division, WheelAssumption
        <5>3. (q + 1) * Minute \in Int
          BY <2>2, WheelAssumption
        <5> QED
          BY <5>1, <5>2, <5>3
      <4>2. long_timestamp' = IF long_timestamp = Wheel - 1 THEN 0 ELSE long_timestamp + 1
        BY <1>1, <2>2, <4>1, Successor, WheelAssumption DEF long_timestamp
      <4>3. later = turn - 1
        BY <2>1, <2>2, <2>4, <4>2, StepNearer, WheelAssumption
      <4>4. LongDeadline(s)' = IF later = 0 THEN global_tick + 1 ELSE (q + 1 + later) * Minute
        BY <1>1, <3>1, <4>1 DEF LongDeadline
      <4>5. later # 0 => q + 1 + later = q + turn
        BY <2>2, <3>2, <4>3
      <4>6. later = 0 => q + 1 = q + turn
        BY <2>2, <3>2, <4>3
      <4> QED
        BY <3>3, <4>1, <4>4, <4>5, <4>6
    <3> QED
      BY <3>4, <3>5
  <2> QED
    BY <2>1, <2>3, <2>4
<1> QED
  BY <1>2, <1>3 DEF Deadline, Timers

\* Every step of the wheel is a step of Deadlines, or changes no deadline.
LEMMA StepPromise ==
  ASSUME TypeOK, NoneLeftBehind, [Next]_vars
  PROVE  [Promise!Next]_<<global_tick, Deadline>>
<1> USE Stamps
<1>1. ASSUME NEW s \in Sockets, NEW n \in Seconds \cup {0}, SetTimeout(s, n)
      PROVE  Promise!Next
  <2>1. timeout'[s] = IF n = 0 THEN Never ELSE (timestamp + Ticks(n)) % Wheel
    BY <1>1 DEF SetTimeout, TypeOK
  <2>2. /\ UNCHANGED <<global_tick, long_timeout>> /\ timestamp' = timestamp
        /\ \A x \in Sockets : x # s => timeout'[x] = timeout[x]
    BY <1>1 DEF SetTimeout, TypeOK, timestamp
  <2>3. CASE n = 0
    <3>1. ShortDeadline(s)' = -1
      BY <2>1, <2>3 DEF ShortDeadline
    <3>2. Promise!Disarm(<<s, "short">>)
      BY <2>2, <3>1, ShortChanged DEF Promise!Disarm, Promise!None
    <3> QED
      BY <3>2, DeadlineOf DEF Promise!Next
  <2>4. CASE n \in Seconds
    <3>1. n # 0 /\ Ticks(n) \in 1 .. Wheel - 1
      BY <2>4, Turns
    <3>2. /\ timeout'[s] \in 0 .. Wheel - 1
          /\ (timeout'[s] - timestamp) % Wheel = Ticks(n)
      <4>1. /\ (timestamp + Ticks(n)) % Wheel \in 0 .. Wheel - 1
            /\ (((timestamp + Ticks(n)) % Wheel) - timestamp) % Wheel = Ticks(n)
        BY <3>1, ArmedAhead, WheelAssumption
      <4>2. timeout'[s] = (timestamp + Ticks(n)) % Wheel
        BY <2>1, <3>1
      <4> QED
        BY <4>1, <4>2
    <3>3. ShortDeadline(s)' = global_tick + Ticks(n)
      BY <2>2, <3>1, <3>2 DEF ShortDeadline
    <3>4. Promise!Arm(<<s, "short">>, Ticks(n))
      BY <2>2, <3>3, ShortChanged DEF Promise!Arm
    <3>5. Ticks(n) \in 1 .. Wheel * Minute
      <4>1. Wheel * Minute >= Wheel /\ Wheel * Minute \in Nat
        BY WheelAssumption
      <4> QED
        BY <3>1, <4>1, WheelAssumption
    <3> QED
      BY <3>4, <3>5, DeadlineOf DEF Promise!Next
  <2> QED
    BY <2>3, <2>4
<1>2. ASSUME NEW s \in Sockets, NEW n \in Minutes \cup {0}, SetLongTimeout(s, n)
      PROVE  Promise!Next
  <2>1. long_timeout'[s] = IF n = 0 THEN Never ELSE (long_timestamp + n) % Wheel
    BY <1>2 DEF SetLongTimeout, TypeOK
  <2>2. /\ UNCHANGED <<global_tick, timeout>> /\ long_timestamp' = long_timestamp
        /\ \A x \in Sockets : x # s => long_timeout'[x] = long_timeout[x]
    BY <1>2 DEF SetLongTimeout, TypeOK, long_timestamp
  <2>3. CASE n = 0
    <3>1. LongDeadline(s)' = -1
      BY <2>1, <2>3 DEF LongDeadline
    <3>2. Promise!Disarm(<<s, "long">>)
      BY <2>2, <3>1, LongChanged DEF Promise!Disarm, Promise!None
    <3> QED
      BY <3>2, DeadlineOf DEF Promise!Next
  <2>4. CASE n \in Minutes
    <3> DEFINE ahead == (global_tick \div Minute + n) * Minute - global_tick
    <3>1. n # 0 /\ n \in 1 .. Wheel - 1
      BY <2>4, Turns
    <3>2. /\ long_timeout'[s] \in 0 .. Wheel - 1
          /\ (long_timeout'[s] - long_timestamp) % Wheel = n
      <4>1. /\ (long_timestamp + n) % Wheel \in 0 .. Wheel - 1
            /\ (((long_timestamp + n) % Wheel) - long_timestamp) % Wheel = n
        BY <3>1, ArmedAhead, WheelAssumption
      <4>2. long_timeout'[s] = (long_timestamp + n) % Wheel
        BY <2>1, <3>1
      <4> QED
        BY <4>1, <4>2
    <3>3. LongDeadline(s)' = (global_tick \div Minute + n) * Minute
      BY <2>2, <3>1, <3>2 DEF LongDeadline
    <3>4. ahead \in 1 .. Wheel * Minute /\ global_tick + ahead = (global_tick \div Minute + n) * Minute
      BY <3>1, MinutesAhead
    <3> HIDE DEF ahead
    <3>5. Promise!Arm(<<s, "long">>, ahead)
      BY <2>2, <3>3, <3>4, LongChanged DEF Promise!Arm
    <3> QED
      BY <3>4, <3>5, DeadlineOf DEF Promise!Next
  <2> QED
    BY <2>3, <2>4
<1>3. ASSUME NEW s \in Sockets, SweepPass(s)
      PROVE  UNCHANGED <<global_tick, Deadline>>
  BY <1>3 DEF SweepPass, Deadline, ShortDeadline, LongDeadline, timestamp, long_timestamp
<1>4. ASSUME NEW s \in Sockets, SweepShort(s)
      PROVE  [Promise!Next]_<<global_tick, Deadline>>
  <2>1. CASE timeout[s] = timestamp
    <3>1. /\ UNCHANGED <<global_tick, long_timeout>> /\ timeout'[s] = Never
          /\ \A x \in Sockets : x # s => timeout'[x] = timeout[x]
      BY <1>4, <2>1 DEF SweepShort, TypeOK
    <3>2. ShortDeadline(s)' = -1
      BY <3>1 DEF ShortDeadline
    <3>3. Deadline[<<s, "short">>] = global_tick
      BY <2>1, ShortDue, DeadlineOf
    <3>4. Promise!Fire(<<s, "short">>)
      BY <3>1, <3>2, <3>3, ShortChanged DEF Promise!Fire, Promise!None
    <3> QED
      BY <3>4, DeadlineOf DEF Promise!Next
  <2>2. CASE timeout[s] # timestamp
    <3>1. UNCHANGED <<global_tick, timeout, long_timeout>>
      BY <1>4, <2>2 DEF SweepShort, TypeOK
    <3> QED
      BY <3>1 DEF Deadline, ShortDeadline, LongDeadline, timestamp, long_timestamp
  <2> QED
    BY <2>1, <2>2
<1>5. ASSUME SweepBegin
      PROVE  Promise!Next
  <2>1. \A s \in Sockets : timeout[s] # timestamp /\ long_timeout[s] # long_timestamp
    BY <1>5, WheelAssumption DEF SweepBegin, NoneLeftBehind
  <2>2. \A t \in Timers : Deadline[t] # global_tick
    BY <2>1, ShortDue, LongDue, DeadlineOf
  <2>3. Deadline' = Deadline /\ global_tick' = global_tick + 1
    BY <1>5, TickKeepsDeadlines DEF SweepBegin
  <2>4. Promise!Tick
    BY <2>2, <2>3 DEF Promise!Tick
  <2> QED
    BY <2>4 DEF Promise!Next
<1>6. ASSUME SweepLong
      PROVE  [Promise!Next]_<<global_tick, Deadline>>
  <2>1. PICK s \in Sockets : s = visiting
    BY <1>6 DEF SweepLong, TypeOK
  <2>2. CASE long_timeout[s] = long_timestamp
    <3>1. /\ UNCHANGED <<global_tick, timeout>> /\ long_timeout'[s] = Never
          /\ \A x \in Sockets : x # s => long_timeout'[x] = long_timeout[x]
      BY <1>6, <2>1, <2>2 DEF SweepLong, TypeOK
    <3>2. LongDeadline(s)' = -1
      BY <3>1 DEF LongDeadline
    <3>3. Deadline[<<s, "long">>] = global_tick
      BY <2>2, LongDue, DeadlineOf
    <3>4. Promise!Fire(<<s, "long">>)
      BY <3>1, <3>2, <3>3, LongChanged DEF Promise!Fire, Promise!None
    <3> QED
      BY <3>4, DeadlineOf DEF Promise!Next
  <2>3. CASE long_timeout[s] # long_timestamp
    <3>1. UNCHANGED <<global_tick, timeout, long_timeout>>
      BY <1>6, <2>1, <2>3 DEF SweepLong, TypeOK
    <3> QED
      BY <3>1 DEF Deadline, ShortDeadline, LongDeadline, timestamp, long_timestamp
  <2> QED
    BY <2>2, <2>3
<1>7. CASE UNCHANGED vars
  BY <1>7 DEF vars, Deadline, ShortDeadline, LongDeadline, timestamp, long_timestamp
<1> QED
  BY <1>1, <1>2, <1>3, <1>4, <1>5, <1>6, <1>7 DEF Next

(* The two bytes of a socket, compared for equality with the wheels, fire     *)
(* every timer at the tick it was armed for (socket.c:65, loop.c:93).         *)
THEOREM WheelKeepsDeadlines == Spec => KeepsDeadlines
<1>1. Init => TypeOK /\ NoneLeftBehind /\ Promise!Init
  BY InitInvariant, InitPromise
<1>2. (TypeOK /\ NoneLeftBehind) /\ [Next]_vars => (TypeOK /\ NoneLeftBehind)'
  BY StepInvariant
<1>3. TypeOK /\ NoneLeftBehind /\ [Next]_vars => [Promise!Next]_<<global_tick, Deadline>>
  BY StepPromise
<1> QED
  BY <1>1, <1>2, <1>3, PTL DEF Spec, KeepsDeadlines, Promise!Spec

(* us_socket_timeout rounds up to at most three seconds more than it was      *)
(* asked for, and arms the timer for that many ticks ahead (socket.c:67).     *)
THEOREM TimeoutGranularity ==
  ASSUME TypeOK, NEW s \in Sockets, NEW n \in Seconds, SetTimeout(s, n)
  PROVE  4 * (ShortDeadline(s)' - global_tick) \in n .. n + 3
<1>1. n # 0 /\ n \in Nat /\ Ticks(n) \in 1 .. Wheel - 1
  BY Turns, TurnAssumption
<1>2. timeout'[s] = (timestamp + Ticks(n)) % Wheel /\ global_tick' = global_tick /\ timestamp' = timestamp
  BY <1>1 DEF SetTimeout, TypeOK, timestamp
<1>3. timeout'[s] \in 0 .. Wheel - 1 /\ (timeout'[s] - timestamp) % Wheel = Ticks(n)
  <2>1. /\ (timestamp + Ticks(n)) % Wheel \in 0 .. Wheel - 1
        /\ (((timestamp + Ticks(n)) % Wheel) - timestamp) % Wheel = Ticks(n)
    BY <1>1, Stamps, ArmedAhead, WheelAssumption
  <2> QED
    BY <2>1, <1>2
<1>4. ShortDeadline(s)' = global_tick + Ticks(n)
  BY <1>2, <1>3, Stamps DEF ShortDeadline
<1>5. Ticks(n) \in Nat /\ 4 * Ticks(n) \in n .. n + 3
  BY <1>1 DEF Ticks
<1> QED
  BY <1>4, <1>5, Stamps
=============================================================================
