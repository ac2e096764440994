---------------------------- MODULE ClockProofs ----------------------------
(***************************************************************************)
(* The three components that time drives.                                  *)
(*                                                                         *)
(* The session of the LAPI client, for any number of callers and tokens: a *)
(* call never has its request carried out twice, and a token that serves   *)
(* is not thrown away.                                                     *)
(*                                                                         *)
(* The schedule, for any interval, jitter and retry policy and jobs of any *)
(* length: deadlines keep the phase of the first one, and a cycle is       *)
(* followed by a wait for the next deadline ahead.                         *)
(*                                                                         *)
(* The notices the manager may send, for every set of problems and any     *)
(* number of crashes, failed saves and lost answers.                       *)
(***************************************************************************)
EXTENDS LapiClient, Scheduler, Notifications, SequenceTheorems, TLAPS

-----------------------------------------------------------------------------
(* The session of the LAPI client.                                         *)

CallType ==
    [at : {"idle", "ensure", "refresh", "login", "read", "perform"},
     authenticates : BOOLEAN, bearer : Token \cup {NoToken}, retry : BOOLEAN,
     carried : {0, 1}]

\* The inductive invariant: a call that goes on has not been carried out, the
\* mutex belongs to whoever logs in, and meanwhile there is no cached token; a
\* caller that refreshes holds a token that the server refused.
ClientInv ==
    /\ token \in Token \cup {NoToken}
    /\ call \in [Caller -> CallType]
    /\ \A c \in Caller :
        /\ call[c].at # "idle" => call[c].carried = 0
        /\ call[c].at = "login" <=> mu = c
        /\ call[c].at = "refresh" => call[c].bearer \in refused
    /\ mu # Nobody => mu \in Caller /\ token = NoToken

-----------------------------------------------------------------------------

LEMMA ClientInitInv == ClientInit => ClientInv
<1>1. Idle \in CallType
  BY Zenon DEF Idle, CallType
<1>2. QED
  BY <1>1, ClientAssumption DEF ClientInit, ClientInv, Idle

\* A step that only moves caller c on.
LEMMA CallerMoves ==
    ASSUME ClientInv, NEW c \in Caller, NEW k \in CallType,
           call' = [call EXCEPT ![c] = k], token' \in Token \cup {NoToken},
           k.at # "idle" => k.carried = 0,
           k.at = "login" <=> mu' = c, k.at = "refresh" => k.bearer \in refused',
           \A d \in Caller \ {c} : call[d].at = "login" <=> mu' = d,
           \A d \in Caller \ {c} : call[d].bearer \in refused => call[d].bearer \in refused',
           mu' # Nobody => mu' \in Caller /\ token' = NoToken
    PROVE  ClientInv'
<1>1. call' \in [Caller -> CallType]
  BY Zenon DEF ClientInv
<1>2. \A d \in Caller : call'[d] = IF d = c THEN k ELSE call[d]
  BY Zenon DEF ClientInv
<1>3. QED
  BY <1>1, <1>2, Zenon DEF ClientInv

\* Where a call goes once there is a token.
LEMMA HasTokenMoves ==
    ASSUME ClientInv, NEW c \in Caller, HasToken(c)
    PROVE  \E k \in CallType : /\ call' = [call EXCEPT ![c] = k]
                               /\ k.at # "idle" => k.carried = call[c].carried
                               /\ k.at \in {"idle", "read"}
<1>1. call[c] \in CallType /\ call[c].carried \in {0, 1}
  BY Zenon DEF ClientInv, CallType
<1>2. CASE call[c].authenticates
  <2> DEFINE k == [Idle EXCEPT !.carried = call[c].carried]
  <2>1. k \in CallType /\ k.at = "idle"
    BY <1>1, Zenon DEF CallType, Idle
  <2>2. QED
    BY <1>2, <2>1, Zenon DEF HasToken, Return
<1>3. CASE ~call[c].authenticates
  <2> DEFINE k == [call[c] EXCEPT !.at = "read"]
  <2>1. k \in CallType /\ k.at = "read" /\ k.carried = call[c].carried
    BY <1>1, Zenon DEF CallType
  <2>2. call' = [call EXCEPT ![c] = k]
    BY <1>3, Zenon DEF HasToken, ClientInv
  <2>3. QED
    BY <2>1, <2>2, Zenon
<1>4. QED
  BY <1>2, <1>3, Zenon

LEMMA StartLoginInv ==
    ASSUME ClientInv, NEW c \in Caller, call[c].at # "idle", mu = Nobody,
           StartLogin(c), refused' = refused
    PROVE  ClientInv'
<1> DEFINE k == [call[c] EXCEPT !.at = "login"]
<1>1. call[c] \in CallType /\ call[c].carried = 0
  BY Zenon DEF ClientInv
<1>2. k \in CallType /\ k.at = "login" /\ k.carried = 0
  BY <1>1, Zenon DEF CallType
<1>3. call' = [call EXCEPT ![c] = k]
  BY Zenon DEF StartLogin, ClientInv
<1> HIDE DEF k
<1>4. \A d \in Caller \ {c} : call[d].at = "login" <=> mu' = d
  BY ClientAssumption, Zenon DEF ClientInv, StartLogin
<1>5. QED
  BY <1>2, <1>3, <1>4, CallerMoves, Zenon DEF StartLogin

LEMMA NextClientInv == ClientInv /\ [ClientNext]_clientVars => ClientInv'
<1> SUFFICES ASSUME ClientInv, [ClientNext]_clientVars PROVE ClientInv'
  BY Zenon
<1>1. CASE UNCHANGED clientVars \/ ClientTick \/ Revoke
  BY <1>1, Zenon DEF clientVars, ClientTick, Revoke, ClientInv
<1>2. ASSUME NEW c \in Caller, Invoke(c) PROVE ClientInv'
  <2>1. PICK a \in BOOLEAN : call' = [call EXCEPT ![c] =
                                 [Idle EXCEPT !.at = "ensure", !.authenticates = a]]
    BY <1>2, Zenon DEF Invoke
  <2> DEFINE k == [Idle EXCEPT !.at = "ensure", !.authenticates = a]
  <2>2. k \in CallType /\ k.at = "ensure" /\ k.carried = 0
    BY Zenon DEF CallType, Idle
  <2> HIDE DEF k
  <2>3. mu # c
    BY <1>2, Zenon DEF Invoke, ClientInv
  <2>4. QED
    BY <1>2, <2>1, <2>2, <2>3, CallerMoves, Zenon DEF Invoke, ClientInv, k
<1>3. ASSUME NEW c \in Caller, ensureToken(c) PROVE ClientInv'
  <2>1. CASE ~Usable
    BY <1>3, <2>1, StartLoginInv, Zenon DEF ensureToken
  <2>2. CASE Usable
    <3>1. PICK k \in CallType : /\ call' = [call EXCEPT ![c] = k] /\ k.at \in {"idle", "read"}
                                /\ k.at # "idle" => k.carried = call[c].carried
      BY <1>3, <2>2, HasTokenMoves, Zenon DEF ensureToken
    <3>2. k.at # "idle" => k.carried = 0
      BY <1>3, <3>1, Zenon DEF ensureToken, ClientInv
    <3>3. QED
      BY <1>3, <2>2, <3>1, <3>2, CallerMoves, ClientAssumption, Zenon DEF ensureToken, ClientInv
  <2>3. QED
    BY <2>1, <2>2, Zenon
<1>4. ASSUME NEW c \in Caller, refreshRejectedToken(c) PROVE ClientInv'
  <2>1. CASE ~(Usable /\ token # call[c].bearer)
    BY <1>4, <2>1, StartLoginInv, Zenon DEF refreshRejectedToken
  <2>2. CASE Usable /\ token # call[c].bearer
    <3>1. PICK k \in CallType : /\ call' = [call EXCEPT ![c] = k] /\ k.at \in {"idle", "read"}
                                /\ k.at # "idle" => k.carried = call[c].carried
      BY <1>4, <2>2, HasTokenMoves, Zenon DEF refreshRejectedToken
    <3>2. k.at # "idle" => k.carried = 0
      BY <1>4, <3>1, Zenon DEF refreshRejectedToken, ClientInv
    <3>3. QED
      BY <1>4, <2>2, <3>1, <3>2, CallerMoves, ClientAssumption, Zenon DEF refreshRejectedToken, ClientInv
  <2>3. QED
    BY <2>1, <2>2, Zenon
<1>5. ASSUME NEW c \in Caller, loginLocked(c) PROVE ClientInv'
  <2>1. call[c].at = "login" /\ call[c].carried = 0 /\ mu' = Nobody
        /\ \A d \in Caller \ {c} : call[d].at # "login"
    BY <1>5, Zenon DEF loginLocked, ClientInv
  <2>2. \A d \in Caller : call[d].bearer \in refused => call[d].bearer \in refused'
    BY <1>5, Zenon DEF loginLocked, NewToken
  <2>3. token' \in Token \cup {NoToken}
    BY <1>5, Zenon DEF loginLocked, NewToken, ClientInv
  <2>4. \E k \in CallType : /\ call' = [call EXCEPT ![c] = k] /\ k.at \in {"idle", "read"}
                            /\ k.at # "idle" => k.carried = 0
    <3>1. CASE HasToken(c)
      BY <2>1, <3>1, HasTokenMoves, Zenon
    <3>2. CASE Return(c)
      <4>1. [Idle EXCEPT !.carried = call[c].carried] \in CallType
            /\ [Idle EXCEPT !.carried = call[c].carried].at = "idle"
        BY <2>1, Zenon DEF CallType, Idle
      <4>2. QED
        BY <3>2, <4>1, Zenon DEF Return
    <3>3. QED
      BY <1>5, <3>1, <3>2, Zenon DEF loginLocked
  <2>5. QED
    BY <2>1, <2>2, <2>3, <2>4, CallerMoves, ClientAssumption, Zenon
<1>6. ASSUME NEW c \in Caller, currentToken(c) PROVE ClientInv'
  <2> DEFINE k == [call[c] EXCEPT !.at = "perform", !.bearer = token]
  <2>1. call[c] \in CallType /\ call[c].carried = 0 /\ token \in Token \cup {NoToken}
    BY <1>6, Zenon DEF currentToken, ClientInv
  <2>2. k \in CallType /\ k.at = "perform" /\ k.carried = 0
    BY <2>1, Zenon DEF CallType
  <2>3. call' = [call EXCEPT ![c] = k]
    BY <1>6, Zenon DEF currentToken, ClientInv
  <2> HIDE DEF k
  <2>4. QED
    BY <1>6, <2>1, <2>2, <2>3, CallerMoves, ClientAssumption DEF currentToken, ClientInv
<1>7. ASSUME NEW c \in Caller, perform(c) PROVE ClientInv'
  <2>1. PICK out \in Outcome(call[c].bearer) :
           /\ call' = [call EXCEPT ![c] =
                           IF Again(c, out.err)
                           THEN [@ EXCEPT !.at = "refresh", !.retry = TRUE,
                                          !.carried = call[c].carried + out.carried]
                           ELSE [Idle EXCEPT !.carried = call[c].carried + out.carried]]
           /\ refused' = IF out.err = "unauthorized"
                         THEN refused \cup {call[c].bearer} ELSE refused
    BY <1>7, Zenon DEF perform
  <2>2. out.carried \in {0, 1} /\ (out.err = "unauthorized" => out.carried = 0)
    BY DEF Outcome
  <2>3. call[c] \in CallType /\ call[c].carried = 0 /\ call[c].at # "login"
    BY <1>7, Zenon DEF perform, ClientInv
  <2> DEFINE n == call[c].carried + out.carried
             going == [call[c] EXCEPT !.at = "refresh", !.retry = TRUE, !.carried = n]
             gone == [Idle EXCEPT !.carried = n]
             k == IF Again(c, out.err) THEN going ELSE gone
  <2>4. call' = [call EXCEPT ![c] = k]
    BY <2>1, Zenon DEF ClientInv
  <2>5. /\ k \in CallType /\ k.at \in {"idle", "refresh"}
        /\ k.at # "idle" => k.carried = 0
        /\ k.at = "refresh" => k.bearer = call[c].bearer /\ out.err = "unauthorized"
    <3>1. n \in {0, 1} /\ (Again(c, out.err) => n = 0 /\ out.err = "unauthorized")
      BY <2>2, <2>3 DEF Again, isUnauthorized
    <3> HIDE DEF n
    <3>2. gone \in CallType /\ gone.at = "idle"
      BY <3>1, Zenon DEF CallType, Idle
    <3>3. /\ going \in CallType /\ going.at = "refresh" /\ going.carried = n
          /\ going.bearer = call[c].bearer
      BY <2>3, <3>1, Zenon DEF CallType
    <3> HIDE DEF going, gone
    <3>4. QED
      BY <3>1, <3>2, <3>3, Zenon
  <2> HIDE DEF k
  <2>6. /\ \A d \in Caller : call[d].bearer \in refused => call[d].bearer \in refused'
        /\ k.at = "refresh" => k.bearer \in refused'
    BY <2>1, <2>5, Zenon
  <2>7. mu' = mu /\ token' = token
    BY <1>7, Zenon DEF perform
  <2>8. /\ token' \in Token \cup {NoToken} /\ k.at # "login" /\ mu' # c
        /\ \A d \in Caller \ {c} : call[d].at = "login" <=> mu' = d
        /\ mu' # Nobody => mu' \in Caller /\ token' = NoToken
    BY <2>3, <2>5, <2>7, Zenon DEF ClientInv
  <2>9. QED
    BY <2>4, <2>5, <2>6, <2>8, CallerMoves, Zenon
<1>8. QED
  BY <1>1, <1>2, <1>3, <1>4, <1>5, <1>6, <1>7, Zenon DEF ClientNext, Step

LEMMA ClientInvariant == ClientSpec => []ClientInv
BY ClientInitInv, NextClientInv, PTL DEF ClientSpec

\* No request is carried out twice by one call, for any callers, tokens and
\* answers of the server: authenticated repeats after a 401 alone.
THEOREM AtMostOnceThm == ClientSpec => []AtMostOnce
<1>1. ASSUME ClientInv, NEW c \in Caller PROVE call[c].carried <= 1
  <2>1. call[c] \in CallType
    BY <1>1, Zenon DEF ClientInv
  <2>2. call[c].carried \in {0, 1}
    BY <2>1, Zenon DEF CallType
  <2>3. QED
    BY <2>2
<1>2. ClientInv => AtMostOnce
  BY <1>1, Zenon DEF AtMostOnce
<1>3. QED
  BY <1>2, ClientInvariant, PTL

\* A token is given up only when it is about to expire or was itself rejected:
\* refreshRejectedToken compares it with the one the caller had used.
THEOREM GoodTokenKeptThm == ClientSpec => GoodTokenKept
<1> DEFINE A == token # NoToken /\ token' # token => ~Usable \/ token \in refused
<1>1. ASSUME ClientInv, ClientNext PROVE A
  <2> SUFFICES ASSUME token # NoToken, token' # token PROVE ~Usable \/ token \in refused
    BY Zenon
  <2>1. PICK c \in Caller : ensureToken(c) \/ refreshRejectedToken(c) \/ loginLocked(c)
    BY <1>1, Zenon DEF ClientNext, Step, ClientTick, Revoke, Invoke, currentToken, perform
  <2>2. CASE ensureToken(c)
    BY <2>2, Zenon DEF ensureToken
  <2>3. CASE refreshRejectedToken(c)
    BY <1>1, <2>3, Zenon DEF refreshRejectedToken, ClientInv
  <2>4. CASE loginLocked(c)
    BY <1>1, <2>4, ClientAssumption, Zenon DEF loginLocked, ClientInv
  <2>5. QED
    BY <2>1, <2>2, <2>3, <2>4, Zenon
<1>2. ClientInv /\ [ClientNext]_clientVars => [A]_clientVars
  BY <1>1, Zenon
<1>3. QED
  BY <1>2, ClientInvariant, PTL DEF ClientSpec, GoodTokenKept

-----------------------------------------------------------------------------
(* The scheduler.                                                          *)

\* How late a job may be: each backoff adds at most MaxBackoff.
Lateness(failed) == MaxLag + failed * MaxBackoff

\* A job starts at its deadline or later, never before it, and how much later
\* is bounded by the attempts that were made.  Neither is visible in Anchored
\* or NoReplay, and NextDeadline needs both.
Late ==
    /\ phase = "waiting" => attempt = 0 /\ left <= timer /\ left - timer >= -MaxLag
    /\ phase = "job" => /\ attempt \in 1..MaxAttempts /\ timer = 0 /\ left <= 0
                        /\ left >= -Lateness(attempt - 1)
    /\ phase = "backoff" => /\ attempt \in 1..(MaxAttempts - 1) /\ left <= 0
                            /\ left - timer >= -Lateness(attempt)

\* The deadline is a whole number of intervals from the first one.
InPhase == \E q \in Int : clock + left = anchor + q * Interval

SchedulerInv == SchedulerTypeOK /\ Late /\ InPhase

-----------------------------------------------------------------------------
(* Arithmetic.                                                             *)

\* Remainder and quotient.
LEMMA Remainder ==
    ASSUME NEW n \in Nat \ {0}, NEW r \in 0..(n - 1), NEW q \in Int
    PROVE  (r + q * n) % n = r
  OBVIOUS

\* Division with the remainder, by a positive number.
LEMMA Quotient ==
    ASSUME NEW a \in Nat, NEW n \in Nat \ {0}
    PROVE  /\ a % n \in 0..(n - 1) /\ a \div n \in Nat
           /\ a = (a % n) + (a \div n) * n
  OBVIOUS

\* Lateness grows by one backoff with each failed attempt.
LEMMA LatenessGrows ==
    ASSUME NEW a \in Nat
    PROVE  /\ Lateness(a) \in Nat /\ MaxBehind \in Nat /\ MaxLag \in Nat
           /\ Lateness(a + 1) = Lateness(a) + MaxBackoff
           /\ Lateness(0) = MaxLag /\ MaxLag <= Lateness(a)
           /\ a <= MaxAttempts => Lateness(a) <= MaxBehind
<1>1. MaxBackoff \in Nat /\ MaxLag \in Nat /\ MaxAttempts \in Nat
  BY SchedulerAssumption
<1>2. a * MaxBackoff \in Nat /\ (a + 1) * MaxBackoff = a * MaxBackoff + MaxBackoff
  BY <1>1
<1>3. MaxAttempts * MaxBackoff \in Nat
  BY <1>1
<1>4. a <= MaxAttempts => a * MaxBackoff <= MaxAttempts * MaxBackoff
  BY <1>1
<1>5. 0 * MaxBackoff = 0
  BY <1>1
<1> QED
  BY <1>1, <1>2, <1>3, <1>4, <1>5 DEF Lateness, MaxBehind

\* retryDelay: doubling stops at MaxBackoff.
LEMMA DelayBounded ==
    \A n \in 1..MaxAttempts : delay[n] \in 0..MaxBackoff
<1> DEFINE Bound == 0..MaxBackoff
           twice(d) == IF d > MaxBackoff \div 2 THEN MaxBackoff ELSE d * 2
           body(f) == [n \in 1..MaxAttempts |->
                        IF n = 1 THEN InitialBackoff ELSE twice(f[n - 1])]
<1>1. InitialBackoff \in Bound /\ MaxAttempts \in 1..10 /\ MaxBackoff \in Nat
  BY SchedulerAssumption
<1>2. \A d \in Bound : twice(d) \in Bound
  <2> SUFFICES ASSUME NEW d \in Bound PROVE twice(d) \in Bound
    BY Zenon
  <2>1. MaxBackoff = (MaxBackoff % 2) + (MaxBackoff \div 2) * 2
        /\ MaxBackoff \div 2 \in Nat /\ MaxBackoff % 2 \in Nat
    BY <1>1, Quotient
  <2>2. QED
    BY <1>1, <2>1
<1> DEFINE d2 == twice(InitialBackoff)
           d3 == twice(d2)
           d4 == twice(d3)
           d5 == twice(d4)
           d6 == twice(d5)
           d7 == twice(d6)
           d8 == twice(d7)
           d9 == twice(d8)
           d10 == twice(d9)
           nth(n) == CASE n = 1 -> InitialBackoff [] n = 2 -> d2 [] n = 3 -> d3
                       [] n = 4 -> d4 [] n = 5 -> d5 [] n = 6 -> d6 [] n = 7 -> d7
                       [] n = 8 -> d8 [] n = 9 -> d9 [] n = 10 -> d10
           g == [n \in 1..MaxAttempts |-> nth(n)]
<1>3. g = body(g)
  <2> HIDE DEF twice
  <2>1. ASSUME NEW n \in 1..MaxAttempts
        PROVE  g[n] = IF n = 1 THEN InitialBackoff ELSE twice(g[n - 1])
    <3>1. n \in 1..10 /\ (n # 1 => n - 1 \in 1..MaxAttempts)
      BY <1>1
    <3>2. QED
      BY <3>1
  <2> HIDE DEF nth
  <2>2. g = [n \in 1..MaxAttempts |-> g[n]]
    BY Zenon
  <2> HIDE DEF g
  <2>3. QED
    BY <2>1, <2>2, Zenon
<1>4. delay = CHOOSE f : f = body(f)
  BY Zenon DEF delay
<1> HIDE DEF g
<1>5. delay = body(delay)
  <2> HIDE DEF body
  <2>1. QED
    BY <1>3, <1>4, Zenon
<1> HIDE DEF twice
<1>6. /\ delay[1] \in Bound
      /\ \A n \in 2..MaxAttempts : delay[n - 1] \in Bound => delay[n] \in Bound
  <2>1. \A n \in 1..MaxAttempts :
            delay[n] = IF n = 1 THEN InitialBackoff ELSE twice(delay[n - 1])
    BY <1>5, Zenon
  <2>2. QED
    BY <1>1, <1>2, <2>1
<1> HIDE DEF Bound
<1>7. \A n \in 1..10 : n <= MaxAttempts => delay[n] \in Bound
  <2>1. /\ 2 <= MaxAttempts => delay[2] \in Bound
        /\ 3 <= MaxAttempts => delay[3] \in Bound
    BY <1>1, <1>6
  <2>2. /\ 4 <= MaxAttempts => delay[4] \in Bound
        /\ 5 <= MaxAttempts => delay[5] \in Bound
    BY <1>1, <1>6, <2>1
  <2>3. /\ 6 <= MaxAttempts => delay[6] \in Bound
        /\ 7 <= MaxAttempts => delay[7] \in Bound
    BY <1>1, <1>6, <2>2
  <2>4. /\ 8 <= MaxAttempts => delay[8] \in Bound
        /\ 9 <= MaxAttempts => delay[9] \in Bound
        /\ 10 <= MaxAttempts => delay[10] \in Bound
    BY <1>1, <1>6, <2>3
  <2>5. QED
    BY <1>6, <2>1, <2>2, <2>3, <2>4
<1> QED
  BY <1>1, <1>7 DEF Bound

\* NextDeadline of a deadline that has passed is the first one ahead.
LEMMA NextIsAhead ==
    ASSUME left \in (-MaxBehind)..0
    PROVE  \E k \in Nat : NextDeadline = left + k * Interval
                          /\ NextDeadline \in 1..Interval
<1> DEFINE steps == 1..(MaxBehind \div Interval + 2)
           k == (-left) \div Interval + 1
           First(i) == /\ left + i * Interval > 0
                       /\ \A j \in steps : j < i => left + j * Interval <= 0
<1>1. Interval \in Nat \ {0} /\ MaxBehind \in Nat /\ left \in Int /\ -left \in Nat
      /\ -left <= MaxBehind
  BY SchedulerAssumption, LatenessGrows
<1>2. /\ (-left) % Interval \in 0..(Interval - 1) /\ (-left) \div Interval \in Nat
      /\ -left = ((-left) % Interval) + ((-left) \div Interval) * Interval
  BY <1>1, Quotient, Zenon
<1>3. /\ MaxBehind % Interval \in 0..(Interval - 1) /\ MaxBehind \div Interval \in Nat
      /\ MaxBehind = (MaxBehind % Interval) + (MaxBehind \div Interval) * Interval
  BY <1>1, Quotient, Zenon
<1>4. k \in Nat \ {0} /\ k * Interval = ((-left) \div Interval) * Interval + Interval
  BY <1>1, <1>2
<1>5. left + k * Interval \in 1..Interval
  BY <1>1, <1>2, <1>4
<1>6. k \in steps
  <2> DEFINE a == (-left) \div Interval
             b == MaxBehind \div Interval
  <2>1. a * Interval <= b * Interval + (Interval - 1) /\ a \in Nat /\ b \in Nat
    BY <1>1, <1>2, <1>3
  <2> HIDE DEF a, b
  <2>2. a <= b
    <3>1. SUFFICES ASSUME a >= b + 1 PROVE FALSE
      BY <2>1
    <3>2. a * Interval >= (b + 1) * Interval
      BY <3>1, <2>1, <1>1
    <3>3. (b + 1) * Interval = b * Interval + Interval /\ b * Interval \in Nat
      BY <2>1, <1>1
    <3>4. QED
      BY <3>2, <3>3, <2>1, <1>1
  <2>3. QED
    BY <2>1, <2>2 DEF a, b
<1> HIDE DEF k
<1>7. First(k)
  <2>1. ASSUME NEW j \in steps, j < k PROVE left + j * Interval <= 0
    <3>1. j \in Nat /\ j + 1 <= k
      BY <1>1, <1>3, <1>4, <2>1
    <3>2. (j + 1) * Interval <= k * Interval
      BY <3>1, <1>1, <1>4
    <3>3. (j + 1) * Interval = j * Interval + Interval /\ j * Interval \in Nat
      BY <3>1, <1>1
    <3>4. QED
      BY <3>2, <3>3, <1>1, <1>4, <1>5
  <2>2. QED
    BY <1>1, <1>4, <1>5, <2>1
<1>8. ASSUME NEW i \in steps, First(i) PROVE i = k
  <2>1. i \in Nat /\ k \in Nat
    BY <1>1, <1>3, <1>4
  <2>2. ~(i < k)
    BY <1>1, <1>7, <1>8, <2>1
  <2>3. ~(k < i)
    <3>1. SUFFICES ASSUME k < i PROVE FALSE
      BY Zenon
    <3>2. left + k * Interval <= 0 /\ left + k * Interval \in 1..Interval
      BY <1>5, <1>6, <1>8, <3>1, Zenon
    <3>3. QED
      BY <3>2, <1>1
  <2>4. QED
    BY <2>1, <2>2, <2>3
<1>9. (CHOOSE i \in steps : First(i)) = k
  <2> HIDE DEF First, steps
  <2>1. QED
    BY <1>6, <1>7, <1>8, Zenon
<1>10. NextDeadline = left + (CHOOSE i \in steps : First(i)) * Interval
  BY Zenon DEF NextDeadline
<1> QED
  BY <1>4, <1>5, <1>9, <1>10, Zenon

-----------------------------------------------------------------------------
(* The invariant.                                                          *)

\* The first deadline defines the phase.
LEMMA SchedulerInitInv == ASSUME SchedulerInit PROVE SchedulerInv
<1>1. PICK jitter \in 0..StartupJitter :
            /\ timer = jitter + (IF RunImmediately THEN 0 ELSE Interval)
            /\ left = timer /\ anchor = timer % Interval
  BY Zenon DEF SchedulerInit
<1>2. phase = "waiting" /\ attempt = 0 /\ clock = 0
      /\ cancelled = FALSE /\ invalid = FALSE
  BY Zenon DEF SchedulerInit
<1>3. Interval \in Nat \ {0} /\ StartupJitter \in Nat /\ MaxAttempts \in Nat
      /\ MaxLag \in Nat /\ MaxBehind \in Nat
  BY SchedulerAssumption, LatenessGrows
<1>4. timer \in 0..(Interval + StartupJitter)
  BY <1>1, <1>3
<1>5. /\ anchor \in 0..(Interval - 1) /\ timer \div Interval \in Nat
      /\ timer = anchor + (timer \div Interval) * Interval
  <2>1. timer \in Nat
    BY <1>3, <1>4
  <2>2. QED
    BY <1>1, <1>3, <2>1, Quotient, Zenon
<1>6. SchedulerTypeOK
  <2>1. left \in (-MaxBehind)..(Interval + StartupJitter)
        /\ attempt \in 0..MaxAttempts /\ clock \in 0..(Interval - 1)
    BY <1>1, <1>2, <1>3, <1>4
  <2>2. cancelled \in BOOLEAN /\ invalid \in BOOLEAN
    BY <1>2, Zenon
  <2>3. timer \in 0..(IF phase = "backoff" THEN MaxBackoff
                      ELSE Interval + StartupJitter)
    BY <1>2, <1>4, Zenon
  <2>4. QED
    BY <1>2, <1>5, <2>1, <2>2, <2>3, Zenon DEF SchedulerTypeOK
<1>7. Late
  BY <1>1, <1>2, <1>3, <1>4 DEF Late
<1>8. InPhase
  BY <1>1, <1>2, <1>4, <1>5 DEF InPhase
<1> QED
  BY <1>6, <1>7, <1>8, Zenon DEF SchedulerInv

\* What the type invariant and the bounds on lateness say together.
LEMMA Bounds ==
    ASSUME SchedulerInv
    PROVE  /\ Interval \in Nat \ {0} /\ StartupJitter \in Nat /\ MaxBackoff \in Nat
           /\ MaxAttempts \in Nat /\ MaxLag \in Nat /\ MaxBehind \in Nat
           /\ left \in Int /\ timer \in Nat /\ attempt \in Nat
           /\ clock \in 0..(Interval - 1) /\ anchor \in 0..(Interval - 1)
           /\ phase \in {"job", "backoff"} => left \in (-MaxBehind)..0
<1>1. Interval \in Nat \ {0} /\ StartupJitter \in Nat /\ MaxBackoff \in Nat
      /\ MaxAttempts \in Nat /\ MaxLag \in Nat /\ MaxBehind \in Nat
  BY SchedulerAssumption, LatenessGrows
<1>2. /\ left \in (-MaxBehind)..(Interval + StartupJitter)
      /\ timer \in Nat /\ attempt \in Nat
      /\ clock \in 0..(Interval - 1) /\ anchor \in 0..(Interval - 1)
  BY <1>1 DEF SchedulerInv, SchedulerTypeOK
<1>3. phase \in {"job", "backoff"} => left <= 0
  BY Zenon DEF SchedulerInv, Late
<1> QED
  BY <1>1, <1>2, <1>3

\* The end of a cycle arms the timer for the next deadline ahead, in phase.
LEMMA EndCycleInv ==
    ASSUME SchedulerInv, phase \in {"job", "backoff"}, EndCycle,
           UNCHANGED <<clock, anchor, cancelled, invalid>>
    PROVE  SchedulerInv' /\ left' \in 1..Interval /\ timer' = left'
<1>1. /\ Interval \in Nat \ {0} /\ StartupJitter \in Nat
      /\ MaxAttempts \in Nat /\ MaxLag \in Nat /\ MaxBehind \in Nat
      /\ left \in (-MaxBehind)..0 /\ clock \in Int /\ anchor \in Int
  BY Bounds
<1>2. PICK k \in Nat : NextDeadline = left + k * Interval
                       /\ NextDeadline \in 1..Interval
  BY <1>1, NextIsAhead, Zenon
<1> DEFINE next == NextDeadline
<1>3. left' = next /\ next \in 1..Interval /\ next = left + k * Interval
  BY <1>2, Zenon DEF EndCycle
<1> HIDE DEF next
<1>4. timer' = next /\ phase' = "waiting" /\ attempt' = 0
  BY <1>1, <1>3 DEF EndCycle
<1>5. SchedulerTypeOK'
  <2>1. next \in (-MaxBehind)..(Interval + StartupJitter)
        /\ next \in 0..(Interval + StartupJitter)
    BY <1>1, <1>3
  <2>2. QED
    BY <1>1, <1>3, <1>4, <2>1 DEF SchedulerInv, SchedulerTypeOK
<1>6. Late'
  <2>1. next <= next /\ next - next >= -MaxLag
    BY <1>1, <1>3
  <2>2. QED
    BY <1>3, <1>4, <2>1, Zenon DEF Late
<1>7. InPhase'
  <2>1. PICK q \in Int : clock + left = anchor + q * Interval
    BY Zenon DEF SchedulerInv, InPhase
  <2>2. clock + next = anchor + (q + k) * Interval /\ q + k \in Int
    BY <1>1, <1>3, <2>1
  <2>3. QED
    BY <1>3, <2>2, Zenon DEF InPhase
<1> QED
  BY <1>3, <1>4, <1>5, <1>6, <1>7, Zenon DEF SchedulerInv

\* Time takes from the wait and from the deadline alike, and moves the clock.
LEMMA TickInv == ASSUME SchedulerInv, Tick PROVE SchedulerInv'
<1>1. /\ Interval \in Nat \ {0} /\ StartupJitter \in Nat /\ MaxBackoff \in Nat
      /\ MaxAttempts \in Nat /\ MaxLag \in Nat /\ MaxBehind \in Nat
      /\ left \in Int /\ timer \in Nat /\ attempt \in Nat
      /\ clock \in 0..(Interval - 1) /\ anchor \in 0..(Interval - 1)
  BY Bounds, Zenon
<1>2. /\ phase # "stopped" /\ (timer > 0 \/ left > -MaxLag)
      /\ UNCHANGED <<phase, attempt, anchor, cancelled, invalid>>
  BY Zenon DEF Tick
<1> DEFINE l == left - 1
           t == IF timer > 0 THEN timer - 1 ELSE 0
           c == (clock + 1) % Interval
<1>3. left' = l /\ timer' = t /\ clock' = c
  BY Zenon DEF Tick
<1>4. l \in Int /\ t \in Nat /\ l = left - 1 /\ t = IF timer > 0 THEN timer - 1 ELSE 0
  BY <1>1
<1>5. c \in 0..(Interval - 1) /\ \E s \in Int : clock + 1 = c + s * Interval
  <2>1. clock + 1 \in Nat
    BY <1>1
  <2>2. /\ c \in 0..(Interval - 1) /\ (clock + 1) \div Interval \in Nat
        /\ clock + 1 = c + ((clock + 1) \div Interval) * Interval
    BY <1>1, <2>1, Quotient, Zenon
  <2> HIDE DEF c
  <2>3. QED
    BY <2>2
<1> HIDE DEF l, t, c
<1>6. phase = "waiting" => l <= t /\ l - t >= -MaxLag
  BY <1>1, <1>2, <1>4 DEF SchedulerInv, Late
<1>7. phase = "job" => t = 0 /\ l <= 0 /\ l >= -Lateness(attempt - 1)
  <2>1. SUFFICES ASSUME phase = "job"
                 PROVE  t = 0 /\ l <= 0 /\ l >= -Lateness(attempt - 1)
    BY Zenon
  <2>2. timer = 0 /\ left <= 0 /\ attempt - 1 \in Nat
    BY <2>1, <1>1 DEF SchedulerInv, Late
  <2>3. MaxLag <= Lateness(attempt - 1) /\ Lateness(attempt - 1) \in Nat
    BY <2>2, LatenessGrows, Zenon
  <2>4. QED
    BY <1>1, <1>2, <1>4, <2>2, <2>3
<1>8. phase = "backoff" => l <= 0 /\ l - t >= -Lateness(attempt)
  <2>1. SUFFICES ASSUME phase = "backoff"
                 PROVE  l <= 0 /\ l - t >= -Lateness(attempt)
    BY Zenon
  <2>2. left <= 0 /\ left - timer >= -Lateness(attempt)
    BY <2>1, Zenon DEF SchedulerInv, Late
  <2>3. MaxLag <= Lateness(attempt) /\ Lateness(attempt) \in Nat
    BY <1>1, LatenessGrows, Zenon
  <2>4. QED
    BY <1>1, <1>2, <1>4, <2>2, <2>3
<1>9. Late'
  BY <1>2, <1>3, <1>6, <1>7, <1>8, Zenon DEF SchedulerInv, Late
<1>10. l \in (-MaxBehind)..(Interval + StartupJitter)
  <2>1. left \in (-MaxBehind)..(Interval + StartupJitter)
    BY Zenon DEF SchedulerInv, SchedulerTypeOK
  <2>2. l >= -MaxBehind
    <3>1. CASE phase = "waiting"
      BY <3>1, <1>1, <1>4, <1>6, LatenessGrows, 0 \in Nat
    <3>2. CASE phase = "job"
      <4>1. attempt - 1 \in Nat /\ attempt - 1 <= MaxAttempts
        BY <3>2, <1>1 DEF SchedulerInv, Late
      <4>2. Lateness(attempt - 1) <= MaxBehind /\ Lateness(attempt - 1) \in Nat
        BY <4>1, LatenessGrows, Zenon
      <4>3. QED
        BY <3>2, <4>2, <1>1, <1>4, <1>7
    <3>3. CASE phase = "backoff"
      <4>1. attempt \in Nat /\ attempt <= MaxAttempts
        BY <3>3, <1>1 DEF SchedulerInv, Late
      <4>2. Lateness(attempt) <= MaxBehind /\ Lateness(attempt) \in Nat
        BY <4>1, LatenessGrows, Zenon
      <4>3. QED
        BY <3>3, <4>2, <1>1, <1>4, <1>8
    <3>4. QED
      BY <1>2, <3>1, <3>2, <3>3, Zenon DEF SchedulerInv, SchedulerTypeOK
  <2>3. QED
    BY <1>1, <1>4, <2>1, <2>2
<1>11. SchedulerTypeOK'
  <2>1. t \in 0..(IF phase = "backoff" THEN MaxBackoff ELSE Interval + StartupJitter)
    BY <1>1, <1>4 DEF SchedulerInv, SchedulerTypeOK
  <2>2. QED
    BY <1>2, <1>3, <1>5, <1>10, <2>1, Zenon DEF SchedulerInv, SchedulerTypeOK
<1>12. InPhase'
  <2>1. PICK q \in Int : clock + left = anchor + q * Interval
    BY Zenon DEF SchedulerInv, InPhase
  <2>2. PICK s \in Int : clock + 1 = c + s * Interval
    BY <1>5, Zenon
  <2>3. c + l = anchor + (q - s) * Interval /\ q - s \in Int
    BY <1>1, <1>4, <1>5, <2>1, <2>2
  <2>4. QED
    BY <1>2, <1>3, <2>3, Zenon DEF InPhase
<1> QED
  BY <1>9, <1>11, <1>12, Zenon DEF SchedulerInv

\* A timer fires at the deadline or after it, in a backoff by how much the
\* attempts allow.
LEMMA TimerFiresInv == ASSUME SchedulerInv, TimerFires PROVE SchedulerInv'
<1>1. /\ phase \in {"waiting", "backoff"} /\ timer = 0
      /\ phase' = "job" /\ attempt' = attempt + 1
      /\ UNCHANGED <<left, timer, clock, anchor, cancelled, invalid>>
  BY Zenon DEF TimerFires
<1>2. /\ Interval \in Nat \ {0} /\ StartupJitter \in Nat
      /\ MaxAttempts \in Nat /\ MaxLag \in Nat /\ left \in Int /\ attempt \in Nat
  BY Bounds, Zenon
<1>3. MaxAttempts \in 1..10
  BY SchedulerAssumption, Zenon
<1> DEFINE n == attempt + 1
<1>4. n \in 1..MaxAttempts /\ n - 1 = attempt /\ left <= 0
  BY <1>1, <1>2, <1>3 DEF SchedulerInv, Late
<1>5. left >= -Lateness(attempt)
  <2>1. Lateness(attempt) \in Nat /\ Lateness(0) = MaxLag
    BY <1>2, LatenessGrows, Zenon
  <2>2. QED
    BY <1>1, <1>2, <2>1 DEF SchedulerInv, Late
<1> HIDE DEF n
<1>6. attempt' = n
  BY <1>1, Zenon DEF n
<1>7. SchedulerTypeOK'
  <2>1. timer' \in 0..(Interval + StartupJitter) /\ n \in 0..MaxAttempts
    BY <1>1, <1>2, <1>4
  <2>2. QED
    BY <1>1, <1>6, <2>1, Zenon DEF SchedulerInv, SchedulerTypeOK
<1>8. Late'
  BY <1>1, <1>4, <1>5, <1>6, Zenon DEF Late
<1>9. InPhase'
  BY <1>1, Zenon DEF SchedulerInv, InPhase
<1> QED
  BY <1>7, <1>8, <1>9, Zenon DEF SchedulerInv

\* A backoff is never longer than MaxBackoff.
LEMMA JobRetriesInv == ASSUME SchedulerInv, JobRetries PROVE SchedulerInv'
<1>1. /\ phase = "job" /\ attempt < MaxAttempts
      /\ phase' = "backoff" /\ timer' = retryDelay(attempt)
      /\ UNCHANGED <<left, attempt, clock, anchor, cancelled, invalid>>
  BY Zenon DEF JobRetries
<1>2. MaxAttempts \in Nat /\ MaxBackoff \in Nat /\ left \in Int
  BY Bounds, Zenon
<1>3. attempt \in 1..(MaxAttempts - 1) /\ left <= 0 /\ left >= -Lateness(attempt - 1)
  BY <1>1, <1>2 DEF SchedulerInv, Late
<1> DEFINE t == retryDelay(attempt)
<1>4. t \in 0..MaxBackoff
  BY <1>2, <1>3, DelayBounded DEF retryDelay
<1> HIDE DEF t
<1>5. timer' = t
  BY <1>1, Zenon DEF t
<1>6. left - t >= -Lateness(attempt)
  <2>1. attempt - 1 \in Nat /\ (attempt - 1) + 1 = attempt
    BY <1>2, <1>3
  <2>2. /\ Lateness(attempt - 1) \in Nat
        /\ Lateness(attempt) = Lateness(attempt - 1) + MaxBackoff
    BY <2>1, LatenessGrows, Zenon
  <2>3. QED
    BY <1>2, <1>3, <1>4, <2>2
<1>7. SchedulerTypeOK'
  BY <1>1, <1>4, <1>5, Zenon DEF SchedulerInv, SchedulerTypeOK
<1>8. Late'
  BY <1>1, <1>3, <1>5, <1>6, Zenon DEF Late
<1>9. InPhase'
  BY <1>1, Zenon DEF SchedulerInv, InPhase
<1> QED
  BY <1>7, <1>8, <1>9, Zenon DEF SchedulerInv

\* Every step keeps the invariant, and one that ends a cycle waits for the next
\* deadline ahead.
LEMMA SchedulerNextInv ==
    ASSUME SchedulerInv, [SchedulerNext]_vars
    PROVE  /\ SchedulerInv'
           /\ (phase \in {"job", "backoff"}) /\ phase' = "waiting" =>
                left' \in 1..Interval /\ timer' = left'
<1> DEFINE Ahead == (phase \in {"job", "backoff"}) /\ phase' = "waiting" =>
                        left' \in 1..Interval /\ timer' = left'
<1>1. CASE TimerFires
  <2>1. phase' = "job"
    BY <1>1, Zenon DEF TimerFires
  <2>2. QED
    BY <1>1, <2>1, TimerFiresInv, Zenon
<1>2. CASE JobEnds
  BY <1>2, EndCycleInv, Zenon DEF JobEnds
<1>3. CASE JobRetries
  <2>1. phase' = "backoff"
    BY <1>3, Zenon DEF JobRetries
  <2>2. QED
    BY <1>3, <2>1, JobRetriesInv, Zenon
<1>4. CASE Tick
  <2>1. phase' = phase
    BY <1>4, Zenon DEF Tick
  <2>2. QED
    BY <1>4, <2>1, TickInv, Zenon
<1>5. CASE ContextDone /\ phase = "backoff"
  <2>1. EndCycle /\ UNCHANGED <<clock, anchor, cancelled, invalid>>
    BY <1>5, Zenon DEF ContextDone
  <2>2. QED
    BY <1>5, <2>1, EndCycleInv, Zenon
<1>6. ASSUME /\ UNCHANGED <<left, timer, attempt, clock, anchor>>
             /\ cancelled' \in BOOLEAN /\ invalid' \in BOOLEAN
             /\ phase' = phase \/ (phase \in {"waiting", "job"} /\ phase' = "stopped")
      PROVE  SchedulerInv' /\ Ahead
  <2>1. SchedulerTypeOK'
    BY <1>6, Zenon DEF SchedulerInv, SchedulerTypeOK
  <2>2. Late'
    BY <1>6, Zenon DEF SchedulerInv, Late
  <2>3. InPhase'
    BY <1>6, Zenon DEF SchedulerInv, InPhase
  <2>4. QED
    BY <1>6, <2>1, <2>2, <2>3, Zenon DEF SchedulerInv
<1>7. cancelled \in BOOLEAN /\ invalid \in BOOLEAN
  BY Zenon DEF SchedulerInv, SchedulerTypeOK
<1>8. CASE ContextDone /\ phase # "backoff"
  BY <1>6, <1>7, <1>8, Zenon DEF ContextDone
<1>9. CASE JobInvalid
  BY <1>6, <1>7, <1>9, Zenon DEF JobInvalid
<1>10. CASE Cancel
  BY <1>6, <1>7, <1>10, Zenon DEF Cancel
<1>11. CASE Stopped \/ UNCHANGED vars
  BY <1>6, <1>7, <1>11, Zenon DEF Stopped, vars
<1> QED
  BY <1>1, <1>2, <1>3, <1>4, <1>5, <1>8, <1>9, <1>10, <1>11, Zenon DEF SchedulerNext

\* The inductive invariant always holds.
LEMMA SchedulerInvariant == SchedulerSpec => []SchedulerInv
<1>1. SchedulerInit => SchedulerInv
  BY SchedulerInitInv, Zenon
<1>2. SchedulerInv /\ [SchedulerNext]_vars => SchedulerInv'
  BY SchedulerNextInv, Zenon
<1> QED
  BY <1>1, <1>2, PTL DEF SchedulerSpec

-----------------------------------------------------------------------------
(* Theorems.                                                               *)

\* Anchored: jobs, retries and cancellation of any length never shift the phase
\* of the deadlines.
THEOREM AnchoredThm == SchedulerSpec => []Anchored
<1>1. SchedulerInv => Anchored
  <2> SUFFICES ASSUME SchedulerInv PROVE (clock + left) % Interval = anchor
    BY Zenon DEF Anchored
  <2>1. PICK q \in Int : clock + left = anchor + q * Interval
    BY Zenon DEF SchedulerInv, InPhase
  <2>2. QED
    BY <2>1, Bounds, Remainder, Zenon
<1> QED
  BY <1>1, SchedulerInvariant, PTL

\* NoReplay: a cycle is followed by a wait for a deadline still ahead, at most
\* an interval away, however many deadlines it missed.
THEOREM NoReplayThm == SchedulerSpec => NoReplay
<1>1. SchedulerInv /\ [SchedulerNext]_vars =>
        [(phase \in {"job", "backoff"}) /\ phase' = "waiting" =>
            left' \in 1..Interval /\ timer' = left']_vars
  BY SchedulerNextInv, Zenon
<1> QED
  BY <1>1, SchedulerInvariant, PTL DEF SchedulerSpec, NoReplay

-----------------------------------------------------------------------------
(* The notices.                                                            *)

\* The calls still to be made; handleFailure is only made for a failed Run.
Queue ==
    /\ todo \in Seq(Calls)
    /\ \A i \in 1..Len(todo) : todo[i] = "handleFailure" => last \in Problem

\* What the row says of the notice that is being sent.
InFlight ==
    /\ notice = "failure" =>
        /\ failure.problem # None /\ ~failure.notified /\ ~failure.pending
        /\ repeats <= faults
    /\ notice = "recovery" => failure.pending

\* In an open streak each delivered notice but the remembered one took a fault.
Streak == failure.problem # None /\ ~failure.pending

Counted ==
    /\ repeats <= 1 + faults
    /\ Streak /\ ~failure.notified => repeats <= faults

\* Rows whose attempts are never forgotten.
Kept == {"startup", "routine", "first", "suspicious"}

\* A row's age is never more than the time since the last attempt.
Paced ==
    /\ \A k \in Kept : plain[k].age <= since[k]
    /\ notice = "failure" \/ (Streak /\ repeats > 0)
            => failure.age <= since["failure"]

\* A remembered or owed notice was delivered.
Earned ==
    failure.notified \/ failure.pending => told[failure.problem] # "no"

NotifyInv ==
    NotificationsTypeOK /\ Queue /\ InFlight /\ Counted /\ Paced /\ Earned

-----------------------------------------------------------------------------
(* Rows and queues.                                                        *)

\* A cleared row is a valid row of nothing.
LEMMA NewRowFields ==
    /\ NewRow \in FailureRow
    /\ NewRow.problem = None /\ NewRow.count = 0
    /\ NewRow.notified = FALSE /\ NewRow.pending = FALSE /\ NewRow.age = Cooldown
<1>1. Cooldown \in Age /\ 0 \in 0..MaxCount /\ FALSE \in BOOLEAN
  BY NotificationsAssumption DEF Age
<1> QED
  BY <1>1, Zenon DEF NewRow, FailureRow

\* So is a cleared row of the other kinds.
LEMMA NewPlainFields ==
    NewPlain \in [sent: BOOLEAN, age: Age] /\ NewPlain.age = Cooldown
<1>1. Cooldown \in Age /\ FALSE \in BOOLEAN
  BY NotificationsAssumption DEF Age
<1> QED
  BY <1>1, Zenon DEF NewPlain

\* The count of failures and the age may be replaced in a row.
LEMMA RowUpdates ==
    ASSUME NEW row \in FailureRow, NEW n \in 0..MaxCount, NEW a \in Age
    PROVE  LET c == [row EXCEPT !.count = n]
               g == [row EXCEPT !.age = a]
           IN  /\ c \in FailureRow /\ c.count = n
               /\ c.problem = row.problem /\ c.notified = row.notified
               /\ c.pending = row.pending /\ c.age = row.age
               /\ g \in FailureRow /\ g.age = a
               /\ g.problem = row.problem /\ g.notified = row.notified
               /\ g.pending = row.pending /\ g.count = row.count
  BY Zenon DEF FailureRow

\* A call takes the head of the queue.
LEMMA CallQueue ==
    ASSUME Queue, NEW name, Call(name)
    PROVE  /\ Queue' /\ last' = last /\ notice = None
           /\ name = "handleFailure" => last \in Problem
<1>1. todo \in Seq(Calls) /\ todo # <<>> /\ Head(todo) = name /\ todo' = Tail(todo)
  BY Zenon DEF Queue, Call
<1>2. /\ Len(todo) \in Nat /\ Len(todo) >= 1 /\ Head(todo) = todo[1]
      /\ todo' \in Seq(Calls) /\ Len(todo') = Len(todo) - 1
      /\ \A i \in 1..Len(todo') : todo'[i] = todo[i + 1]
  BY <1>1
<1> QED
  BY <1>1, <1>2 DEF Queue, Call

\* What a call saves that wants a notice: all but the age of the row stays.
LEMMA TriesRow ==
    ASSUME NEW kind \in Kinds, NEW row \in FailureRow, NEW next,
           Tries(kind, row, next), faults \in 0..MaxFaults
    PROVE  /\ next \in FailureRow
           /\ next.problem = row.problem /\ next.count = row.count
           /\ next.notified = row.notified /\ next.pending = row.pending
           /\ \/ /\ notice' = kind /\ next.age = 0 /\ row.age = Cooldown
                 /\ since' = [since EXCEPT ![kind] = 0] /\ faults' = faults
              \/ /\ notice' = None /\ next.age = row.age /\ since' = since
                 /\ faults' \in {faults, faults + 1} /\ faults' <= MaxFaults
<1>1. 0 \in Age /\ Cooldown \in Nat /\ MaxFaults \in Nat
  BY NotificationsAssumption DEF Age
<1>2. row.age \in 0..Cooldown
  BY Zenon DEF FailureRow, Age
<1> DEFINE tried == [row EXCEPT !.age = 0]
<1>3. /\ tried \in FailureRow /\ tried.age = 0
      /\ tried.problem = row.problem /\ tried.count = row.count
      /\ tried.notified = row.notified /\ tried.pending = row.pending
  BY <1>1, Zenon DEF FailureRow
<1>4. Attempt(kind, row) = tried
  BY Zenon DEF Attempt
<1> HIDE DEF tried
<1>5. \/ /\ AttemptDue(kind, row.age) /\ next = tried /\ notice' = kind
         /\ since' = [since EXCEPT ![kind] = 0] /\ faults' = faults
      \/ next = row /\ notice' = None /\ Fault /\ since' = since
      \/ next = row /\ notice' = None /\ faults' = faults /\ since' = since
  BY <1>4, Zenon DEF Tries, NoNotice
<1>6. CASE AttemptDue(kind, row.age) /\ next = tried /\ notice' = kind
           /\ since' = [since EXCEPT ![kind] = 0] /\ faults' = faults
  <2>1. row.age = Cooldown
    BY <1>1, <1>2, <1>6 DEF AttemptDue
  <2>2. QED
    BY <1>3, <1>6, <2>1, Zenon
<1>7. CASE next = row /\ notice' = None /\ Fault /\ since' = since
  <2>1. faults' = faults + 1 /\ faults' <= MaxFaults
    BY <1>1, <1>7 DEF Fault
  <2>2. QED
    BY <1>7, <2>1, Zenon
<1>8. CASE next = row /\ notice' = None /\ faults' = faults /\ since' = since
  <2>1. faults' <= MaxFaults
    BY <1>1, <1>8
  <2>2. QED
    BY <1>8, <2>1, Zenon
<1> QED
  BY <1>5, <1>6, <1>7, <1>8, Zenon

-----------------------------------------------------------------------------
(* What the calls do, as far as the properties can tell.                   *)

\* A step that is not a fault keeps the number of faults, and a fault adds one.
FaultsGrow == faults' \in {faults, faults + 1} /\ faults' <= MaxFaults

\* handleFailure goes on with the streak or begins one, and sends only what the
\* row does not remember.
LEMMA HandleFailureStep ==
    ASSUME NotifyInv, HandleFailure
    PROVE  /\ Queue' /\ last' = last /\ last \in Problem /\ notice = None
           /\ plain' = plain /\ failure' \in FailureRow
           /\ failure'.problem = last /\ ~failure'.pending
           /\ SameStreak => /\ failure'.notified = failure.notified
                            /\ told' = told /\ repeats' = repeats
           /\ ~SameStreak => ~failure'.notified /\ NewStreak(last)
           /\ \/ /\ notice' = "failure" /\ ~failure'.notified /\ failure'.age = 0
                 /\ SameStreak => failure.age = Cooldown
                 /\ since' = [since EXCEPT !["failure"] = 0] /\ faults' = faults
              \/ /\ notice' = None /\ since' = since /\ FaultsGrow
                 /\ SameStreak => failure'.age = failure.age
<1>1. Queue' /\ last' = last /\ last \in Problem /\ notice = None
  BY CallQueue, Zenon DEF NotifyInv, HandleFailure
<1>2. /\ failure \in FailureRow /\ faults \in 0..MaxFaults
      /\ failure.count \in 0..MaxCount
  BY Zenon DEF NotifyInv, NotificationsTypeOK, FailureRow
<1>3. MaxFaults \in Nat /\ 1 \in 0..MaxCount /\ MaxCount \in Nat
  BY NotificationsAssumption
<1> DEFINE counted == [failure EXCEPT !.count = IF @ < MaxCount THEN @ + 1 ELSE @]
           fresh == [NewRow EXCEPT !.problem = last, !.count = 1]
           row == IF SameStreak THEN counted ELSE fresh
<1>4. /\ counted \in FailureRow /\ counted.problem = failure.problem
      /\ counted.notified = failure.notified /\ counted.pending = failure.pending
      /\ counted.age = failure.age
  <2>1. (IF failure.count < MaxCount THEN failure.count + 1 ELSE failure.count)
            \in 0..MaxCount
    BY <1>2, <1>3
  <2>2. QED
    BY <1>2, <2>1, Zenon DEF FailureRow
<1>5. /\ fresh \in FailureRow /\ fresh.problem = last
      /\ fresh.notified = FALSE /\ fresh.pending = FALSE
  <2>1. last \in Problem \cup {None}
    BY <1>1, Zenon
  <2>2. QED
    BY <2>1, <1>3, NewRowFields, Zenon DEF FailureRow
<1>6. /\ IF row.notified \/ row.count < FailureThreshold
         THEN failure' = row /\ NoNotice
         ELSE \E next \in FailureRow : Tries("failure", row, next) /\ failure' = next
      /\ IF SameStreak THEN UNCHANGED <<told, repeats>> ELSE NewStreak(last)
      /\ plain' = plain
  BY Zenon DEF HandleFailure
<1> HIDE DEF counted, fresh
<1>7. /\ row \in FailureRow /\ row.problem = last /\ ~row.pending
      /\ SameStreak => row.notified = failure.notified /\ row.age = failure.age
      /\ ~SameStreak => ~row.notified
  <2>1. CASE SameStreak
    BY <1>4, <2>1, Zenon DEF SameStreak
  <2>2. CASE ~SameStreak
    BY <1>5, <2>2, Zenon
  <2>3. QED
    BY <2>1, <2>2, Zenon
<1> HIDE DEF row
<1>8. CASE row.notified \/ row.count < FailureThreshold
  <2>1. failure' = row /\ NoNotice
    BY <1>6, <1>8, Zenon
  <2>2. notice' = None /\ since' = since /\ FaultsGrow
    BY <2>1, <1>2, <1>3 DEF NoNotice, FaultsGrow
  <2>3. QED
    BY <1>1, <1>6, <1>7, <2>1, <2>2, Zenon
<1>9. CASE ~(row.notified \/ row.count < FailureThreshold)
  <2>1. PICK next \in FailureRow : Tries("failure", row, next) /\ failure' = next
    BY <1>6, <1>9, Zenon
  <2>2. /\ next.problem = row.problem
        /\ next.notified = row.notified /\ next.pending = row.pending
        /\ \/ /\ notice' = "failure" /\ next.age = 0 /\ row.age = Cooldown
              /\ since' = [since EXCEPT !["failure"] = 0] /\ faults' = faults
           \/ /\ notice' = None /\ next.age = row.age /\ since' = since
              /\ faults' \in {faults, faults + 1} /\ faults' <= MaxFaults
    BY <2>1, <1>2, <1>7, TriesRow, ZenonT(60) DEF Kinds
  <2>3. QED
    BY <1>1, <1>6, <1>7, <1>9, <2>1, <2>2, Zenon DEF FaultsGrow
<1> QED
  BY <1>8, <1>9, Zenon

\* clearFailure forgets the row, or makes it one that owes a recovery and tries
\* to announce it.
LEMMA ClearFailureStep ==
    ASSUME NotifyInv, ClearFailure
    PROVE  /\ Queue' /\ last' = last /\ notice = None
           /\ UNCHANGED <<plain, told, repeats>>
           /\ \/ /\ failure' = NewRow /\ notice' = None /\ since' = since
                 /\ faults' = faults
              \/ /\ failure' \in FailureRow /\ failure'.problem = failure.problem
                 /\ failure.notified \/ failure.pending
                 /\ failure'.pending
                 /\ \/ /\ notice' = "recovery" /\ faults' = faults
                       /\ since' = [since EXCEPT !["recovery"] = 0]
                    \/ notice' = None /\ since' = since /\ FaultsGrow
<1>1. Queue' /\ last' = last /\ notice = None
  BY CallQueue, Zenon DEF NotifyInv, ClearFailure
<1>2. failure \in FailureRow /\ faults \in 0..MaxFaults
  BY Zenon DEF NotifyInv, NotificationsTypeOK
<1> DEFINE owing == [failure EXCEPT !.pending = TRUE, !.notified = FALSE,
                                    !.count = 0, !.age = Cooldown]
           row == IF failure.pending THEN failure ELSE owing
<1>3. owing \in FailureRow /\ owing.problem = failure.problem /\ owing.pending = TRUE
  <2>1. Cooldown \in Age /\ 0 \in 0..MaxCount /\ {TRUE, FALSE} \subseteq BOOLEAN
    BY NotificationsAssumption DEF Age
  <2>2. QED
    BY <1>2, <2>1, Zenon DEF FailureRow
<1>4. /\ UNCHANGED <<plain, told, repeats>>
      /\ ~OwesRecovery => failure' = NewRow /\ NoNotice
      /\ OwesRecovery =>
            \E next \in FailureRow : Tries("recovery", row, next) /\ failure' = next
  BY Zenon DEF ClearFailure
<1> HIDE DEF owing
<1>5. row \in FailureRow /\ row.problem = failure.problem /\ row.pending
  BY <1>2, <1>3, Zenon
<1> HIDE DEF row
<1>6. CASE ~OwesRecovery
  BY <1>1, <1>4, <1>6, Zenon DEF NoNotice
<1>7. CASE OwesRecovery
  <2>1. PICK next \in FailureRow : Tries("recovery", row, next) /\ failure' = next
    BY <1>4, <1>7, Zenon
  <2>2. /\ next.problem = row.problem /\ next.pending = row.pending
        /\ \/ /\ notice' = "recovery" /\ faults' = faults
              /\ since' = [since EXCEPT !["recovery"] = 0]
           \/ /\ notice' = None /\ since' = since
              /\ faults' \in {faults, faults + 1} /\ faults' <= MaxFaults
    BY <2>1, <1>2, <1>5, TriesRow, Zenon DEF Kinds
  <2>3. failure.notified \/ failure.pending
    BY <1>7, Zenon DEF OwesRecovery
  <2>4. QED
    BY <1>1, <1>4, <1>5, <2>1, <2>2, <2>3, Zenon DEF FaultsGrow
<1> QED
  BY <1>6, <1>7, Zenon

\* The other notices touch one row, and only when its last attempt is a
\* cooldown ago.
LEMMA PlainStep ==
    ASSUME NotifyInv, NEW kind \in Plain, TriesPlain(kind)
    PROVE  /\ UNCHANGED <<failure, told, repeats>>
           /\ plain' \in [Plain -> [sent: BOOLEAN, age: Age]]
           /\ \A k \in Plain \ {kind} : plain'[k] = plain[k]
           /\ \/ /\ notice' = kind /\ plain[kind].age = Cooldown
                 /\ plain'[kind].age = 0 /\ faults' = faults
                 /\ since' = [since EXCEPT ![kind] = 0]
              \/ /\ notice' = None /\ since' = since /\ FaultsGrow
                 /\ plain'[kind].age = plain[kind].age
<1>1. /\ plain \in [Plain -> [sent: BOOLEAN, age: Age]]
      /\ faults \in 0..MaxFaults /\ MaxFaults \in Nat /\ Cooldown \in Nat
  BY NotificationsAssumption, Zenon DEF NotifyInv, NotificationsTypeOK
<1>2. UNCHANGED <<failure, told, repeats>>
  BY Zenon DEF TriesPlain
<1>3. CASE kind \notin Enabled
  <2>1. NoNotice /\ plain' = plain
    BY <1>3, Zenon DEF TriesPlain
  <2>2. QED
    BY <1>1, <1>2, <2>1 DEF NoNotice, FaultsGrow
<1>4. CASE kind \in Enabled
  <2>1. PICK next \in [sent: BOOLEAN, age: Age] :
            /\ Tries(kind, plain[kind], next)
            /\ plain' = [plain EXCEPT ![kind] = next]
    BY <1>4, Zenon DEF TriesPlain
  <2>2. /\ plain' \in [Plain -> [sent: BOOLEAN, age: Age]] /\ plain'[kind] = next
        /\ \A k \in Plain \ {kind} : plain'[k] = plain[k]
    BY <1>1, <2>1, Zenon
  <2>3. PICK row \in [sent: BOOLEAN, age: Age] : row = plain[kind]
    BY <1>1, Zenon
  <2>4. row.age \in 0..Cooldown
    BY <2>3, Zenon DEF Age
  <2> DEFINE tried == [row EXCEPT !.age = 0]
  <2>5. tried.age = 0
    BY <2>3, Zenon
  <2>6. Attempt(kind, row) = tried
    BY Zenon DEF Attempt
  <2> HIDE DEF tried
  <2>7. \/ /\ AttemptDue(kind, row.age) /\ next = tried /\ notice' = kind
           /\ since' = [since EXCEPT ![kind] = 0] /\ faults' = faults
        \/ next = row /\ notice' = None /\ Fault /\ since' = since
        \/ next = row /\ notice' = None /\ faults' = faults /\ since' = since
    BY <2>1, <2>3, <2>6, Zenon DEF Tries, NoNotice
  <2>8. CASE AttemptDue(kind, row.age) /\ next = tried /\ notice' = kind
             /\ since' = [since EXCEPT ![kind] = 0] /\ faults' = faults
    <3>1. row.age = Cooldown
      BY <1>1, <2>4, <2>8 DEF AttemptDue
    <3>2. QED
      BY <1>2, <2>2, <2>3, <2>5, <2>8, <3>1, Zenon
  <2>9. CASE next = row /\ notice' = None /\ since' = since
             /\ (Fault \/ faults' = faults)
    <3>1. FaultsGrow
      BY <1>1, <2>9 DEF Fault, FaultsGrow
    <3>2. QED
      BY <1>2, <2>2, <2>3, <2>9, <3>1, Zenon
  <2>10. QED
    BY <2>7, <2>8, <2>9, Zenon
<1> QED
  BY <1>3, <1>4, Zenon

\* A delivered notice is counted, and no problem becomes one never told of.
LEMMA DeliveredStep ==
    ASSUME NotifyInv, Delivered
    PROVE  /\ told' \in [Problem -> {"no", "told", "recovered"}]
           /\ \A p \in Problem : told[p] # "no" => told'[p] # "no"
           /\ notice \in {"failure", "recovery"} =>
                failure.problem \in Problem /\ told'[failure.problem] # "no"
           /\ repeats' = IF notice = "failure" THEN repeats + 1 ELSE repeats
<1>1. /\ told \in [Problem -> {"no", "told", "recovered"}] /\ repeats \in Nat
      /\ failure.problem \in Problem \cup {None}
      /\ notice \in {"failure", "recovery"} => failure.problem # None
  BY Zenon DEF NotifyInv, NotificationsTypeOK, FailureRow, InFlight
<1>2. repeats' = IF notice = "failure" THEN repeats + 1 ELSE repeats
  BY <1>1 DEF Delivered
<1>3. CASE notice = "failure"
  BY <1>1, <1>2, <1>3, Zenon DEF Delivered
<1>4. CASE notice = "recovery"
  BY <1>1, <1>2, <1>4, Zenon DEF Delivered
<1>5. CASE notice \notin {"failure", "recovery"}
  BY <1>1, <1>2, <1>5, Zenon DEF Delivered
<1> QED
  BY <1>3, <1>4, <1>5, Zenon

-----------------------------------------------------------------------------
(* The invariant.                                                          *)

\* An empty table and nothing sent.
LEMMA NotifyInitInv == ASSUME NotificationsInit PROVE NotifyInv
<1>1. /\ failure = NewRow /\ plain = [k \in Plain |-> NewPlain]
      /\ todo = <<"startup">> /\ notice = None /\ last = None /\ faults = 0
      /\ told = [p \in Problem |-> "no"] /\ since = [k \in Kinds |-> Cooldown]
      /\ repeats = 0
  BY Zenon DEF NotificationsInit
<1>2. MaxFaults \in Nat /\ Cooldown \in Nat /\ Cooldown \in Age /\ None \notin Kinds
  BY NotificationsAssumption DEF Age
<1>3. /\ todo \in Seq(Calls) /\ Len(todo) = 1 /\ todo[1] = "startup"
      /\ DOMAIN todo = 1..1
  BY <1>1 DEF Calls
<1>4. NotificationsTypeOK
  BY <1>1, <1>2, <1>3, NewRowFields, NewPlainFields DEF NotificationsTypeOK, Calls
<1>5. Queue
  BY <1>1, <1>3 DEF Queue
<1>6. InFlight
  BY <1>1, <1>2, Zenon DEF InFlight, Kinds
<1>7. Counted /\ Earned
  BY <1>1, NewRowFields DEF Counted, Streak, Earned
<1>8. Paced
  BY <1>1, <1>2, NewRowFields, NewPlainFields DEF Paced, Streak, Kept, Plain, Kinds
<1> QED
  BY <1>4, <1>5, <1>6, <1>7, <1>8, Zenon DEF NotifyInv

\* handleFailure sends one notice more than the faults only when none is
\* remembered.
LEMMA HandleFailureInv == ASSUME NotifyInv, HandleFailure PROVE NotifyInv'
<1> DEFINE Same == SameStreak
<1>1. /\ Queue' /\ last' = last /\ last \in Problem /\ notice = None
      /\ plain' = plain /\ failure' \in FailureRow
      /\ failure'.problem = last /\ ~failure'.pending
      /\ Same => /\ failure'.notified = failure.notified
                 /\ told' = told /\ repeats' = repeats
      /\ ~Same => ~failure'.notified /\ NewStreak(last)
      /\ \/ /\ notice' = "failure" /\ ~failure'.notified /\ failure'.age = 0
            /\ since' = [since EXCEPT !["failure"] = 0] /\ faults' = faults
         \/ /\ notice' = None /\ since' = since /\ FaultsGrow
            /\ Same => failure'.age = failure.age
  BY HandleFailureStep, Zenon
<1>2. Same => failure.problem = last /\ ~failure.pending
  BY Zenon DEF SameStreak
<1>3. /\ None \notin Problem \cup Kinds /\ MaxFaults \in Nat /\ Cooldown \in Nat
      /\ 0 \in Age
  BY NotificationsAssumption DEF Age
<1>4. /\ faults \in 0..MaxFaults /\ repeats \in Nat /\ since \in [Kinds -> Age]
      /\ told \in [Problem -> {"no", "told", "recovered"}]
  BY Zenon DEF NotifyInv, NotificationsTypeOK
<1>5. faults' \in 0..MaxFaults /\ faults' >= faults
  BY <1>1, <1>3, <1>4 DEF FaultsGrow
<1>6. /\ told' \in [Problem -> {"no", "told", "recovered"}] /\ repeats' \in Nat
      /\ ~Same => repeats' = 0
  <2>1. CASE Same
    BY <2>1, <1>1, <1>4, Zenon
  <2>2. CASE ~Same
    <3>1. /\ repeats' = 0
          /\ told' = [told EXCEPT ![last] = IF @ = "recovered" THEN "no" ELSE @]
      BY <1>1, <2>2, Zenon DEF NewStreak
    <3>2. told[last] \in {"no", "told", "recovered"}
      BY <1>1, <1>4, Zenon
    <3>3. QED
      BY <3>1, <3>2, <1>4, <2>2, Zenon
  <2>3. QED
    BY <2>1, <2>2, Zenon
<1>7. since' \in [Kinds -> Age] /\ notice' \in {"failure", None}
  BY <1>1, <1>3, <1>4
<1> HIDE DEF Same
<1>8. NotificationsTypeOK'
  <2>1. failure'.problem # None
    BY <1>1, <1>3, Zenon
  <2>2. \A i \in DOMAIN todo' : todo'[i] \in Calls
    BY <1>1 DEF Queue
  <2>3. QED
    BY <2>1, <2>2, <1>1, <1>5, <1>6, <1>7, Zenon DEF NotifyInv, NotificationsTypeOK, Kinds
<1>9. Counted'
  <2>1. ASSUME Same
        PROVE  repeats' = repeats /\ failure'.notified = failure.notified /\ Streak
    BY <2>1, <1>1, <1>2, <1>3, Zenon DEF Streak
  <2>2. repeats' <= 1 + faults'
    <3>1. repeats <= 1 + faults
      BY Zenon DEF NotifyInv, Counted
    <3>2. repeats' = repeats \/ repeats' = 0
      BY <2>1, <1>6, Zenon
    <3> QED BY <1>4, <1>5, <3>1, <3>2
  <2>3. ASSUME ~failure'.notified PROVE repeats' <= faults'
    <3>1. CASE Same
      <4>1. repeats' = repeats /\ repeats <= faults
        BY <2>1, <2>3, <3>1, Zenon DEF NotifyInv, Counted
      <4> QED BY <1>4, <1>5, <4>1
    <3>2. CASE ~Same
      <4>1. repeats' = 0
        BY <1>6, <3>2, Zenon
      <4> QED BY <1>5, <1>3, <4>1
    <3> QED BY <3>1, <3>2, Zenon
  <2> QED BY <2>2, <2>3, Zenon DEF Counted
<1>10. InFlight'
  BY <1>1, <1>2, <1>3, <1>4, <1>5, <1>6 DEF NotifyInv, InFlight, Counted, Streak, Kinds
<1>11. Paced'
  <2>1. \A k \in Kept : since'[k] = since[k]
    BY <1>1, <1>4, Zenon DEF Kept, Kinds, Plain
  <2>2. CASE notice' = "failure"
    <3>1. failure'.age <= since'["failure"]
      BY <1>1, <1>4, <2>2, <1>3 DEF Kinds
    <3>2. QED
      BY <3>1, <2>1, <1>1, Zenon DEF NotifyInv, Paced
  <2>3. CASE notice' = None
    <3>1. Same /\ repeats > 0 => failure'.age <= since'["failure"]
      BY <1>1, <1>2, <1>3, <2>3, Zenon DEF NotifyInv, Paced, Streak, Kinds
    <3>2. repeats' > 0 => Same /\ repeats > 0
      BY <1>1, <1>6
    <3>3. notice' # "failure"
      BY <2>3, <1>3, Zenon DEF Kinds
    <3>4. QED
      BY <3>1, <3>2, <3>3, <2>1, <1>1, Zenon DEF NotifyInv, Paced
  <2>4. QED
    BY <1>7, <2>2, <2>3, Zenon
<1>12. Earned'
  BY <1>1, <1>2, Zenon DEF NotifyInv, Earned
<1> QED
  BY <1>1, <1>8, <1>9, <1>10, <1>11, <1>12, Zenon DEF NotifyInv

\* clearFailure closes the streak.
LEMMA ClearFailureInv == ASSUME NotifyInv, ClearFailure PROVE NotifyInv'
<1>1. /\ Queue' /\ last' = last /\ notice = None
      /\ UNCHANGED <<plain, told, repeats>>
      /\ \/ /\ failure' = NewRow /\ notice' = None /\ since' = since
            /\ faults' = faults
         \/ /\ failure' \in FailureRow /\ failure'.problem = failure.problem
            /\ failure.notified \/ failure.pending
            /\ failure'.pending
            /\ \/ /\ notice' = "recovery" /\ faults' = faults
                  /\ since' = [since EXCEPT !["recovery"] = 0]
               \/ notice' = None /\ since' = since /\ FaultsGrow
  BY ClearFailureStep, Zenon
<1>2. /\ None \notin Problem \cup Kinds /\ MaxFaults \in Nat /\ Cooldown \in Nat
      /\ 0 \in Age
  BY NotificationsAssumption DEF Age
<1>3. /\ faults \in 0..MaxFaults /\ repeats \in Nat /\ since \in [Kinds -> Age]
      /\ failure.notified \/ failure.pending => failure.problem # None
  BY Zenon DEF NotifyInv, NotificationsTypeOK
<1>4. faults' \in 0..MaxFaults /\ faults' >= faults /\ since' \in [Kinds -> Age]
  BY <1>1, <1>2, <1>3 DEF FaultsGrow
<1>5. failure' \in FailureRow /\ ~Streak' /\ notice' \in {"recovery", None}
  BY <1>1, NewRowFields, Zenon DEF Streak
<1>6. failure'.count > 0 \/ failure'.notified \/ failure'.pending
        => failure'.problem # None
  BY <1>1, <1>3, NewRowFields
<1>7. NotificationsTypeOK'
  <2>1. \A i \in DOMAIN todo' : todo'[i] \in Calls
    BY <1>1 DEF Queue
  <2>2. QED
    BY <2>1, <1>1, <1>4, <1>5, <1>6, Zenon DEF NotifyInv, NotificationsTypeOK, Kinds
<1>8. Counted'
  <2>1. repeats' <= 1 + faults'
    <3> DEFINE after == faults'
    <3>1. repeats <= 1 + faults
      BY Zenon DEF NotifyInv, Counted
    <3>2. faults \in Nat /\ after \in Nat /\ after >= faults
      BY <1>2, <1>3, <1>4
    <3> HIDE DEF after
    <3>3. repeats <= 1 + after
      BY <3>1, <3>2, <1>3
    <3>4. QED
      BY <3>3, <1>1, Zenon DEF after
  <2>2. QED
    BY <2>1, <1>5, Zenon DEF Counted
<1>9. InFlight'
  BY <1>1, <1>2, <1>5, Zenon DEF InFlight, Kinds
<1>10. Paced'
  <2>1. \A k \in Kept : since'[k] = since[k]
    BY <1>1, <1>3, Zenon DEF Kept, Kinds, Plain
  <2>2. notice' # "failure"
    BY <1>2, <1>5, Zenon DEF Kinds
  <2>3. QED
    BY <2>1, <2>2, <1>1, <1>5, Zenon DEF NotifyInv, Paced
<1>11. Earned'
  BY <1>1, NewRowFields, Zenon DEF NotifyInv, Earned
<1> QED
  BY <1>1, <1>7, <1>8, <1>9, <1>10, <1>11, Zenon DEF NotifyInv

\* A notice of another kind leaves the failure row alone and keeps its row's
\* age below the time since its last attempt.
LEMMA PlainInv ==
    ASSUME NotifyInv, NEW kind \in Plain, TriesPlain(kind),
           Queue', last' = last, notice = None
    PROVE  NotifyInv'
<1>1. /\ UNCHANGED <<failure, told, repeats>>
      /\ plain' \in [Plain -> [sent: BOOLEAN, age: Age]]
      /\ \A k \in Plain \ {kind} : plain'[k] = plain[k]
      /\ \/ /\ notice' = kind /\ plain'[kind].age = 0 /\ faults' = faults
            /\ since' = [since EXCEPT ![kind] = 0]
         \/ /\ notice' = None /\ since' = since /\ FaultsGrow
            /\ plain'[kind].age = plain[kind].age
  BY PlainStep, Zenon
<1>2. /\ None \notin Problem \cup Kinds /\ MaxFaults \in Nat /\ Cooldown \in Nat
      /\ 0 \in Age
  BY NotificationsAssumption DEF Age
<1>3. /\ faults \in 0..MaxFaults /\ repeats \in Nat /\ since \in [Kinds -> Age]
  BY Zenon DEF NotifyInv, NotificationsTypeOK
<1>4. /\ faults' \in 0..MaxFaults /\ faults' >= faults /\ since' \in [Kinds -> Age]
      /\ notice' \in Plain \cup {None} /\ notice' \notin {"failure", "recovery"}
  BY <1>1, <1>2, <1>3 DEF FaultsGrow, Kinds, Plain
<1>5. NotificationsTypeOK'
  <2>1. \A i \in DOMAIN todo' : todo'[i] \in Calls
    BY DEF Queue
  <2>2. QED
    BY <2>1, <1>1, <1>4, Zenon DEF NotifyInv, NotificationsTypeOK, Kinds
<1>6. Counted'
  <2>1. repeats' <= 1 + faults'
    <3> DEFINE after == faults'
    <3>1. repeats <= 1 + faults
      BY Zenon DEF NotifyInv, Counted
    <3>2. faults \in Nat /\ after \in Nat /\ after >= faults
      BY <1>2, <1>3, <1>4
    <3> HIDE DEF after
    <3>3. repeats <= 1 + after
      BY <3>1, <3>2, <1>3
    <3>4. QED
      BY <3>3, <1>1, Zenon DEF after
  <2>2. Streak' /\ ~failure'.notified => repeats' <= faults'
    BY <1>1, <1>2, <1>3, <1>4 DEF NotifyInv, Counted, Streak
  <2>3. QED
    BY <2>1, <2>2, Zenon DEF Counted
<1>7. InFlight'
  BY <1>4, Zenon DEF InFlight
<1>8. Paced'
  <2>1. \A k \in Kept : plain'[k].age <= since'[k]
    <3>1. SUFFICES ASSUME NEW k \in Kept PROVE plain'[k].age <= since'[k]
      BY Zenon
    <3>2. k \in Plain /\ k \in Kinds /\ plain[k].age <= since[k]
      BY Zenon DEF NotifyInv, Paced, Kept, Plain, Kinds
    <3>3. CASE k = kind
      BY <1>1, <1>3, <3>2, <3>3
    <3>4. CASE k # kind
      BY <1>1, <1>3, <3>2, <3>4, Zenon
    <3>5. QED
      BY <3>3, <3>4, Zenon
  <2>2. since'["failure"] = since["failure"]
    BY <1>1, <1>3, Zenon DEF Plain, Kinds
  <2>3. QED
    BY <2>1, <2>2, <1>1, <1>4, Zenon DEF NotifyInv, Paced, Streak
<1>9. Earned'
  BY <1>1, Zenon DEF NotifyInv, Earned
<1> QED
  BY <1>5, <1>6, <1>7, <1>8, <1>9, Zenon DEF NotifyInv

\* A new table of stale synchronizations concerns no other notice.
LEMMA ClearStaleInv == ASSUME NotifyInv, ClearStale PROVE NotifyInv'
<1>1. Queue' /\ last' = last /\ notice = None
  BY CallQueue, Zenon DEF NotifyInv, ClearStale
<1>2. /\ plain' = [plain EXCEPT !["stale"] = NewPlain]
      /\ UNCHANGED <<failure, told, repeats, faults, since>> /\ notice' = None
  BY Zenon DEF ClearStale, NoNotice
<1>3. plain \in [Plain -> [sent: BOOLEAN, age: Age]]
  BY Zenon DEF NotifyInv, NotificationsTypeOK
<1>4. /\ plain' \in [Plain -> [sent: BOOLEAN, age: Age]]
      /\ \A k \in Kept : plain'[k] = plain[k]
  BY <1>2, <1>3, NewPlainFields, Zenon DEF Plain, Kept
<1>5. NotificationsTypeOK'
  <2>1. \A i \in DOMAIN todo' : todo'[i] \in Calls
    BY <1>1 DEF Queue
  <2>2. QED
    BY <2>1, <1>1, <1>2, <1>4, Zenon DEF NotifyInv, NotificationsTypeOK
<1>6. InFlight' /\ Counted' /\ Earned'
  BY <1>1, <1>2, Zenon DEF NotifyInv, InFlight, Counted, Streak, Earned
<1>7. Paced'
  BY <1>1, <1>2, <1>4, Zenon DEF NotifyInv, Paced, Streak
<1> QED
  BY <1>1, <1>5, <1>6, <1>7, Zenon DEF NotifyInv

\* Every call of the manager.
LEMMA HandleInv == ASSUME NotifyInv, Handle PROVE NotifyInv'
<1>1. CASE HandleFailure
  BY <1>1, HandleFailureInv, Zenon
<1>2. CASE ClearFailure
  BY <1>2, ClearFailureInv, Zenon
<1>3. CASE ClearStale
  BY <1>3, ClearStaleInv, Zenon
<1>4. CASE StaleSync
  <2>1. Queue' /\ last' = last /\ notice = None
    BY <1>4, CallQueue, Zenon DEF NotifyInv, StaleSync
  <2>2. CASE plain["stale"].sent
    <3>1. UNCHANGED <<failure, plain, told, repeats, faults, since, last>>
          /\ notice' = notice
      BY <1>4, <2>1, <2>2, Zenon DEF StaleSync, NoNotice
    <3>2. \A i \in DOMAIN todo' : todo'[i] \in Calls
      BY <2>1 DEF Queue
    <3>3. NotificationsTypeOK'
      BY <3>1, <3>2, Zenon DEF NotifyInv, NotificationsTypeOK
    <3>4. QED
      BY <2>1, <3>1, <3>3, Zenon DEF NotifyInv, InFlight, Counted, Streak, Paced, Earned
  <2>3. CASE ~plain["stale"].sent
    BY <1>4, <2>1, <2>3, PlainInv, Zenon DEF StaleSync, Plain
  <2>4. QED
    BY <2>2, <2>3, Zenon
<1>5. CASE SuccessPolicy
  <2>1. Queue' /\ last' = last /\ notice = None
    BY <1>5, CallQueue, Zenon DEF NotifyInv, SuccessPolicy
  <2>2. PICK kind \in Plain : TriesPlain(kind)
    BY <1>5, Zenon DEF SuccessPolicy, Plain
  <2>3. QED
    BY <2>1, <2>2, PlainInv, Zenon
<1>6. CASE SuspiciousChange
  <2>1. Queue' /\ last' = last /\ notice = None
    BY <1>6, CallQueue, Zenon DEF NotifyInv, SuspiciousChange
  <2>2. QED
    BY <1>6, <2>1, PlainInv, Zenon DEF SuspiciousChange, Plain
<1>7. CASE Startup
  <2>1. Queue' /\ last' = last /\ notice = None
    BY <1>7, CallQueue, Zenon DEF NotifyInv, Startup
  <2>2. QED
    BY <1>7, <2>1, PlainInv, Zenon DEF Startup, Plain
<1> QED
  BY <1>1, <1>2, <1>3, <1>4, <1>5, <1>6, <1>7, Zenon DEF Handle

\* An accepted failure notice is remembered, an accepted recovery clears the row.
LEMMA SendInv == ASSUME NotifyInv, Send PROVE NotifyInv'
<1>1. /\ notice # None /\ notice' = None /\ OnSuccess
      /\ UNCHANGED <<todo, last, faults, since>>
  BY Zenon DEF Send
<1>2. /\ told' \in [Problem -> {"no", "told", "recovered"}]
      /\ \A p \in Problem : told[p] # "no" => told'[p] # "no"
      /\ notice \in {"failure", "recovery"} =>
           failure.problem \in Problem /\ told'[failure.problem] # "no"
      /\ repeats' = IF notice = "failure" THEN repeats + 1 ELSE repeats
  BY DeliveredStep, Zenon DEF Send
<1>3. /\ failure \in FailureRow /\ plain \in [Plain -> [sent: BOOLEAN, age: Age]]
      /\ failure.notified \/ failure.pending => failure.problem \in Problem
      /\ repeats \in Nat /\ faults \in Nat /\ None \notin Kinds
  BY NotificationsAssumption DEF NotifyInv, NotificationsTypeOK, FailureRow
<1>4. /\ plain' \in [Plain -> [sent: BOOLEAN, age: Age]]
      /\ \A k \in Kept : plain'[k].age = plain[k].age
  <2>1. CASE notice \in {"stale", "first"}
    <3>1. PICK row \in [sent: BOOLEAN, age: Age] : row = plain[notice]
      BY <1>3, <2>1, Zenon DEF Plain
    <3> DEFINE told1 == [row EXCEPT !.sent = TRUE]
    <3>2. TRUE \in BOOLEAN
      BY Zenon
    <3>3. told1 \in [sent: BOOLEAN, age: Age] /\ told1.age = row.age
      BY <3>1, <3>2, Zenon
    <3>4. plain' = [plain EXCEPT ![notice] = told1]
      BY <1>1, <2>1, <3>1, Zenon DEF OnSuccess
    <3> HIDE DEF told1
    <3>5. QED
      BY <1>3, <3>1, <3>3, <3>4, <2>1, Zenon DEF Plain, Kept
  <2>2. CASE notice \notin {"stale", "first"}
    BY <1>1, <1>3, <2>2, Zenon DEF OnSuccess
  <2>3. QED
    BY <2>1, <2>2, Zenon
<1>5. Paced' <=> (Streak' /\ repeats' > 0 => failure'.age <= since["failure"])
  <2>1. notice' # "failure"
    BY <1>1, <1>3, Zenon DEF Kinds
  <2>2. \A k \in Kept : plain'[k].age <= since'[k]
    BY <1>1, <1>4, Zenon DEF NotifyInv, Paced
  <2>3. QED
    BY <1>1, <2>1, <2>2, Zenon DEF Paced
<1>6. InFlight' /\ Queue'
  <2>1. notice' \notin Kinds
    BY <1>1, <1>3, Zenon
  <2>2. QED
    BY <2>1, <1>1, Zenon DEF NotifyInv, InFlight, Kinds, Queue
<1>7. CASE notice = "failure"
  <2> DEFINE sent == [failure EXCEPT !.notified = TRUE]
  <2>1. TRUE \in BOOLEAN
    BY Zenon
  <2>2. /\ sent \in FailureRow /\ sent.notified = TRUE
        /\ sent.problem = failure.problem /\ sent.count = failure.count
        /\ sent.pending = failure.pending /\ sent.age = failure.age
    BY <1>3, <2>1, Zenon DEF FailureRow
  <2>3. failure' = sent
    BY <1>1, <1>7, Zenon DEF OnSuccess
  <2> HIDE DEF sent
  <2>4. /\ failure.problem \in Problem /\ ~failure.pending /\ repeats <= faults
        /\ failure.problem # None /\ failure.age <= since["failure"]
    BY <1>2, <1>7, Zenon DEF NotifyInv, InFlight, Paced
  <2>5. repeats' = repeats + 1
    BY <1>2, <1>7, Zenon
  <2>6. NotificationsTypeOK'
    BY <1>1, <1>2, <1>3, <1>4, <2>2, <2>3, <2>4, <2>5 DEF NotifyInv, NotificationsTypeOK
  <2>7. Counted'
    BY <1>1, <1>3, <2>2, <2>3, <2>4, <2>5 DEF Counted
  <2>8. Paced' /\ Earned'
    BY <1>2, <1>5, <1>7, <2>2, <2>3, <2>4, Zenon DEF Earned
  <2>9. QED
    BY <1>6, <2>6, <2>7, <2>8, Zenon DEF NotifyInv
<1>8. CASE notice # "failure"
  <2>1. failure' = NewRow \/ failure' = failure
    BY <1>1, <1>8, Zenon DEF OnSuccess
  <2>2. repeats' = repeats
    BY <1>2, <1>8, Zenon
  <2>3. NotificationsTypeOK'
    BY <1>1, <1>2, <1>4, <2>1, <2>2, NewRowFields DEF NotifyInv, NotificationsTypeOK
  <2>4. Counted'
    BY <1>1, <2>1, <2>2, NewRowFields, Zenon DEF NotifyInv, Counted, Streak
  <2>5. Paced'
    BY <1>5, <2>1, <2>2, NewRowFields, Zenon DEF NotifyInv, Paced, Streak
  <2>6. Earned'
    BY <1>2, <1>3, <2>1, NewRowFields, Zenon DEF NotifyInv, Earned
  <2>7. QED
    BY <1>6, <2>3, <2>4, <2>5, <2>6, Zenon DEF NotifyInv
<1> QED
  BY <1>7, <1>8, Zenon

\* A fault may deliver the notice that is being sent and forgets it: one more
\* notice, one more fault.
LEMMA LostInv ==
    ASSUME NotifyInv, Fault, notice' = None, Queue',
           UNCHANGED <<failure, plain, last, since>>,
           (Delivered /\ notice # None) \/ UNCHANGED <<repeats, told>>
    PROVE  NotifyInv'
<1>1. /\ repeats \in Nat /\ faults \in Nat /\ None \notin Kinds /\ MaxFaults \in Nat
      /\ failure.notified \/ failure.pending => failure.problem \in Problem
  BY NotificationsAssumption DEF NotifyInv, NotificationsTypeOK, FailureRow
<1>2. faults' \in 0..MaxFaults /\ faults' = faults + 1
  BY <1>1 DEF Fault
<1>3. /\ told' \in [Problem -> {"no", "told", "recovered"}]
      /\ \A p \in Problem : told[p] # "no" => told'[p] # "no"
      /\ repeats' = IF Delivered /\ notice = "failure" THEN repeats + 1 ELSE repeats
  <2>1. CASE Delivered /\ notice # None
    BY <2>1, DeliveredStep, Zenon
  <2>2. CASE UNCHANGED <<repeats, told>>
    <3>1. ~(Delivered /\ notice = "failure")
      BY <1>1, <2>2 DEF Delivered
    <3>2. QED
      BY <2>2, <3>1, Zenon DEF NotifyInv, NotificationsTypeOK
  <2>3. QED
    BY <2>1, <2>2, Zenon
<1>4. notice' \notin Kinds
  BY <1>1, Zenon
<1>5. InFlight'
  BY <1>4, Zenon DEF InFlight, Kinds
<1>6. NotificationsTypeOK'
  <2>1. \A i \in DOMAIN todo' : todo'[i] \in Calls
    BY DEF Queue
  <2>2. repeats' \in Nat
    BY <1>1, <1>3
  <2>3. QED
    BY <2>1, <2>2, <1>2, <1>3, Zenon DEF NotifyInv, NotificationsTypeOK
<1>7. Counted'
  <2>1. CASE Delivered /\ notice = "failure"
    <3>1. repeats' = repeats + 1 /\ repeats <= faults
      BY <1>3, <2>1, Zenon DEF NotifyInv, InFlight
    <3>2. QED
      BY <1>1, <1>2, <3>1 DEF Counted
  <2>2. CASE ~(Delivered /\ notice = "failure")
    <3>1. repeats' = repeats
      BY <1>3, <2>2, Zenon
    <3>2. QED
      BY <1>1, <1>2, <3>1 DEF NotifyInv, Counted, Streak
  <2>3. QED
    BY <2>1, <2>2, Zenon
<1>8. Paced'
  <2>1. Streak' /\ repeats' > 0 => notice = "failure" \/ (Streak /\ repeats > 0)
    BY <1>3, Zenon DEF Streak
  <2>2. notice' # "failure"
    BY <1>4, Zenon DEF Kinds
  <2>3. QED
    BY <2>1, <2>2, Zenon DEF NotifyInv, Paced
<1>9. Earned'
  BY <1>1, <1>3, Zenon DEF NotifyInv, Earned
<1> QED
  BY <1>5, <1>6, <1>7, <1>8, <1>9, Zenon DEF NotifyInv

\* A new result queues handleFailure only for a failed Run.
LEMMA ResultInv == ASSUME NotifyInv, Result PROVE NotifyInv'
<1>1. UNCHANGED <<failure, plain, notice, faults, told, since, repeats>>
  BY Zenon DEF Result
<1>2. Queue' /\ last' \in Problem \cup {"success", None}
  <2>1. CASE last' = "success"
             /\ todo' = <<"clearStale", "clearFailure", "successPolicy">>
    <3>1. /\ todo' \in Seq(Calls) /\ Len(todo') = 3
          /\ \A i \in 1..3 : todo'[i] # "handleFailure"
      BY <2>1 DEF Calls
    <3>2. QED
      BY <2>1, <3>1, Zenon DEF Queue
  <2>2. CASE /\ last' \in Problem
             /\ \E suspicious \in {<<>>, <<"suspicious">>} :
                \E calls \in {<<"clearStale", "handleFailure">>,
                              <<"handleFailure">>, <<"handleFailure", "staleSync">>} :
                    todo' = suspicious \o calls
    <3>1. PICK suspicious \in {<<>>, <<"suspicious">>},
               calls \in {<<"clearStale", "handleFailure">>, <<"handleFailure">>,
                          <<"handleFailure", "staleSync">>} :
                todo' = suspicious \o calls
      BY <2>2, Zenon
    <3>2. suspicious \in Seq(Calls) /\ calls \in Seq(Calls)
      <4>1. /\ <<>> \in Seq(Calls) /\ <<"suspicious">> \in Seq(Calls)
            /\ <<"handleFailure">> \in Seq(Calls)
        BY DEF Calls
      <4>2. /\ <<"clearStale", "handleFailure">> \in Seq(Calls)
            /\ <<"handleFailure", "staleSync">> \in Seq(Calls)
        BY DEF Calls
      <4>3. QED
        BY <4>1, <4>2, Zenon
    <3>3. todo' \in Seq(Calls)
      BY <3>1, <3>2
    <3>4. QED
      BY <2>2, <3>3, Zenon DEF Queue
  <2>3. QED
    BY <2>1, <2>2, Zenon DEF Result
<1>3. NotificationsTypeOK'
  <2>1. \A i \in DOMAIN todo' : todo'[i] \in Calls
    BY <1>2 DEF Queue
  <2>2. QED
    BY <2>1, <1>1, <1>2, Zenon DEF NotifyInv, NotificationsTypeOK
<1> QED
  BY <1>1, <1>2, <1>3, Zenon DEF NotifyInv, InFlight, Counted, Streak, Paced, Earned

\* Ages and the time since an attempt grow together up to the cooldown.
LEMMA OlderGrows ==
    ASSUME NEW a \in Age, NEW b \in Age, a <= b
    PROVE  Older(a) \in Age /\ Older(a) <= Older(b)
  BY NotificationsAssumption DEF Age, Older

\* Time passes.
LEMMA NoticeTickInv == ASSUME NotifyInv, NoticeTick PROVE NotifyInv'
<1>1. /\ failure' = [failure EXCEPT !.age = Older(@)]
      /\ plain' = [k \in Plain |-> [plain[k] EXCEPT !.age = Older(@)]]
      /\ since' = [k \in Kinds |-> Older(since[k])]
      /\ UNCHANGED <<todo, notice, last, faults, told, repeats>>
  BY Zenon DEF NoticeTick
<1>2. /\ failure \in FailureRow /\ plain \in [Plain -> [sent: BOOLEAN, age: Age]]
      /\ since \in [Kinds -> Age]
  BY Zenon DEF NotifyInv, NotificationsTypeOK
<1>3. \A a \in Age : Older(a) \in Age
  BY NotificationsAssumption DEF Age, Older
<1>4. /\ failure' \in FailureRow /\ failure'.age = Older(failure.age)
      /\ failure.age \in Age
      /\ failure'.problem = failure.problem /\ failure'.count = failure.count
      /\ failure'.notified = failure.notified /\ failure'.pending = failure.pending
  BY <1>1, <1>2, <1>3, Zenon DEF FailureRow
<1>5. \A k \in Plain : /\ plain'[k] \in [sent: BOOLEAN, age: Age]
                       /\ plain'[k].age = Older(plain[k].age) /\ plain[k].age \in Age
  <2>1. SUFFICES ASSUME NEW k \in Plain
                 PROVE  /\ plain'[k] \in [sent: BOOLEAN, age: Age]
                        /\ plain'[k].age = Older(plain[k].age) /\ plain[k].age \in Age
    BY Zenon
  <2>2. PICK row \in [sent: BOOLEAN, age: Age] : row = plain[k]
    BY <1>2, Zenon
  <2>3. plain'[k] = [row EXCEPT !.age = Older(row.age)] /\ row.age \in Age
    BY <1>1, <2>2, Zenon
  <2>4. QED
    BY <1>3, <2>2, <2>3, Zenon
<1>6. plain' \in [Plain -> [sent: BOOLEAN, age: Age]]
  <2>1. plain' = [k \in Plain |-> plain'[k]]
    BY <1>1, Zenon
  <2>2. QED
    BY <2>1, <1>5, Zenon
<1>7. since' \in [Kinds -> Age] /\ \A k \in Kinds : since'[k] = Older(since[k])
  BY <1>1, <1>2, <1>3, Zenon
<1>8. NotificationsTypeOK'
  BY <1>1, <1>4, <1>6, <1>7, Zenon DEF NotifyInv, NotificationsTypeOK
<1>9. Queue' /\ InFlight' /\ Counted' /\ Earned'
  BY <1>1, <1>4, Zenon DEF NotifyInv, Queue, InFlight, Counted, Streak, Earned
<1>10. Paced'
  <2>1. ASSUME NEW k \in Kept PROVE plain'[k].age <= since'[k]
    <3>1. k \in Plain /\ k \in Kinds /\ plain[k].age <= since[k]
      BY Zenon DEF NotifyInv, Paced, Kept, Plain, Kinds
    <3>2. QED
      BY <3>1, <1>2, <1>5, <1>7, OlderGrows, Zenon
  <2>2. ASSUME notice = "failure" \/ (Streak /\ repeats > 0)
        PROVE  failure'.age <= since'["failure"]
    <3>1. failure.age <= since["failure"] /\ "failure" \in Kinds
      BY <2>2, Zenon DEF NotifyInv, Paced, Kinds
    <3>2. QED
      BY <3>1, <1>2, <1>4, <1>7, OlderGrows, Zenon
  <2>3. (notice = "failure" \/ (Streak /\ repeats > 0))'
            => notice = "failure" \/ (Streak /\ repeats > 0)
    BY <1>1, <1>4, Zenon DEF Streak
  <2>4. QED
    BY <2>1, <2>2, <2>3, Zenon DEF Paced
<1> QED
  BY <1>8, <1>9, <1>10, Zenon DEF NotifyInv

\* Every step keeps the invariant.
LEMMA NotifyNextInv == ASSUME NotifyInv, [NotificationsNext]_nvars PROVE NotifyInv'
<1>1. CASE Handle
  BY <1>1, HandleInv, Zenon
<1>2. CASE Send
  BY <1>2, SendInv, Zenon
<1>3. CASE CallFails
  <2>1. /\ todo # <<>> /\ todo' = Tail(todo) /\ notice = None /\ Fault
        /\ UNCHANGED <<failure, plain, notice, last, told, since, repeats>>
    BY <1>3, Zenon DEF CallFails
  <2>2. Call(Head(todo))
    BY <2>1, Zenon DEF Call
  <2>3. Queue'
    BY <2>2, CallQueue, Zenon DEF NotifyInv
  <2>4. QED
    BY <2>1, <2>3, LostInv, Zenon
<1>4. CASE SendFails
  <2>1. Queue'
    BY <1>4, Zenon DEF NotifyInv, Queue, SendFails
  <2>2. QED
    BY <1>4, <2>1, LostInv, Zenon DEF SendFails
<1>5. CASE Restart
  <2>1. todo' \in Seq(Calls) /\ Len(todo') = 1 /\ todo'[1] = "startup"
    BY <1>5 DEF Restart, Calls
  <2>2. Queue'
    BY <2>1 DEF Queue
  <2>3. QED
    BY <1>5, <2>2, LostInv, Zenon DEF Restart
<1>6. CASE Result
  BY <1>6, ResultInv, Zenon
<1>7. CASE NoticeTick
  BY <1>7, NoticeTickInv, Zenon
<1>8. CASE UNCHANGED nvars
  <2>1. UNCHANGED <<failure, plain, todo, notice, last, faults, told, since, repeats>>
    BY <1>8, Zenon DEF nvars
  <2>2. NotificationsTypeOK'
    BY <2>1, Zenon DEF NotifyInv, NotificationsTypeOK
  <2>3. QED
    BY <2>1, <2>2, Zenon DEF NotifyInv, Queue, InFlight, Counted, Streak, Paced, Earned
<1> QED
  BY <1>1, <1>2, <1>3, <1>4, <1>5, <1>6, <1>7, <1>8, Zenon DEF NotificationsNext

\* The inductive invariant always holds.
LEMMA NotifyInvariant == NotificationsSpec => []NotifyInv
<1>1. NotificationsInit => NotifyInv
  BY NotifyInitInv, Zenon
<1>2. NotifyInv /\ [NotificationsNext]_nvars => NotifyInv'
  BY NotifyNextInv, Zenon
<1> QED
  BY <1>1, <1>2, PTL DEF NotificationsSpec

-----------------------------------------------------------------------------
(* Theorems.                                                               *)

\* OneNotice: the manager sends one failure notice in a streak, and one more
\* for each crash, failed save or failed send, however many there are.
THEOREM OneNoticeThm == NotificationsSpec => []OneNotice
<1>1. NotifyInv => OneNotice
  BY Zenon DEF NotifyInv, Counted, OneNotice
<1> QED
  BY <1>1, NotifyInvariant, PTL

\* RecoveryIsEarned: clearFailure announces the recovery of a problem only when
\* its failure has reached the server.
THEOREM RecoveryIsEarnedThm == NotificationsSpec => RecoveryIsEarned
<1>1. NotifyInv /\ [NotificationsNext]_nvars =>
        [notice' = "recovery" => told[failure.problem] # "no"]_nvars
  <2> SUFFICES ASSUME NotifyInv, NotificationsNext, notice' = "recovery"
               PROVE  told[failure.problem] # "no"
    BY Zenon DEF nvars
  <2>1. None # "recovery"
    BY NotificationsAssumption, Zenon DEF Kinds
  <2>2. failure.notified \/ failure.pending => told[failure.problem] # "no"
    BY Zenon DEF NotifyInv, Earned
  <2>3. CASE notice' = notice
    BY <2>2, <2>3, Zenon DEF NotifyInv, InFlight
  <2>4. CASE HandleFailure
    BY <2>1, <2>4, HandleFailureStep, Zenon
  <2>5. CASE ClearFailure
    BY <2>1, <2>2, <2>5, ClearFailureStep, Zenon
  <2>6. CASE \E kind \in Plain : TriesPlain(kind)
    <3>1. PICK kind \in Plain : TriesPlain(kind)
      BY <2>6, Zenon
    <3>2. notice' = kind \/ notice' = None
      BY <3>1, PlainStep, Zenon
    <3>3. QED
      BY <2>1, <3>2, Zenon DEF Plain
  <2>7. NotificationsNext =>
            \/ HandleFailure \/ ClearFailure \/ notice' \in {None, notice}
            \/ \E kind \in Plain : TriesPlain(kind)
    BY Zenon DEF NotificationsNext, Handle, ClearStale, StaleSync, SuccessPolicy,
           SuspiciousChange, Startup, Send, CallFails, SendFails, Restart, Result,
           NoticeTick, NoNotice, Plain
  <2>8. QED
    BY <2>1, <2>3, <2>4, <2>5, <2>6, <2>7, Zenon
<1> QED
  BY <1>1, NotifyInvariant, PTL DEF NotificationsSpec, RecoveryIsEarned

\* CooldownKept: neither a restart nor a failed save makes the manager attempt a
\* notice earlier than a cooldown after the last attempt of its kind.
THEOREM CooldownKeptThm == NotificationsSpec => CooldownKept
<1> DEFINE Wait(k) == /\ notice = None /\ notice' = k
                      /\ k = "failure" => repeats > 0 /\ SameStreak
                      => since[k] = Cooldown
<1>1. NotifyInv /\ [NotificationsNext]_nvars =>
        [\A k \in {"startup", "routine", "first", "suspicious", "failure"} :
            Wait(k)]_nvars
  <2> SUFFICES ASSUME NotifyInv, NotificationsNext,
                      NEW k \in Kept \cup {"failure"}, notice = None, notice' = k,
                      k = "failure" => repeats > 0 /\ SameStreak
               PROVE  since[k] = Cooldown
    BY Zenon DEF nvars, Kept
  <2>1. /\ None \notin Kinds /\ Cooldown \in Nat
        /\ k \in Kinds /\ since[k] \in 0..Cooldown
    BY NotificationsAssumption, Zenon DEF NotifyInv, NotificationsTypeOK, Age, Kept, Kinds, Plain
  <2>2. CASE HandleFailure
    <3>1. k = "failure"
      BY <2>1, <2>2, HandleFailureStep, Zenon
    <3>2. failure.age = Cooldown /\ last \in Problem
      BY <2>1, <2>2, <3>1, HandleFailureStep, Zenon
    <3>3. failure.age <= since["failure"]
      BY <3>1, <3>2, NotificationsAssumption, Zenon DEF NotifyInv, Paced, Streak, SameStreak
    <3>4. QED
      BY <2>1, <3>1, <3>2, <3>3
  <2>3. CASE ClearFailure
    <3>1. notice' \in {None, "recovery"}
      BY <2>3, ClearFailureStep, Zenon
    <3>2. QED
      BY <2>1, <3>1, Zenon DEF Kept
  <2>4. CASE \E kind \in Plain : TriesPlain(kind)
    <3>1. PICK kind \in Plain : TriesPlain(kind)
      BY <2>4, Zenon
    <3>2. kind = k /\ plain[k].age = Cooldown
      BY <2>1, <3>1, PlainStep, Zenon
    <3>3. k \in Kept
      BY <3>2, Zenon DEF Plain
    <3>4. plain[k].age <= since[k]
      BY <3>3, Zenon DEF NotifyInv, Paced
    <3>5. QED
      BY <2>1, <3>2, <3>4
  <2>5. NotificationsNext =>
            \/ HandleFailure \/ ClearFailure \/ notice' \in {None, notice}
            \/ \E kind \in Plain : TriesPlain(kind)
    BY Zenon DEF NotificationsNext, Handle, ClearStale, StaleSync, SuccessPolicy,
           SuspiciousChange, Startup, Send, CallFails, SendFails, Restart, Result,
           NoticeTick, NoNotice, Plain
  <2>6. QED
    BY <2>1, <2>2, <2>3, <2>4, <2>5, Zenon
<1> QED
  BY <1>1, NotifyInvariant, PTL DEF NotificationsSpec, CooldownKept
=============================================================================
