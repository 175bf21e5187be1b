------------------------ MODULE CircuitBreakerProofs ------------------------
(***************************************************************************)
(* The circuit breaker for any number of callers, any threshold and any    *)
(* cooldown.                                                               *)
(***************************************************************************)
EXTENDS CircuitBreaker, TLAPS

\* Nothing else touches the fields of a breaker: they keep their types.
THEOREM BreakerTyped == Spec => []TypeOK
<1>1. Init => TypeOK
  BY BreakerAssumption DEF Init, TypeOK
<1>2. TypeOK /\ [Next]_vars => TypeOK'
  <2> SUFFICES ASSUME TypeOK, [Next]_vars PROVE TypeOK'
    OBVIOUS
  <2> USE BreakerAssumption DEF TypeOK
  <2>1. CASE Tick
    BY <2>1 DEF Tick
  <2>2. CASE NodeChanges
    BY <2>2 DEF NodeChanges
  <2>3. ASSUME NEW p \in Callers, Admit(p) \/ Refuse(p) \/ Retry(p) PROVE TypeOK'
    BY <2>3 DEF Admit, Refuse, Retry
  <2>4. ASSUME NEW p \in Callers, Fail(p) PROVE TypeOK'
    BY <2>4 DEF Fail
  <2>5. ASSUME NEW p \in Callers, Succeed(p) PROVE TypeOK'
    BY <2>5 DEF Succeed
  <2>6. CASE UNCHANGED vars
    BY <2>6 DEF vars
  <2> QED BY <2>1, <2>2, <2>3, <2>4, <2>5, <2>6 DEF Next, CallerStep
<1> QED BY <1>1, <1>2, PTL DEF Spec

\* Late results never bring counter and state apart: the breaker is closed
\* exactly while fewer than Threshold failures are counted.
THEOREM CounterDecides == Spec => []ClosedIffFew
<1>1. Init => ClosedIffFew
  BY BreakerAssumption DEF Init, ClosedIffFew
<1>2. TypeOK /\ ClosedIffFew /\ [Next]_vars => ClosedIffFew'
  <2> SUFFICES ASSUME TypeOK, ClosedIffFew, [Next]_vars PROVE ClosedIffFew'
    OBVIOUS
  <2>1. CASE Tick \/ NodeChanges \/ UNCHANGED vars
    BY <2>1 DEF Tick, NodeChanges, vars, ClosedIffFew
  <2>2. ASSUME NEW p \in Callers, Admit(p) \/ Refuse(p) \/ Retry(p) PROVE ClosedIffFew'
    BY <2>2 DEF Admit, Refuse, Retry, ClosedIffFew
  <2>3. ASSUME NEW p \in Callers, Fail(p) PROVE ClosedIffFew'
    BY <2>3, BreakerAssumption DEF Fail, ClosedIffFew, TypeOK
  <2>4. ASSUME NEW p \in Callers, Succeed(p) PROVE ClosedIffFew'
    BY <2>4, BreakerAssumption DEF Succeed, ClosedIffFew
  <2> QED BY <2>1, <2>2, <2>3, <2>4 DEF Next, CallerStep
<1> QED BY <1>1, <1>2, BreakerTyped, PTL DEF Spec

\* A half open breaker has seen no failure for the whole cooldown.
QuietHalf == state = "HALF_OPEN" => age > Cooldown

LEMMA HalfOpenQuiet == Spec => []QuietHalf
<1>1. Init => QuietHalf
  BY DEF Init, QuietHalf
<1>2. TypeOK /\ ClosedIffFew /\ QuietHalf /\ [Next]_vars => QuietHalf'
  <2> SUFFICES ASSUME TypeOK, ClosedIffFew, QuietHalf, [Next]_vars PROVE QuietHalf'
    OBVIOUS
  <2>1. CASE Tick \/ NodeChanges \/ UNCHANGED vars
    BY <2>1, BreakerAssumption DEF Tick, NodeChanges, vars, QuietHalf, TypeOK
  <2>2. ASSUME NEW p \in Callers, Admit(p) \/ Refuse(p) \/ Retry(p) PROVE QuietHalf'
    BY <2>2 DEF Admit, Refuse, Retry, QuietHalf
  <2>3. ASSUME NEW p \in Callers, Fail(p) PROVE QuietHalf'
    BY <2>3, BreakerAssumption DEF Fail, ClosedIffFew, QuietHalf, TypeOK
  <2>4. ASSUME NEW p \in Callers, Succeed(p) PROVE QuietHalf'
    BY <2>4 DEF Succeed, QuietHalf
  <2> QED BY <2>1, <2>2, <2>3, <2>4 DEF Next, CallerStep
<1> QED BY <1>1, <1>2, BreakerTyped, CounterDecides, PTL DEF Spec

\* No call begins within the cooldown of the last of Threshold failures, in
\* whatever order the results of earlier calls come back.
THEOREM ShutForCooldown == Spec => ShutAfterFailure
<1>1. TypeOK /\ ClosedIffFew /\ QuietHalf /\ [Next]_vars
        => (Running' \subseteq Running \/ failures < Threshold \/ age > Cooldown)
  <2> SUFFICES ASSUME TypeOK, ClosedIffFew, QuietHalf, [Next]_vars
               PROVE  Running' \subseteq Running \/ failures < Threshold \/ age > Cooldown
    OBVIOUS
  <2>1. CASE Tick \/ NodeChanges \/ UNCHANGED vars
    BY <2>1 DEF Tick, NodeChanges, vars, Running
  <2>2. ASSUME NEW p \in Callers, Refuse(p) \/ Retry(p) \/ Fail(p) \/ Succeed(p)
        PROVE  Running' \subseteq Running
    BY <2>2 DEF Refuse, Retry, Fail, Succeed, Running, TypeOK
  <2>3. ASSUME NEW p \in Callers, Admit(p) PROVE failures < Threshold \/ age > Cooldown
    BY <2>3 DEF Admit, ClosedIffFew, QuietHalf, TypeOK
  <2> QED BY <2>1, <2>2, <2>3 DEF Next, CallerStep
<1> QED BY <1>1, BreakerTyped, CounterDecides, HalfOpenQuiet, PTL DEF Spec, ShutAfterFailure
=============================================================================
