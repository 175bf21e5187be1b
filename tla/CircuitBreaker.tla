--------------------------- MODULE CircuitBreaker ---------------------------
(***************************************************************************)
(* The circuit breaker that internal/api/storage_client.go keeps for each  *)
(* storage node.  executewithBreaker takes cb.mu twice, once to let the    *)
(* call through and once to book its result; in between any number of      *)
(* other calls to the node do the same.                                    *)
(*                                                                         *)
(* Time is counted in ticks since lastFailure, up to the first tick after  *)
(* the 30 seconds (Cooldown ticks) of the OPEN state.                      *)
(***************************************************************************)
EXTENDS Naturals, FiniteSets

CONSTANTS
    Callers,      \* goroutines that call the node
    Threshold,    \* failures that trip the breaker: 3
    Cooldown,     \* ticks of the OPEN state: 30 seconds
    MaxFailures   \* bound on the failure counter

ASSUME BreakerAssumption ==
    /\ Threshold \in Nat \ {0}
    /\ Cooldown \in Nat
    /\ MaxFailures \in Nat

VARIABLES
    state,        \* cb.state
    failures,     \* cb.failures
    age,          \* ticks since cb.lastFailure
    pc,           \* pc[p]: "idle", "running" its operation, or "refused"
    node          \* the node and its callers: "good", every call succeeds; "bad",
                  \* every call fails; "mixed", the node works but some calls
                  \* are for chunks it has not, or their context is cancelled

vars == <<state, failures, age, pc, node>>

TypeOK ==
    /\ state \in {"CLOSED", "OPEN", "HALF_OPEN"}
    /\ failures \in 0..MaxFailures
    /\ age \in 0..(Cooldown + 1)
    /\ pc \in [Callers -> {"idle", "running", "refused"}]
    /\ node \in {"good", "mixed", "bad"}

Init ==
    /\ state = "CLOSED"
    /\ failures = 0
    /\ age = Cooldown + 1
    /\ pc = [p \in Callers |-> "idle"]
    /\ node = "good"

Running == {p \in Callers : pc[p] = "running"}

\* The call goes through; the first one after the cooldown opens the door
\* half, and then it is open for all.
Admit(p) ==
    /\ pc[p] = "idle"
    /\ state = "OPEN" => age > Cooldown
    /\ state' = IF state = "OPEN" THEN "HALF_OPEN" ELSE state
    /\ pc' = [pc EXCEPT ![p] = "running"]
    /\ UNCHANGED <<failures, age, node>>

\* Seeded fault: a refused call counts as a failure of this moment.
RefuseLate(p) ==
    /\ pc[p] = "idle" /\ state = "OPEN" /\ age <= Cooldown
    /\ age' = 0
    /\ pc' = [pc EXCEPT ![p] = "refused"]
    /\ UNCHANGED <<state, failures, node>>

\* "circuit breaker open for node"
Refuse(p) ==
    /\ pc[p] = "idle" /\ state = "OPEN" /\ age <= Cooldown
    /\ pc' = [pc EXCEPT ![p] = "refused"]
    /\ UNCHANGED <<state, failures, age, node>>

Retry(p) ==
    /\ pc[p] = "refused"
    /\ pc' = [pc EXCEPT ![p] = "idle"]
    /\ UNCHANGED <<state, failures, age, node>>

\* Seeded fault: only the failure that reaches the threshold trips the breaker,
\* the failure of a test call does not.
FailAtThreshold(p) ==
    /\ pc[p] = "running" /\ node # "good" /\ failures < MaxFailures
    /\ failures' = failures + 1
    /\ age' = 0
    /\ state' = IF failures + 1 = Threshold THEN "OPEN" ELSE state
    /\ pc' = [pc EXCEPT ![p] = "idle"]
    /\ UNCHANGED node

Fail(p) ==
    /\ pc[p] = "running" /\ node # "good" /\ failures < MaxFailures
    /\ failures' = failures + 1
    /\ age' = 0
    /\ state' = IF failures + 1 >= Threshold THEN "OPEN" ELSE state
    /\ pc' = [pc EXCEPT ![p] = "idle"]
    /\ UNCHANGED node

\* Seeded faults: the counter is not reset, or only counted down.
SucceedNoReset(p) ==
    /\ pc[p] = "running" /\ node # "bad"
    /\ state' = "CLOSED"
    /\ pc' = [pc EXCEPT ![p] = "idle"]
    /\ UNCHANGED <<failures, age, node>>

SucceedCountsDown(p) ==
    /\ pc[p] = "running" /\ node # "bad"
    /\ failures' = failures - 1
    /\ state' = "CLOSED"
    /\ pc' = [pc EXCEPT ![p] = "idle"]
    /\ UNCHANGED <<age, node>>

Succeed(p) ==
    /\ pc[p] = "running" /\ node # "bad"
    /\ failures' = 0
    /\ state' = "CLOSED"
    /\ pc' = [pc EXCEPT ![p] = "idle"]
    /\ UNCHANGED <<age, node>>

Tick ==
    /\ age <= Cooldown
    /\ age' = age + 1
    /\ UNCHANGED <<state, failures, pc, node>>

NodeChanges ==
    /\ node' \in {"good", "mixed", "bad"}
    /\ UNCHANGED <<state, failures, age, pc>>

CallerStep(p) == Admit(p) \/ Refuse(p) \/ Retry(p) \/ Fail(p) \/ Succeed(p)

Next == Tick \/ NodeChanges \/ \E p \in Callers : CallerStep(p)

Spec == Init /\ [][Next]_vars

\* Time passes, callers keep calling, and a call ends.
Fairness ==
    /\ WF_vars(Tick)
    /\ \A p \in Callers : WF_vars(Admit(p)) /\ WF_vars(Retry(p)) /\ WF_vars(Succeed(p))

FairSpec == Spec /\ Fairness

----------------------------------------------------------------------------
\* Counter and state agree at every unlock, whatever late results do to them:
\* the breaker lets calls pass freely exactly while fewer than Threshold
\* failures have been counted since the last success.
ClosedIffFew == state = "CLOSED" <=> failures < Threshold

\* Once Threshold failures are counted since the last success, a call reaches
\* the node only when the last failure is more than 30 seconds ago: also after
\* a failed test call, and also when calls let through before the breaker
\* opened, or beside the test call, come back late with a failure.
ShutAfterFailure ==
    [][Running' \subseteq Running \/ failures < Threshold \/ age > Cooldown]_vars

\* A node that is in good health for good gets its calls again: neither late
\* failures nor refused calls keep the breaker open for ever.
Recovers == (<>[](node = "good")) => []<>(state = "CLOSED")
=============================================================================
