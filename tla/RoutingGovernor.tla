-------------------------- MODULE RoutingGovernor --------------------------
(***************************************************************************)
(* codex_routing_governor.ts: advice on where a build goes, from pressure   *)
(* signals with hysteresis latches and one circuit breaker per provider.    *)
(* The state is the GovernorState that dev-pm carries between calls; the    *)
(* clock is the caller's and does not run backwards.  Rates and budgets are *)
(* levels compared with the thresholds.  recordOutcome is called with the   *)
(* time (fresh) or without it, and then takes the clock of the last call.   *)
(***************************************************************************)
EXTENDS Integers

CONSTANTS Level,                 \* the values a rate or a budget takes
          anthropic429Hi, anthropic429Lo, codexBudgetHi, codexBudgetLo,
          breakerConsecutiveFailures, breakerCooldownMs,
          MaxNow,                \* bound: the caller's clock
          MaxFails               \* bound: consecutive failures counted

GovernorAssumption ==
    /\ Level \subseteq Nat
    /\ anthropic429Hi \in Nat /\ anthropic429Lo \in Nat /\ anthropic429Lo <= anthropic429Hi
    /\ codexBudgetHi \in Nat /\ codexBudgetLo \in Nat /\ codexBudgetLo < codexBudgetHi
    /\ breakerConsecutiveFailures \in Nat \ {0} /\ breakerCooldownMs \in Nat \ {0}
    /\ MaxNow \in Nat /\ MaxFails \in Nat

Provider == {"claude", "codex"}
Target == Provider \cup {"queue"}

\* What routing looks at in a task: a reserved role or a protected path (both hard for Claude),
\* peakCritical, and the fit (claude_strong and either end at the same rule).
Task == [hard : BOOLEAN, peakCritical : BOOLEAN, fit : {"codex_strong", "either"}]

VARIABLES now,       \* the caller's clock
          lastNow,   \* state.lastNow
          high429, highBudget,   \* the two latches
          fails,     \* [Provider -> consecutiveFailures]
          openUntil, \* [Provider -> 0, or when the breaker closes]
          last,      \* the last decision: [hard, target, open, pressed]
          tail       \* history: [Provider -> failures in a row, and the clock of the last one]

vars == <<now, lastNow, high429, highBudget, fails, openUntil, last, tail>>

NoDecision == [hard |-> FALSE, target |-> "queue", open |-> {}, pressed |-> {}]

Init ==
    /\ now = 1 /\ lastNow = 1 /\ high429 = FALSE /\ highBudget = FALSE
    /\ fails = [p \in Provider |-> 0] /\ openUntil = [p \in Provider |-> 0]
    /\ last = NoDecision /\ tail = [p \in Provider |-> [n |-> 0, at |-> 0]]

\* Time passes between calls.
Tick ==
    /\ now < MaxNow /\ now' = now + 1
    /\ UNCHANGED <<lastNow, high429, highBudget, fails, openUntil, last, tail>>

\* latchHigh: set at hi, cleared only at lo.
latchHigh(current, value, hi, lo, hiInclusive) ==
    IF current THEN value > lo ELSE IF hiInclusive THEN value >= hi ELSE value > hi

\* breakerOpen, and the closing of an elapsed breaker.
breakerOpen(p) == openUntil[p] > now
Closed == [p \in Provider |-> IF breakerOpen(p) THEN openUntil[p] ELSE 0]

\* Mutant of select: a claude target is not looked at again.
selectOnce(target, isHard, open, pressed) ==
    IF target = "codex" /\ "codex" \in pressed
    THEN IF "claude" \in pressed THEN "queue" ELSE "claude"
    ELSE target

\* select: a pressured codex falls back to claude or the queue, an open claude breaker to codex
\* or the queue, a hard task only to the queue.
select(target, isHard, open, pressed) ==
    IF target = "codex" /\ "codex" \in pressed
    THEN IF "claude" \in pressed THEN "queue" ELSE "claude"
    ELSE IF target = "claude" /\ "claude" \in open
    THEN IF isHard \/ "codex" \in pressed THEN "queue" ELSE "codex"
    ELSE target

\* The ordered rules of routeBuild, before select.
rule(t, pressed, h429, budgetOrSecondary, peakWindow) ==
    IF t.hard THEN "claude"
    ELSE IF pressed = Provider THEN "queue"
    ELSE IF peakWindow /\ ~t.peakCritical THEN "codex"
    ELSE IF h429 THEN "codex"
    ELSE IF budgetOrSecondary THEN "claude"
    ELSE IF t.fit = "codex_strong" THEN "codex" ELSE "claude"

\* routeBuild: latches, breakers, rules, selection.
routeBuild(t, rate, budget, secondary, peakWindow) ==
    LET h429 == latchHigh(high429, rate, anthropic429Hi, anthropic429Lo, FALSE)
        hBud == latchHigh(highBudget, budget, codexBudgetHi, codexBudgetLo, TRUE)
        open == {p \in Provider : breakerOpen(p)}
        pressed == open \cup (IF h429 THEN {"claude"} ELSE {})
                        \cup (IF hBud \/ secondary THEN {"codex"} ELSE {})
        target == select(rule(t, pressed, h429, hBud \/ secondary, peakWindow),
                         t.hard, open, pressed)
    IN  /\ high429' = h429 /\ highBudget' = hBud /\ openUntil' = Closed /\ lastNow' = now
        /\ last' = [hard |-> t.hard, target |-> target, open |-> open, pressed |-> pressed]
        /\ UNCHANGED <<now, fails, tail>>

\* Mutant of recordOutcome: an ok outcome leaves the counter alone.
recordOutcomeKeeps(p, outcome, fresh) ==
    LET at == IF fresh THEN now ELSE lastNow
        n == IF outcome = "ok" THEN fails[p] ELSE fails[p] + 1
    IN  /\ n <= MaxFails
        /\ lastNow' = at
        /\ fails' = [fails EXCEPT ![p] = n]
        /\ openUntil' = [openUntil EXCEPT ![p] =
               IF outcome = "ok" THEN 0
               ELSE IF n >= breakerConsecutiveFailures THEN at + breakerCooldownMs ELSE @]
        /\ tail' = [tail EXCEPT ![p] = IF outcome = "ok" THEN [n |-> 0, at |-> 0]
                                       ELSE [n |-> @.n + 1, at |-> at]]
        /\ UNCHANGED <<now, high429, highBudget, last>>

\* recordOutcome: ok resets and closes the breaker; enough failures in a row open it from the
\* clock of the call (`fresh`), or from that of the last call when none is given.
recordOutcome(p, outcome, fresh) ==
    LET at == IF fresh THEN now ELSE lastNow
        n == IF outcome = "ok" THEN 0 ELSE fails[p] + 1
    IN  /\ n <= MaxFails
        /\ lastNow' = at
        /\ fails' = [fails EXCEPT ![p] = n]
        /\ openUntil' = [openUntil EXCEPT ![p] =
               IF outcome = "ok" THEN 0
               ELSE IF n >= breakerConsecutiveFailures THEN at + breakerCooldownMs ELSE @]
        /\ tail' = [tail EXCEPT ![p] = IF outcome = "ok" THEN [n |-> 0, at |-> 0]
                                       ELSE [n |-> @.n + 1, at |-> at]]
        /\ UNCHANGED <<now, high429, highBudget, last>>

Next ==
    \/ Tick
    \/ \E t \in Task, rate \in Level, budget \in Level, s \in BOOLEAN, w \in BOOLEAN :
          routeBuild(t, rate, budget, s, w)
    \/ \E p \in Provider, o \in {"ok", "shed", "429"}, fresh \in BOOLEAN : recordOutcome(p, o, fresh)

Spec == Init /\ [][Next]_vars

-----------------------------------------------------------------------------
(* Properties *)

TypeOK ==
    /\ now \in Nat /\ lastNow \in Nat /\ high429 \in BOOLEAN /\ highBudget \in BOOLEAN
    /\ fails \in [Provider -> Nat] /\ openUntil \in [Provider -> Nat]
    /\ last \in [hard : BOOLEAN, target : Target, open : SUBSET Provider, pressed : SUBSET Provider]
    /\ tail \in [Provider -> [n : Nat, at : Nat]]

\* Where a build may go: never to a provider whose breaker is open, a reserved or protected task
\* never to codex, and any other task never to a provider under pressure (rules, fallbacks and
\* the second look of `select` taken together).
RouteSafe ==
    /\ last.target \notin last.open
    /\ last.hard => last.target # "codex"
    /\ ~last.hard => last.target \notin last.pressed

\* The breaker is open exactly while the failures in a row have reached the limit and the
\* cooldown, counted from the clock recordOutcome used, has not passed: one ok closes it, a
\* failure after the cooldown reopens it at once.
BreakerHonest ==
    \A p \in Provider :
        breakerOpen(p) <=> /\ tail[p].n >= breakerConsecutiveFailures
                           /\ now < tail[p].at + breakerCooldownMs

\* Both: where a build goes, and why a provider is out.
GovernorSafe == RouteSafe /\ BreakerHonest

=============================================================================
