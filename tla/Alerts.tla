------------------------------- MODULE Alerts --------------------------------
(***************************************************************************)
(* Alert rules (go/tun/alerts): every 30 seconds the evaluator reads the   *)
(* rules and the tables, notifies the targets of each rule whose condition *)
(* holds outside its cooldown, and stamps the rule.  One rule, which       *)
(* watches an agent (AGENT_OFFLINE or TOKEN_OFFLINE: the conditions with a *)
(* memory) or a table (the other five, which hold or don't).  Times are    *)
(* ages, counted in rounds up to the threshold or the cooldown.            *)
(***************************************************************************)
EXTENDS Integers

CONSTANTS
    Threshold,   \* how long an agent is away before the rule holds
    Cooldown,    \* rounds between two firings
    MaxRuleEdits,  \* bound on an operator's edits of the rule
    MaxMishaps     \* bound on failed reads and writes, and backend restarts

VARIABLES
    watches,    \* what the rule is about: "agent" or "table"
    holdsNow,   \* the condition of a "table" rule
    agent,      \* the agent's record: "online", "offline" or "none"
    goneFor,    \* age of last_seen, when offline
    missing,    \* the evaluator's missingSince: its age, -1 when not set
    enabled, version,  \* the stored rule: enabled, and the rest of what it says
    cooling,    \* rounds left of the stored rule's cooldown
    judged,     \* the evaluator's round: its stage and copy of the rule
    ruleEdits, mishaps

alertVars == <<watches, holdsNow, agent, goneFor, missing, enabled, version, cooling, judged, ruleEdits, mishaps>>
world == <<watches, holdsNow, agent, goneFor>>
ruleVars == <<enabled, version, cooling>>

NoRound == [stage |-> "idle", enabled |-> FALSE, version |-> 0, cooling |-> 0]

AlertInit ==
    /\ watches \in {"agent", "table"} /\ holdsNow = FALSE
    /\ agent = "online" /\ goneFor = 0 /\ missing = -1
    /\ enabled = TRUE /\ version = 0 /\ cooling = 0
    /\ judged = NoRound /\ ruleEdits = 0 /\ mishaps = 0

Mishap == mishaps < MaxMishaps /\ mishaps' = mishaps + 1
Up(n, max) == IF n < max THEN n + 1 ELSE n

-----------------------------------------------------------------------------
(* One round of the evaluator.                                             *)

\* Rules.
ReadRules ==
    /\ judged.stage = "idle"
    /\ judged' = [stage |-> "due", enabled |-> enabled, version |-> version, cooling |-> cooling]
    /\ UNCHANGED <<world, missing, ruleVars, ruleEdits, mishaps>>

\* A faulty variant: every round without a record starts the count again.
OfflineForgets(m) ==
    CASE agent = "online" -> [hit |-> FALSE, missing |-> -1]
      [] agent = "none" -> [hit |-> m >= Threshold, missing |-> 0]
      [] agent = "offline" -> [hit |-> goneFor >= Threshold, missing |-> -1]

\* offline: no agent online, and all gone for the threshold; with no record at all
\* the time counts from the first round that saw none.
Offline(m) ==
    CASE agent = "online" -> [hit |-> FALSE, missing |-> -1]
      [] agent = "none" -> [hit |-> m >= Threshold, missing |-> IF m = -1 THEN 0 ELSE m]
      [] agent = "offline" -> [hit |-> goneFor >= Threshold, missing |-> -1]

\* holds: an agent's absence, or what the tables say now.
Holds(o) == IF watches = "agent" THEN o.hit ELSE holdsNow

\* snapshot and Due; a disabled rule is not judged.
Due ==
    /\ judged.stage = "due"
    /\ LET o == Offline(missing)
           hit == judged.enabled /\ Holds(o)
       IN /\ missing' = IF judged.enabled /\ watches = "agent" THEN o.missing ELSE missing
          /\ judged' = IF hit /\ judged.cooling = 0 THEN [judged EXCEPT !.stage = "fire"] ELSE NoRound
    /\ UNCHANGED <<world, ruleVars, ruleEdits, mishaps>>

\* A source that couldn't be read: the conditions that depend on it are skipped.
Unknown ==
    /\ judged.stage = "due" /\ Mishap
    /\ judged' = NoRound
    /\ UNCHANGED <<world, missing, ruleVars, ruleEdits>>

\* fire: the targets are notified.
Notify ==
    /\ judged.stage = "fire" /\ judged' = [judged EXCEPT !.stage = "stamp"]
    /\ UNCHANGED <<world, missing, ruleVars, ruleEdits, mishaps>>

\* fire: the rule as it was read is patched over the stored one, with last_fired;
\* a patch sets the fields that aren't zero.
Stamp ==
    /\ judged.stage = "stamp" /\ judged' = NoRound
    /\ version' = judged.version /\ enabled' = (enabled \/ judged.enabled)
    /\ cooling' = Cooldown
    /\ UNCHANGED <<world, missing, ruleEdits, mishaps>>

StampFails ==
    /\ judged.stage = "stamp" /\ judged' = NoRound /\ Mishap
    /\ UNCHANGED <<world, missing, ruleVars, ruleEdits>>

-----------------------------------------------------------------------------
(* Time, the agent, the operator and restarts.                             *)
TimePasses ==
    /\ goneFor' = IF agent = "offline" THEN Up(goneFor, Threshold) ELSE 0
    /\ missing' = IF missing = -1 THEN -1 ELSE Up(missing, Threshold)
    /\ cooling' = IF cooling > 0 THEN cooling - 1 ELSE 0
    /\ judged' = [judged EXCEPT !.cooling = IF @ > 0 THEN @ - 1 ELSE 0]
    /\ <<goneFor, missing, cooling, judged>>' # <<goneFor, missing, cooling, judged>>
    /\ UNCHANGED <<watches, holdsNow, agent, enabled, version, ruleEdits, mishaps>>

\* The agent connects or leaves; its record expires, or goes with the registry.
AgentRecord(s) ==
    /\ watches = "agent" /\ s # agent /\ (s = "offline" => agent = "online")
    /\ agent' = s /\ goneFor' = 0
    /\ UNCHANGED <<watches, holdsNow, missing, ruleVars, judged, ruleEdits, mishaps>>

TableChanges ==
    /\ watches = "table" /\ holdsNow' = ~holdsNow
    /\ UNCHANGED <<watches, agent, goneFor, missing, ruleVars, judged, ruleEdits, mishaps>>

\* A valid rule is put over the stored one, with or without its last_fired.
OperatorEdits(e) ==
    /\ ruleEdits < MaxRuleEdits /\ ruleEdits' = ruleEdits + 1
    /\ version' = ruleEdits + 1 /\ enabled' = e
    /\ cooling' \in {0, cooling}
    /\ UNCHANGED <<world, missing, judged, mishaps>>

\* The backend restarts: the evaluator starts with an empty memory.
BackendRestarts ==
    /\ Mishap /\ missing' = -1 /\ judged' = NoRound
    /\ UNCHANGED <<world, ruleVars, ruleEdits>>

AlertNext ==
    \/ ReadRules \/ Due \/ Unknown \/ Notify \/ Stamp \/ StampFails
    \/ TimePasses \/ TableChanges \/ BackendRestarts
    \/ \E s \in {"online", "offline", "none"} : AgentRecord(s)
    \/ \E e \in BOOLEAN : OperatorEdits(e)

\* The evaluator's loop.
Round == ReadRules \/ Due \/ Notify \/ Stamp

\* The evaluator's loop runs and time passes.
AlertFairness == WF_alertVars(Round) /\ WF_alertVars(TimePasses)

AlertSpec == AlertInit /\ [][AlertNext]_alertVars /\ AlertFairness

-----------------------------------------------------------------------------
\* What stays wrong is told, and told again after each cooldown: while an enabled
\* rule's agent stays away, whether its record says so, is gone, or was forgotten
\* by a restart on the way, or its table condition persists, its targets are
\* notified again and again (Due, offline, fire).
AlertRaised ==
    <>[](enabled /\ IF watches = "agent" THEN agent # "online" ELSE holdsNow)
      => []<>(judged.stage = "fire")
=============================================================================
