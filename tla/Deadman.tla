-------------------------------- MODULE Deadman --------------------------------
(***************************************************************************)
(* The off-box observer of the alert chain                                 *)
(* (deadman/canonical/scripts/alert-chain-deadman-check.py, called by      *)
(* alert-chain-deadman.yml).  The emitter on the bastion is external: it   *)
(* writes a receipt every Period with its own clock, which may lead or lag *)
(* the observer's.  Time is in ticks; the observer runs when GitHub gets   *)
(* to it, at most MaxGap ticks apart.                                      *)
(***************************************************************************)
EXTENDS Integers

CONSTANTS
    Period,      \* between two receipts of a live emitter
    MaxAge,      \* --max-age-seconds
    MaxGap,      \* the longest the scheduler leaves the observer waiting
    Leads,       \* by how much the emitter's clock is ahead
    Horizon      \* bound: ages are not told apart beyond it

\* A live emitter is never taken for a dead one by a clock that agrees: a
\* receipt every 5 minutes, good for 45 (alert-chain-deadman-check.py:50-55).
DelaysAssumption ==
    /\ Period \in Nat /\ MaxAge \in Nat /\ MaxGap \in Nat /\ Horizon \in Nat
    /\ Period <= MaxAge
    /\ Leads \subseteq Int

VARIABLES chain, age, lead, status, waited, outage, alarmed

vars == <<chain, age, lead, status, waited, outage, alarmed>>

Init ==
    /\ chain = "ok" /\ age = 0 /\ lead \in Leads /\ status = "ok"
    /\ waited = 0 /\ outage = 0 /\ alarmed = FALSE

Emitting == chain \in {"ok", "degraded"}

Older(n) == IF n < Horizon THEN n + 1 ELSE n

Tick ==
    /\ waited < MaxGap /\ (Emitting => age < Period)
    /\ age' = Older(age) /\ waited' = waited + 1
    /\ outage' = IF chain = "ok" THEN 0 ELSE Older(outage)
    /\ UNCHANGED <<chain, lead, status, alarmed>>

\* A receipt says that the emitter lives, and whether alerts can be delivered.
Emit ==
    /\ Emitting
    /\ age' = 0 /\ status' = chain /\ lead' \in Leads
    /\ UNCHANGED <<chain, waited, outage, alarmed>>

\* The timer stops, the delivery of alerts breaks, or the host is gone.
Break ==
    /\ chain = "ok" /\ chain' \in {"stopped", "degraded", "gone"}
    /\ outage' = 0 /\ alarmed' = FALSE
    /\ UNCHANGED <<age, lead, status, waited>>

Repair ==
    /\ chain # "ok" /\ alarmed /\ chain' = "ok"
    /\ age' = 0 /\ status' = "ok" /\ lead' \in Leads
    /\ outage' = 0 /\ alarmed' = FALSE
    /\ UNCHANGED waited

\* Faulty variant for DetectedInTime: whoever writes receipts is well.
EvaluateAge ==
    LET seen == age - lead IN
    IF chain = "gone" THEN "missing"
    ELSE IF seen > MaxAge THEN "stale"
    ELSE IF seen < -MaxAge THEN "corrupt" ELSE "ok"

\* evaluate(): what cannot be read is no receipt, an old one is stale, one
\* from the future is as bad, and a live emitter may say it cannot deliver.
Evaluate ==
    LET seen == age - lead IN
    IF chain = "gone" THEN "missing"
    ELSE IF seen > MaxAge THEN "stale"
    ELSE IF seen < -MaxAge THEN "corrupt"
    ELSE IF status # "ok" THEN "degraded" ELSE "ok"

\* main(): every verdict but "ok" fails the run, which is the alarm.
Observe ==
    /\ waited > 0 /\ waited' = 0
    /\ alarmed' = (alarmed \/ Evaluate # "ok")
    /\ UNCHANGED <<chain, age, lead, status, outage>>

Next == Tick \/ Emit \/ Break \/ Repair \/ Observe

Spec == Init /\ [][Next]_vars

-----------------------------------------------------------------------------
\* "A detection latency of that interval plus 45 min"
\* (alert-chain-deadman.yml:14-15): an outage that has not raised the alarm is
\* no older than the gap between two runs, the age a receipt may have, and the
\* lead of the clock that wrote it (evaluate(), main()).
DetectedInTime ==
    chain # "ok" /\ ~alarmed =>
        outage <= MaxGap + MaxAge + (IF lead > 0 THEN lead ELSE 0)
=============================================================================
