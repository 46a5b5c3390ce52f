------------------------------ MODULE PollRearm ------------------------------
(***************************************************************************)
(* The self-perpetuating chain of poll-sources runs.  A run polls, waits   *)
(* in the poll-rearm environment, and then dispatches the next run, but    *)
(* only if enough time has passed since its poll started and no newer run  *)
(* exists.  Meanwhile cron, kick-builds.sh and people start runs of their  *)
(* own, and people cancel runs.                                            *)
(*                                                                         *)
(* A run lives in a slot; only the runs the listing can still tell apart   *)
(* are kept.  Time passes in ticks, counted per run up to what is tested.  *)
(***************************************************************************)
EXTENDS Naturals, FiniteSets

CONSTANTS
    Slots,       \* room for runs: a bound on those alive at one time
    MinDelay,    \* POLL_REARM_MIN_DELAY_S, in ticks
    JobTimeout,  \* timeout-minutes of the rearm job, in ticks
    MaxKicks,    \* bound on runs the chain did not start itself
    DryRuns      \* whether those include dry runs or runs off master

\* 15 minutes against timeout-minutes: 5.
ASSUME DelayAssumption ==
    /\ MinDelay \in Nat /\ JobTimeout \in Nat
    /\ JobTimeout < MinDelay
    /\ MaxKicks \in Nat
    /\ DryRuns \in BOOLEAN

VARIABLES
    state,    \* where the run of a slot is
    carries,  \* its rearm job's if: master, enabled, not a dry run
    newer,    \* <<s, t>>: run t was created after run s, and not cancelled
    age,      \* ticks since "Record poll start" (at most MinDelay)
    elapsed,  \* ticks since the rearm job listed the runs
    gap,      \* ticks since the chain last dispatched a run (at most MinDelay)
    kicks     \* runs started from outside so far

vars == <<state, carries, newer, age, elapsed, gap, kicks>>

States == {"free", "queued", "polling", "timer", "listed", "done"}

TypeOK ==
    /\ state \in [Slots -> States]
    /\ carries \in [Slots -> BOOLEAN]
    /\ newer \subseteq Slots \X Slots
    /\ age \in [Slots -> 0..MinDelay]
    /\ elapsed \in [Slots -> 0..JobTimeout]
    /\ gap \in 0..MinDelay
    /\ kicks \in 0..MaxKicks

Init ==
    /\ state = [s \in Slots |-> "free"]
    /\ carries = [s \in Slots |-> FALSE]
    /\ newer = {}
    /\ age = [s \in Slots |-> 0]
    /\ elapsed = [s \in Slots |-> 0]
    /\ gap = MinDelay
    /\ kicks = 0

Existing == {s \in Slots : state[s] # "free"}

-----------------------------------------------------------------------------
\* A run appears in slot n after run "by" (if any) is done.  The poll job
\* starts at once or waits in the group poll-sources, where it replaces the
\* run that was waiting; GitHub cancels that one, so it is no longer listed.
Create(n, by, armed) ==
    LET busy == \E s \in Slots : state[s] = "polling"
        evicted == IF busy THEN {s \in Slots : state[s] = "queued"} ELSE {}
    IN  /\ state[n] = "free"
        /\ state' = [s \in Slots |->
              IF s = n THEN IF busy THEN "queued" ELSE "polling"
              ELSE IF s \in evicted THEN "free"
              ELSE IF s \in by THEN "done" ELSE state[s]]
        /\ carries' = [s \in Slots |-> IF s = n THEN armed
                                       ELSE s \notin evicted /\ carries[s]]
        /\ newer' = (newer \cup ((Existing \ evicted) \X {n}))
                       \ ((evicted \X Slots) \cup (Slots \X evicted))
        /\ age' = [s \in Slots |-> IF s \in by \cup {n} THEN 0 ELSE age[s]]

\* cron, kick-builds.sh, or somebody's workflow_dispatch.
Kick(n) ==
    /\ kicks < MaxKicks
    /\ kicks' = kicks + 1
    /\ \E armed \in BOOLEAN : (DryRuns \/ armed) /\ Create(n, {}, armed)
    /\ UNCHANGED <<elapsed, gap>>

\* The run of slot s ends, and stays in the listing.
Finish(s) ==
    /\ state' = [state EXCEPT ![s] = "done"]
    /\ age' = [age EXCEPT ![s] = 0]
    /\ elapsed' = [elapsed EXCEPT ![s] = 0]

\* The run of slot s is no longer listed.
Vanish(s) ==
    /\ carries' = [carries EXCEPT ![s] = FALSE]
    /\ newer' = newer \ (({s} \X Slots) \cup (Slots \X {s}))

\* The poll job is over and the next in its group starts.  Unless it failed
\* before it recorded its start, the rearm job now waits in the environment.
EndPoll(s) ==
    /\ state[s] = "polling"
    /\ \E next \in {"timer", "done"} :
          /\ next = "timer" => carries[s]
          /\ state' = [t \in Slots |-> IF t = s THEN next
                                       ELSE IF state[t] = "queued" THEN "polling"
                                       ELSE state[t]]
          /\ age' = [t \in Slots |-> IF state[t] = "queued" \/ (t = s /\ next = "done")
                                     THEN 0 ELSE age[t]]
    /\ UNCHANGED <<carries, newer, elapsed, gap, kicks>>

\* Faulty variant for NoTightLoop: the delay is not checked.
PassesAtOnce(s) == TRUE

\* First gate of poll-rearm.sh.
WaitedEnough(s) == age[s] >= MinDelay

\* Faulty variant for RearmExclusive and ChainsConverge: no newest-run check.
AlwaysOwns(s) == TRUE

\* Second gate: the newest run that is not cancelled is this one.
OwnsChain(s) == \A t \in Slots : <<s, t>> \notin newer

\* The script starts when the environment lets it (after its wait timer, at
\* once if none is set), checks the delay, lists the runs, and goes on only as
\* the owner.
Rearm(s) ==
    /\ state[s] = "timer"
    /\ WaitedEnough(s)
    /\ OwnsChain(s)
    /\ state' = [state EXCEPT ![s] = "listed"]
    /\ elapsed' = [elapsed EXCEPT ![s] = 0]
    /\ UNCHANGED <<carries, newer, age, gap, kicks>>

\* Too early: an error.  A newer run: the chain of s stops here.
Stop(s) ==
    /\ state[s] = "timer"
    /\ ~WaitedEnough(s) \/ ~OwnsChain(s)
    /\ Finish(s)
    /\ UNCHANGED <<carries, newer, gap, kicks>>

\* The runs cannot be listed, or the job fails or times out before it has
\* dispatched.
RearmFails(s) ==
    /\ state[s] \in {"timer", "listed"}
    /\ Finish(s)
    /\ UNCHANGED <<carries, newer, gap, kicks>>

\* gh workflow run poll-sources.yml --ref master -f dry_run=false
Dispatch(s, n) ==
    /\ state[s] = "listed"
    /\ Create(n, {s}, TRUE)
    /\ gap' = 0
    /\ elapsed' = [elapsed EXCEPT ![s] = 0]
    /\ UNCHANGED kicks

-----------------------------------------------------------------------------
(* The environment.                                                        *)

\* Somebody cancels a run: it is no longer listed.  The next run of its
\* group starts.  The dispatch it came from no longer counts as a round.
CancelRun(s) ==
    /\ state[s] \notin {"free", "done"}
    /\ LET frees == state[s] = "polling"
       IN  /\ state' = [t \in Slots |->
                 IF t = s THEN "free"
                 ELSE IF frees /\ state[t] = "queued" THEN "polling"
                 ELSE state[t]]
           /\ age' = [t \in Slots |-> IF t = s \/ (frees /\ state[t] = "queued")
                                      THEN 0 ELSE age[t]]
    /\ elapsed' = [elapsed EXCEPT ![s] = 0]
    /\ Vanish(s)
    /\ gap' = MinDelay
    /\ UNCHANGED kicks

\* A finished run with no live run before it is never asked about again.
Forget(s) ==
    /\ state[s] = "done"
    /\ \A t \in Slots : <<t, s>> \in newer => state[t] = "done"
    /\ state' = [state EXCEPT ![s] = "free"]
    /\ Vanish(s)
    /\ UNCHANGED <<age, elapsed, gap, kicks>>

\* A rearm job does not outlive its timeout.
Tick ==
    /\ \A s \in Slots : state[s] = "listed" => elapsed[s] < JobTimeout
    /\ age' = [s \in Slots |->
                 IF state[s] \in {"polling", "timer", "listed"} /\ age[s] < MinDelay
                 THEN age[s] + 1 ELSE age[s]]
    /\ elapsed' = [s \in Slots |-> IF state[s] = "listed" THEN elapsed[s] + 1
                                   ELSE elapsed[s]]
    /\ gap' = IF gap < MinDelay THEN gap + 1 ELSE gap
    /\ UNCHANGED <<state, carries, newer, kicks>>

Script(s) == Rearm(s) \/ Stop(s) \/ RearmFails(s) \/ \E n \in Slots : Dispatch(s, n)

Next ==
    \/ \E s \in Slots : Kick(s) \/ EndPoll(s) \/ Script(s) \/ CancelRun(s)
                        \/ Forget(s)
    \/ Tick

Spec == Init /\ [][Next]_vars

\* Jobs have a timeout, the environment's timer runs out, and time passes.
FairSpec ==
    /\ Spec
    /\ WF_vars(Tick)
    /\ \A s \in Slots : WF_vars(EndPoll(s)) /\ WF_vars(Script(s)) /\ WF_vars(Forget(s))

-----------------------------------------------------------------------------
(* Properties.                                                             *)

\* Runs that may still start another one.
Chains == {s \in Slots : carries[s] /\ state[s] \notin {"free", "done"}}

\* At most one rearm job is between its look at the run list and its
\* dispatch, although nothing locks the list.
RearmExclusive ==
    \A s, t \in Slots : state[s] = "listed" /\ state[t] = "listed" => s = t

\* The chain is no tight loop, also without a wait timer and however many
\* chains there are: its dispatches lie MinDelay apart, unless somebody has
\* cancelled a run since the last one.
NoTightLoop ==
    [][\A s \in Slots : state[s] = "listed" /\ gap' = 0 => gap >= MinDelay]_vars

\* poll-rearm.sh: chains that exist side by side converge to one.
ChainsConverge == <>[](Cardinality(Chains) <= 1)
=============================================================================
