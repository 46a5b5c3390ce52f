--------------------------------- MODULE Poll ---------------------------------
(***************************************************************************)
(* Polling the source repositories: rounds of poll-sources.yml look for    *)
(* images that HEAD lacks and dispatch build.yml runs, next to the release *)
(* owner's own runs.  Nothing is remembered between rounds: what is built  *)
(* and what runs is read from the registry and the run list, one query at  *)
(* a time, while branches move and runs end.                               *)
(*                                                                         *)
(* A group is the images of one source repository.  The rounds themselves  *)
(* do not overlap (concurrency group poll-sources); how they come about is *)
(* in PollRearm, and what a run does inside in BuildRun and ImageRelease.  *)
(***************************************************************************)
EXTENDS PollDecision

CONSTANTS
    Groups,      \* groups of services.json
    ServicesOf,  \* ServicesOf[g]: the images of group g
    OpsGroups,   \* groups whose runs need a migration_base (onesyue/yueops)
    Inputs,      \* Inputs[s][c]: build-input fingerprint of image s at c
    MaxPushes,   \* bound on pushes to the default branches
    MaxReleases, \* bound on the release owner's runs
    MaxFailures  \* bound on failed rounds and runs

Services == UNION {ServicesOf[g] : g \in Groups}

ASSUME GroupAssumption ==
    /\ ServicesOf \in [Groups -> SUBSET Services]
    /\ \A g, h \in Groups : g # h => ServicesOf[g] \cap ServicesOf[h] = {}
    /\ \A g \in Groups \cap Services : ServicesOf[g] = {g}
    /\ OpsGroups \subseteq Groups
    /\ MaxPushes \in Nat /\ MaxReleases \in Nat /\ MaxFailures \in Nat

VARIABLES
    head,       \* head[g]: tip of the default branch of g's repository
    built,      \* <<s, c>>: the registry has built-<c> for image s
    latest,     \* latest[s]: revision at :latest of image s, or NoCommit
    running,    \* active build.yml runs
    waiting,    \* runs queued behind one of the same target and ref
    pc,         \* where the round is: "idle", "scan", "probe", "list", "send"
    todo,       \* groups the round has yet to scan
    group, sha, \* the group being scanned and the HEAD it was read at
    probes,     \* its images not yet looked up
    missing,    \* its images found without a marker
    facts,      \* what is known of those asked about
    pending,    \* dispatches the round has decided on
    pushes, releases, failures

world == <<head, built, latest>>
queues == <<running, waiting>>
scan == <<todo, group, sha, probes, missing, facts>>
counters == <<pushes, releases, failures>>
vars == <<world, queues, pc, scan, pending, counters>>

\* A dispatch and its run, the poller's (by = 0) or a release.  wanted and
\* build are the images it was decided for, which the run does not know.
Run == [by: 0..MaxReleases, target: Groups \cup Services, ref: Commits,
        promote: BOOLEAN, base: Commits \cup {NoCommit},
        wanted: SUBSET Services, build: SUBSET Services]

\* What build.yml builds for a target.
ServicesIn(target) == IF target \in Groups THEN ServicesOf[target] ELSE {target}

TypeOK ==
    /\ head \in [Groups -> Commits]
    /\ built \subseteq Services \X Commits
    /\ latest \in [Services -> Commits \cup {NoCommit}]
    /\ running \subseteq Run /\ waiting \subseteq Run
    /\ pc \in {"idle", "scan", "probe", "list", "send"}
    /\ todo \subseteq Groups /\ group \in Groups /\ sha \in Commits
    /\ probes \subseteq Services /\ missing \subseteq Services
    /\ DOMAIN facts \subseteq missing /\ \A s \in DOMAIN facts : facts[s] \in Facts
    /\ pending \subseteq Run
    /\ pushes \in 0..MaxPushes /\ releases \in 0..MaxReleases
    /\ failures \in 0..MaxFailures

Init ==
    /\ head \in [Groups -> Commits]
    /\ built = {}
    /\ latest \in [Services -> Commits \cup {NoCommit}]
    /\ \A g \in Groups : \A s \in ServicesOf[g] :
          latest[s] # NoCommit => Reaches(head[g], latest[s])
    /\ running = {} /\ waiting = {}
    /\ pc = "idle"
    /\ todo = {} /\ group \in Groups /\ sha = head[group]
    /\ probes = {} /\ missing = {} /\ facts = <<>>
    /\ pending = {}
    /\ pushes = 0 /\ releases = 0 /\ failures = 0

-----------------------------------------------------------------------------
(* Runs of build.yml.  Its concurrency group is build-<target>-<ref>: a    *)
(* run waits behind an active one, and replaces the one that waited.       *)

SameQueue(r, q) == r.target = q.target /\ r.ref = q.ref

Start(r) ==
    IF \E q \in running : SameQueue(q, r)
    THEN /\ waiting' = {q \in waiting : ~SameQueue(q, r)} \cup {r}
         /\ UNCHANGED running
    ELSE running' = running \cup {r} /\ UNCHANGED waiting

\* input-fingerprint compare: an image that does not exist has no inputs.
SameInputs(s, c, d) == c # NoCommit /\ Inputs[s][c] = Inputs[s][d]

\* The promotion gate: not older than :latest, on the branch, and HEAD or as
\* good as HEAD.  HEAD is that of the moment h the gate looked, which is before
\* the tag is written: the branch may have moved on since, how far is left open.
Promotable(s, c) ==
    /\ latest[s] # NoCommit => Reaches(c, latest[s])
    /\ \A g \in Groups : s \in ServicesOf[g] =>
          \E h \in Commits : Reaches(head[g], h) /\ Reaches(h, c) /\ SameInputs(s, c, h)

\* An active run publishes its images in any order, one tag at a time.
Publishes(r, s) ==
    /\ r \in running
    /\ s \in ServicesIn(r.target)
    /\ UNCHANGED <<head, queues, pc, scan, pending, counters>>

MarkBuilt(r, s) ==
    /\ Publishes(r, s)
    /\ <<s, r.ref>> \notin built
    /\ built' = built \cup {<<s, r.ref>>}
    /\ UNCHANGED latest

Promote(r, s) ==
    /\ Publishes(r, s)
    /\ r.promote
    /\ <<s, r.ref>> \in built
    /\ Promotable(s, r.ref)
    /\ latest' = [latest EXCEPT ![s] = r.ref]
    /\ UNCHANGED built

\* A run ends, and the next in its queue starts.
EndRun(r) ==
    /\ LET next == {q \in waiting : SameQueue(q, r)}
       IN  running' = (running \ {r}) \cup next /\ waiting' = waiting \ next
    /\ UNCHANGED <<world, pc, scan, pending>>

-----------------------------------------------------------------------------
(* A round: "Find source commits that have no image yet".                  *)

\* The round is over, whatever it had decided; the next one starts afresh.
EndRound ==
    /\ pc' = "idle"
    /\ todo' = {} /\ probes' = {} /\ missing' = {} /\ facts' = <<>>
    /\ pending' = {}
    /\ UNCHANGED <<world, queues, group, sha>>

StartRound ==
    /\ pc = "idle"
    /\ pc' = "scan"
    /\ todo' = Groups
    /\ pending' = {}
    /\ UNCHANGED <<world, queues, group, sha, probes, missing, facts, counters>>

ReadHead(g) ==
    /\ pc = "scan"
    /\ g \in todo
    /\ todo' = todo \ {g}
    /\ group' = g
    /\ sha' = head[g]
    /\ probes' = ServicesOf[g]
    /\ missing' = {}
    /\ pc' = "probe"
    /\ UNCHANGED <<world, queues, facts, pending, counters>>

\* Faulty variant for EveryHeadSettles: one image stands for its group.
ProbeRepresentative(s) ==
    /\ pc = "probe"
    /\ s \in probes
    /\ probes' = {}
    /\ missing' = IF <<s, sha>> \in built THEN {} ELSE ServicesOf[group]
    /\ UNCHANGED <<world, queues, pc, todo, group, sha, facts, pending, counters>>

\* Is there a built-<sha> of image s?
Probe(s) ==
    /\ pc = "probe"
    /\ s \in probes
    /\ probes' = probes \ {s}
    /\ missing' = IF <<s, sha>> \in built THEN missing ELSE missing \cup {s}
    /\ UNCHANGED <<world, queues, pc, todo, group, sha, facts, pending, counters>>

NothingMissing ==
    /\ pc = "probe" /\ probes = {} /\ missing = {}
    /\ pc' = "scan"
    /\ UNCHANGED <<world, queues, scan, pending, counters>>

\* decide() for image s, the truth or, with provenance or inputs unknown, what
\* is left of it when the registry, the attestation or the source tree does
\* not answer.  The recipe of the promoted image is the present one.
FactsAbout(s, provenance, unread) ==
    [promoted   |-> latest[s],
     provenance |-> provenance,
     recipe     |-> "unchanged",
     inputs     |-> CASE unread -> "unknown"
                      [] ~unread /\ SameInputs(s, latest[s], sha) -> "unchanged"
                      [] ~unread /\ ~SameInputs(s, latest[s], sha) -> "changed",
     floating   |-> FALSE]

WithAnswer(s, answer) ==
    [t \in DOMAIN facts \cup {s} |-> IF t = s THEN answer ELSE facts[t]]

Asks(s) ==
    /\ pc = "probe" /\ probes = {}
    /\ s \in missing \ DOMAIN facts
    /\ UNCHANGED <<world, queues, pc, todo, group, sha, probes, missing, pending>>

Ask(s) ==
    /\ Asks(s)
    /\ facts' = WithAnswer(s, FactsAbout(s, "verified", FALSE))
    /\ UNCHANGED counters

AskInVain(s) ==
    /\ Asks(s)
    /\ failures < MaxFailures
    /\ \E provenance \in {"verified", "unknown"} :
          facts' = WithAnswer(s, FactsAbout(s, provenance, TRUE))
    /\ failures' = failures + 1
    /\ UNCHANGED <<pushes, releases>>

\* The dispatch for the group, and its migration_base if it needs one: that
\* of the baselines of all missing images, in some order.
Dispatch ==
    LET build == {s \in missing : ~Skips(facts[s], sha)}
        bases == {facts[s].promoted : s \in missing}
        first == facts[CHOOSE s \in missing : TRUE].promoted
    IN  [by |-> 0, target |-> Target(group, build, missing), ref |-> sha,
         promote |-> FALSE,
         base |-> IF group \in OpsGroups /\ \A s \in missing : Baseline(facts[s], sha)
                  THEN MigrationBase(first, bases) ELSE NoCommit,
         wanted |-> missing, build |-> build]

Asked == pc = "probe" /\ probes = {} /\ missing # {} /\ DOMAIN facts = missing

Refused == Dispatch.build # {} /\ group \in OpsGroups /\ Dispatch.base = NoCommit

Decide ==
    /\ Asked
    /\ ~Refused
    /\ pending' = IF Dispatch.build = {} THEN pending ELSE pending \cup {Dispatch}
    /\ pc' = "scan"
    /\ missing' = {} /\ facts' = <<>>
    /\ UNCHANGED <<world, queues, todo, group, sha, probes, counters>>

\* An ops group without a migration_base ends the whole round.
RefuseOps ==
    /\ Asked
    /\ Refused
    /\ EndRound
    /\ UNCHANGED counters

ScanEnds ==
    /\ pc = "scan" /\ todo = {}
    /\ IF pending = {} THEN EndRound
       ELSE pc' = "list" /\ UNCHANGED <<world, queues, scan, pending>>
    /\ UNCHANGED counters

-----------------------------------------------------------------------------
(* A round: "Trigger builds".                                              *)

\* Faulty variant for PollNeverRepeats: only queued runs are given way to.
QueuedRuns == waiting

ActiveRuns == running \cup waiting

\* Any active run of build.yml defers the whole round.
ListRuns ==
    /\ pc = "list"
    /\ IF ActiveRuns # {} THEN EndRound
       ELSE pc' = "send" /\ UNCHANGED <<world, queues, scan, pending>>
    /\ UNCHANGED counters

\* gh workflow run build.yml, one dispatch after the other.
Send(r) ==
    /\ pc = "send"
    /\ r \in pending
    /\ Start(r)
    /\ pending' = pending \ {r}
    /\ pc' = IF pending = {r} THEN "idle" ELSE "send"
    /\ UNCHANGED <<world, scan, counters>>

\* A query or a dispatch fails, the job times out, or it was a dry run.
PollFails ==
    /\ pc # "idle"
    /\ failures < MaxFailures
    /\ failures' = failures + 1
    /\ EndRound
    /\ UNCHANGED <<pushes, releases>>

-----------------------------------------------------------------------------
(* The environment.                                                        *)

Push(g) ==
    /\ pushes < MaxPushes
    /\ pushes' = pushes + 1
    /\ \E c \in Commits \ {head[g]} :
          /\ Reaches(c, head[g])
          /\ head' = [head EXCEPT ![g] = c]
    /\ UNCHANGED <<built, latest, queues, pc, scan, pending, releases, failures>>

\* ship.sh builds and promotes the HEAD of a group.
Release(g) ==
    /\ releases < MaxReleases
    /\ releases' = releases + 1
    /\ Start([by |-> releases', target |-> g, ref |-> head[g], promote |-> TRUE,
              base |-> NoCommit, wanted |-> {}, build |-> {}])
    /\ UNCHANGED <<world, pc, scan, pending, pushes, failures>>

Round ==
    \/ StartRound \/ NothingMissing \/ Decide \/ RefuseOps \/ ScanEnds \/ ListRuns
    \/ \E g \in Groups : ReadHead(g)
    \/ \E s \in Services : Probe(s) \/ Ask(s)
    \/ \E r \in pending : Send(r)

\* A run is over when its images are marked; what it has not promoted by then,
\* its gate has refused.
Succeed(r) ==
    /\ \A s \in ServicesIn(r.target) : <<s, r.ref>> \in built
    /\ EndRun(r)
    /\ UNCHANGED counters

\* A run fails, before or while it publishes.
Fail(r) ==
    /\ failures < MaxFailures
    /\ failures' = failures + 1
    /\ EndRun(r)
    /\ UNCHANGED <<pushes, releases>>

\* What an active run does by itself.
Proceed(r) == Succeed(r) \/ \E s \in Services : MarkBuilt(r, s)

Next ==
    \/ Round \/ PollFails
    \/ \E s \in Services : AskInVain(s)
    \/ \E r \in running : Proceed(r) \/ Fail(r) \/ \E s \in Services : Promote(r, s)
    \/ \E g \in Groups : Push(g) \/ Release(g)

Spec == Init /\ [][Next]_vars

\* Rounds keep coming (cron, kick-builds.sh, the chain), their steps and the
\* runs have timeouts, and after MaxFailures failures things work.
Fairness ==
    /\ WF_vars(Round)
    /\ WF_vars(\E r \in running : Proceed(r))

FairSpec == Spec /\ Fairness

-----------------------------------------------------------------------------
(* Properties.                                                             *)

\* The poller never has two runs for the same image and commit, although it
\* remembers nothing and a run marks its images only as it ends.
PollNeverRepeats ==
    \A r, q \in running \cup waiting :
        r # q /\ r.by = 0 /\ q.by = 0 /\ r.ref = q.ref
            => ServicesIn(r.target) \cap ServicesIn(q.target) = {}

\* The migrations an ops run validates start at or before what each image it
\* was decided for has promoted, then and ever after.
BaseCoversConsidered ==
    \A r \in pending \cup running \cup waiting :
        r.base # NoCommit => \A s \in r.wanted : /\ latest[s] # NoCommit
                                                 /\ Reaches(latest[s], r.base)

\* Nothing to do for image s of group g: HEAD is built, or is the same.
Settled(g, s) == <<s, head[g]>> \in built \/ SameInputs(s, latest[s], head[g])

\* When pushes, releases and failures have stopped, every image of every HEAD
\* is built or known to be needless: no half-built group, lost dispatch or
\* deferred round leaves one behind.
EveryHeadSettles == <>[](\A g \in Groups : \A s \in ServicesOf[g] : Settled(g, s))

\* README.md:80 "choosing the earliest group member when versions differ":
\* migrations are validated from the oldest promoted image of what is built.
BaseCoversGroup ==
    \A r \in pending : r.base # NoCommit =>
        \A s \in ServicesIn(r.target) : Reaches(latest[s], r.base)
=============================================================================
